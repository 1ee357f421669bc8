SPECIFICATION Spec
CONSTANTS
    ann = ann
    bob = bob
    flow1 = flow1
    flow2 = flow2
    id1 = id1
    id2 = id2
    r1 = r1
    r2 = r2
    old = old
    new = new
    s1 = s1
    s2 = s2
    Accounts = {ann, bob}
    Developer = ann
    Flows = {flow1, flow2}
    SessionIds = {id1, id2}
    Keys = {"drawn first", "drawn second"}
    Processes = {old, new}
    Requests = {r1, r2}
    Overrides = {"configured"}
    MaxStarts = 2
    Subjects = {s1, s2}
    Emails = {"listed", "other"}
    AdminEmails = {"listed"}
    PasswordIds = {1}
    CalendarIds = {1}
    Handlers = {r1, r2}
    MaxBegun = 8
INVARIANTS
    KeysPersist
    RightsHaveGivers
PROPERTIES SessionsHaveLogins
SYMMETRY Symmetry
CHECK_DEADLOCK FALSE
