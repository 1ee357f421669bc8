SPECIFICATION Spec
CONSTANTS
    ann = ann
    bob = bob
    eve = eve
    s1 = s1
    s2 = s2
    Calendars = {"work"}
    Hrefs = {"h1"}
    Uids = {"u1"}
    Comps = {"VEVENT"}
    Bodies <- MCBodies
    ClientBodies <- MCPlainBodies
    InboxHref <- MCInboxHref
    Users = {ann, bob}
    Externals = {eve}
    Titles = {"t1", "t2"}
    CalendarOwner <- MCOwner
    Writers <- MCWriters
    Conditions = {"none"}
    Answers = {"ACCEPTED"}
    Slots = {s1}
    MaxRequests = 3
PROPERTY
    AnswersStick
CHECK_DEADLOCK FALSE
