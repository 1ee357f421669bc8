SPECIFICATION Spec
CONSTANTS
    Uids = {"e", "f"}
    Zones = {"utc", "local", "date"}
    Names = {"DTSTAMP", "SUMMARY", "LOCATION", "CLASS", "X-ALT-DESC"}
    Times = {0, 1, 2, 3, 4, 5, 6}
    Wide = 8
    TokenIds = {1, 2}
    MaxHits = 2
    Window = 2
    ann = ann
    bob = bob
    s1 = s1
    s2 = s2
    Users = {ann, bob}
    Slots = {s1, s2}
    ViewIds = {1, 2}
    CalendarIds = {1, 2}
    Resources <- MCResources
    Settings <- MCSettings
    FieldForms <- MCFieldForms
    Lifetimes <- MCLifetimes
    From = 2
    To = 5
    MaxRequests = 3
    MaxClock = 2
INVARIANTS
    LinkShowsWhatTheViewAllows
    AtMostMaxPerWindow
    RetryIsExact
    BusyTimeIsReported
    MembersAreOwn
PROPERTIES
    FormTakesEffect
SYMMETRY Symmetry
CHECK_DEADLOCK FALSE
