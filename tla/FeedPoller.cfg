SPECIFICATION Spec
CONSTANTS
    u1 = u1
    u2 = u2
    u3 = u3
    h1 = h1
    h2 = h2
    Calendars = {1}
    Hrefs = {h1, h2}
    Uids = {u1, u2, u3}
    Comps = {"VEVENT"}
    Bodies = {"b"}
    Pollers = {"sweep", "handler"}
    Sweeper = "sweep"
    HrefOf <- MCHrefOf
    Documents <- MCDocuments
    Storable <- MCStorable
    BaseInterval <- MCInterval
    MaxBackoff = 2
    MaxVersions = 2
    MaxIncidents = 2
INVARIANTS
    FeedTypeOK
    UndisturbedPollShowsFeed
    UnchangedIsShown
PROPERTIES
    StandingEventsStay
    FeedArrives
CHECK_DEADLOCK FALSE
