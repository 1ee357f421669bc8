SPECIFICATION SyncSpec
CONSTANTS
    work = work
    home = home
    r1 = r1
    r2 = r2
    Calendars = {work, home}
    Hrefs = {h1, h2}
    Uids = {u1, u2}
    Comps = {"VEVENT", "VTODO"}
    Bodies = {"v1"}
    Replicas = {r1, r2}
    Follows <- MCFollows
    MaxChanges = 5
INVARIANTS
    SyncTypeOK
    UniqueKeys
    JournalDense
    JournalTracksStore
    OpsTellHistory
    PendingChangesSuffice
PROPERTY ImplementsLiveCollection
SYMMETRY Symmetry
CHECK_DEADLOCK FALSE
