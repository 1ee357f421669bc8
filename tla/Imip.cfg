SPECIFICATION MailSpec
CONSTANTS
    Messages = {1, 2, 3}
    Drainers = {"serve"}
    Server = "serve"
    Limit = 2
    MaxAttempts = 3
    MaxFaults = 1
    Attendees = {"ann", "bob"}
    Events = {"e", "f"}
    FirstEvent = "e"
    ObjectIds = {1, 2}
    Mails <- MCMails
    Said = {"NEEDS-ACTION", "ACCEPTED"}
    MaxMails = 2
    MaxChanges = 3
    ServesAfterLogout = TRUE
    MaxFailures = 1
INVARIANTS
    TypeOK
    SentWasAccepted
    BatchFresh
    GivenUpAtLimit
    DuplicatesHaveCauses
PROPERTIES
    SettledStays
    EverythingSettles
    AnswersComeFromNewMail
    
CHECK_DEADLOCK FALSE
