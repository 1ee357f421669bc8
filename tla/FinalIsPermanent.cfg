SPECIFICATION Spec
CONSTANTS
    Messages = {1}
    Drainers = {"serve", "cli"}
    Server = "serve"
    Limit = 2
    MaxAttempts = 2
    MaxFaults = 0
PROPERTY
    FinalIsPermanent
CHECK_DEADLOCK FALSE
