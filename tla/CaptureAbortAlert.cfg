SPECIFICATION Spec
CONSTANTS
    MaxCaptures = 2
    MaxInFlight = 9
    Aborters = {a1}
    SendSuspends = FALSE
    PublishSuspends = FALSE
    LinkDrops = FALSE
    ImagesVisible = TRUE
    DeviceRejects = FALSE
INVARIANTS OneOutcome
CHECK_DEADLOCK FALSE
