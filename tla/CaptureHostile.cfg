SPECIFICATION Spec
CONSTANTS
    MaxCaptures = 3
    MaxInFlight = 3
    Aborters = {a1}
    SendSuspends = TRUE
    PublishSuspends = TRUE
    LinkDrops = TRUE
    ImagesVisible = FALSE
    DeviceRejects = TRUE
INVARIANTS ImagesInOrder CompletedNeverExposesAgain ReaderResetLosesNothing EndWillBeNotified
CHECK_DEADLOCK FALSE
