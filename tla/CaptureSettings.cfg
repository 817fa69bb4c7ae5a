SPECIFICATION Spec
CONSTANTS
    Settings <- SomeSettings
    Values = {0, 1}
    MaxCaptures = 3
    MaxInFlight = 4
    PublishSuspends = TRUE
    ImagesVisible = TRUE
    DeviceRejects = FALSE
INVARIANTS SidecarTellsSettings
PROPERTIES KeepsExposure
CHECK_DEADLOCK FALSE
