SPECIFICATION FairSpec
CONSTANTS
    MaxCaptures = 2
    MaxInFlight = 9
    Aborters = {}
    SendSuspends = FALSE
    PublishSuspends = FALSE
    LinkDrops = TRUE
    ImagesVisible = TRUE
    DeviceRejects = FALSE
PROPERTIES ExposureEnds
CHECK_DEADLOCK FALSE
