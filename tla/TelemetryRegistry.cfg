SPECIFICATION Spec
CONSTANTS
    Clients = {c1, c2}
    Publishers = {p1, p2}
    Ticker = Ticker
    MaxClients = 1
    Rates = {0, 1, 2}
    MaxEvents = 2
    Idle = Idle
INVARIANTS RegistryAgrees CapacityExceededByLateOnly EventsInFull
PROPERTIES GoneIsForgotten
CHECK_DEADLOCK FALSE
