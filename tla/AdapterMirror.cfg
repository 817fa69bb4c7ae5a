SPECIFICATION FairSpec
CONSTANTS
  Temps = {0, 1}
  Absent = Absent
  MaxInFlight = 2
INVARIANTS
  CacheMirrorsServer
  ViewMirrorsDevice
  CoolerStateAgrees
PROPERTIES
  AutoconnectWorks
