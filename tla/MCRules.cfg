SPECIFICATION Spec
CONSTANTS
  ann = ann
  bob = bob
  MaxTime = 20
  MaxRowTime = 4
  MinutesPerHour = 2
  HoursPerDay = 4
  DaysPerWeek = 2
  SpaceAdmins = {ann}
  ZoneOffset = 2
  Settings <- MCHourly
INVARIANTS
  AvailableMeansBookable
  SamplesSeeEveryPeak
  AcceptedIsWithinBounds
  OfferedMeansAccepted
PROPERTIES
  DeletionStaysClosed
