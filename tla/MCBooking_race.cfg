SPECIFICATION Spec
CONSTANTS
  ann = ann
  bob = bob
  desk1 = desk1
  desk2 = desk2
  floor = floor
  Nil = Nil
  Handlers = {h1, h2}
  Goroutines = {}
  Users = {bob}
  InitialUsers = {bob}
  SpaceAdmins = {}
  CalDavUsers = {}
  Spaces = {desk1, desk2}
  Locations = {floor}
  LocationOf <- MCLocationOf
  MaxConcurrentBookings <- MCCapacity1
  Windows <- MCNestedWindows
  Untils = {}
  MaxBookings = 3
  MaxEvents = 0
  MaxNow = 0
  MaxFaults = 1
  MinutesPerHour = 2
  HoursPerDay = 2
  DaysPerWeek = 1
  ZoneOffset = 0
  Settings <- MCUserLimits
SYMMETRY DeskSymmetry
INVARIANTS DoubleBookingIsARace CapacityExceededByRacesOnly UserLimitsExceededByRacesOnly
