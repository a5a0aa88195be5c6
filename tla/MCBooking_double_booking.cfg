SPECIFICATION Spec
CONSTANTS
  ann = ann
  bob = bob
  desk1 = desk1
  desk2 = desk2
  floor = floor
  Nil = Nil
  Handlers = {h1, h2}
  Goroutines = {}
  Users = {bob}
  InitialUsers = {bob}
  SpaceAdmins = {}
  CalDavUsers = {}
  Spaces = {desk1}
  Locations = {floor}
  LocationOf <- MCLocationOf
  MaxConcurrentBookings <- MCNoCapacity
  Windows <- MCThreeWindows
  Untils = {}
  MaxBookings = 2
  MaxEvents = 0
  MaxNow = 0
  MaxFaults = 0
  MinutesPerHour = 2
  HoursPerDay = 2
  DaysPerWeek = 1
  ZoneOffset = 0
  Settings <- MCOpenSettings
SYMMETRY HandlerSymmetry
INVARIANTS NoDoubleBooking
