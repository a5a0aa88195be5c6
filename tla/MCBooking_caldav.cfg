SPECIFICATION Spec
CONSTANTS
  ann = ann
  bob = bob
  desk1 = desk1
  desk2 = desk2
  floor = floor
  Nil = Nil
  Handlers = {h1}
  Goroutines = {g1, g2}
  Users <- MCUsers
  InitialUsers = {bob}
  SpaceAdmins = {bob}
  CalDavUsers = {bob}
  Spaces = {desk1}
  Locations = {floor}
  LocationOf <- MCLocationOf
  MaxConcurrentBookings <- MCNoCapacity
  Windows <- MCOneWindow
  Untils = {4}
  MaxBookings = 2
  MaxEvents = 2
  MaxNow = 1
  MaxFaults = 1
  MinutesPerHour = 2
  HoursPerDay = 2
  DaysPerWeek = 1
  ZoneOffset = 0
  Settings <- MCOpenSettings
SYMMETRY CalendarSymmetry
INVARIANTS EventsExist
PROPERTIES NoResurrection
