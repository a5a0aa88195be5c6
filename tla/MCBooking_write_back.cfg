SPECIFICATION FairSpec
CONSTANTS
  ann = ann
  bob = bob
  desk1 = desk1
  desk2 = desk2
  floor = floor
  Nil = Nil
  Handlers = {h1}
  Goroutines = {g1, g2}
  Users = {bob}
  InitialUsers = {bob}
  SpaceAdmins = {}
  CalDavUsers = {bob}
  Spaces = {desk1}
  Locations = {floor}
  LocationOf <- MCLocationOf
  MaxConcurrentBookings <- MCNoCapacity
  Windows <- MCTwoWindows
  Untils = {}
  MaxBookings = 1
  MaxEvents = 3
  MaxNow = 0
  MaxFaults = 0
  MinutesPerHour = 2
  HoursPerDay = 2
  DaysPerWeek = 1
  ZoneOffset = 0
  Settings <- MCOpenSettings
PROPERTIES WriteBackKeepsBooking
