SPECIFICATION FairSpec
CONSTANTS
  ann = ann
  bob = bob
  desk1 = desk1
  desk2 = desk2
  floor = floor
  Nil = Nil
  Handlers = {h1}
  Goroutines = {}
  Users <- MCUsers
  InitialUsers <- MCUsers
  SpaceAdmins = {}
  CalDavUsers = {}
  Spaces = {desk1, desk2}
  Locations = {floor}
  LocationOf <- MCLocationOf
  MaxConcurrentBookings <- MCCapacity2
  Windows <- MCThreeWindows
  Untils = {5}
  MaxBookings = 3
  MaxEvents = 0
  MaxNow = 0
  MaxFaults = 1
  MinutesPerHour = 2
  HoursPerDay = 2
  DaysPerWeek = 1
  ZoneOffset <- MCWest
  Settings <- MCUserLimits
PROPERTIES SeriesComplete KeepsPromise Answered
