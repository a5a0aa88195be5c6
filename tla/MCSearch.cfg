SPECIFICATION FairSpec
CONSTANTS
  hall = hall
  attic = attic
  desk1 = desk1
  desk2 = desk2
  NoArea = NoArea
  NoSpace = NoSpace
  NoTime = NoTime
  Areas = {hall, attic}
  Spaces = {desk1, desk2}
  AreaOf <- MCAreaOf
  Slots = {1, 2}
  Now = 0
  Preferences <- MCPreferences
  PreferredArea = hall
  LinkedArea = NoArea
  LinkedSpace = desk2
  Picks = {6}
  Visits <- MCVisits
  MinutesPerHour = 1
  HoursPerDay = 3
  DaysPerWeek = 2
  SpaceAdmins = {}
  ZoneOffset = 0
  Settings <- MCSettings
CHECK_DEADLOCK FALSE
INVARIANTS SettledPageIsConsistent BookedAsConfirmed
PROPERTIES LoadingEnds
