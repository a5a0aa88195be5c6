SPECIFICATION PagesSpec
CONSTANTS
  hall = hall
  attic = attic
  desk1 = desk1
  desk2 = desk2
  own = own
  NoArea = NoArea
  NoSpace = NoSpace
  NoTime = NoTime
  EditorAreas = {hall, attic}
  EditorSpaces = {desk1, desk2}
  EditorAreaOf <- MCAreaOf
  EditorNow = 0
  EditorPicks = {4}
  EditorPreferences <- MCPreferences
  BrowserOffset = 1
  Openings <- MCOpenings
  Visits <- MCVisits
  MinutesPerHour = 1
  HoursPerDay = 3
  DaysPerWeek = 2
  SpaceAdmins = {}
  ZoneOffset = 0
  Settings <- MCSettings
  SpaceAttributes = {desk}
  HoursOfDay = 3
  Durations = {0, 3, 4, 6}
  Domains = {own, other}
  OwnDomain = own
  Blank = Blank
  NoDomain = NoDomain
  Accounts = {work, home}
  NoAccount = NoAccount
  EmptyField = EmptyField
CHECK_DEADLOCK FALSE
INVARIANT SaveGivesLink
