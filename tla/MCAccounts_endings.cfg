SPECIFICATION FairSpec
CONSTANTS
  Handlers = {h1, h2}
  ann = ann
  bob = bob
  cem = cem
  a = a
  b = b
  Emails = {ann, bob, cem}
  Passwords = {a, b}
  NoPassword = none
  NoEmail = nobody
  Populations <- Anyone
  Scenarios <- Endings
  MaxFails = 2
  Window = 2
  BanLength = 1
  LoginLife = 1
  ResetLife = 1
  ShortLife = 1
  LongThreshold = 1
  LongLife = 2
  MaxUsers = 1
  AllowAnyUser = TRUE
  MaxRequests = 4
PROPERTIES
  BansEnd
  ExpiredCredentialsVanish
