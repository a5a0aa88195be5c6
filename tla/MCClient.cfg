SPECIFICATION FairSpec
CONSTANTS
  Tabs = {t1, t2}
  Slots = {1, 2}
  First = 1
  MaxTokens = 3
  MaxInputs = 5
CHECK_DEADLOCK FALSE
INVARIANTS OneRefreshPerPage NobodyWaitsInVain RefusedForAReason StoredOnRequest
  RememberedTokenWorks LoggedOutStaysOut
PROPERTIES VerificationEnds
