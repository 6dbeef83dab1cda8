SPECIFICATION FairSpec
CONSTANTS
  Msg = {"bid", "accept", "other"}
  Prerequisite <- OneWaitsInVain
  CopyOf <- NoCopies
  Refused = {}
  Unheard = {}
  LooksAgain = {"accept"}
  Found = {}
  Workers = 2
  PageLimit = 1
  MaxNotices = 1
  MaxCrashes = 1
  Unreliable = FALSE
PROPERTIES WaitingIsTakenUp DowntimeRecovered
CHECK_DEADLOCK FALSE
