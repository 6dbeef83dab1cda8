SPECIFICATION Spec
CONSTANTS
  Msg = {"bid", "accept", "resent", "unknown"}
  Prerequisite <- BidAndAccept
  CopyOf <- Resent
  Refused = {"resent"}
  Unheard = {"unknown"}
  LooksAgain = {"accept"}
  Found = {"bid"}
  Workers = 2
  PageLimit = 10
  MaxNotices = 1
  MaxCrashes = 1
  Unreliable = TRUE
CONSTRAINT UnknownAlone
INVARIANTS TypeOK HandledOnce NeverLost StatusTellsHandling Attended
PROPERTY FateIsFinal
CHECK_DEADLOCK FALSE
