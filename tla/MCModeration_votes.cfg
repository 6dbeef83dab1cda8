SPECIFICATION Spec
CONSTANTS
  Voter = {"own", "other"}
  Mine = {"own"}
  Needed = 0
  MaxBalance = 1
  Spender = {"own"}
  MaxListings = 1
  Relations = {"favorite"}
  MaxCrashes = 0
INVARIANTS TypeOK OthersVoteOnce HiddenByOwnVote
CHECK_DEADLOCK FALSE
