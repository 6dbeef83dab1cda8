SPECIFICATION Spec
CONSTANTS
  Voter = {"other"}
  Mine = {}
  Needed = 0
  MaxBalance = 1
  Spender = {}
  MaxListings = 1
  Relations = {"bid"}
  MaxCrashes = 0
PROPERTIES BidsSpareListing
CHECK_DEADLOCK FALSE
