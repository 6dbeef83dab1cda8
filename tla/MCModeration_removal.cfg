SPECIFICATION FairSpec
CONSTANTS
  Voter = {"other"}
  Mine = {}
  Needed = 0
  MaxBalance = 1
  Spender = {}
  MaxListings = 2
  Relations = {"bid"}
  MaxCrashes = 1
INVARIANTS FlagsRefer 
PROPERTIES BidsKeepListing ProposalDecided VerdictCarriedOut
CHECK_DEADLOCK FALSE
