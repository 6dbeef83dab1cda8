SPECIFICATION FairSpec
CONSTANTS
  Multisig = TRUE
  Allowed <- HappyPath
  Resendable = {"MPA_LOCK"}
  MaxRepeats = 1
  MaxResends = 1
  MaxMessages = 7
  Mortal = {}
INVARIANTS TypeOK Agreement
PROPERTIES KeepsOrderLifecycle EarlyMessageRecovered
CHECK_DEADLOCK FALSE
