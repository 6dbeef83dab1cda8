SPECIFICATION Spec
CONSTANTS
  Multisig = TRUE
  Allowed <- Everything
  Resendable = {}
  MaxRepeats = 1
  MaxResends = 0
  MaxMessages = 6
  Mortal = {"buyer"}
CONSTRAINT RejectedEarly
INVARIANTS History Handshake EscrowBacked ReservedUntilDead
CHECK_DEADLOCK FALSE
