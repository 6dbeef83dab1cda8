SPECIFICATION Spec
CONSTANTS
  Hash = {"a"}
  Listing = {"item"}
  Market = {"market"}
  Depicts <- DepictsAll
  Scaled = {"THUMBNAIL"}
  Received = {"whole"}
  Observers = {"expiry"}
  MaxRows = 3
  MaxCrashes = 1
CONSTRAINT SomeUndisturbed
INVARIANTS TypeOK DataReadable NoFileLeft EarlyImagesShown
CHECK_DEADLOCK FALSE
