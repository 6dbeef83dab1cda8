SPECIFICATION FairSpec
CONSTANTS
  ProfileName = {"DEFAULT", "second"}
  MarketName = {"shop"}
  Address = {"shops"}
  Clients = {"gui"}
  Installs = {"new", "old"}
  MaxProfiles = 2
  MaxMarkets = 3
  MaxMishaps = 1
CONSTRAINT OneOfBoth
INVARIANTS TypeOK IdentityUsable MarketOfIdentity
PROPERTIES StaysSeeded BootReady OwedStarts
CHECK_DEADLOCK FALSE
