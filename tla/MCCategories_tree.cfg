SPECIFICATION Spec
CONSTANTS
  Market = {"home", "shop"}
  Home = "home"
  MarketType <- Types
  Part = {"a"}
  Name <- OneName
  Default <- RootAndChild
  Posted <- Others
  Levels = 1
  MaxCategories = 5
  MaxTemplates = 1
  MaxPosts = 1
  MaxUpdates = 1
  MaxStops = 1
CONSTRAINT FewThings
INVARIANTS TypeOK FiledAsSent StoredUnlessShaken
CHECK_DEADLOCK FALSE
