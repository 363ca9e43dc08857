SPECIFICATION FairSpec
CONSTANTS
  Channels = {"c1", "c2"}
  Orders = {"small", "large"}
  OptionSets <- AnyOrSmall
  OrderIds = {"o1", "o2"}
  MaxRequests = 6
  MayFail = {"connection", "client", "LSP", "repeat"}
INVARIANTS
  OrdersAgree
  OrdersAreNotRefunded
  OrdersAreNotRefused
  PeersAreNotIgnored
PROPERTY OrdersProceed
CHECK_DEADLOCK FALSE
