\* A payment of two parts, and other HTLCs over the channel.
SPECIFICATION Spec
CONSTANTS
  U64_MAX = 4000000
  Ids = {1, 2, 3}
  Hashes = {1, 2, 3}
  PaymentHash <- HashOfParts
  Amounts = {2, 4}
  Offers <- AllOffers
  HTLCMayTimeOut = FALSE
  OtherTraffic = TRUE
INVARIANTS
  QueueIsWellFormed
  HeldHTLCsAreAccounted
  OpenChannelHasPayment
  
CHECK_DEADLOCK FALSE
