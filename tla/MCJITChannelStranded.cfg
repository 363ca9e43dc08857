SPECIFICATION Spec
CONSTANTS
  U64_MAX = 4000000
  Ids = {1, 2}
  Hashes = {1, 2}
  PaymentHash <- HashOfEach
  Amounts = {2, 4}
  Offers <- FixedSizeOffers
  HTLCMayTimeOut = TRUE
  OtherTraffic = FALSE
INVARIANT ForwardStateIsBacked
CHECK_DEADLOCK FALSE
