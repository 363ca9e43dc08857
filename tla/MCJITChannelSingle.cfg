\* Single-part payments that may time out while held, nothing else on the
\* channel.
SPECIFICATION FairSpec
CONSTANTS
  U64_MAX = 4000000
  Ids = {1, 2, 3}
  Hashes = {1, 2, 3}
  PaymentHash <- HashOfEach
  Amounts = {2, 4}
  Offers <- AllOffers
  HTLCMayTimeOut = TRUE
  OtherTraffic = FALSE
INVARIANTS
  
  AtMostOneFeePayment
  NoFreeRide
  FeePaidOnce
  ForwardStateIsBackedInTime
  PendingPaymentIsIdle
PROPERTIES
  ImplementsSequencing
  FeePaymentSettles
  HeldHTLCsAreReleased
  PendingPaymentsProceed
CHECK_DEADLOCK FALSE
