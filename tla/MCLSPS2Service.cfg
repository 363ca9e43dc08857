\* Two channels of one peer or of two, a payment of two parts and another.
SPECIFICATION Spec
CONSTANTS
  h1 = h1
  h2 = h2
  h3 = h3
  U64_MAX = 4000000
  Ids = {h1, h2, h3}
  Hashes = {h1, h3}
  PaymentHash <- HashOfParts
  Peers = {a, b}
  Scids = {s1, s2}
  UserChannelId <- SameName
  OtherChannels = {c}
  RequestIds = {1}
  Amounts = {2}
  Terms <- TwoTerms
  Sizes <- FixedOrVariable
  MaxTime = 1
  Validity = {0}
  MaxEvents = 2
  MayTimeOut = {h3}
SYMMETRY Symmetric
INVARIANTS
  
  HeldHTLCsAreOwned
  BoughtOffersWereMade
  HTLCsFindTheirChannel
PROPERTIES
  RemovalStrandsNothing
  ChannelsAreJITChannels
CHECK_DEADLOCK FALSE
