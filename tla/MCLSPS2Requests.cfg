\* The parts of a scid are small; one of the scids has all bits set, the other
\* a different value in each part.
SPECIFICATION FairSpec
CONSTANTS
  Null = Null
  Ids = {r1, r2}
  BlockBits = 3
  TxBits = 3
  VoutBits = 2
  Scids = {153, 255}
  Configs <- SomeConfigs
  MayFail = {"connection", "client", "LSP"}
INVARIANTS
  AnswersAreExpected
  PeersAreNotIgnored
  InvoicesHaveChannels
PROPERTY
  RequestsAreAnswered
CHECK_DEADLOCK FALSE
