\* Offers around the interesting rates; the U64_MAX of the model makes the
\* product overflow for the larger payments.
SPECIFICATION Spec
CONSTANTS
  U64_MAX = 18000000
  MinFees = {0, 1, 5, 10}
  Proportionals = {0, 1, 150000, 333333, 900000, 1000000}
  PartAmounts = {1, 2, 3, 5, 7}
  MaxParts = 4
INVARIANTS
  FeeIsLeastCover
  SkimIsFeeUpToRounding
  FeeIsSharedProportionally
\* The enumeration of inputs ends at MaxParts.
CHECK_DEADLOCK FALSE
