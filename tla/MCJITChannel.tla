---------------------------- MODULE MCJITChannel ----------------------------
(***************************************************************************)
(* Instances of JITChannel: which HTLCs belong to which payment, and the    *)
(* offers a client may have bought.                                         *)
(***************************************************************************)
EXTENDS JITChannel

\* Every HTLC is a payment of its own.
HashOfEach == [id \in Ids |-> id]

\* The first two HTLCs are the parts of one payment.
HashOfParts == [id \in Ids |-> IF id \in {1, 2} THEN 1 ELSE id]

AnOffer(size, min_fee, rate, smallest, largest) ==
  [payment_size_msat |-> size, min_fee_msat |-> min_fee, proportional |-> rate,
   min_payment_size_msat |-> smallest, max_payment_size_msat |-> largest]

\* A fixed payment size (MPP), with a flat and with a proportional fee, and
\* sizes the buy request must have refused.
FixedSizeOffers ==
  {AnOffer(4, 3, 0, 1, 10), AnOffer(4, 1, 500000, 1, 10),
   AnOffer(4, 4, 0, 1, 10), AnOffer(4, 2, 0, 5, 10)}

\* No fixed size: the fee may exceed the payment, and the payment may be
\* below or above the limits.
VariableSizeOffers ==
  {AnOffer(None, 2, 0, 1, 10), AnOffer(None, 0, 500000, 2, 3),
   AnOffer(None, 1, 0, 2, 10)}

AllOffers == FixedSizeOffers \cup VariableSizeOffers
=============================================================================
