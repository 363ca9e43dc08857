--------------------------- MODULE MCLSPS2Service ---------------------------
(* Instances of LSPS2Service: the terms of the LSP and the payments.        *)
EXTENDS LSPS2Channels

CONSTANTS h1, h2, h3

\* Two HTLCs are the parts of one payment, the third is another payment.
HashOfParts == [id \in Ids |-> IF id \in {h1, h2} THEN h1 ELSE id]

FlatFee(fee) == [min_fee_msat |-> fee, proportional |-> 0,
                 min_payment_size_msat |-> 2, max_payment_size_msat |-> 3]

\* HTLCs of 2 msat can pay the first fee only, unless they are parts.
TwoTerms == {FlatFee(1), FlatFee(2)}

FixedOrVariable == {3, None}

SameName == [s \in Scids |-> s]

Symmetric == {p @@ q @@ r : p \in Permutations(Peers), q \in Permutations(Scids),
                            r \in Permutations({h1, h2})}
=============================================================================
