---------------------------- MODULE MCLSPS2Fees ----------------------------
(***************************************************************************)
(* Model checking of the fee arithmetic: an offer is drawn in the initial   *)
(* state and the parts of a payment arrive one by one, so that the states   *)
(* reached are the bounded inputs of the two functions.                     *)
(***************************************************************************)
EXTENDS LSPS2Fees

CONSTANTS MinFees,        \* min_fee_msat values of the offers
          Proportionals,  \* proportional values, in parts per million
          PartAmounts,    \* msat amounts of one HTLC
          MaxParts        \* bound: HTLCs of one payment

VARIABLES min_fee_msat, proportional, amounts
vars == <<min_fee_msat, proportional, amounts>>

Init == /\ min_fee_msat \in MinFees
        /\ proportional \in Proportionals
        /\ amounts = <<>>

Arrive == /\ Len(amounts) < MaxParts
          /\ \E a \in PartAmounts : amounts' = Append(amounts, a)
          /\ UNCHANGED <<min_fee_msat, proportional>>

Spec == Init /\ [][Arrive]_vars

size == SumTo(amounts)
product == size * proportional
fee == compute_opening_fee(size, min_fee_msat, proportional)
forwards == calculate_amount_to_forward_per_htlc(amounts, fee)
skimmed == size - SumTo(forwards)

(* The fee can be skimmed when it was computed and the payment covers it.   *)
Payable == amounts # <<>> /\ fee # None /\ fee <= size

(* utils.rs:52 computes the least fee that is at least the minimum and      *)
(* covers proportional parts per million of the payment; None exactly when  *)
(* the product with its rounding addend does not fit a u64.                 *)
FeeIsLeastCover ==
  IF product + 999999 > U64_MAX
  THEN fee = None
  ELSE /\ fee >= min_fee_msat
       /\ fee * 1000000 >= product
       /\ fee > min_fee_msat => (fee - 1) * 1000000 < product

(* service.rs:1139: skimming the fee from the HTLCs of a payment never      *)
(* takes more than the fee, and takes all of it unless the last HTLC cannot *)
(* bear what the rounding left over; what is lost then stays below the      *)
(* number of HTLCs.                                                         *)
SkimIsFeeUpToRounding ==
  Payable => /\ Len(forwards) = Len(amounts)
             /\ skimmed <= fee
             /\ skimmed < fee => forwards[Len(amounts)] = 0
             /\ skimmed > fee - Len(amounts)

(* service.rs:1150-1167: no HTLC bears more than its share of the fee, but  *)
(* for the rounding remainder of the others on the last one.                *)
FeeIsSharedProportionally ==
  Payable => \A i \in 1..Len(forwards) :
               LET skim == amounts[i] - forwards[i]
                   slack == IF i = Len(amounts) THEN Len(amounts) - 1 ELSE 0
               IN  skim \in 0..((fee * amounts[i]) \div size + slack)
=============================================================================
