----------------------------- MODULE LSPS2Fees -----------------------------
(***************************************************************************)
(* The arithmetic of the JIT channel opening fee: lsps2/utils.rs computes   *)
(* the fee of a payment, lsps2/service.rs splits it over the HTLCs of the   *)
(* payment that pays it.  Amounts are natural numbers of msat; a u64 result *)
(* that does not fit is None, as checked_mul and checked_add return it.     *)
(***************************************************************************)
EXTENDS Integers, Sequences

CONSTANT U64_MAX  \* the largest u64; small in model checking, so that the
                  \* overflow paths are reached

ASSUME U64Assumption == U64_MAX \in Nat

None == -1        \* Option::None, where the other values are natural numbers

Lesser(a, b) == IF a <= b THEN a ELSE b
Greater(a, b) == IF a >= b THEN a ELSE b

saturating_sub(a, b) == IF a >= b THEN a - b ELSE 0

checked(n) == IF n <= U64_MAX THEN n ELSE None

(* Mutant of compute_opening_fee: the fee is rounded down.                  *)
compute_opening_fee_rounded_down(payment_size_msat, min_fee_msat, proportional) ==
  LET product == checked(payment_size_msat * proportional)
  IN  IF product = None THEN None
      ELSE Greater(product \div 1000000, min_fee_msat)

(* max(ceil(payment_size * proportional / 1_000_000), min_fee), or None on  *)
(* overflow of the product or of the rounding addend.                       *)
compute_opening_fee(payment_size_msat, min_fee_msat, proportional) ==
  LET product == checked(payment_size_msat * proportional)
      rounded == IF product = None THEN None ELSE checked(product + 999999)
  IN  IF rounded = None THEN None
      ELSE Greater(rounded \div 1000000, min_fee_msat)

(* Running total of a sequence of amounts.                                  *)
SumTo(amounts) ==
  LET sum[n \in 0..Len(amounts)] ==
        IF n = 0 THEN 0 ELSE sum[n - 1] + amounts[n]
  IN  sum[Len(amounts)]

(* Mutant of the split: the rounding remainder is borne by no HTLC.         *)
split_without_remainder(amounts, total_fee_msat) ==
  IF total_fee_msat > SumTo(amounts) THEN <<>>
  ELSE [i \in 1..Len(amounts) |->
          amounts[i] - (total_fee_msat * amounts[i]) \div SumTo(amounts)]

(* Mutant of the split: each HTLC bears all it can until the fee is paid.   *)
split_first_pays_all(amounts, total_fee_msat) ==
  LET before(i) == SumTo(SubSeq(amounts, 1, i - 1))
  IN  IF total_fee_msat > SumTo(amounts) THEN <<>>
      ELSE [i \in 1..Len(amounts) |->
              amounts[i] - Lesser(amounts[i],
                                  saturating_sub(total_fee_msat, before(i)))]

(* What is forwarded of each HTLC when total_fee_msat is skimmed: each HTLC *)
(* bears its proportional part rounded down, the last one what remains, and *)
(* no HTLC bears more than its amount.                                      *)
calculate_amount_to_forward_per_htlc(amounts, total_fee_msat) ==
  LET total == SumTo(amounts)
      n     == Len(amounts)
      proportional_fee(i) == (total_fee_msat * amounts[i]) \div total
      actual_fee(i, remaining) ==
        Lesser(Lesser(remaining, proportional_fee(i)), amounts[i])
      fee_remaining[i \in 0..n] ==
        IF i = 0 THEN total_fee_msat
        ELSE fee_remaining[i - 1] - actual_fee(i, fee_remaining[i - 1])
      skim(i) == actual_fee(i, fee_remaining[i - 1])
                   + IF i = n THEN fee_remaining[n] ELSE 0
  IN  IF total_fee_msat > total THEN <<>>
      ELSE [i \in 1..n |-> saturating_sub(amounts[i], skim(i))]

=============================================================================
