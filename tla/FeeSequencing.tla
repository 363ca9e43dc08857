---------------------------- MODULE FeeSequencing ----------------------------
(***************************************************************************)
(* What a JIT channel promises the LSP: payments are forwarded one at a     *)
(* time, each with the opening fee skimmed, until one succeeds; only then   *)
(* are HTLCs forwarded without a fee.                                       *)
(***************************************************************************)
EXTENDS Integers

CONSTANT Ids            \* the HTLCs sent to the channel

VARIABLES paying,       \* HTLCs in flight with the fee skimmed
          paid,         \* a payment that bore the fee succeeded
          free          \* HTLCs forwarded in full, in flight or succeeded

vars == <<paying, paid, free>>

Init == paying = {} /\ paid = FALSE /\ free = {}

(* The next payment is forwarded with the fee skimmed.                      *)
ForwardPayment(htlcs) == /\ ~paid
                         /\ paying = {}
                         /\ paying' = htlcs
                         /\ UNCHANGED <<paid, free>>

(* An HTLC of the payment in flight succeeds or fails.                      *)
Succeed(id) == /\ id \in paying
               /\ paying' = paying \ {id}
               /\ paid' = TRUE
               /\ UNCHANGED free

Fail(id) == /\ id \in paying
            /\ paying' = paying \ {id}
            /\ UNCHANGED <<paid, free>>

(* The fee is paid: HTLCs are forwarded in full.                            *)
ForwardHTLCs(htlcs) == /\ paid
                       /\ free' = free \cup htlcs
                       /\ UNCHANGED <<paying, paid>>

Return(id) == /\ id \in free
              /\ free' = free \ {id}
              /\ UNCHANGED <<paying, paid>>

Next == \/ \E htlcs \in SUBSET Ids : ForwardPayment(htlcs) \/ ForwardHTLCs(htlcs)
        \/ \E id \in Ids : Succeed(id) \/ Fail(id) \/ Return(id)

Spec == Init /\ [][Next]_vars
=============================================================================
