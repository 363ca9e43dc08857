---------------------------- MODULE PaymentQueue ----------------------------
(***************************************************************************)
(* lsps2/payment_queue.rs: the intercepted HTLCs of a JIT channel, grouped  *)
(* by payment hash in order of first arrival, held until one payment can    *)
(* pay the opening fee.                                                     *)
(*                                                                         *)
(* A payment carries the running total of its amounts; the code sums them   *)
(* again wherever it needs the total.                                       *)
(***************************************************************************)
EXTENDS Integers, Sequences, SequencesExt

CONSTANTS Ids,            \* intercept ids
          Hashes,         \* payment hashes
          PaymentHash     \* the payment each intercepted HTLC belongs to

ASSUME PaymentHashAssumption == PaymentHash \in [Ids -> Hashes]

Payment == [payment_hash : Hashes, htlcs : Seq(Ids), total_msat : Nat]

(* The HTLCs of a payment, and those of a queue.                            *)
QueuedIds(queue) == UNION {Range(queue[i].htlcs) : i \in DOMAIN queue}

(* Mutant of add_htlc: each HTLC becomes a payment of its own.              *)
add_htlc_ungrouped(queue, id, amount_msat) ==
  Append(queue, [payment_hash |-> PaymentHash[id],
                 htlcs |-> <<id>>, total_msat |-> amount_msat])

(* The index of the payment of a hash, 0 if there is none.                  *)
find(queue, hash) ==
  LET same(p) == p.payment_hash = hash
  IN  SelectInSeq(queue, same)

(* The HTLC joins the payment of its hash, or opens one at the end.         *)
add_htlc(queue, id, amount_msat) ==
  LET i == find(queue, PaymentHash[id])
  IN  IF i # 0
      THEN [queue EXCEPT ![i].htlcs = Append(@, id),
                         ![i].total_msat = @ + amount_msat]
      ELSE Append(queue, [payment_hash |-> PaymentHash[id],
                          htlcs |-> <<id>>, total_msat |-> amount_msat])

(* The index of the first payment of at least amount_msat, 0 if none is.    *)
position(queue, amount_msat) ==
  LET sufficient(p) == p.total_msat >= amount_msat
  IN  SelectInSeq(queue, sufficient)

(* pop_greater_than_msat returns the payment at position and removes it.    *)
popped(queue, amount_msat) == queue[position(queue, amount_msat)]
rest(queue, amount_msat) == RemoveAt(queue, position(queue, amount_msat))

(* Mutant of clear: only the first payment is released.                     *)
clear_first(queue) == IF queue = <<>> THEN <<>> ELSE queue[1].htlcs

(* clear returns every HTLC, payment by payment.                            *)
clear(queue) == FlattenSeq([i \in DOMAIN queue |-> queue[i].htlcs])
=============================================================================
