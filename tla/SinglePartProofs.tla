-------------------------- MODULE SinglePartProofs --------------------------
(***************************************************************************)
(* Theorems about JITChannel when every payment has a single HTLC and the   *)
(* channel carries no other traffic: the fee is sought by one payment at a  *)
(* time and paid once, and FeeSequencing is implemented.  With payments of  *)
(* several HTLCs the code does not have these properties.                   *)
(***************************************************************************)
EXTENDS JITChannelProofs

(* Every HTLC has a payment hash of its own.                                *)
SinglePart == \A id, other \in Ids : PaymentHash[id] = PaymentHash[other]
                                       => id = other

-----------------------------------------------------------------------------
(* The queue: every HTLC is in the payment of its hash.                     *)

(* The HTLCs are of one payment.                                            *)
HaveHash(htlcs, hash) == \A i \in 1..Len(htlcs) : PaymentHash[htlcs[i]] = hash

HashesMatch(queue) ==
  \A i \in 1..Len(queue) : HaveHash(queue[i].htlcs, queue[i].payment_hash)

(* An HTLC of the hash may join.                                            *)
LEMMA AppendKeepsHash ==
  ASSUME NEW htlcs \in Seq(Ids), NEW id \in Ids, HaveHash(htlcs, PaymentHash[id])
  PROVE  HaveHash(Append(htlcs, id), PaymentHash[id])
BY DEF HaveHash

(* The fields of a payment to which HTLCs were added.                       *)
LEMMA UpdatedFields ==
  ASSUME NEW p \in Payment, NEW h \in Seq(Ids), NEW n \in Nat
  PROVE  LET q == [p EXCEPT !.htlcs = h, !.total_msat = n]
         IN  q.htlcs = h /\ q.payment_hash = p.payment_hash
BY DEF Payment

(* add_htlc puts an HTLC in the payment of its hash (payment_queue.rs:25-41).*)
LEMMA AddKeepsHashes ==
  ASSUME NEW queue \in Seq(Payment), HashesMatch(queue),
         NEW id \in Ids, NEW amount_msat \in Nat
  PROVE  HashesMatch(add_htlc(queue, id, amount_msat))
<1> DEFINE hash == PaymentHash[id]
           i == find(queue, hash)
           added == add_htlc(queue, id, amount_msat)
<1>1. CASE i # 0
  <2>1. i \in 1..Len(queue) /\ queue[i].payment_hash = hash
    BY <1>1, FindIsIndex
  <2> DEFINE htlcs == Append(queue[i].htlcs, id)
             total == queue[i].total_msat + amount_msat
             larger == [queue[i] EXCEPT !.htlcs = htlcs, !.total_msat = total]
  <2>2. queue[i] \in Payment
    BY <2>1
  <2>3. queue[i].htlcs \in Seq(Ids) /\ htlcs \in Seq(Ids) /\ total \in Nat
    BY <2>2 DEF Payment
  <2>4. HaveHash(htlcs, hash)
    BY <2>1, <2>3, AppendKeepsHash DEF HashesMatch
  <2>5. added = [queue EXCEPT ![i] = larger]
    BY <1>1 DEF add_htlc
  <2> HIDE DEF htlcs, total, i, added
  <2>6. larger.htlcs = htlcs /\ larger.payment_hash = hash
    BY <2>1, <2>2, <2>3, UpdatedFields
  <2> HIDE DEF larger
  <2>7. /\ Len(added) = Len(queue)
        /\ \A j \in 1..Len(queue) : added[j] = IF j = i THEN larger ELSE queue[j]
    BY <2>1, <2>5
  <2> QED
    BY <2>4, <2>6, <2>7 DEF HashesMatch, added
<1>2. CASE i = 0
  <2> DEFINE first == [payment_hash |-> hash, htlcs |-> <<id>>,
                       total_msat |-> amount_msat]
  <2>1. HaveHash(first.htlcs, first.payment_hash)
    BY DEF HaveHash
  <2>2. added = Append(queue, first)
    BY <1>2 DEF add_htlc
  <2> HIDE DEF first, added
  <2>3. \A j \in 1..Len(added) :
          \/ added[j] = first
          \/ j \in 1..Len(queue) /\ added[j] = queue[j]
    BY <2>2
  <2> QED
    BY <2>1, <2>3 DEF HashesMatch, added
<1> QED
  BY <1>1, <1>2

(* Popping gives HTLCs of one payment and leaves such payments              *)
(* (payment_queue.rs:43-50).                                                *)
LEMMA PopKeepsHashes ==
  ASSUME NEW queue \in Seq(Payment), HashesMatch(queue), NEW amount_msat,
         position(queue, amount_msat) # 0
  PROVE  /\ \E hash : HaveHash(popped(queue, amount_msat).htlcs, hash)
         /\ HashesMatch(rest(queue, amount_msat))
<1>1. PICK i \in 1..Len(queue) : popped(queue, amount_msat) = queue[i]
  BY PopIsFromQueue
<1>2. \A k \in 1..Len(rest(queue, amount_msat)) :
        \E j \in 1..Len(queue) : rest(queue, amount_msat)[k] = queue[j]
  BY PopIsFromQueue
<1>3. HashesMatch(rest(queue, amount_msat))
  BY <1>2 DEF HashesMatch
<1> QED
  BY <1>1, <1>3 DEF HashesMatch

-----------------------------------------------------------------------------
(* The methods of the channel.                                              *)

(* The states in which no fee payment is in flight and the fee is unpaid.   *)
Quiet == {"PendingInitialPayment", "PendingChannelOpen", "PendingPayment"}

(* Nothing is forwarded.                                                    *)
Waits(c, o) ==
  /\ o.action # "ForwardPayment" /\ o.htlcs = <<>>
  /\ o.channel.state = c.state \/ {c.state, o.channel.state} \subseteq Quiet
  /\ HashesMatch(o.channel.payment_queue)

(* HTLCs of one payment are forwarded, and bear the fee.                    *)
Pays(o) ==
  /\ o.action = "ForwardPayment"
  /\ o.channel.state = "PendingPaymentForward"
  /\ \E hash : HaveHash(o.htlcs, hash)
  /\ HashesMatch(o.channel.payment_queue)

(* HTLCs are forwarded in full.                                             *)
Releases(o) ==
  /\ o.action = "ForwardHTLCs"
  /\ o.channel.state = "PaymentForwarded"
  /\ HashesMatch(o.channel.payment_queue)

(* The fields of a channel whose state and queue changed.                   *)
LEMMA UpdatedChannel ==
  ASSUME NEW c \in Channel, NEW s, NEW queue
  PROVE  LET d == [c EXCEPT !.state = s, !.payment_queue = queue]
         IN  d.state = s /\ d.payment_queue = queue
BY DEF Channel

(* PopAndForward pays, or does what it does otherwise                       *)
(* (service.rs:223-242, 276-298, 318-340).                                  *)
LEMMA PopAndForwardPays ==
  ASSUME NEW c \in Channel, HashesMatch(c.payment_queue), NEW otherwise
  PROVE  \/ PopAndForward(c, otherwise) = otherwise
         \/ Pays(PopAndForward(c, otherwise))
<1> DEFINE queue == c.payment_queue
           fee == c.opening_fee_msat
<1>1. CASE position(queue, fee) = 0
  BY <1>1 DEF PopAndForward
<1>2. CASE position(queue, fee) # 0
  <2> DEFINE remaining == rest(queue, fee)
             next == [c EXCEPT !.state = "PendingPaymentForward",
                               !.payment_queue = remaining]
             htlcs == popped(queue, fee).htlcs
  <2>1. queue \in Seq(Payment)
    BY DEF Channel
  <2>2. HashesMatch(remaining) /\ \E hash : HaveHash(htlcs, hash)
    BY <1>2, <2>1, PopKeepsHashes
  <2>3. PopAndForward(c, otherwise) = Outcome(next, "ForwardPayment", htlcs)
    BY <1>2 DEF PopAndForward
  <2> HIDE DEF remaining, htlcs
  <2>4. next.state = "PendingPaymentForward" /\ next.payment_queue = remaining
    BY UpdatedChannel
  <2> HIDE DEF next
  <2> QED
    BY <2>2, <2>3, <2>4 DEF Pays, Outcome
<1> QED
  BY <1>1, <1>2

(* Collecting the initial payment forwards nothing, and an error leaves the *)
(* state (service.rs:134-204).                                              *)
LEMMA InitialWaits ==
  ASSUME NEW c \in Channel, c.state = "PendingInitialPayment",
         HashesMatch(c.payment_queue),
         NEW an_offer, NEW id \in Ids, NEW amount_msat \in Nat
  PROVE  LET o == initial_htlc_intercepted(c, an_offer, id, amount_msat)
         IN  /\ Waits(c, o)
             /\ o.action = "Err" => o.channel.state = "PendingInitialPayment"
<1> DEFINE queue == add_htlc(c.payment_queue, id, amount_msat)
           payment == queue[find(queue, PaymentHash[id])]
           mpp_mode == an_offer.payment_size_msat # None
           size == IF mpp_mode THEN an_offer.payment_size_msat
                   ELSE payment.total_msat
           fee == compute_opening_fee(size, an_offer.min_fee_msat,
                                      an_offer.proportional)
           queued == [c EXCEPT !.payment_queue = queue]
           opened == [queued EXCEPT !.state = "PendingChannelOpen",
                                    !.opening_fee_msat = fee]
           o == initial_htlc_intercepted(c, an_offer, id, amount_msat)
<1> SUFFICES /\ Waits(c, o)
             /\ o.action = "Err" => o.channel.state = "PendingInitialPayment"
  OBVIOUS
<1>1. HashesMatch(queue)
  BY AddKeepsHashes DEF Channel
<1>2. \/ o = Err(queued)
      \/ o = Stay(queued)
      \/ o = Outcome(opened, "OpenChannel", <<>>)
  BY DEF initial_htlc_intercepted
<1> HIDE DEF queue, fee, o
<1>3. queued.state = "PendingInitialPayment" /\ queued.payment_queue = queue
  BY DEF Channel
<1>4. opened.state = "PendingChannelOpen" /\ opened.payment_queue = queue
  BY DEF Channel
<1> HIDE DEF queued, opened
<1>5. CASE o = Err(queued)
  BY <1>1, <1>3, <1>5 DEF Waits, Err, Outcome
<1>6. CASE o = Stay(queued)
  BY <1>1, <1>3, <1>6 DEF Waits, Stay, Outcome
<1>7. CASE o = Outcome(opened, "OpenChannel", <<>>)
  BY <1>1, <1>4, <1>7 DEF Waits, Outcome, Quiet
<1> QED
  BY <1>2, <1>5, <1>6, <1>7

(* What an interception does (service.rs:130-264).                          *)
LEMMA InterceptedMoves ==
  ASSUME NEW c \in Channel, HashesMatch(c.payment_queue),
         NEW an_offer, NEW id \in Ids, NEW amount_msat \in Nat
  PROVE  LET o == htlc_intercepted(c, an_offer, id, amount_msat)
         IN  \/ /\ Waits(c, o)
                /\ o.action = "Err" => o.channel.state = "PendingInitialPayment"
             \/ c.state = "PendingPayment" /\ Pays(o)
             \/ c.state = "PaymentForwarded" /\ Releases(o)
<1> DEFINE queue == add_htlc(c.payment_queue, id, amount_msat)
           queued == [c EXCEPT !.payment_queue = queue]
           o == htlc_intercepted(c, an_offer, id, amount_msat)
<1> SUFFICES \/ /\ Waits(c, o)
                /\ o.action = "Err" => o.channel.state = "PendingInitialPayment"
             \/ c.state = "PendingPayment" /\ Pays(o)
             \/ c.state = "PaymentForwarded" /\ Releases(o)
  OBVIOUS
<1>1. HashesMatch(queue) /\ queue \in Seq(Payment)
  BY AddKeepsHashes, AddKeepsQueue DEF Channel
<1>2. CASE c.state = "PendingInitialPayment"
  BY <1>2, InitialWaits DEF htlc_intercepted
<1>3. CASE c.state \in {"PendingChannelOpen", "PendingPaymentForward"}
  <2>1. o = Stay(queued)
    BY <1>3 DEF htlc_intercepted, WhileForwarding
  <2> HIDE DEF queue, o
  <2>2. queued.state = c.state /\ queued.payment_queue = queue
    BY DEF Channel
  <2> HIDE DEF queued
  <2> QED
    BY <1>1, <2>1, <2>2 DEF Waits, Stay, Outcome
<1>4. CASE c.state = "PendingPayment"
  <2>1. o = PopAndForward(queued, Stay(queued))
    BY <1>4 DEF htlc_intercepted
  <2> HIDE DEF queue, o
  <2>2. queued \in Channel /\ queued.state = c.state
        /\ queued.payment_queue = queue
    BY <1>1 DEF Channel
  <2> HIDE DEF queued
  <2>3. o = Stay(queued) \/ Pays(o)
    BY <1>1, <2>1, <2>2, PopAndForwardPays
  <2> QED
    BY <1>1, <1>4, <2>2, <2>3 DEF Waits, Stay, Outcome
<1>5. CASE c.state = "PaymentForwarded"
  <2>1. o = Outcome(c, "ForwardHTLCs", <<id>>)
    BY <1>5 DEF htlc_intercepted
  <2> QED
    BY <1>5, <2>1 DEF Releases, Outcome
<1> QED
  BY <1>2, <1>3, <1>4, <1>5 DEF Channel, States

(* What the opening of the channel does (service.rs:266-297).               *)
LEMMA ReadyMoves ==
  ASSUME NEW c \in Channel, HashesMatch(c.payment_queue)
  PROVE  LET o == channel_ready(c)
         IN  \/ Waits(c, o)
             \/ c.state = "PendingChannelOpen" /\ Pays(o)
<1>1. Waits(c, Err(c))
  BY DEF Waits, Err, Outcome
<1> QED
  BY <1>1, PopAndForwardPays DEF channel_ready

(* What a failure does (service.rs:299-353).                                *)
LEMMA FailedMoves ==
  ASSUME NEW c \in Channel, HashesMatch(c.payment_queue)
  PROVE  LET o == htlc_handling_failed(c)
         IN  \/ c.state # "PendingPaymentForward" /\ Waits(c, o)
             \/ /\ c.state = "PendingPaymentForward"
                /\ Waits([c EXCEPT !.state = "PendingPayment"], o) \/ Pays(o)
<1> DEFINE idle == [c EXCEPT !.state = "PendingPayment"]
<1>1. CASE c.state = "PendingPaymentForward"
  <2>1. htlc_handling_failed(c) = PopAndForward(c, Stay(idle))
    BY <1>1 DEF htlc_handling_failed
  <2>2. idle.payment_queue = c.payment_queue
    BY DEF Channel
  <2> HIDE DEF idle
  <2>3. Waits(idle, Stay(idle))
    BY <2>2 DEF Waits, Stay, Outcome
  <2>4. \/ htlc_handling_failed(c) = Stay(idle)
        \/ Pays(htlc_handling_failed(c))
    BY <2>1, PopAndForwardPays
  <2> QED
    BY <1>1, <2>3, <2>4 DEF idle
<1>2. CASE c.state # "PendingPaymentForward"
  BY <1>2 DEF htlc_handling_failed, Waits, Stay, Err, Outcome
<1> QED
  BY <1>1, <1>2

(* What a success does (service.rs:355-378).                                *)
LEMMA ForwardedMoves ==
  ASSUME NEW c \in Channel, HashesMatch(c.payment_queue)
  PROVE  LET o == payment_forwarded(c)
         IN  \/ c.state # "PendingPaymentForward" /\ Waits(c, o)
             \/ c.state = "PendingPaymentForward" /\ Releases(o)
<1>1. CASE c.state = "PendingPaymentForward"
  <2> DEFINE next == [c EXCEPT !.state = "PaymentForwarded",
                               !.payment_queue = <<>>]
  <2>1. payment_forwarded(c)
          = Outcome(next, "ForwardHTLCs", clear(c.payment_queue))
    BY <1>1 DEF payment_forwarded
  <2>2. next.state = "PaymentForwarded" /\ next.payment_queue = <<>>
    BY UpdatedChannel
  <2>3. HashesMatch(<<>>)
    BY DEF HashesMatch
  <2> HIDE DEF next
  <2> QED
    BY <1>1, <2>1, <2>2, <2>3 DEF Releases, Outcome
<1>2. CASE c.state # "PendingPaymentForward"
  BY <1>2 DEF payment_forwarded, Waits, Stay, Err, Outcome
<1> QED
  BY <1>1, <1>2

-----------------------------------------------------------------------------
(* The inductive invariant.                                                 *)

Out == With("outbound")

(* The events that report a success, and those that report either result.   *)
Successes == Pending("PaymentForwarded")
Results == Successes \cup Pending("HTLCHandlingFailed")

AtMostOne(S) == \A x, y \in S : x = y

(* The HTLCs of fee payments were forwarded, and are in one of them.        *)
FeePaymentsAreApart ==
  /\ \A p \in fee_payments : \A id \in p : htlc[id] \notin {"unseen", "held"}
  /\ \A p, q \in fee_payments : p \cap q # {} => p = q

(* Nothing is in flight and no result is to come.                           *)
QuietIsQuiet == channel.state \in Quiet => Out = {} /\ Results = {}

(* At most one HTLC is in flight, or its result is to come.                 *)
OneIsForwarded ==
  channel.state = "PendingPaymentForward" =>
    /\ Out = {} \/ Results = {}
    /\ AtMostOne(Out)
    /\ AtMostOne(Results)

(* Once the fee is paid no other payment is to bear it.                     *)
FeeIsSettled == channel.state = "PaymentForwarded" => InFlight = {}

(* The service knows of a fee payment that succeeded, or will be told.      *)
SuccessIsReported ==
  Succeeded # {} =>
    \/ channel.state = "PaymentForwarded"
    \/ channel.state = "PendingPaymentForward" /\ Successes # {}

OneInv == /\ TypeOK
          /\ HashesMatch(channel.payment_queue)
          /\ FeePaymentsAreApart
          /\ QuietIsQuiet
          /\ OneIsForwarded
          /\ FeeIsSettled
          /\ SuccessIsReported
          /\ RemovedEarly
          /\ FeePaidOnce

-----------------------------------------------------------------------------
(* The events.                                                              *)

ResultTypes == {"PaymentForwarded", "HTLCHandlingFailed"}

(* Handling a result when at most one is pending leaves none; handling      *)
(* another event leaves the results.                                        *)
LEMMA ResultsHandled ==
  ASSUME TypeOK, NEW type, NextEvent(type)
  PROVE  /\ Results = {} => Results' = {}
         /\ AtMostOne(Results) => AtMostOne(Results')
         /\ type \in ResultTypes => 1 \in Results
         /\ type \in ResultTypes /\ AtMostOne(Results) => Results' = {}
         /\ type \notin ResultTypes /\ Successes # {} => Successes' # {}
<1>1. \A t : \A i \in Pending(t)' : i \in Nat \ {0} /\ i + 1 \in Pending(t)
  BY EventsMoveUp
<1>2. \A t : \A i \in Pending(t) : i = 1 \/ i - 1 \in Pending(t)'
  BY EventsMoveUp
<1>3. \A t : 1 \in Pending(t) <=> t = type
  BY EventsMoveUp
<1>4. \A i \in Results' : i \in Nat \ {0} /\ i + 1 \in Results
  BY <1>1 DEF Results, Successes
<1>5. Results = {} => Results' = {}
  BY <1>4
<1>6. AtMostOne(Results) => AtMostOne(Results')
  BY <1>4 DEF AtMostOne
<1>7. type \in ResultTypes => 1 \in Results
  BY <1>3 DEF Results, Successes, ResultTypes
<1>8. type \in ResultTypes /\ AtMostOne(Results) => Results' = {}
  BY <1>4, <1>7 DEF AtMostOne
<1>9. type \notin ResultTypes /\ Successes # {} => Successes' # {}
  BY <1>2, <1>3 DEF Successes, ResultTypes
<1> QED
  BY <1>5, <1>6, <1>7, <1>8, <1>9

(* An event that is not a result leaves the results; a result joins them.   *)
LEMMA ResultsEmitted ==
  ASSUME TypeOK, NEW event \in Event, Emit(event)
  PROVE  /\ Successes \subseteq Successes'
         /\ event.type \notin ResultTypes =>
              Results' = Results /\ Successes' = Successes
         /\ Results = {} => AtMostOne(Results')
         /\ event.type = "PaymentForwarded" => Successes' # {}
<1>1. events \in Seq(Event) /\ events' = Append(events, event)
  BY DEF TypeOK, Emit
<1>2. \A t : Pending(t)' = Pending(t) \cup
                 (IF event.type = t THEN {Len(events) + 1} ELSE {})
  <2>1. /\ DOMAIN events' = (DOMAIN events) \cup {Len(events) + 1}
        /\ \A i \in DOMAIN events : events'[i] = events[i]
        /\ events'[Len(events) + 1] = event
    BY <1>1
  <2> QED
    BY <2>1 DEF Pending
<1> QED
  BY <1>2 DEF Results, Successes, ResultTypes, AtMostOne

-----------------------------------------------------------------------------
(* The HTLCs.                                                               *)

(* No HTLC is forwarded or resolved.                                        *)
NothingMoves ==
  /\ UNCHANGED fee_payments
  /\ \A id \in Ids :
       /\ htlc'[id] = "outbound" <=> htlc[id] = "outbound"
       /\ htlc'[id] = "claimed" <=> htlc[id] = "claimed"
       /\ htlc'[id] \in {"unseen", "held"} => htlc[id] \in {"unseen", "held"}

(* What such a step leaves as it was.                                       *)
LEMMA NothingChanges ==
  ASSUME TypeOK, NothingMoves
  PROVE  /\ Out' = Out /\ InFlight' = InFlight /\ Succeeded' = Succeeded
         /\ FeePaymentsAreApart => FeePaymentsAreApart'
<1>1. With("outbound")' = With("outbound") /\ With("claimed")' = With("claimed")
  BY DEF NothingMoves, With
<1>2. InFlight' = InFlight /\ Succeeded' = Succeeded
  BY <1>1 DEF NothingMoves, InFlight, Succeeded
<1>3. FeePaymentsAreApart => FeePaymentsAreApart'
  BY DEF NothingMoves, FeePaymentsAreApart, TypeOK
<1> QED
  BY <1>1, <1>2, <1>3 DEF Out

(* Waiting moves nothing.                                                   *)
LEMMA WaitingMovesNothing ==
  ASSUME TypeOK, NEW c, NEW outcome, Waits(c, outcome), Perform(outcome)
  PROVE  NothingMoves
<1>1. Forwardable(outcome.htlcs) = {}
  BY DEF Waits, Forwardable
<1>2. fee_payments' = fee_payments
  BY DEF Waits, Perform
<1>3. \A id \in Ids : htlc'[id] = htlc[id]
  BY <1>1, PerformMoves
<1> QED
  BY <1>2, <1>3 DEF NothingMoves

(* With single-part payments, a fee payment is one HTLC; it is the only one *)
(* in flight when none was.                                                 *)
LEMMA PayingForwardsOne ==
  ASSUME SinglePart, TypeOK, FeePaymentsAreApart, Out = {}, Succeeded = {},
         NEW outcome, Sound(outcome), Pays(outcome), Perform(outcome)
  PROVE  AtMostOne(Out') /\ Succeeded' = {} /\ FeePaymentsAreApart'
<1> DEFINE out == Forwardable(outcome.htlcs)
<1>1. out \in SUBSET Ids
  BY ForwardableIsIds DEF Sound, Pays
<1>2. \A id, other \in out : id = other
  <2>1. PICK hash : HaveHash(outcome.htlcs, hash)
    BY DEF Pays
  <2>2. \A id \in out : PaymentHash[id] = hash
    BY <2>1, ForwardableIsHeld DEF HaveHash
  <2> HIDE DEF out
  <2> QED
    BY <1>1, <2>2 DEF SinglePart
<1>3. \A id \in Ids : /\ id \in out => htlc[id] = "held" /\ htlc'[id] = "outbound"
                      /\ id \notin out => htlc'[id] = htlc[id]
  BY PerformMoves
<1>4. fee_payments' \subseteq fee_payments \cup {out}
  BY DEF Perform
<1> HIDE DEF out
<1>5. Out' \subseteq out
  BY <1>3 DEF Out, With
<1>6. Succeeded' = {}
  BY <1>1, <1>3, <1>4 DEF Succeeded, With
<1>7. \A p \in fee_payments : p \cap out = {} /\ \A id \in p : htlc'[id] = htlc[id]
  BY <1>1, <1>3 DEF FeePaymentsAreApart, TypeOK
<1>8. FeePaymentsAreApart'
  <2>1. \A p \in fee_payments' : \A id \in p : htlc'[id] \notin {"unseen", "held"}
    BY <1>1, <1>3, <1>4, <1>7 DEF FeePaymentsAreApart
  <2>2. \A p, q \in fee_payments' : p \cap q # {} => p = q
    BY <1>4, <1>7 DEF FeePaymentsAreApart
  <2> QED
    BY <2>1, <2>2 DEF FeePaymentsAreApart
<1> QED
  BY <1>2, <1>5, <1>6, <1>8 DEF AtMostOne

(* Forwarding in full leaves the fee payments as they are.                  *)
LEMMA ReleasingMovesNoFee ==
  ASSUME TypeOK, FeePaymentsAreApart,
         NEW outcome, Releases(outcome), Perform(outcome)
  PROVE  /\ fee_payments' = fee_payments
         /\ InFlight' = InFlight /\ Succeeded' = Succeeded
         /\ FeePaymentsAreApart'
<1>1. fee_payments' = fee_payments
  BY DEF Releases, Perform
<1>2. \A p \in fee_payments : p \subseteq Ids /\ \A id \in p : htlc'[id] = htlc[id]
  BY PerformMoves DEF FeePaymentsAreApart, TypeOK
<1>3. \A status : \A p \in fee_payments : p \cap With(status)' = p \cap With(status)
  BY <1>2 DEF With
<1> QED
  BY <1>1, <1>2, <1>3 DEF InFlight, Succeeded, FeePaymentsAreApart

-----------------------------------------------------------------------------
(* The handlers.  Handling an event is one of four moves.                   *)

(* Nothing moves, and the event is not the result the state waits for.      *)
Waited(type) ==
  /\ NothingMoves
  /\ RemovedEarly' /\ HashesMatch(channel'.payment_queue)
  /\ \/ channel'.state = channel.state
     \/ {channel.state, channel'.state} \subseteq Quiet
  /\ type \in ResultTypes => channel.state # "PendingPaymentForward"

(* No fee payment is in flight, none succeeded and no result is to come.    *)
Clear == /\ registered /\ UNCHANGED registered
         /\ Out = {} /\ Succeeded = {} /\ Results' = {}

(* The fee payment failed and there is no other.                            *)
GaveUp == /\ Clear
          /\ NothingMoves
          /\ channel'.state \in Quiet
          /\ HashesMatch(channel'.payment_queue)

(* A payment is forwarded that bears the fee.                               *)
Paid == /\ Clear
        /\ \E o : Sound(o) /\ Pays(o) /\ Perform(o)

(* HTLCs are forwarded in full.                                             *)
Released(type) ==
  /\ registered /\ UNCHANGED registered
  /\ InFlight = {}
  /\ channel.state = "PaymentForwarded" \/ type = "PaymentForwarded"
  /\ \E o : Releases(o) /\ Perform(o)

Moved(type) ==
  /\ NextEvent(type)
  /\ Waited(type) \/ GaveUp \/ Paid \/ Released(type)

(* Before the fee is sought and between two payments, nothing is in flight  *)
(* and no fee payment succeeded.                                            *)
LEMMA QuietIsClear ==
  ASSUME OneInv, channel.state \in Quiet, registered, UNCHANGED registered,
         NEW type, NextEvent(type)
  PROVE  Clear
<1>1. Out = {} /\ Results = {} /\ Succeeded = {}
  BY DEF OneInv, QuietIsQuiet, SuccessIsReported, Quiet
<1>2. Results' = {}
  BY <1>1, ResultsHandled DEF OneInv
<1> QED
  BY <1>1, <1>2 DEF Clear

(* The result the state waits for is the only one, and nothing else is in   *)
(* flight.                                                                  *)
LEMMA ResultIsAwaited ==
  ASSUME OneInv, channel.state = "PendingPaymentForward",
         NEW type \in ResultTypes, NextEvent(type)
  PROVE  /\ Out = {} /\ Results' = {}
         /\ type = "HTLCHandlingFailed" => Succeeded = {}
<1>1. 1 \in Results /\ AtMostOne(Results) /\ Out = {} /\ Results' = {}
  BY ResultsHandled DEF OneInv, OneIsForwarded
<1>2. ASSUME type = "HTLCHandlingFailed" PROVE Successes = {}
  <2>1. 1 \notin Successes
    BY <1>2, EventsMoveUp DEF Successes, OneInv
  <2> QED
    BY <1>1, <2>1 DEF Results, AtMostOne
<1> QED
  BY <1>1, <1>2 DEF OneInv, SuccessIsReported

(* Handling an interception (service.rs:691-769).                           *)
LEMMA InterceptionMoves ==
  ASSUME OneInv, HandleHTLCIntercepted
  PROVE  Moved("HTLCIntercepted")
<1> DEFINE id == Head(events).id
           o == htlc_intercepted(channel, offer, id, amount[id])
<1>1. NextEvent("HTLCIntercepted") /\ TypeOK /\ "HTLCIntercepted" \notin ResultTypes
  BY DEF HandleHTLCIntercepted, OneInv, ResultTypes
<1>2. id \in Ids /\ channel \in Channel /\ amount[id] \in Nat
  <2>1. id \in Ids
    BY <1>1, NextEventIsEvent
  <2>2. amount[id] \in Amounts \cup {0}
    BY <1>1, <2>1 DEF TypeOK
  <2>3. \A a \in Amounts : a \in Nat
    BY JITChannelAssumption, Zenon
  <2>4. 0 \in Nat
    OBVIOUS
  <2>5. amount[id] \in Nat
    BY <2>2, <2>3, <2>4, Zenon
  <2> QED
    BY <1>1, <2>1, <2>5 DEF TypeOK
<1>3. Sound(o)
  BY <1>1, HandledIsSound
<1>4. \/ /\ Waits(channel, o)
         /\ o.action = "Err" => o.channel.state = "PendingInitialPayment"
      \/ channel.state = "PendingPayment" /\ Pays(o)
      \/ channel.state = "PaymentForwarded" /\ Releases(o)
  BY <1>2, InterceptedMoves DEF OneInv
<1>5. \/ ~registered /\ UNCHANGED <<service, htlc, opening>>
      \/ registered /\ o.action = "Err" /\ RejectHTLC(id, o)
      \/ registered /\ o.action # "Err" /\ AcceptHTLC(o)
  BY DEF HandleHTLCIntercepted
<1> HIDE DEF o, id
<1>6. CASE UNCHANGED <<service, htlc, opening>>
  BY <1>1, <1>6 DEF Moved, Waited, service, OneInv, NothingMoves, RemovedEarly
<1>7. CASE o.action = "Err" /\ RejectHTLC(id, o)
  <2>1. /\ channel' = o.channel /\ UNCHANGED fee_payments
        /\ htlc' = [htlc EXCEPT ![id] = IF @ = "held" THEN "failed" ELSE @]
    BY <1>7 DEF RejectHTLC
  <2>2. NothingMoves
    BY <1>1, <2>1 DEF NothingMoves, TypeOK
  <2>3. Waits(channel, o) /\ o.channel.state = "PendingInitialPayment"
    BY <1>4, <1>7 DEF Pays, Releases
  <2>4. RemovedEarly'
    BY <2>1, <2>3 DEF RemovedEarly
  <2> QED
    BY <1>1, <2>1, <2>2, <2>3, <2>4 DEF Moved, Waited, Waits
<1>8. CASE registered /\ AcceptHTLC(o)
  <2>1. Perform(o) /\ channel' = o.channel /\ UNCHANGED registered /\ registered
    BY <1>8 DEF AcceptHTLC, Perform
  <2>2. CASE Waits(channel, o)
    <3>1. NothingMoves /\ RemovedEarly'
      BY <1>1, <2>1, <2>2, WaitingMovesNothing DEF RemovedEarly
    <3> QED
      BY <1>1, <2>1, <2>2, <3>1 DEF Moved, Waited, Waits
  <2>3. CASE channel.state = "PendingPayment" /\ Pays(o)
    <3>1. Clear
      BY <1>1, <2>1, <2>3, QuietIsClear DEF Quiet
    <3> QED
      BY <1>1, <1>3, <2>1, <2>3, <3>1 DEF Moved, Paid
  <2>4. CASE channel.state = "PaymentForwarded" /\ Releases(o)
    BY <1>1, <2>1, <2>4 DEF Moved, Released, OneInv, FeeIsSettled
  <2> QED
    BY <1>4, <2>2, <2>3, <2>4
<1> QED
  BY <1>5, <1>6, <1>7, <1>8

(* Handling another event without an effect.                                *)
LEMMA HandlingWaits ==
  ASSUME OneInv, NEW type, NEW o, Handle(type, o),
         ~registered \/ Waits(channel, o),
         registered /\ type \in ResultTypes
           => channel.state # "PendingPaymentForward"
  PROVE  Moved(type)
<1>1. NextEvent(type) /\ UNCHANGED registered /\ TypeOK
  BY DEF Handle, OneInv
<1>2. CASE registered
  <2>1. Perform(o) /\ channel' = o.channel
    BY <1>2 DEF Handle, Perform
  <2>2. NothingMoves /\ RemovedEarly'
    BY <1>1, <1>2, <2>1, WaitingMovesNothing DEF RemovedEarly
  <2> QED
    BY <1>1, <1>2, <2>1, <2>2 DEF Moved, Waited, Waits
<1>3. CASE ~registered
  <2>1. UNCHANGED <<channel, htlc, fee_payments>>
    BY <1>3 DEF Handle
  <2>2. channel.state # "PendingPaymentForward"
    BY <1>3 DEF OneInv, RemovedEarly
  <2> QED
    BY <1>1, <2>1, <2>2 DEF Moved, Waited, OneInv, NothingMoves, RemovedEarly
<1> QED
  BY <1>2, <1>3

(* Handling the opening of the channel (service.rs:907-978).                *)
LEMMA ReadinessMoves ==
  ASSUME OneInv, HandleChannelReady
  PROVE  Moved("ChannelReady")
<1> DEFINE o == channel_ready(channel)
<1>1. Handle("ChannelReady", o) /\ "ChannelReady" \notin ResultTypes
  BY DEF HandleChannelReady, ResultTypes
<1>2. channel \in Channel /\ HashesMatch(channel.payment_queue)
  BY DEF OneInv, TypeOK
<1>3. \/ Waits(channel, o)
      \/ channel.state = "PendingChannelOpen" /\ Pays(o)
  BY <1>2, ReadyMoves
<1>4. Sound(o)
  BY <1>2, ReadyIsSound
<1> HIDE DEF o
<1>5. CASE ~registered \/ Waits(channel, o)
  BY <1>1, <1>5, HandlingWaits
<1>6. CASE registered /\ channel.state = "PendingChannelOpen" /\ Pays(o)
  <2>1. NextEvent("ChannelReady") /\ Perform(o) /\ UNCHANGED registered
    BY <1>1, <1>6 DEF Handle
  <2>2. Clear
    BY <1>6, <2>1, QuietIsClear DEF Quiet
  <2> QED
    BY <1>4, <1>6, <2>1, <2>2 DEF Moved, Paid
<1> QED
  BY <1>3, <1>5, <1>6

(* Handling a failure (service.rs:778-835).                                 *)
LEMMA FailureMoves ==
  ASSUME OneInv, HandleHTLCHandlingFailed
  PROVE  Moved("HTLCHandlingFailed")
<1> DEFINE o == htlc_handling_failed(channel)
           idle == [channel EXCEPT !.state = "PendingPayment"]
<1>1. Handle("HTLCHandlingFailed", o) /\ "HTLCHandlingFailed" \in ResultTypes
  BY DEF HandleHTLCHandlingFailed, ResultTypes
<1>2. channel \in Channel /\ HashesMatch(channel.payment_queue) /\ TypeOK
  BY DEF OneInv, TypeOK
<1>3. \/ channel.state # "PendingPaymentForward" /\ Waits(channel, o)
      \/ /\ channel.state = "PendingPaymentForward"
         /\ Waits(idle, o) \/ Pays(o)
  BY <1>2, FailedMoves
<1>4. Sound(o) /\ idle.state = "PendingPayment"
  BY <1>2, FailedIsSound DEF Channel
<1> HIDE DEF o, idle
<1>5. CASE ~registered \/ channel.state # "PendingPaymentForward"
  BY <1>1, <1>3, <1>5, HandlingWaits
<1>6. CASE registered /\ channel.state = "PendingPaymentForward"
  <2>1. /\ NextEvent("HTLCHandlingFailed") /\ Perform(o)
        /\ channel' = o.channel /\ UNCHANGED registered
    BY <1>1, <1>6 DEF Handle, Perform
  <2>2. Clear
    BY <1>1, <1>6, <2>1, ResultIsAwaited DEF Clear
  <2>3. CASE Pays(o)
    BY <1>4, <2>1, <2>2, <2>3 DEF Moved, Paid
  <2>4. CASE Waits(idle, o)
    <3>1. NothingMoves
      BY <1>2, <2>1, <2>4, WaitingMovesNothing
    <3>2. channel'.state \in Quiet /\ HashesMatch(channel'.payment_queue)
      BY <1>4, <2>1, <2>4 DEF Waits, Quiet
    <3> QED
      BY <2>1, <2>2, <3>1, <3>2 DEF Moved, GaveUp
  <2> QED
    BY <1>3, <1>6, <2>3, <2>4
<1> QED
  BY <1>5, <1>6

(* Handling a success (service.rs:848-899).                                 *)
LEMMA SuccessMoves ==
  ASSUME OneInv, HandlePaymentForwarded
  PROVE  Moved("PaymentForwarded")
<1> DEFINE o == payment_forwarded(channel)
<1>1. Handle("PaymentForwarded", o) /\ "PaymentForwarded" \in ResultTypes
  BY DEF HandlePaymentForwarded, ResultTypes
<1>2. channel \in Channel /\ HashesMatch(channel.payment_queue)
  BY DEF OneInv, TypeOK
<1>3. \/ channel.state # "PendingPaymentForward" /\ Waits(channel, o)
      \/ channel.state = "PendingPaymentForward" /\ Releases(o)
  BY <1>2, ForwardedMoves
<1> HIDE DEF o
<1>4. CASE ~registered \/ channel.state # "PendingPaymentForward"
  BY <1>1, <1>3, <1>4, HandlingWaits
<1>5. CASE registered /\ channel.state = "PendingPaymentForward"
  <2>1. /\ NextEvent("PaymentForwarded") /\ Perform(o) /\ Releases(o)
        /\ UNCHANGED registered
    BY <1>1, <1>3, <1>5 DEF Handle
  <2>2. InFlight = {}
    BY <1>1, <1>5, <2>1, ResultIsAwaited DEF InFlight, Out
  <2> QED
    BY <1>5, <2>1, <2>2 DEF Moved, Released
<1> QED
  BY <1>4, <1>5

(* Each of the four handlers makes one of the moves.                        *)
LEMMA HandlersMove ==
  ASSUME OneInv, HandleEvent
  PROVE  \E type : Moved(type)
BY InterceptionMoves, ReadinessMoves, FailureMoves, SuccessMoves DEF HandleEvent

(* Handling an event keeps the invariant.                                   *)
LEMMA HandlersKeepOne ==
  ASSUME SinglePart, OneInv, HandleEvent
  PROVE  OneInv'
<1>1. PICK type : Moved(type)
  BY HandlersMove
<1>2. TypeOK /\ TypeOK' /\ FeePaymentsAreApart /\ NextEvent(type)
  BY <1>1, HandlersKeepTypes DEF OneInv, Moved
<1>3. CASE Waited(type)
  <2>1. /\ Out' = Out /\ InFlight' = InFlight /\ Succeeded' = Succeeded
        /\ FeePaymentsAreApart'
    BY <1>2, <1>3, NothingChanges DEF Waited
  <2>2. /\ Results = {} => Results' = {}
        /\ AtMostOne(Results) => AtMostOne(Results')
        /\ type \notin ResultTypes /\ Successes # {} => Successes' # {}
    BY <1>2, ResultsHandled
  <2>3. QuietIsQuiet'
    BY <1>3, <2>1, <2>2 DEF Waited, OneInv, QuietIsQuiet
  <2>4. OneIsForwarded'
    BY <1>3, <2>1, <2>2 DEF Waited, OneInv, OneIsForwarded, Quiet
  <2>5. FeeIsSettled'
    BY <1>3, <2>1 DEF Waited, OneInv, FeeIsSettled, Quiet
  <2>6. SuccessIsReported'
    BY <1>3, <2>1, <2>2 DEF Waited, OneInv, SuccessIsReported, Quiet
  <2>7. FeePaidOnce'
    BY <2>1 DEF OneInv, FeePaidOnce
  <2> QED
    BY <1>2, <1>3, <2>1, <2>3, <2>4, <2>5, <2>6, <2>7 DEF Waited, OneInv
<1>4. CASE GaveUp
  <2>1. /\ Out' = {} /\ Succeeded' = {} /\ FeePaymentsAreApart'
    BY <1>2, <1>4, NothingChanges DEF GaveUp, Clear
  <2> QED
    BY <1>2, <1>4, <2>1
    DEF GaveUp, Clear, OneInv, QuietIsQuiet, OneIsForwarded, FeeIsSettled,
        SuccessIsReported, RemovedEarly, FeePaidOnce, Quiet
<1>5. CASE Paid
  <2>1. PICK o : Sound(o) /\ Pays(o) /\ Perform(o)
    BY <1>5 DEF Paid
  <2>2. AtMostOne(Out') /\ Succeeded' = {} /\ FeePaymentsAreApart'
    BY <1>2, <1>5, <2>1, PayingForwardsOne DEF Paid, Clear
  <2>3. /\ channel'.state = "PendingPaymentForward"
        /\ HashesMatch(channel'.payment_queue)
    BY <2>1 DEF Pays, Perform
  <2>4. AtMostOne(Results') /\ Results' = {} /\ registered'
    BY <1>5 DEF AtMostOne, Paid, Clear
  <2> QED
    BY <1>2, <2>2, <2>3, <2>4
    DEF OneInv, QuietIsQuiet, OneIsForwarded, FeeIsSettled,
        SuccessIsReported, RemovedEarly, FeePaidOnce, Quiet
<1>6. CASE Released(type)
  <2>1. PICK o : Releases(o) /\ Perform(o)
    BY <1>6 DEF Released
  <2>2. /\ InFlight' = {} /\ Succeeded' = Succeeded
        /\ FeePaymentsAreApart'
    BY <1>2, <1>6, <2>1, ReleasingMovesNoFee DEF Released
  <2>3. /\ channel'.state = "PaymentForwarded"
        /\ HashesMatch(channel'.payment_queue)
    BY <2>1 DEF Releases, Perform
  <2> QED
    BY <1>2, <1>6, <2>2, <2>3
    DEF Released, OneInv, QuietIsQuiet, OneIsForwarded, FeeIsSettled,
        SuccessIsReported, RemovedEarly, FeePaidOnce, Quiet
<1> QED
  BY <1>1, <1>3, <1>4, <1>5, <1>6 DEF Moved

-----------------------------------------------------------------------------
(* The environment.                                                         *)

(* A forwarded HTLC is resolved.                                            *)
Resolved(id, status) ==
  /\ UNCHANGED service
  /\ htlc[id] = "outbound" /\ htlc' = [htlc EXCEPT ![id] = status]

(* The service is not involved, and is told nothing of results.             *)
Unnoticed == /\ UNCHANGED service
             /\ NothingMoves
             /\ Results' = Results /\ Successes' = Successes

(* A step of the environment either goes unnoticed or resolves an HTLC.     *)
LEMMA EnvironmentMoves ==
  ASSUME ~OtherTraffic, TypeOK,
         \/ OpenChannel
         \/ \E id \in Ids : Receive(id) \/ Resolve(id) \/ TimeOut(id)
         \/ OtherResult("PaymentForwarded")
         \/ OtherResult("HTLCHandlingFailed")
  PROVE  \/ Unnoticed
         \/ \E id \in Ids : /\ Resolved(id, "claimed")
                            /\ Emit([type |-> "PaymentForwarded"])
         \/ \E id \in Ids : /\ Resolved(id, "failed")
                            /\ Emit([type |-> "HTLCHandlingFailed"])
<1>1. CASE OpenChannel
  <2> DEFINE event == [type |-> "ChannelReady"]
  <2>1. event \in Event /\ event.type \notin ResultTypes
    BY DEF Event, ResultTypes
  <2>2. Emit(event) /\ UNCHANGED service /\ NothingMoves
    BY <1>1 DEF OpenChannel, NothingMoves, service
  <2> QED
    BY <2>1, <2>2, ResultsEmitted DEF Unnoticed
<1>2. ASSUME NEW id \in Ids, Receive(id)
      PROVE  Unnoticed
  <2> DEFINE event == [type |-> "HTLCIntercepted", id |-> id]
  <2>1. event \in Event /\ event.type \notin ResultTypes
    BY DEF Event, ResultTypes
  <2>2. Emit(event) /\ UNCHANGED service
    BY <1>2 DEF Receive
  <2>3. NothingMoves
    BY <1>2 DEF Receive, NothingMoves, TypeOK, service
  <2> QED
    BY <2>1, <2>2, <2>3, ResultsEmitted DEF Unnoticed
<1>3. ASSUME NEW id \in Ids, TimeOut(id)
      PROVE  Unnoticed
  <2>1. NothingMoves
    BY <1>3 DEF TimeOut, NothingMoves, TypeOK, service
  <2> QED
    BY <1>3, <2>1 DEF TimeOut, Unnoticed, Results, Successes, Pending
<1>4. ASSUME NEW id \in Ids, Resolve(id)
      PROVE  \/ /\ Resolved(id, "claimed")
                /\ Emit([type |-> "PaymentForwarded"])
             \/ /\ Resolved(id, "failed")
                /\ Emit([type |-> "HTLCHandlingFailed"])
  BY <1>4 DEF Resolve, Claim, FailBack, Resolved
<1>5. \A type : ~OtherResult(type)
  BY DEF OtherResult
<1> QED
  BY <1>1, <1>2, <1>3, <1>4, <1>5

(* What resolving an HTLC does to the HTLCs in flight and to the fee        *)
(* payments.                                                                *)
LEMMA ResolvingMoves ==
  ASSUME TypeOK, FeePaymentsAreApart, NEW id \in Ids,
         NEW status \in {"claimed", "failed"}, Resolved(id, status)
  PROVE  /\ id \in Out /\ Out' = Out \ {id}
         /\ With("claimed")' = With("claimed")
                                 \cup (IF status = "claimed" THEN {id} ELSE {})
         /\ InFlight' \subseteq InFlight
         /\ status = "failed" => Succeeded' = Succeeded
         /\ id \notin UNION fee_payments => Succeeded' = Succeeded
         /\ \A p \in Succeeded' : p \in Succeeded \/ id \in p
         /\ status = "claimed" /\ id \in UNION fee_payments => Succeeded' # {}
         /\ FeePaymentsAreApart'
<1>1. /\ htlc' = [htlc EXCEPT ![id] = status] /\ htlc[id] = "outbound"
      /\ UNCHANGED <<channel, registered, fee_payments>>
  BY DEF Resolved, service
<1>2. \A h \in Ids : htlc'[h] = IF h = id THEN status ELSE htlc[h]
  BY <1>1 DEF TypeOK
<1>3. id \in Out /\ With("outbound")' = With("outbound") \ {id}
  BY <1>1, <1>2 DEF Out, With
<1>4. With("claimed")' = With("claimed")
                           \cup (IF status = "claimed" THEN {id} ELSE {})
  BY <1>1, <1>2 DEF With
<1>5. InFlight' \subseteq InFlight
  BY <1>1, <1>3 DEF InFlight
<1>6. /\ status = "failed" => Succeeded' = Succeeded
      /\ id \notin UNION fee_payments => Succeeded' = Succeeded
      /\ \A p \in Succeeded' : p \in Succeeded \/ id \in p
      /\ status = "claimed" /\ id \in UNION fee_payments => Succeeded' # {}
  BY <1>1, <1>4 DEF Succeeded
<1>7. FeePaymentsAreApart'
  BY <1>1, <1>2 DEF FeePaymentsAreApart, TypeOK
<1> QED
  BY <1>3, <1>4, <1>5, <1>6, <1>7 DEF Out

(* The environment keeps the invariant.                                     *)
LEMMA EnvironmentKeepsOne ==
  ASSUME ~OtherTraffic, OneInv,
         \/ OpenChannel
         \/ \E id \in Ids : Receive(id) \/ Resolve(id) \/ TimeOut(id)
         \/ OtherResult("PaymentForwarded")
         \/ OtherResult("HTLCHandlingFailed")
  PROVE  OneInv'
<1>1. TypeOK /\ TypeOK' /\ FeePaymentsAreApart
  BY EnvironmentKeepsTypes DEF OneInv
<1>2. \/ Unnoticed
      \/ \E id \in Ids : /\ Resolved(id, "claimed")
                         /\ Emit([type |-> "PaymentForwarded"])
      \/ \E id \in Ids : /\ Resolved(id, "failed")
                         /\ Emit([type |-> "HTLCHandlingFailed"])
  BY <1>1, EnvironmentMoves
<1>3. CASE Unnoticed
  <2>1. /\ Out' = Out /\ InFlight' = InFlight /\ Succeeded' = Succeeded
        /\ FeePaymentsAreApart'
    BY <1>1, <1>3, NothingChanges DEF Unnoticed
  <2>2. UNCHANGED <<channel, registered>>
        /\ Results' = Results /\ Successes' = Successes
    BY <1>3 DEF Unnoticed, service
  <2> QED
    BY <1>1, <2>1, <2>2
    DEF OneInv, QuietIsQuiet, OneIsForwarded, FeeIsSettled,
        SuccessIsReported, RemovedEarly, FeePaidOnce
<1>4. ASSUME NEW id \in Ids, NEW status \in {"claimed", "failed"},
             Resolved(id, status),
             NEW event \in Event, Emit(event),
             status = "claimed" => event.type = "PaymentForwarded"
      PROVE  OneInv'
  <2>1. /\ id \in Out /\ Out' = Out \ {id}
        /\ InFlight' \subseteq InFlight
        /\ status = "failed" => Succeeded' = Succeeded
        /\ id \notin UNION fee_payments => Succeeded' = Succeeded
        /\ \A p \in Succeeded' : p \in Succeeded \/ id \in p
        /\ FeePaymentsAreApart'
    BY <1>1, <1>4, ResolvingMoves
  <2>2. UNCHANGED <<channel, registered, fee_payments>>
    BY <1>4 DEF Resolved, service
  <2>3. /\ Successes \subseteq Successes'
        /\ Results = {} => AtMostOne(Results')
        /\ status = "claimed" => Successes' # {}
    BY <1>1, <1>4, ResultsEmitted
  <2>4. channel.state \notin Quiet
    BY <2>1 DEF OneInv, QuietIsQuiet
  <2>5. CASE channel.state = "PendingPaymentForward"
    <3>1. Results = {} /\ AtMostOne(Out) /\ Out' = {}
      BY <2>1, <2>5 DEF OneInv, OneIsForwarded, AtMostOne
    <3>2. Succeeded = {}
      BY <2>5, <3>1 DEF OneInv, SuccessIsReported, Results
    <3>3. OneIsForwarded'
      BY <2>3, <3>1 DEF OneIsForwarded, AtMostOne
    <3>4. SuccessIsReported'
      BY <1>4, <2>1, <2>2, <2>3, <2>5, <3>2 DEF SuccessIsReported
    <3>5. FeePaidOnce'
      <4>1. \A p \in Succeeded' : p \in fee_payments /\ id \in p
        BY <2>1, <2>2, <3>2 DEF Succeeded
      <4> QED
        BY <1>1, <4>1 DEF FeePaidOnce, FeePaymentsAreApart
    <3> QED
      BY <1>1, <2>1, <2>2, <2>5, <3>3, <3>4, <3>5
      DEF OneInv, QuietIsQuiet, FeeIsSettled, RemovedEarly, Quiet
  <2>6. CASE channel.state = "PaymentForwarded"
    <3>1. InFlight = {} /\ InFlight' = {}
      BY <2>1, <2>6 DEF OneInv, FeeIsSettled
    <3>2. id \notin UNION fee_payments
      BY <2>1, <3>1 DEF InFlight, Out
    <3>3. Succeeded' = Succeeded
      BY <2>1, <3>2
    <3> QED
      BY <1>1, <2>1, <2>2, <2>6, <3>1, <3>3
      DEF OneInv, QuietIsQuiet, OneIsForwarded, FeeIsSettled,
          SuccessIsReported, RemovedEarly, FeePaidOnce, Quiet
  <2> QED
    BY <1>1, <2>4, <2>5, <2>6 DEF TypeOK, Channel, States, Quiet
<1>5. /\ [type |-> "PaymentForwarded"] \in Event
      /\ [type |-> "HTLCHandlingFailed"] \in Event
  BY DEF Event
<1> QED
  BY <1>2, <1>3, <1>4, <1>5

-----------------------------------------------------------------------------
(* The theorems.                                                            *)

(* The invariant holds in every execution.                                  *)
LEMMA OneInvHolds ==
  ASSUME ~OtherTraffic, SinglePart
  PROVE  Spec => []OneInv
<1>1. Init => OneInv
  <2> SUFFICES ASSUME Init PROVE OneInv
    OBVIOUS
  <2>1. TypeOK /\ registered /\ fee_payments = {}
    BY InitIsTyped DEF Init
  <2>2. channel.state = "PendingInitialPayment" /\ HashesMatch(channel.payment_queue)
    BY DEF Init, new, HashesMatch
  <2>3. Out = {} /\ Results = {} /\ Successes = {}
    BY DEF Init, Out, With, Results, Successes, Pending
  <2> QED
    BY <2>1, <2>2, <2>3
    DEF OneInv, FeePaymentsAreApart, QuietIsQuiet, OneIsForwarded, FeeIsSettled,
        SuccessIsReported, RemovedEarly, FeePaidOnce, Succeeded
<1>2. OneInv /\ [Next]_vars => OneInv'
  <2> SUFFICES ASSUME OneInv, [Next]_vars PROVE OneInv'
    OBVIOUS
  <2>1. CASE Next
    BY <2>1, HandlersKeepOne, EnvironmentKeepsOne DEF Next
  <2>2. CASE UNCHANGED vars
    BY <2>2 DEF vars, OneInv, TypeOK, FeePaymentsAreApart, QuietIsQuiet,
                OneIsForwarded, FeeIsSettled, SuccessIsReported, RemovedEarly,
                FeePaidOnce, Out, Results, Successes, Pending, InFlight,
                Succeeded, With
  <2> QED
    BY <2>1, <2>2
<1> QED
  BY <1>1, <1>2, PTL DEF Spec

(* At most one payment is in flight that bears the fee (service.rs:101-103; *)
(* CHANGELOG.md:5-6), for single-part payments.                             *)
THEOREM AtMostOneFeePaymentHolds ==
  ASSUME ~OtherTraffic, SinglePart
  PROVE  Spec => []AtMostOneFeePayment
<1>1. OneInv => AtMostOneFeePayment
  <2> SUFFICES ASSUME OneInv, NEW p \in InFlight, NEW q \in InFlight
               PROVE  p = q
    BY DEF AtMostOneFeePayment
  <2>1. PICK id \in Out, other \in Out : id \in p /\ other \in q
    BY DEF InFlight, Out
  <2>2. channel.state = "PendingPaymentForward"
    BY <2>1 DEF OneInv, TypeOK, Channel, States, QuietIsQuiet, FeeIsSettled, Quiet
  <2>3. id = other
    BY <2>2 DEF OneInv, OneIsForwarded, AtMostOne
  <2> QED
    BY <2>1, <2>3 DEF OneInv, FeePaymentsAreApart, InFlight
<1> QED
  BY <1>1, OneInvHolds, PTL

(* The fee is taken from one payment that succeeds at most                  *)
(* (service.rs:118-119, 318-340), for single-part payments.                 *)
THEOREM FeePaidOnceHolds ==
  ASSUME ~OtherTraffic, SinglePart
  PROVE  Spec => []FeePaidOnce
<1>1. OneInv => FeePaidOnce
  BY DEF OneInv
<1> QED
  BY <1>1, OneInvHolds, PTL

(* In PendingPayment no fee payment is in flight and none succeeded         *)
(* (service.rs:107-112), for single-part payments.                          *)
THEOREM PendingPaymentIsIdleHolds ==
  ASSUME ~OtherTraffic, SinglePart
  PROVE  Spec => []PendingPaymentIsIdle
<1>1. OneInv => PendingPaymentIsIdle
  BY DEF OneInv, PendingPaymentIsIdle, QuietIsQuiet, SuccessIsReported, Quiet,
         InFlight, Out
<1> QED
  BY <1>1, OneInvHolds, PTL

-----------------------------------------------------------------------------
(* The channel implements the sequencing.                                   *)

(* What FeeSequencing knows: HTLCs that bear the fee, and HTLCs that do not. *)
Bearing == Out \cap UNION fee_payments
Free == (Out \cup With("claimed")) \ UNION fee_payments

(* A step that leaves what FeeSequencing knows is a stutter.                *)
LEMMA StutterIsMapped ==
  ASSUME Bearing' = Bearing, Free' = Free, Succeeded' = Succeeded
  PROVE  [Sequencing!Next]_Sequencing!vars
BY DEF Sequencing!vars, Bearing, Free, Out

(* Forwarding a payment is ForwardPayment, or nothing when ChannelManager   *)
(* no longer holds its HTLC.                                                *)
LEMMA PayingIsMapped ==
  ASSUME SinglePart, TypeOK, FeePaymentsAreApart, Out = {}, Succeeded = {},
         NEW outcome, Sound(outcome), Pays(outcome), Perform(outcome)
  PROVE  [Sequencing!Next]_Sequencing!vars
<1> DEFINE out == Forwardable(outcome.htlcs)
<1>1. out \in SUBSET Ids
  BY ForwardableIsIds DEF Sound, Pays
<1>2. \A id \in Ids : /\ id \in out => htlc[id] = "held" /\ htlc'[id] = "outbound"
                      /\ id \notin out => htlc'[id] = htlc[id]
  BY PerformMoves
<1>3. fee_payments' = IF out # {} THEN fee_payments \cup {out} ELSE fee_payments
  BY DEF Perform, Pays
<1>4. Succeeded' = {}
  BY PayingForwardsOne
<1> HIDE DEF out
<1>5. Out' = out /\ With("claimed")' = With("claimed")
  BY <1>1, <1>2 DEF Out, With
<1>6. UNION fee_payments' = (UNION fee_payments) \cup out
  BY <1>3
<1>7. out \cap With("claimed") = {}
  BY <1>1, <1>2 DEF With
<1>8. Bearing = {} /\ Bearing' = out /\ Free' = Free
  BY <1>5, <1>6, <1>7 DEF Bearing, Free
<1>9. Sequencing!ForwardPayment(out)
  BY <1>4, <1>8 DEF Sequencing!ForwardPayment, Bearing, Free, Out
<1> QED
  BY <1>1, <1>9 DEF Sequencing!Next

(* Forwarding in full is ForwardHTLCs.                                      *)
LEMMA ReleasingIsMapped ==
  ASSUME TypeOK, FeePaymentsAreApart, Succeeded # {},
         NEW outcome, Releases(outcome), Perform(outcome)
  PROVE  [Sequencing!Next]_Sequencing!vars
<1> DEFINE out == Forwardable(outcome.htlcs) \cap Ids
<1>1. \A id \in Ids : /\ id \in out => htlc[id] = "held" /\ htlc'[id] = "outbound"
                      /\ id \notin out => htlc'[id] = htlc[id]
  BY PerformMoves
<1> HIDE DEF out
<1>2. out \in SUBSET Ids
  BY DEF out
<1>3. fee_payments' = fee_payments /\ Succeeded' = Succeeded
  BY ReleasingMovesNoFee
<1>4. Out' = Out \cup out /\ With("claimed")' = With("claimed")
  BY <1>1, <1>2 DEF Out, With
<1>5. out \cap UNION fee_payments = {}
  BY <1>1, <1>2 DEF FeePaymentsAreApart
<1>6. Bearing' = Bearing /\ Free' = Free \cup out
  BY <1>3, <1>4, <1>5 DEF Bearing, Free
<1>7. Sequencing!ForwardHTLCs(out)
  BY <1>3, <1>6 DEF Sequencing!ForwardHTLCs, Bearing, Free, Out
<1> QED
  BY <1>2, <1>7 DEF Sequencing!Next

(* The result of an HTLC is Succeed or Fail when it bears the fee; otherwise *)
(* it is Return, or nothing.                                                *)
LEMMA ResolvingIsMapped ==
  ASSUME TypeOK, FeePaymentsAreApart, NEW id \in Ids,
         NEW status \in {"claimed", "failed"}, Resolved(id, status)
  PROVE  [Sequencing!Next]_Sequencing!vars
<1>1. /\ id \in Out /\ Out' = Out \ {id}
      /\ With("claimed")' = With("claimed")
                              \cup (IF status = "claimed" THEN {id} ELSE {})
      /\ status = "failed" => Succeeded' = Succeeded
      /\ id \notin UNION fee_payments => Succeeded' = Succeeded
      /\ status = "claimed" /\ id \in UNION fee_payments => Succeeded' # {}
  BY ResolvingMoves
<1>2. fee_payments' = fee_payments
  BY DEF Resolved, service
<1>3. id \notin With("claimed")
  BY <1>1 DEF Out, With
<1>4. CASE id \in UNION fee_payments
  <2>1. id \in Bearing /\ Bearing' = Bearing \ {id} /\ Free' = Free
    BY <1>1, <1>2, <1>4 DEF Bearing, Free
  <2>2. CASE status = "claimed"
    <3>1. Sequencing!Succeed(id)
      BY <1>1, <1>4, <2>1, <2>2 DEF Sequencing!Succeed, Bearing, Free, Out
    <3> QED
      BY <3>1 DEF Sequencing!Next
  <2>3. CASE status = "failed"
    <3>1. Sequencing!Fail(id)
      BY <1>1, <2>1, <2>3 DEF Sequencing!Fail, Bearing, Free, Out
    <3> QED
      BY <3>1 DEF Sequencing!Next
  <2> QED
    BY <2>2, <2>3
<1>5. CASE id \notin UNION fee_payments
  <2>1. Bearing' = Bearing /\ Succeeded' = Succeeded /\ id \in Free
    BY <1>1, <1>2, <1>5 DEF Bearing, Free
  <2>2. CASE status = "claimed"
    <3>1. Free' = Free
      BY <1>1, <1>2, <1>5, <2>2 DEF Free
    <3> QED
      BY <2>1, <3>1, StutterIsMapped
  <2>3. CASE status = "failed"
    <3>1. Free' = Free \ {id}
      BY <1>1, <1>2, <1>3, <2>3 DEF Free
    <3>2. Sequencing!Return(id)
      BY <2>1, <3>1 DEF Sequencing!Return, Bearing, Free, Out
    <3> QED
      BY <3>2 DEF Sequencing!Next
  <2> QED
    BY <2>2, <2>3
<1> QED
  BY <1>4, <1>5

(* Single-part payments are forwarded one at a time with the fee until one  *)
(* succeeds, and only then is anything forwarded in full: JITChannel        *)
(* implements FeeSequencing (service.rs:87-128).                            *)
THEOREM SequencingImplemented ==
  ASSUME ~OtherTraffic, SinglePart
  PROVE  Spec => ImplementsSequencing
<1>1. Init => Sequencing!Init
  BY DEF Init, Sequencing!Init, Succeeded, With
<1>2. OneInv /\ RideInv /\ [Next]_vars => [Sequencing!Next]_Sequencing!vars
  <2> SUFFICES ASSUME OneInv, RideInv, [Next]_vars
               PROVE  [Sequencing!Next]_Sequencing!vars
    OBVIOUS
  <2>1. TypeOK /\ FeePaymentsAreApart
    BY DEF OneInv
  <2>2. ASSUME NothingMoves
        PROVE  [Sequencing!Next]_Sequencing!vars
    <3>1. With("outbound")' = With("outbound") /\ With("claimed")' = With("claimed")
      BY <2>2 DEF NothingMoves, With
    <3>2. Succeeded' = Succeeded
      BY <2>1, <2>2, NothingChanges
    <3> QED
      BY <2>2, <3>1, <3>2, StutterIsMapped DEF NothingMoves, Bearing, Free, Out
  <2>3. CASE HandleEvent
    <3>1. PICK type : Moved(type)
      BY <2>3, HandlersMove
    <3>2. CASE Waited(type) \/ GaveUp
      BY <2>2, <3>2 DEF Waited, GaveUp
    <3>3. CASE Paid
      BY <2>1, <3>3, PayingIsMapped DEF Paid, Clear
    <3>4. CASE Released(type)
      <4>1. PICK o : Releases(o) /\ Perform(o)
        BY <3>4 DEF Released
      <4>2. type = "PaymentForwarded" => Pending("PaymentForwarded") # {}
        BY <2>1, <3>1, NextEventIsEvent DEF Moved, Pending
      <4>3. Succeeded # {}
        BY <3>4, <4>2 DEF Released, RideInv, SuccessIsPaidFor
      <4> QED
        BY <2>1, <4>1, <4>3, ReleasingIsMapped
    <3> QED
      BY <3>1, <3>2, <3>3, <3>4 DEF Moved
  <2>4. CASE \/ OpenChannel
             \/ \E id \in Ids : Receive(id) \/ Resolve(id) \/ TimeOut(id)
             \/ OtherResult("PaymentForwarded")
             \/ OtherResult("HTLCHandlingFailed")
    <3>1. \/ Unnoticed
          \/ \E id \in Ids, status \in {"claimed", "failed"} : Resolved(id, status)
      BY <2>1, <2>4, EnvironmentMoves
    <3> QED
      BY <2>1, <2>2, <3>1, ResolvingIsMapped DEF Unnoticed
  <2>5. CASE UNCHANGED vars
    BY <2>2, <2>5 DEF vars, NothingMoves
  <2> QED
    BY <2>3, <2>4, <2>5 DEF Next
<1>3. Spec => []OneInv /\ []RideInv
  BY OneInvHolds, RideInvHolds, PTL
<1> QED
  BY <1>1, <1>2, <1>3, PTL DEF Spec, ImplementsSequencing, Sequencing!Spec

=============================================================================
