---------------------- MODULE OutboundJITChannelProofs ----------------------
(***************************************************************************)
(* Lemmas about the methods of a JIT channel and its payment queue, for any *)
(* queue and any offer.  They are about values and not about a state: the   *)
(* proofs of JITChannel and of LSPS2Service rest on them alike.             *)
(***************************************************************************)
EXTENDS OutboundJITChannel, SequenceTheorems, WellFoundedInduction, TLAPS

-----------------------------------------------------------------------------
(* The helpers of the payment queue.                                        *)

(* A non-empty set of naturals has a least element, which Min returns.      *)
LEMMA MinIsElement ==
  ASSUME NEW S \in SUBSET Nat, S # {}
  PROVE  Min(S) \in S /\ \A y \in S : Min(S) <= y
<1> DEFINE R == {ss \in Nat \X Nat : ss[1] < ss[2]}
<1>1. IsWellFoundedOn(R, Nat)
  BY NatLessThanWellFounded DEF OpToRel
<1>2. PICK x \in S : \A y \in S : <<y, x>> \notin R
  BY <1>1, WFMin
<1>3. ASSUME NEW y \in S PROVE x <= y
  <2>1. <<y, x>> \in Nat \X Nat /\ <<y, x>>[1] = y /\ <<y, x>>[2] = x
    OBVIOUS
  <2>2. ~(y < x)
    BY <1>2, <2>1
  <2> QED
    BY <2>2
<1> QED
  BY <1>3 DEF Min

(* find is 0 or the index of a payment of the hash; 0 only without one      *)
(* (payment_queue.rs:26).                                                   *)
LEMMA FindIsIndex ==
  ASSUME NEW queue \in Seq(Payment), NEW hash
  PROVE  \/ /\ find(queue, hash) = 0
            /\ \A i \in 1..Len(queue) : queue[i].payment_hash # hash
         \/ /\ find(queue, hash) \in 1..Len(queue)
            /\ queue[find(queue, hash)].payment_hash = hash
<1> DEFINE I == {i \in 1..Len(queue) : queue[i].payment_hash = hash}
<1>1. I \in SUBSET Nat
  OBVIOUS
<1>2. find(queue, hash) = IF I # {} THEN Min(I) ELSE 0
  BY DEF find, SelectInSeq
<1>3. CASE I = {}
  BY <1>2, <1>3
<1>4. CASE I # {}
  <2>1. Min(I) \in I
    BY <1>1, <1>4, MinIsElement
  <2> QED
    BY <1>2, <1>4, <2>1
<1> QED
  BY <1>3, <1>4

(* position is 0 or the index of a payment of at least the amount           *)
(* (payment_queue.rs:46).                                                   *)
LEMMA PositionIsIndex ==
  ASSUME NEW queue \in Seq(Payment), NEW amount_msat
  PROVE  \/ position(queue, amount_msat) = 0
         \/ /\ position(queue, amount_msat) \in 1..Len(queue)
            /\ queue[position(queue, amount_msat)].total_msat >= amount_msat
<1> DEFINE I == {i \in 1..Len(queue) : queue[i].total_msat >= amount_msat}
<1>1. I \in SUBSET Nat
  OBVIOUS
<1>2. position(queue, amount_msat) = IF I # {} THEN Min(I) ELSE 0
  BY DEF position, SelectInSeq
<1>3. CASE I = {}
  BY <1>2, <1>3
<1>4. CASE I # {}
  <2>1. Min(I) \in I
    BY <1>1, <1>4, MinIsElement
  <2> QED
    BY <1>2, <1>4, <2>1
<1> QED
  BY <1>3, <1>4

(* Popping returns a payment of the queue and leaves payments of the queue  *)
(* (payment_queue.rs:43-50).                                                *)
LEMMA PopIsFromQueue ==
  ASSUME NEW queue \in Seq(Payment), NEW amount_msat,
         position(queue, amount_msat) # 0
  PROVE  /\ popped(queue, amount_msat) \in Payment
         /\ \E i \in 1..Len(queue) : popped(queue, amount_msat) = queue[i]
         /\ rest(queue, amount_msat) \in Seq(Payment)
         /\ \A i \in 1..Len(rest(queue, amount_msat)) :
              \E j \in 1..Len(queue) : rest(queue, amount_msat)[i] = queue[j]
<1> DEFINE p == position(queue, amount_msat)
           before == SubSeq(queue, 1, p - 1)
           after == SubSeq(queue, p + 1, Len(queue))
<1>1. p \in 1..Len(queue)
  BY PositionIsIndex
<1>2. rest(queue, amount_msat) = before \o after
  BY DEF rest, RemoveAt
<1>3. /\ before \in Seq(Payment)
      /\ Len(before) = p - 1
      /\ \A i \in 1..Len(before) : before[i] = queue[i]
  BY <1>1
<1>4. /\ after \in Seq(Payment)
      /\ Len(after) = Len(queue) - p
      /\ \A i \in 1..Len(after) : after[i] = queue[p + i]
  BY <1>1
<1> HIDE DEF p, before, after
<1>5. /\ rest(queue, amount_msat) \in Seq(Payment)
      /\ Len(rest(queue, amount_msat)) = Len(before) + Len(after)
  BY <1>2, <1>3, <1>4, ConcatProperties
<1>6. ASSUME NEW i \in 1..Len(rest(queue, amount_msat))
      PROVE  \E j \in 1..Len(queue) : rest(queue, amount_msat)[i] = queue[j]
  <2>1. rest(queue, amount_msat)[i] =
          IF i <= Len(before) THEN before[i] ELSE after[i - Len(before)]
    <3>1. i \in 1..(Len(before) + Len(after))
      BY <1>5
    <3>2. (before \o after)[i] =
            IF i <= Len(before) THEN before[i] ELSE after[i - Len(before)]
      BY <1>3, <1>4, <3>1, ConcatProperties
    <3> QED
      BY <1>2, <3>2
  <2>2. CASE i <= Len(before)
    BY <1>1, <1>3, <2>1, <2>2
  <2>3. CASE i > Len(before)
    <3>1. i - Len(before) \in 1..Len(after) /\ p + (i - Len(before)) \in 1..Len(queue)
      BY <1>1, <1>3, <1>4, <1>5, <2>3
    <3> QED
      BY <1>3, <1>4, <2>1, <2>3, <3>1
  <2> QED
    BY <1>3, <2>2, <2>3
<1> QED
  BY <1>1, <1>5, <1>6 DEF popped, p

(* A payment to which HTLCs were added is a payment of the same hash.       *)
LEMMA UpdateKeepsPayment ==
  ASSUME NEW p \in Payment, NEW h \in Seq(Ids), NEW n \in Nat
  PROVE  LET q == [p EXCEPT !.htlcs = h, !.total_msat = n]
         IN  q \in Payment /\ q.payment_hash = p.payment_hash
BY DEF Payment

(* add_htlc keeps a queue a queue, and the HTLC's payment is in it          *)
(* (payment_queue.rs:25-41).                                                *)
LEMMA AddKeepsQueue ==
  ASSUME NEW queue \in Seq(Payment), NEW id \in Ids, NEW amount_msat \in Nat
  PROVE  /\ add_htlc(queue, id, amount_msat) \in Seq(Payment)
         /\ find(add_htlc(queue, id, amount_msat), PaymentHash[id])
              \in 1..Len(add_htlc(queue, id, amount_msat))
<1> DEFINE hash == PaymentHash[id]
           i == find(queue, hash)
           added == add_htlc(queue, id, amount_msat)
<1>1. hash \in Hashes
  BY PaymentHashAssumption
<1>2. /\ added \in Seq(Payment)
      /\ \E j \in 1..Len(added) : added[j].payment_hash = hash
  <2>1. CASE i # 0
    <3>1. i \in 1..Len(queue) /\ queue[i].payment_hash = hash
      BY <2>1, FindIsIndex
    <3> DEFINE larger == [queue[i] EXCEPT !.htlcs = Append(@, id),
                                          !.total_msat = @ + amount_msat]
    <3>2. queue[i] \in Payment
      BY <3>1
    <3>3. larger \in Payment /\ larger.payment_hash = hash
      <4>1. Append(queue[i].htlcs, id) \in Seq(Ids)
        BY <3>2 DEF Payment
      <4>2. queue[i].total_msat + amount_msat \in Nat
        BY <3>2 DEF Payment
      <4> HIDE DEF i
      <4> QED
        BY <3>1, <3>2, <4>1, <4>2, UpdateKeepsPayment
    <3>4. added = [queue EXCEPT ![i] = larger]
      BY <2>1 DEF add_htlc
    <3> HIDE DEF larger, added, i
    <3>5. added \in Seq(Payment) /\ Len(added) = Len(queue) /\ added[i] = larger
      BY <3>1, <3>3, <3>4
    <3> QED
      BY <3>1, <3>3, <3>5
  <2>2. CASE i = 0
    <3> DEFINE first == [payment_hash |-> hash, htlcs |-> <<id>>,
                         total_msat |-> amount_msat]
    <3>1. first \in Payment /\ first.payment_hash = hash
      BY <1>1 DEF Payment
    <3>2. added = Append(queue, first)
      BY <2>2 DEF add_htlc
    <3> HIDE DEF first, added
    <3>3. /\ added \in Seq(Payment)
          /\ Len(added) \in 1..Len(added)
          /\ added[Len(added)] = first
      BY <3>1, <3>2
    <3> QED
      BY <3>1, <3>3
  <2> QED
    BY <2>1, <2>2
<1> QED
  BY <1>2, FindIsIndex

-----------------------------------------------------------------------------
(* The methods of the channel.                                              *)

(* A fee that does not overflow is a number of msat (utils.rs:20-26).       *)
LEMMA FeeIsNat ==
  ASSUME NEW size \in Nat, NEW min_fee_msat \in Nat, NEW proportional \in Nat,
         compute_opening_fee(size, min_fee_msat, proportional) # None
  PROVE  compute_opening_fee(size, min_fee_msat, proportional) \in Nat
<1> DEFINE product == checked(size * proportional)
           rounded == checked(product + 999999)
<1>1. size * proportional \in Nat
  OBVIOUS
<1>2. product \in Nat \/ product = None
  BY <1>1, U64Assumption DEF checked
<1>3. CASE product = None
  BY <1>3 DEF compute_opening_fee
<1>4. CASE product \in Nat
  <2>1. product # None
    BY <1>4 DEF None
  <2>2. rounded \in Nat \/ rounded = None
    BY <1>4, U64Assumption DEF checked
  <2>3. compute_opening_fee(size, min_fee_msat, proportional) =
          IF rounded = None THEN None
          ELSE Greater(rounded \div 1000000, min_fee_msat)
    BY <2>1 DEF compute_opening_fee
  <2> HIDE DEF rounded, product
  <2>4. rounded # None
    BY <2>3
  <2>5. rounded \in Nat
    BY <2>2, <2>4
  <2>6. rounded \div 1000000 \in Nat
    BY <2>5
  <2> QED
    BY <2>3, <2>4, <2>6 DEF Greater
<1> QED
  BY <1>2, <1>3, <1>4

(* What every method gives: a channel; HTLCs when it forwards a payment, and *)
(* none when it forwards nothing; HTLCs are forwarded in full in            *)
(* PaymentForwarded only.                                                   *)
Sound(outcome) ==
  /\ outcome.channel \in Channel
  /\ outcome.action = "ForwardPayment" => outcome.htlcs \in Seq(Ids)
  /\ outcome.action = "ForwardHTLCs" => outcome.channel.state = "PaymentForwarded"
  /\ \/ outcome.action \in {"ForwardPayment", "ForwardHTLCs"}
     \/ outcome.htlcs = <<>>

(* The method neither settles the fee nor forgets that it was settled.      *)
Unsettled(channel_before, outcome) ==
  outcome.channel.state = "PaymentForwarded"
    <=> channel_before.state = "PaymentForwarded"

(* Changing the state and the queue of a channel gives a channel.           *)
LEMMA UpdateKeepsChannel ==
  ASSUME NEW c \in Channel, NEW s \in States, NEW queue \in Seq(Payment)
  PROVE  [c EXCEPT !.state = s, !.payment_queue = queue] \in Channel
BY DEF Channel

(* Staying and failing change nothing.                                      *)
LEMMA StayIsSound ==
  ASSUME NEW c \in Channel
  PROVE  /\ Sound(Stay(c)) /\ Unsettled(c, Stay(c))
         /\ Sound(Err(c)) /\ Unsettled(c, Err(c))
BY DEF Stay, Err, Outcome, Sound, Unsettled

(* PopAndForward is sound when what it does otherwise is                    *)
(* (service.rs:223-242, 276-298, 318-340).                                  *)
LEMMA PopAndForwardIsSound ==
  ASSUME NEW c \in Channel, c.state # "PaymentForwarded",
         NEW otherwise, Sound(otherwise), Unsettled(c, otherwise)
  PROVE  Sound(PopAndForward(c, otherwise)) /\ Unsettled(c, PopAndForward(c, otherwise))
<1> DEFINE queue == c.payment_queue
           fee == c.opening_fee_msat
<1>1. CASE position(queue, fee) = 0
  BY <1>1 DEF PopAndForward
<1>2. CASE position(queue, fee) # 0
  <2> DEFINE next == [c EXCEPT !.state = "PendingPaymentForward",
                               !.payment_queue = rest(queue, fee)]
             htlcs == popped(queue, fee).htlcs
  <2>1. queue \in Seq(Payment)
    BY DEF Channel
  <2>2. popped(queue, fee) \in Payment /\ rest(queue, fee) \in Seq(Payment)
    BY <1>2, <2>1, PopIsFromQueue
  <2>3. htlcs \in Seq(Ids)
    BY <2>2 DEF Payment
  <2>4. next \in Channel /\ next.state = "PendingPaymentForward"
    <3> DEFINE remaining == rest(queue, fee)
    <3>1. remaining \in Seq(Payment) /\ "PendingPaymentForward" \in States
      BY <2>2 DEF States
    <3> HIDE DEF remaining
    <3>2. [c EXCEPT !.state = "PendingPaymentForward",
                    !.payment_queue = remaining] \in Channel
      BY <3>1, UpdateKeepsChannel
    <3>3. [c EXCEPT !.state = "PendingPaymentForward",
                    !.payment_queue = remaining].state = "PendingPaymentForward"
      BY DEF Channel
    <3> QED
      BY <3>2, <3>3 DEF remaining
  <2>5. PopAndForward(c, otherwise) = Outcome(next, "ForwardPayment", htlcs)
    BY <1>2 DEF PopAndForward
  <2> HIDE DEF next, htlcs
  <2> QED
    BY <2>3, <2>4, <2>5 DEF Sound, Unsettled, Outcome
<1> QED
  BY <1>1, <1>2

(* Collecting the initial payment (service.rs:134-204).                     *)
LEMMA InitialIsSound ==
  ASSUME NEW c \in Channel, c.state = "PendingInitialPayment",
         NEW an_offer \in Offer, NEW id \in Ids, NEW amount_msat \in Nat
  PROVE  LET o == initial_htlc_intercepted(c, an_offer, id, amount_msat)
         IN  Sound(o) /\ Unsettled(c, o)
<1> DEFINE queue == add_htlc(c.payment_queue, id, amount_msat)
           payment == queue[find(queue, PaymentHash[id])]
           mpp_mode == an_offer.payment_size_msat # None
           size == IF mpp_mode THEN an_offer.payment_size_msat
                   ELSE payment.total_msat
           fee == compute_opening_fee(size, an_offer.min_fee_msat,
                                      an_offer.proportional)
           queued == [c EXCEPT !.payment_queue = queue]
           opened == [queued EXCEPT !.state = "PendingChannelOpen",
                                    !.opening_fee_msat = fee]
           o == initial_htlc_intercepted(c, an_offer, id, amount_msat)
<1>1. c.payment_queue \in Seq(Payment)
  BY DEF Channel
<1>2. queue \in Seq(Payment) /\ payment \in Payment
  BY <1>1, AddKeepsQueue
<1>3. queued \in Channel /\ queued.state = "PendingInitialPayment"
  BY <1>2 DEF Channel
<1>4. \/ o = Err(queued)
      \/ o = Stay(queued)
      \/ fee # None /\ o = Outcome(opened, "OpenChannel", <<>>)
  BY DEF initial_htlc_intercepted
<1>5. size \in Nat
  <2>1. payment.total_msat \in Nat
    BY <1>2 DEF Payment
  <2>2. an_offer.payment_size_msat \in Nat \cup {None}
    BY DEF Offer
  <2> HIDE DEF payment
  <2> QED
    BY <2>1, <2>2
<1>6. fee # None => fee \in Nat
  <2>1. an_offer.min_fee_msat \in Nat /\ an_offer.proportional \in Nat
    BY DEF Offer
  <2> HIDE DEF size
  <2> QED
    BY <1>5, <2>1, FeeIsNat
<1>7. fee # None => opened \in Channel /\ opened.state = "PendingChannelOpen"
  <2> HIDE DEF fee, queued
  <2> QED
    BY <1>3, <1>6 DEF Channel, States
<1> HIDE DEF queued, opened, fee
<1> QED
  BY <1>3, <1>4, <1>7 DEF Sound, Unsettled, Outcome, Stay, Err

(* The interception of an HTLC (service.rs:130-264).                        *)
LEMMA InterceptedIsSound ==
  ASSUME NEW c \in Channel, NEW an_offer \in Offer,
         NEW id \in Ids, NEW amount_msat \in Nat
  PROVE  LET o == htlc_intercepted(c, an_offer, id, amount_msat)
         IN  Sound(o) /\ Unsettled(c, o)
<1> DEFINE queued == [c EXCEPT !.payment_queue = add_htlc(@, id, amount_msat)]
           o == htlc_intercepted(c, an_offer, id, amount_msat)
<1> SUFFICES Sound(o) /\ Unsettled(c, o)
  OBVIOUS
<1>1. add_htlc(c.payment_queue, id, amount_msat) \in Seq(Payment)
  BY AddKeepsQueue DEF Channel
<1>2. queued \in Channel /\ queued.state = c.state
  BY <1>1 DEF Channel
<1>3. /\ Sound(Stay(queued)) /\ Unsettled(queued, Stay(queued))
  BY <1>2, StayIsSound
<1>4. CASE c.state = "PendingInitialPayment"
  BY <1>4, InitialIsSound DEF htlc_intercepted
<1>5. CASE c.state \in {"PendingChannelOpen", "PendingPaymentForward"}
  <2>1. o = Stay(queued)
    BY <1>5 DEF htlc_intercepted, WhileForwarding
  <2> HIDE DEF queued, o
  <2> QED
    BY <1>2, <1>3, <2>1 DEF Unsettled
<1>6. CASE c.state = "PendingPayment"
  <2>1. o = PopAndForward(queued, Stay(queued))
    BY <1>6 DEF htlc_intercepted
  <2> HIDE DEF queued, o
  <2>2. Sound(o) /\ Unsettled(queued, o)
    BY <1>2, <1>3, <1>6, <2>1, PopAndForwardIsSound
  <2> QED
    BY <1>2, <2>2 DEF Unsettled
<1>7. CASE c.state = "PaymentForwarded"
  <2>1. o = Outcome(c, "ForwardHTLCs", <<id>>)
    BY <1>7 DEF htlc_intercepted
  <2> QED
    BY <1>7, <2>1 DEF Sound, Unsettled, Outcome
<1> QED
  BY <1>4, <1>5, <1>6, <1>7 DEF Channel, States

(* The channel becomes usable (service.rs:266-297).                         *)
LEMMA ReadyIsSound ==
  ASSUME NEW c \in Channel
  PROVE  Sound(channel_ready(c)) /\ Unsettled(c, channel_ready(c))
<1>1. CASE c.state = "PendingChannelOpen"
  BY <1>1, StayIsSound, PopAndForwardIsSound DEF channel_ready
<1>2. CASE c.state # "PendingChannelOpen"
  BY <1>2, StayIsSound DEF channel_ready
<1> QED
  BY <1>1, <1>2

(* An HTLC fails (service.rs:299-353).                                      *)
LEMMA FailedIsSound ==
  ASSUME NEW c \in Channel
  PROVE  Sound(htlc_handling_failed(c)) /\ Unsettled(c, htlc_handling_failed(c))
<1>1. CASE c.state = "PendingPaymentForward"
  <2> DEFINE retry == Stay([c EXCEPT !.state = "PendingPayment"])
  <2>1. htlc_handling_failed(c) = PopAndForward(c, retry)
    BY <1>1 DEF htlc_handling_failed
  <2>2. Sound(retry) /\ Unsettled(c, retry)
    BY <1>1 DEF Sound, Unsettled, Stay, Outcome, Channel, States
  <2> HIDE DEF retry
  <2> QED
    BY <1>1, <2>1, <2>2, PopAndForwardIsSound
<1>2. CASE c.state \in {"PendingPayment", "PaymentForwarded"}
  BY <1>2, StayIsSound DEF htlc_handling_failed
<1>3. CASE c.state \in {"PendingInitialPayment", "PendingChannelOpen"}
  BY <1>3, StayIsSound DEF htlc_handling_failed
<1> QED
  BY <1>1, <1>2, <1>3 DEF Channel, States

(* An HTLC succeeds: the only method that settles the fee                   *)
(* (service.rs:355-378).                                                    *)
LEMMA ForwardedIsSound ==
  ASSUME NEW c \in Channel
  PROVE  /\ Sound(payment_forwarded(c))
         /\ payment_forwarded(c).action # "ForwardPayment"
<1>1. CASE c.state = "PendingPaymentForward"
  <2> DEFINE next == [c EXCEPT !.state = "PaymentForwarded",
                               !.payment_queue = <<>>]
  <2>1. payment_forwarded(c)
          = Outcome(next, "ForwardHTLCs", clear(c.payment_queue))
    BY <1>1 DEF payment_forwarded
  <2>2. next \in Channel /\ next.state = "PaymentForwarded"
    <3>1. <<>> \in Seq(Payment) /\ "PaymentForwarded" \in States
      BY DEF States
    <3>2. next \in Channel
      BY <3>1, UpdateKeepsChannel
    <3>3. next.state = "PaymentForwarded"
      BY DEF Channel
    <3> QED
      BY <3>2, <3>3
  <2> HIDE DEF next
  <2> QED
    BY <2>1, <2>2 DEF Sound, Outcome
<1>2. CASE c.state = "PaymentForwarded"
  BY <1>2, StayIsSound DEF payment_forwarded, Stay, Outcome
<1>3. CASE c.state \notin {"PendingPaymentForward", "PaymentForwarded"}
  BY <1>3, StayIsSound DEF payment_forwarded, Err, Outcome
<1> QED
  BY <1>1, <1>2, <1>3

-----------------------------------------------------------------------------
(* Running totals.                                                          *)

(* The running totals of the first n amounts.                               *)
Totals(amounts, n) ==
  {f \in [0..n -> Nat] : /\ f[0] = 0
                         /\ \A k \in 1..n : f[k] = f[k - 1] + amounts[k]}

(* There are running totals up to every position.                           *)
LEMMA TotalsExist ==
  ASSUME NEW amounts \in Seq(Nat), NEW n \in 0..Len(amounts)
  PROVE  Totals(amounts, n) # {}
<1> DEFINE Bad == {m \in 0..Len(amounts) : Totals(amounts, m) = {}}
<1>1. SUFFICES ASSUME Bad # {} PROVE FALSE
  OBVIOUS
<1> DEFINE m == Min(Bad)
<1>2. m \in Bad /\ \A k \in Bad : m <= k
  <2>1. Bad \in SUBSET Nat
    OBVIOUS
  <2> HIDE DEF Bad
  <2> QED
    BY <1>1, <2>1, MinIsElement
<1> HIDE DEF m
<1>3. m # 0
  <2>1. [k \in 0..0 |-> 0] \in Totals(amounts, 0)
    BY DEF Totals
  <2> QED
    BY <1>2, <2>1
<1>4. m - 1 \in 0..Len(amounts) /\ m - 1 \notin Bad /\ amounts[m] \in Nat
  <2>1. m \in 1..Len(amounts)
    BY <1>2, <1>3
  <2>2. m - 1 \in 0..Len(amounts) /\ ~(m <= m - 1)
    BY <2>1
  <2>3. m - 1 \notin Bad
    <3> HIDE DEF Bad
    <3> QED
      BY <1>2, <2>2
  <2>4. amounts[m] \in Nat
    BY <2>1
  <2> QED
    BY <2>2, <2>3, <2>4
<1>5. PICK f \in [0..(m - 1) -> Nat] :
        /\ f[0] = 0
        /\ \A k \in 1..(m - 1) : f[k] = f[k - 1] + amounts[k]
  BY <1>4 DEF Totals
<1> DEFINE g == [k \in 0..m |-> IF k = m THEN f[m - 1] + amounts[m] ELSE f[k]]
<1>6. g \in [0..m -> Nat] /\ g[0] = 0
  BY <1>2, <1>3, <1>4, <1>5
<1>7. ASSUME NEW k \in 1..m PROVE g[k] = g[k - 1] + amounts[k]
  <2>0. m \in Nat
    BY <1>2
  <2>1. CASE k = m
    BY <2>0, <2>1
  <2>2. CASE k # m
    <3>1. k \in 1..(m - 1) /\ k - 1 \in 0..m /\ k - 1 # m /\ k \in 0..m
      BY <2>0, <2>2
    <3> QED
      BY <1>5, <2>2, <3>1
  <2> QED
    BY <2>1, <2>2
<1>8. g \in Totals(amounts, m)
  BY <1>6, <1>7 DEF Totals
<1> QED
  BY <1>2, <1>8

(* Whatever satisfies their equation agrees with them.                      *)
LEMMA TotalsAgree ==
  ASSUME NEW amounts \in Seq(Nat), NEW n \in 0..Len(amounts),
         NEW f \in Totals(amounts, n), NEW g, g[0] = 0,
         \A k \in 1..n : g[k] = g[k - 1] + amounts[k]
  PROVE  \A k \in 0..n : g[k] = f[k]
<1> DEFINE Bad == {k \in 0..n : g[k] # f[k]}
<1>1. SUFFICES ASSUME Bad # {} PROVE FALSE
  OBVIOUS
<1> DEFINE m == Min(Bad)
<1>2. m \in Bad /\ \A k \in Bad : m <= k
  <2>1. Bad \in SUBSET Nat
    OBVIOUS
  <2> HIDE DEF Bad
  <2> QED
    BY <1>1, <2>1, MinIsElement
<1> HIDE DEF m
<1>3. f[0] = 0 /\ \A k \in 1..n : f[k] = f[k - 1] + amounts[k]
  BY DEF Totals
<1>4. m # 0
  BY <1>2, <1>3
<1>5. m \in 1..n /\ m - 1 \in 0..n /\ m - 1 \notin Bad
  BY <1>2, <1>4
<1> QED
  BY <1>2, <1>3, <1>5

(* SumTo is the last of the running totals.                                 *)
LEMMA SumToIsTotal ==
  ASSUME NEW amounts \in Seq(Nat), NEW f \in Totals(amounts, Len(amounts))
  PROVE  SumTo(amounts) = f[Len(amounts)]
<1> DEFINE n == Len(amounts)
           Equation(g) == g = [k \in 0..n |-> IF k = 0 THEN 0
                                              ELSE g[k - 1] + amounts[k]]
           sum == CHOOSE g : Equation(g)
<1>1. Equation(f)
  <2>1. f \in [0..n -> Nat] /\ f[0] = 0 /\ \A k \in 1..n : f[k] = f[k - 1] + amounts[k]
    BY DEF Totals
  <2>2. \A k \in 0..n : f[k] = IF k = 0 THEN 0 ELSE f[k - 1] + amounts[k]
    BY <2>1
  <2> HIDE DEF n
  <2> QED
    BY <2>1, <2>2
<1>2. Equation(sum)
  <2> HIDE DEF Equation
  <2> QED
    BY <1>1
<1>3. SumTo(amounts) = sum[n]
  BY DEF SumTo
<1> HIDE DEF sum
<1>4. n \in Nat /\ sum[0] = 0 /\ \A k \in 1..n : sum[k] = sum[k - 1] + amounts[k]
  BY <1>2
<1>5. sum[n] = f[n]
  BY <1>4, TotalsAgree
<1> QED
  BY <1>3, <1>5

(* Appending an amount adds it to the sum.                                  *)
LEMMA SumAppend ==
  ASSUME NEW amounts \in Seq(Nat), NEW a \in Nat
  PROVE  /\ SumTo(amounts) \in Nat
         /\ SumTo(Append(amounts, a)) = SumTo(amounts) + a
<1> DEFINE n == Len(amounts)
           longer == Append(amounts, a)
<1>1. PICK f : f \in Totals(amounts, n)
  BY TotalsExist
<1>2. /\ longer \in Seq(Nat) /\ Len(longer) = n + 1 /\ longer[n + 1] = a
      /\ \A k \in 1..n : longer[k] = amounts[k]
  OBVIOUS
<1>3. /\ n \in Nat /\ f \in [0..n -> Nat] /\ f[0] = 0
      /\ \A k \in 1..n : f[k] = f[k - 1] + amounts[k]
  BY <1>1 DEF Totals
<1> DEFINE g == [k \in 0..(n + 1) |-> IF k = n + 1 THEN f[n] + a ELSE f[k]]
<1> HIDE DEF longer, n
<1>4. g \in [0..(n + 1) -> Nat] /\ g[0] = 0 /\ g[n + 1] = f[n] + a
  BY <1>3
<1>5. \A k \in 1..(n + 1) : g[k] = g[k - 1] + longer[k]
  BY <1>2, <1>3
<1>6. g \in Totals(longer, n + 1)
  BY <1>4, <1>5 DEF Totals
<1>7. SumTo(longer) = g[n + 1]
  <2> HIDE DEF g
  <2> QED
    BY <1>2, <1>6, SumToIsTotal
<1>8. SumTo(amounts) = f[n] /\ f[n] \in Nat
  BY <1>1, <1>3, SumToIsTotal DEF n
<1> QED
  BY <1>4, <1>7, <1>8 DEF longer

(* A single amount is its own sum.                                          *)
LEMMA SumOfOne ==
  ASSUME NEW a \in Nat
  PROVE  SumTo(<<a>>) = a
<1>1. <<>> \in Seq(Nat) /\ Len(<<>>) = 0 /\ Append(<<>>, a) = <<a>>
  OBVIOUS
<1>2. [k \in 0..0 |-> 0] \in Totals(<<>>, 0)
  BY DEF Totals
<1>3. SumTo(<<>>) = 0
  BY <1>1, <1>2, SumToIsTotal
<1>4. SumTo(Append(<<>>, a)) = SumTo(<<>>) + a
  BY <1>1, SumAppend
<1>5. SumTo(Append(<<>>, a)) = a
  BY <1>3, <1>4
<1> QED
  BY <1>1, <1>5, Zenon

-----------------------------------------------------------------------------
(* Flattening.                                                              *)

(* The first n sequences put together, at every position.                   *)
Flattenings(S, seqs, n) ==
  {f \in [1..n -> Seq(S)] :
     \A k \in 1..n :
       /\ f[k] = IF k = 1 THEN seqs[k] ELSE f[k - 1] \o seqs[k]
       /\ Range(f[k]) = UNION {Range(seqs[j]) : j \in 1..k}}

(* There are flattenings up to every position.                              *)
LEMMA FlatteningsExist ==
  ASSUME NEW S, NEW seqs \in Seq(Seq(S)), NEW n \in 1..Len(seqs)
  PROVE  Flattenings(S, seqs, n) # {}
<1> DEFINE Bad == {m \in 1..Len(seqs) : Flattenings(S, seqs, m) = {}}
<1>1. SUFFICES ASSUME Bad # {} PROVE FALSE
  OBVIOUS
<1> DEFINE m == Min(Bad)
<1>2. m \in Bad /\ \A k \in Bad : m <= k
  <2>1. Bad \in SUBSET Nat
    OBVIOUS
  <2> HIDE DEF Bad
  <2> QED
    BY <1>1, <2>1, MinIsElement
<1> HIDE DEF m
<1>3. m # 1
  <2> DEFINE f == [k \in 1..1 |-> seqs[k]]
  <2>1. f \in [1..1 -> Seq(S)] /\ f[1] = seqs[1]
    OBVIOUS
  <2>2. UNION {Range(seqs[j]) : j \in 1..1} = Range(seqs[1])
    OBVIOUS
  <2> HIDE DEF f
  <2>3. f \in Flattenings(S, seqs, 1)
    BY <2>1, <2>2 DEF Flattenings
  <2> QED
    BY <1>2, <2>3
<1>4. m - 1 \in 1..Len(seqs) /\ m - 1 \notin Bad /\ seqs[m] \in Seq(S) /\ m \in Nat
  <2>1. m \in 1..Len(seqs) /\ Len(seqs) \in Nat
    BY <1>2
  <2>2. m - 1 \in 1..Len(seqs) /\ m \in Nat
    BY <1>3, <2>1
  <2>3. m - 1 \notin Bad
    <3> HIDE DEF Bad
    <3> QED
      BY <1>2, <2>2
  <2> QED
    BY <2>1, <2>2, <2>3
<1>5. PICK f \in [1..(m - 1) -> Seq(S)] :
        \A k \in 1..(m - 1) :
          /\ f[k] = IF k = 1 THEN seqs[k] ELSE f[k - 1] \o seqs[k]
          /\ Range(f[k]) = UNION {Range(seqs[j]) : j \in 1..k}
  BY <1>4 DEF Flattenings
<1> DEFINE last == f[m - 1] \o seqs[m]
           g == [k \in 1..m |-> IF k = m THEN last ELSE f[k]]
<1>6. f[m - 1] \in Seq(S) /\ last \in Seq(S)
  BY <1>4, <1>5
<1>7. Range(last) = UNION {Range(seqs[j]) : j \in 1..m}
  <2>1. Range(last) = Range(f[m - 1]) \cup Range(seqs[m])
    BY <1>4, <1>6, RangeConcatenation
  <2>2. Range(f[m - 1]) = UNION {Range(seqs[j]) : j \in 1..(m - 1)}
    <3>1. m - 1 \in 1..(m - 1)
      BY <1>4
    <3> HIDE DEF last
    <3> QED
      BY <1>5, <3>1
  <2>3. 1..m = (1..(m - 1)) \cup {m}
    BY <1>4
  <2> HIDE DEF last
  <2> QED
    BY <2>1, <2>2, <2>3
<1> HIDE DEF last
<1>8. g \in [1..m -> Seq(S)]
  BY <1>4, <1>5, <1>6
<1>9. ASSUME NEW k \in 1..m
      PROVE  /\ g[k] = IF k = 1 THEN seqs[k] ELSE g[k - 1] \o seqs[k]
             /\ Range(g[k]) = UNION {Range(seqs[j]) : j \in 1..k}
  <2>1. CASE k = m
    <3>1. g[k] = last /\ g[k - 1] = f[m - 1] /\ k # 1
      BY <1>3, <1>4, <2>1
    <3> HIDE DEF g
    <3> QED
      BY <1>7, <2>1, <3>1 DEF last
  <2>2. CASE k # m
    <3>1. k \in 1..(m - 1) /\ g[k] = f[k] /\ (k # 1 => g[k - 1] = f[k - 1])
      BY <1>4, <2>2
    <3> HIDE DEF g
    <3> QED
      BY <1>5, <3>1
  <2> QED
    BY <2>1, <2>2
<1>10. g \in Flattenings(S, seqs, m)
  <2> HIDE DEF g
  <2> QED
    BY <1>8, <1>9 DEF Flattenings
<1> QED
  BY <1>2, <1>10

(* FlattenSeq keeps the elements of the sequences and adds none.            *)
LEMMA FlattenKeepsElements ==
  ASSUME NEW S, NEW seqs \in Seq(Seq(S))
  PROVE  /\ FlattenSeq(seqs) \in Seq(S)
         /\ Range(FlattenSeq(seqs)) = UNION {Range(seqs[j]) : j \in 1..Len(seqs)}
<1> DEFINE n == Len(seqs)
           Equation(g) == g = [k \in 1..n |-> IF k = 1 THEN seqs[k]
                                              ELSE g[k - 1] \o seqs[k]]
           flatten == CHOOSE g : Equation(g)
<1>1. CASE n = 0
  <2>1. seqs = <<>> /\ FlattenSeq(seqs) = <<>>
    BY <1>1 DEF FlattenSeq
  <2>2. Range(<<>>) = {} /\ <<>> \in Seq(S)
    BY DEF Range
  <2>3. UNION {Range(seqs[j]) : j \in 1..n} = {}
    BY <1>1
  <2> QED
    BY <2>1, <2>2, <2>3
<1>2. CASE n # 0
  <2>1. n \in 1..Len(seqs) /\ n \in Nat
    BY <1>2
  <2>2. PICK f : f \in Flattenings(S, seqs, n)
    BY <2>1, FlatteningsExist
  <2>3. /\ f \in [1..n -> Seq(S)]
        /\ \A k \in 1..n : f[k] = IF k = 1 THEN seqs[k] ELSE f[k - 1] \o seqs[k]
        /\ Range(f[n]) = UNION {Range(seqs[j]) : j \in 1..n}
    BY <2>1, <2>2 DEF Flattenings
  <2>4. FlattenSeq(seqs) = flatten[n]
    BY <1>2 DEF FlattenSeq
  <2> HIDE DEF n
  <2>5. Equation(f)
    BY <2>3
  <2>6. Equation(flatten)
    <3> HIDE DEF Equation
    <3> QED
      BY <2>5
  <2> HIDE DEF flatten
  <2> DEFINE Bad == {k \in 1..n : flatten[k] # f[k]}
  <2>7. ASSUME Bad # {} PROVE FALSE
    <3> DEFINE m == Min(Bad)
    <3>1. m \in Bad /\ \A k \in Bad : m <= k
      <4>1. Bad \in SUBSET Nat
        OBVIOUS
      <4> HIDE DEF Bad
      <4> QED
        BY <2>7, <4>1, MinIsElement
    <3> HIDE DEF m
    <3>2. m # 1
      BY <2>3, <2>6, <3>1
    <3>3. m \in 1..n /\ m - 1 \in 1..n /\ m - 1 \notin Bad
      BY <2>1, <3>1, <3>2
    <3>4. flatten[m] = flatten[m - 1] \o seqs[m]
      BY <2>6, <3>2, <3>3
    <3>5. f[m] = f[m - 1] \o seqs[m]
      BY <2>3, <3>2, <3>3
    <3> QED
      BY <3>1, <3>3, <3>4, <3>5
  <2>8. flatten[n] = f[n] /\ f[n] \in Seq(S)
    BY <2>1, <2>3, <2>7 DEF n
  <2> QED
    BY <2>3, <2>4, <2>8 DEF n
<1> QED
  BY <1>1, <1>2

(* clear releases every HTLC of the queue (payment_queue.rs:52-54).         *)
LEMMA ClearReleasesAll ==
  ASSUME NEW queue \in Seq(Payment)
  PROVE  clear(queue) \in Seq(Ids) /\ Range(clear(queue)) = QueuedIds(queue)
<1> DEFINE seqs == [i \in DOMAIN queue |-> queue[i].htlcs]
<1>1. /\ seqs \in Seq(Seq(Ids)) /\ Len(seqs) = Len(queue)
      /\ \A i \in 1..Len(queue) : seqs[i] = queue[i].htlcs
  <2>1. DOMAIN queue = 1..Len(queue) /\ Len(queue) \in Nat
    OBVIOUS
  <2>2. ASSUME NEW i \in 1..Len(queue)
        PROVE  queue[i].htlcs \in Seq(Ids)
    <3>1. queue[i] \in Payment
      OBVIOUS
    <3> QED
      BY <3>1 DEF Payment
  <2> QED
    BY <2>1, <2>2
<1>2. clear(queue) = FlattenSeq(seqs)
  BY DEF clear
<1> HIDE DEF seqs
<1>3. /\ clear(queue) \in Seq(Ids)
      /\ Range(clear(queue)) = UNION {Range(seqs[j]) : j \in 1..Len(seqs)}
  BY <1>1, <1>2, FlattenKeepsElements
<1> QED
  BY <1>1, <1>3 DEF QueuedIds

-----------------------------------------------------------------------------
(* The payments of a queue.                                                 *)

AmountsOf(htlcs, amounts) == [j \in DOMAIN htlcs |-> amounts[htlcs[j]]]

(* What QueueIsWellFormed says of each payment.                             *)
Grouped(p, amounts) ==
  /\ p.htlcs # <<>>
  /\ \A j, k \in DOMAIN p.htlcs : p.htlcs[j] = p.htlcs[k] => j = k
  /\ \A id \in Range(p.htlcs) : PaymentHash[id] = p.payment_hash
  /\ p.total_msat = SumTo(AmountsOf(p.htlcs, amounts))

(* What it says of two payments.                                            *)
OnePerHash(queue) ==
  \A i, j \in 1..Len(queue) :
    queue[i].payment_hash = queue[j].payment_hash => i = j

WellFormed(queue, amounts) ==
  /\ OnePerHash(queue)
  /\ \A i \in 1..Len(queue) : Grouped(queue[i], amounts)

(* The amounts of HTLCs are amounts; one that joins comes last.             *)
LEMMA AmountsAppend ==
  ASSUME NEW htlcs \in Seq(Ids), NEW id \in Ids, NEW amounts \in [Ids -> Nat]
  PROVE  /\ AmountsOf(htlcs, amounts) \in Seq(Nat)
         /\ AmountsOf(Append(htlcs, id), amounts)
              = Append(AmountsOf(htlcs, amounts), amounts[id])
<1> DEFINE n == Len(htlcs)
           all == Append(htlcs, id)
           a == AmountsOf(htlcs, amounts)
           b == AmountsOf(all, amounts)
           c == Append(a, amounts[id])
<1>1. /\ n \in Nat /\ DOMAIN htlcs = 1..n
      /\ DOMAIN all = 1..(n + 1) /\ all[n + 1] = id
      /\ \A i \in 1..n : all[i] = htlcs[i] /\ htlcs[i] \in Ids
  OBVIOUS
<1> HIDE DEF n, all
<1>2. a = [j \in 1..n |-> amounts[htlcs[j]]] /\ \A j \in 1..n : a[j] \in Nat
  BY <1>1 DEF AmountsOf
<1>3. a \in Seq(Nat) /\ Len(a) = n
  BY <1>1, <1>2
<1>4. b = [j \in 1..(n + 1) |-> amounts[all[j]]]
  BY <1>1 DEF AmountsOf
<1>5. /\ b \in Seq(Nat) /\ Len(b) = n + 1
      /\ \A j \in 1..(n + 1) : b[j] = IF j = n + 1 THEN amounts[id] ELSE a[j]
  <2>1. \A j \in 1..(n + 1) : b[j] = IF j = n + 1 THEN amounts[id] ELSE a[j]
    BY <1>1, <1>2, <1>4
  <2> HIDE DEF b, a
  <2>2. ASSUME NEW j \in 1..(n + 1) PROVE b[j] \in Nat
    <3>1. amounts[id] \in Nat
      OBVIOUS
    <3>2. j = n + 1 \/ j \in 1..n
      BY <1>1
    <3> QED
      BY <1>2, <2>1, <3>1, <3>2
  <2> QED
    BY <1>1, <1>4, <2>1, <2>2
<1> HIDE DEF a, b
<1>6. /\ c \in Seq(Nat) /\ Len(c) = n + 1
      /\ \A j \in 1..(n + 1) : c[j] = IF j = n + 1 THEN amounts[id] ELSE a[j]
  BY <1>1, <1>3
<1> HIDE DEF c
<1>7. b = c
  BY <1>5, <1>6, SeqEqual
<1> QED
  BY <1>3, <1>7 DEF a, b, c, all

(* The elements of a sequence to which one was appended.                    *)
LEMMA AppendedRange ==
  ASSUME NEW S, NEW s \in Seq(S), NEW e \in S
  PROVE  Range(Append(s, e)) = Range(s) \cup {e}
<1>1. /\ DOMAIN s = 1..Len(s) /\ Len(s) \in Nat
      /\ DOMAIN Append(s, e) = 1..(Len(s) + 1)
      /\ \A i \in 1..(Len(s) + 1) :
           Append(s, e)[i] = IF i = Len(s) + 1 THEN e ELSE s[i]
  OBVIOUS
<1> QED
  BY <1>1 DEF Range

(* An HTLC joins the payment of its hash (payment_queue.rs:26-33).          *)
LEMMA GroupedGrows ==
  ASSUME NEW p \in Payment, NEW amounts \in [Ids -> Nat], Grouped(p, amounts),
         NEW id \in Ids, PaymentHash[id] = p.payment_hash,
         id \notin Range(p.htlcs)
  PROVE  LET q == [p EXCEPT !.htlcs = Append(@, id),
                            !.total_msat = @ + amounts[id]]
         IN  /\ q \in Payment /\ Grouped(q, amounts)
             /\ q.payment_hash = p.payment_hash
             /\ q.total_msat >= p.total_msat
             /\ Range(q.htlcs) = Range(p.htlcs) \cup {id}
<1> DEFINE h == Append(p.htlcs, id)
           n == p.total_msat + amounts[id]
           q == [p EXCEPT !.htlcs = h, !.total_msat = n]
<1>1. /\ p.htlcs \in Seq(Ids) /\ p.total_msat \in Nat /\ p.payment_hash \in Hashes
      /\ amounts[id] \in Nat
  BY DEF Payment
<1>2. h \in Seq(Ids) /\ h # <<>> /\ n \in Nat /\ n >= p.total_msat
  BY <1>1
<1>3. /\ q \in Payment /\ q.htlcs = h /\ q.total_msat = n
      /\ q.payment_hash = p.payment_hash
  <2> HIDE DEF h, n
  <2> QED
    BY <1>2 DEF Payment
<1>4. \A j, k \in DOMAIN h : h[j] = h[k] => j = k
  <2>1. /\ DOMAIN h = 1..(Len(p.htlcs) + 1) /\ Len(p.htlcs) \in Nat
        /\ DOMAIN p.htlcs = 1..Len(p.htlcs)
        /\ \A i \in 1..Len(p.htlcs) : h[i] = p.htlcs[i]
        /\ h[Len(p.htlcs) + 1] = id
    BY <1>1
  <2>2. \A i \in 1..Len(p.htlcs) : h[i] # id
    BY <2>1 DEF Range
  <2>3. \A j, k \in 1..Len(p.htlcs) : p.htlcs[j] = p.htlcs[k] => j = k
    BY <2>1 DEF Grouped
  <2> DEFINE len == Len(p.htlcs)
  <2>4. \A j \in DOMAIN h : j \in 1..len \/ j = len + 1
    BY <2>1
  <2>5. \A i \in 1..len : h[i] = p.htlcs[i] /\ h[i] # id
    BY <2>1, <2>2
  <2>6. h[len + 1] = id
    BY <2>1
  <2> HIDE DEF h, len
  <2>7. \A j, k \in 1..len : h[j] = h[k] => j = k
    BY <2>3, <2>5 DEF len
  <2> QED
    BY <2>4, <2>5, <2>6, <2>7
<1>5. Range(h) = Range(p.htlcs) \cup {id}
  BY <1>1, AppendedRange
<1>6. n = SumTo(AmountsOf(h, amounts))
  <2>1. AmountsOf(p.htlcs, amounts) \in Seq(Nat)
    BY <1>1, AmountsAppend
  <2>2. AmountsOf(h, amounts) = Append(AmountsOf(p.htlcs, amounts), amounts[id])
    BY <1>1, AmountsAppend
  <2>3. p.total_msat = SumTo(AmountsOf(p.htlcs, amounts))
    BY DEF Grouped
  <2> HIDE DEF h
  <2> QED
    BY <1>1, <2>1, <2>2, <2>3, SumAppend
<1> HIDE DEF h, n
<1>7. Grouped(q, amounts)
  BY <1>2, <1>3, <1>4, <1>5, <1>6 DEF Grouped
<1> QED
  BY <1>2, <1>3, <1>5, <1>7 DEF h, n

(* An HTLC opens a payment of its own (payment_queue.rs:34-39).             *)
LEMMA GroupedStarts ==
  ASSUME NEW id \in Ids, NEW amounts \in [Ids -> Nat]
  PROVE  LET p == [payment_hash |-> PaymentHash[id], htlcs |-> <<id>>,
                   total_msat |-> amounts[id]]
         IN  p \in Payment /\ Grouped(p, amounts) /\ Range(p.htlcs) = {id}
<1>1. PaymentHash[id] \in Hashes /\ amounts[id] \in Nat
  BY PaymentHashAssumption
<1>2. Range(<<id>>) = {id} /\ DOMAIN <<id>> = {1} /\ <<id>>[1] = id
  BY DEF Range
<1>3. AmountsOf(<<id>>, amounts) = <<amounts[id]>>
  BY <1>2 DEF AmountsOf
<1>4. SumTo(<<amounts[id]>>) = amounts[id]
  BY <1>1, SumOfOne
<1> QED
  BY <1>1, <1>2, <1>3, <1>4 DEF Grouped, Payment

(* add_htlc keeps a queue well formed, adds the HTLC and takes nothing      *)
(* (payment_queue.rs:25-41).                                                *)
LEMMA AddIsWellFormed ==
  ASSUME NEW queue \in Seq(Payment), NEW amounts \in [Ids -> Nat],
         WellFormed(queue, amounts), NEW id \in Ids, id \notin QueuedIds(queue)
  PROVE  LET added == add_htlc(queue, id, amounts[id])
         IN  /\ WellFormed(added, amounts)
             /\ QueuedIds(added) = QueuedIds(queue) \cup {id}
             /\ \A i \in 1..Len(queue) : \E j \in 1..Len(added) :
                  added[j].total_msat >= queue[i].total_msat
<1> DEFINE hash == PaymentHash[id]
           i == find(queue, hash)
           added == add_htlc(queue, id, amounts[id])
           n == Len(queue)
<1>1. /\ n \in Nat /\ DOMAIN queue = 1..n /\ OnePerHash(queue)
      /\ \A k \in 1..n : queue[k] \in Payment /\ Grouped(queue[k], amounts)
  BY DEF WellFormed
<1>2. \A k \in 1..n : id \notin Range(queue[k].htlcs)
  BY <1>1 DEF QueuedIds
<1>3. \A k \in 1..n : queue[k].total_msat \in Nat
  BY <1>1 DEF Payment
<1>4. CASE i # 0
  <2>1. i \in 1..n /\ queue[i].payment_hash = hash
    BY <1>4, FindIsIndex
  <2> DEFINE larger == [queue[i] EXCEPT !.htlcs = Append(@, id),
                                        !.total_msat = @ + amounts[id]]
  <2>2. /\ larger \in Payment /\ Grouped(larger, amounts)
        /\ larger.payment_hash = queue[i].payment_hash
        /\ larger.total_msat >= queue[i].total_msat
        /\ Range(larger.htlcs) = Range(queue[i].htlcs) \cup {id}
    <3> DEFINE p == queue[i]
    <3>1. p \in Payment /\ Grouped(p, amounts) /\ PaymentHash[id] = p.payment_hash
          /\ id \notin Range(p.htlcs)
      BY <1>1, <1>2, <2>1
    <3> HIDE DEF p
    <3>2. LET q == [p EXCEPT !.htlcs = Append(@, id), !.total_msat = @ + amounts[id]]
          IN  /\ q \in Payment /\ Grouped(q, amounts)
              /\ q.payment_hash = p.payment_hash
              /\ q.total_msat >= p.total_msat
              /\ Range(q.htlcs) = Range(p.htlcs) \cup {id}
      BY <3>1, GroupedGrows
    <3> QED
      BY <3>2 DEF p
  <2>3. added = [queue EXCEPT ![i] = larger]
    BY <1>4 DEF add_htlc
  <2> HIDE DEF larger, added, i
  <2>4. /\ added \in Seq(Payment) /\ Len(added) = n /\ DOMAIN added = 1..n
        /\ \A k \in 1..n : added[k] = IF k = i THEN larger ELSE queue[k]
    BY <2>1, <2>2, <2>3
  <2> HIDE DEF n
  <2>5. \A k \in 1..n : added[k].payment_hash = queue[k].payment_hash
    BY <2>2, <2>4
  <2>6. WellFormed(added, amounts)
    <3>1. OnePerHash(added)
      BY <1>1, <2>4, <2>5 DEF OnePerHash, n
    <3>2. \A k \in 1..n : Grouped(added[k], amounts)
      BY <1>1, <2>2, <2>4
    <3> QED
      BY <2>4, <3>1, <3>2 DEF WellFormed
  <2>7. QueuedIds(added) = QueuedIds(queue) \cup {id}
    <3>1. \A k \in 1..n : Range(added[k].htlcs) =
            IF k = i THEN Range(queue[k].htlcs) \cup {id} ELSE Range(queue[k].htlcs)
      BY <2>2, <2>4
    <3>2. QueuedIds(added) = UNION {Range(added[k].htlcs) : k \in 1..n}
      BY <2>4 DEF QueuedIds
    <3>3. QueuedIds(queue) = UNION {Range(queue[k].htlcs) : k \in 1..n}
      BY <1>1 DEF QueuedIds
    <3>4. \A k \in 1..n : Range(added[k].htlcs) \subseteq QueuedIds(queue) \cup {id}
      BY <3>1, <3>3
    <3>5. QueuedIds(queue) \subseteq QueuedIds(added)
      BY <3>1, <3>2, <3>3
    <3>6. id \in QueuedIds(added)
      BY <2>1, <3>1, <3>2
    <3> QED
      BY <3>2, <3>4, <3>5, <3>6
  <2>8. \A k \in 1..n : added[k].total_msat >= queue[k].total_msat
    BY <1>3, <2>2, <2>4
  <2> QED
    BY <2>4, <2>6, <2>7, <2>8 DEF added, n
<1>5. CASE i = 0
  <2>1. \A k \in 1..n : queue[k].payment_hash # hash
    BY <1>5, FindIsIndex
  <2> DEFINE first == [payment_hash |-> hash, htlcs |-> <<id>>,
                       total_msat |-> amounts[id]]
  <2>2. /\ first \in Payment /\ Grouped(first, amounts)
        /\ first.payment_hash = hash /\ Range(first.htlcs) = {id}
    BY GroupedStarts
  <2>3. added = Append(queue, first)
    BY <1>5 DEF add_htlc
  <2> HIDE DEF first, added, hash
  <2>4. /\ added \in Seq(Payment) /\ Len(added) = n + 1
        /\ DOMAIN added = 1..(n + 1) /\ added[n + 1] = first
        /\ \A k \in 1..n : added[k] = queue[k]
    BY <2>2, <2>3
  <2> HIDE DEF n
  <2>5. \A k \in 1..(n + 1) : k \in 1..n \/ k = n + 1
    BY <1>1
  <2>6. WellFormed(added, amounts)
    <3>1. OnePerHash(added)
      <4> SUFFICES ASSUME NEW k \in 1..(n + 1), NEW m \in 1..(n + 1),
                          added[k].payment_hash = added[m].payment_hash
                   PROVE  k = m
        BY <2>4 DEF OnePerHash
      <4> QED
        BY <1>1, <2>1, <2>2, <2>4, <2>5 DEF OnePerHash, n
    <3>2. \A k \in 1..(n + 1) : Grouped(added[k], amounts)
      BY <1>1, <2>2, <2>4, <2>5
    <3> QED
      BY <2>4, <3>1, <3>2 DEF WellFormed
  <2>7. QueuedIds(added) = QueuedIds(queue) \cup {id}
    <3>1. n + 1 \in 1..(n + 1) /\ \A k \in 1..n : k \in 1..(n + 1)
      BY <1>1
    <3>2. QueuedIds(added) = UNION {Range(added[k].htlcs) : k \in 1..(n + 1)}
      BY <2>4 DEF QueuedIds
    <3>3. QueuedIds(queue) = UNION {Range(queue[k].htlcs) : k \in 1..n}
      BY <1>1 DEF QueuedIds
    <3>4. QueuedIds(added) \subseteq QueuedIds(queue) \cup {id}
      BY <2>2, <2>4, <2>5, <3>2, <3>3
    <3>5. QueuedIds(queue) \subseteq QueuedIds(added)
      BY <2>4, <3>1, <3>2, <3>3
    <3>6. id \in QueuedIds(added)
      BY <2>2, <2>4, <3>1, <3>2
    <3> QED
      BY <3>4, <3>5, <3>6
  <2>8. \A k \in 1..n : k \in 1..(n + 1) /\ added[k].total_msat >= queue[k].total_msat
    BY <1>1, <1>3, <2>4
  <2> QED
    BY <2>4, <2>6, <2>7, <2>8 DEF added, n
<1> QED
  BY <1>4, <1>5

(* What rest leaves, position by position.                                  *)
LEMMA RestIsQueue ==
  ASSUME NEW queue \in Seq(Payment), NEW amount_msat,
         position(queue, amount_msat) # 0
  PROVE  LET p == position(queue, amount_msat)
             r == rest(queue, amount_msat)
         IN  /\ p \in 1..Len(queue) /\ r \in Seq(Payment)
             /\ Len(r) = Len(queue) - 1
             /\ \A i \in 1..Len(r) : r[i] = queue[IF i < p THEN i ELSE i + 1]
<1> DEFINE p == position(queue, amount_msat)
           r == rest(queue, amount_msat)
           before == SubSeq(queue, 1, p - 1)
           after == SubSeq(queue, p + 1, Len(queue))
<1>1. p \in 1..Len(queue)
  BY PositionIsIndex
<1>2. r = before \o after
  BY DEF rest, RemoveAt
<1>3. /\ before \in Seq(Payment) /\ Len(before) = p - 1
      /\ \A i \in 1..(p - 1) : before[i] = queue[i]
  BY <1>1
<1>4. /\ after \in Seq(Payment) /\ Len(after) = Len(queue) - p
      /\ \A i \in 1..(Len(queue) - p) : after[i] = queue[p + i]
  BY <1>1
<1> HIDE DEF p, r, before, after
<1>5. r \in Seq(Payment) /\ Len(r) = Len(before) + Len(after)
  BY <1>2, <1>3, <1>4, ConcatProperties
<1>6. ASSUME NEW i \in 1..Len(r)
      PROVE  r[i] = queue[IF i < p THEN i ELSE i + 1]
  <2>1. r[i] = IF i <= Len(before) THEN before[i] ELSE after[i - Len(before)]
    <3>1. i \in 1..(Len(before) + Len(after))
      BY <1>5
    <3> QED
      BY <1>2, <1>3, <1>4, <3>1, ConcatProperties
  <2>2. CASE i < p
    BY <1>1, <1>3, <2>1, <2>2
  <2>3. CASE i >= p
    <3>1. i - (p - 1) \in 1..(Len(queue) - p) /\ p + (i - (p - 1)) = i + 1
      BY <1>1, <1>3, <1>4, <1>5, <2>3
    <3> QED
      BY <1>1, <1>3, <1>4, <2>1, <2>3, <3>1
  <2> QED
    BY <1>1, <2>2, <2>3
<1>7. Len(r) = Len(queue) - 1
  BY <1>1, <1>3, <1>4, <1>5
<1> QED
  BY <1>1, <1>5, <1>6, <1>7 DEF p, r

(* Popping keeps a queue well formed and takes the HTLCs of the payment,    *)
(* which are not those of another (payment_queue.rs:43-50).                 *)
LEMMA PopIsWellFormed ==
  ASSUME NEW queue \in Seq(Payment), NEW amounts, WellFormed(queue, amounts),
         NEW amount_msat, position(queue, amount_msat) # 0
  PROVE  LET h == popped(queue, amount_msat).htlcs
             r == rest(queue, amount_msat)
         IN  /\ h \in Seq(Ids) /\ h # <<>> /\ Range(h) \subseteq QueuedIds(queue)
             /\ WellFormed(r, amounts)
             /\ QueuedIds(r) = QueuedIds(queue) \ Range(h)
<1> DEFINE p == position(queue, amount_msat)
           r == rest(queue, amount_msat)
           h == popped(queue, amount_msat).htlcs
           n == Len(queue)
           was(i) == IF i < p THEN i ELSE i + 1
<1>1. /\ p \in 1..n /\ r \in Seq(Payment) /\ Len(r) = n - 1
      /\ \A i \in 1..(n - 1) : r[i] = queue[was(i)]
  BY RestIsQueue
<1>2. /\ n \in Nat /\ DOMAIN queue = 1..n /\ OnePerHash(queue)
      /\ \A k \in 1..n : queue[k] \in Payment /\ Grouped(queue[k], amounts)
  BY DEF WellFormed
<1>3. h = queue[p].htlcs
  BY DEF popped
<1>4. h \in Seq(Ids) /\ h # <<>> /\ Range(h) \subseteq QueuedIds(queue)
  <2>1. queue[p] \in Payment /\ Grouped(queue[p], amounts)
    BY <1>1, <1>2
  <2>2. queue[p].htlcs \in Seq(Ids) /\ queue[p].htlcs # <<>>
    BY <2>1 DEF Payment, Grouped
  <2>3. Range(queue[p].htlcs) \subseteq QueuedIds(queue)
    BY <1>1, <1>2 DEF QueuedIds
  <2> QED
    BY <1>3, <2>2, <2>3
<1> HIDE DEF p, r, h, n
<1>5. DOMAIN r = 1..(n - 1)
  BY <1>1
<1>6. \A i \in 1..(n - 1) : was(i) \in 1..n /\ was(i) # p
  BY <1>1, <1>2
<1>7. \A i, j \in 1..(n - 1) : was(i) = was(j) => i = j
  BY <1>1, <1>2
<1>8. \A k \in 1..n : k = p \/ \E i \in 1..(n - 1) : was(i) = k
  <2> SUFFICES ASSUME NEW k \in 1..n, k # p
               PROVE  \E i \in 1..(n - 1) : was(i) = k
    OBVIOUS
  <2>1. CASE k < p
    <3>1. k \in 1..(n - 1) /\ was(k) = k
      BY <1>1, <1>2, <2>1
    <3> QED
      BY <3>1
  <2>2. CASE k > p
    <3>1. k - 1 \in 1..(n - 1) /\ was(k - 1) = k
      BY <1>1, <1>2, <2>2
    <3> QED
      BY <3>1
  <2> QED
    BY <1>1, <1>2, <2>1, <2>2
<1> HIDE DEF was
<1>9. WellFormed(r, amounts)
  <2>1. OnePerHash(r)
    BY <1>1, <1>2, <1>6, <1>7 DEF OnePerHash, n
  <2>2. \A i \in 1..(n - 1) : Grouped(r[i], amounts)
    BY <1>1, <1>2, <1>6
  <2> QED
    BY <1>1, <2>1, <2>2 DEF WellFormed
<1>10. \A k \in 1..n : k # p => Range(queue[k].htlcs) \cap Range(h) = {}
  <2> SUFFICES ASSUME NEW k \in 1..n, k # p, NEW id \in Range(queue[k].htlcs),
                      id \in Range(h)
               PROVE  FALSE
    OBVIOUS
  <2>1. PaymentHash[id] = queue[k].payment_hash
    BY <1>2 DEF Grouped
  <2>2. PaymentHash[id] = queue[p].payment_hash
    BY <1>1, <1>2, <1>3 DEF Grouped
  <2> QED
    BY <1>1, <1>2, <2>1, <2>2 DEF OnePerHash, n
<1>11. QueuedIds(r) = QueuedIds(queue) \ Range(h)
  <2>1. QueuedIds(r) = UNION {Range(queue[was(i)].htlcs) : i \in 1..(n - 1)}
    BY <1>1, <1>5 DEF QueuedIds
  <2>2. QueuedIds(queue) = UNION {Range(queue[k].htlcs) : k \in 1..n}
    BY <1>2 DEF QueuedIds
  <2>3. ASSUME NEW id \in QueuedIds(r)
        PROVE  id \in QueuedIds(queue) /\ id \notin Range(h)
    BY <1>6, <1>10, <2>1, <2>2, <2>3
  <2>4. ASSUME NEW id \in QueuedIds(queue), id \notin Range(h)
        PROVE  id \in QueuedIds(r)
    <3>1. PICK k \in 1..n : id \in Range(queue[k].htlcs)
      BY <2>2
    <3>2. k # p
      BY <1>3, <2>4, <3>1
    <3>3. PICK i \in 1..(n - 1) : was(i) = k
      BY <1>8, <3>2
    <3> QED
      BY <2>1, <3>1, <3>3
  <2> QED
    BY <2>3, <2>4
<1> QED
  BY <1>4, <1>9, <1>11 DEF r, h

(* The amounts of the HTLCs of a queue decide whether it is well formed.    *)
LEMMA WellFormedByAmounts ==
  ASSUME NEW queue \in Seq(Payment), NEW amounts, NEW others,
         WellFormed(queue, amounts),
         \A id \in QueuedIds(queue) : others[id] = amounts[id]
  PROVE  WellFormed(queue, others)
<1> SUFFICES ASSUME NEW i \in 1..Len(queue)
             PROVE  AmountsOf(queue[i].htlcs, others)
                      = AmountsOf(queue[i].htlcs, amounts)
  BY DEF WellFormed, Grouped
<1>1. DOMAIN queue = 1..Len(queue)
  OBVIOUS
<1>2. \A j \in DOMAIN queue[i].htlcs : queue[i].htlcs[j] \in QueuedIds(queue)
  BY <1>1 DEF QueuedIds, Range
<1> QED
  BY <1>2 DEF AmountsOf

-----------------------------------------------------------------------------
(* The methods of the channel.                                              *)

(* Of the HTLCs there are, those of the outcome leave and the others are    *)
(* queued.                                                                  *)
Accounts(ids, o, amounts) ==
  /\ o.htlcs \in Seq(Ids) /\ Range(o.htlcs) \subseteq ids
  /\ QueuedIds(o.channel.payment_queue) = ids \ Range(o.htlcs)
  /\ WellFormed(o.channel.payment_queue, amounts)
  /\ o.action = "ForwardPayment" => o.htlcs # <<>>

(* A queued payment can pay the fee and leave something to forward.         *)
CanPay(c) == \E i \in 1..Len(c.payment_queue) :
               c.payment_queue[i].total_msat > c.opening_fee_msat

(* A state is entered for a reason, and what it waits for is there.         *)
Expects(c, o) ==
  /\ o.channel.state = "PendingPaymentForward" =>
       o.action = "ForwardPayment" \/ c.state = "PendingPaymentForward"
  /\ o.channel.state = "PendingChannelOpen" =>
       /\ CanPay(o.channel)
       /\ o.action = "OpenChannel" \/ c.state = "PendingChannelOpen"
  /\ o.channel.state = "PendingInitialPayment" => c.state = "PendingInitialPayment"

(* Staying and failing account for what is queued.                          *)
LEMMA StayAccounts ==
  ASSUME NEW c \in Channel, NEW amounts, WellFormed(c.payment_queue, amounts)
  PROVE  /\ Accounts(QueuedIds(c.payment_queue), Stay(c), amounts)
         /\ Accounts(QueuedIds(c.payment_queue), Err(c), amounts)
<1>1. <<>> \in Seq(Ids) /\ Range(<<>>) = {}
  BY DEF Range
<1> QED
  BY <1>1 DEF Accounts, Stay, Err, Outcome

(* A payment that can pay is found (payment_queue.rs:46).                   *)
LEMMA CanPayIsFound ==
  ASSUME NEW c \in Channel, CanPay(c)
  PROVE  position(c.payment_queue, c.opening_fee_msat) # 0
<1> DEFINE queue == c.payment_queue
           fee == c.opening_fee_msat
           I == {k \in 1..Len(queue) : queue[k].total_msat >= fee}
<1>1. queue \in Seq(Payment) /\ fee \in Nat
  BY DEF Channel
<1>2. PICK i \in 1..Len(queue) : queue[i].total_msat > fee
  BY DEF CanPay
<1>3. queue[i].total_msat \in Nat
  <2>1. queue[i] \in Payment
    BY <1>1
  <2> QED
    BY <2>1 DEF Payment
<1>4. queue[i].total_msat >= fee
  BY <1>1, <1>2, <1>3
<1>5. position(queue, fee) = Min(I) /\ I # {} /\ I \in SUBSET Nat
  BY <1>4 DEF position, SelectInSeq
<1>6. Min(I) \in I
  BY <1>5, MinIsElement
<1> QED
  BY <1>5, <1>6

(* PopAndForward takes a payment out, or does what it does otherwise        *)
(* (service.rs:223-242, 276-298, 318-340).                                  *)
LEMMA PopAccounts ==
  ASSUME NEW c \in Channel, NEW amounts, WellFormed(c.payment_queue, amounts),
         NEW otherwise
  PROVE  LET o == PopAndForward(c, otherwise)
         IN  \/ o = otherwise /\ ~CanPay(c)
             \/ /\ Accounts(QueuedIds(c.payment_queue), o, amounts)
                /\ o.action = "ForwardPayment"
                /\ o.channel.state = "PendingPaymentForward"
<1> DEFINE queue == c.payment_queue
           fee == c.opening_fee_msat
           o == PopAndForward(c, otherwise)
<1>1. queue \in Seq(Payment) /\ fee \in Nat
  BY DEF Channel
<1>2. CASE position(queue, fee) = 0
  <2>1. o = otherwise
    BY <1>2 DEF PopAndForward
  <2>2. ~CanPay(c)
    BY <1>2, CanPayIsFound
  <2> QED
    BY <2>1, <2>2
<1>3. CASE position(queue, fee) # 0
  <2> DEFINE r == rest(queue, fee)
             h == popped(queue, fee).htlcs
             next == [c EXCEPT !.state = "PendingPaymentForward",
                               !.payment_queue = r]
  <2>1. /\ h \in Seq(Ids) /\ h # <<>> /\ Range(h) \subseteq QueuedIds(queue)
        /\ WellFormed(r, amounts)
        /\ QueuedIds(r) = QueuedIds(queue) \ Range(h)
    BY <1>1, <1>3, PopIsWellFormed
  <2>2. o = Outcome(next, "ForwardPayment", h)
    BY <1>3 DEF PopAndForward
  <2> HIDE DEF r, h, o
  <2>3. next.payment_queue = r /\ next.state = "PendingPaymentForward"
    BY DEF Channel
  <2> HIDE DEF next
  <2> QED
    BY <2>1, <2>2, <2>3 DEF Accounts, Outcome, o
<1> QED
  BY <1>2, <1>3

(* The fields of a channel whose queue changed.                             *)
LEMMA QueueUpdated ==
  ASSUME NEW c \in Channel, NEW queue \in Seq(Payment)
  PROVE  LET d == [c EXCEPT !.payment_queue = queue]
         IN  /\ d \in Channel /\ d.payment_queue = queue /\ d.state = c.state
             /\ d.opening_fee_msat = c.opening_fee_msat
BY DEF Channel

(* Enough for the size and the fee is more than the fee.                    *)
LEMMA SufficientCanPay ==
  ASSUME NEW total \in Nat, NEW size \in Nat, NEW fee \in Nat,
         Suffices(total, size, fee)
  PROVE  total > fee
BY DEF Suffices, saturating_sub

(* Collecting the initial payment (service.rs:134-204): without a fixed     *)
(* size the channel is opened or removed with its first HTLC.               *)
LEMMA InitialAccounts ==
  ASSUME NEW c \in Channel, c.state = "PendingInitialPayment",
         NEW an_offer \in Offer, NEW id \in Ids, NEW amounts \in [Ids -> Nat],
         WellFormed(c.payment_queue, amounts),
         id \notin QueuedIds(c.payment_queue)
  PROVE  LET o == initial_htlc_intercepted(c, an_offer, id, amounts[id])
         IN  /\ Accounts(QueuedIds(c.payment_queue) \cup {id}, o, amounts)
             /\ Expects(c, o)
             /\ o.action = "Err" => o.channel.state = "PendingInitialPayment"
             /\ an_offer.payment_size_msat = None =>
                  o.action = "Err" \/ o.channel.state # "PendingInitialPayment"
<1> DEFINE queue == add_htlc(c.payment_queue, id, amounts[id])
           index == find(queue, PaymentHash[id])
           payment == queue[index]
           mpp_mode == an_offer.payment_size_msat # None
           size == IF mpp_mode THEN an_offer.payment_size_msat
                   ELSE payment.total_msat
           fee == compute_opening_fee(size, an_offer.min_fee_msat,
                                      an_offer.proportional)
           queued == [c EXCEPT !.payment_queue = queue]
           opened == [queued EXCEPT !.state = "PendingChannelOpen",
                                    !.opening_fee_msat = fee]
           o == initial_htlc_intercepted(c, an_offer, id, amounts[id])
           ids == QueuedIds(c.payment_queue) \cup {id}
           result == /\ Accounts(ids, o, amounts) /\ Expects(c, o)
                     /\ o.action = "Err" =>
                          o.channel.state = "PendingInitialPayment"
                     /\ an_offer.payment_size_msat = None =>
                          \/ o.action = "Err"
                          \/ o.channel.state # "PendingInitialPayment"
<1> SUFFICES result
  OBVIOUS
<1>1. c.payment_queue \in Seq(Payment) /\ amounts[id] \in Nat
  BY DEF Channel
<1>2. /\ queue \in Seq(Payment) /\ index \in 1..Len(queue)
      /\ WellFormed(queue, amounts) /\ QueuedIds(queue) = ids
  BY <1>1, AddKeepsQueue, AddIsWellFormed
<1>3. payment \in Payment
  <2> HIDE DEF queue, index
  <2> QED
    BY <1>2
<1>4. \/ o = Err(queued)
      \/ o = Stay(queued) /\ mpp_mode
      \/ /\ o = Outcome(opened, "OpenChannel", <<>>)
         /\ fee # None /\ Suffices(payment.total_msat, size, fee)
  BY DEF initial_htlc_intercepted
<1>5. size \in Nat /\ payment.total_msat \in Nat
  <2>1. payment.total_msat \in Nat
    BY <1>3 DEF Payment
  <2>2. an_offer.payment_size_msat \in Nat \cup {None}
    BY DEF Offer
  <2> HIDE DEF payment
  <2> QED
    BY <2>1, <2>2
<1>6. fee # None => fee \in Nat
  <2>1. an_offer.min_fee_msat \in Nat /\ an_offer.proportional \in Nat
    BY DEF Offer
  <2> HIDE DEF size
  <2> QED
    BY <1>5, <2>1, FeeIsNat
<1>7. /\ queued \in Channel /\ queued.payment_queue = queue
      /\ queued.state = "PendingInitialPayment"
  <2> HIDE DEF queue
  <2> QED
    BY <1>2, QueueUpdated
<1>8. CASE o = Err(queued) \/ (o = Stay(queued) /\ mpp_mode)
  <2>1. Accounts(ids, o, amounts)
    <3> HIDE DEF queued, queue, o, mpp_mode
    <3> QED
      BY <1>2, <1>7, <1>8, StayAccounts
  <2>2. o.channel = queued /\ (o.action = "Err" \/ mpp_mode)
    BY <1>8 DEF Stay, Err, Outcome
  <2> HIDE DEF queued, queue, o
  <2>3. Expects(c, o)
    BY <1>7, <2>2 DEF Expects
  <2> QED
    BY <1>7, <2>1, <2>2, <2>3 DEF mpp_mode
<1>9. CASE /\ o = Outcome(opened, "OpenChannel", <<>>)
           /\ fee # None /\ Suffices(payment.total_msat, size, fee)
  <2> HIDE DEF size, fee, payment
  <2>1. payment.total_msat > fee
    BY <1>5, <1>6, <1>9, SufficientCanPay
  <2>2. /\ opened.payment_queue = queue /\ opened.opening_fee_msat = fee
        /\ opened.state = "PendingChannelOpen"
    <3> HIDE DEF queue
    <3> QED
      BY DEF Channel
  <2> HIDE DEF opened, queue, queued, index
  <2>3. CanPay(opened)
    BY <1>2, <2>1, <2>2 DEF CanPay, payment
  <2>4. /\ o.channel = opened /\ o.action = "OpenChannel" /\ o.htlcs = <<>>
    BY <1>9 DEF Outcome
  <2> HIDE DEF o
  <2>5. <<>> \in Seq(Ids) /\ Range(<<>>) = {}
    BY DEF Range
  <2>6. Accounts(ids, o, amounts)
    BY <1>2, <2>2, <2>4, <2>5 DEF Accounts
  <2>7. Expects(c, o)
    BY <2>2, <2>3, <2>4 DEF Expects
  <2> QED
    BY <2>2, <2>4, <2>6, <2>7
<1> HIDE DEF result, o, opened, queued, fee, size, mpp_mode, payment, queue,
             index, ids
<1> QED
  BY <1>4, <1>8, <1>9, Zenon

(* A payment that grew can still pay.                                       *)
LEMMA QueuedCanPay ==
  ASSUME NEW c \in Channel, NEW d \in Channel, CanPay(c),
         d.opening_fee_msat = c.opening_fee_msat,
         \A i \in 1..Len(c.payment_queue) : \E j \in 1..Len(d.payment_queue) :
           d.payment_queue[j].total_msat >= c.payment_queue[i].total_msat
  PROVE  CanPay(d)
<1> DEFINE was == c.payment_queue
           is == d.payment_queue
<1>1. PICK i \in 1..Len(was) : was[i].total_msat > c.opening_fee_msat
  BY DEF CanPay
<1>2. PICK j \in 1..Len(is) : is[j].total_msat >= was[i].total_msat
  OBVIOUS
<1>3. was[i] \in Payment /\ is[j] \in Payment /\ c.opening_fee_msat \in Nat
  BY DEF Channel
<1>4. is[j].total_msat \in Nat /\ was[i].total_msat \in Nat
  BY <1>3 DEF Payment
<1> QED
  BY <1>1, <1>2, <1>3, <1>4 DEF CanPay

(* The interception of an HTLC accounts for it (service.rs:130-264).        *)
LEMMA InterceptedAccounts ==
  ASSUME NEW c \in Channel, NEW an_offer \in Offer, NEW id \in Ids,
         NEW amounts \in [Ids -> Nat],
         WellFormed(c.payment_queue, amounts),
         id \notin QueuedIds(c.payment_queue),
         c.state = "PendingChannelOpen" => CanPay(c)
  PROVE  LET o == htlc_intercepted(c, an_offer, id, amounts[id])
         IN  /\ Accounts(QueuedIds(c.payment_queue) \cup {id}, o, amounts)
             /\ Expects(c, o)
             /\ o.action = "Err" => o.channel.state = "PendingInitialPayment"
             /\ an_offer.payment_size_msat = None =>
                  o.action = "Err" \/ o.channel.state # "PendingInitialPayment"
<1> DEFINE queue == add_htlc(c.payment_queue, id, amounts[id])
           queued == [c EXCEPT !.payment_queue = queue]
           ids == QueuedIds(c.payment_queue) \cup {id}
           o == htlc_intercepted(c, an_offer, id, amounts[id])
           result == /\ Accounts(ids, o, amounts) /\ Expects(c, o)
                     /\ o.action = "Err" =>
                          o.channel.state = "PendingInitialPayment"
                     /\ an_offer.payment_size_msat = None =>
                          \/ o.action = "Err"
                          \/ o.channel.state # "PendingInitialPayment"
<1> SUFFICES result
  OBVIOUS
<1>1. /\ queue \in Seq(Payment) /\ WellFormed(queue, amounts)
      /\ QueuedIds(queue) = ids
      /\ \A i \in 1..Len(c.payment_queue) : \E j \in 1..Len(queue) :
           queue[j].total_msat >= c.payment_queue[i].total_msat
  BY AddKeepsQueue, AddIsWellFormed DEF Channel
<1>2. /\ queued \in Channel /\ queued.payment_queue = queue
      /\ queued.state = c.state
      /\ queued.opening_fee_msat = c.opening_fee_msat
  <2> HIDE DEF queue
  <2> QED
    BY <1>1, QueueUpdated
<1> HIDE DEF queue, queued
<1>3. /\ Accounts(ids, Stay(queued), amounts)
      /\ Stay(queued).channel = queued /\ Stay(queued).action = "None"
  BY <1>1, <1>2, StayAccounts DEF Stay, Outcome
<1>4. CASE c.state = "PendingInitialPayment"
  BY <1>4, InitialAccounts DEF htlc_intercepted
<1>5. CASE c.state \in {"PendingChannelOpen", "PendingPaymentForward"}
  <2>1. o = Stay(queued)
    BY <1>5 DEF htlc_intercepted, WhileForwarding, queued, queue
  <2>2. c.state = "PendingChannelOpen" => CanPay(queued)
    BY <1>1, <1>2, QueuedCanPay
  <2> HIDE DEF o, ids
  <2>3. Expects(c, o)
    BY <1>2, <1>3, <1>5, <2>1, <2>2 DEF Expects
  <2> QED
    BY <1>2, <1>3, <1>5, <2>1, <2>3
<1>6. CASE c.state = "PendingPayment"
  <2>1. o = PopAndForward(queued, Stay(queued))
    BY <1>6 DEF htlc_intercepted, queued, queue
  <2>2. \/ o = Stay(queued)
        \/ /\ Accounts(QueuedIds(queued.payment_queue), o, amounts)
           /\ o.action = "ForwardPayment"
           /\ o.channel.state = "PendingPaymentForward"
    BY <1>1, <1>2, <2>1, PopAccounts
  <2> HIDE DEF o, ids
  <2>3. Accounts(ids, o, amounts)
    BY <1>1, <1>2, <1>3, <2>2
  <2>4. Expects(c, o) /\ o.channel.state # "PendingInitialPayment"
        /\ o.action # "Err"
    BY <1>2, <1>3, <1>6, <2>2 DEF Expects
  <2> QED
    BY <2>3, <2>4
<1>7. CASE c.state = "PaymentForwarded"
  <2>1. o = Outcome(c, "ForwardHTLCs", <<id>>)
    BY <1>7 DEF htlc_intercepted
  <2>2. <<id>> \in Seq(Ids) /\ Range(<<id>>) = {id}
    BY DEF Range
  <2>3. o.channel = c /\ o.htlcs = <<id>> /\ o.action = "ForwardHTLCs"
    BY <2>1 DEF Outcome
  <2> HIDE DEF o
  <2>4. Accounts(ids, o, amounts)
    BY <2>2, <2>3 DEF Accounts
  <2>5. Expects(c, o)
    BY <1>7, <2>3 DEF Expects
  <2> QED
    BY <1>7, <2>3, <2>4, <2>5
<1> QED
  BY <1>4, <1>5, <1>6, <1>7 DEF Channel, States

(* The opening of the channel accounts for what is queued                   *)
(* (service.rs:266-297).                                                    *)
LEMMA ReadyAccounts ==
  ASSUME NEW c \in Channel, NEW amounts, WellFormed(c.payment_queue, amounts),
         c.state = "PendingChannelOpen" => CanPay(c)
  PROVE  LET o == channel_ready(c)
         IN  /\ Accounts(QueuedIds(c.payment_queue), o, amounts)
             /\ Expects(c, o)
<1> DEFINE o == channel_ready(c)
           ids == QueuedIds(c.payment_queue)
<1>1. CASE c.state = "PendingChannelOpen"
  <2>1. o = PopAndForward(c, Err(c))
    BY <1>1 DEF channel_ready
  <2>2. /\ Accounts(ids, o, amounts) /\ o.action = "ForwardPayment"
        /\ o.channel.state = "PendingPaymentForward"
    BY <1>1, <2>1, PopAccounts
  <2> HIDE DEF o
  <2> QED
    BY <2>2 DEF Expects, o
<1>2. CASE c.state # "PendingChannelOpen"
  <2>1. o = Err(c)
    BY <1>2 DEF channel_ready
  <2> QED
    BY <1>2, <2>1, StayAccounts DEF Expects, Err, Outcome
<1> QED
  BY <1>1, <1>2

(* A failure accounts for what is queued, and the channel waits for the     *)
(* result of another payment or for none (service.rs:299-353).              *)
LEMMA FailedAccounts ==
  ASSUME NEW c \in Channel, NEW amounts, WellFormed(c.payment_queue, amounts),
         c.state = "PendingChannelOpen" => CanPay(c)
  PROVE  LET o == htlc_handling_failed(c)
         IN  /\ Accounts(QueuedIds(c.payment_queue), o, amounts)
             /\ Expects(c, o)
             /\ o.channel.state = "PendingPaymentForward" =>
                  o.action = "ForwardPayment"
<1> DEFINE o == htlc_handling_failed(c)
           ids == QueuedIds(c.payment_queue)
           idle == [c EXCEPT !.state = "PendingPayment"]
<1>1. CASE c.state = "PendingPaymentForward"
  <2>1. o = PopAndForward(c, Stay(idle))
    BY <1>1 DEF htlc_handling_failed
  <2>2. /\ idle \in Channel /\ idle.payment_queue = c.payment_queue
        /\ idle.state = "PendingPayment"
    BY DEF Channel, States
  <2> HIDE DEF idle
  <2>3. /\ Accounts(ids, Stay(idle), amounts)
        /\ Stay(idle).channel = idle
    BY <2>2, StayAccounts DEF Stay, Outcome
  <2>4. \/ o = Stay(idle)
        \/ /\ Accounts(ids, o, amounts) /\ o.action = "ForwardPayment"
           /\ o.channel.state = "PendingPaymentForward"
    BY <2>1, PopAccounts
  <2> HIDE DEF o
  <2> QED
    BY <2>2, <2>3, <2>4 DEF Expects, o
<1>2. CASE c.state # "PendingPaymentForward"
  <2>1. o = Stay(c) \/ o = Err(c)
    BY <1>2 DEF htlc_handling_failed
  <2>2. Accounts(ids, o, amounts)
    BY <2>1, StayAccounts
  <2>3. o.channel = c
    BY <2>1 DEF Stay, Err, Outcome
  <2> HIDE DEF o
  <2> QED
    BY <1>2, <2>2, <2>3 DEF Expects, o
<1> QED
  BY <1>1, <1>2

(* A success releases what is queued (service.rs:355-378).                  *)
LEMMA ForwardedAccounts ==
  ASSUME NEW c \in Channel, NEW amounts, WellFormed(c.payment_queue, amounts),
         c.state = "PendingChannelOpen" => CanPay(c)
  PROVE  LET o == payment_forwarded(c)
         IN  /\ Accounts(QueuedIds(c.payment_queue), o, amounts)
             /\ Expects(c, o)
             /\ o.channel.state # "PendingPaymentForward"
<1> DEFINE o == payment_forwarded(c)
           ids == QueuedIds(c.payment_queue)
           next == [c EXCEPT !.state = "PaymentForwarded",
                             !.payment_queue = <<>>]
<1>1. CASE c.state = "PendingPaymentForward"
  <2>1. o = Outcome(next, "ForwardHTLCs", clear(c.payment_queue))
    BY <1>1 DEF payment_forwarded
  <2>2. /\ clear(c.payment_queue) \in Seq(Ids)
        /\ Range(clear(c.payment_queue)) = ids
    BY ClearReleasesAll DEF Channel
  <2>3. next.payment_queue = <<>> /\ next.state = "PaymentForwarded"
    BY DEF Channel
  <2>4. QueuedIds(<<>>) = {} /\ WellFormed(<<>>, amounts)
    BY DEF QueuedIds, WellFormed, OnePerHash
  <2> HIDE DEF next
  <2>5. /\ o.channel = next /\ o.action = "ForwardHTLCs"
        /\ o.htlcs = clear(c.payment_queue)
    BY <2>1 DEF Outcome
  <2> HIDE DEF o
  <2> QED
    BY <2>2, <2>3, <2>4, <2>5 DEF Accounts, Expects, o
<1>2. CASE c.state # "PendingPaymentForward"
  <2>1. o = Stay(c) \/ o = Err(c)
    BY <1>2 DEF payment_forwarded
  <2>2. Accounts(ids, o, amounts)
    BY <2>1, StayAccounts
  <2>3. o.channel = c
    BY <2>1 DEF Stay, Err, Outcome
  <2> HIDE DEF o
  <2> QED
    BY <1>2, <2>2, <2>3 DEF Expects, o
<1> QED
  BY <1>1, <1>2
=============================================================================
