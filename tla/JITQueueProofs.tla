--------------------------- MODULE JITQueueProofs ---------------------------
(***************************************************************************)
(* Theorems about the queue of JITChannel, for payments of any number of    *)
(* parts: what is in it, what its totals are, that no HTLC is lost from it, *)
(* and that the channel always has what its state says it waits for.        *)
(***************************************************************************)
EXTENDS JITChannelProofs

-----------------------------------------------------------------------------
(* The inductive invariant.                                                 *)

(* The property is the two together, for the channel's queue.               *)
LEMMA WellFormedIsProperty ==
  ASSUME TypeOK
  PROVE  QueueIsWellFormed <=> WellFormed(channel.payment_queue, amount)
<1> DEFINE queue == channel.payment_queue
<1>1. queue \in Seq(Payment)
  BY DEF TypeOK, Channel
<1>2. DOMAIN queue = 1..Len(queue)
  BY <1>1
<1> QED
  BY <1>2 DEF QueueIsWellFormed, WellFormed, OnePerHash, Grouped, AmountsOf

(* An HTLC is announced once, is not announced and queued at a time, and    *)
(* was received (service.rs:691-705).                                       *)
AnnouncedOnce == \A i, j \in Pending("HTLCIntercepted") :
                   events[i].id = events[j].id => i = j

Arrived == /\ Queued \cap Announced = {}
           /\ \A id \in Queued \cup Announced : htlc[id] # "unseen"

(* A channel that waits to be opened was asked for and has a payment to     *)
(* forward (service.rs:186-194).                                            *)
OpeningIsBacked ==
  channel.state = "PendingChannelOpen" => opening # "no" /\ CanPay(channel)

QueueInv == /\ TypeOK
            /\ WellFormed(channel.payment_queue, amount)
            /\ AnnouncedOnce
            /\ Arrived
            /\ RemovedEarly
            /\ OpeningIsBacked

(* Without a fixed size, nothing is queued before the channel is opened: the*)
(* first HTLC opens it or removes it (service.rs:143, 735-745).             *)
NothingWaits ==
  registered /\ channel.state = "PendingInitialPayment"
             /\ offer.payment_size_msat = None
    => Queued = {}

AccountInv ==
  NoneExpired => HeldHTLCsAreAccounted /\ ForwardStateIsBacked /\ NothingWaits

-----------------------------------------------------------------------------
(* The events.                                                              *)

(* What is queued or announced are HTLCs.                                   *)
LEMMA ArrivedAreIds ==
  ASSUME TypeOK
  PROVE  Queued \subseteq Ids /\ Announced \subseteq Ids
<1>1. Queued \subseteq Ids
  <2>1. channel.payment_queue \in Seq(Payment)
    BY DEF TypeOK, Channel
  <2> SUFFICES ASSUME NEW i \in DOMAIN channel.payment_queue
               PROVE  Range(channel.payment_queue[i].htlcs) \subseteq Ids
    BY DEF Queued, QueuedIds
  <2>2. channel.payment_queue[i] \in Payment
    BY <2>1
  <2>3. channel.payment_queue[i].htlcs \in Seq(Ids)
    BY <2>2 DEF Payment
  <2> QED
    BY <2>3 DEF Range
<1>2. Announced \subseteq Ids
  <2> SUFFICES ASSUME NEW i \in DOMAIN events, events[i].type = "HTLCIntercepted"
               PROVE  events[i].id \in Ids
    BY DEF Announced, Pending
  <2>1. events[i] \in Event
    BY DEF TypeOK
  <2> QED
    BY <2>1 DEF Event
<1> QED
  BY <1>1, <1>2

(* Handling the oldest event takes its announcement, if it is one.          *)
LEMMA AnnouncementsMoveUp ==
  ASSUME TypeOK, AnnouncedOnce, NEW type, NextEvent(type)
  PROVE  /\ AnnouncedOnce'
         /\ type = "HTLCIntercepted" =>
              /\ Head(events).id \in Announced
              /\ Announced' = Announced \ {Head(events).id}
         /\ type # "HTLCIntercepted" => Announced' = Announced
<1> DEFINE n == Len(events)
           P == Pending("HTLCIntercepted")
<1>1. /\ events \in Seq(Event) /\ n \in Nat \ {0} /\ DOMAIN events = 1..n
      /\ Head(events) = events[1] /\ events[1].type = type
  BY DEF TypeOK, NextEvent
<1>2. /\ DOMAIN events' = 1..(n - 1)
      /\ \A i \in 1..(n - 1) : events'[i] = events[i + 1]
  BY <1>1 DEF NextEvent
<1> HIDE DEF n
<1>3. \A i \in P' : i \in Nat /\ i + 1 \in P /\ i + 1 # 1 /\ events'[i] = events[i + 1]
  BY <1>1, <1>2 DEF Pending
<1>4. \A i \in P : i = 1 \/ (i - 1 \in P' /\ events'[i - 1] = events[i])
  BY <1>1, <1>2 DEF Pending
<1>5. /\ 1 \in P <=> type = "HTLCIntercepted"
      /\ \A i \in P : i \in Nat
  BY <1>1 DEF Pending
<1>6. Announced = {events[i].id : i \in P}
  BY DEF Announced
<1>7. Announced' = {events'[i].id : i \in P'}
  BY DEF Announced
<1>8. \A i, j \in P : events[i].id = events[j].id => i = j
  BY DEF AnnouncedOnce
<1> HIDE DEF P
<1>9. AnnouncedOnce'
  <2> SUFFICES ASSUME NEW i \in P', NEW j \in P', events'[i].id = events'[j].id
               PROVE  i = j
    BY DEF AnnouncedOnce, P
  <2>1. i + 1 = j + 1
    BY <1>3, <1>8
  <2> QED
    BY <1>3, <2>1
<1>10. \A id \in Announced' : id \in Announced /\ (1 \in P => id # events[1].id)
  BY <1>3, <1>6, <1>7, <1>8
<1>11. \A id \in Announced : id \in Announced' \/ (1 \in P /\ id = events[1].id)
  BY <1>4, <1>6, <1>7
<1>12. 1 \in P => events[1].id \in Announced
  BY <1>6
<1> QED
  BY <1>1, <1>5, <1>9, <1>10, <1>11, <1>12

(* An event that is emitted is announced, if it is an interception.         *)
LEMMA AnnouncementsAppend ==
  ASSUME TypeOK, AnnouncedOnce, NEW event \in Event, Emit(event)
  PROVE  /\ event.type = "HTLCIntercepted" =>
              /\ Announced' = Announced \cup {event.id}
              /\ event.id \notin Announced => AnnouncedOnce'
         /\ event.type # "HTLCIntercepted" =>
              Announced' = Announced /\ AnnouncedOnce'
         /\ \A t : Pending(t) \subseteq Pending(t)'
         /\ Pending(event.type)' # {}
<1> DEFINE n == Len(events)
           P == Pending("HTLCIntercepted")
<1>1. events \in Seq(Event) /\ n \in Nat /\ DOMAIN events = 1..n
  BY DEF TypeOK
<1>2. /\ DOMAIN events' = 1..(n + 1) /\ events'[n + 1] = event
      /\ \A i \in 1..n : events'[i] = events[i]
  BY <1>1 DEF Emit
<1> HIDE DEF n
<1>3. /\ \A t : Pending(t) \subseteq Pending(t)'
      /\ \A t : n + 1 \in Pending(t)' <=> t = event.type
      /\ \A t : \A i \in Pending(t)' : i = n + 1 \/ i \in Pending(t)
      /\ \A t : \A i \in Pending(t) : events'[i] = events[i]
  BY <1>1, <1>2 DEF Pending
<1>4. Announced = {events[i].id : i \in P}
  BY DEF Announced
<1>5. Announced' = {events'[i].id : i \in P'}
  BY DEF Announced
<1>6. \A i, j \in P : events[i].id = events[j].id => i = j
  BY DEF AnnouncedOnce
<1>7. /\ P \subseteq P'
      /\ n + 1 \in P' <=> event.type = "HTLCIntercepted"
      /\ \A i \in P' : i = n + 1 \/ i \in P
      /\ \A i \in P : events'[i] = events[i]
  BY <1>3
<1> HIDE DEF P
<1>8. event.type # "HTLCIntercepted" => Announced' = Announced
  BY <1>4, <1>5, <1>7
<1>9. event.type = "HTLCIntercepted" => Announced' = Announced \cup {event.id}
  BY <1>2, <1>4, <1>5, <1>7
<1>10. event.type # "HTLCIntercepted" \/ event.id \notin Announced => AnnouncedOnce'
  <2> SUFFICES ASSUME \/ event.type # "HTLCIntercepted"
                      \/ event.id \notin Announced,
                      NEW i \in P', NEW j \in P', events'[i].id = events'[j].id
               PROVE  i = j
    BY DEF AnnouncedOnce, P
  <2> QED
    BY <1>2, <1>4, <1>6, <1>7
<1> QED
  BY <1>3, <1>8, <1>9, <1>10

-----------------------------------------------------------------------------
(* The steps.                                                               *)

(* Handling an event keeps the invariant when it queues nothing but the     *)
(* HTLC that was announced.                                                 *)
LEMMA HandlingKeepsQueue ==
  ASSUME QueueInv, TypeOK', NEW type, NextEvent(type),
         WellFormed(channel'.payment_queue, amount'),
         Queued' \subseteq Queued \cup (Announced \ Announced'),
         \A id \in Ids : htlc[id] # "unseen" => htlc'[id] # "unseen",
         RemovedEarly', OpeningIsBacked'
  PROVE  QueueInv'
<1>1. AnnouncedOnce' /\ Announced' \subseteq Announced
  BY AnnouncementsMoveUp DEF QueueInv
<1>2. Arrived'
  BY <1>1, ArrivedAreIds DEF QueueInv, Arrived
<1> QED
  BY <1>1, <1>2 DEF QueueInv

(* No HTLC that expired is held or forwarded again.                         *)
LEMMA ExpiredRemain ==
  ASSUME \A id \in Ids : htlc[id] = "expired" => htlc'[id] = "expired",
         NoneExpired'
  PROVE  NoneExpired
BY DEF NoneExpired, With

(* A sequence that is not empty has an element.                             *)
LEMMA SomeInRange ==
  ASSUME NEW ids \in Seq(Ids), ids # <<>>
  PROVE  Range(ids) # {} /\ Range(ids) \subseteq Ids
<1>1. 1 \in DOMAIN ids /\ \A i \in DOMAIN ids : ids[i] \in Ids
  OBVIOUS
<1> QED
  BY <1>1 DEF Range

(* The HTLC an interception brings; the other events bring none.            *)
Arriving(type) == IF type = "HTLCIntercepted" THEN {Head(events).id} ELSE {}

(* A method of the registered channel gave an outcome that accounts for the *)
(* HTLCs there are and names a result to wait for, and it is performed.     *)
Performed(type, o) ==
  /\ NextEvent(type) /\ registered /\ Perform(o)
  /\ UNCHANGED <<registered, offer, amount>>
  /\ Accounts(Queued \cup Arriving(type), o, amount)
  /\ Expects(channel, o)
  /\ opening' = IF o.action = "OpenChannel" THEN "requested" ELSE opening

(* Performing such an outcome keeps the queue.                              *)
LEMMA PerformedKeepsQueue ==
  ASSUME QueueInv, TypeOK', NEW type, NEW o, Performed(type, o)
  PROVE  QueueInv'
<1>1. /\ TypeOK /\ AnnouncedOnce /\ NextEvent(type) /\ Perform(o)
      /\ registered /\ UNCHANGED <<registered, offer, amount>>
      /\ Accounts(Queued \cup Arriving(type), o, amount)
      /\ Expects(channel, o)
      /\ opening' = IF o.action = "OpenChannel" THEN "requested" ELSE opening
  BY DEF QueueInv, Performed
<1>2. channel' = o.channel
  BY <1>1 DEF Perform
<1>3. WellFormed(channel'.payment_queue, amount')
  BY <1>1, <1>2 DEF Accounts
<1>4. Queued' \subseteq Queued \cup (Announced \ Announced')
  <2>1. Queued' \subseteq Queued \cup Arriving(type)
    BY <1>1, <1>2 DEF Accounts, Queued
  <2>2. Arriving(type) \subseteq Announced \ Announced'
    BY <1>1, AnnouncementsMoveUp DEF Arriving
  <2> QED
    BY <2>1, <2>2
<1>5. \A id \in Ids : htlc[id] # "unseen" => htlc'[id] # "unseen"
  BY <1>1, PerformMoves
<1>6. RemovedEarly' /\ OpeningIsBacked'
  BY <1>1, <1>2 DEF RemovedEarly, OpeningIsBacked, Expects, QueueInv
<1> QED
  BY <1>1, <1>3, <1>4, <1>5, <1>6, HandlingKeepsQueue

(* When none expired, all HTLCs of the outcome are forwarded, and the held  *)
(* ones stay accounted for.                                                 *)
LEMMA PerformedAccounts ==
  ASSUME QueueInv, AccountInv, NEW type, NEW o, Performed(type, o), NoneExpired'
  PROVE  /\ HeldHTLCsAreAccounted'
         /\ o.action = "ForwardPayment" => InFlight' # {}
         /\ InFlight # {} => InFlight' # {}
<1> DEFINE out == Forwardable(o.htlcs)
           ids == Queued \cup Arriving(type)
<1>1. /\ TypeOK /\ AnnouncedOnce /\ NextEvent(type) /\ Perform(o)
      /\ registered /\ registered' = registered
      /\ Accounts(ids, o, amount)
  BY DEF QueueInv, Performed
<1>2. \A id \in Ids : /\ id \in out => htlc[id] = "held" /\ htlc'[id] = "outbound"
                      /\ id \notin out => htlc'[id] = htlc[id]
  BY <1>1, PerformMoves
<1>3. With("held") = Queued \cup Announced
  <2>1. NoneExpired
    BY <1>2, ExpiredRemain
  <2> QED
    BY <1>1, <2>1 DEF AccountInv, HeldHTLCsAreAccounted
<1>4. Arriving(type) \subseteq Announced /\ Announced' = Announced \ Arriving(type)
  BY <1>1, AnnouncementsMoveUp DEF Arriving
<1>5. out = Range(o.htlcs)
  <2>1. o.htlcs \in Seq(Ids) /\ Range(o.htlcs) \subseteq With("held")
    BY <1>1, <1>3, <1>4 DEF Accounts
  <2>2. \A j \in 1..Len(o.htlcs) : htlc[o.htlcs[j]] = "held"
    BY <2>1 DEF Range, With
  <2> QED
    BY <2>1, <2>2 DEF Forwardable, Range
<1> HIDE DEF out
<1>6. Queued' = ids \ out /\ out \subseteq ids
  BY <1>1, <1>5 DEF Accounts, Perform, Queued
<1>7. With("held")' = With("held") \ out
  BY <1>2 DEF With
<1>8. HeldHTLCsAreAccounted'
  <2>1. Queued \cap Announced = {}
    BY DEF QueueInv, Arrived
  <2> QED
    BY <1>3, <1>4, <1>6, <1>7, <2>1 DEF HeldHTLCsAreAccounted
<1>9. fee_payments' = IF o.action = "ForwardPayment" /\ out # {}
                      THEN fee_payments \cup {out} ELSE fee_payments
  BY <1>1 DEF Perform, out
<1>10. ASSUME o.action = "ForwardPayment" PROVE InFlight' # {}
  <2>1. o.htlcs # <<>> /\ o.htlcs \in Seq(Ids)
    BY <1>1, <1>10 DEF Accounts
  <2>2. out # {} /\ out \in SUBSET Ids
    <3>1. Range(o.htlcs) # {} /\ Range(o.htlcs) \subseteq Ids
      BY <2>1, SomeInRange
    <3> QED
      BY <1>5, <3>1
  <2>3. out \in fee_payments' /\ out \cap With("outbound")' # {}
    BY <1>2, <1>9, <1>10, <2>2 DEF With
  <2> QED
    BY <2>3 DEF InFlight
<1>11. ASSUME InFlight # {} PROVE InFlight' # {}
  <2>1. PICK p \in fee_payments, id \in Ids : id \in p /\ htlc[id] = "outbound"
    BY <1>11 DEF InFlight, With
  <2>2. htlc'[id] = "outbound" /\ p \in fee_payments'
    BY <1>2, <1>9, <2>1
  <2> QED
    BY <2>1, <2>2 DEF InFlight, With
<1> QED
  BY <1>8, <1>10, <1>11

(* Performing such an outcome keeps the accounts, if the result the state   *)
(* waited for starts the wait for another or ends it, and the first HTLC    *)
(* opens the channel or is rejected.                                        *)
LEMMA PerformedKeepsAccounts ==
  ASSUME QueueInv, AccountInv, NEW type, NEW o, Performed(type, o),
         o.channel.state = "PendingPaymentForward" =>
           \/ o.action = "ForwardPayment"
           \/ type \notin {"PaymentForwarded", "HTLCHandlingFailed"},
         type = "HTLCIntercepted" /\ offer.payment_size_msat = None =>
           o.channel.state # "PendingInitialPayment"
  PROVE  AccountInv'
<1>1. /\ TypeOK /\ NextEvent(type) /\ Perform(o) /\ channel' = o.channel
      /\ UNCHANGED <<registered, offer>> /\ registered
      /\ Expects(channel, o) /\ Accounts(Queued \cup Arriving(type), o, amount)
  BY DEF QueueInv, Performed, Perform
<1> SUFFICES ASSUME NoneExpired'
             PROVE  /\ HeldHTLCsAreAccounted' /\ ForwardStateIsBacked'
                    /\ NothingWaits'
  BY DEF AccountInv
<1>2. NoneExpired
  BY <1>1, PerformMoves, ExpiredRemain
<1>3. HeldHTLCsAreAccounted'
  BY PerformedAccounts
<1>4. ForwardStateIsBacked'
  <2> SUFFICES ASSUME channel'.state = "PendingPaymentForward"
               PROVE  \/ InFlight' # {}
                      \/ Pending("PaymentForwarded")' # {}
                      \/ Pending("HTLCHandlingFailed")' # {}
    BY DEF ForwardStateIsBacked
  <2>1. CASE o.action = "ForwardPayment"
    BY <2>1, PerformedAccounts
  <2>2. CASE o.action # "ForwardPayment"
    <3>1. /\ channel.state = "PendingPaymentForward"
          /\ type \notin {"PaymentForwarded", "HTLCHandlingFailed"}
      BY <1>1, <2>2 DEF Expects
    <3>2. \/ InFlight # {}
          \/ Pending("PaymentForwarded") # {}
          \/ Pending("HTLCHandlingFailed") # {}
      BY <1>2, <3>1 DEF AccountInv, ForwardStateIsBacked
    <3>3. \A t : t # type /\ Pending(t) # {} => Pending(t)' # {}
      <4>1. /\ \A t : \A i \in Pending(t) : i = 1 \/ i - 1 \in Pending(t)'
            /\ \A t : 1 \in Pending(t) <=> t = type
        BY <1>1, EventsMoveUp
      <4> QED
        BY <4>1
    <3> QED
      BY <3>1, <3>2, <3>3, PerformedAccounts
  <2> QED
    BY <2>1, <2>2
<1>5. NothingWaits'
  <2> SUFFICES ASSUME channel'.state = "PendingInitialPayment",
                      offer.payment_size_msat = None
               PROVE  Queued' = {}
    BY <1>1 DEF NothingWaits
  <2>1. channel.state = "PendingInitialPayment" /\ type # "HTLCIntercepted"
    BY <1>1 DEF Expects
  <2>2. Queued = {} /\ Arriving(type) = {}
    BY <1>1, <1>2, <2>1 DEF AccountInv, NothingWaits, Arriving
  <2> QED
    BY <1>1, <2>2 DEF Accounts, Queued
<1> QED
  BY <1>3, <1>4, <1>5

(* The handler of an interception keeps the invariant                       *)
(* (service.rs:691-773).                                                    *)
LEMMA InterceptionKeepsQueue ==
  ASSUME QueueInv, HandleHTLCIntercepted
  PROVE  QueueInv' /\ (AccountInv => AccountInv')
<1> DEFINE id == Head(events).id
           o == htlc_intercepted(channel, offer, id, amount[id])
<1>1. /\ TypeOK /\ TypeOK' /\ AnnouncedOnce /\ NextEvent("HTLCIntercepted")
      /\ UNCHANGED <<offer, amount>>
      /\ WellFormed(channel.payment_queue, amount)
  BY HandlersKeepTypes DEF QueueInv, HandleHTLCIntercepted, HandleEvent
<1>2. id \in Announced /\ id \in Ids /\ Announced' = Announced \ {id}
  BY <1>1, AnnouncementsMoveUp, ArrivedAreIds
<1>3. /\ channel \in Channel /\ offer \in Offer /\ amount \in [Ids -> Nat]
      /\ id \notin Queued
      /\ channel.state = "PendingChannelOpen" => CanPay(channel)
  <2>1. amount \in [Ids -> Nat]
    <3>1. Amounts \cup {0} \subseteq Nat
      BY JITChannelAssumption
    <3> QED
      BY <1>1, <3>1 DEF TypeOK
  <2>2. channel \in Channel /\ offer \in Offer
    BY <1>1, JITChannelAssumption DEF TypeOK
  <2> HIDE DEF id
  <2>3. id \notin Queued
    BY <1>2 DEF QueueInv, Arrived
  <2>4. channel.state = "PendingChannelOpen" => CanPay(channel)
    BY DEF QueueInv, OpeningIsBacked
  <2> QED
    BY <2>1, <2>2, <2>3, <2>4
<1>4. /\ Accounts(Queued \cup {id}, o, amount) /\ Expects(channel, o)
      /\ o.action = "Err" => o.channel.state = "PendingInitialPayment"
      /\ offer.payment_size_msat = None =>
           o.action = "Err" \/ o.channel.state # "PendingInitialPayment"
  <2> HIDE DEF id
  <2> QED
    BY <1>1, <1>2, <1>3, InterceptedAccounts DEF Queued
<1>5. \/ ~registered /\ UNCHANGED <<service, htlc, opening>>
      \/ registered /\ o.action = "Err" /\ RejectHTLC(id, o)
      \/ registered /\ o.action # "Err" /\ AcceptHTLC(o)
  BY DEF HandleHTLCIntercepted
<1>6. NoneExpired' =>
        \/ NoneExpired
        \/ ~\A i \in Ids : htlc[i] = "expired" => htlc'[i] = "expired"
  BY ExpiredRemain
<1>7. Arriving("HTLCIntercepted") = {id}
  BY DEF Arriving
<1> HIDE DEF o, id
<1>8. CASE ~registered /\ UNCHANGED <<service, htlc, opening>>
  <2>1. /\ UNCHANGED <<channel, registered, htlc, opening>>
        /\ channel.state = "PendingInitialPayment"
    BY <1>8 DEF QueueInv, RemovedEarly, service
  <2>2. QueueInv'
    <3>1. RemovedEarly' /\ OpeningIsBacked' /\ Queued' = Queued
      BY <2>1 DEF RemovedEarly, OpeningIsBacked, Queued
    <3>2. WellFormed(channel'.payment_queue, amount')
      BY <1>1, <2>1
    <3> QED
      BY <1>1, <2>1, <3>1, <3>2, HandlingKeepsQueue
  <2>3. AccountInv'
    BY <1>8, <2>1
    DEF AccountInv, HeldHTLCsAreAccounted, ForwardStateIsBacked, NothingWaits
  <2> QED
    BY <2>2, <2>3
<1>9. CASE registered /\ o.action = "Err" /\ RejectHTLC(id, o)
  <2>1. /\ channel' = o.channel /\ o.channel.state = "PendingInitialPayment"
        /\ htlc' = [htlc EXCEPT ![id] = IF @ = "held" THEN "failed" ELSE @]
        /\ registered' = (htlc[id] # "held")
    BY <1>4, <1>9 DEF RejectHTLC
  <2>2. \A i \in Ids : /\ htlc[i] # "unseen" => htlc'[i] # "unseen"
                       /\ htlc[i] = "expired" => htlc'[i] = "expired"
    BY <1>1, <1>2, <2>1 DEF TypeOK
  <2>3. QueueInv'
    <3>1. RemovedEarly' /\ OpeningIsBacked'
      BY <2>1 DEF RemovedEarly, OpeningIsBacked
    <3>2. WellFormed(channel'.payment_queue, amount')
      BY <1>1, <1>4, <2>1 DEF Accounts
    <3>3. Queued' \subseteq Queued \cup (Announced \ Announced')
      BY <1>2, <1>4, <2>1 DEF Accounts, Queued
    <3> QED
      BY <1>1, <2>2, <3>1, <3>2, <3>3, HandlingKeepsQueue
  <2>4. ASSUME AccountInv PROVE AccountInv'
    <3> SUFFICES ASSUME NoneExpired' PROVE ~registered'
      BY <2>1
      DEF AccountInv, HeldHTLCsAreAccounted, ForwardStateIsBacked, NothingWaits
    <3>1. NoneExpired
      BY <1>6, <2>2
    <3>2. id \in With("held")
      BY <1>2, <1>9, <2>4, <3>1 DEF AccountInv, HeldHTLCsAreAccounted
    <3> QED
      BY <2>1, <3>2 DEF With
  <2> QED
    BY <2>3, <2>4
<1>10. CASE registered /\ o.action # "Err" /\ AcceptHTLC(o)
  <2>1. Performed("HTLCIntercepted", o)
    BY <1>1, <1>4, <1>7, <1>10 DEF Performed, AcceptHTLC
  <2>2. QueueInv'
    BY <1>1, <2>1, PerformedKeepsQueue
  <2>3. ASSUME AccountInv PROVE AccountInv'
    BY <1>4, <1>10, <2>1, <2>3, PerformedKeepsAccounts
  <2> QED
    BY <2>2, <2>3
<1> QED
  BY <1>5, <1>8, <1>9, <1>10

(* The three other handlers, with the outcome of their method.              *)
LEMMA HandleKeepsQueue ==
  ASSUME QueueInv, TypeOK',
         NEW type \in {"ChannelReady", "PaymentForwarded", "HTLCHandlingFailed"},
         NEW o, Handle(type, o), o.action # "OpenChannel",
         Accounts(Queued, o, amount), Expects(channel, o),
         type # "ChannelReady" =>
           \/ o.action = "ForwardPayment"
           \/ o.channel.state # "PendingPaymentForward"
  PROVE  QueueInv' /\ (AccountInv => AccountInv')
<1>1. /\ TypeOK /\ AnnouncedOnce /\ NextEvent(type)
      /\ UNCHANGED <<registered, offer, amount, opening>>
      /\ WellFormed(channel.payment_queue, amount)
  BY DEF QueueInv, Handle
<1>2. CASE registered
  <2>1. Arriving(type) = {}
    BY DEF Arriving
  <2>2. Performed(type, o)
    BY <1>1, <1>2, <2>1 DEF Performed, Handle
  <2>3. QueueInv'
    BY <2>2, PerformedKeepsQueue
  <2>4. ASSUME AccountInv PROVE AccountInv'
    BY <2>2, <2>4, PerformedKeepsAccounts
  <2> QED
    BY <2>3, <2>4
<1>3. CASE ~registered
  <2>1. /\ UNCHANGED <<channel, htlc>>
        /\ channel.state = "PendingInitialPayment"
    BY <1>3 DEF Handle, QueueInv, RemovedEarly
  <2>2. QueueInv'
    <3>1. RemovedEarly' /\ OpeningIsBacked' /\ Queued' = Queued
      BY <1>1, <2>1 DEF RemovedEarly, OpeningIsBacked, Queued
    <3>2. WellFormed(channel'.payment_queue, amount')
      BY <1>1, <2>1
    <3> QED
      BY <1>1, <2>1, <3>1, <3>2, HandlingKeepsQueue
  <2>3. AccountInv'
    BY <1>1, <1>3, <2>1
    DEF AccountInv, HeldHTLCsAreAccounted, ForwardStateIsBacked, NothingWaits
  <2> QED
    BY <2>2, <2>3
<1> QED
  BY <1>2, <1>3

(* Handling an event keeps the invariants (service.rs:691-978).             *)
LEMMA HandlersKeepQueue ==
  ASSUME QueueInv, HandleEvent
  PROVE  QueueInv' /\ (AccountInv => AccountInv')
<1>1. /\ TypeOK' /\ channel \in Channel
      /\ WellFormed(channel.payment_queue, amount)
      /\ channel.state = "PendingChannelOpen" => CanPay(channel)
  BY HandlersKeepTypes DEF QueueInv, TypeOK, OpeningIsBacked
<1>2. ASSUME NEW c, NEW otherwise, otherwise.action # "OpenChannel"
      PROVE  PopAndForward(c, otherwise).action # "OpenChannel"
  BY <1>2 DEF PopAndForward, Outcome
<1>3. \A c : Stay(c).action = "None" /\ Err(c).action = "Err"
  BY DEF Stay, Err, Outcome
<1>4. /\ channel_ready(channel).action # "OpenChannel"
      /\ htlc_handling_failed(channel).action # "OpenChannel"
      /\ payment_forwarded(channel).action # "OpenChannel"
  <2>1. channel_ready(channel).action # "OpenChannel"
    BY <1>2, <1>3 DEF channel_ready
  <2>2. htlc_handling_failed(channel).action # "OpenChannel"
    BY <1>1, <1>2, <1>3 DEF htlc_handling_failed, Channel, States
  <2>3. payment_forwarded(channel).action # "OpenChannel"
    BY <1>3 DEF payment_forwarded, Outcome
  <2> QED
    BY <2>1, <2>2, <2>3
<1>5. CASE HandleHTLCIntercepted
  BY <1>5, InterceptionKeepsQueue
<1>6. CASE HandleChannelReady
  BY <1>1, <1>4, <1>6, ReadyAccounts, HandleKeepsQueue
  DEF HandleChannelReady, Queued
<1>7. CASE HandleHTLCHandlingFailed
  BY <1>1, <1>4, <1>7, FailedAccounts, HandleKeepsQueue
  DEF HandleHTLCHandlingFailed, Queued
<1>8. CASE HandlePaymentForwarded
  BY <1>1, <1>4, <1>8, ForwardedAccounts, HandleKeepsQueue
  DEF HandlePaymentForwarded, Queued
<1> QED
  BY <1>5, <1>6, <1>7, <1>8 DEF HandleEvent

(* The environment keeps the invariants; only an HTLC that expires leaves   *)
(* the accounts, and it is not in them any more.                            *)
LEMMA EnvironmentKeepsQueue ==
  ASSUME QueueInv,
         \/ OpenChannel
         \/ \E id \in Ids : Receive(id) \/ Resolve(id) \/ TimeOut(id)
         \/ OtherResult("PaymentForwarded")
         \/ OtherResult("HTLCHandlingFailed")
  PROVE  QueueInv' /\ (AccountInv => AccountInv')
<1>1. /\ TypeOK /\ TypeOK' /\ AnnouncedOnce /\ Arrived /\ RemovedEarly
      /\ OpeningIsBacked /\ WellFormed(channel.payment_queue, amount)
      /\ channel.payment_queue \in Seq(Payment)
  BY EnvironmentKeepsTypes DEF QueueInv, TypeOK, Channel
<1>2. /\ [type |-> "ChannelReady"] \in Event
      /\ [type |-> "PaymentForwarded"] \in Event
      /\ [type |-> "HTLCHandlingFailed"] \in Event
      /\ \A id \in Ids : [type |-> "HTLCIntercepted", id |-> id] \in Event
  BY DEF Event
<1>3. /\ UNCHANGED <<channel, registered, offer, fee_payments>>
      /\ Queued' = Queued /\ RemovedEarly'
      /\ opening # "no" => opening' # "no"
  <2>1. /\ UNCHANGED <<channel, registered, offer, fee_payments>>
        /\ opening # "no" => opening' # "no"
    BY DEF OpenChannel, Receive, Resolve, Claim, FailBack, TimeOut, OtherResult,
           service
  <2> QED
    BY <1>1, <2>1 DEF Queued, RemovedEarly
<1>4. OpeningIsBacked'
  BY <1>1, <1>3 DEF OpeningIsBacked
<1>5. ASSUME UNCHANGED amount, Announced' = Announced, AnnouncedOnce',
             \A id \in Ids : htlc[id] # "unseen" => htlc'[id] # "unseen"
      PROVE  QueueInv'
  <2>1. WellFormed(channel'.payment_queue, amount')
    BY <1>1, <1>3, <1>5
  <2>2. Arrived'
    BY <1>1, <1>3, <1>5, ArrivedAreIds DEF Arrived
  <2> QED
    BY <1>1, <1>3, <1>4, <1>5, <2>1, <2>2 DEF QueueInv
<1>6. ASSUME AccountInv, NoneExpired, HeldHTLCsAreAccounted',
             \/ Pending("PaymentForwarded")' # {}
             \/ Pending("HTLCHandlingFailed")' # {}
             \/ /\ InFlight' = InFlight
                /\ \A t : Pending(t) \subseteq Pending(t)'
      PROVE  AccountInv'
  <2>1. NothingWaits'
    BY <1>3, <1>6 DEF AccountInv, NothingWaits
  <2>2. ForwardStateIsBacked'
    BY <1>3, <1>6 DEF AccountInv, ForwardStateIsBacked
  <2> QED
    BY <1>6, <2>1, <2>2 DEF AccountInv
<1>7. ASSUME NEW event \in Event, Emit(event), UNCHANGED <<amount, htlc>>,
             event.type # "HTLCIntercepted"
      PROVE  QueueInv' /\ (AccountInv => AccountInv')
  <2>1. /\ Announced' = Announced /\ AnnouncedOnce'
        /\ \A t : Pending(t) \subseteq Pending(t)'
    BY <1>1, <1>7, AnnouncementsAppend
  <2>2. QueueInv'
    BY <1>5, <1>7, <2>1
  <2>3. ASSUME AccountInv, NoneExpired'
        PROVE  AccountInv'
    <3>1. /\ NoneExpired /\ InFlight' = InFlight
          /\ With("held")' = With("held")
      BY <1>3, <1>7, <2>3 DEF NoneExpired, InFlight, With
    <3>2. HeldHTLCsAreAccounted'
      BY <1>3, <2>1, <2>3, <3>1 DEF AccountInv, HeldHTLCsAreAccounted
    <3> QED
      BY <1>6, <2>1, <2>3, <3>1, <3>2
  <2>4. ~NoneExpired' => AccountInv'
    BY DEF AccountInv
  <2> QED
    BY <2>2, <2>3, <2>4
<1>8. CASE OpenChannel
  <2> DEFINE event == [type |-> "ChannelReady"]
  <2>1. /\ event \in Event /\ event.type # "HTLCIntercepted" /\ Emit(event)
        /\ UNCHANGED <<amount, htlc>>
    BY <1>2, <1>8 DEF OpenChannel
  <2> HIDE DEF event
  <2> QED
    BY <1>7, <2>1
<1>9. ASSUME NEW type \in {"PaymentForwarded", "HTLCHandlingFailed"},
             OtherResult(type)
      PROVE  QueueInv' /\ (AccountInv => AccountInv')
  <2> DEFINE event == [type |-> type]
  <2>1. /\ event \in Event /\ event.type # "HTLCIntercepted" /\ Emit(event)
        /\ UNCHANGED <<amount, htlc>>
    BY <1>2, <1>9 DEF OtherResult
  <2> HIDE DEF event
  <2> QED
    BY <1>7, <2>1
<1>10. ASSUME NEW id \in Ids, Receive(id)
       PROVE  QueueInv' /\ (AccountInv => AccountInv')
  <2> DEFINE event == [type |-> "HTLCIntercepted", id |-> id]
  <2>1. /\ event \in Event /\ event.type = "HTLCIntercepted" /\ event.id = id
        /\ Emit(event) /\ htlc[id] = "unseen"
        /\ htlc' = [htlc EXCEPT ![id] = "held"]
        /\ \A other \in Ids : other # id => amount'[other] = amount[other]
    BY <1>1, <1>2, <1>10 DEF Receive, TypeOK
  <2> HIDE DEF event
  <2>2. id \notin Queued /\ id \notin Announced
    BY <1>1, <2>1 DEF Arrived
  <2>3. /\ Announced' = Announced \cup {id} /\ AnnouncedOnce'
        /\ \A t : Pending(t) \subseteq Pending(t)'
    BY <1>1, <2>1, <2>2, AnnouncementsAppend
  <2>4. \A other \in Ids : htlc'[other] = IF other = id THEN "held" ELSE htlc[other]
    BY <1>1, <2>1 DEF TypeOK
  <2>5. QueueInv'
    <3>1. \A other \in Queued : amount'[other] = amount[other]
      BY <1>1, <2>1, <2>2, ArrivedAreIds
    <3>2. WellFormed(channel'.payment_queue, amount')
      BY <1>1, <1>3, <3>1, WellFormedByAmounts DEF Queued
    <3>3. Arrived'
      BY <1>1, <1>3, <2>2, <2>3, <2>4, ArrivedAreIds DEF Arrived
    <3> QED
      BY <1>1, <1>3, <1>4, <2>3, <3>2, <3>3 DEF QueueInv
  <2>6. ASSUME AccountInv, NoneExpired'
        PROVE  AccountInv'
    <3>1. \A other \in Ids : htlc[other] = "expired" => htlc'[other] = "expired"
      BY <2>1, <2>4
    <3>2. NoneExpired
      BY <2>6, <3>1, ExpiredRemain
    <3>3. With("held")' = With("held") \cup {id}
      BY <2>1, <2>4 DEF With
    <3>4. With("outbound")' = With("outbound")
      BY <2>1, <2>4 DEF With
    <3>5. HeldHTLCsAreAccounted'
      BY <1>3, <2>3, <2>6, <3>2, <3>3 DEF AccountInv, HeldHTLCsAreAccounted
    <3>6. InFlight' = InFlight
      BY <1>3, <3>4 DEF InFlight
    <3> QED
      BY <1>6, <2>3, <2>6, <3>2, <3>5, <3>6
  <2>7. ~NoneExpired' => AccountInv'
    BY DEF AccountInv
  <2> QED
    BY <2>5, <2>6, <2>7
<1>11. ASSUME NEW id \in Ids, Resolve(id)
       PROVE  QueueInv' /\ (AccountInv => AccountInv')
  <2>1. PICK event \in Event :
          /\ event.type \in {"PaymentForwarded", "HTLCHandlingFailed"}
          /\ Emit(event)
    <3>1. \/ Emit([type |-> "PaymentForwarded"])
          \/ Emit([type |-> "HTLCHandlingFailed"])
      BY <1>11 DEF Resolve, Claim, FailBack
    <3> QED
      BY <1>2, <3>1
  <2>2. /\ htlc[id] = "outbound" /\ UNCHANGED amount
        /\ htlc' \in {[htlc EXCEPT ![id] = "claimed"],
                      [htlc EXCEPT ![id] = "failed"]}
    BY <1>11 DEF Resolve, Claim, FailBack
  <2>3. \A other \in Ids : htlc'[other] = htlc[other]
                             \/ (other = id /\ htlc'[other] \in {"claimed", "failed"})
    BY <1>1, <2>2 DEF TypeOK
  <2>4. /\ Announced' = Announced /\ AnnouncedOnce'
        /\ Pending(event.type)' # {}
    BY <1>1, <2>1, AnnouncementsAppend
  <2>5. QueueInv'
    BY <1>5, <2>2, <2>3, <2>4
  <2>6. ASSUME AccountInv, NoneExpired'
        PROVE  AccountInv'
    <3>1. NoneExpired
      BY <2>2, <2>3, <2>6, ExpiredRemain
    <3>2. With("held")' = With("held")
      BY <2>2, <2>3 DEF With
    <3>3. HeldHTLCsAreAccounted'
      BY <1>3, <2>4, <2>6, <3>1, <3>2 DEF AccountInv, HeldHTLCsAreAccounted
    <3> QED
      BY <1>6, <2>1, <2>4, <2>6, <3>1, <3>3
  <2>7. ~NoneExpired' => AccountInv'
    BY DEF AccountInv
  <2> QED
    BY <2>5, <2>6, <2>7
<1>12. ASSUME NEW id \in Ids, TimeOut(id)
       PROVE  QueueInv' /\ (AccountInv => AccountInv')
  <2>1. /\ htlc' = [htlc EXCEPT ![id] = "expired"] /\ UNCHANGED <<amount, events>>
    BY <1>12 DEF TimeOut
  <2>2. \A other \in Ids : htlc'[other] = IF other = id THEN "expired"
                                          ELSE htlc[other]
    BY <1>1, <2>1 DEF TypeOK
  <2>3. Announced' = Announced /\ AnnouncedOnce'
    BY <1>1, <2>1 DEF Announced, AnnouncedOnce, Pending
  <2>4. QueueInv'
    BY <1>5, <2>1, <2>2, <2>3
  <2>5. AccountInv'
    BY <2>2 DEF AccountInv, NoneExpired, With
  <2> QED
    BY <2>4, <2>5
<1> QED
  BY <1>8, <1>9, <1>10, <1>11, <1>12

(* The invariants hold at first.                                            *)
LEMMA InitQueue == Init => QueueInv /\ AccountInv
<1> SUFFICES ASSUME Init PROVE QueueInv /\ AccountInv
  OBVIOUS
<1>1. /\ TypeOK /\ channel = new /\ events = <<>> /\ registered
      /\ htlc = [id \in Ids |-> "unseen"]
  BY InitIsTyped DEF Init
<1>2. channel.payment_queue = <<>> /\ channel.state = "PendingInitialPayment"
  BY <1>1 DEF new
<1>3. Queued = {} /\ Announced = {} /\ Pending("HTLCIntercepted") = {}
  BY <1>1, <1>2 DEF Queued, QueuedIds, Announced, Pending
<1>4. WellFormed(channel.payment_queue, amount)
  BY <1>2 DEF WellFormed, OnePerHash
<1>5. With("held") = {}
  BY <1>1 DEF With
<1> QED
  BY <1>1, <1>2, <1>3, <1>4, <1>5
  DEF QueueInv, AccountInv, AnnouncedOnce, Arrived, RemovedEarly, OpeningIsBacked,
      HeldHTLCsAreAccounted, ForwardStateIsBacked, NothingWaits

(* The invariants hold in every execution.                                  *)
LEMMA QueueInvHolds == Spec => [](QueueInv /\ AccountInv)
<1>1. Init => QueueInv /\ AccountInv
  BY InitQueue
<1>2. QueueInv /\ AccountInv /\ [Next]_vars => QueueInv' /\ AccountInv'
  <2> SUFFICES ASSUME QueueInv, AccountInv, [Next]_vars
               PROVE  QueueInv' /\ AccountInv'
    OBVIOUS
  <2>1. CASE HandleEvent
    BY <2>1, HandlersKeepQueue
  <2>2. CASE \/ OpenChannel
             \/ \E id \in Ids : Receive(id) \/ Resolve(id) \/ TimeOut(id)
             \/ OtherResult("PaymentForwarded")
             \/ OtherResult("HTLCHandlingFailed")
    BY <2>2, EnvironmentKeepsQueue
  <2>3. CASE UNCHANGED vars
    <3>1. TypeOK' /\ AnnouncedOnce' /\ Arrived' /\ RemovedEarly' /\ OpeningIsBacked'
      BY <2>3 DEF QueueInv, vars, TypeOK, AnnouncedOnce, Pending, Arrived, Queued,
                  Announced, RemovedEarly, OpeningIsBacked
    <3>2. QueueInv'
      BY <2>3, <3>1 DEF QueueInv, vars
    <3>3. AccountInv'
      BY <2>3 DEF AccountInv, vars, NoneExpired, HeldHTLCsAreAccounted,
                  ForwardStateIsBacked, NothingWaits, With, Queued, Announced,
                  Pending, InFlight
    <3> QED
      BY <3>2, <3>3
  <2> QED
    BY <2>1, <2>2, <2>3 DEF Next
<1> QED
  BY <1>1, <1>2, PTL DEF Spec

-----------------------------------------------------------------------------
(* The theorems.                                                            *)

(* One payment per hash, none of them empty, every HTLC once and under its  *)
(* own hash, and totals that are the sums of the amounts, whatever arrives, *)
(* is forwarded, fails or times out (payment_queue.rs:25-56).               *)
THEOREM QueueIsWellFormedHolds == Spec => []QueueIsWellFormed
<1>1. QueueInv => QueueIsWellFormed
  BY WellFormedIsProperty DEF QueueInv
<1> QED
  BY <1>1, QueueInvHolds, PTL

(* One of finitely many numbers is the largest.                             *)
LEMMA LargestExists ==
  ASSUME NEW n \in Nat \ {0}, NEW t \in [1..n -> Nat]
  PROVE  \E k \in 1..n : \A i \in 1..n : t[k] >= t[i]
<1> DEFINE Largest(k, b) == k \in 1..b /\ \A i \in 1..b : t[k] >= t[i]
           Bad == {b \in 1..n : ~\E k \in 1..b : Largest(k, b)}
           m == Min(Bad)
<1>1. CASE Bad # {}
  <2>1. m \in Bad /\ \A b \in Bad : m <= b
    <3>1. Bad \in SUBSET Nat
      OBVIOUS
    <3> HIDE DEF Bad
    <3> QED
      BY <1>1, <3>1, MinIsElement
  <2> HIDE DEF m
  <2>2. m \in 1..n /\ \A k \in 1..m : ~Largest(k, m)
    BY <2>1
  <2>3. ASSUME NEW b \in 1..n, b < m PROVE \E k \in 1..b : Largest(k, b)
    <3>1. b \notin Bad
      <4> HIDE DEF Bad
      <4> QED
        BY <2>1, <2>2, <2>3
    <3> HIDE DEF Largest
    <3> QED
      BY <3>1
  <2>4. m # 1
    <3>1. ASSUME m = 1 PROVE Largest(1, m)
      BY <3>1
    <3> QED
      BY <2>2, <3>1
  <2>5. PICK k \in 1..(m - 1) : Largest(k, m - 1)
    <3>1. m - 1 \in 1..n /\ m - 1 < m
      BY <2>2, <2>4
    <3> QED
      BY <2>3, <3>1
  <2>6. CASE t[k] >= t[m]
    <3>1. Largest(k, m) /\ k \in 1..m
      BY <2>2, <2>5, <2>6
    <3> QED
      BY <2>2, <3>1
  <2>7. CASE ~(t[k] >= t[m])
    <3>1. \A i \in 1..(m - 1) : t[m] >= t[i]
      BY <2>2, <2>5, <2>7
    <3>2. Largest(m, m) /\ m \in 1..m
      BY <2>2, <3>1
    <3> QED
      BY <2>2, <3>2
  <2> QED
    BY <2>6, <2>7
<1>2. CASE Bad = {}
  <2>1. n \in 1..n
    OBVIOUS
  <2>2. n \notin Bad
    <3> HIDE DEF Bad
    <3> QED
      BY <1>2
  <2>3. \E k \in 1..n : Largest(k, n)
    <3> HIDE DEF Largest
    <3> QED
      BY <2>1, <2>2
  <2> QED
    BY <2>3
<1> QED
  BY <1>1, <1>2

(* While the channel is being opened, the queue holds a payment of more than*)
(* the fee, so that channel_ready finds what to forward (service.rs:266-297).*)
THEOREM OpenChannelHasPaymentHolds == Spec => []OpenChannelHasPayment
<1>1. QueueInv => OpenChannelHasPayment
  <2> SUFFICES ASSUME QueueInv, channel.state = "PendingChannelOpen"
               PROVE  /\ opening # "no"
                      /\ position(channel.payment_queue,
                                  channel.opening_fee_msat) # 0
                      /\ channel.opening_fee_msat <
                           Max({channel.payment_queue[i].total_msat :
                                  i \in DOMAIN channel.payment_queue})
    BY DEF OpenChannelHasPayment
  <2> DEFINE queue == channel.payment_queue
             n == Len(queue)
             T == {queue[i].total_msat : i \in DOMAIN queue}
  <2>1. /\ channel \in Channel /\ opening # "no" /\ CanPay(channel)
        /\ queue \in Seq(Payment) /\ channel.opening_fee_msat \in Nat
    BY DEF QueueInv, OpeningIsBacked, TypeOK, Channel
  <2>2. position(queue, channel.opening_fee_msat) # 0
    BY <2>1, CanPayIsFound
  <2>3. PICK i \in 1..n : queue[i].total_msat > channel.opening_fee_msat
    BY <2>1 DEF CanPay
  <2>4. /\ n \in 1..n /\ DOMAIN queue = 1..n
        /\ \A j \in 1..n : queue[j].total_msat \in Nat
    <3>1. n \in 1..n /\ DOMAIN queue = 1..n
      BY <2>1, <2>3
    <3>2. ASSUME NEW j \in 1..n PROVE queue[j].total_msat \in Nat
      <4>1. queue[j] \in Payment
        BY <2>1
      <4> QED
        BY <4>1 DEF Payment
    <3> QED
      BY <3>1, <3>2
  <2> DEFINE t == [j \in 1..n |-> queue[j].total_msat]
  <2>5. PICK k \in 1..n : \A j \in 1..n : t[k] >= t[j]
    <3>1. n \in Nat \ {0} /\ t \in [1..n -> Nat]
      BY <2>1, <2>3, <2>4
    <3> HIDE DEF t
    <3> QED
      BY <3>1, LargestExists
  <2>6. t[k] \in T /\ \A x \in T : t[k] >= x
    BY <2>4, <2>5
  <2>7. T \subseteq Nat /\ queue[i].total_msat \in T
    BY <2>3, <2>4
  <2> HIDE DEF T, t
  <2>8. Max(T) \in T /\ \A x \in T : Max(T) >= x
    BY <2>6 DEF Max
  <2> DEFINE total == queue[i].total_msat
             fee == channel.opening_fee_msat
             max == Max(T)
  <2>9. fee < max
    <3>1. fee \in Nat /\ total \in Nat /\ max \in Nat /\ total > fee /\ max >= total
      BY <2>1, <2>3, <2>7, <2>8
    <3> HIDE DEF fee, total, max
    <3> QED
      BY <3>1
  <2> QED
    BY <2>1, <2>2, <2>9 DEF T
<1> QED
  BY <1>1, QueueInvHolds, PTL

(* In PendingPaymentForward a payment that bears the fee is in flight or a  *)
(* result waits to be handled, as long as no HTLC expired while it was held *)
(* (service.rs:101-112).                                                    *)
THEOREM ForwardStateIsBackedHolds == Spec => []ForwardStateIsBackedInTime
<1>1. AccountInv => ForwardStateIsBackedInTime
  BY DEF AccountInv, ForwardStateIsBackedInTime
<1> QED
  BY <1>1, QueueInvHolds, PTL

(* As long as none expired, the held HTLCs are those in the queue and those *)
(* the service is still to be told of: no handler loses one or leaves one   *)
(* behind (service.rs:691-978).                                             *)
THEOREM HeldHTLCsAreAccountedInTime ==
  Spec => [](NoneExpired => HeldHTLCsAreAccounted)
<1>1. AccountInv => (NoneExpired => HeldHTLCsAreAccounted)
  BY DEF AccountInv
<1> QED
  BY <1>1, QueueInvHolds, PTL

(* As long as none expired, the HTLC intercepted in PendingInitialPayment is*)
(* the only one of its payment when there is no fixed size, so that the     *)
(* assertion at service.rs:143 holds.                                       *)
THEOREM FirstHTLCIsAloneInTime == Spec => [](NoneExpired => FirstHTLCIsAlone)
<1>1. QueueInv /\ AccountInv => (NoneExpired => FirstHTLCIsAlone)
  <2> SUFFICES ASSUME QueueInv, NothingWaits PROVE FirstHTLCIsAlone
    BY DEF AccountInv
  <2> SUFFICES ASSUME Queued = {}, NEW i \in DOMAIN channel.payment_queue
               PROVE  FALSE
    BY DEF FirstHTLCIsAlone, NothingWaits
  <2> DEFINE htlcs == channel.payment_queue[i].htlcs
  <2>1. channel.payment_queue \in Seq(Payment)
    BY DEF QueueInv, TypeOK, Channel
  <2>2. channel.payment_queue[i] \in Payment
    BY <2>1
  <2>3. htlcs \in Seq(Ids) /\ htlcs # <<>>
    <3>1. htlcs \in Seq(Ids)
      BY <2>2 DEF Payment
    <3>2. Grouped(channel.payment_queue[i], amount)
      BY <2>1 DEF QueueInv, WellFormed
    <3> QED
      BY <3>1, <3>2 DEF Grouped
  <2>4. Range(htlcs) # {}
    BY <2>3, SomeInRange
  <2> QED
    BY <2>4 DEF Queued, QueuedIds
<1> QED
  BY <1>1, QueueInvHolds, PTL

(* When LDK fails no HTLC it holds, none expires.                           *)
LEMMA NoneExpires ==
  ASSUME ~HTLCMayTimeOut
  PROVE  Spec => []NoneExpired
<1>1. Init => NoneExpired
  BY DEF Init, NoneExpired, With
<1>2. TypeOK /\ NoneExpired /\ [Next]_vars => NoneExpired'
  <2> SUFFICES ASSUME TypeOK, NoneExpired, [Next]_vars PROVE NoneExpired'
    OBVIOUS
  <2>1. SUFFICES ASSUME NEW id \in Ids PROVE htlc'[id] # "expired"
    BY DEF NoneExpired, With
  <2>2. htlc[id] # "expired"
    BY DEF NoneExpired, With
  <2>3. ASSUME NEW o, Perform(o) PROVE htlc'[id] # "expired"
    BY <2>2, <2>3, PerformMoves
  <2>4. CASE HandleEvent
    BY <2>2, <2>3, <2>4
    DEF HandleEvent, HandleHTLCIntercepted, HandleChannelReady,
        HandleHTLCHandlingFailed, HandlePaymentForwarded, Handle, RejectHTLC,
        AcceptHTLC, TypeOK
  <2>5. ASSUME NEW other \in Ids, NEW status \in {"held", "claimed", "failed"},
               htlc' = [htlc EXCEPT ![other] = status]
        PROVE  htlc'[id] # "expired"
    BY <2>2, <2>5 DEF TypeOK
  <2>6. \A other \in Ids : ~TimeOut(other)
    BY DEF TimeOut
  <2>7. CASE UNCHANGED htlc
    BY <2>2, <2>7
  <2>8. CASE \E other \in Ids : Receive(other) \/ Resolve(other)
    BY <2>5, <2>8 DEF Receive, Resolve, Claim, FailBack
  <2>9. CASE UNCHANGED vars \/ OpenChannel \/ OtherResult("PaymentForwarded")
                            \/ OtherResult("HTLCHandlingFailed")
    BY <2>7, <2>9 DEF vars, OpenChannel, OtherResult
  <2> QED
    BY <2>4, <2>6, <2>8, <2>9 DEF Next
<1> QED
  BY <1>1, <1>2, TypeCorrect, PTL DEF Spec

(* When LDK fails no HTLC it holds, the held HTLCs are those in the queue   *)
(* and those the service is still to be told of (service.rs:691-978).       *)
THEOREM HeldHTLCsAreAccountedHolds ==
  ASSUME ~HTLCMayTimeOut
  PROVE  Spec => []HeldHTLCsAreAccounted
BY NoneExpires, HeldHTLCsAreAccountedInTime, PTL

(* When LDK fails no HTLC it holds, the assertion at service.rs:143 holds.  *)
THEOREM FirstHTLCIsAloneHolds ==
  ASSUME ~HTLCMayTimeOut
  PROVE  Spec => []FirstHTLCIsAlone
BY NoneExpires, FirstHTLCIsAloneInTime, PTL
=============================================================================
