-------------------------- MODULE JITChannelProofs --------------------------
(***************************************************************************)
(* Theorems about JITChannel, for every set of HTLCs, offers and amounts.   *)
(***************************************************************************)
EXTENDS JITChannel, OutboundJITChannelProofs

-----------------------------------------------------------------------------
(* Type correctness.                                                        *)

(* The HTLCs a handler forwards are HTLCs (service.rs:255-261, 742-752).    *)
LEMMA ForwardableIsIds ==
  ASSUME NEW ids \in Seq(Ids)
  PROVE  Forwardable(ids) \in SUBSET Ids
BY DEF Forwardable

(* Performing a sound outcome keeps the types.                              *)
LEMMA PerformKeepsTypes ==
  ASSUME TypeOK, NEW outcome, Sound(outcome), Perform(outcome)
  PROVE  /\ channel' \in Channel
         /\ htlc' \in [Ids -> Statuses]
         /\ fee_payments' \subseteq SUBSET Ids
<1> DEFINE out == Forwardable(outcome.htlcs)
<1>1. channel' \in Channel
  BY DEF Perform, Sound
<1>2. htlc' \in [Ids -> Statuses]
  <2>1. htlc' = [id \in Ids |-> IF id \in out THEN "outbound" ELSE htlc[id]]
    BY DEF Perform
  <2> HIDE DEF out
  <2> QED
    BY <2>1 DEF TypeOK, Statuses
<1>3. fee_payments' \subseteq SUBSET Ids
  <2>1. CASE outcome.action = "ForwardPayment"
    <3>1. out \in SUBSET Ids
      BY <2>1, ForwardableIsIds DEF Sound
    <3>2. fee_payments' \in {fee_payments, fee_payments \cup {out}}
      BY DEF Perform
    <3> HIDE DEF out
    <3> QED
      BY <3>1, <3>2 DEF TypeOK
  <2>2. CASE outcome.action # "ForwardPayment"
    BY <2>2 DEF Perform, TypeOK
  <2> QED
    BY <2>1, <2>2
<1> QED
  BY <1>1, <1>2, <1>3

(* The oldest event is an event, and it leaves a sequence of events.        *)
LEMMA NextEventIsEvent ==
  ASSUME TypeOK, NEW type, NextEvent(type)
  PROVE  /\ events' \in Seq(Event)
         /\ Head(events) \in Event
         /\ Head(events).type = type
         /\ type = "HTLCIntercepted" => Head(events).id \in Ids
         /\ \E i \in DOMAIN events : events[i].type = type
<1>1. /\ events \in Seq(Event) /\ events # <<>> /\ Head(events).type = type
      /\ events' = Tail(events)
  BY DEF TypeOK, NextEvent
<1>2. Head(events) \in Event /\ Tail(events) \in Seq(Event)
  BY <1>1
<1>3. type = "HTLCIntercepted" => Head(events).id \in Ids
  BY <1>1, <1>2 DEF Event
<1>4. 1 \in DOMAIN events /\ events[1] = Head(events)
  BY <1>1
<1> QED
  BY <1>1, <1>2, <1>3, <1>4

(* The events the environment emits are events.                             *)
LEMMA EmitKeepsEvents ==
  ASSUME TypeOK, NEW event \in Event, Emit(event)
  PROVE  events' \in Seq(Event)
BY DEF TypeOK, Emit

(* The outcome of an interception, with what the types say of the event.    *)
LEMMA HandledIsSound ==
  ASSUME TypeOK, NextEvent("HTLCIntercepted")
  PROVE  LET id == Head(events).id
             outcome == htlc_intercepted(channel, offer, id, amount[id])
         IN  Sound(outcome) /\ Unsettled(channel, outcome)
<1>1. Head(events).id \in Ids
  BY NextEventIsEvent
<1>2. channel \in Channel
  BY DEF TypeOK
<1>3. offer \in Offer
  BY JITChannelAssumption DEF TypeOK
<1>4. amount[Head(events).id] \in Nat
  <2>1. amount[Head(events).id] \in Amounts \cup {0}
    BY <1>1 DEF TypeOK
  <2>2. \A a \in Amounts : a \in Nat
    BY JITChannelAssumption, Zenon
  <2>3. 0 \in Nat
    OBVIOUS
  <2> QED
    BY <2>1, <2>2, <2>3, Zenon
<1> QED
  BY <1>1, <1>2, <1>3, <1>4, InterceptedIsSound

(* Handling an event keeps the types (service.rs:691-978).                  *)
LEMMA HandlersKeepTypes ==
  ASSUME TypeOK, HandleEvent
  PROVE  TypeOK'
<1>1. CASE HandleHTLCIntercepted
  <2> DEFINE id == Head(events).id
             outcome == htlc_intercepted(channel, offer, id, amount[id])
  <2>1. NextEvent("HTLCIntercepted") /\ UNCHANGED <<offer, amount>>
    BY <1>1 DEF HandleHTLCIntercepted
  <2>2. events' \in Seq(Event)
    BY <2>1, NextEventIsEvent
  <2>3. Sound(outcome)
    BY <2>1, HandledIsSound
  <2>4. \/ UNCHANGED <<service, htlc, opening>>
        \/ RejectHTLC(id, outcome)
        \/ AcceptHTLC(outcome)
    BY <1>1 DEF HandleHTLCIntercepted
  <2> HIDE DEF outcome
  <2>5. CASE UNCHANGED <<service, htlc, opening>>
    BY <2>1, <2>2, <2>5 DEF TypeOK, service
  <2>6. CASE RejectHTLC(id, outcome)
    BY <2>1, <2>2, <2>3, <2>6 DEF TypeOK, RejectHTLC, Sound, Statuses
  <2>7. CASE AcceptHTLC(outcome)
    <3>1. Perform(outcome)
      BY <2>7 DEF AcceptHTLC
    <3>2. registered' = registered /\ opening' \in {opening, "requested"}
      BY <2>7 DEF AcceptHTLC
    <3> QED
      BY <2>1, <2>2, <2>3, <3>1, <3>2, PerformKeepsTypes DEF TypeOK
  <2> QED
    BY <2>4, <2>5, <2>6, <2>7
<1>2. ASSUME NEW type, NEW outcome, Sound(outcome), Handle(type, outcome)
      PROVE  TypeOK'
  <2>1. NextEvent(type) /\ UNCHANGED <<registered, offer, amount, opening>>
    BY <1>2 DEF Handle
  <2>2. events' \in Seq(Event)
    BY <2>1, NextEventIsEvent
  <2>3. Perform(outcome) \/ UNCHANGED <<channel, htlc, fee_payments>>
    BY <1>2 DEF Handle
  <2> QED
    BY <1>2, <2>1, <2>2, <2>3, PerformKeepsTypes DEF TypeOK
<1>3. channel \in Channel
  BY DEF TypeOK
<1> QED
  BY <1>1, <1>2, <1>3, ReadyIsSound, FailedIsSound, ForwardedIsSound
  DEF HandleEvent, HandleChannelReady, HandleHTLCHandlingFailed,
      HandlePaymentForwarded

(* The environment keeps the types.                                         *)
LEMMA EnvironmentKeepsTypes ==
  ASSUME TypeOK,
         \/ OpenChannel
         \/ \E id \in Ids : Receive(id) \/ Resolve(id) \/ TimeOut(id)
         \/ OtherResult("PaymentForwarded")
         \/ OtherResult("HTLCHandlingFailed")
  PROVE  TypeOK'
<1>1. /\ [type |-> "ChannelReady"] \in Event
      /\ [type |-> "PaymentForwarded"] \in Event
      /\ [type |-> "HTLCHandlingFailed"] \in Event
      /\ \A id \in Ids : [type |-> "HTLCIntercepted", id |-> id] \in Event
  BY DEF Event
<1>2. CASE OpenChannel
  BY <1>1, <1>2, EmitKeepsEvents DEF OpenChannel, TypeOK, service
<1>3. ASSUME NEW id \in Ids, Receive(id)
      PROVE  TypeOK'
  <2>1. events' \in Seq(Event)
    BY <1>1, <1>3, EmitKeepsEvents DEF Receive
  <2>2. htlc' \in [Ids -> Statuses]
    BY <1>3 DEF Receive, TypeOK, Statuses
  <2>3. amount' \in [Ids -> Amounts \cup {0}]
    BY <1>3 DEF Receive, TypeOK
  <2> QED
    BY <1>3, <2>1, <2>2, <2>3 DEF Receive, TypeOK, service
<1>4. ASSUME NEW id \in Ids, Resolve(id)
      PROVE  TypeOK'
  <2>1. events' \in Seq(Event)
    BY <1>1, <1>4, EmitKeepsEvents DEF Resolve, Claim, FailBack
  <2>2. htlc' \in [Ids -> Statuses]
    BY <1>4 DEF Resolve, Claim, FailBack, TypeOK, Statuses
  <2> QED
    BY <1>4, <2>1, <2>2 DEF Resolve, Claim, FailBack, TypeOK, service
<1>5. ASSUME NEW id \in Ids, TimeOut(id)
      PROVE  TypeOK'
  BY <1>5 DEF TimeOut, TypeOK, Statuses, service
<1>6. ASSUME NEW type \in {"PaymentForwarded", "HTLCHandlingFailed"},
             OtherResult(type)
      PROVE  TypeOK'
  <2>1. events' \in Seq(Event)
    BY <1>1, <1>6, EmitKeepsEvents DEF OtherResult
  <2> QED
    BY <1>6, <2>1 DEF OtherResult, TypeOK, service
<1> QED
  BY <1>2, <1>3, <1>4, <1>5, <1>6

(* The initial states are typed.                                            *)
LEMMA InitIsTyped == Init => TypeOK
<1> SUFFICES ASSUME Init PROVE TypeOK
  OBVIOUS
<1>1. channel \in Channel
  BY DEF Init, new, Channel, States
<1> QED
  BY <1>1 DEF Init, TypeOK, Statuses

(* Every variable keeps its type, in every execution.                       *)
THEOREM TypeCorrect == Spec => []TypeOK
<1>1. Init => TypeOK
  BY InitIsTyped
<1>2. TypeOK /\ [Next]_vars => TypeOK'
  <2> SUFFICES ASSUME TypeOK, [Next]_vars PROVE TypeOK'
    OBVIOUS
  <2>1. CASE Next
    BY <2>1, HandlersKeepTypes, EnvironmentKeepsTypes DEF Next
  <2>2. CASE UNCHANGED vars
    BY <2>2 DEF vars, TypeOK
  <2> QED
    BY <2>1, <2>2
<1> QED
  BY <1>1, <1>2, PTL DEF Spec

-----------------------------------------------------------------------------
(* What steps do to the events and the HTLCs.                               *)

(* Handling the oldest event moves the others up.                           *)
LEMMA EventsMoveUp ==
  ASSUME TypeOK, NEW type, NextEvent(type)
  PROVE  /\ \A t : \A i \in Pending(t)' : i \in Nat /\ i + 1 \in Pending(t)
         /\ \A t : \A i \in Pending(t) : i = 1 \/ i - 1 \in Pending(t)'
         /\ \A t : 1 \in Pending(t) <=> t = type
         /\ \A t : Pending(t) \subseteq Nat /\ Pending(t)' \subseteq Nat \ {0}
<1>1. /\ events \in Seq(Event) /\ events # <<>> /\ Head(events).type = type
      /\ events' = Tail(events)
  BY DEF TypeOK, NextEvent
<1>2. DOMAIN events = 1..Len(events) /\ Len(events) \in Nat \ {0}
  BY <1>1
<1>3. /\ DOMAIN events' = 1..(Len(events) - 1)
      /\ \A i \in 1..(Len(events) - 1) : events'[i] = events[i + 1]
  BY <1>1
<1>4. events[1].type = type
  BY <1>1
<1> QED
  BY <1>2, <1>3, <1>4 DEF Pending

(* What is forwarded was held.                                              *)
LEMMA ForwardableIsHeld ==
  ASSUME NEW ids, NEW id \in Forwardable(ids)
  PROVE  htlc[id] = "held" /\ \E i \in 1..Len(ids) : id = ids[i]
<1>1. PICK i \in 1..Len(ids) : id = ids[i] /\ \A j \in 1..i : htlc[ids[j]] = "held"
  BY DEF Forwardable
<1>2. i \in Int /\ 1 <= i
  BY <1>1
<1> QED
  BY <1>1, <1>2

(* What performing an outcome does to each HTLC.                            *)
LEMMA PerformMoves ==
  ASSUME TypeOK, NEW outcome, Perform(outcome)
  PROVE  LET out == Forwardable(outcome.htlcs)
         IN  \A id \in Ids : /\ id \in out => /\ htlc[id] = "held"
                                             /\ htlc'[id] = "outbound"
                             /\ id \notin out => htlc'[id] = htlc[id]
<1> DEFINE out == Forwardable(outcome.htlcs)
<1>1. htlc' = [id \in Ids |-> IF id \in out THEN "outbound" ELSE htlc[id]]
  BY DEF Perform
<1>2. \A id \in out : htlc[id] = "held"
  BY ForwardableIsHeld
<1> HIDE DEF out
<1>3. \A id \in Ids : /\ id \in out => htlc[id] = "held" /\ htlc'[id] = "outbound"
                      /\ id \notin out => htlc'[id] = htlc[id]
  BY <1>1, <1>2
<1> QED
  BY <1>3 DEF out

(* A channel is removed before anything is forwarded.                       *)
RemovedEarly == ~registered => channel.state = "PendingInitialPayment"

-----------------------------------------------------------------------------
(* No free ride.                                                            *)

(* Without other traffic, a success the service knows of or will be told of *)
(* is the success of a payment that bore the fee.                           *)
SuccessIsPaidFor ==
  (channel.state = "PaymentForwarded" \/ Pending("PaymentForwarded") # {})
    => Succeeded # {}

RideInv == TypeOK /\ NoFreeRide /\ SuccessIsPaidFor

(* A claimed HTLC stays claimed and a fee payment stays one, so that a fee  *)
(* payment that succeeded remains.                                          *)
LEMMA SuccessRemains ==
  ASSUME fee_payments \subseteq fee_payments',
         \A id \in Ids : htlc[id] = "claimed" => htlc'[id] = "claimed",
         Succeeded # {}
  PROVE  Succeeded' # {}
<1>1. PICK p \in fee_payments, id \in Ids : id \in p /\ htlc[id] = "claimed"
  BY DEF Succeeded, With
<1>2. p \in fee_payments' /\ htlc'[id] = "claimed"
  BY <1>1
<1> QED
  BY <1>1, <1>2 DEF Succeeded, With

(* Handling an event and emitting an event of another type leave no new     *)
(* event of a type.                                                         *)
LEMMA NoNewPending ==
  ASSUME TypeOK, NEW type,
         \/ UNCHANGED events
         \/ \E other : NextEvent(other)
         \/ \E event \in Event : event.type # type /\ Emit(event),
         Pending(type)' # {}
  PROVE  Pending(type) # {}
<1>1. PICK i \in DOMAIN events' : events'[i].type = type
  BY DEF Pending
<1>2. events \in Seq(Event)
  BY DEF TypeOK
<1>3. CASE UNCHANGED events
  BY <1>1, <1>3 DEF Pending
<1>4. CASE \E other : NextEvent(other)
  <2>1. events # <<>> /\ events' = Tail(events)
    BY <1>4 DEF NextEvent
  <2>2. i + 1 \in DOMAIN events /\ events[i + 1] = events'[i]
    BY <1>1, <1>2, <2>1
  <2> QED
    BY <1>1, <2>2 DEF Pending
<1>5. CASE \E event \in Event : event.type # type /\ Emit(event)
  <2>1. PICK event \in Event :
          event.type # type /\ events' = Append(events, event)
    BY <1>5 DEF Emit
  <2>2. i \in DOMAIN events /\ events[i] = events'[i]
    BY <1>1, <1>2, <2>1
  <2> QED
    BY <1>1, <2>2 DEF Pending
<1> QED
  BY <1>3, <1>4, <1>5

(* Performing an outcome gives no free ride, when it leaves the channel in  *)
(* PaymentForwarded only if a fee payment succeeded.                        *)
LEMMA PerformKeepsNoFreeRide ==
  ASSUME RideInv, NEW outcome, Sound(outcome), Perform(outcome),
         outcome.channel.state = "PaymentForwarded" => Succeeded # {}
  PROVE  /\ NoFreeRide'
         /\ channel'.state = "PaymentForwarded" => Succeeded' # {}
         /\ Succeeded # {} => Succeeded' # {}
<1> DEFINE out == Forwardable(outcome.htlcs)
<1>1. htlc' = [id \in Ids |-> IF id \in out THEN "outbound" ELSE htlc[id]]
  BY DEF Perform
<1>2. \A id \in out : htlc[id] = "held"
  <2> SUFFICES ASSUME NEW i \in 1..Len(outcome.htlcs),
                      \A j \in 1..i : htlc[outcome.htlcs[j]] = "held"
               PROVE  htlc[outcome.htlcs[i]] = "held"
    BY DEF Forwardable
  <2>1. i \in Int /\ 1 <= i
    OBVIOUS
  <2> QED
    BY <2>1
<1>3. fee_payments \subseteq fee_payments'
  BY DEF Perform
<1>4. \A id \in Ids : htlc[id] = "claimed" => htlc'[id] = "claimed"
  <2> HIDE DEF out
  <2> QED
    BY <1>1, <1>2
<1>5. Succeeded # {} => Succeeded' # {}
  BY <1>3, <1>4, SuccessRemains
<1>6. channel' = outcome.channel
  BY DEF Perform
<1>7. CASE Succeeded # {}
  BY <1>5, <1>7 DEF NoFreeRide
<1>8. CASE Succeeded = {}
  <2>1. channel'.state # "PaymentForwarded" /\ outcome.action # "ForwardHTLCs"
    BY <1>6, <1>8 DEF Sound
  <2>2. out = {} \/ out \in fee_payments'
    <3>1. CASE outcome.action = "ForwardPayment"
      BY <3>1 DEF Perform
    <3>2. CASE outcome.htlcs = <<>>
      BY <3>2 DEF Forwardable
    <3> QED
      BY <2>1, <3>1, <3>2 DEF Sound
  <2>3. With("outbound") \cup With("claimed") \subseteq UNION fee_payments
    BY <1>8 DEF RideInv, NoFreeRide
  <2> HIDE DEF out
  <2>4. ASSUME NEW id \in Ids, htlc'[id] \in {"outbound", "claimed"}
        PROVE  id \in UNION fee_payments'
    <3>1. CASE id \in out
      BY <2>2, <3>1
    <3>2. CASE id \notin out
      BY <1>1, <1>3, <2>3, <2>4, <3>2 DEF With
    <3> QED
      BY <3>1, <3>2
  <2>5. With("outbound")' \cup With("claimed")' \subseteq UNION fee_payments'
    BY <2>4 DEF With
  <2> QED
    BY <1>8, <2>1, <2>5 DEF NoFreeRide
<1> QED
  BY <1>5, <1>6, <1>7, <1>8

(* Handling an event keeps the invariant.                                   *)
LEMMA HandlersKeepRideInv ==
  ASSUME RideInv, HandleEvent
  PROVE  RideInv'
<1>1. TypeOK' /\ channel \in Channel
  BY HandlersKeepTypes DEF RideInv, TypeOK
<1>2. Pending("PaymentForwarded")' # {} => Pending("PaymentForwarded") # {}
  <2>1. \E other : NextEvent(other)
    BY DEF HandleEvent, HandleHTLCIntercepted, HandleChannelReady,
           HandleHTLCHandlingFailed, HandlePaymentForwarded, Handle
  <2> QED
    BY <2>1, NoNewPending DEF RideInv
<1>3. ASSUME UNCHANGED <<channel, htlc, fee_payments>>
      PROVE  RideInv'
  BY <1>1, <1>2, <1>3
  DEF RideInv, NoFreeRide, SuccessIsPaidFor, Succeeded, With
<1>4. ASSUME NEW outcome, Sound(outcome), Perform(outcome),
             outcome.channel.state = "PaymentForwarded" => Succeeded # {}
      PROVE  RideInv'
  BY <1>1, <1>2, <1>4, PerformKeepsNoFreeRide DEF RideInv, SuccessIsPaidFor
<1>5. ASSUME NEW outcome, Unsettled(channel, outcome),
             outcome.channel.state = "PaymentForwarded"
      PROVE  Succeeded # {}
  BY <1>5 DEF Unsettled, RideInv, SuccessIsPaidFor
<1>6. CASE HandleHTLCIntercepted
  <2> DEFINE id == Head(events).id
             outcome == htlc_intercepted(channel, offer, id, amount[id])
  <2>1. Sound(outcome) /\ Unsettled(channel, outcome)
    BY <1>6, HandledIsSound DEF HandleHTLCIntercepted, RideInv
  <2>2. \/ UNCHANGED <<service, htlc, opening>>
        \/ RejectHTLC(id, outcome)
        \/ AcceptHTLC(outcome)
    BY <1>6 DEF HandleHTLCIntercepted
  <2> HIDE DEF outcome, id
  <2>3. CASE UNCHANGED <<service, htlc, opening>>
    BY <1>3, <2>3 DEF service
  <2>4. CASE RejectHTLC(id, outcome)
    <3>1. channel' = outcome.channel /\ fee_payments' = fee_payments
      BY <2>4 DEF RejectHTLC
    <3>2. \A h \in Ids : htlc'[h] = htlc[h] \/ htlc'[h] = "failed"
      BY <2>4 DEF RejectHTLC, RideInv, TypeOK
    <3>3. \A h \in Ids : htlc[h] = "claimed" => htlc'[h] = "claimed"
      BY <2>4 DEF RejectHTLC, RideInv, TypeOK
    <3>4. Succeeded # {} => Succeeded' # {}
      BY <3>1, <3>3, SuccessRemains
    <3>5. With("outbound")' \cup With("claimed")'
            \subseteq With("outbound") \cup With("claimed")
      BY <3>2 DEF With
    <3> QED
      BY <1>1, <1>2, <1>5, <2>1, <3>1, <3>4, <3>5
      DEF RideInv, NoFreeRide, SuccessIsPaidFor, Unsettled
  <2>5. CASE AcceptHTLC(outcome)
    BY <1>4, <1>5, <2>1, <2>5 DEF AcceptHTLC
  <2> QED
    BY <2>2, <2>3, <2>4, <2>5
<1>7. ASSUME NEW type, NEW outcome, Sound(outcome), Handle(type, outcome),
             outcome.channel.state = "PaymentForwarded" => Succeeded # {}
      PROVE  RideInv'
  BY <1>3, <1>4, <1>7 DEF Handle
<1>8. CASE HandleChannelReady
  BY <1>1, <1>5, <1>7, <1>8, ReadyIsSound DEF HandleChannelReady
<1>9. CASE HandleHTLCHandlingFailed
  BY <1>1, <1>5, <1>7, <1>9, FailedIsSound DEF HandleHTLCHandlingFailed
<1>10. CASE HandlePaymentForwarded
  <2>1. Pending("PaymentForwarded") # {}
    BY <1>10, NextEventIsEvent
    DEF HandlePaymentForwarded, Handle, Pending, RideInv
  <2>2. Succeeded # {}
    BY <2>1 DEF RideInv, SuccessIsPaidFor
  <2> QED
    BY <1>1, <1>7, <1>10, <2>2, ForwardedIsSound DEF HandlePaymentForwarded
<1> QED
  BY <1>6, <1>8, <1>9, <1>10 DEF HandleEvent

(* The environment keeps the invariant when nothing else travels over the   *)
(* channel.                                                                 *)
LEMMA EnvironmentKeepsRideInv ==
  ASSUME ~OtherTraffic, RideInv,
         \/ OpenChannel
         \/ \E id \in Ids : Receive(id) \/ Resolve(id) \/ TimeOut(id)
         \/ OtherResult("PaymentForwarded")
         \/ OtherResult("HTLCHandlingFailed")
  PROVE  RideInv'
<1>1. TypeOK /\ TypeOK'
  BY EnvironmentKeepsTypes DEF RideInv
<1>2. ASSUME NEW event \in Event, event.type # "PaymentForwarded",
             UNCHANGED events \/ Emit(event),
             UNCHANGED <<channel, fee_payments>>,
             \A id \in Ids : htlc[id] = "claimed" => htlc'[id] = "claimed",
             \A id \in Ids : htlc'[id] \in {"outbound", "claimed"}
                              => htlc'[id] = htlc[id]
      PROVE  RideInv'
  <2>1. Pending("PaymentForwarded")' # {} => Pending("PaymentForwarded") # {}
    BY <1>1, <1>2, NoNewPending
  <2>2. Succeeded # {} => Succeeded' # {}
    BY <1>2, SuccessRemains
  <2>3. With("outbound")' \cup With("claimed")'
          \subseteq With("outbound") \cup With("claimed")
    BY <1>2 DEF With
  <2> QED
    BY <1>1, <1>2, <2>1, <2>2, <2>3 DEF RideInv, NoFreeRide, SuccessIsPaidFor
<1>3. [type |-> "ChannelReady"] \in Event /\ [type |-> "HTLCHandlingFailed"] \in Event
  BY DEF Event
<1>4. CASE OpenChannel
  BY <1>2, <1>3, <1>4 DEF OpenChannel, service
<1>5. ASSUME NEW id \in Ids, Receive(id)
      PROVE  RideInv'
  <2> DEFINE event == [type |-> "HTLCIntercepted", id |-> id]
  <2>1. event \in Event /\ event.type # "PaymentForwarded"
    BY DEF Event
  <2>2. htlc' = [htlc EXCEPT ![id] = "held"] /\ htlc[id] = "unseen"
    BY <1>5 DEF Receive
  <2>3. \A h \in Ids : /\ htlc[h] = "claimed" => htlc'[h] = "claimed"
                       /\ htlc'[h] \in {"outbound", "claimed"} => htlc'[h] = htlc[h]
    BY <1>1, <2>2 DEF TypeOK
  <2>4. Emit(event) /\ UNCHANGED <<channel, fee_payments>>
    BY <1>5 DEF Receive, service
  <2> QED
    BY <1>2, <2>1, <2>3, <2>4
<1>6. ASSUME NEW id \in Ids, FailBack(id)
      PROVE  RideInv'
  <2>1. htlc' = [htlc EXCEPT ![id] = "failed"] /\ htlc[id] = "outbound"
    BY <1>6 DEF FailBack
  <2>2. \A h \in Ids : /\ htlc[h] = "claimed" => htlc'[h] = "claimed"
                       /\ htlc'[h] \in {"outbound", "claimed"} => htlc'[h] = htlc[h]
    BY <1>1, <2>1 DEF TypeOK
  <2> QED
    BY <1>2, <1>3, <1>6, <2>2 DEF FailBack, service
<1>7. ASSUME NEW id \in Ids, TimeOut(id)
      PROVE  RideInv'
  <2>1. htlc' = [htlc EXCEPT ![id] = "expired"] /\ htlc[id] = "held"
    BY <1>7 DEF TimeOut
  <2>2. \A h \in Ids : /\ htlc[h] = "claimed" => htlc'[h] = "claimed"
                       /\ htlc'[h] \in {"outbound", "claimed"} => htlc'[h] = htlc[h]
    BY <1>1, <2>1 DEF TypeOK
  <2> QED
    BY <1>2, <1>3, <1>7, <2>2 DEF TimeOut, service
<1>8. ASSUME NEW id \in Ids, Claim(id)
      PROVE  RideInv'
  <2>1. htlc' = [htlc EXCEPT ![id] = "claimed"] /\ htlc[id] = "outbound"
    BY <1>8 DEF Claim
  <2>2. UNCHANGED <<channel, fee_payments>>
    BY <1>8 DEF Claim, service
  <2>3. htlc'[id] = "claimed"
        /\ \A h \in Ids : htlc[h] = "claimed" => htlc'[h] = "claimed"
    BY <1>1, <2>1 DEF TypeOK
  <2>4. Succeeded' # {}
    <3>1. CASE Succeeded # {}
      BY <2>2, <2>3, <3>1, SuccessRemains
    <3>2. CASE Succeeded = {}
      <4>1. PICK p \in fee_payments : id \in p
        BY <2>1, <3>2 DEF RideInv, NoFreeRide, With
      <4> QED
        BY <2>2, <2>3, <4>1 DEF Succeeded, With
    <3> QED
      BY <3>1, <3>2
  <2> QED
    BY <1>1, <2>4 DEF RideInv, NoFreeRide, SuccessIsPaidFor
<1>9. \A type : ~OtherResult(type)
  BY DEF OtherResult
<1> QED
  BY <1>4, <1>5, <1>6, <1>7, <1>8, <1>9 DEF Resolve

(* The invariant holds in every execution.                                  *)
LEMMA RideInvHolds ==
  ASSUME ~OtherTraffic
  PROVE  Spec => []RideInv
<1>1. Init => RideInv
  <2> SUFFICES ASSUME Init PROVE RideInv
    OBVIOUS
  <2>1. TypeOK
    BY InitIsTyped
  <2>2. With("outbound") = {} /\ With("claimed") = {}
    BY DEF Init, With
  <2>3. channel.state = "PendingInitialPayment" /\ Pending("PaymentForwarded") = {}
    BY DEF Init, new, Pending
  <2> QED
    BY <2>1, <2>2, <2>3 DEF RideInv, NoFreeRide, SuccessIsPaidFor
<1>2. RideInv /\ [Next]_vars => RideInv'
  <2> SUFFICES ASSUME RideInv, [Next]_vars PROVE RideInv'
    OBVIOUS
  <2>1. CASE Next
    BY <2>1, HandlersKeepRideInv, EnvironmentKeepsRideInv DEF Next
  <2>2. CASE UNCHANGED vars
    BY <2>2 DEF vars, RideInv, TypeOK, NoFreeRide, SuccessIsPaidFor, Succeeded,
                With, Pending
  <2> QED
    BY <2>1, <2>2
<1> QED
  BY <1>1, <1>2, PTL DEF Spec

(* Without other traffic over the channel, no HTLC travels for free before  *)
(* a payment that bore the fee succeeded, whatever fails, is retried or     *)
(* times out (service.rs:118-119, 355-378).                                 *)
THEOREM NoFreeRideHolds ==
  ASSUME ~OtherTraffic
  PROVE  Spec => []NoFreeRide
<1>1. RideInv => NoFreeRide
  BY DEF RideInv
<1> QED
  BY <1>1, RideInvHolds, PTL

=============================================================================
