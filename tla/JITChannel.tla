----------------------------- MODULE JITChannel -----------------------------
(***************************************************************************)
(* One JIT channel served by LSPS2ServiceHandler, from the buy request that *)
(* created it to the forwarding of every HTLC sent to its intercept scid.   *)
(*                                                                         *)
(* Inside the program: the channel and the handlers of the four LDK events. *)
(* Around it: the senders, LDK's ChannelManager, which holds intercepted    *)
(* HTLCs and queues the events in order, the LSP's application, which opens *)
(* the channel and passes each event to its handler, and the recipient,     *)
(* which claims all parts of a payment or none.                             *)
(***************************************************************************)
EXTENDS OutboundJITChannel

CONSTANTS Amounts,         \* expected_outbound_amount_msat of an HTLC
          Offers,          \* the offers clients ask to buy
          HTLCMayTimeOut,  \* LDK fails held HTLCs that are about to expire
          OtherTraffic     \* the channel also carries HTLCs that were not
                           \* sent to the intercept scid

ASSUME JITChannelAssumption ==
  /\ Amounts \subseteq Nat \ {0}
  /\ Offers \subseteq Offer
  /\ {HTLCMayTimeOut, OtherTraffic} \subseteq BOOLEAN

VARIABLES
  channel,       \* the OutboundJITChannel of the intercept scid
  registered,    \* it is in outbound_channels_by_intercept_scid
  offer,         \* its opening_fee_params and payment_size_msat
  amount,        \* the amount of each HTLC
  htlc,          \* where each HTLC is
  events,        \* LDK events not handled yet, oldest first
  fee_payments,  \* the sets of HTLCs forwarded while skimming the fee
  opening        \* the channel itself: "no", "requested" or "open"

vars == <<channel, registered, offer, amount, htlc, events, fee_payments,
          opening>>

service == <<channel, registered, fee_payments>>

Statuses == {"unseen", "held", "outbound", "claimed", "failed", "expired"}

Event == [type : {"HTLCIntercepted"}, id : Ids]
           \cup [type : {"ChannelReady", "PaymentForwarded",
                         "HTLCHandlingFailed"}]

Init == /\ channel = new
        /\ registered = TRUE
        /\ offer \in {o \in Offers : ValidOffer(o)}
        /\ amount = [id \in Ids |-> 0]
        /\ htlc = [id \in Ids |-> "unseen"]
        /\ events = <<>>
        /\ fee_payments = {}
        /\ opening = "no"

-----------------------------------------------------------------------------
(* The handlers.                                                            *)

(* The HTLCs the loop over forward_intercepted_htlc forwards: it returns on *)
(* the first one ChannelManager no longer holds.                            *)
Forwardable(ids) ==
  {ids[i] : i \in {k \in 1..Len(ids) : \A j \in 1..k : htlc[ids[j]] = "held"}}

(* A handler takes the new channel and forwards the HTLCs of the outcome.   *)
Perform(outcome) ==
  LET out == Forwardable(outcome.htlcs)
  IN  /\ channel' = outcome.channel
      /\ htlc' = [id \in Ids |-> IF id \in out THEN "outbound" ELSE htlc[id]]
      /\ fee_payments' = IF outcome.action = "ForwardPayment" /\ out # {}
                         THEN fee_payments \cup {out} ELSE fee_payments

(* The application passes the oldest event to its handler.                  *)
NextEvent(type) == /\ events # <<>>
                   /\ Head(events).type = type
                   /\ events' = Tail(events)

(* Mutant of RejectHTLC: the channel is kept.                               *)
RejectHTLC_keeping(id, outcome) ==
  /\ channel' = outcome.channel
  /\ htlc' = [htlc EXCEPT ![id] = IF @ = "held" THEN "failed" ELSE @]
  /\ UNCHANGED <<registered, fee_payments, opening>>

(* The error path: fail the HTLC; if ChannelManager no longer holds it, the *)
(* handler returns before it removes the channel.                           *)
RejectHTLC(id, outcome) ==
  /\ channel' = outcome.channel
  /\ htlc' = [htlc EXCEPT ![id] = IF @ = "held" THEN "failed" ELSE @]
  /\ registered' = (htlc[id] # "held")
  /\ UNCHANGED <<fee_payments, opening>>

AcceptHTLC(outcome) ==
  /\ Perform(outcome)
  /\ opening' = IF outcome.action = "OpenChannel" THEN "requested" ELSE opening
  /\ UNCHANGED registered

HandleHTLCIntercepted ==
  /\ NextEvent("HTLCIntercepted")
  /\ LET id == Head(events).id
         outcome == htlc_intercepted(channel, offer, id, amount[id])
     IN  IF ~registered THEN UNCHANGED <<service, htlc, opening>>
         ELSE IF outcome.action = "Err" THEN RejectHTLC(id, outcome)
         ELSE AcceptHTLC(outcome)
  /\ UNCHANGED <<offer, amount>>

(* The three other handlers do nothing more on an error or for a channel    *)
(* that was removed.                                                        *)
Handle(type, outcome) ==
  /\ NextEvent(type)
  /\ IF registered THEN Perform(outcome)
     ELSE UNCHANGED <<channel, htlc, fee_payments>>
  /\ UNCHANGED <<registered, offer, amount, opening>>

HandleChannelReady == Handle("ChannelReady", channel_ready(channel))

HandleHTLCHandlingFailed ==
  Handle("HTLCHandlingFailed", htlc_handling_failed(channel))

HandlePaymentForwarded ==
  Handle("PaymentForwarded", payment_forwarded(channel))

-----------------------------------------------------------------------------
(* The environment.                                                         *)

Emit(event) == events' = Append(events, event)

(* An HTLC for the intercept scid arrives; ChannelManager holds it.         *)
Receive(id) ==
  /\ htlc[id] = "unseen"
  /\ htlc' = [htlc EXCEPT ![id] = "held"]
  /\ \E a \in Amounts : amount' = [amount EXCEPT ![id] = a]
  /\ Emit([type |-> "HTLCIntercepted", id |-> id])
  /\ UNCHANGED <<service, offer, opening>>

(* The application opens the channel it was asked for, and LDK reports it.  *)
OpenChannel ==
  /\ opening = "requested"
  /\ opening' = "open"
  /\ Emit([type |-> "ChannelReady"])
  /\ UNCHANGED <<service, offer, amount, htlc>>

(* The parts of a payment; without a fixed size each HTLC is a payment.     *)
Parts(id) ==
  IF offer.payment_size_msat = None THEN {id}
  ELSE {part \in Ids : PaymentHash[part] = PaymentHash[id]}

(* The recipient claims a payment all of whose parts it has.                *)
Claim(id) ==
  /\ htlc[id] = "outbound"
  /\ \A part \in Parts(id) : htlc[part] \in {"outbound", "claimed"}
  /\ htlc' = [htlc EXCEPT ![id] = "claimed"]
  /\ Emit([type |-> "PaymentForwarded"])
  /\ UNCHANGED <<service, offer, amount, opening>>

(* A part fails downstream, unless the recipient claimed its payment.       *)
FailBack(id) ==
  /\ htlc[id] = "outbound"
  /\ \A part \in Parts(id) : htlc[part] # "claimed"
  /\ htlc' = [htlc EXCEPT ![id] = "failed"]
  /\ Emit([type |-> "HTLCHandlingFailed"])
  /\ UNCHANGED <<service, offer, amount, opening>>

(* LDK fails an HTLC it held for too long; the event it emits does not name *)
(* the channel, so that its handler does nothing.                           *)
TimeOut(id) ==
  /\ HTLCMayTimeOut
  /\ htlc[id] = "held"
  /\ htlc' = [htlc EXCEPT ![id] = "expired"]
  /\ UNCHANGED <<service, offer, amount, events, opening>>

(* An HTLC over the channel that is not sent to the intercept scid succeeds *)
(* or fails.  Bound: one unhandled result at a time.                        *)
OtherResult(type) ==
  /\ OtherTraffic
  /\ opening = "open"
  /\ \A i \in DOMAIN events : events[i].type # type
  /\ Emit([type |-> type])
  /\ UNCHANGED <<service, offer, amount, htlc, opening>>

-----------------------------------------------------------------------------
HandleEvent == \/ HandleHTLCIntercepted
               \/ HandleChannelReady
               \/ HandleHTLCHandlingFailed
               \/ HandlePaymentForwarded

Resolve(id) == Claim(id) \/ FailBack(id)

Next == \/ HandleEvent
        \/ OpenChannel
        \/ \E id \in Ids : Receive(id) \/ Resolve(id) \/ TimeOut(id)
        \/ OtherResult("PaymentForwarded")
        \/ OtherResult("HTLCHandlingFailed")

Spec == Init /\ [][Next]_vars

(* The application handles events and opens channels; an HTLC forwarded is  *)
(* claimed or fails, at the latest when its CLTV expires.                   *)
Fairness == /\ WF_vars(HandleEvent)
            /\ WF_vars(OpenChannel)
            /\ \A id \in Ids : WF_vars(Resolve(id))

FairSpec == Spec /\ Fairness

-----------------------------------------------------------------------------
(* Properties.                                                              *)

TypeOK ==
  /\ channel \in Channel
  /\ registered \in BOOLEAN
  /\ offer \in {o \in Offers : ValidOffer(o)}
  /\ amount \in [Ids -> Amounts \cup {0}]
  /\ htlc \in [Ids -> Statuses]
  /\ events \in Seq(Event)
  /\ fee_payments \subseteq SUBSET Ids
  /\ opening \in {"no", "requested", "open"}

With(status) == {id \in Ids : htlc[id] = status}

Pending(type) == {i \in DOMAIN events : events[i].type = type}

(* The HTLCs whose interception the service has not been told of.           *)
Announced == {events[i].id : i \in Pending("HTLCIntercepted")}

Queued == QueuedIds(channel.payment_queue)

(* The fee payments with an HTLC in flight, and those with a claimed one.   *)
InFlight == {p \in fee_payments : p \cap With("outbound") # {}}
Succeeded == {p \in fee_payments : p \cap With("claimed") # {}}

(* payment_queue.rs:25-41: one payment per hash, none of them empty, every  *)
(* HTLC once and under its own hash (the debug_asserts at 29 and 31), and   *)
(* the totals the comparisons use are the sums of the amounts.              *)
QueueIsWellFormed ==
  LET queue == channel.payment_queue
  IN  \A i \in DOMAIN queue :
        /\ \A j \in DOMAIN queue :
             queue[i].payment_hash = queue[j].payment_hash => i = j
        /\ queue[i].htlcs # <<>>
        /\ \A j, k \in DOMAIN queue[i].htlcs :
             queue[i].htlcs[j] = queue[i].htlcs[k] => j = k
        /\ \A id \in Range(queue[i].htlcs) :
             PaymentHash[id] = queue[i].payment_hash
        /\ queue[i].total_msat =
             SumTo([j \in DOMAIN queue[i].htlcs |-> amount[queue[i].htlcs[j]]])

(* No HTLC is lost and none is forwarded twice: the HTLCs ChannelManager    *)
(* holds are those in the queue and those whose event is still to be        *)
(* handled.  Every handler moves HTLCs between the two (service.rs:691-978).*)
HeldHTLCsAreAccounted ==
  registered => With("held") = Queued \cup Announced

(* The fee is being paid by at most one payment at a time                   *)
(* (service.rs:101-103: "No further payments can be forwarded until the     *)
(* pending payment succeeds or fails"; CHANGELOG.md:5-6).                   *)
AtMostOneFeePayment == \A p, q \in InFlight : p = q

(* The fee is not taken from two payments that both succeed.                *)
FeePaidOnce == \A p, q \in Succeeded : p = q

(* The state names what is in flight (service.rs:101-112): in               *)
(* PendingPaymentForward a fee payment is, or its result waits to be        *)
(* handled.                                                                 *)
ForwardStateIsBacked ==
  channel.state = "PendingPaymentForward" =>
    \/ InFlight # {}
    \/ Pending("PaymentForwarded") # {}
    \/ Pending("HTLCHandlingFailed") # {}

(* It holds unless LDK failed an HTLC it held for too long: forwarding then *)
(* stops half way, and the state is wrong (service.rs:743, 816, 941).       *)
NoneExpired == With("expired") = {}

ForwardStateIsBackedInTime == NoneExpired => ForwardStateIsBacked

(* In PendingPayment no fee payment is in flight and none has succeeded     *)
(* (service.rs:108-112).                                                    *)
PendingPaymentIsIdle ==
  channel.state = "PendingPayment" => InFlight = {} /\ Succeeded = {}

(* No HTLC travels for free before a payment that bore the fee succeeded    *)
(* (service.rs:118-119).                                                    *)
NoFreeRide ==
  \/ Succeeded # {}
  \/ /\ channel.state # "PaymentForwarded"
     /\ With("outbound") \cup With("claimed") \subseteq UNION fee_payments

(* channel_ready finds a payment to forward whenever the channel was opened *)
(* for one: the error at service.rs:286 is unreachable.                     *)
OpenChannelHasPayment ==
  channel.state = "PendingChannelOpen" =>
    /\ opening # "no"
    /\ position(channel.payment_queue, channel.opening_fee_msat) # 0
    /\ channel.opening_fee_msat < Max({channel.payment_queue[i].total_msat :
                                         i \in DOMAIN channel.payment_queue})

(* The assertion at service.rs:143: without a fixed payment size, the HTLC  *)
(* intercepted in PendingInitialPayment is the only one of its payment.     *)
FirstHTLCIsAlone ==
  registered /\ channel.state = "PendingInitialPayment"
             /\ offer.payment_size_msat = None
    => \A id \in Announced : \A i \in DOMAIN channel.payment_queue :
         channel.payment_queue[i].payment_hash # PaymentHash[id]

(* A successful fee payment ends the skimming: the state becomes            *)
(* PaymentForwarded (service.rs:848-899).                                   *)
FeePaymentSettles ==
  Succeeded # {} ~> channel.state = "PaymentForwarded"

(* Once the fee is paid no HTLC stays held (service.rs:359-371, 257-261),   *)
(* unless forwarding stopped at one that expired.                           *)
HeldHTLCsAreReleased ==
  channel.state = "PaymentForwarded" ~> With("held") = {} \/ ~NoneExpired

(* A payment that opened the channel is not held forever, unless it expired.*)
PendingPaymentsProceed ==
  channel.state \in {"PendingChannelOpen", "PendingPaymentForward"}
    ~> channel.state \in {"PendingPayment", "PaymentForwarded"} \/ ~NoneExpired

(* The channel implements the sequencing promised to the LSP.               *)
Sequencing ==
  INSTANCE FeeSequencing WITH
    paying <- With("outbound") \cap UNION fee_payments,
    paid   <- Succeeded # {},
    free   <- (With("outbound") \cup With("claimed")) \ UNION fee_payments

ImplementsSequencing == Sequencing!Spec

=============================================================================
