---------------------------- MODULE LSPS2Service ----------------------------
(***************************************************************************)
(* The whole LSPS2ServiceHandler: what it keeps for each peer, from the     *)
(* first request to the last HTLC, for several peers and several JIT        *)
(* channels at once.                                                        *)
(*                                                                         *)
(* JITChannel describes one channel as if it were alone.  Here a channel is *)
(* found through five maps, by the intercept scid its HTLCs are sent to, by *)
(* the user_channel_id it is opened with and by the channel_id its results  *)
(* name, and the question is whether each finds the right one.              *)
(*                                                                         *)
(* The application follows the documentation: scids and user_channel_ids    *)
(* are its own and unique, a request is answered while it is pending, each  *)
(* LDK event is passed to its handler, in order.                            *)
(***************************************************************************)
EXTENDS LSPS2Offers, FiniteSets

CONSTANTS Peers,
          Scids,           \* intercept scids the application draws
          UserChannelId,   \* the user_channel_id it draws along with a scid
          OtherChannels,   \* channels opened without LSPS2
          RequestIds,      \* per peer; an answered id may be used again
          Amounts,         \* expected_outbound_amount_msat of an HTLC
          Terms,           \* what the LSP offers, sets valid_until aside
          Validity,        \* how long it offers it
          Sizes,           \* payment_size_msat values clients ask for
          MaxTime,         \* bound: the time of the last second
          MaxEvents,       \* bound: LDK events that wait to be handled
          MayTimeOut       \* HTLCs LDK may fail before they are forwarded

Times == 0..MaxTime

(* LDK names a channel by its channel_id; one is opened per user_channel_id *)
(* and gets it as its name here.                                            *)
JITChannelIds == {UserChannelId[s] : s \in Scids}
ChannelIds == JITChannelIds \cup OtherChannels

(* The terms t, offered until the time v.                                   *)
RawParams(t, v) == [min_fee_msat |-> t.min_fee_msat,
                    proportional |-> t.proportional,
                    min_payment_size_msat |-> t.min_payment_size_msat,
                    max_payment_size_msat |-> t.max_payment_size_msat,
                    valid_until |-> v]

ASSUME LSPS2ServiceAssumption ==
  /\ Amounts \subseteq Nat \ {0}
  /\ \A t \in Terms, v \in Times : RawParams(t, v) \in RawOpeningFeeParams
  /\ Sizes \subseteq Nat \cup {None}
  /\ MaxTime \in Nat /\ Validity \subseteq Nat
  /\ MayTimeOut \subseteq Ids
  /\ UserChannelId \in [Scids -> JITChannelIds]
  /\ \A s, t \in Scids : UserChannelId[s] = UserChannelId[t] => s = t
  /\ IsFiniteSet(OtherChannels) /\ OtherChannels \cap JITChannelIds = {}
  /\ None \notin Scids \cup ChannelIds

VARIABLES
  per_peer_state,          \* PeerState by peer
  peer_by_intercept_scid,
  peer_by_channel_id,
  promised,                \* the fee parameters answered to some client
  pending_events,          \* OpenChannel events the application has to act on
  now,                     \* the system clock
  (* ChannelManager and application *)
  scid,                    \* the scid each HTLC was sent to
  amount,
  htlc,                    \* where each HTLC is, as in JITChannel
  via,                     \* the channel an HTLC was forwarded over
  events,                  \* LDK events not handled yet, oldest first
  channels,                \* the open channels, by channel_id: whose they are
  (* history *)
  bought,                  \* what was bought under a scid, by whom and when
  removed,                 \* the channels that were removed, by scid
  fee_payments             \* the sets of HTLCs forwarded skimming the fee

service == <<per_peer_state, peer_by_intercept_scid, peer_by_channel_id>>
negotiation == <<promised, bought>>
ldk == <<scid, amount, htlc, via, events, channels>>
others == <<pending_events, now, ldk, removed, fee_payments>>
vars == <<service, negotiation, others>>

Empty == [k \in {} |-> None]
Put(map, key, value) == [k \in DOMAIN map \cup {key} |->
                           IF k = key THEN value ELSE map[k]]
Without(map, key) == [k \in DOMAIN map \ {key} |-> map[k]]

PeerState_new == [outbound_channels_by_intercept_scid |-> Empty,
                  intercept_scid_by_user_channel_id |-> Empty,
                  intercept_scid_by_channel_id |-> Empty,
                  pending_requests |-> Empty]

ReadyEvent(c, p) == [type |-> "ChannelReady", channel_id |-> c,
                     counterparty_node_id |-> p]

(* The application also has channels that have nothing to do with LSPS2.    *)
Init == /\ per_peer_state = Empty
        /\ peer_by_intercept_scid = Empty
        /\ peer_by_channel_id = Empty
        /\ promised = {}
        /\ pending_events = {}
        /\ now = 0
        /\ scid = [id \in Ids |-> None]
        /\ amount = [id \in Ids |-> 0]
        /\ htlc = [id \in Ids |-> "unseen"]
        /\ via = [id \in Ids |-> None]
        /\ channels \in [OtherChannels -> Peers]
        /\ LET c == SetToSeq(OtherChannels)
           IN  events = [i \in DOMAIN c |-> ReadyEvent(c[i], channels[c[i]])]
        /\ bought = Empty
        /\ removed = Empty
        /\ fee_payments = {}

-----------------------------------------------------------------------------
(* Requests of the clients and answers of the application.                  *)

(* entry(peer).or_insert(new): the state of a peer, created on its first    *)
(* request.                                                                 *)
entry(p) == IF p \in DOMAIN per_peer_state THEN per_peer_state[p]
            ELSE PeerState_new

AddRequest(p, id, request) ==
  per_peer_state' =
    Put(per_peer_state, p,
        [entry(p) EXCEPT !.pending_requests = Put(@, id, request)])

handle_get_info_request(p, id) ==
  /\ AddRequest(p, id, [method |-> "get_info"])
  /\ UNCHANGED <<peer_by_intercept_scid, peer_by_channel_id, negotiation,
                 others>>

handle_buy_request(p, id, buy) ==
  /\ IF Acceptable(buy, now)
     THEN AddRequest(p, id, [method |-> "buy", buy |-> buy, at |-> now])
     ELSE UNCHANGED per_peer_state
  /\ UNCHANGED <<peer_by_intercept_scid, peer_by_channel_id, negotiation,
                 others>>

Pending(p, id, method) ==
  /\ p \in DOMAIN per_peer_state
  /\ id \in DOMAIN per_peer_state[p].pending_requests
  /\ per_peer_state[p].pending_requests[id].method = method

(* The peer's state once the request is taken out.                          *)
Taken(p, id) == [per_peer_state[p] EXCEPT !.pending_requests = Without(@, id)]

invalid_token_provided(p, id) ==
  /\ Pending(p, id, "get_info")
  /\ per_peer_state' = [per_peer_state EXCEPT ![p] = Taken(p, id)]
  /\ UNCHANGED <<peer_by_intercept_scid, peer_by_channel_id, negotiation,
                 others>>

opening_fee_params_generated(p, id, menu) ==
  /\ Pending(p, id, "get_info")
  /\ per_peer_state' = [per_peer_state EXCEPT ![p] = Taken(p, id)]
  /\ promised' = promised \cup {into_opening_fee_params(raw) : raw \in menu}
  /\ UNCHANGED <<peer_by_intercept_scid, peer_by_channel_id, bought, others>>

(* Mutant of insert_channel: the channel is not found by its user id.       *)
insert_channel_unindexed(state, s, jit) ==
  [state EXCEPT !.outbound_channels_by_intercept_scid = Put(@, s, jit)]

insert_channel(state, s, jit) ==
  [state EXCEPT !.intercept_scid_by_user_channel_id =
                    Put(@, jit.user_channel_id, s),
                !.outbound_channels_by_intercept_scid = Put(@, s, jit)]

OutboundJITChannel_new(buy, user_channel_id) ==
  [channel |-> new, offer |-> OfferOf(buy),
   user_channel_id |-> user_channel_id, channel_id |-> None]

(* Mutant of by_scid: HTLCs for the scid find no peer.                      *)
by_scid_forgotten(s, p) == peer_by_intercept_scid

by_scid(s, p) == Put(peer_by_intercept_scid, s, p)

(* The answer to a buy request creates the JIT channel.                     *)
invoice_parameters_generated(p, id, s) ==
  /\ Pending(p, id, "buy")
  /\ LET request == per_peer_state[p].pending_requests[id]
         jit == OutboundJITChannel_new(request.buy, UserChannelId[s])
     IN  /\ per_peer_state' = [per_peer_state EXCEPT
                                 ![p] = insert_channel(Taken(p, id), s, jit)]
         /\ bought' = Put(bought, s, [peer |-> p, buy |-> request.buy,
                                      at |-> request.at])
  /\ peer_by_intercept_scid' = by_scid(s, p)
  /\ UNCHANGED <<peer_by_channel_id, promised, others>>

-----------------------------------------------------------------------------
(* The handlers of the LDK events.                                          *)

NextEvent(type) == /\ events # <<>>
                   /\ Head(events).type = type
                   /\ events' = Tail(events)

Registered(p, s) ==
  /\ p \in DOMAIN per_peer_state
  /\ s \in DOMAIN per_peer_state[p].outbound_channels_by_intercept_scid

(* The HTLCs forward_intercepted_htlc accepts before it fails for one: it   *)
(* must be held, and the channel be open with that peer.                    *)
Forwardable(ids, p, c) ==
  IF c \notin DOMAIN channels \/ channels[c] # p THEN {}
  ELSE {ids[i] : i \in {k \in 1..Len(ids) :
                          \A j \in 1..k : htlc[ids[j]] = "held"}}

(* The channel of p under s takes the new state, and the HTLCs of the       *)
(* outcome go out over it.                                                  *)
Perform(p, s, state, jit, outcome) ==
  LET out == Forwardable(outcome.htlcs, p, jit.channel_id)
  IN  /\ per_peer_state' = [per_peer_state EXCEPT ![p] =
           [state EXCEPT !.outbound_channels_by_intercept_scid[s] =
                           [jit EXCEPT !.channel = outcome.channel]]]
      /\ htlc' = [id \in Ids |-> IF id \in out THEN "outbound" ELSE htlc[id]]
      /\ via' = [id \in Ids |-> IF id \in out THEN jit.channel_id ELSE via[id]]
      /\ fee_payments' = IF outcome.action = "ForwardPayment" /\ out # {}
                         THEN fee_payments \cup {out} ELSE fee_payments

(* The error path: the HTLC is failed and the channel removed, but for      *)
(* peer_by_intercept_scid; an HTLC LDK no longer holds ends it early.       *)
RejectHTLC(p, s, id, outcome) ==
  /\ IF htlc[id] = "held"
     THEN /\ htlc' = [htlc EXCEPT ![id] = "failed"]
          /\ per_peer_state' = [per_peer_state EXCEPT
               ![p].outbound_channels_by_intercept_scid = Without(@, s)]
          /\ removed' = Put(removed, s, outcome.channel)
     ELSE /\ per_peer_state' = [per_peer_state EXCEPT
               ![p].outbound_channels_by_intercept_scid[s].channel =
                 outcome.channel]
          /\ UNCHANGED <<htlc, removed>>
  /\ UNCHANGED <<via, pending_events, fee_payments>>

AcceptHTLC(p, s, jit, outcome) ==
  /\ Perform(p, s, per_peer_state[p], jit, outcome)
  /\ pending_events' =
       IF outcome.action = "OpenChannel"
       THEN pending_events \cup {[their_network_key |-> p,
                                  user_channel_id |-> jit.user_channel_id]}
       ELSE pending_events
  /\ UNCHANGED removed

HandleHTLCIntercepted ==
  /\ NextEvent("HTLCIntercepted")
  /\ LET id == Head(events).id
         s  == scid[id]
         p  == peer_by_intercept_scid[s]
         jit == per_peer_state[p].outbound_channels_by_intercept_scid[s]
         outcome == htlc_intercepted(jit.channel, jit.offer, id, amount[id])
     IN  IF s \notin DOMAIN peer_by_intercept_scid \/ ~Registered(p, s)
         THEN UNCHANGED <<per_peer_state, htlc, via, pending_events, removed,
                          fee_payments>>
         ELSE IF outcome.action = "Err" THEN RejectHTLC(p, s, id, outcome)
         ELSE AcceptHTLC(p, s, jit, outcome)
  /\ UNCHANGED <<peer_by_intercept_scid, peer_by_channel_id, negotiation, now,
                 scid, amount, channels>>

(* Mutant of index_channel: results will not find the JIT channel.          *)
index_channel_nowhere(state, c) == state

index_channel(state, c) ==
  LET by_user == state.intercept_scid_by_user_channel_id
  IN  IF c \notin DOMAIN by_user THEN state
      ELSE [state EXCEPT !.intercept_scid_by_channel_id =
                           Put(@, c, by_user[c])]

(* The channel is indexed before anything is known of it: this stays also   *)
(* when it turns out to be none of the service's.                           *)
HandleChannelReady ==
  /\ NextEvent("ChannelReady")
  /\ LET c == Head(events).channel_id
         p == Head(events).counterparty_node_id
         state == index_channel(per_peer_state[p], c)
         s == per_peer_state[p].intercept_scid_by_user_channel_id[c]
         jit == per_peer_state[p].outbound_channels_by_intercept_scid[s]
         outcome == channel_ready(jit.channel)
     IN  /\ peer_by_channel_id' = Put(peer_by_channel_id, c, p)
         /\ IF \/ p \notin DOMAIN per_peer_state
               \/ c \notin DOMAIN per_peer_state[p].intercept_scid_by_user_channel_id
            THEN UNCHANGED <<per_peer_state, htlc, via, fee_payments>>
            ELSE IF ~Registered(p, s) \/ outcome.action = "Err"
            THEN /\ per_peer_state' = [per_peer_state EXCEPT ![p] = state]
                 /\ UNCHANGED <<htlc, via, fee_payments>>
            ELSE Perform(p, s, state, [jit EXCEPT !.channel_id = c], outcome)
  /\ UNCHANGED <<peer_by_intercept_scid, negotiation, pending_events, now,
                 scid, amount, channels, removed>>

(* A result names the channel_id; what is not found is ignored, or an error *)
(* for the application that changes nothing.                                *)
HandleResult(type) ==
  /\ NextEvent(type)
  /\ LET c == Head(events).channel_id
         p == peer_by_channel_id[c]
         s == per_peer_state[p].intercept_scid_by_channel_id[c]
         jit == per_peer_state[p].outbound_channels_by_intercept_scid[s]
         outcome == IF type = "PaymentForwarded"
                    THEN payment_forwarded(jit.channel)
                    ELSE htlc_handling_failed(jit.channel)
     IN  IF \/ c \notin DOMAIN peer_by_channel_id
            \/ p \notin DOMAIN per_peer_state
            \/ c \notin DOMAIN per_peer_state[p].intercept_scid_by_channel_id
            \/ ~Registered(p, s)
            \/ outcome.action = "Err"
         THEN UNCHANGED <<per_peer_state, htlc, via, fee_payments>>
         ELSE Perform(p, s, per_peer_state[p], jit, outcome)
  /\ UNCHANGED <<peer_by_intercept_scid, peer_by_channel_id, negotiation,
                 pending_events, now, scid, amount, channels, removed>>

HandleHTLCHandlingFailed == HandleResult("HTLCHandlingFailed")

HandlePaymentForwarded == HandleResult("PaymentForwarded")

-----------------------------------------------------------------------------
(* Clients and application.                                                 *)

Idle(p, id) == p \in DOMAIN per_peer_state =>
                 id \notin DOMAIN per_peer_state[p].pending_requests

PendingRequests(method) ==
  {r \in Peers \X RequestIds : Pending(r[1], r[2], method)}

(* Bound: clients buy as many channels as there are scids.                  *)
Buying == Cardinality(DOMAIN bought) + Cardinality(PendingRequests("buy"))
            < Cardinality(Scids)

(* Bound: one client at a time asks, while nothing valid is promised.       *)
AskForMenu(p, id) == /\ Idle(p, id)
                     /\ \A params \in promised : params.raw.valid_until < now
                     /\ PendingRequests("get_info") = {}
                     /\ Buying
                     /\ handle_get_info_request(p, id)

(* The application offers its terms for some time.                          *)
OfferMenu(p, id) ==
  \E v \in Validity :
    opening_fee_params_generated(
      p, id, {RawParams(t, now + v) : t \in Terms})

(* A client sends back parameters it was promised, or others with their     *)
(* promise.  It need not have asked: the promise is not bound to a client,  *)
(* and the LSP may have been restarted since.                               *)
Buy(p, id) ==
  /\ Idle(p, id)
  /\ Buying
  /\ \E size \in Sizes, t \in Terms, v \in Times, params \in promised :
         handle_buy_request(p, id,
           BuyRequest([params EXCEPT !.raw = RawParams(t, v)], size))

GiveInvoice(p, id) == \E s \in Scids \ DOMAIN bought :
                        invoice_parameters_generated(p, id, s)

Emit(event) == /\ Len(events) < MaxEvents
               /\ events' = Append(events, event)

Ready(c, p) == /\ channels' = Put(channels, c, p)
               /\ Emit(ReadyEvent(c, p))

(* The application opens the channel it was asked for, and LDK reports it.  *)
OpenChannel ==
  /\ \E e \in pending_events :
       /\ pending_events' = pending_events \ {e}
       /\ Ready(e.user_channel_id, e.their_network_key)
  /\ UNCHANGED <<service, negotiation, now, scid, amount, htlc, via, removed,
                 fee_payments>>

Tick == /\ now < MaxTime
        /\ now' = now + 1
        /\ UNCHANGED <<service, negotiation, pending_events, ldk, removed,
                       fee_payments>>

-----------------------------------------------------------------------------
(* Senders and recipients.                                                  *)

hop == <<service, negotiation, pending_events, now, channels, removed,
         fee_payments>>

(* An HTLC for a scid some client was given arrives; the HTLCs of a payment *)
(* are for the same scid.                                                   *)
Receive(id) ==
  /\ htlc[id] = "unseen"
  /\ \E s \in DOMAIN bought, a \in Amounts :
       /\ \A part \in Ids : PaymentHash[part] = PaymentHash[id] =>
                              scid[part] \in {None, s}
       /\ scid' = [scid EXCEPT ![id] = s]
       /\ amount' = [amount EXCEPT ![id] = a]
  /\ htlc' = [htlc EXCEPT ![id] = "held"]
  /\ Emit([type |-> "HTLCIntercepted", id |-> id])
  /\ UNCHANGED <<hop, via>>

(* The parts of a payment; without a fixed size each HTLC is a payment.     *)
Parts(id) ==
  IF bought[scid[id]].buy.payment_size_msat = None THEN {id}
  ELSE {part \in Ids : PaymentHash[part] = PaymentHash[id]}

Result(id, status, type) ==
  /\ htlc' = [htlc EXCEPT ![id] = status]
  /\ Emit([type |-> type, channel_id |-> via[id]])
  /\ UNCHANGED <<hop, scid, amount, via>>

Claim(id) ==
  /\ htlc[id] = "outbound"
  /\ \A part \in Parts(id) : htlc[part] \in {"outbound", "claimed"}
  /\ Result(id, "claimed", "PaymentForwarded")

FailBack(id) ==
  /\ htlc[id] = "outbound"
  /\ \A part \in Parts(id) : htlc[part] # "claimed"
  /\ Result(id, "failed", "HTLCHandlingFailed")

TimeOut(id) ==
  /\ id \in MayTimeOut
  /\ htlc[id] = "held"
  /\ htlc' = [htlc EXCEPT ![id] = "expired"]
  /\ UNCHANGED <<hop, scid, amount, via, events>>

(* HTLCs over other channels succeed and fail.  Bound: their results do not *)
(* queue up with other events.                                              *)
OtherResult(c, type) ==
  /\ events = <<>>
  /\ Emit([type |-> type, channel_id |-> c])
  /\ UNCHANGED <<hop, scid, amount, htlc, via>>

-----------------------------------------------------------------------------
Negotiate(p, id) == \/ AskForMenu(p, id)
                    \/ invalid_token_provided(p, id)
                    \/ OfferMenu(p, id)
                    \/ Buy(p, id)
                    \/ GiveInvoice(p, id)

HandleEvent == \/ HandleHTLCIntercepted
               \/ HandleChannelReady
               \/ HandleHTLCHandlingFailed
               \/ HandlePaymentForwarded

Next == \/ \E p \in Peers, id \in RequestIds : Negotiate(p, id)
        \/ HandleEvent
        \/ OpenChannel
        \/ \E c \in OtherChannels :
             OtherResult(c, "PaymentForwarded")
        \/ \E id \in Ids : Receive(id) \/ Claim(id) \/ FailBack(id) \/ TimeOut(id)
        \/ Tick

Spec == Init /\ [][Next]_vars

-----------------------------------------------------------------------------
(* Properties.                                                              *)

Jit(s) == per_peer_state[bought[s].peer].outbound_channels_by_intercept_scid[s]

IsMap(f, keys, values) == DOMAIN f \subseteq keys /\ \A k \in DOMAIN f : f[k] \in values

PeerStateOK(state) ==
  /\ \A s \in DOMAIN state.outbound_channels_by_intercept_scid :
       LET jit == state.outbound_channels_by_intercept_scid[s]
       IN  /\ s \in Scids
           /\ jit.channel \in Channel
           /\ ValidOffer(jit.offer)
           /\ jit.user_channel_id \in JITChannelIds
           /\ jit.channel_id \in {None, jit.user_channel_id}
  /\ IsMap(state.intercept_scid_by_user_channel_id, JITChannelIds, Scids)
  /\ IsMap(state.intercept_scid_by_channel_id, JITChannelIds, Scids)
  /\ DOMAIN state.pending_requests \subseteq RequestIds

TypeOK ==
  /\ DOMAIN per_peer_state \subseteq Peers
  /\ \A p \in DOMAIN per_peer_state : PeerStateOK(per_peer_state[p])
  /\ IsMap(peer_by_intercept_scid, Scids, Peers)
  /\ IsMap(peer_by_channel_id, ChannelIds, Peers)
  /\ IsMap(channels, ChannelIds, Peers)
  /\ now \in Times
  /\ scid \in [Ids -> Scids \cup {None}]
  /\ amount \in [Ids -> Amounts \cup {0}]
  /\ via \in [Ids -> JITChannelIds \cup {None}]

(* The scids with a channel.                                                *)
Live == DOMAIN bought \ DOMAIN removed

(* The offer a channel was created for had been made by the LSP, unaltered, *)
(* was still valid when the buy request came and fits its payment size      *)
(* (service.rs:1000-1088).                                                  *)
BoughtOffersWereMade ==
  \A s \in DOMAIN bought :
    LET b == bought[s]
    IN  /\ b.buy.opening_fee_params \in promised
        /\ b.at <= b.buy.opening_fee_params.raw.valid_until
        /\ ValidOffer(OfferOf(b.buy))

Leads(map, key, value) == key \in DOMAIN map /\ map[key] = value

(* Each scid leads to the channel that was bought under it, and the results *)
(* of each HTLC that was forwarded lead to the channel it was sent to       *)
(* (service.rs:456-468, 623-645, 784-795, 852-864, 911-925).                *)
HTLCsFindTheirChannel ==
  /\ \A s \in Live : /\ Leads(peer_by_intercept_scid, s, bought[s].peer)
                     /\ Registered(bought[s].peer, s)
                     /\ Jit(s).user_channel_id = UserChannelId[s]
  /\ \A id \in Ids : via[id] # None =>
       LET p == bought[scid[id]].peer
       IN  /\ Registered(p, scid[id])
           /\ via[id] = Jit(scid[id]).channel_id
           /\ Leads(peer_by_channel_id, via[id], p)
           /\ Leads(per_peer_state[p].intercept_scid_by_channel_id, via[id], scid[id])

(* A channel that is removed takes no other HTLC with it that is still held *)
(* (service.rs:747-758: the queue is dropped with the channel).             *)
RemovalStrandsNothing ==
  [][\A s \in DOMAIN removed' \ DOMAIN removed :
       \A id \in QueuedIds(removed'[s].payment_queue) : htlc'[id] # "held"]_vars

(* Every HTLC LDK holds waits in the queue of its channel or for its event  *)
(* to be handled.  One is left behind only when another HTLC for the same   *)
(* scid made the service remove the channel (service.rs:754 leaves the scid *)
(* known, so that it is not even failed) or expired before it could be      *)
(* forwarded (the ? at 743, 816, 870, 941), never through another channel.  *)
HeldHTLCsAreOwned ==
  \A id \in Ids : htlc[id] = "held" =>
    \/ \E i \in DOMAIN events : events[i] = [type |-> "HTLCIntercepted", id |-> id]
    \/ scid[id] \in DOMAIN removed
    \/ id \in QueuedIds(Jit(scid[id]).channel.payment_queue)
    \/ \E other \in Ids : scid[other] = scid[id] /\ htlc[other] = "expired"
=============================================================================
