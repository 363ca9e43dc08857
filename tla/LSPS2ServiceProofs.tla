------------------------- MODULE LSPS2ServiceProofs -------------------------
(***************************************************************************)
(* Theorems about the whole LSPS2ServiceHandler, for any peers, scids,      *)
(* offers and HTLCs: which channel the five maps lead to, which offers      *)
(* become channels and what may leave an HTLC behind.                       *)
(*                                                                         *)
(* There is one invariant, IInv, for all of them.  Every handler ends in    *)
(* one of three ways, each with a lemma: a channel performs what its state  *)
(* machine said (PerformKeepsInv), a channel is removed (RemovalKeepsInv),  *)
(* or no channel changes (KeptChannels and KeptHTLCs).                      *)
(***************************************************************************)
EXTENDS LSPS2Service, OutboundJITChannelProofs, FiniteSetTheorems

-----------------------------------------------------------------------------
(* The inductive invariant.                                                 *)

PeerStateFields ==
  {"outbound_channels_by_intercept_scid", "intercept_scid_by_user_channel_id",
   "intercept_scid_by_channel_id", "pending_requests"}

JitFields == {"channel", "offer", "user_channel_id", "channel_id"}

Events ==
  [type : {"HTLCIntercepted"}, id : Ids]
    \cup [type : {"ChannelReady"}, channel_id : ChannelIds,
          counterparty_node_id : Peers]
    \cup [type : {"PaymentForwarded", "HTLCHandlingFailed"},
          channel_id : ChannelIds \cup {None}]

Statuses == {"unseen", "held", "outbound", "claimed", "failed", "expired"}

(* The maps of a peer.                                                      *)
Outs(p) == per_peer_state[p].outbound_channels_by_intercept_scid
ByUser(p) == per_peer_state[p].intercept_scid_by_user_channel_id
ByChannel(p) == per_peer_state[p].intercept_scid_by_channel_id
Requests(p) == per_peer_state[p].pending_requests

(* The service has for each peer the maps it started with.                  *)
PeersOK ==
  /\ DOMAIN per_peer_state \subseteq Peers
  /\ \A p \in DOMAIN per_peer_state : DOMAIN per_peer_state[p] = PeerStateFields

EnvironmentOK ==
  /\ IsMap(peer_by_channel_id, ChannelIds, Peers)
  /\ IsMap(channels, ChannelIds, Peers)
  /\ now \in Times
  /\ scid \in [Ids -> Scids \cup {None}]
  /\ amount \in [Ids -> Amounts \cup {0}]
  /\ htlc \in [Ids -> Statuses]
  /\ via \in [Ids -> JITChannelIds \cup {None}]
  /\ events \in Seq(Events)

(* What may be bought at a time: an offer that was made and is valid.       *)
Bargain(buy, at) ==
  /\ buy.opening_fee_params \in promised
  /\ at \in Times /\ at <= buy.opening_fee_params.raw.valid_until
  /\ OfferOf(buy) \in Offer /\ ValidOffer(OfferOf(buy))

PromisesOK ==
  \A params \in promised :
    \E raw \in RawOpeningFeeParams : params = into_opening_fee_params(raw)

RequestsOK ==
  \A p \in DOMAIN per_peer_state :
    /\ DOMAIN Requests(p) \subseteq RequestIds
    /\ \A id \in DOMAIN Requests(p) : Requests(p)[id].method = "buy" =>
         Bargain(Requests(p)[id].buy, Requests(p)[id].at)

PurchasesOK ==
  /\ DOMAIN bought \subseteq Scids
  /\ \A s \in DOMAIN bought : /\ bought[s].peer \in Peers
                              /\ Bargain(bought[s].buy, bought[s].at)
  /\ DOMAIN removed \subseteq DOMAIN bought

(* The channels of a peer are those it bought; the maps lead where their    *)
(* names say.                                                               *)
IndexesOK ==
  \A p \in DOMAIN per_peer_state :
    /\ \A s \in DOMAIN Outs(p) : s \in Live /\ bought[s].peer = p
    /\ \A c \in DOMAIN ByUser(p) :
         ByUser(p)[c] \in Scids /\ c = UserChannelId[ByUser(p)[c]]
    /\ \A c \in DOMAIN ByChannel(p) :
         ByChannel(p)[c] \in Scids /\ c = UserChannelId[ByChannel(p)[c]]

(* Every scid leads to its buyer.                                           *)
ScidsOK ==
  /\ DOMAIN peer_by_intercept_scid = DOMAIN bought
  /\ \A s \in DOMAIN bought : peer_by_intercept_scid[s] = bought[s].peer

Forwarding == {"PendingPaymentForward", "PendingPayment", "PaymentForwarded"}

(* A channel has an id once it forwards, and is then found by it.           *)
JitFits(s, jit) ==
  /\ DOMAIN jit = JitFields
  /\ jit.channel \in Channel
  /\ jit.offer = OfferOf(bought[s].buy)
  /\ jit.user_channel_id = UserChannelId[s]
  /\ jit.channel_id \in {None, UserChannelId[s]}
  /\ jit.channel.state \in Forwarding => jit.channel_id # None

Found(p, s) ==
  /\ Leads(channels, UserChannelId[s], p)
  /\ Leads(peer_by_channel_id, UserChannelId[s], p)
  /\ p \in DOMAIN per_peer_state /\ Leads(ByChannel(p), UserChannelId[s], s)

JitOK(s) ==
  /\ Registered(bought[s].peer, s)
  /\ JitFits(s, Jit(s))
  /\ Jit(s).channel_id # None => Found(bought[s].peer, s)

ChannelsOK == \A s \in Live : JitOK(s)

(* A channel named like that of a scid is opened with the buyer.            *)
OpeningsOK ==
  /\ \A e \in pending_events : \E s \in DOMAIN bought :
       e = [their_network_key |-> bought[s].peer, user_channel_id |-> UserChannelId[s]]
  /\ \A s \in Scids : UserChannelId[s] \in DOMAIN channels =>
       s \in DOMAIN bought /\ channels[UserChannelId[s]] = bought[s].peer
  /\ \A i \in DOMAIN events : events[i].type = "ChannelReady" =>
       Leads(channels, events[i].channel_id, events[i].counterparty_node_id)

(* An HTLC goes out over its channel, which is never removed then.          *)
ForwardsOK ==
  \A id \in Ids : via[id] # None =>
    /\ scid[id] \in Live
    /\ via[id] = Jit(scid[id]).channel_id
    /\ Jit(scid[id]).channel.state # "PendingInitialPayment"

ServiceInv ==
  /\ PeersOK /\ EnvironmentOK /\ PromisesOK /\ RequestsOK /\ PurchasesOK
  /\ IndexesOK /\ ScidsOK /\ ChannelsOK /\ OpeningsOK /\ ForwardsOK

(* HTLCs that wait for their event to be handled.                           *)
Announces(i, id) == events[i] = [type |-> "HTLCIntercepted", id |-> id]

Announced == {id \in Ids : \E i \in DOMAIN events : Announces(i, id)}

AnnouncedOnce ==
  \A id \in Ids, i, j \in DOMAIN events : Announces(i, id) /\ Announces(j, id) => i = j

Queue(s) == Jit(s).channel.payment_queue

Waits(id) == htlc[id] \in {"held", "expired"}

(* An HTLC that arrived is for a scid that was bought, and waits at one     *)
(* place until it is forwarded, fails or is left behind.                    *)
HTLCsOK ==
  /\ \A id \in Ids : htlc[id] # "unseen" => scid[id] \in DOMAIN bought
  /\ AnnouncedOnce
  /\ \A id \in Announced : Waits(id)
  /\ \A s \in Live : \A id \in QueuedIds(Queue(s)) :
       scid[id] = s /\ Waits(id) /\ id \notin Announced

(* The queues.                                                              *)
QueuesOK ==
  \A s \in Live :
    /\ WellFormed(Queue(s), amount)
    /\ Jit(s).channel.state = "PendingChannelOpen" => CanPay(Jit(s).channel)
    /\ Jit(s).channel.state = "PendingInitialPayment" /\ Jit(s).offer.payment_size_msat = None
         => \A id \in QueuedIds(Queue(s)) : htlc[id] # "held"

IInv == ServiceInv /\ HTLCsOK /\ QueuesOK /\ HeldHTLCsAreOwned

-----------------------------------------------------------------------------
(* Maps.                                                                    *)

(* HashMap::insert (service.rs:626, 635, 639, 912, 923): the key leads to   *)
(* the new value, every other key where it led.                             *)
LEMMA PutMaps ==
  ASSUME NEW map, NEW k, NEW v
  PROVE  /\ DOMAIN Put(map, k, v) = DOMAIN map \cup {k}
         /\ Put(map, k, v)[k] = v
         /\ \A j \in DOMAIN map : j # k => Put(map, k, v)[j] = map[j]
  BY DEF Put

(* HashMap::remove (service.rs:506, 750): only the key is gone.             *)
LEMMA WithoutMaps ==
  ASSUME NEW map, NEW k
  PROVE  /\ DOMAIN Without(map, k) = DOMAIN map \ {k}
         /\ \A j \in DOMAIN map \ {k} : Without(map, k)[j] = map[j]
  BY DEF Without

(* A map that is new has no keys.                                           *)
LEMMA EmptyMaps == DOMAIN Empty = {}
  BY DEF Empty

(* The state of a new peer has four empty maps (service.rs:437-449).        *)
LEMMA NewPeerMaps ==
  /\ DOMAIN PeerState_new = PeerStateFields
  /\ DOMAIN PeerState_new.outbound_channels_by_intercept_scid = {}
  /\ DOMAIN PeerState_new.intercept_scid_by_user_channel_id = {}
  /\ DOMAIN PeerState_new.intercept_scid_by_channel_id = {}
  /\ DOMAIN PeerState_new.pending_requests = {}
  BY EmptyMaps DEF PeerState_new, PeerStateFields

(* An entry of the right type keeps the type of a map.                      *)
LEMMA PutKeepsMap ==
  ASSUME NEW map, NEW keys, NEW values, IsMap(map, keys, values),
         NEW k \in keys, NEW v \in values
  PROVE  IsMap(Put(map, k, v), keys, values)
  BY DEF Put, IsMap

(* What a map said of a key stays true when the key gets the same value     *)
(* again, or another key gets any.                                          *)
LEMMA PutLeads ==
  ASSUME NEW map, NEW k, NEW v, NEW j, NEW w, Leads(map, j, w), j = k => w = v
  PROVE  Leads(Put(map, k, v), j, w)
  BY DEF Put, Leads

-----------------------------------------------------------------------------
(* The methods of a channel.                                                *)

(* A channel that forwards does not stop doing so, and only then it names   *)
(* HTLCs to forward.                                                        *)
Forwards(o) == o.htlcs # <<>> => o.channel.state \in Forwarding

(* Popping a payment begins to forward it, or leaves what was to be done    *)
(* otherwise (service.rs:228-256, 266-324).                                 *)
LEMMA PopForwards ==
  ASSUME NEW c \in Channel, NEW otherwise
  PROVE  LET o == PopAndForward(c, otherwise)
         IN  o = otherwise \/ o.channel.state = "PendingPaymentForward"
  BY DEF PopAndForward, Outcome, Channel

(* A channel does not begin to forward because an HTLC arrived, and refuses *)
(* one only before it was opened (service.rs:130-262).                      *)
LEMMA InterceptedForwards ==
  ASSUME NEW c \in Channel, NEW an_offer \in Offer,
         NEW id \in Ids, NEW amount_msat \in Nat
  PROVE  LET o == htlc_intercepted(c, an_offer, id, amount_msat)
         IN  /\ Forwards(o)
             /\ o.channel.state \in Forwarding => c.state \in Forwarding
             /\ o.action = "Err" => c.state = "PendingInitialPayment"
<1> DEFINE queued == [c EXCEPT !.payment_queue = add_htlc(@, id, amount_msat)]
           o == htlc_intercepted(c, an_offer, id, amount_msat)
<1>1. CASE c.state = "PendingInitialPayment"
  <2>1. o = initial_htlc_intercepted(c, an_offer, id, amount_msat)
    BY <1>1 DEF htlc_intercepted
  <2>2. o.htlcs = <<>> /\ o.channel.state \in {"PendingInitialPayment", "PendingChannelOpen"}
    <3> DEFINE queue == add_htlc(c.payment_queue, id, amount_msat)
               payment == queue[find(queue, PaymentHash[id])]
               mpp_mode == an_offer.payment_size_msat # None
               size == IF mpp_mode THEN an_offer.payment_size_msat
                       ELSE payment.total_msat
               fee == compute_opening_fee(size, an_offer.min_fee_msat,
                                          an_offer.proportional)
               opened == [queued EXCEPT !.state = "PendingChannelOpen",
                                        !.opening_fee_msat = fee]
    <3>1. o \in {Err(queued), Stay(queued), Outcome(opened, "OpenChannel", <<>>)}
      <4> HIDE DEF queued
      <4>1. queued = [c EXCEPT !.payment_queue = queue]
        BY DEF queued
      <4> HIDE DEF queue, payment, fee, size, mpp_mode
      <4> QED
        BY <2>1, <4>1 DEF initial_htlc_intercepted, opened, queue, payment, fee, size, mpp_mode
    <3>2. queued.state = "PendingInitialPayment" /\ opened.state = "PendingChannelOpen"
      BY <1>1 DEF Channel
    <3> HIDE DEF queued, opened
    <3> QED
      BY <3>1, <3>2 DEF Err, Stay, Outcome
  <2> QED
    BY <1>1, <2>2 DEF Forwards, Forwarding
<1>2. CASE c.state # "PendingInitialPayment"
  <2>1. queued \in Channel /\ queued.state = c.state
    BY AddKeepsQueue, QueueUpdated DEF Channel
  <2>2. CASE c.state \in {"PendingChannelOpen", "PendingPaymentForward"}
    <3>1. o = Stay(queued)
      BY <2>2 DEF htlc_intercepted, WhileForwarding
    <3> HIDE DEF queued
    <3> QED
      BY <2>1, <2>2, <3>1 DEF Stay, Outcome, Forwards, Forwarding
  <2>3. CASE c.state = "PendingPayment"
    <3>1. o = PopAndForward(queued, Stay(queued))
      BY <2>3 DEF htlc_intercepted
    <3> HIDE DEF queued
    <3>2. o = Stay(queued) \/ o.channel.state = "PendingPaymentForward"
      BY <2>1, <3>1, PopForwards
    <3>3. o.action # "Err"
      BY <3>1 DEF PopAndForward, Stay, Outcome
    <3> QED
      BY <2>1, <2>3, <3>2, <3>3 DEF Stay, Outcome, Forwards, Forwarding
  <2>4. CASE c.state = "PaymentForwarded"
    <3>1. o = Outcome(c, "ForwardHTLCs", <<id>>)
      BY <2>4 DEF htlc_intercepted
    <3> QED
      BY <2>4, <3>1 DEF Outcome, Forwards, Forwarding
  <2> QED
    BY <1>2, <2>2, <2>3, <2>4 DEF Channel, States
<1> QED
  BY <1>1, <1>2

(* A channel that becomes ready forwards its first payment                  *)
(* (service.rs:266-297).                                                    *)
LEMMA ReadyForwards ==
  ASSUME NEW c \in Channel
  PROVE  LET o == channel_ready(c)
         IN  o.action = "Err" \/ o.channel.state = "PendingPaymentForward"
<1>1. Err(c).action = "Err"
  BY DEF Err, Outcome
<1> QED
  BY <1>1, PopForwards DEF channel_ready

(* A failure is heeded only by a channel that forwards, and does not end    *)
(* that (service.rs:299-353).                                               *)
LEMMA FailedForwards ==
  ASSUME NEW c \in Channel
  PROVE  LET o == htlc_handling_failed(c)
         IN  \/ o.action = "Err"
             \/ c.state \in Forwarding /\ o.channel.state \in Forwarding
<1> DEFINE o == htlc_handling_failed(c)
           idle == [c EXCEPT !.state = "PendingPayment"]
<1>1. CASE c.state = "PendingPaymentForward"
  <2>1. o = PopAndForward(c, Stay(idle))
    BY <1>1 DEF htlc_handling_failed
  <2>2. idle.state = "PendingPayment"
    BY DEF Channel
  <2> HIDE DEF idle
  <2> QED
    BY <1>1, <2>1, <2>2, PopForwards DEF Stay, Outcome, Forwarding
<1>2. CASE c.state \in {"PendingPayment", "PaymentForwarded"}
  BY <1>2 DEF htlc_handling_failed, Stay, Outcome, Forwarding
<1>3. CASE c.state \in {"PendingInitialPayment", "PendingChannelOpen"}
  BY <1>3 DEF htlc_handling_failed, Err, Outcome
<1> QED
  BY <1>1, <1>2, <1>3 DEF Channel, States

(* So is a success (service.rs:355-378).                                    *)
LEMMA ForwardedForwards ==
  ASSUME NEW c \in Channel
  PROVE  LET o == payment_forwarded(c)
         IN  \/ o.action = "Err"
             \/ c.state \in Forwarding /\ o.channel.state \in Forwarding
<1> DEFINE o == payment_forwarded(c)
           next == [c EXCEPT !.state = "PaymentForwarded", !.payment_queue = <<>>]
<1>1. CASE c.state = "PendingPaymentForward"
  <2>1. o = Outcome(next, "ForwardHTLCs", clear(c.payment_queue))
    BY <1>1 DEF payment_forwarded
  <2>2. next.state = "PaymentForwarded"
    BY DEF Channel
  <2> HIDE DEF next
  <2> QED
    BY <1>1, <2>1, <2>2 DEF Outcome, Forwarding
<1>2. CASE c.state = "PaymentForwarded"
  BY <1>2 DEF payment_forwarded, Stay, Outcome, Forwarding
<1>3. CASE c.state \notin {"PendingPaymentForward", "PaymentForwarded"}
  BY <1>3 DEF payment_forwarded, Err, Outcome
<1> QED
  BY <1>1, <1>2, <1>3

(* A valid offer with a fixed payment size is never the reason to refuse an *)
(* HTLC (service.rs:147-203).                                               *)
LEMMA FixedSizeIsAccepted ==
  ASSUME NEW c \in Channel, NEW an_offer \in Offer, ValidOffer(an_offer),
         an_offer.payment_size_msat # None,
         NEW id \in Ids, NEW amount_msat \in Nat
  PROVE  htlc_intercepted(c, an_offer, id, amount_msat).action # "Err"
<1>1. CASE c.state = "PendingInitialPayment"
  <2> DEFINE queue == add_htlc(c.payment_queue, id, amount_msat)
             payment == queue[find(queue, PaymentHash[id])]
             size == an_offer.payment_size_msat
             fee == compute_opening_fee(size, an_offer.min_fee_msat,
                                        an_offer.proportional)
             queued == [c EXCEPT !.payment_queue = queue]
             opened == [queued EXCEPT !.state = "PendingChannelOpen",
                                      !.opening_fee_msat = fee]
  <2>1. /\ ~(size < an_offer.min_payment_size_msat)
        /\ ~(size > an_offer.max_payment_size_msat)
        /\ fee # None
    BY DEF ValidOffer, Offer
  <2>2. htlc_intercepted(c, an_offer, id, amount_msat)
          \in {Stay(queued), Outcome(opened, "OpenChannel", <<>>)}
    <3>1. htlc_intercepted(c, an_offer, id, amount_msat)
            = initial_htlc_intercepted(c, an_offer, id, amount_msat)
      BY <1>1 DEF htlc_intercepted
    <3> HIDE DEF queue
    <3> QED
      BY <2>1, <3>1 DEF initial_htlc_intercepted, Exceeds, queue
  <2> HIDE DEF queued, opened
  <2> QED
    BY <2>2 DEF Stay, Outcome
<1>2. CASE c.state # "PendingInitialPayment"
  BY <1>2, InterceptedForwards
<1> QED
  BY <1>1, <1>2

-----------------------------------------------------------------------------
(* One channel changes.                                                     *)

(* The channel ids of scids.                                                *)
LEMMA UserChannelIds ==
  /\ \A s \in Scids : UserChannelId[s] \in JITChannelIds /\ UserChannelId[s] # None
  /\ \A s, t \in Scids : UserChannelId[s] = UserChannelId[t] => s = t
  /\ JITChannelIds \subseteq ChannelIds /\ None \notin ChannelIds
  /\ \A c \in OtherChannels : c \notin JITChannelIds
  /\ \A c \in JITChannelIds : \E s \in Scids : c = UserChannelId[s]
  BY LSPS2ServiceAssumption DEF JITChannelIds, ChannelIds

(* A registered channel is the one that was bought.                         *)
LEMMA RegisteredIsLive ==
  ASSUME ServiceInv, NEW p, NEW s, Registered(p, s)
  PROVE  /\ s \in Live /\ s \in Scids /\ p = bought[s].peer /\ p \in Peers
         /\ p \in DOMAIN per_peer_state /\ s \in DOMAIN Outs(p)
         /\ Jit(s) = Outs(p)[s] /\ JitOK(s)
  BY DEF ServiceInv, IndexesOK, ChannelsOK, PeersOK, PurchasesOK, Registered, Jit, Outs, Live

(* A channel that was bought and not removed is found at its buyer.         *)
LEMMA LiveIsRegistered ==
  ASSUME ServiceInv, NEW s \in Live
  PROVE  /\ Registered(bought[s].peer, s) /\ s \in Scids
         /\ bought[s].peer \in DOMAIN per_peer_state
         /\ s \in DOMAIN Outs(bought[s].peer)
         /\ Jit(s) = Outs(bought[s].peer)[s] /\ JitOK(s)
  BY DEF ServiceInv, ChannelsOK, JitOK, PurchasesOK, Registered, Jit, Outs, Live

(* The channel of p under s becomes jit, and may be indexed.                *)
Becomes(p, s, jit) ==
  /\ DOMAIN per_peer_state' = DOMAIN per_peer_state
  /\ \A q \in DOMAIN per_peer_state :
       /\ DOMAIN per_peer_state'[q] = DOMAIN per_peer_state[q]
       /\ DOMAIN Outs(q)' = DOMAIN Outs(q)
       /\ \A t \in DOMAIN Outs(q) :
            Outs(q)'[t] = IF q = p /\ t = s THEN jit ELSE Outs(q)[t]
       /\ ByUser(q)' = ByUser(q) /\ Requests(q)' = Requests(q)
       /\ ByChannel(q)' \in {ByChannel(q), Put(ByChannel(q), UserChannelId[s], s)}

(* The maps fit together after one channel has changed: an entry of         *)
(* intercept_scid_by_channel_id that is added leads where the others of its *)
(* channel id did.                                                          *)
LEMMA BecomesKeeps ==
  ASSUME PeersOK, RequestsOK, PurchasesOK, PromisesOK, IndexesOK,
         NEW p, NEW s \in Scids, NEW jit, Becomes(p, s, jit),
         UNCHANGED <<bought, removed, promised>>
  PROVE  PeersOK' /\ RequestsOK' /\ PurchasesOK' /\ PromisesOK' /\ IndexesOK'
<1>1. PeersOK'
  BY DEF PeersOK, Becomes
<1>2. RequestsOK'
  BY DEF RequestsOK, Becomes, Bargain
<1>3. PurchasesOK' /\ PromisesOK'
  BY DEF PurchasesOK, PromisesOK, Bargain
<1>4. IndexesOK'
  <2> SUFFICES ASSUME NEW q \in DOMAIN per_peer_state
               PROVE  /\ \A t \in DOMAIN Outs(q)' : t \in Live' /\ bought'[t].peer = q
                      /\ \A c \in DOMAIN ByUser(q)' :
                           ByUser(q)'[c] \in Scids /\ c = UserChannelId[ByUser(q)'[c]]
                      /\ \A c \in DOMAIN ByChannel(q)' :
                           ByChannel(q)'[c] \in Scids /\ c = UserChannelId[ByChannel(q)'[c]]
    BY DEF IndexesOK, Becomes
  <2>1. \A t \in DOMAIN Outs(q)' : t \in Live' /\ bought'[t].peer = q
    BY DEF IndexesOK, Becomes, Live
  <2>2. \A c \in DOMAIN ByUser(q)' :
          ByUser(q)'[c] \in Scids /\ c = UserChannelId[ByUser(q)'[c]]
    BY DEF IndexesOK, Becomes
  <2>3. \A c \in DOMAIN ByChannel(q)' :
          ByChannel(q)'[c] \in Scids /\ c = UserChannelId[ByChannel(q)'[c]]
    <3>1. CASE ByChannel(q)' = ByChannel(q)
      BY <3>1 DEF IndexesOK
    <3>2. CASE ByChannel(q)' = Put(ByChannel(q), UserChannelId[s], s)
      <4> DEFINE map == Put(ByChannel(q), UserChannelId[s], s)
      <4>1. \A c \in DOMAIN map :
              \/ map[c] = s /\ c = UserChannelId[s]
              \/ c \in DOMAIN ByChannel(q) /\ map[c] = ByChannel(q)[c]
        BY DEF Put
      <4> HIDE DEF map
      <4>2. ByChannel(q)' = map
        BY <3>2 DEF map
      <4>3. \A c \in DOMAIN ByChannel(q) :
              ByChannel(q)[c] \in Scids /\ c = UserChannelId[ByChannel(q)[c]]
        BY DEF IndexesOK
      <4> QED
        BY <4>1, <4>2, <4>3
    <3> QED
      BY <3>1, <3>2 DEF Becomes
  <2> QED
    BY <2>1, <2>2, <2>3
<1> QED
  BY <1>1, <1>2, <1>3, <1>4

(* What the other channels become.                                          *)
LEMMA OthersStay ==
  ASSUME ServiceInv, NEW s \in Live, NEW jit, Becomes(bought[s].peer, s, jit),
         UNCHANGED <<bought, removed>>
  PROVE  /\ Live' = Live /\ Jit(s)' = jit
         /\ \A t \in Live : t # s => Jit(t)' = Jit(t)
         /\ \A t \in Live : Registered(bought[t].peer, t)'
         /\ \A q, c, t : q \in DOMAIN per_peer_state /\ Leads(ByChannel(q), c, t) =>
              q \in DOMAIN per_peer_state' /\ Leads(ByChannel(q), c, t)'
<1>1. Live' = Live
  BY DEF Live
<1>2. ASSUME NEW t \in Live
      PROVE  /\ Registered(bought[t].peer, t)'
             /\ Jit(t)' = IF t = s THEN jit ELSE Jit(t)
  <2>1. /\ bought[t].peer \in DOMAIN per_peer_state /\ t \in DOMAIN Outs(bought[t].peer)
        /\ Jit(t) = Outs(bought[t].peer)[t]
    BY LiveIsRegistered
  <2> QED
    BY <2>1 DEF Becomes, Registered, Jit, Outs
<1>3. ASSUME NEW q \in DOMAIN per_peer_state, NEW c, NEW t, Leads(ByChannel(q), c, t)
      PROVE  q \in DOMAIN per_peer_state' /\ Leads(ByChannel(q), c, t)'
  <2>1. q \in DOMAIN per_peer_state'
    BY DEF Becomes
  <2>2. CASE ByChannel(q)' = ByChannel(q)
    BY <1>3, <2>1, <2>2 DEF Leads
  <2>3. CASE ByChannel(q)' = Put(ByChannel(q), UserChannelId[s], s)
    <3>1. t \in Scids /\ c = UserChannelId[t] /\ s \in Scids
      BY <1>3, LiveIsRegistered DEF ServiceInv, IndexesOK, Leads
    <3>2. c = UserChannelId[s] => t = s
      BY <3>1, UserChannelIds
    <3>3. Leads(Put(ByChannel(q), UserChannelId[s], s), c, t)
      BY <1>3, <3>2, PutLeads
    <3> QED
      BY <2>1, <2>3, <3>3 DEF Leads
  <2> QED
    BY <2>2, <2>3 DEF Becomes
<1> QED
  BY <1>1, <1>2, <1>3

(* What a handler performs changes one channel (service.rs:709-746,         *)
(* 792-818, 860-874, 920-943).                                              *)
LEMMA PerformBecomes ==
  ASSUME PeersOK, NEW p \in DOMAIN per_peer_state, NEW s \in DOMAIN Outs(p),
         NEW jit, DOMAIN jit = JitFields, NEW outcome, NEW state,
         DOMAIN state = PeerStateFields,
         state.outbound_channels_by_intercept_scid = Outs(p),
         state.intercept_scid_by_user_channel_id = ByUser(p),
         state.pending_requests = Requests(p),
         state.intercept_scid_by_channel_id
           \in {ByChannel(p), Put(ByChannel(p), UserChannelId[s], s)},
         Perform(p, s, state, jit, outcome)
  PROVE  Becomes(p, s, [jit EXCEPT !.channel = outcome.channel])
<1> DEFINE becomes == [jit EXCEPT !.channel = outcome.channel]
           next == [state EXCEPT !.outbound_channels_by_intercept_scid[s] = becomes]
<1>1. per_peer_state' = [per_peer_state EXCEPT ![p] = next]
  BY DEF Perform
<1> HIDE DEF becomes
<1>2. /\ DOMAIN next = PeerStateFields
      /\ DOMAIN next.outbound_channels_by_intercept_scid = DOMAIN Outs(p)
      /\ \A t \in DOMAIN Outs(p) : next.outbound_channels_by_intercept_scid[t]
                                     = IF t = s THEN becomes ELSE Outs(p)[t]
      /\ next.intercept_scid_by_user_channel_id = ByUser(p)
      /\ next.pending_requests = Requests(p)
      /\ next.intercept_scid_by_channel_id = state.intercept_scid_by_channel_id
  BY DEF PeerStateFields
<1> HIDE DEF next
<1>3. DOMAIN per_peer_state[p] = PeerStateFields
  BY DEF PeersOK
<1>4. Becomes(p, s, becomes)
  BY <1>1, <1>2, <1>3 DEF Becomes, Outs, ByUser, ByChannel, Requests
<1> QED
  BY <1>4 DEF becomes

(* The other fields of a JIT channel when its state machine makes a move.   *)
LEMMA NewChannel ==
  ASSUME NEW jit, DOMAIN jit = JitFields, NEW c
  PROVE  LET becomes == [jit EXCEPT !.channel = c]
         IN  /\ DOMAIN becomes = JitFields /\ becomes.channel = c /\ becomes.offer = jit.offer
             /\ becomes.user_channel_id = jit.user_channel_id
             /\ becomes.channel_id = jit.channel_id
  BY DEF JitFields

(* The service after a change of one channel.                               *)
LEMMA ChannelMoves ==
  ASSUME ServiceInv, NEW s \in Live, NEW jit, Becomes(bought[s].peer, s, jit),
         JitFits(s, jit), jit.channel_id # None => Found(bought[s].peer, s)',
         Jit(s).channel_id # None => jit.channel_id = Jit(s).channel_id,
         Jit(s).channel.state # "PendingInitialPayment" =>
           jit.channel.state # "PendingInitialPayment",
         EnvironmentOK', OpeningsOK',
         UNCHANGED <<bought, removed, promised, peer_by_intercept_scid, scid, channels>>,
         \A t \in Live : Leads(peer_by_channel_id, UserChannelId[t], bought[t].peer) =>
                           Leads(peer_by_channel_id', UserChannelId[t], bought[t].peer),
         \A id \in Ids : via'[id] # via[id] =>
           /\ scid[id] = s /\ via'[id] = jit.channel_id
           /\ jit.channel.state # "PendingInitialPayment"
  PROVE  ServiceInv'
<1>1. PeersOK' /\ RequestsOK' /\ PurchasesOK' /\ PromisesOK' /\ IndexesOK'
  BY BecomesKeeps, LiveIsRegistered DEF ServiceInv
<1>2. ScidsOK'
  BY DEF ServiceInv, ScidsOK
<1>3. /\ Live' = Live /\ Jit(s)' = jit
      /\ \A t \in Live : t # s => Jit(t)' = Jit(t)
      /\ \A t \in Live : Registered(bought[t].peer, t)'
      /\ \A q, c, t : q \in DOMAIN per_peer_state /\ Leads(ByChannel(q), c, t) =>
           q \in DOMAIN per_peer_state' /\ Leads(ByChannel(q), c, t)'
  BY OthersStay
<1>4. ChannelsOK'
  <2> SUFFICES ASSUME NEW t \in Live
               PROVE  JitOK(t)'
    BY <1>3 DEF ChannelsOK
  <2>1. CASE t = s
    <3>1. JitFits(t, Jit(t))'
      BY <1>3, <2>1 DEF JitFits
    <3>2. Jit(t)'.channel_id # None => Found(bought[t].peer, t)'
      BY <1>3, <2>1 DEF Found
    <3> QED
      BY <1>3, <3>1, <3>2 DEF JitOK, Found
  <2>2. CASE t # s
    <3>1. JitOK(t) /\ Jit(t)' = Jit(t)
      BY <1>3, <2>2 DEF ServiceInv, ChannelsOK
    <3>2. JitFits(t, Jit(t))'
      BY <3>1 DEF JitOK, JitFits
    <3>3. ASSUME Jit(t)'.channel_id # None
          PROVE  Found(bought[t].peer, t)'
      <4>1. Found(bought[t].peer, t)
        BY <3>1, <3>3 DEF JitOK
      <4>2. Leads(channels, UserChannelId[t], bought[t].peer)'
        BY <4>1 DEF Found, Leads
      <4>3. Leads(peer_by_channel_id, UserChannelId[t], bought[t].peer)'
        BY <4>1 DEF Found, Leads
      <4>4. /\ bought[t].peer \in DOMAIN per_peer_state'
            /\ Leads(ByChannel(bought[t].peer), UserChannelId[t], t)'
        BY <1>3, <4>1 DEF Found, Leads, ByChannel
      <4> QED
        BY <4>2, <4>3, <4>4 DEF Found
    <3> QED
      BY <1>3, <3>2, <3>3 DEF JitOK
  <2> QED
    BY <2>1, <2>2
<1>5. ForwardsOK'
  <2> SUFFICES ASSUME NEW id \in Ids, via'[id] # None
               PROVE  /\ scid[id] \in Live
                      /\ via'[id] = Jit(scid[id])'.channel_id
                      /\ Jit(scid[id])'.channel.state # "PendingInitialPayment"
    BY <1>3 DEF ForwardsOK
  <2>1. CASE via'[id] # via[id]
    BY <1>3, <2>1
  <2>2. CASE via'[id] = via[id]
    <3>1. /\ scid[id] \in Live /\ via[id] = Jit(scid[id]).channel_id
          /\ Jit(scid[id]).channel.state # "PendingInitialPayment"
      BY <2>2 DEF ServiceInv, ForwardsOK
    <3>2. CASE scid[id] = s
      BY <1>3, <2>2, <3>1, <3>2
    <3>3. CASE scid[id] # s
      BY <1>3, <2>2, <3>1, <3>3
    <3> QED
      BY <3>2, <3>3
  <2> QED
    BY <2>1, <2>2
<1> QED
  BY <1>1, <1>2, <1>4, <1>5 DEF ServiceInv

-----------------------------------------------------------------------------
(* Events.                                                                  *)

(* Handling an event takes the oldest one, and the others keep their order. *)
LEMMA HeadHandled ==
  ASSUME EnvironmentOK, NEW type, NextEvent(type)
  PROVE  /\ events' \in Seq(Events)
         /\ Head(events) \in Events /\ Head(events).type = type
         /\ 1 \in DOMAIN events /\ events[1] = Head(events)
         /\ \A i \in DOMAIN events' : i + 1 \in DOMAIN events /\ events'[i] = events[i + 1]
         /\ \A i \in DOMAIN events : i # 1 =>
              i - 1 \in DOMAIN events' /\ events[i] = events'[i - 1]
<1>1. events \in Seq(Events) /\ events # <<>> /\ events' = Tail(events)
  BY DEF EnvironmentOK, NextEvent
<1>2. Len(events) \in Nat \ {0} /\ DOMAIN events = 1..Len(events)
  BY <1>1
<1>3. /\ events' \in Seq(Events) /\ DOMAIN events' = 1..(Len(events) - 1)
      /\ \A i \in 1..(Len(events) - 1) : events'[i] = events[i + 1]
  BY <1>1, <1>2
<1>4. Head(events) = events[1] /\ events[1] \in Events
  BY <1>1, <1>2
<1> QED
  BY <1>2, <1>3, <1>4 DEF NextEvent

(* The only announcement that goes with an event is its own, and since each *)
(* HTLC is announced once it is then no longer announced.                   *)
LEMMA AnnouncedMoves ==
  ASSUME EnvironmentOK, AnnouncedOnce, NEW type, NextEvent(type)
  PROVE  /\ AnnouncedOnce' /\ Announced' \subseteq Announced
         /\ \A id \in Announced \ Announced' :
              type = "HTLCIntercepted" /\ id = Head(events).id
         /\ type = "HTLCIntercepted" =>
              /\ Head(events) = [type |-> "HTLCIntercepted", id |-> Head(events).id]
              /\ Head(events).id \in Announced
              /\ Head(events).id \notin Announced'
<1>1. /\ Head(events) \in Events /\ Head(events).type = type
      /\ 1 \in DOMAIN events /\ events[1] = Head(events)
      /\ \A i \in DOMAIN events' : i + 1 \in DOMAIN events /\ events'[i] = events[i + 1]
      /\ \A i \in DOMAIN events : i # 1 =>
           i - 1 \in DOMAIN events' /\ events[i] = events'[i - 1]
  BY HeadHandled
<1>2. DOMAIN events \subseteq Nat \ {0} /\ DOMAIN events' \subseteq Nat \ {0}
  BY HeadHandled DEF EnvironmentOK
<1>3. \A id : \A i \in DOMAIN events' : Announces(i, id)' => Announces(i + 1, id)
  BY <1>1 DEF Announces
<1>4. AnnouncedOnce'
  <2> SUFFICES ASSUME NEW id \in Ids, NEW i \in DOMAIN events', NEW j \in DOMAIN events',
                      Announces(i, id)', Announces(j, id)'
               PROVE  i = j
    BY DEF AnnouncedOnce
  <2>1. i + 1 = j + 1
    BY <1>1, <1>3 DEF AnnouncedOnce
  <2> QED
    BY <1>2, <2>1
<1>5. Announced' \subseteq Announced
  BY <1>1, <1>3 DEF Announced
<1>6. ASSUME NEW id \in Announced, id \notin Announced'
      PROVE  type = "HTLCIntercepted" /\ id = Head(events).id
  <2>1. PICK i \in DOMAIN events : Announces(i, id)
    BY DEF Announced
  <2>2. i = 1
    BY <1>1, <1>6, <2>1 DEF Announced, Announces
  <2> QED
    BY <1>1, <2>1, <2>2 DEF Announces
<1>7. ASSUME type = "HTLCIntercepted"
      PROVE  /\ Head(events) = [type |-> "HTLCIntercepted", id |-> Head(events).id]
             /\ Head(events).id \in Announced
             /\ Head(events).id \notin Announced'
  <2>1. PICK id \in Ids : Head(events) = [type |-> "HTLCIntercepted", id |-> id]
    BY <1>1, <1>7 DEF Events
  <2>2. Announces(1, id)
    BY <1>1, <2>1 DEF Announces
  <2>3. id \in Announced
    BY <1>1, <2>2 DEF Announced
  <2>4. ASSUME id \in Announced'
        PROVE  FALSE
    <3>1. PICK i \in DOMAIN events' : Announces(i, id)'
      BY <2>4 DEF Announced
    <3>2. Announces(i + 1, id) /\ i + 1 \in DOMAIN events
      BY <1>1, <1>3, <3>1
    <3>3. i + 1 = 1
      BY <1>1, <2>1, <2>2, <3>2 DEF AnnouncedOnce
    <3> QED
      BY <1>2, <3>1, <3>3
  <2> QED
    BY <2>1, <2>3, <2>4
<1> QED
  BY <1>4, <1>5, <1>6, <1>7

(* A new event comes after those that wait.                                 *)
LEMMA EmittedComesLast ==
  ASSUME EnvironmentOK, NEW e \in Events, Emit(e)
  PROVE  LET n == Len(events) + 1
         IN  /\ events' \in Seq(Events) /\ n \in DOMAIN events' /\ events'[n] = e
             /\ n \notin DOMAIN events /\ DOMAIN events' = DOMAIN events \cup {n}
             /\ \A i \in DOMAIN events : events'[i] = events[i]
<1>1. events \in Seq(Events) /\ events' = Append(events, e)
  BY DEF EnvironmentOK, Emit
<1>2. Len(events) \in Nat /\ DOMAIN events = 1..Len(events)
  BY <1>1
<1>3. /\ events' \in Seq(Events) /\ DOMAIN events' = 1..(Len(events) + 1)
      /\ events'[Len(events) + 1] = e
      /\ \A i \in 1..Len(events) : events'[i] = events[i]
  BY <1>1, <1>2
<1> QED
  BY <1>2, <1>3

(* What is forwarded of some HTLCs: all of them, or those before one that   *)
(* has expired.                                                             *)
LEMMA WhatGoesOut ==
  ASSUME NEW ids \in Seq(Ids), NEW p, NEW c
  PROVE  LET out == Forwardable(ids, p, c)
         IN  /\ out \subseteq Range(ids)
             /\ \A id \in out : htlc[id] = "held"
             /\ out # {} => Leads(channels, c, p)
             /\ Leads(channels, c, p) => \A id \in Range(ids) \ out :
                  \E other \in Range(ids) : htlc[other] # "held"
<1> DEFINE out == Forwardable(ids, p, c)
<1>1. Len(ids) \in Nat /\ DOMAIN ids = 1..Len(ids)
  OBVIOUS
<1>2. CASE ~Leads(channels, c, p)
  BY <1>2 DEF Forwardable, Leads
<1>3. CASE Leads(channels, c, p)
  <2> DEFINE sent == {k \in 1..Len(ids) : \A j \in 1..k : htlc[ids[j]] = "held"}
  <2>1. out = {ids[i] : i \in sent}
    BY <1>3 DEF Forwardable, Leads
  <2>2. \A i \in sent : i \in 1..Len(ids) /\ htlc[ids[i]] = "held"
    BY <1>1
  <2>3. ASSUME NEW id \in Range(ids), id \notin out
        PROVE  \E other \in Range(ids) : htlc[other] # "held"
    <3>1. PICK i \in 1..Len(ids) : id = ids[i]
      BY <1>1 DEF Range
    <3>2. i \notin sent
      BY <2>1, <2>3, <3>1
    <3>3. PICK j \in 1..i : htlc[ids[j]] # "held"
      BY <3>2
    <3>4. j \in DOMAIN ids
      BY <1>1, <3>3
    <3> QED
      BY <3>3, <3>4 DEF Range
  <2> HIDE DEF sent
  <2>4. out \subseteq Range(ids) /\ \A id \in out : htlc[id] = "held"
    BY <1>1, <2>1, <2>2 DEF Range
  <2> QED
    BY <1>3, <2>3, <2>4
<1> QED
  BY <1>2, <1>3

(* What the queue of a channel holds are HTLCs.                             *)
LEMMA QueuesHoldIds ==
  ASSUME ServiceInv, NEW s \in Live
  PROVE  Queue(s) \in Seq(Payment) /\ QueuedIds(Queue(s)) \subseteq Ids
<1>1. Queue(s) \in Seq(Payment)
  BY DEF ServiceInv, ChannelsOK, JitOK, JitFits, Queue, Channel
<1>2. \A i \in DOMAIN Queue(s) : Queue(s)[i] \in Payment
  BY <1>1
<1>3. \A i \in DOMAIN Queue(s) : Queue(s)[i].htlcs \in Seq(Ids)
  BY <1>2 DEF Payment
<1> QED
  BY <1>1, <1>3 DEF QueuedIds, Range

(* The HTLCs after a channel made a move, with the ids it had to account    *)
(* for.                                                                     *)
LEMMA HTLCsMove ==
  ASSUME IInv, NEW type, NextEvent(type), NEW s \in Live, NEW jit, NEW outcome,
         Becomes(bought[s].peer, s, jit),
         jit.channel = outcome.channel, jit.offer = Jit(s).offer,
         NEW out, out = Forwardable(outcome.htlcs, bought[s].peer, jit.channel_id),
         htlc' = [id \in Ids |-> IF id \in out THEN "outbound" ELSE htlc[id]],
         outcome.htlcs # <<>> => Leads(channels, jit.channel_id, bought[s].peer),
         NEW ids \in SUBSET Ids,
         \A id \in ids : scid[id] = s /\ Waits(id) /\ id \notin Announced',
         QueuedIds(Queue(s)) \subseteq ids, Announced \subseteq Announced' \cup ids,
         Accounts(ids, outcome, amount),
         jit.channel.state = "PendingChannelOpen" => CanPay(jit.channel),
         jit.channel.state = "PendingInitialPayment" /\ jit.offer.payment_size_msat = None
           => \A id \in QueuedIds(jit.channel.payment_queue) : htlc[id] # "held",
         UNCHANGED <<bought, removed, scid, amount>>
  PROVE  HTLCsOK' /\ QueuesOK' /\ HeldHTLCsAreOwned'
<1>1. /\ Live' = Live /\ Jit(s)' = jit
      /\ \A t \in Live : t # s => Jit(t)' = Jit(t)
  BY OthersStay DEF IInv
<1>2. /\ AnnouncedOnce' /\ Announced' \subseteq Announced
  BY AnnouncedMoves DEF IInv, ServiceInv, HTLCsOK
<1>3. outcome.htlcs \in Seq(Ids) /\ Range(outcome.htlcs) \subseteq ids
  BY DEF Accounts
<1>4. /\ out \subseteq Range(outcome.htlcs)
      /\ \A id \in out : htlc[id] = "held"
      /\ outcome.htlcs # <<>> => \A id \in Range(outcome.htlcs) \ out :
           \E other \in Range(outcome.htlcs) : htlc[other] # "held"
  BY <1>3, WhatGoesOut
<1>5. QueuedIds(jit.channel.payment_queue) = ids \ Range(outcome.htlcs)
  BY DEF Accounts
<1>6. /\ \A id \in Ids : htlc'[id] = IF id \in out THEN "outbound" ELSE htlc[id]
      /\ \A id \in Ids : htlc'[id] = "held" => htlc[id] = "held" /\ id \notin out
  OBVIOUS
<1>7. HTLCsOK'
  <2>1. ASSUME NEW id \in Ids, htlc'[id] # "unseen"
        PROVE  scid[id] \in DOMAIN bought
    <3>1. htlc[id] # "unseen"
      BY <1>4, <1>6, <2>1
    <3> QED
      BY <3>1 DEF IInv, HTLCsOK
  <2>2. ASSUME NEW id \in Announced'
        PROVE  Waits(id)'
    <3>1. id \in Announced /\ id \notin out /\ id \in Ids
      BY <1>2, <1>3, <1>4 DEF Announced
    <3> QED
      BY <1>6, <3>1 DEF IInv, HTLCsOK, Waits
  <2>3. ASSUME NEW t \in Live, NEW id \in QueuedIds(Queue(t)')
        PROVE  scid[id] = t /\ Waits(id)' /\ id \notin Announced'
    <3>1. CASE t = s
      <4>1. id \in ids \ Range(outcome.htlcs)
        BY <1>1, <1>5, <2>3, <3>1 DEF Queue
      <4> QED
        BY <1>4, <1>6, <3>1, <4>1 DEF Waits
    <3>2. CASE t # s
      <4>1. id \in QueuedIds(Queue(t))
        BY <1>1, <2>3, <3>2 DEF Queue
      <4>2. scid[id] = t /\ Waits(id) /\ id \notin Announced
        BY <4>1 DEF IInv, HTLCsOK
      <4>3. id \notin out
        BY <1>3, <1>4, <3>2, <4>2
      <4>4. id \in Ids
        BY <4>1, QueuesHoldIds DEF IInv
      <4> QED
        BY <1>2, <1>6, <4>2, <4>3, <4>4 DEF Waits
    <3> QED
      BY <3>1, <3>2
  <2>4. /\ \A id \in Ids : (htlc[id] # "unseen" => scid[id] \in DOMAIN bought)'
        /\ \A t \in Live' : \A id \in QueuedIds(Queue(t)') :
             scid'[id] = t /\ Waits(id)' /\ id \notin Announced'
    BY <1>1, <2>1, <2>3
  <2> QED
    BY <1>2, <2>2, <2>4 DEF HTLCsOK, Queue
<1>8. QueuesOK'
  <2> SUFFICES ASSUME NEW t \in Live
               PROVE  /\ WellFormed(Queue(t)', amount)
                      /\ Jit(t)'.channel.state = "PendingChannelOpen" => CanPay(Jit(t)'.channel)
                      /\ Jit(t)'.channel.state = "PendingInitialPayment"
                           /\ Jit(t)'.offer.payment_size_msat = None
                           => \A id \in QueuedIds(Queue(t)') : htlc'[id] # "held"
    BY <1>1 DEF QueuesOK, Queue, WellFormed, OnePerHash, Grouped, CanPay
  <2>1. \A id : htlc'[id] = "held" /\ id \in Ids => htlc[id] = "held"
    BY <1>6
  <2>2. CASE t = s
    BY <1>1, <1>3, <1>5, <2>1, <2>2 DEF Queue, Accounts
  <2>3. CASE t # s
    BY <1>1, <2>1, <2>3, QueuesHoldIds DEF Queue, IInv, QueuesOK
  <2> QED
    BY <2>2, <2>3
<1>9. HeldHTLCsAreOwned'
  <2> SUFFICES ASSUME NEW id \in Ids, htlc'[id] = "held"
               PROVE  \/ id \in Announced'
                      \/ scid[id] \in DOMAIN removed
                      \/ id \in QueuedIds(Queue(scid[id])')
                      \/ \E other \in Ids : scid[other] = scid[id] /\ htlc'[other] = "expired"
    BY DEF HeldHTLCsAreOwned, Announced, Announces, Queue
  <2>1. htlc[id] = "held" /\ id \notin out
    BY <1>6
  <2>2. \/ id \in Announced
        \/ scid[id] \in DOMAIN removed
        \/ id \in QueuedIds(Queue(scid[id]))
        \/ \E other \in Ids : scid[other] = scid[id] /\ htlc[other] = "expired"
    BY <2>1 DEF IInv, HeldHTLCsAreOwned, Announced, Announces, Queue
  <2>3. scid[id] \in DOMAIN bought
    BY <2>1 DEF IInv, HTLCsOK
  <2>4. ASSUME id \in ids
        PROVE  \/ id \in QueuedIds(Queue(scid[id])')
               \/ \E other \in Ids : scid[other] = scid[id] /\ htlc'[other] = "expired"
    <3>1. CASE id \notin Range(outcome.htlcs)
      BY <1>1, <1>5, <2>4, <3>1 DEF Queue
    <3>2. CASE id \in Range(outcome.htlcs)
      <4>1. outcome.htlcs # <<>>
        BY <3>2 DEF Range
      <4>2. PICK other \in Range(outcome.htlcs) : htlc[other] # "held"
        BY <1>4, <2>1, <3>2, <4>1
      <4>3. /\ other \in Ids /\ scid[other] = s /\ htlc[other] = "expired"
            /\ scid[id] = s /\ other \notin out
        BY <1>3, <1>4, <2>4, <4>2 DEF Waits
      <4> QED
        BY <1>6, <4>3
    <3> QED
      BY <3>1, <3>2
  <2>5. CASE id \in Announced
    BY <2>4, <2>5
  <2>6. CASE id \in QueuedIds(Queue(scid[id])) /\ scid[id] \notin DOMAIN removed
    <3>1. scid[id] \in Live
      BY <2>3, <2>6 DEF Live
    <3>2. CASE scid[id] = s
      BY <2>4, <2>6, <3>2
    <3>3. CASE scid[id] # s
      BY <1>1, <2>6, <3>1, <3>3 DEF Queue
    <3> QED
      BY <3>2, <3>3
  <2>7. CASE \E other \in Ids : scid[other] = scid[id] /\ htlc[other] = "expired"
    BY <1>4, <1>6, <2>7
  <2> QED
    BY <2>2, <2>5, <2>6, <2>7
<1> QED
  BY <1>7, <1>8, <1>9

-----------------------------------------------------------------------------
(* The handlers of the LDK events.                                          *)

(* Openings while an event is handled.                                      *)
LEMMA HandlingKeepsOpenings ==
  ASSUME ServiceInv, NEW type, NextEvent(type), UNCHANGED <<bought, channels>>,
         \A e \in pending_events' : \/ e \in pending_events
                                    \/ \E s \in DOMAIN bought :
                                         e = [their_network_key |-> bought[s].peer,
                                              user_channel_id |-> UserChannelId[s]]
  PROVE  OpeningsOK'
<1>1. \A i \in DOMAIN events' : i + 1 \in DOMAIN events /\ events'[i] = events[i + 1]
  BY HeadHandled DEF ServiceInv
<1>2. \A i \in DOMAIN events' : events'[i].type = "ChannelReady" =>
        Leads(channels, events'[i].channel_id, events'[i].counterparty_node_id)
  BY <1>1 DEF ServiceInv, OpeningsOK
<1>3. \A e \in pending_events' : \E s \in DOMAIN bought :
        e = [their_network_key |-> bought[s].peer, user_channel_id |-> UserChannelId[s]]
  BY DEF ServiceInv, OpeningsOK
<1>4. \A s \in Scids : UserChannelId[s] \in DOMAIN channels =>
        s \in DOMAIN bought /\ channels[UserChannelId[s]] = bought[s].peer
  BY DEF ServiceInv, OpeningsOK
<1> QED
  BY <1>2, <1>3, <1>4 DEF OpeningsOK, Leads

(* A channel performs what one of its methods says.                         *)
LEMMA PerformKeepsInv ==
  ASSUME IInv, NEW type, NextEvent(type), NEW s \in Live, NEW state,
         DOMAIN state = PeerStateFields,
         state.outbound_channels_by_intercept_scid = Outs(bought[s].peer),
         state.intercept_scid_by_user_channel_id = ByUser(bought[s].peer),
         state.pending_requests = Requests(bought[s].peer),
         state.intercept_scid_by_channel_id
           \in {ByChannel(bought[s].peer),
                Put(ByChannel(bought[s].peer), UserChannelId[s], s)},
         NEW jit, DOMAIN jit = JitFields,
         jit.offer = Jit(s).offer, jit.user_channel_id = Jit(s).user_channel_id,
         jit.channel_id \in {None, UserChannelId[s]},
         Jit(s).channel_id # None => jit.channel_id = Jit(s).channel_id,
         NEW outcome, Perform(bought[s].peer, s, state, jit, outcome),
         jit.channel_id # None =>
           /\ Leads(channels, UserChannelId[s], bought[s].peer)
           /\ Leads(peer_by_channel_id', UserChannelId[s], bought[s].peer)
           /\ Leads(state.intercept_scid_by_channel_id, UserChannelId[s], s),
         outcome.channel \in Channel, Forwards(outcome),
         outcome.channel.state \in Forwarding => jit.channel_id # None,
         Expects(Jit(s).channel, outcome),
         outcome.channel.state = "PendingInitialPayment" /\ Jit(s).offer.payment_size_msat = None
           => \A id \in QueuedIds(outcome.channel.payment_queue) : htlc[id] # "held",
         NEW ids \in SUBSET Ids,
         \A id \in ids : scid[id] = s /\ Waits(id) /\ id \notin Announced',
         QueuedIds(Queue(s)) \subseteq ids, Announced \subseteq Announced' \cup ids,
         Accounts(ids, outcome, amount),
         UNCHANGED <<bought, removed, promised, peer_by_intercept_scid, scid,
                     amount, channels, now>>,
         OpeningsOK', IsMap(peer_by_channel_id', ChannelIds, Peers),
         \A t \in Live : Leads(peer_by_channel_id, UserChannelId[t], bought[t].peer) =>
                           Leads(peer_by_channel_id', UserChannelId[t], bought[t].peer)
  PROVE  IInv'
<1> DEFINE p == bought[s].peer
           moved == [jit EXCEPT !.channel = outcome.channel]
           out == Forwardable(outcome.htlcs, p, jit.channel_id)
<1>1. /\ Registered(p, s) /\ s \in Scids /\ p \in DOMAIN per_peer_state
      /\ s \in DOMAIN Outs(p) /\ JitOK(s)
  BY LiveIsRegistered DEF IInv
<1>2. Becomes(p, s, moved)
  BY <1>1, PerformBecomes DEF IInv, ServiceInv
<1>3. /\ DOMAIN moved = JitFields /\ moved.channel = outcome.channel
      /\ moved.offer = jit.offer /\ moved.user_channel_id = jit.user_channel_id
      /\ moved.channel_id = jit.channel_id
  BY NewChannel
<1>4. /\ htlc' = [id \in Ids |-> IF id \in out THEN "outbound" ELSE htlc[id]]
      /\ via' = [id \in Ids |-> IF id \in out THEN jit.channel_id ELSE via[id]]
  BY DEF Perform
<1> HIDE DEF moved
<1>5. JitFits(s, moved)
  BY <1>1, <1>3 DEF JitOK, JitFits
<1>6. moved.channel_id # None => Found(p, s)'
  <2> SUFFICES ASSUME jit.channel_id # None
               PROVE  Found(p, s)'
    BY <1>3
  <2>1. per_peer_state' = [per_peer_state EXCEPT ![p] =
           [state EXCEPT !.outbound_channels_by_intercept_scid[s] = moved]]
    BY DEF Perform, moved
  <2>2. [state EXCEPT !.outbound_channels_by_intercept_scid[s] = moved].intercept_scid_by_channel_id
          = state.intercept_scid_by_channel_id
    BY DEF PeerStateFields
  <2>3. ByChannel(p)' = state.intercept_scid_by_channel_id /\ p \in DOMAIN per_peer_state'
    BY <1>1, <2>1, <2>2 DEF ByChannel
  <2> QED
    BY <2>3 DEF Found, Leads, ByChannel
<1>7. outcome.htlcs # <<>> => /\ moved.channel.state # "PendingInitialPayment"
                              /\ Leads(channels, jit.channel_id, p)
  BY <1>3 DEF Forwards, Forwarding
<1>8. outcome.htlcs \in Seq(Ids) /\ Range(outcome.htlcs) \subseteq ids
  BY DEF Accounts
<1>9. out \subseteq Range(outcome.htlcs) /\ \A id \in out : htlc[id] = "held"
  BY <1>8, WhatGoesOut
<1> HIDE DEF out
<1>10. \A id \in Ids : via'[id] # via[id] =>
         /\ scid[id] = s /\ via'[id] = moved.channel_id
         /\ moved.channel.state # "PendingInitialPayment"
  <2> SUFFICES ASSUME NEW id \in Ids, via'[id] # via[id]
               PROVE  /\ scid[id] = s /\ via'[id] = moved.channel_id
                      /\ moved.channel.state # "PendingInitialPayment"
    OBVIOUS
  <2>1. id \in out /\ via'[id] = jit.channel_id
    BY <1>4
  <2>2. outcome.htlcs # <<>>
    BY <1>9, <2>1 DEF Range
  <2> QED
    BY <1>3, <1>7, <1>8, <1>9, <2>1, <2>2
<1>11. EnvironmentOK'
  <2>1. events' \in Seq(Events)
    BY HeadHandled DEF IInv, ServiceInv
  <2>2. htlc' \in [Ids -> Statuses]
    BY <1>4 DEF IInv, ServiceInv, EnvironmentOK, Statuses
  <2>3. jit.channel_id \in JITChannelIds \cup {None}
    BY <1>1, UserChannelIds
  <2>4. via' \in [Ids -> JITChannelIds \cup {None}]
    BY <1>4, <2>3 DEF IInv, ServiceInv, EnvironmentOK
  <2> QED
    BY <2>1, <2>2, <2>4 DEF IInv, ServiceInv, EnvironmentOK
<1>12. /\ Jit(s).channel.state # "PendingInitialPayment" =>
            moved.channel.state # "PendingInitialPayment"
       /\ moved.channel.state = "PendingChannelOpen" => CanPay(moved.channel)
  BY <1>3 DEF Expects
<1>13. ServiceInv'
  BY <1>2, <1>3, <1>5, <1>6, <1>10, <1>11, <1>12, ChannelMoves DEF IInv
<1>14. HTLCsOK' /\ QueuesOK' /\ HeldHTLCsAreOwned'
  <2>1. out = Forwardable(outcome.htlcs, bought[s].peer, moved.channel_id)
    BY <1>3 DEF out
  <2> QED
    BY <1>2, <1>3, <1>4, <1>7, <1>12, <2>1, HTLCsMove
<1> QED
  BY <1>13, <1>14 DEF IInv

-----------------------------------------------------------------------------
(* The channels stay as they are.                                           *)

Kept ==
  /\ DOMAIN per_peer_state \subseteq DOMAIN per_peer_state'
  /\ \A q \in DOMAIN per_peer_state :
       /\ Outs(q)' = Outs(q)
       /\ \A c, s : Leads(ByChannel(q), c, s) => Leads(ByChannel(q)', c, s)
  /\ \A q \in DOMAIN per_peer_state' \ DOMAIN per_peer_state : DOMAIN Outs(q)' = {}

(* The service after a step that changes no channel.                        *)
LEMMA KeptChannels ==
  ASSUME ServiceInv, Kept, PeersOK', RequestsOK', PurchasesOK', PromisesOK',
         IndexesOK', EnvironmentOK', OpeningsOK',
         UNCHANGED <<bought, removed, peer_by_intercept_scid>>,
         \A t \in Live : Leads(channels, UserChannelId[t], bought[t].peer) =>
                           Leads(channels', UserChannelId[t], bought[t].peer),
         \A t \in Live : Leads(peer_by_channel_id, UserChannelId[t], bought[t].peer) =>
                           Leads(peer_by_channel_id', UserChannelId[t], bought[t].peer),
         \A id \in Ids : via'[id] # None => via'[id] = via[id] /\ scid'[id] = scid[id]
  PROVE  ServiceInv' /\ Live' = Live /\ \A s \in Live : Jit(s)' = Jit(s)
<1>1. Live' = Live
  BY DEF Live
<1>2. ASSUME NEW s \in Live
      PROVE  Registered(bought[s].peer, s)' /\ Jit(s)' = Jit(s)
  <2>1. /\ bought[s].peer \in DOMAIN per_peer_state /\ s \in DOMAIN Outs(bought[s].peer)
        /\ Jit(s) = Outs(bought[s].peer)[s]
    BY LiveIsRegistered
  <2> QED
    BY <2>1 DEF Kept, Registered, Jit, Outs
<1>3. ScidsOK'
  BY DEF ServiceInv, ScidsOK
<1>4. ChannelsOK'
  <2> SUFFICES ASSUME NEW s \in Live
               PROVE  JitOK(s)'
    BY <1>1 DEF ChannelsOK
  <2>1. JitOK(s) /\ Jit(s)' = Jit(s) /\ Registered(bought[s].peer, s)'
    BY <1>2 DEF ServiceInv, ChannelsOK
  <2>2. JitFits(s, Jit(s))'
    BY <2>1 DEF JitOK, JitFits
  <2>3. ASSUME Jit(s)'.channel_id # None
        PROVE  Found(bought[s].peer, s)'
    <3>1. Found(bought[s].peer, s)
      BY <2>1, <2>3 DEF JitOK
    <3>2. Leads(channels', UserChannelId[s], bought[s].peer)
      BY <3>1 DEF Found
    <3>3. Leads(peer_by_channel_id', UserChannelId[s], bought[s].peer)
      BY <3>1 DEF Found
    <3>4. /\ bought[s].peer \in DOMAIN per_peer_state'
          /\ Leads(ByChannel(bought[s].peer)', UserChannelId[s], s)
      BY <3>1 DEF Found, Kept
    <3> QED
      BY <3>2, <3>3, <3>4 DEF Found, Leads, ByChannel
  <2> QED
    BY <2>1, <2>2, <2>3 DEF JitOK
<1>5. ForwardsOK'
  <2> SUFFICES ASSUME NEW id \in Ids, via'[id] # None, NEW s, s = scid'[id]
               PROVE  /\ s \in Live /\ via'[id] = Jit(s)'.channel_id
                      /\ Jit(s)'.channel.state # "PendingInitialPayment"
    BY <1>1 DEF ForwardsOK, Jit
  <2>1. /\ via[id] # None /\ via'[id] = via[id] /\ scid[id] = s
    OBVIOUS
  <2>2. /\ s \in Live /\ via[id] = Jit(s).channel_id
        /\ Jit(s).channel.state # "PendingInitialPayment"
    BY <2>1 DEF ServiceInv, ForwardsOK, Jit
  <2> QED
    BY <1>2, <2>1, <2>2
<1> QED
  BY <1>1, <1>2, <1>3, <1>4, <1>5 DEF ServiceInv

(* The HTLCs after such a step.                                             *)
LEMMA KeptHTLCs ==
  ASSUME IInv, Live' = Live, \A s \in Live : Jit(s)' = Jit(s),
         UNCHANGED <<bought, removed>>, AnnouncedOnce',
         \A id \in Announced' : Waits(id)',
         \A id \in Ids : htlc'[id] # "unseen" => scid'[id] \in DOMAIN bought,
         \A id \in Ids : Waits(id) /\ id \notin Announced =>
           /\ Waits(id)' /\ id \notin Announced'
           /\ scid'[id] = scid[id] /\ amount'[id] = amount[id]
           /\ htlc'[id] = "held" => htlc[id] = "held",
         \A id \in Ids : htlc'[id] = "held" =>
           \/ id \in Announced'
           \/ /\ htlc[id] = "held" /\ scid'[id] = scid[id]
              /\ id \in Announced => scid[id] \in DOMAIN removed,
         \A id \in Ids : htlc[id] = "expired" =>
           htlc'[id] = "expired" /\ scid'[id] = scid[id]
  PROVE  HTLCsOK' /\ QueuesOK' /\ HeldHTLCsAreOwned'
<1>1. \A s \in Live : Queue(s)' = Queue(s)
  BY DEF Queue
<1>2. ASSUME NEW s \in Live, NEW id \in QueuedIds(Queue(s))
      PROVE  /\ id \in Ids /\ scid'[id] = s /\ Waits(id)' /\ id \notin Announced'
             /\ amount'[id] = amount[id]
             /\ htlc'[id] = "held" => htlc[id] = "held"
  <2>1. id \in Ids /\ scid[id] = s /\ Waits(id) /\ id \notin Announced
    BY QueuesHoldIds DEF IInv, HTLCsOK
  <2> QED
    BY <2>1
<1>3. HTLCsOK'
  <2>1. \A s \in Live' : \A id \in QueuedIds(Queue(s)') :
          scid'[id] = s /\ Waits(id)' /\ id \notin Announced'
    BY <1>1, <1>2
  <2> QED
    BY <2>1 DEF HTLCsOK, Queue
<1>4. QueuesOK'
  <2> SUFFICES ASSUME NEW s \in Live
               PROVE  /\ WellFormed(Queue(s), amount')
                      /\ Jit(s).channel.state = "PendingChannelOpen" => CanPay(Jit(s).channel)
                      /\ Jit(s).channel.state = "PendingInitialPayment"
                           /\ Jit(s).offer.payment_size_msat = None
                           => \A id \in QueuedIds(Queue(s)) : htlc'[id] # "held"
    BY <1>1 DEF QueuesOK, Queue, WellFormed, OnePerHash, Grouped, CanPay
  <2>1. WellFormed(Queue(s), amount')
    BY <1>2, QueuesHoldIds, WellFormedByAmounts DEF IInv, QueuesOK
  <2> QED
    BY <1>2, <2>1 DEF IInv, QueuesOK
<1>5. HeldHTLCsAreOwned'
  <2> SUFFICES ASSUME NEW id \in Ids, htlc'[id] = "held", id \notin Announced',
                      NEW s, s = scid'[id]
               PROVE  \/ s \in DOMAIN removed
                      \/ id \in QueuedIds(Queue(s)')
                      \/ \E other \in Ids : scid'[other] = s /\ htlc'[other] = "expired"
    BY DEF HeldHTLCsAreOwned, Announced, Announces, Queue, Jit
  <2>1. /\ htlc[id] = "held" /\ scid[id] = s
        /\ id \in Announced => s \in DOMAIN removed
    OBVIOUS
  <2>2. \/ id \in Announced
        \/ s \in DOMAIN removed
        \/ id \in QueuedIds(Queue(s))
        \/ \E other \in Ids : scid[other] = s /\ htlc[other] = "expired"
    BY <2>1 DEF IInv, HeldHTLCsAreOwned, Announced, Announces, Queue, Jit
  <2>3. s \in DOMAIN bought
    BY <2>1 DEF IInv, HTLCsOK
  <2>4. CASE id \in QueuedIds(Queue(s)) /\ s \notin DOMAIN removed
    BY <1>1, <2>3, <2>4 DEF Live
  <2>5. CASE \E other \in Ids : scid[other] = s /\ htlc[other] = "expired"
    BY <2>1, <2>5
  <2> QED
    BY <2>1, <2>2, <2>4, <2>5
<1> QED
  BY <1>3, <1>4, <1>5

-----------------------------------------------------------------------------
(* Requests and answers.                                                    *)

(* The peer's state a request is added to.                                  *)
LEMMA EntryMaps ==
  ASSUME ServiceInv, NEW p
  PROVE  /\ DOMAIN entry(p) = PeerStateFields
         /\ p \in DOMAIN per_peer_state => entry(p) = per_peer_state[p]
         /\ p \notin DOMAIN per_peer_state =>
              /\ DOMAIN entry(p).outbound_channels_by_intercept_scid = {}
              /\ DOMAIN entry(p).intercept_scid_by_user_channel_id = {}
              /\ DOMAIN entry(p).intercept_scid_by_channel_id = {}
              /\ DOMAIN entry(p).pending_requests = {}
  BY NewPeerMaps DEF entry, ServiceInv, PeersOK

(* A request adds nothing but itself, and its peer when it is its first     *)
(* (service.rs:984-991, 1086-1094).                                         *)
LEMMA RequestAdded ==
  ASSUME ServiceInv, NEW p \in Peers, NEW id \in RequestIds, NEW request,
         AddRequest(p, id, request),
         request.method = "buy" => Bargain(request.buy, request.at),
         UNCHANGED <<promised, bought, removed>>
  PROVE  Kept /\ PeersOK' /\ RequestsOK' /\ IndexesOK'
<1> DEFINE was == entry(p)
           requests == Put(was.pending_requests, id, request)
           is == [was EXCEPT !.pending_requests = requests]
<1>1. per_peer_state' = Put(per_peer_state, p, is)
  BY DEF AddRequest
<1>2. /\ DOMAIN was = PeerStateFields
      /\ p \in DOMAIN per_peer_state => was = per_peer_state[p]
      /\ p \notin DOMAIN per_peer_state =>
           /\ DOMAIN was.outbound_channels_by_intercept_scid = {}
           /\ DOMAIN was.intercept_scid_by_user_channel_id = {}
           /\ DOMAIN was.intercept_scid_by_channel_id = {}
           /\ DOMAIN was.pending_requests = {}
  BY EntryMaps
<1> HIDE DEF was, requests
<1>3. /\ DOMAIN is = PeerStateFields
      /\ is.outbound_channels_by_intercept_scid = was.outbound_channels_by_intercept_scid
      /\ is.intercept_scid_by_user_channel_id = was.intercept_scid_by_user_channel_id
      /\ is.intercept_scid_by_channel_id = was.intercept_scid_by_channel_id
      /\ is.pending_requests = requests
  BY <1>2 DEF PeerStateFields
<1> HIDE DEF is
<1>4. /\ DOMAIN per_peer_state' = DOMAIN per_peer_state \cup {p}
      /\ per_peer_state'[p] = is
      /\ \A q \in DOMAIN per_peer_state : q # p => per_peer_state'[q] = per_peer_state[q]
  BY <1>1 DEF Put
<1>5. \A q \in DOMAIN per_peer_state :
        /\ Outs(q)' = Outs(q) /\ ByUser(q)' = ByUser(q) /\ ByChannel(q)' = ByChannel(q)
  BY <1>2, <1>3, <1>4 DEF Outs, ByUser, ByChannel
<1>6. \A q \in DOMAIN per_peer_state' \ DOMAIN per_peer_state :
        DOMAIN Outs(q)' = {} /\ DOMAIN ByUser(q)' = {} /\ DOMAIN ByChannel(q)' = {}
  BY <1>2, <1>3, <1>4 DEF Outs, ByUser, ByChannel
<1>7. Kept
  BY <1>4, <1>5, <1>6 DEF Kept
<1>8. PeersOK'
  BY <1>3, <1>4 DEF ServiceInv, PeersOK
<1>9. RequestsOK'
  <2> SUFFICES ASSUME NEW q \in DOMAIN per_peer_state'
               PROVE  /\ DOMAIN Requests(q)' \subseteq RequestIds
                      /\ \A i \in DOMAIN Requests(q)' : Requests(q)'[i].method = "buy" =>
                           Bargain(Requests(q)'[i].buy, Requests(q)'[i].at)
    BY DEF RequestsOK, Bargain
  <2>1. CASE q # p
    <3>1. q \in DOMAIN per_peer_state /\ Requests(q)' = Requests(q)
      BY <1>4, <2>1 DEF Requests
    <3> QED
      BY <3>1 DEF ServiceInv, RequestsOK
  <2>2. CASE q = p
    <3>1. Requests(q)' = requests
      BY <1>3, <1>4, <2>2 DEF Requests
    <3>2. /\ DOMAIN was.pending_requests \subseteq RequestIds
          /\ \A i \in DOMAIN was.pending_requests :
               was.pending_requests[i].method = "buy" =>
                 Bargain(was.pending_requests[i].buy, was.pending_requests[i].at)
      BY <1>2 DEF ServiceInv, RequestsOK, Requests
    <3>3. /\ DOMAIN requests = DOMAIN was.pending_requests \cup {id}
          /\ requests[id] = request
          /\ \A i \in DOMAIN was.pending_requests :
               i # id => requests[i] = was.pending_requests[i]
      BY DEF requests, Put
    <3> QED
      BY <3>1, <3>2, <3>3
  <2> QED
    BY <2>1, <2>2
<1>10. IndexesOK'
  <2>1. Live' = Live
    BY DEF Live
  <2> SUFFICES ASSUME NEW q \in DOMAIN per_peer_state'
               PROVE  /\ \A s \in DOMAIN Outs(q)' : s \in Live /\ bought[s].peer = q
                      /\ \A c \in DOMAIN ByUser(q)' :
                           ByUser(q)'[c] \in Scids /\ c = UserChannelId[ByUser(q)'[c]]
                      /\ \A c \in DOMAIN ByChannel(q)' :
                           ByChannel(q)'[c] \in Scids /\ c = UserChannelId[ByChannel(q)'[c]]
    BY <2>1 DEF IndexesOK
  <2>2. CASE q \in DOMAIN per_peer_state
    BY <1>5, <2>2 DEF ServiceInv, IndexesOK
  <2>3. CASE q \notin DOMAIN per_peer_state
    BY <1>6, <2>3
  <2> QED
    BY <2>2, <2>3
<1> QED
  BY <1>7, <1>8, <1>9, <1>10

(* Taking out a request leaves the other maps of its peer alone             *)
(* (service.rs:505-506, 557-561).                                           *)
LEMMA RequestTaken ==
  ASSUME ServiceInv, NEW p \in DOMAIN per_peer_state, NEW id,
         per_peer_state' = [per_peer_state EXCEPT ![p] = Taken(p, id)],
         promised \subseteq promised', UNCHANGED <<bought, removed>>
  PROVE  Kept /\ PeersOK' /\ RequestsOK' /\ IndexesOK'
<1> DEFINE requests == Without(Requests(p), id)
<1>1. /\ DOMAIN Taken(p, id) = PeerStateFields
      /\ Taken(p, id).outbound_channels_by_intercept_scid = Outs(p)
      /\ Taken(p, id).intercept_scid_by_user_channel_id = ByUser(p)
      /\ Taken(p, id).intercept_scid_by_channel_id = ByChannel(p)
      /\ Taken(p, id).pending_requests = requests
  <2>1. DOMAIN per_peer_state[p] = PeerStateFields
    BY DEF ServiceInv, PeersOK
  <2> QED
    BY <2>1 DEF PeerStateFields, Taken, Outs, ByUser, ByChannel, Requests
<1> HIDE DEF requests
<1>2. /\ DOMAIN per_peer_state' = DOMAIN per_peer_state
      /\ \A q \in DOMAIN per_peer_state :
           per_peer_state'[q] = IF q = p THEN Taken(p, id) ELSE per_peer_state[q]
  OBVIOUS
<1>3. \A q \in DOMAIN per_peer_state :
        /\ DOMAIN per_peer_state'[q] = PeerStateFields
        /\ Outs(q)' = Outs(q) /\ ByUser(q)' = ByUser(q) /\ ByChannel(q)' = ByChannel(q)
        /\ Requests(q)' = IF q = p THEN requests ELSE Requests(q)
  BY <1>1, <1>2 DEF Outs, ByUser, ByChannel, Requests, ServiceInv, PeersOK
<1>4. /\ DOMAIN requests \subseteq DOMAIN Requests(p)
      /\ \A i \in DOMAIN requests : requests[i] = Requests(p)[i]
  BY WithoutMaps DEF requests
<1>5. Kept
  BY <1>2, <1>3 DEF Kept
<1>6. PeersOK'
  BY <1>2, <1>3 DEF ServiceInv, PeersOK
<1>7. RequestsOK'
  BY <1>2, <1>3, <1>4 DEF ServiceInv, RequestsOK, Bargain
<1>8. IndexesOK'
  <2>1. Live' = Live
    BY DEF Live
  <2> QED
    BY <1>2, <1>3, <2>1 DEF ServiceInv, IndexesOK
<1> QED
  BY <1>5, <1>6, <1>7, <1>8

(* What negotiation leaves alone.                                           *)
LEMMA NegotiationKeepsInv ==
  ASSUME IInv, Kept, PeersOK', RequestsOK', IndexesOK', PurchasesOK', PromisesOK',
         UNCHANGED <<peer_by_intercept_scid, peer_by_channel_id, bought, others>>
  PROVE  IInv'
<1>1. EnvironmentOK' /\ OpeningsOK'
  BY DEF IInv, ServiceInv, EnvironmentOK, OpeningsOK, others, ldk, Leads, IsMap
<1>2. ServiceInv' /\ Live' = Live /\ \A s \in Live : Jit(s)' = Jit(s)
  BY <1>1, KeptChannels DEF IInv, others, ldk
<1>3. Announced' = Announced /\ AnnouncedOnce'
  BY DEF Announced, AnnouncedOnce, Announces, IInv, HTLCsOK, others, ldk
<1>4. \A id \in Ids : Waits(id)' = Waits(id)
  BY DEF Waits, others, ldk
<1>5. \A id \in Announced : id \in Ids /\ Waits(id)
  BY DEF Announced, IInv, HTLCsOK
<1>6. HTLCsOK' /\ QueuesOK' /\ HeldHTLCsAreOwned'
  BY <1>2, <1>3, <1>4, <1>5, KeptHTLCs DEF IInv, HTLCsOK, others, ldk
<1> QED
  BY <1>2, <1>6 DEF IInv

(* The terms of the LSP are fee parameters at any time.                     *)
LEMMA TermsArePromised ==
  ASSUME NEW t \in Terms, NEW n \in Nat
  PROVE  RawParams(t, n) \in RawOpeningFeeParams
<1>1. 0 \in Times
  BY LSPS2ServiceAssumption DEF Times
<1>2. RawParams(t, 0) \in RawOpeningFeeParams
  BY <1>1, LSPS2ServiceAssumption
<1>3. /\ RawParams(t, 0).min_fee_msat = t.min_fee_msat
      /\ RawParams(t, 0).proportional = t.proportional
      /\ RawParams(t, 0).min_payment_size_msat = t.min_payment_size_msat
      /\ RawParams(t, 0).max_payment_size_msat = t.max_payment_size_msat
  BY DEF RawParams
<1>4. /\ t.min_fee_msat \in Nat /\ t.proportional \in Nat
      /\ t.min_payment_size_msat \in Nat /\ t.max_payment_size_msat \in Nat
  BY <1>2, <1>3 DEF RawOpeningFeeParams
<1> QED
  BY <1>4 DEF RawParams, RawOpeningFeeParams

(* The parameters of an accepted request are those that were promised, or   *)
(* the promise would not fit (utils.rs:13-25).                              *)
LEMMA AcceptedIsBargain ==
  ASSUME ServiceInv, NEW size \in Sizes, NEW t \in Terms, NEW v \in Times,
         NEW params \in promised, NEW buy,
         buy = BuyRequest([params EXCEPT !.raw = RawParams(t, v)], size),
         Acceptable(buy, now)
  PROVE  Bargain(buy, now)
<1> DEFINE raw == RawParams(t, v)
           sent == [params EXCEPT !.raw = raw]
<1>1. PICK made \in RawOpeningFeeParams : params = into_opening_fee_params(made)
  BY DEF ServiceInv, PromisesOK
<1>2. /\ sent = [raw |-> raw, promise |-> promise(made)]
      /\ buy.opening_fee_params = sent /\ buy.payment_size_msat = size
  BY <1>1 DEF into_opening_fee_params, BuyRequest
<1> HIDE DEF sent
<1>3. promise(made) = promise(raw) /\ now <= raw.valid_until
  BY <1>2 DEF Acceptable, is_valid_opening_fee_params
<1>4. made = raw
  <2>1. promise(made)[2] = made /\ promise(raw)[2] = raw
    BY DEF promise
  <2> QED
    BY <1>3, <2>1
<1>5. sent = params
  BY <1>1, <1>2, <1>4 DEF into_opening_fee_params
<1>6. raw \in RawOpeningFeeParams /\ size \in Nat \cup {None}
  BY <1>4, LSPS2ServiceAssumption
<1>7. OfferOf(buy) \in Offer
  BY <1>2, <1>6 DEF OfferOf, Offer, RawOpeningFeeParams
<1>8. now \in Times /\ ValidOffer(OfferOf(buy))
  BY DEF ServiceInv, EnvironmentOK, Acceptable
<1> QED
  BY <1>2, <1>3, <1>5, <1>7, <1>8 DEF Bargain

(* A client asks for the menu (service.rs:980-998).                         *)
LEMMA AskKeepsInv ==
  ASSUME IInv, NEW p \in Peers, NEW id \in RequestIds, handle_get_info_request(p, id)
  PROVE  IInv'
<1> DEFINE request == [method |-> "get_info"]
<1>1. AddRequest(p, id, request) /\ request.method # "buy"
  BY DEF handle_get_info_request
<1>2. UNCHANGED <<peer_by_intercept_scid, peer_by_channel_id, promised, bought,
                  removed, others>>
  BY DEF handle_get_info_request, negotiation, others
<1> HIDE DEF request
<1>3. Kept /\ PeersOK' /\ RequestsOK' /\ IndexesOK'
  BY <1>1, <1>2, RequestAdded DEF IInv
<1>4. PurchasesOK' /\ PromisesOK'
  BY <1>2 DEF IInv, ServiceInv, PurchasesOK, PromisesOK, Bargain
<1> QED
  BY <1>2, <1>3, <1>4, NegotiationKeepsInv

(* A client buys: the request is kept only when its offer was made and is   *)
(* valid (service.rs:1000-1107).                                            *)
LEMMA BuyKeepsInv ==
  ASSUME IInv, NEW p \in Peers, NEW id \in RequestIds, NEW buy,
         Acceptable(buy, now) => Bargain(buy, now), handle_buy_request(p, id, buy)
  PROVE  IInv'
<1> DEFINE request == [method |-> "buy", buy |-> buy, at |-> now]
<1>1. UNCHANGED <<peer_by_intercept_scid, peer_by_channel_id, promised, bought,
                  removed, others>>
  BY DEF handle_buy_request, negotiation, others
<1>2. PurchasesOK' /\ PromisesOK'
  BY <1>1 DEF IInv, ServiceInv, PurchasesOK, PromisesOK, Bargain
<1>3. CASE Acceptable(buy, now)
  <2>1. AddRequest(p, id, request)
    BY <1>3 DEF handle_buy_request
  <2>2. request.buy = buy /\ request.at = now
    OBVIOUS
  <2>3. request.method = "buy" => Bargain(request.buy, request.at)
    BY <1>3, <2>2
  <2> HIDE DEF request
  <2>4. Kept /\ PeersOK' /\ RequestsOK' /\ IndexesOK'
    BY <1>1, <2>1, <2>3, RequestAdded DEF IInv
  <2> QED
    BY <1>1, <1>2, <2>4, NegotiationKeepsInv
<1>4. CASE ~Acceptable(buy, now)
  <2>1. UNCHANGED per_peer_state
    BY <1>4 DEF handle_buy_request
  <2>2. PeersOK' /\ RequestsOK' /\ IndexesOK'
    BY <1>1, <2>1 DEF IInv, ServiceInv, PeersOK, RequestsOK, IndexesOK, Bargain, Live,
                      Outs, ByUser, ByChannel, Requests
  <2>3. Kept
    BY <2>1 DEF Kept, Outs, ByChannel
  <2> QED
    BY <1>1, <1>2, <2>2, <2>3, NegotiationKeepsInv
<1> QED
  BY <1>3, <1>4

(* A get_info request is answered: it is gone, and more may be promised than*)
(* before.                                                                  *)
LEMMA AnswerKeepsInv ==
  ASSUME IInv, NEW p, NEW id, Pending(p, id, "get_info"),
         per_peer_state' = [per_peer_state EXCEPT ![p] = Taken(p, id)],
         promised \subseteq promised', PromisesOK',
         UNCHANGED <<peer_by_intercept_scid, peer_by_channel_id, bought, others>>
  PROVE  IInv'
<1>1. UNCHANGED removed
  BY DEF others
<1>2. Kept /\ PeersOK' /\ RequestsOK' /\ IndexesOK'
  BY <1>1, RequestTaken DEF IInv, Pending
<1>3. PurchasesOK'
  BY <1>1 DEF IInv, ServiceInv, PurchasesOK, Bargain
<1> QED
  BY <1>2, <1>3, NegotiationKeepsInv

(* The menu is given, with a promise for each of its offers                 *)
(* (service.rs:550-602).                                                    *)
LEMMA OfferKeepsInv ==
  ASSUME IInv, NEW p, NEW id, OfferMenu(p, id)
  PROVE  IInv'
<1>1. PICK v \in Validity :
        opening_fee_params_generated(p, id, {RawParams(t, now + v) : t \in Terms})
  BY DEF OfferMenu
<1> DEFINE menu == {RawParams(t, now + v) : t \in Terms}
<1>2. now + v \in Nat
  BY LSPS2ServiceAssumption DEF IInv, ServiceInv, EnvironmentOK, Times
<1>3. menu \subseteq RawOpeningFeeParams
  BY <1>2, TermsArePromised
<1> HIDE DEF menu
<1>4. promised' = promised \cup {into_opening_fee_params(raw) : raw \in menu}
  BY <1>1 DEF opening_fee_params_generated, menu
<1>5. PromisesOK'
  BY <1>3, <1>4 DEF IInv, ServiceInv, PromisesOK
<1> QED
  BY <1>1, <1>4, <1>5, AnswerKeepsInv DEF opening_fee_params_generated

(* The token is refused (service.rs:495-543).                               *)
LEMMA TokenKeepsInv ==
  ASSUME IInv, NEW p, NEW id, invalid_token_provided(p, id)
  PROVE  IInv'
<1>1. PromisesOK' /\ promised' = promised
  BY DEF invalid_token_provided, negotiation, IInv, ServiceInv, PromisesOK
<1> QED
  BY <1>1, AnswerKeepsInv DEF invalid_token_provided, negotiation

(* A channel is created for a request.                                      *)
LEMMA InvoiceKeepsInv ==
  ASSUME IInv, NEW p, NEW id, NEW s \in Scids \ DOMAIN bought,
         invoice_parameters_generated(p, id, s)
  PROVE  IInv'
<1> DEFINE request == Requests(p)[id]
           jit == OutboundJITChannel_new(request.buy, UserChannelId[s])
           purchase == [peer |-> p, buy |-> request.buy, at |-> request.at]
           taken == Taken(p, id)
           is == insert_channel(taken, s, jit)
           outs == Put(Outs(p), s, jit)
           by_user == Put(ByUser(p), UserChannelId[s], s)
           requests == Without(Requests(p), id)
<1>1. /\ p \in DOMAIN per_peer_state /\ p \in Peers
      /\ id \in DOMAIN Requests(p) /\ request.method = "buy"
      /\ DOMAIN per_peer_state[p] = PeerStateFields
  BY DEF invoice_parameters_generated, Pending, Requests, IInv, ServiceInv, PeersOK
<1>2. Bargain(request.buy, request.at)
  BY <1>1 DEF IInv, ServiceInv, RequestsOK
<1>3. /\ per_peer_state' = [per_peer_state EXCEPT ![p] = is]
      /\ bought' = Put(bought, s, purchase)
      /\ peer_by_intercept_scid' = Put(peer_by_intercept_scid, s, p)
      /\ UNCHANGED <<peer_by_channel_id, promised, pending_events, now, scid, amount,
                     htlc, via, events, channels, removed>>
  BY DEF invoice_parameters_generated, by_scid, others, ldk, Requests
<1>4. /\ jit.channel = new /\ jit.offer = OfferOf(request.buy)
      /\ jit.user_channel_id = UserChannelId[s] /\ jit.channel_id = None
      /\ DOMAIN jit = JitFields
  BY DEF OutboundJITChannel_new, JitFields
<1>5. purchase.peer = p /\ purchase.buy = request.buy /\ purchase.at = request.at
  OBVIOUS
<1>6. /\ DOMAIN taken = PeerStateFields
      /\ taken.outbound_channels_by_intercept_scid = Outs(p)
      /\ taken.intercept_scid_by_user_channel_id = ByUser(p)
      /\ taken.intercept_scid_by_channel_id = ByChannel(p)
      /\ taken.pending_requests = requests
  BY <1>1 DEF PeerStateFields, Taken, Outs, ByUser, ByChannel, Requests
<1> HIDE DEF jit, request, purchase, taken
<1>7. is = [taken EXCEPT !.intercept_scid_by_user_channel_id = by_user,
                         !.outbound_channels_by_intercept_scid = outs]
  BY <1>4, <1>6 DEF insert_channel
<1> HIDE DEF is, outs, by_user, requests
<1>8. /\ DOMAIN is = PeerStateFields
      /\ is.outbound_channels_by_intercept_scid = outs
      /\ is.intercept_scid_by_user_channel_id = by_user
      /\ is.intercept_scid_by_channel_id = ByChannel(p)
      /\ is.pending_requests = requests
  BY <1>6, <1>7 DEF PeerStateFields
<1>9. /\ DOMAIN per_peer_state' = DOMAIN per_peer_state
      /\ \A q \in DOMAIN per_peer_state :
           /\ DOMAIN per_peer_state'[q] = PeerStateFields
           /\ Outs(q)' = IF q = p THEN outs ELSE Outs(q)
           /\ ByUser(q)' = IF q = p THEN by_user ELSE ByUser(q)
           /\ ByChannel(q)' = ByChannel(q)
           /\ Requests(q)' = IF q = p THEN requests ELSE Requests(q)
  BY <1>1, <1>3, <1>8 DEF Outs, ByUser, ByChannel, Requests, IInv, ServiceInv, PeersOK
<1>10. /\ DOMAIN outs = DOMAIN Outs(p) \cup {s} /\ outs[s] = jit
       /\ \A t \in DOMAIN Outs(p) : t # s => outs[t] = Outs(p)[t]
       /\ \A c \in DOMAIN by_user : \/ by_user[c] = s /\ c = UserChannelId[s]
                                    \/ c \in DOMAIN ByUser(p) /\ by_user[c] = ByUser(p)[c]
       /\ DOMAIN requests \subseteq DOMAIN Requests(p)
       /\ \A i \in DOMAIN requests : requests[i] = Requests(p)[i]
  BY DEF outs, by_user, requests, Put, Without
<1>11. /\ DOMAIN bought' = DOMAIN bought \cup {s} /\ bought'[s] = purchase
       /\ \A t \in DOMAIN bought : bought'[t] = bought[t]
  BY <1>3 DEF Put
<1>12. Live' = Live \cup {s} /\ s \notin Live /\ s \notin DOMAIN removed
  BY <1>3, <1>11 DEF Live, IInv, ServiceInv, PurchasesOK
<1>13. PeersOK' /\ PromisesOK'
  BY <1>3, <1>9 DEF IInv, ServiceInv, PeersOK, PromisesOK
<1>14. RequestsOK'
  BY <1>1, <1>3, <1>9, <1>10 DEF IInv, ServiceInv, RequestsOK, Bargain
<1>15. PurchasesOK'
  BY <1>1, <1>2, <1>3, <1>5, <1>11 DEF IInv, ServiceInv, PurchasesOK, Bargain
<1>16. IndexesOK'
  <2> SUFFICES ASSUME NEW q \in DOMAIN per_peer_state
               PROVE  /\ \A t \in DOMAIN Outs(q)' : t \in Live' /\ bought'[t].peer = q
                      /\ \A c \in DOMAIN ByUser(q)' :
                           ByUser(q)'[c] \in Scids /\ c = UserChannelId[ByUser(q)'[c]]
                      /\ \A c \in DOMAIN ByChannel(q)' :
                           ByChannel(q)'[c] \in Scids /\ c = UserChannelId[ByChannel(q)'[c]]
    BY <1>9 DEF IndexesOK
  <2>1. /\ \A t \in DOMAIN Outs(q) : t \in Live /\ bought[t].peer = q
        /\ \A c \in DOMAIN ByUser(q) :
             ByUser(q)[c] \in Scids /\ c = UserChannelId[ByUser(q)[c]]
        /\ \A c \in DOMAIN ByChannel(q) :
             ByChannel(q)[c] \in Scids /\ c = UserChannelId[ByChannel(q)[c]]
    BY DEF IInv, ServiceInv, IndexesOK
  <2>2. \A t \in DOMAIN Outs(q)' : t \in Live' /\ bought'[t].peer = q
    <3>1. \A t \in Live : t \in Live' /\ bought'[t] = bought[t]
      BY <1>11, <1>12 DEF Live
    <3> QED
      BY <1>5, <1>9, <1>10, <1>11, <1>12, <2>1, <3>1
  <2>3. \A c \in DOMAIN ByUser(q)' :
          ByUser(q)'[c] \in Scids /\ c = UserChannelId[ByUser(q)'[c]]
    BY <1>9, <1>10, <2>1
  <2> QED
    BY <1>9, <2>1, <2>2, <2>3
<1>17. ScidsOK'
  BY <1>3, <1>5, <1>11 DEF IInv, ServiceInv, ScidsOK, Put
<1>18. ASSUME NEW t \in Live
       PROVE  Jit(t)' = Jit(t) /\ Registered(bought[t].peer, t)' /\ bought'[t] = bought[t]
  <2>1. /\ bought[t].peer \in DOMAIN per_peer_state /\ t \in DOMAIN Outs(bought[t].peer)
        /\ Jit(t) = Outs(bought[t].peer)[t] /\ t # s
    BY <1>12, LiveIsRegistered DEF IInv
  <2>2. bought'[t] = bought[t]
    BY <1>11 DEF Live
  <2> QED
    BY <1>9, <1>10, <2>1, <2>2 DEF Registered, Jit, Outs
<1>19. Jit(s)' = jit /\ Registered(bought[s].peer, s)'
  BY <1>1, <1>5, <1>9, <1>10, <1>11 DEF Registered, Jit, Outs
<1>20. ChannelsOK'
  <2> SUFFICES ASSUME NEW t \in Live \cup {s}
               PROVE  JitOK(t)'
    BY <1>12 DEF ChannelsOK
  <2>1. CASE t = s
    <3>1. new \in Channel /\ new.state \notin Forwarding
      BY DEF new, Channel, States, Forwarding
    <3>2. JitFits(s, Jit(s))'
      BY <1>4, <1>5, <1>11, <1>19, <3>1 DEF JitFits
    <3> QED
      BY <1>4, <1>19, <2>1, <3>2 DEF JitOK
  <2>2. CASE t \in Live
    <3>1. JitOK(t) /\ Jit(t)' = Jit(t) /\ bought'[t] = bought[t]
      BY <1>18, <2>2 DEF IInv, ServiceInv, ChannelsOK
    <3>2. JitFits(t, Jit(t))'
      BY <3>1 DEF JitOK, JitFits
    <3>3. Registered(bought[t].peer, t)'
      BY <1>18, <2>2, <3>1 DEF Registered
    <3>4. Found(bought[t].peer, t) => Found(bought[t].peer, t)'
      BY <1>3, <1>9, <3>1 DEF Found, Leads, ByChannel
    <3> QED
      BY <3>1, <3>2, <3>3, <3>4 DEF JitOK, Registered, Found
  <2> QED
    BY <2>1, <2>2
<1>21. EnvironmentOK'
  BY <1>3 DEF IInv, ServiceInv, EnvironmentOK
<1>22. OpeningsOK'
  BY <1>3, <1>11 DEF IInv, ServiceInv, OpeningsOK, Leads
<1>23. ForwardsOK'
  BY <1>3, <1>12, <1>18 DEF IInv, ServiceInv, ForwardsOK, Jit
<1>24. ServiceInv'
  BY <1>13, <1>14, <1>15, <1>16, <1>17, <1>20, <1>21, <1>22, <1>23 DEF ServiceInv
<1>25. /\ Queue(s)' = <<>> /\ QueuedIds(<<>>) = {} /\ WellFormed(<<>>, amount)
       /\ \A t \in Live : Queue(t)' = Queue(t)
       /\ Jit(s)'.channel.state = "PendingInitialPayment"
  BY <1>4, <1>18, <1>19 DEF Queue, new, QueuedIds, WellFormed, OnePerHash
<1>26. Announced' = Announced /\ AnnouncedOnce' /\ \A i \in Ids : Waits(i)' = Waits(i)
  BY <1>3 DEF Announced, AnnouncedOnce, Announces, Waits, IInv, HTLCsOK
<1>27. HTLCsOK'
  <2>1. \A t \in Live' : \A i \in QueuedIds(Queue(t)') :
          scid'[i] = t /\ Waits(i)' /\ i \notin Announced'
    BY <1>3, <1>12, <1>25, <1>26, QueuesHoldIds DEF IInv, HTLCsOK
  <2>2. \A i \in Announced' : Waits(i)'
    BY <1>26 DEF IInv, HTLCsOK, Announced
  <2>3. \A i \in Ids : htlc'[i] # "unseen" => scid'[i] \in DOMAIN bought'
    BY <1>3, <1>11 DEF IInv, HTLCsOK
  <2> QED
    BY <1>26, <2>1, <2>2, <2>3 DEF HTLCsOK, Queue
<1>28. QueuesOK'
  <2> SUFFICES ASSUME NEW t \in Live \cup {s}
               PROVE  /\ WellFormed(Queue(t)', amount)
                      /\ Jit(t)'.channel.state = "PendingChannelOpen" => CanPay(Jit(t)'.channel)
                      /\ Jit(t)'.channel.state = "PendingInitialPayment"
                           /\ Jit(t)'.offer.payment_size_msat = None
                           => \A i \in QueuedIds(Queue(t)') : htlc[i] # "held"
    BY <1>3, <1>12 DEF QueuesOK, Queue, WellFormed, OnePerHash, Grouped, CanPay
  <2>1. CASE t = s
    BY <1>25, <2>1
  <2>2. CASE t \in Live
    BY <1>18, <1>25, <2>2 DEF IInv, QueuesOK
  <2> QED
    BY <2>1, <2>2
<1>29. HeldHTLCsAreOwned'
  <2> SUFFICES ASSUME NEW i \in Ids, htlc[i] = "held", NEW t, t = scid[i]
               PROVE  \/ i \in Announced'
                      \/ t \in DOMAIN removed
                      \/ i \in QueuedIds(Queue(t)')
                      \/ \E other \in Ids : scid[other] = t /\ htlc[other] = "expired"
    BY <1>3 DEF HeldHTLCsAreOwned, Announced, Announces, Queue, Jit
  <2>1. \/ i \in Announced
        \/ t \in DOMAIN removed
        \/ i \in QueuedIds(Queue(t))
        \/ \E other \in Ids : scid[other] = t /\ htlc[other] = "expired"
    BY DEF IInv, HeldHTLCsAreOwned, Announced, Announces, Queue, Jit
  <2>2. t \in DOMAIN bought
    BY DEF IInv, HTLCsOK
  <2> QED
    BY <1>25, <1>26, <2>1, <2>2 DEF Live
<1> QED
  BY <1>24, <1>27, <1>28, <1>29 DEF IInv

(* Every step of a negotiation keeps the invariant.                         *)
LEMMA NegotiateKeepsInv ==
  ASSUME IInv, NEW p \in Peers, NEW id \in RequestIds, Negotiate(p, id)
  PROVE  IInv'
<1>1. CASE AskForMenu(p, id)
  BY <1>1, AskKeepsInv DEF AskForMenu
<1>2. CASE invalid_token_provided(p, id)
  BY <1>2, TokenKeepsInv
<1>3. CASE OfferMenu(p, id)
  BY <1>3, OfferKeepsInv
<1>4. CASE Buy(p, id)
  <2>1. PICK size \in Sizes, t \in Terms, v \in Times, params \in promised :
          handle_buy_request(p, id,
            BuyRequest([params EXCEPT !.raw = RawParams(t, v)], size))
    BY <1>4 DEF Buy
  <2> DEFINE buy == BuyRequest([params EXCEPT !.raw = RawParams(t, v)], size)
  <2>2. Acceptable(buy, now) => Bargain(buy, now)
    BY AcceptedIsBargain DEF IInv
  <2> HIDE DEF buy
  <2>3. handle_buy_request(p, id, buy)
    BY <2>1 DEF buy
  <2> QED
    BY <2>2, <2>3, BuyKeepsInv
<1>5. CASE GiveInvoice(p, id)
  BY <1>5, InvoiceKeepsInv DEF GiveInvoice
<1> QED
  BY <1>1, <1>2, <1>3, <1>4, <1>5 DEF Negotiate

-----------------------------------------------------------------------------
(* An event is handled.                                                     *)

(* An event that changes no channel.                                        *)
LEMMA IgnoredKeepsInv ==
  ASSUME IInv, NEW type, NextEvent(type), Kept, PeersOK', RequestsOK', IndexesOK',
         type = "HTLCIntercepted" => scid[Head(events).id] \in DOMAIN removed,
         IsMap(peer_by_channel_id', ChannelIds, Peers),
         \A t \in Live : Leads(peer_by_channel_id, UserChannelId[t], bought[t].peer) =>
                           Leads(peer_by_channel_id', UserChannelId[t], bought[t].peer),
         UNCHANGED <<peer_by_intercept_scid, negotiation, pending_events, now, scid,
                     amount, htlc, via, channels, removed>>
  PROVE  IInv'
<1>1. UNCHANGED <<promised, bought>>
  BY DEF negotiation
<1>2. OpeningsOK'
  BY <1>1, HandlingKeepsOpenings DEF IInv
<1>3. EnvironmentOK'
  BY HeadHandled DEF IInv, ServiceInv, EnvironmentOK
<1>4. PurchasesOK' /\ PromisesOK'
  BY <1>1 DEF IInv, ServiceInv, PurchasesOK, PromisesOK, Bargain
<1>5. ServiceInv' /\ Live' = Live /\ \A s \in Live : Jit(s)' = Jit(s)
  BY <1>1, <1>2, <1>3, <1>4, KeptChannels DEF IInv
<1>6. /\ AnnouncedOnce' /\ Announced' \subseteq Announced
      /\ \A id \in Announced \ Announced' : type = "HTLCIntercepted" /\ id = Head(events).id
  BY AnnouncedMoves DEF IInv, ServiceInv, HTLCsOK
<1>7. \A id \in Announced \ Announced' : scid[id] \in DOMAIN removed
  BY <1>6
<1>8. \A id \in Ids : Waits(id)' = Waits(id)
  BY DEF Waits
<1>9. \A id \in Announced : id \in Ids /\ Waits(id)
  BY DEF Announced, IInv, HTLCsOK
<1>10. HTLCsOK' /\ QueuesOK' /\ HeldHTLCsAreOwned'
  BY <1>1, <1>5, <1>6, <1>7, <1>8, <1>9, KeptHTLCs DEF IInv, HTLCsOK
<1> QED
  BY <1>5, <1>10 DEF IInv

(* It is ignored.                                                           *)
LEMMA UntouchedKeepsInv ==
  ASSUME IInv, NEW type, NextEvent(type),
         type = "HTLCIntercepted" => scid[Head(events).id] \in DOMAIN removed,
         IsMap(peer_by_channel_id', ChannelIds, Peers),
         \A t \in Live : Leads(peer_by_channel_id, UserChannelId[t], bought[t].peer) =>
                           Leads(peer_by_channel_id', UserChannelId[t], bought[t].peer),
         UNCHANGED <<per_peer_state, peer_by_intercept_scid, negotiation,
                     pending_events, now, scid, amount, htlc, via, channels, removed>>
  PROVE  IInv'
<1>1. PeersOK' /\ RequestsOK' /\ IndexesOK'
  BY DEF IInv, ServiceInv, PeersOK, RequestsOK, IndexesOK, Bargain, Live, negotiation,
         Outs, ByUser, ByChannel, Requests
<1>2. Kept
  BY DEF Kept, Outs, ByChannel
<1> QED
  BY <1>1, <1>2, IgnoredKeepsInv

(* The invariant of one channel, for the lemmas about its methods.          *)
LEMMA LiveChannel ==
  ASSUME IInv, NEW s \in Live
  PROVE  /\ Jit(s).channel \in Channel /\ DOMAIN Jit(s) = JitFields
         /\ Jit(s).offer \in Offer /\ ValidOffer(Jit(s).offer)
         /\ Jit(s).user_channel_id = UserChannelId[s]
         /\ Jit(s).channel_id \in {None, UserChannelId[s]}
         /\ Jit(s).channel.state \in Forwarding => Jit(s).channel_id # None
         /\ Jit(s).channel_id # None => Found(bought[s].peer, s)
         /\ WellFormed(Jit(s).channel.payment_queue, amount)
         /\ Jit(s).channel.state = "PendingChannelOpen" => CanPay(Jit(s).channel)
         /\ Jit(s).channel.state = "PendingInitialPayment" /\ Jit(s).offer.payment_size_msat = None
              => \A id \in QueuedIds(Jit(s).channel.payment_queue) : htlc[id] # "held"
         /\ \A id \in QueuedIds(Jit(s).channel.payment_queue) :
              id \in Ids /\ scid[id] = s /\ Waits(id) /\ id \notin Announced
<1>1. JitOK(s) /\ s \in DOMAIN bought
  BY DEF IInv, ServiceInv, ChannelsOK, Live
<1>2. OfferOf(bought[s].buy) \in Offer /\ ValidOffer(OfferOf(bought[s].buy))
  BY <1>1 DEF IInv, ServiceInv, PurchasesOK, Bargain
<1>3. \A id \in QueuedIds(Jit(s).channel.payment_queue) :
        id \in Ids /\ scid[id] = s /\ Waits(id) /\ id \notin Announced
  BY QueuesHoldIds DEF IInv, HTLCsOK, Queue
<1>4. /\ WellFormed(Jit(s).channel.payment_queue, amount)
      /\ Jit(s).channel.state = "PendingChannelOpen" => CanPay(Jit(s).channel)
      /\ Jit(s).channel.state = "PendingInitialPayment" /\ Jit(s).offer.payment_size_msat = None
           => \A id \in QueuedIds(Jit(s).channel.payment_queue) : htlc[id] # "held"
  BY DEF IInv, QueuesOK, Queue
<1> QED
  BY <1>1, <1>2, <1>3, <1>4 DEF JitOK, JitFits

(* The result of an HTLC.                                                   *)
LEMMA ResultKeepsInv ==
  ASSUME IInv, NEW type \in {"PaymentForwarded", "HTLCHandlingFailed"}, HandleResult(type)
  PROVE  IInv'
<1> DEFINE c == Head(events).channel_id
           p == peer_by_channel_id[c]
           s == ByChannel(p)[c]
           jit == Outs(p)[s]
           outcome == IF type = "PaymentForwarded" THEN payment_forwarded(jit.channel)
                      ELSE htlc_handling_failed(jit.channel)
<1>1. /\ NextEvent(type)
      /\ UNCHANGED <<peer_by_intercept_scid, peer_by_channel_id, negotiation,
                     pending_events, now, scid, amount, channels, removed>>
  BY DEF HandleResult
<1>2. \/ UNCHANGED <<per_peer_state, htlc, via, fee_payments>>
      \/ /\ Registered(p, s) /\ outcome.action # "Err"
         /\ Perform(p, s, per_peer_state[p], jit, outcome)
  BY DEF HandleResult, ByChannel, Outs
<1>3. IsMap(peer_by_channel_id', ChannelIds, Peers) /\ UNCHANGED <<promised, bought>>
  BY <1>1 DEF IInv, ServiceInv, EnvironmentOK, negotiation
<1>4. CASE UNCHANGED <<per_peer_state, htlc, via, fee_payments>>
  BY <1>1, <1>3, <1>4, UntouchedKeepsInv
<1>5. CASE /\ Registered(p, s) /\ outcome.action # "Err"
           /\ Perform(p, s, per_peer_state[p], jit, outcome)
  <2>1. PICK scid_ \in Live : scid_ = s
    BY <1>5, RegisteredIsLive DEF IInv
  <2>2. p = bought[scid_].peer /\ jit = Jit(scid_) /\ p \in DOMAIN per_peer_state
    BY <1>5, <2>1, RegisteredIsLive DEF IInv
  <2> DEFINE state == per_peer_state[bought[scid_].peer]
             ch == Jit(scid_).channel
             ids == QueuedIds(ch.payment_queue)
  <2>3. Perform(bought[scid_].peer, scid_, state, Jit(scid_), outcome)
    BY <1>5, <2>1, <2>2
  <2>4. outcome = payment_forwarded(ch) \/ outcome = htlc_handling_failed(ch)
    BY <2>2
  <2>5. outcome.action # "Err"
    BY <1>5
  <2> HIDE DEF outcome, jit, s, p
  <2>6. /\ ch \in Channel /\ WellFormed(ch.payment_queue, amount)
        /\ ch.state = "PendingChannelOpen" => CanPay(ch)
    BY LiveChannel
  <2> HIDE DEF ch
  <2>7. /\ Accounts(ids, outcome, amount) /\ Expects(ch, outcome)
        /\ outcome.channel \in Channel
        /\ ch.state \in Forwarding /\ outcome.channel.state \in Forwarding
    <3>1. CASE outcome = payment_forwarded(ch)
      BY <2>5, <2>6, <3>1, ForwardedAccounts, ForwardedIsSound, ForwardedForwards DEF Sound
    <3>2. CASE outcome = htlc_handling_failed(ch)
      BY <2>5, <2>6, <3>2, FailedAccounts, FailedIsSound, FailedForwards DEF Sound
    <3> QED
      BY <2>4, <3>1, <3>2
  <2>8. /\ Announced' = Announced /\ \A id \in ids : id \in Ids /\ scid[id] = scid_ /\ Waits(id)
        /\ \A id \in ids : id \notin Announced'
    <3>1. Announced' = Announced
      BY <1>1, AnnouncedMoves DEF IInv, ServiceInv, HTLCsOK
    <3> QED
      BY <3>1, LiveChannel DEF ch
  <2>9. /\ DOMAIN state = PeerStateFields
        /\ state.outbound_channels_by_intercept_scid = Outs(bought[scid_].peer)
        /\ state.intercept_scid_by_user_channel_id = ByUser(bought[scid_].peer)
        /\ state.pending_requests = Requests(bought[scid_].peer)
        /\ state.intercept_scid_by_channel_id = ByChannel(bought[scid_].peer)
    BY <2>2 DEF IInv, ServiceInv, PeersOK, Outs, ByUser, ByChannel, Requests
  <2> HIDE DEF state
  <2>10. /\ DOMAIN Jit(scid_) = JitFields
         /\ Jit(scid_).channel_id \in {None, UserChannelId[scid_]}
         /\ Jit(scid_).channel_id # None
         /\ Found(bought[scid_].peer, scid_)
    BY <2>7, LiveChannel DEF ch
  <2>11. OpeningsOK'
    BY <1>1, <1>3, HandlingKeepsOpenings DEF IInv
  <2>12. /\ Leads(channels, UserChannelId[scid_], bought[scid_].peer)
         /\ Leads(peer_by_channel_id', UserChannelId[scid_], bought[scid_].peer)
         /\ Leads(state.intercept_scid_by_channel_id, UserChannelId[scid_], scid_)
    BY <1>1, <2>9, <2>10 DEF Found
  <2>13. /\ Forwards(outcome) /\ outcome.channel.state # "PendingInitialPayment"
    BY <2>7 DEF Forwards, Forwarding
  <2>14. /\ QueuedIds(Queue(scid_)) \subseteq ids /\ Announced \subseteq Announced' \cup ids
         /\ ids \in SUBSET Ids
    BY <2>8 DEF Queue, ch
  <2>15. Expects(Jit(scid_).channel, outcome)
    BY <2>7 DEF ch
  <2> HIDE DEF ids
  <2> QED
    BY <1>1, <1>3, <2>3, <2>7, <2>8, <2>9, <2>10, <2>11, <2>12, <2>13, <2>14, <2>15,
       PerformKeepsInv
<1> QED
  BY <1>2, <1>4, <1>5

(* A channel that is ready is the one its event names.                      *)
LEMMA ReadyIsFound ==
  ASSUME IInv, NextEvent("ChannelReady"), NEW c, c = Head(events).channel_id,
         NEW p, p = Head(events).counterparty_node_id,
         peer_by_channel_id' = Put(peer_by_channel_id, c, p)
  PROVE  /\ c \in ChannelIds /\ p \in Peers /\ Leads(channels, c, p)
         /\ Leads(peer_by_channel_id', c, p)
         /\ IsMap(peer_by_channel_id', ChannelIds, Peers)
         /\ \A t \in Live : Leads(peer_by_channel_id, UserChannelId[t], bought[t].peer) =>
                              Leads(peer_by_channel_id', UserChannelId[t], bought[t].peer)
<1>1. /\ Head(events) \in Events /\ Head(events).type = "ChannelReady"
      /\ 1 \in DOMAIN events /\ events[1] = Head(events)
  BY HeadHandled DEF IInv, ServiceInv
<1>2. c \in ChannelIds /\ p \in Peers
  BY <1>1 DEF Events
<1>3. Leads(channels, c, p)
  BY <1>1 DEF IInv, ServiceInv, OpeningsOK
<1>4. Leads(peer_by_channel_id', c, p)
  BY DEF Put, Leads
<1>5. IsMap(peer_by_channel_id', ChannelIds, Peers)
  BY <1>2, PutKeepsMap DEF IInv, ServiceInv, EnvironmentOK
<1>6. ASSUME NEW t \in Live, Leads(peer_by_channel_id, UserChannelId[t], bought[t].peer)
      PROVE  Leads(peer_by_channel_id', UserChannelId[t], bought[t].peer)
  <2>1. t \in Scids
    BY LiveIsRegistered DEF IInv
  <2>2. c = UserChannelId[t] => bought[t].peer = p
    BY <1>3, <2>1 DEF IInv, ServiceInv, OpeningsOK, Leads
  <2> QED
    BY <1>6, <2>2, PutLeads
<1> QED
  BY <1>2, <1>3, <1>4, <1>5, <1>6

(* A channel is indexed, and nothing else happens.                          *)
LEMMA IndexingKeeps ==
  ASSUME ServiceInv, NEW p \in DOMAIN per_peer_state, NEW s \in Scids, NEW state,
         per_peer_state' = [per_peer_state EXCEPT ![p] = state],
         DOMAIN state = PeerStateFields,
         state.outbound_channels_by_intercept_scid = Outs(p),
         state.intercept_scid_by_user_channel_id = ByUser(p),
         state.pending_requests = Requests(p),
         state.intercept_scid_by_channel_id = Put(ByChannel(p), UserChannelId[s], s),
         UNCHANGED <<bought, removed, promised>>
  PROVE  Kept /\ PeersOK' /\ RequestsOK' /\ IndexesOK'
<1>1. /\ DOMAIN per_peer_state' = DOMAIN per_peer_state
      /\ \A q \in DOMAIN per_peer_state :
           /\ DOMAIN per_peer_state'[q] = DOMAIN per_peer_state[q]
           /\ Outs(q)' = Outs(q) /\ ByUser(q)' = ByUser(q) /\ Requests(q)' = Requests(q)
           /\ ByChannel(q)' = IF q = p THEN Put(ByChannel(q), UserChannelId[s], s)
                              ELSE ByChannel(q)
  BY DEF Outs, ByUser, ByChannel, Requests, ServiceInv, PeersOK
<1>2. Becomes(p, s, Outs(p)[s])
  BY <1>1 DEF Becomes
<1>3. PeersOK' /\ RequestsOK' /\ IndexesOK'
  <2> DEFINE jit == Outs(p)[s]
  <2>1. Becomes(p, s, jit)
    BY <1>2
  <2> HIDE DEF jit
  <2> QED
    BY <2>1, BecomesKeeps DEF ServiceInv
<1>4. ASSUME NEW q \in DOMAIN per_peer_state, NEW c, NEW t, Leads(ByChannel(q), c, t)
      PROVE  Leads(ByChannel(q)', c, t)
  <2>1. CASE q # p
    BY <1>1, <1>4, <2>1
  <2>2. CASE q = p
    <3>1. t \in Scids /\ c = UserChannelId[t]
      BY <1>4 DEF ServiceInv, IndexesOK, Leads
    <3>2. c = UserChannelId[s] => t = s
      BY <3>1, UserChannelIds
    <3> QED
      BY <1>1, <1>4, <2>2, <3>2, PutLeads
  <2> QED
    BY <2>1, <2>2
<1> QED
  BY <1>1, <1>3, <1>4 DEF Kept

(* A channel becomes ready.                                                 *)
LEMMA ReadyKeepsInv ==
  ASSUME IInv, HandleChannelReady
  PROVE  IInv'
<1>1. PICK c \in ChannelIds, p \in Peers :
        c = Head(events).channel_id /\ p = Head(events).counterparty_node_id
  <2>1. Head(events) \in Events /\ Head(events).type = "ChannelReady"
    BY HeadHandled DEF HandleChannelReady, IInv, ServiceInv
  <2> QED
    BY <2>1 DEF Events
<1> DEFINE state == index_channel(per_peer_state[p], c)
           s == ByUser(p)[c]
           jit == Outs(p)[s]
           outcome == channel_ready(jit.channel)
<1>2. /\ NextEvent("ChannelReady")
      /\ peer_by_channel_id' = Put(peer_by_channel_id, c, p)
      /\ UNCHANGED <<peer_by_intercept_scid, negotiation, pending_events, now,
                     scid, amount, channels, removed>>
  BY <1>1 DEF HandleChannelReady
<1>3. IF p \notin DOMAIN per_peer_state \/ c \notin DOMAIN ByUser(p)
      THEN UNCHANGED <<per_peer_state, htlc, via, fee_payments>>
      ELSE IF ~Registered(p, s) \/ outcome.action = "Err"
      THEN /\ per_peer_state' = [per_peer_state EXCEPT ![p] = state]
           /\ UNCHANGED <<htlc, via, fee_payments>>
      ELSE Perform(p, s, state, [jit EXCEPT !.channel_id = c], outcome)
  BY <1>1 DEF HandleChannelReady, ByUser, Outs
<1>4. /\ Leads(channels, c, p) /\ Leads(peer_by_channel_id', c, p)
      /\ IsMap(peer_by_channel_id', ChannelIds, Peers)
      /\ \A t \in Live : Leads(peer_by_channel_id, UserChannelId[t], bought[t].peer) =>
                           Leads(peer_by_channel_id', UserChannelId[t], bought[t].peer)
  BY <1>1, <1>2, ReadyIsFound
<1>5. UNCHANGED <<promised, bought>>
  BY <1>2 DEF negotiation
<1>6. CASE p \notin DOMAIN per_peer_state \/ c \notin DOMAIN ByUser(p)
  <2>1. UNCHANGED <<per_peer_state, htlc, via>>
    BY <1>3, <1>6
  <2> QED
    BY <1>2, <1>4, <2>1, UntouchedKeepsInv
<1>7. CASE p \in DOMAIN per_peer_state /\ c \in DOMAIN ByUser(p)
  <2>1. s \in Scids /\ c = UserChannelId[s]
    BY <1>7 DEF IInv, ServiceInv, IndexesOK
  <2>2. /\ DOMAIN state = PeerStateFields
        /\ state.outbound_channels_by_intercept_scid = Outs(p)
        /\ state.intercept_scid_by_user_channel_id = ByUser(p)
        /\ state.pending_requests = Requests(p)
        /\ state.intercept_scid_by_channel_id = Put(ByChannel(p), c, s)
    <3>1. DOMAIN per_peer_state[p] = PeerStateFields
      BY <1>7 DEF IInv, ServiceInv, PeersOK
    <3>2. state = [per_peer_state[p] EXCEPT !.intercept_scid_by_channel_id =
                                              Put(ByChannel(p), c, s)]
      BY <1>7 DEF index_channel, ByUser, ByChannel
    <3> HIDE DEF state
    <3> QED
      BY <3>1, <3>2 DEF PeerStateFields, Outs, ByUser, ByChannel, Requests
  <2> HIDE DEF state
  <2>3. CASE ~Registered(p, s) \/ outcome.action = "Err"
    <3>1. /\ per_peer_state' = [per_peer_state EXCEPT ![p] = state]
          /\ UNCHANGED <<htlc, via>>
      BY <1>3, <1>7, <2>3
    <3>2. PICK t \in Scids : t = s
      BY <2>1
    <3> HIDE DEF s, outcome
    <3>3. Kept /\ PeersOK' /\ RequestsOK' /\ IndexesOK'
      BY <1>2, <1>5, <1>7, <2>1, <2>2, <3>1, <3>2, IndexingKeeps DEF IInv
    <3> QED
      BY <1>2, <1>4, <3>1, <3>3, IgnoredKeepsInv
  <2>4. CASE Registered(p, s) /\ outcome.action # "Err"
    <3> DEFINE opened == [jit EXCEPT !.channel_id = c]
    <3>1. Perform(p, s, state, opened, outcome)
      BY <1>3, <1>7, <2>4
    <3>2. PICK t \in Live : t = s
      BY <2>4, RegisteredIsLive DEF IInv
    <3> DEFINE ch == Jit(t).channel
               ids == QueuedIds(ch.payment_queue)
    <3>3. p = bought[t].peer /\ jit = Jit(t) /\ c = UserChannelId[t]
      BY <2>1, <2>4, <3>2, RegisteredIsLive DEF IInv
    <3>4. outcome = channel_ready(ch) /\ outcome.action # "Err"
      BY <2>4, <3>3
    <3> HIDE DEF outcome
    <3>5. /\ DOMAIN Jit(t) = JitFields /\ ch \in Channel
          /\ WellFormed(ch.payment_queue, amount)
          /\ ch.state = "PendingChannelOpen" => CanPay(ch)
          /\ Jit(t).channel_id \in {None, UserChannelId[t]}
      BY LiveChannel
    <3>6. /\ DOMAIN opened = JitFields /\ opened.offer = Jit(t).offer
          /\ opened.user_channel_id = Jit(t).user_channel_id
          /\ opened.channel_id = c
      BY <3>3, <3>5 DEF JitFields
    <3> HIDE DEF opened, jit, s, ch
    <3>7. /\ Accounts(ids, outcome, amount) /\ Expects(ch, outcome)
          /\ outcome.channel \in Channel
          /\ outcome.channel.state = "PendingPaymentForward"
      BY <3>4, <3>5, ReadyAccounts, ReadyIsSound, ReadyForwards DEF Sound
    <3>8. Announced' = Announced
      BY <1>2, AnnouncedMoves DEF IInv, ServiceInv, HTLCsOK
    <3>9. /\ \A id \in ids : id \in Ids /\ scid[id] = t /\ Waits(id) /\ id \notin Announced'
          /\ ids \in SUBSET Ids /\ QueuedIds(Queue(t)) \subseteq ids
          /\ Announced \subseteq Announced' \cup ids
      BY <3>8, LiveChannel DEF ch, Queue
    <3>10. OpeningsOK'
      BY <1>2, <1>5, HandlingKeepsOpenings DEF IInv
    <3>11. /\ Forwards(outcome) /\ outcome.channel.state # "PendingInitialPayment"
           /\ c # None /\ Expects(Jit(t).channel, outcome)
      BY <1>1, <3>7, UserChannelIds DEF Forwards, Forwarding, ch
    <3>12. Leads(state.intercept_scid_by_channel_id, UserChannelId[t], t)
      BY <2>2, <3>2, <3>3 DEF Put, Leads
    <3> HIDE DEF ids
    <3> QED
      BY <1>2, <1>4, <1>5, <2>2, <3>1, <3>2, <3>3, <3>5, <3>6, <3>7, <3>9, <3>10,
         <3>11, <3>12, PerformKeepsInv
  <2> QED
    BY <2>3, <2>4
<1> QED
  BY <1>6, <1>7

(* An HTLC is refused and its channel removed: none had gone out over it.   *)
LEMMA RemovalKeepsInv ==
  ASSUME IInv, NextEvent("HTLCIntercepted"), NEW id \in Ids, id = Head(events).id,
         htlc[id] = "held", NEW s \in Live, scid[id] = s, NEW c,
         Jit(s).channel.state = "PendingInitialPayment",
         htlc' = [htlc EXCEPT ![id] = "failed"],
         per_peer_state' = [per_peer_state EXCEPT
           ![bought[s].peer].outbound_channels_by_intercept_scid = Without(@, s)],
         removed' = Put(removed, s, c),
         UNCHANGED <<peer_by_intercept_scid, peer_by_channel_id, negotiation, now,
                     scid, amount, channels, via, pending_events>>
  PROVE  IInv'
<1> DEFINE p == bought[s].peer
           outs == Without(Outs(p), s)
           is == [per_peer_state[p] EXCEPT !.outbound_channels_by_intercept_scid = outs]
<1>1. p \in DOMAIN per_peer_state /\ s \in DOMAIN bought /\ s \in DOMAIN Outs(p)
  BY LiveIsRegistered DEF IInv, Live
<1>2. per_peer_state' = [per_peer_state EXCEPT ![p] = is]
  BY <1>1 DEF Outs
<1> HIDE DEF outs
<1>3. /\ DOMAIN is = PeerStateFields
      /\ is.outbound_channels_by_intercept_scid = outs
      /\ is.intercept_scid_by_user_channel_id = ByUser(p)
      /\ is.intercept_scid_by_channel_id = ByChannel(p)
      /\ is.pending_requests = Requests(p)
  BY <1>1 DEF PeerStateFields, ByUser, ByChannel, Requests, IInv, ServiceInv, PeersOK
<1> HIDE DEF is
<1>4. /\ DOMAIN per_peer_state' = DOMAIN per_peer_state
      /\ \A q \in DOMAIN per_peer_state :
           /\ DOMAIN per_peer_state'[q] = PeerStateFields
           /\ Outs(q)' = IF q = p THEN outs ELSE Outs(q)
           /\ ByUser(q)' = ByUser(q) /\ ByChannel(q)' = ByChannel(q)
           /\ Requests(q)' = Requests(q)
  BY <1>1, <1>2, <1>3 DEF Outs, ByUser, ByChannel, Requests, IInv, ServiceInv, PeersOK
<1>5. /\ DOMAIN outs = DOMAIN Outs(p) \ {s}
      /\ \A t \in DOMAIN outs : outs[t] = Outs(p)[t]
  BY DEF outs, Without
<1>6. UNCHANGED <<bought, promised>>
  BY DEF negotiation
<1>7. DOMAIN removed' = DOMAIN removed \cup {s} /\ Live' = Live \ {s}
  BY <1>6 DEF Put, Live
<1>8. PeersOK' /\ RequestsOK' /\ PurchasesOK' /\ PromisesOK' /\ ScidsOK'
  <2>1. PeersOK'
    BY <1>4 DEF IInv, ServiceInv, PeersOK
  <2>2. RequestsOK'
    BY <1>4, <1>6 DEF IInv, ServiceInv, RequestsOK, Bargain
  <2>3. PurchasesOK' /\ PromisesOK' /\ ScidsOK'
    BY <1>1, <1>6, <1>7 DEF IInv, ServiceInv, PurchasesOK, PromisesOK, ScidsOK, Bargain
  <2> QED
    BY <2>1, <2>2, <2>3
<1>9. IndexesOK'
  <2> SUFFICES ASSUME NEW q \in DOMAIN per_peer_state
               PROVE  /\ \A t \in DOMAIN Outs(q)' : t \in Live' /\ bought[t].peer = q
                      /\ \A k \in DOMAIN ByUser(q)' :
                           ByUser(q)'[k] \in Scids /\ k = UserChannelId[ByUser(q)'[k]]
                      /\ \A k \in DOMAIN ByChannel(q)' :
                           ByChannel(q)'[k] \in Scids /\ k = UserChannelId[ByChannel(q)'[k]]
    BY <1>4, <1>6 DEF IndexesOK
  <2>1. /\ \A t \in DOMAIN Outs(q) : t \in Live /\ bought[t].peer = q
        /\ \A k \in DOMAIN ByUser(q) :
             ByUser(q)[k] \in Scids /\ k = UserChannelId[ByUser(q)[k]]
        /\ \A k \in DOMAIN ByChannel(q) :
             ByChannel(q)[k] \in Scids /\ k = UserChannelId[ByChannel(q)[k]]
    BY DEF IInv, ServiceInv, IndexesOK
  <2>2. \A t \in DOMAIN Outs(q)' : t \in DOMAIN Outs(q) /\ t # s
    BY <1>4, <1>5, <2>1
  <2> QED
    BY <1>4, <1>7, <2>1, <2>2
<1>10. ASSUME NEW t \in Live, t # s
       PROVE  Jit(t)' = Jit(t) /\ Registered(bought[t].peer, t)'
  <2>1. /\ bought[t].peer \in DOMAIN per_peer_state /\ t \in DOMAIN Outs(bought[t].peer)
        /\ Jit(t) = Outs(bought[t].peer)[t]
    BY LiveIsRegistered DEF IInv
  <2> QED
    BY <1>4, <1>5, <1>6, <1>10, <2>1 DEF Registered, Jit, Outs
<1>11. ChannelsOK'
  <2> SUFFICES ASSUME NEW t \in Live, t # s
               PROVE  JitOK(t)'
    BY <1>7 DEF ChannelsOK
  <2>1. JitOK(t) /\ Jit(t)' = Jit(t) /\ Registered(bought[t].peer, t)'
    BY <1>10 DEF IInv, ServiceInv, ChannelsOK
  <2>2. JitFits(t, Jit(t))'
    BY <1>6, <2>1 DEF JitOK, JitFits
  <2>3. Found(bought[t].peer, t) => Found(bought[t].peer, t)'
    BY <1>4, <1>6 DEF Found, Leads, ByChannel
  <2> QED
    BY <2>1, <2>2, <2>3 DEF JitOK
<1>12. EnvironmentOK'
  <2>1. events' \in Seq(Events)
    BY HeadHandled DEF IInv, ServiceInv
  <2>2. htlc' \in [Ids -> Statuses]
    BY DEF IInv, ServiceInv, EnvironmentOK, Statuses
  <2> QED
    BY <2>1, <2>2 DEF IInv, ServiceInv, EnvironmentOK
<1>13. OpeningsOK'
  BY <1>6, HandlingKeepsOpenings DEF IInv
<1>14. ForwardsOK'
  <2> SUFFICES ASSUME NEW i \in Ids, via[i] # None, NEW t, t = scid[i]
               PROVE  /\ t \in Live' /\ via[i] = Jit(t)'.channel_id
                      /\ Jit(t)'.channel.state # "PendingInitialPayment"
    BY DEF ForwardsOK, Jit
  <2>1. /\ t \in Live /\ via[i] = Jit(t).channel_id
        /\ Jit(t).channel.state # "PendingInitialPayment"
    BY DEF IInv, ServiceInv, ForwardsOK, Jit
  <2> QED
    BY <1>7, <1>10, <2>1
<1>15. ServiceInv'
  BY <1>8, <1>9, <1>11, <1>12, <1>13, <1>14 DEF ServiceInv
<1>16. /\ AnnouncedOnce' /\ Announced' \subseteq Announced /\ id \notin Announced'
       /\ \A i \in Announced : i # id => i \in Announced'
  BY AnnouncedMoves DEF IInv, ServiceInv, HTLCsOK
<1>17. /\ \A i \in Ids : htlc'[i] = IF i = id THEN "failed" ELSE htlc[i]
       /\ \A i \in Ids : i # id => Waits(i)' = Waits(i)
  BY DEF Waits, IInv, ServiceInv, EnvironmentOK
<1>18. \A t \in Live' : t \in Live /\ t # s /\ Queue(t)' = Queue(t)
  BY <1>7, <1>10 DEF Queue
<1>19. HTLCsOK'
  <2>1. \A t \in Live' : \A i \in QueuedIds(Queue(t)') :
          scid'[i] = t /\ Waits(i)' /\ i \notin Announced'
    BY <1>16, <1>17, <1>18, QueuesHoldIds DEF IInv, HTLCsOK
  <2>2. \A i \in Announced' : Waits(i)'
    BY <1>16, <1>17 DEF IInv, HTLCsOK, Announced
  <2>3. \A i \in Ids : htlc'[i] # "unseen" => scid'[i] \in DOMAIN bought'
    BY <1>6, <1>17 DEF IInv, HTLCsOK
  <2> QED
    BY <1>16, <2>1, <2>2, <2>3 DEF HTLCsOK, Queue
<1>20. QueuesOK'
  <2> SUFFICES ASSUME NEW t \in Live'
               PROVE  /\ WellFormed(Queue(t)', amount)
                      /\ Jit(t)'.channel.state = "PendingChannelOpen" => CanPay(Jit(t)'.channel)
                      /\ Jit(t)'.channel.state = "PendingInitialPayment"
                           /\ Jit(t)'.offer.payment_size_msat = None
                           => \A i \in QueuedIds(Queue(t)') : htlc'[i] # "held"
    BY DEF QueuesOK, Queue, WellFormed, OnePerHash, Grouped, CanPay
  <2>1. t \in Live /\ Jit(t)' = Jit(t) /\ Queue(t)' = Queue(t)
    BY <1>10, <1>18
  <2>2. \A i \in QueuedIds(Queue(t)) : htlc'[i] = "held" => htlc[i] = "held"
    BY <1>17, <2>1, QueuesHoldIds DEF IInv
  <2> QED
    BY <2>1, <2>2 DEF IInv, QueuesOK
<1>21. HeldHTLCsAreOwned'
  <2> SUFFICES ASSUME NEW i \in Ids, htlc'[i] = "held", NEW t, t = scid[i]
               PROVE  \/ i \in Announced'
                      \/ t \in DOMAIN removed'
                      \/ i \in QueuedIds(Queue(t)')
                      \/ \E other \in Ids : scid[other] = t /\ htlc'[other] = "expired"
    BY DEF HeldHTLCsAreOwned, Announced, Announces, Queue, Jit
  <2>1. htlc[i] = "held" /\ i # id
    BY <1>17
  <2>2. \/ i \in Announced
        \/ t \in DOMAIN removed
        \/ i \in QueuedIds(Queue(t))
        \/ \E other \in Ids : scid[other] = t /\ htlc[other] = "expired"
    BY <2>1 DEF IInv, HeldHTLCsAreOwned, Announced, Announces, Queue, Jit
  <2>3. t \in DOMAIN bought
    BY <2>1 DEF IInv, HTLCsOK
  <2>4. CASE i \in QueuedIds(Queue(t)) /\ t \notin DOMAIN removed'
    BY <1>6, <1>7, <1>18, <2>3, <2>4 DEF Live
  <2>5. CASE \E other \in Ids : scid[other] = t /\ htlc[other] = "expired"
    BY <1>17, <2>5
  <2> QED
    BY <1>7, <1>16, <2>1, <2>2, <2>4, <2>5
<1> QED
  BY <1>15, <1>19, <1>20, <1>21 DEF IInv

(* An HTLC arrives (service.rs:647-770).                                    *)
LEMMA InterceptedKeepsInv ==
  ASSUME IInv, HandleHTLCIntercepted
  PROVE  IInv'
<1>1. /\ NextEvent("HTLCIntercepted")
      /\ UNCHANGED <<peer_by_intercept_scid, peer_by_channel_id, negotiation, now,
                     scid, amount, channels>>
  BY DEF HandleHTLCIntercepted
<1>2. PICK id \in Ids : id = Head(events).id /\ id \in Announced /\ id \notin Announced'
  BY <1>1, AnnouncedMoves DEF IInv, ServiceInv, HTLCsOK, Announced
<1>3. PICK s : s = scid[id]
  OBVIOUS
<1>4. Waits(id) /\ s \in DOMAIN bought
  BY <1>2, <1>3 DEF IInv, HTLCsOK, Waits
<1> DEFINE p == bought[s].peer
           jit == Outs(p)[s]
           outcome == htlc_intercepted(jit.channel, jit.offer, id, amount[id])
<1>5. s \in DOMAIN peer_by_intercept_scid /\ p = peer_by_intercept_scid[s]
  BY <1>4 DEF IInv, ServiceInv, ScidsOK
<1>6. IF ~Registered(p, s)
      THEN UNCHANGED <<per_peer_state, htlc, via, pending_events, removed>>
      ELSE IF outcome.action = "Err" THEN RejectHTLC(p, s, id, outcome)
      ELSE AcceptHTLC(p, s, jit, outcome)
  BY <1>2, <1>3, <1>5 DEF HandleHTLCIntercepted, Outs
<1>7. UNCHANGED <<promised, bought>>
  BY <1>1 DEF negotiation
<1>8. IsMap(peer_by_channel_id', ChannelIds, Peers)
  BY <1>1 DEF IInv, ServiceInv, EnvironmentOK
<1>9. CASE ~Registered(p, s)
  <2>1. s \in DOMAIN removed
    BY <1>4, <1>9, LiveIsRegistered DEF IInv, Live
  <2>2. UNCHANGED <<per_peer_state, htlc, via, pending_events, removed>>
    BY <1>6, <1>9
  <2> QED
    BY <1>1, <1>2, <1>3, <1>8, <2>1, <2>2, UntouchedKeepsInv
<1>10. CASE Registered(p, s)
  <2> DEFINE ch == Jit(s).channel
             ids == QueuedIds(ch.payment_queue) \cup {id}
             state == per_peer_state[p]
  <2>1. s \in Live /\ jit = Jit(s) /\ p \in DOMAIN per_peer_state
    BY <1>10, RegisteredIsLive DEF IInv
  <2>2. outcome = htlc_intercepted(ch, Jit(s).offer, id, amount[id])
    BY <2>1
  <2>3. /\ ch \in Channel /\ DOMAIN Jit(s) = JitFields
        /\ Jit(s).offer \in Offer /\ ValidOffer(Jit(s).offer)
        /\ Jit(s).user_channel_id = UserChannelId[s]
        /\ Jit(s).channel_id \in {None, UserChannelId[s]}
        /\ ch.state \in Forwarding => Jit(s).channel_id # None
        /\ Jit(s).channel_id # None => Found(p, s)
        /\ WellFormed(ch.payment_queue, amount)
        /\ ch.state = "PendingChannelOpen" => CanPay(ch)
        /\ ch.state = "PendingInitialPayment" /\ Jit(s).offer.payment_size_msat = None
             => \A i \in QueuedIds(ch.payment_queue) : htlc[i] # "held"
        /\ \A i \in QueuedIds(ch.payment_queue) :
             i \in Ids /\ scid[i] = s /\ Waits(i) /\ i \notin Announced
    BY <2>1, LiveChannel
  <2>4. amount \in [Ids -> Nat]
    <3>1. amount \in [Ids -> Amounts \cup {0}]
      BY DEF IInv, ServiceInv, EnvironmentOK
    <3>2. Amounts \cup {0} \subseteq Nat
      BY LSPS2ServiceAssumption
    <3> QED
      BY <3>1, <3>2
  <2>5. amount[id] \in Nat /\ id \notin QueuedIds(ch.payment_queue)
    BY <1>2, <2>3, <2>4
  <2>6. /\ Announced \subseteq Announced' \cup {id} /\ Announced' \subseteq Announced
    BY <1>1, <1>2, AnnouncedMoves DEF IInv, ServiceInv, HTLCsOK
  <2>7. /\ \A i \in ids : scid[i] = s /\ Waits(i) /\ i \notin Announced'
        /\ ids \in SUBSET Ids /\ QueuedIds(Queue(s)) \subseteq ids
        /\ Announced \subseteq Announced' \cup ids
    BY <1>2, <1>3, <1>4, <2>3, <2>6 DEF Queue
  <2>8. /\ DOMAIN state = PeerStateFields
        /\ state.outbound_channels_by_intercept_scid = Outs(p)
        /\ state.intercept_scid_by_user_channel_id = ByUser(p)
        /\ state.pending_requests = Requests(p)
        /\ state.intercept_scid_by_channel_id = ByChannel(p)
    BY <2>1 DEF IInv, ServiceInv, PeersOK, Outs, ByUser, ByChannel, Requests
  <2> HIDE DEF ch, outcome
  <2>9. /\ Accounts(ids, outcome, amount) /\ Expects(ch, outcome)
        /\ outcome.action = "Err" => outcome.channel.state = "PendingInitialPayment"
        /\ Jit(s).offer.payment_size_msat = None =>
             outcome.action = "Err" \/ outcome.channel.state # "PendingInitialPayment"
    BY <2>2, <2>3, <2>4, <2>5, InterceptedAccounts
  <2>10. Sound(outcome) /\ Forwards(outcome) /\ outcome.channel \in Channel
    BY <2>2, <2>3, <2>5, InterceptedIsSound, InterceptedForwards DEF Sound
  <2>11. /\ outcome.channel.state \in Forwarding => ch.state \in Forwarding
         /\ outcome.action = "Err" => ch.state = "PendingInitialPayment"
    BY <2>2, <2>3, <2>5, InterceptedForwards
  <2>12. outcome.action = "Err" => Jit(s).offer.payment_size_msat = None
    BY <2>2, <2>3, <2>5, FixedSizeIsAccepted
  <2>13. Jit(s).channel_id # None =>
           /\ Leads(channels, UserChannelId[s], p)
           /\ Leads(peer_by_channel_id', UserChannelId[s], p)
           /\ Leads(state.intercept_scid_by_channel_id, UserChannelId[s], s)
    BY <1>1, <2>3, <2>8 DEF Found
  <2>14. Expects(Jit(s).channel, outcome)
    BY <2>9 DEF ch
  <2> HIDE DEF ids, state
  <2>15. ASSUME UNCHANGED removed, Perform(p, s, state, Jit(s), outcome),
                \A e \in pending_events' :
                  \/ e \in pending_events
                  \/ e = [their_network_key |-> p, user_channel_id |-> UserChannelId[s]],
                outcome.channel.state = "PendingInitialPayment"
                  /\ Jit(s).offer.payment_size_msat = None
                  => \A i \in QueuedIds(outcome.channel.payment_queue) : htlc[i] # "held"
         PROVE  IInv'
    <3>1. OpeningsOK'
      BY <1>1, <1>4, <1>7, <2>15, HandlingKeepsOpenings DEF IInv
    <3>2. \A t \in Live : Leads(peer_by_channel_id, UserChannelId[t], bought[t].peer) =>
                            Leads(peer_by_channel_id', UserChannelId[t], bought[t].peer)
      BY <1>1
    <3>3. outcome.channel.state \in Forwarding => Jit(s).channel_id # None
      BY <2>3, <2>11
    <3> QED
      BY <1>1, <1>7, <1>8, <2>1, <2>3, <2>7, <2>8, <2>9, <2>10, <2>13, <2>14, <2>15,
         <3>1, <3>2, <3>3, PerformKeepsInv
  <2>16. CASE outcome.action = "Err" /\ htlc[id] = "held"
    <3>1. RejectHTLC(p, s, id, outcome)
      BY <1>6, <1>10, <2>16
    <3>2. Jit(s).channel.state = "PendingInitialPayment"
      BY <2>11, <2>16 DEF ch
    <3>3. /\ htlc' = [htlc EXCEPT ![id] = "failed"]
          /\ per_peer_state' = [per_peer_state EXCEPT
               ![p].outbound_channels_by_intercept_scid = Without(@, s)]
          /\ removed' = Put(removed, s, outcome.channel)
          /\ UNCHANGED <<via, pending_events>>
      BY <2>16, <3>1 DEF RejectHTLC
    <3>4. id \in Ids /\ id = Head(events).id /\ htlc[id] = "held" /\ scid[id] = s
      BY <1>2, <1>3, <2>16
    <3>5. PICK c : c = outcome.channel
      OBVIOUS
    <3> QED
      BY <1>1, <2>1, <3>2, <3>3, <3>4, <3>5, RemovalKeepsInv
  <2>17. CASE outcome.action = "Err" /\ htlc[id] # "held"
    <3>1. RejectHTLC(p, s, id, outcome)
      BY <1>6, <1>10, <2>17
    <3>2. outcome.htlcs = <<>>
      BY <2>10, <2>17 DEF Sound
    <3>3. /\ UNCHANGED <<htlc, removed, via, pending_events, fee_payments>>
          /\ per_peer_state' = [per_peer_state EXCEPT
               ![p].outbound_channels_by_intercept_scid[s].channel = outcome.channel]
      BY <2>17, <3>1 DEF RejectHTLC
    <3>4. Perform(p, s, state, Jit(s), outcome)
      <4>1. Forwardable(outcome.htlcs, p, Jit(s).channel_id) = {}
        <5>1. <<>> \in Seq(Ids) /\ Range(<<>>) = {}
          BY DEF Range
        <5> QED
          BY <3>2, <5>1, WhatGoesOut
      <4>2. htlc' = [i \in Ids |-> htlc[i]] /\ via' = [i \in Ids |-> via[i]]
        BY <3>3 DEF IInv, ServiceInv, EnvironmentOK
      <4>3. per_peer_state' = [per_peer_state EXCEPT ![p] =
              [state EXCEPT !.outbound_channels_by_intercept_scid[s] =
                              [Jit(s) EXCEPT !.channel = outcome.channel]]]
        BY <2>1, <3>3 DEF state, Outs
      <4> QED
        BY <3>3, <4>1, <4>2, <4>3 DEF Perform
    <3>5. \A i \in QueuedIds(outcome.channel.payment_queue) : htlc[i] # "held"
      <4>1. QueuedIds(outcome.channel.payment_queue) \subseteq ids
        BY <2>9 DEF Accounts
      <4>2. \A i \in QueuedIds(ch.payment_queue) : htlc[i] # "held"
        BY <2>3, <2>11, <2>12, <2>17
      <4> QED
        BY <2>17, <4>1, <4>2 DEF ids
    <3> QED
      BY <2>15, <3>3, <3>4, <3>5
  <2>18. CASE outcome.action # "Err"
    <3>1. AcceptHTLC(p, s, Jit(s), outcome)
      BY <1>6, <1>10, <2>1, <2>18
    <3>2. Perform(p, s, state, Jit(s), outcome) /\ UNCHANGED removed
      BY <3>1 DEF AcceptHTLC, state
    <3>3. \A e \in pending_events' :
            \/ e \in pending_events
            \/ e = [their_network_key |-> p, user_channel_id |-> UserChannelId[s]]
      BY <2>3, <3>1 DEF AcceptHTLC
    <3> QED
      BY <2>9, <2>15, <2>18, <3>2, <3>3
  <2> QED
    BY <2>16, <2>17, <2>18
<1> QED
  BY <1>9, <1>10

-----------------------------------------------------------------------------
(* The application, the senders and the recipients.                         *)

(* The announcements after an event is emitted.                             *)
LEMMA EmittedAnnounces ==
  ASSUME EnvironmentOK, AnnouncedOnce, NEW e \in Events, Emit(e)
  PROVE  /\ events' \in Seq(Events)
         /\ e.type # "HTLCIntercepted" => AnnouncedOnce' /\ Announced' = Announced
         /\ \A id \in Ids : e = [type |-> "HTLCIntercepted", id |-> id] /\ id \notin Announced
              => AnnouncedOnce' /\ Announced' = Announced \cup {id}
<1>1. PICK n : /\ events' \in Seq(Events) /\ n \in DOMAIN events' /\ events'[n] = e
               /\ n \notin DOMAIN events /\ DOMAIN events' = DOMAIN events \cup {n}
               /\ \A i \in DOMAIN events : events'[i] = events[i]
  BY EmittedComesLast
<1>2. ASSUME e.type # "HTLCIntercepted"
      PROVE  AnnouncedOnce' /\ Announced' = Announced
  <2>1. \A id : ~Announces(n, id)'
    BY <1>1, <1>2 DEF Announces
  <2>2. \A id : \A i \in DOMAIN events : Announces(i, id)' <=> Announces(i, id)
    BY <1>1 DEF Announces
  <2>3. AnnouncedOnce'
    BY <1>1, <2>1, <2>2 DEF AnnouncedOnce
  <2>4. Announced' = Announced
    BY <1>1, <2>1, <2>2 DEF Announced
  <2> QED
    BY <2>3, <2>4
<1>3. ASSUME NEW id \in Ids, e = [type |-> "HTLCIntercepted", id |-> id],
             id \notin Announced
      PROVE  AnnouncedOnce' /\ Announced' = Announced \cup {id}
  <2>1. \A other : Announces(n, other)' <=> other = id
    BY <1>1, <1>3 DEF Announces
  <2>2. \A other : \A i \in DOMAIN events : Announces(i, other)' <=> Announces(i, other)
    BY <1>1 DEF Announces
  <2>3. \A i \in DOMAIN events : ~Announces(i, id)
    BY <1>3 DEF Announced
  <2>4. AnnouncedOnce'
    BY <1>1, <2>1, <2>2, <2>3 DEF AnnouncedOnce
  <2>5. Announced' = Announced \cup {id}
    BY <1>1, <2>1, <2>2 DEF Announced
  <2> QED
    BY <2>4, <2>5
<1> QED
  BY <1>1, <1>2, <1>3

(* The handler after a step it has no part in.                              *)
LEMMA RestingKeepsService ==
  ASSUME IInv, UNCHANGED <<service, promised, bought, removed>>,
         EnvironmentOK', OpeningsOK',
         \A t \in Live : Leads(channels, UserChannelId[t], bought[t].peer) =>
                           Leads(channels', UserChannelId[t], bought[t].peer),
         \A id \in Ids : via'[id] # None => via'[id] = via[id] /\ scid'[id] = scid[id]
  PROVE  ServiceInv' /\ Live' = Live /\ \A s \in Live : Jit(s)' = Jit(s)
<1>1. UNCHANGED <<per_peer_state, peer_by_intercept_scid, peer_by_channel_id>>
  BY DEF service
<1>2. PeersOK' /\ RequestsOK' /\ IndexesOK' /\ PurchasesOK' /\ PromisesOK'
  BY <1>1 DEF IInv, ServiceInv, PeersOK, RequestsOK, IndexesOK, PurchasesOK, PromisesOK,
         Bargain, Live, Outs, ByUser, ByChannel, Requests
<1>3. Kept
  BY <1>1 DEF Kept, Outs, ByChannel
<1> QED
  BY <1>1, <1>2, <1>3, KeptChannels DEF IInv

(* The application opens a channel.                                         *)
LEMMA OpenKeepsInv ==
  ASSUME IInv, OpenChannel
  PROVE  IInv'
<1>1. /\ UNCHANGED <<service, promised, bought, now, scid, amount, htlc, via, removed>>
      /\ AnnouncedOnce
  BY DEF OpenChannel, negotiation, IInv, HTLCsOK
<1>2. PICK e \in pending_events : /\ pending_events' = pending_events \ {e}
                                  /\ Ready(e.user_channel_id, e.their_network_key)
  BY DEF OpenChannel
<1>3. PICK s \in DOMAIN bought : e = [their_network_key |-> bought[s].peer,
                                      user_channel_id |-> UserChannelId[s]]
  BY <1>2 DEF IInv, ServiceInv, OpeningsOK
<1>4. PICK c, p : c = UserChannelId[s] /\ p = bought[s].peer
  OBVIOUS
<1>5. channels' = Put(channels, c, p) /\ Emit(ReadyEvent(c, p))
  BY <1>2, <1>3, <1>4 DEF Ready
<1>6. s \in Scids /\ p \in Peers /\ c \in ChannelIds
  BY <1>4, UserChannelIds DEF IInv, ServiceInv, PurchasesOK
<1>7. ReadyEvent(c, p) \in Events /\ ReadyEvent(c, p).type # "HTLCIntercepted"
  BY <1>6 DEF ReadyEvent, Events
<1>8. events' \in Seq(Events) /\ AnnouncedOnce' /\ Announced' = Announced
  BY <1>1, <1>5, <1>7, EmittedAnnounces DEF IInv, ServiceInv
<1>9. EnvironmentOK'
  <2>1. IsMap(channels', ChannelIds, Peers)
    BY <1>5, <1>6, PutKeepsMap DEF IInv, ServiceInv, EnvironmentOK
  <2> QED
    BY <1>1, <1>8, <2>1 DEF IInv, ServiceInv, EnvironmentOK, service
<1>10. \A k, q : Leads(channels, k, q) => Leads(channels', k, q)
  <2>1. c \in DOMAIN channels => channels[c] = p
    BY <1>4, <1>6 DEF IInv, ServiceInv, OpeningsOK
  <2>2. ASSUME NEW k, NEW q, Leads(channels, k, q)
        PROVE  Leads(channels', k, q)
    <3>1. k = c => q = p
      BY <2>1, <2>2 DEF Leads
    <3> QED
      BY <1>5, <2>2, <3>1, PutLeads
  <2> QED
    BY <2>2
<1>11. OpeningsOK'
  <2>1. \A o \in pending_events' : \E t \in DOMAIN bought :
          o = [their_network_key |-> bought[t].peer, user_channel_id |-> UserChannelId[t]]
    BY <1>2 DEF IInv, ServiceInv, OpeningsOK
  <2>2. ASSUME NEW t \in Scids, UserChannelId[t] \in DOMAIN channels'
        PROVE  t \in DOMAIN bought /\ channels'[UserChannelId[t]] = bought[t].peer
    <3>1. CASE t = s
      BY <1>3, <1>4, <1>5, <3>1 DEF Put
    <3>2. CASE t # s
      <4>1. UserChannelId[t] # c
        BY <1>4, <1>6, <3>2, UserChannelIds
      <4>2. UserChannelId[t] \in DOMAIN channels
            /\ channels'[UserChannelId[t]] = channels[UserChannelId[t]]
        BY <1>5, <2>2, <4>1 DEF Put
      <4> QED
        BY <4>2 DEF IInv, ServiceInv, OpeningsOK
    <3> QED
      BY <3>1, <3>2
  <2>3. ASSUME NEW i \in DOMAIN events', events'[i].type = "ChannelReady"
        PROVE  Leads(channels', events'[i].channel_id, events'[i].counterparty_node_id)
    <3> DEFINE n == Len(events) + 1
    <3>1. /\ events'[n] = ReadyEvent(c, p) /\ DOMAIN events' = DOMAIN events \cup {n}
          /\ \A j \in DOMAIN events : events'[j] = events[j]
      BY <1>5, <1>7, EmittedComesLast DEF IInv, ServiceInv
    <3> HIDE DEF n
    <3>2. CASE i = n
      <4>1. events'[i].channel_id = c /\ events'[i].counterparty_node_id = p
        BY <3>1, <3>2 DEF ReadyEvent
      <4>2. Leads(channels', c, p)
        BY <1>5 DEF Put, Leads
      <4> QED
        BY <4>1, <4>2
    <3>3. CASE i \in DOMAIN events
      BY <1>10, <2>3, <3>1, <3>3 DEF IInv, ServiceInv, OpeningsOK
    <3> QED
      BY <3>1, <3>2, <3>3
  <2> QED
    BY <1>1, <2>1, <2>2, <2>3 DEF OpeningsOK, Leads
<1>12. ServiceInv' /\ Live' = Live /\ \A t \in Live : Jit(t)' = Jit(t)
  BY <1>1, <1>9, <1>10, <1>11, RestingKeepsService
<1>13. HTLCsOK' /\ QueuesOK' /\ HeldHTLCsAreOwned'
  <2>1. \A id : Waits(id)' = Waits(id)
    BY <1>1 DEF Waits
  <2> QED
    BY <1>1, <1>8, <1>12, <2>1, KeptHTLCs DEF IInv, HTLCsOK
<1> QED
  BY <1>12, <1>13 DEF IInv

(* The openings while the channels stay as they are and the event e, if it  *)
(* is not of a channel, is emitted.                                         *)
LEMMA EmittedKeepsOpenings ==
  ASSUME ServiceInv, NEW e \in Events, Emit(e), e.type # "ChannelReady",
         UNCHANGED <<bought, channels, pending_events>>
  PROVE  OpeningsOK'
<1> DEFINE n == Len(events) + 1
<1>1. /\ events'[n] = e /\ DOMAIN events' = DOMAIN events \cup {n}
      /\ \A j \in DOMAIN events : events'[j] = events[j]
  BY EmittedComesLast DEF ServiceInv
<1> HIDE DEF n
<1>2. \A i \in DOMAIN events' : events'[i].type = "ChannelReady" =>
        Leads(channels, events'[i].channel_id, events'[i].counterparty_node_id)
  BY <1>1 DEF ServiceInv, OpeningsOK
<1>3. /\ \A o \in pending_events : \E s \in DOMAIN bought :
           o = [their_network_key |-> bought[s].peer, user_channel_id |-> UserChannelId[s]]
      /\ \A s \in Scids : UserChannelId[s] \in DOMAIN channels =>
           s \in DOMAIN bought /\ channels[UserChannelId[s]] = bought[s].peer
  BY DEF ServiceInv, OpeningsOK
<1> QED
  BY <1>2, <1>3 DEF OpeningsOK, Leads

(* An HTLC arrives at LDK, which announces it.                              *)
LEMMA ReceiveKeepsInv ==
  ASSUME IInv, NEW id \in Ids, Receive(id)
  PROVE  IInv'
<1>1. /\ htlc[id] = "unseen" /\ htlc' = [htlc EXCEPT ![id] = "held"]
      /\ UNCHANGED <<service, promised, bought, pending_events, now, channels,
                     removed, via>>
      /\ AnnouncedOnce
  BY DEF Receive, hop, negotiation, IInv, HTLCsOK
<1>2. PICK s \in DOMAIN bought, a \in Amounts :
        /\ scid[id] \in {None, s}
        /\ scid' = [scid EXCEPT ![id] = s] /\ amount' = [amount EXCEPT ![id] = a]
  BY DEF Receive
<1>3. id \notin Announced
  BY <1>1 DEF IInv, HTLCsOK, Waits
<1> DEFINE e == [type |-> "HTLCIntercepted", id |-> id]
<1>4. e \in Events /\ e.type # "ChannelReady" /\ Emit(e)
  BY DEF Receive, Events
<1>5. events' \in Seq(Events) /\ AnnouncedOnce' /\ Announced' = Announced \cup {id}
  BY <1>1, <1>3, <1>4, EmittedAnnounces DEF IInv, ServiceInv
<1>6. OpeningsOK'
  BY <1>1, <1>4, EmittedKeepsOpenings DEF IInv
<1>7. /\ \A i \in Ids : htlc'[i] = IF i = id THEN "held" ELSE htlc[i]
      /\ \A i \in Ids : scid'[i] = IF i = id THEN s ELSE scid[i]
      /\ \A i \in Ids : i # id => amount'[i] = amount[i]
  BY <1>1, <1>2 DEF IInv, ServiceInv, EnvironmentOK
<1>8. EnvironmentOK'
  <2>1. s \in Scids
    BY DEF IInv, ServiceInv, PurchasesOK
  <2>2. scid' \in [Ids -> Scids \cup {None}]
    BY <1>2, <2>1 DEF IInv, ServiceInv, EnvironmentOK
  <2>3. amount' \in [Ids -> Amounts \cup {0}]
    BY <1>2 DEF IInv, ServiceInv, EnvironmentOK
  <2>4. htlc' \in [Ids -> Statuses]
    BY <1>1 DEF IInv, ServiceInv, EnvironmentOK, Statuses
  <2> QED
    BY <1>1, <1>5, <2>2, <2>3, <2>4 DEF IInv, ServiceInv, EnvironmentOK, service
<1>9. \A i \in Ids : via'[i] # None => via'[i] = via[i] /\ scid'[i] = scid[i]
  <2> SUFFICES ASSUME via[id] # None
               PROVE  scid[id] = s
    BY <1>1, <1>7
  <2>1. scid[id] \in Live
    BY DEF IInv, ServiceInv, ForwardsOK
  <2>2. scid[id] # None
    BY <2>1, LiveIsRegistered, LSPS2ServiceAssumption DEF IInv
  <2> QED
    BY <1>2, <2>2
<1>10. ServiceInv' /\ Live' = Live /\ \A t \in Live : Jit(t)' = Jit(t)
  BY <1>1, <1>6, <1>8, <1>9, RestingKeepsService
<1>11. /\ ~Waits(id) /\ Waits(id)'
       /\ \A i \in Ids : i # id => Waits(i)' = Waits(i)
  BY <1>1, <1>7 DEF Waits
<1>12. HTLCsOK' /\ QueuesOK' /\ HeldHTLCsAreOwned'
  <2>1. \A i \in Announced' : Waits(i)'
    BY <1>5, <1>11 DEF IInv, HTLCsOK, Announced
  <2>2. \A i \in Ids : htlc'[i] # "unseen" => scid'[i] \in DOMAIN bought
    BY <1>7 DEF IInv, HTLCsOK
  <2>3. \A i \in Ids : Waits(i) /\ i \notin Announced =>
          /\ Waits(i)' /\ i \notin Announced'
          /\ scid'[i] = scid[i] /\ amount'[i] = amount[i]
          /\ htlc'[i] = "held" => htlc[i] = "held"
    BY <1>5, <1>7, <1>11
  <2>4. \A i \in Ids : htlc'[i] = "held" =>
          \/ i \in Announced'
          \/ /\ htlc[i] = "held" /\ scid'[i] = scid[i]
             /\ i \in Announced => scid[i] \in DOMAIN removed
    BY <1>5, <1>7
  <2>5. \A i \in Ids : htlc[i] = "expired" => htlc'[i] = "expired" /\ scid'[i] = scid[i]
    BY <1>1, <1>7
  <2> QED
    BY <1>1, <1>5, <1>10, <2>1, <2>2, <2>3, <2>4, <2>5, KeptHTLCs
<1> QED
  BY <1>10, <1>12 DEF IInv

(* A step that changes only where one HTLC is: it was forwarded and comes   *)
(* to its end, or LDK fails it while the service may still hold it.         *)
LEMMA MovedHTLCKeepsInv ==
  ASSUME IInv, NEW id \in Ids, NEW status \in Statuses,
         htlc' = [htlc EXCEPT ![id] = status],
         \/ htlc[id] = "outbound" /\ status \notin {"unseen", "held", "expired"}
         \/ htlc[id] = "held" /\ status = "expired",
         events' \in Seq(Events), AnnouncedOnce', Announced' = Announced,
         OpeningsOK',
         UNCHANGED <<hop, scid, amount, via>>
  PROVE  IInv'
<1>1. /\ UNCHANGED <<service, promised, bought, pending_events, now, channels, removed>>
      /\ AnnouncedOnce
  BY DEF hop, negotiation, IInv, HTLCsOK
<1>2. /\ \A i \in Ids : htlc'[i] = IF i = id THEN status ELSE htlc[i]
      /\ \A i \in Ids : Waits(i)' = Waits(i)
  BY DEF Waits, IInv, ServiceInv, EnvironmentOK
<1>3. EnvironmentOK'
  <2>1. htlc' \in [Ids -> Statuses]
    BY DEF IInv, ServiceInv, EnvironmentOK
  <2> QED
    BY <1>1, <2>1 DEF IInv, ServiceInv, EnvironmentOK, service
<1>4. ServiceInv' /\ Live' = Live /\ \A t \in Live : Jit(t)' = Jit(t)
  BY <1>1, <1>3, RestingKeepsService
<1>5. HTLCsOK' /\ QueuesOK' /\ HeldHTLCsAreOwned'
  <2>1. \A i \in Announced' : Waits(i)'
    BY <1>2 DEF IInv, HTLCsOK, Announced
  <2>2. \A i \in Ids : htlc'[i] # "unseen" => scid'[i] \in DOMAIN bought
    BY <1>2 DEF IInv, HTLCsOK
  <2>3. \A i \in Ids : Waits(i) /\ i \notin Announced =>
          /\ Waits(i)' /\ i \notin Announced'
          /\ scid'[i] = scid[i] /\ amount'[i] = amount[i]
          /\ htlc'[i] = "held" => htlc[i] = "held"
    BY <1>2
  <2>4. \A i \in Ids : htlc'[i] = "held" =>
          \/ i \in Announced'
          \/ /\ htlc[i] = "held" /\ scid'[i] = scid[i]
             /\ i \in Announced => scid[i] \in DOMAIN removed
    BY <1>2
  <2>5. \A i \in Ids : htlc[i] = "expired" => htlc'[i] = "expired" /\ scid'[i] = scid[i]
    BY <1>2
  <2> QED
    BY <1>1, <1>4, <2>1, <2>2, <2>3, <2>4, <2>5, KeptHTLCs
<1> QED
  BY <1>4, <1>5 DEF IInv

(* A forwarded HTLC is claimed or failed back, which LDK reports.           *)
LEMMA ReportKeepsInv ==
  ASSUME IInv, NEW id \in Ids, htlc[id] = "outbound",
         NEW status \in {"claimed", "failed"},
         NEW type \in {"PaymentForwarded", "HTLCHandlingFailed"},
         Result(id, status, type)
  PROVE  IInv'
<1> DEFINE e == [type |-> type, channel_id |-> via[id]]
<1>1. /\ htlc' = [htlc EXCEPT ![id] = status] /\ Emit(e)
      /\ UNCHANGED <<hop, scid, amount, via>>
  BY DEF Result
<1>2. via[id] \in ChannelIds \cup {None}
  BY UserChannelIds DEF IInv, ServiceInv, EnvironmentOK
<1>3. e \in Events /\ e.type # "HTLCIntercepted" /\ e.type # "ChannelReady"
  BY <1>2 DEF Events
<1> HIDE DEF e
<1>4. events' \in Seq(Events) /\ AnnouncedOnce' /\ Announced' = Announced
  BY <1>1, <1>3, EmittedAnnounces DEF IInv, ServiceInv, HTLCsOK
<1>5. OpeningsOK'
  BY <1>1, <1>3, EmittedKeepsOpenings DEF IInv, hop, negotiation
<1>6. status \in Statuses
  BY DEF Statuses
<1> QED
  BY <1>1, <1>4, <1>5, <1>6, MovedHTLCKeepsInv

(* LDK fails an HTLC back that was held too long.                           *)
LEMMA TimeOutKeepsInv ==
  ASSUME IInv, NEW id \in Ids, TimeOut(id)
  PROVE  IInv'
<1>1. /\ htlc[id] = "held" /\ htlc' = [htlc EXCEPT ![id] = "expired"]
      /\ UNCHANGED <<hop, scid, amount, via, events>>
  BY DEF TimeOut
<1>2. AnnouncedOnce' /\ Announced' = Announced /\ events' \in Seq(Events)
  BY <1>1 DEF AnnouncedOnce, Announced, Announces, IInv, HTLCsOK, ServiceInv, EnvironmentOK
<1>3. OpeningsOK'
  BY <1>1 DEF IInv, ServiceInv, OpeningsOK, Leads, hop, negotiation
<1>4. "expired" \in Statuses
  BY DEF Statuses
<1> QED
  BY <1>1, <1>2, <1>3, <1>4, MovedHTLCKeepsInv

(* A step after which every HTLC is where it was.                           *)
LEMMA StillHTLCsKeepInv ==
  ASSUME IInv, UNCHANGED <<service, promised, bought, scid, amount, htlc, via, channels,
                           removed>>,
         EnvironmentOK', OpeningsOK', AnnouncedOnce', Announced' = Announced
  PROVE  IInv'
<1>1. ServiceInv' /\ Live' = Live /\ \A t \in Live : Jit(t)' = Jit(t)
  BY RestingKeepsService
<1>2. \A i \in Ids : Waits(i)' = Waits(i)
  BY DEF Waits
<1>3. \A i \in Announced : i \in Ids /\ Waits(i)
  BY DEF Announced, IInv, HTLCsOK
<1>4. HTLCsOK' /\ QueuesOK' /\ HeldHTLCsAreOwned'
  BY <1>1, <1>2, <1>3, KeptHTLCs DEF IInv, HTLCsOK
<1> QED
  BY <1>1, <1>4 DEF IInv

(* An HTLC over another channel has its result.                             *)
LEMMA OtherResultKeepsInv ==
  ASSUME IInv, NEW c \in OtherChannels, OtherResult(c, "PaymentForwarded")
  PROVE  IInv'
<1> DEFINE e == [type |-> "PaymentForwarded", channel_id |-> c]
<1>1. /\ Emit(e) /\ UNCHANGED <<hop, scid, amount, htlc, via>>
  BY DEF OtherResult
<1>2. UNCHANGED <<service, promised, bought, pending_events, now, channels, removed>>
  BY <1>1 DEF hop, negotiation
<1>3. e \in Events /\ e.type # "HTLCIntercepted" /\ e.type # "ChannelReady"
  BY DEF Events, ChannelIds
<1> HIDE DEF e
<1>4. events' \in Seq(Events) /\ AnnouncedOnce' /\ Announced' = Announced
  BY <1>1, <1>3, EmittedAnnounces DEF IInv, ServiceInv, HTLCsOK
<1>5. OpeningsOK'
  BY <1>1, <1>2, <1>3, EmittedKeepsOpenings DEF IInv
<1>6. EnvironmentOK'
  BY <1>1, <1>2, <1>4 DEF IInv, ServiceInv, EnvironmentOK, service
<1> QED
  BY <1>1, <1>2, <1>4, <1>5, <1>6, StillHTLCsKeepInv

(* Time passes, or nothing happens.                                         *)
LEMMA TimeKeepsInv ==
  ASSUME IInv, now' \in Times,
         UNCHANGED <<service, promised, bought, pending_events, ldk, removed>>
  PROVE  IInv'
<1>1. UNCHANGED <<scid, amount, htlc, via, events, channels>>
  BY DEF ldk
<1>2. AnnouncedOnce' /\ Announced' = Announced
  BY <1>1 DEF AnnouncedOnce, Announced, Announces, IInv, HTLCsOK
<1>3. OpeningsOK'
  BY <1>1 DEF IInv, ServiceInv, OpeningsOK, Leads
<1>4. EnvironmentOK'
  BY <1>1 DEF IInv, ServiceInv, EnvironmentOK, service
<1> QED
  BY <1>1, <1>2, <1>3, <1>4, StillHTLCsKeepInv

-----------------------------------------------------------------------------
(* The invariant holds.                                                     *)

(* The channels the application has from the start, in some order.          *)
LEMMA OthersInOrder == SetToSeq(OtherChannels) \in Seq(OtherChannels)
<1> DEFINE n == Cardinality(OtherChannels)
<1>1. IsFiniteSet(OtherChannels)
  BY LSPS2ServiceAssumption
<1>2. n \in Nat /\ ExistsBijection(1..n, OtherChannels)
  BY <1>1, FS_CardinalityType
<1>3. \E f \in [1..n -> OtherChannels] : IsInjective(f)
  BY <1>2 DEF ExistsBijection, Bijection, Injection
<1>4. SetToSeq(OtherChannels) \in [1..n -> OtherChannels]
  BY <1>3 DEF SetToSeq
<1> HIDE DEF n
<1> QED
  BY <1>2, <1>4

(* At the start the only events are of those channels.                      *)
LEMMA InitIInv ==
  ASSUME Init
  PROVE  IInv
<1>1. /\ per_peer_state = Empty /\ peer_by_intercept_scid = Empty
      /\ peer_by_channel_id = Empty /\ promised = {} /\ pending_events = {}
      /\ now = 0 /\ scid = [id \in Ids |-> None] /\ amount = [id \in Ids |-> 0]
      /\ htlc = [id \in Ids |-> "unseen"] /\ via = [id \in Ids |-> None]
      /\ channels \in [OtherChannels -> Peers]
      /\ bought = Empty /\ removed = Empty
  BY DEF Init
<1>2. PICK c \in Seq(OtherChannels) :
        events = [i \in DOMAIN c |-> ReadyEvent(c[i], channels[c[i]])]
  BY OthersInOrder DEF Init
<1>3. \A i \in DOMAIN c : c[i] \in OtherChannels
  OBVIOUS
<1>4. ASSUME NEW i \in DOMAIN events
      PROVE  /\ events[i] \in Events /\ events[i].type = "ChannelReady"
             /\ Leads(channels, events[i].channel_id, events[i].counterparty_node_id)
  <2>1. events[i] = ReadyEvent(c[i], channels[c[i]]) /\ c[i] \in OtherChannels
    BY <1>2, <1>3
  <2>2. channels[c[i]] \in Peers /\ c[i] \in DOMAIN channels /\ c[i] \in ChannelIds
    BY <1>1, <2>1 DEF ChannelIds
  <2> QED
    BY <2>1, <2>2 DEF ReadyEvent, Events, Leads
<1>5. events \in Seq(Events)
  <2>1. Len(c) \in Nat /\ DOMAIN c = 1..Len(c)
    OBVIOUS
  <2>2. events \in [1..Len(c) -> Events]
    BY <1>2, <1>4, <2>1
  <2> QED
    BY <2>1, <2>2
<1>6. EnvironmentOK
  <2>1. IsMap(channels, ChannelIds, Peers) /\ IsMap(peer_by_channel_id, ChannelIds, Peers)
    BY <1>1, EmptyMaps DEF IsMap, ChannelIds
  <2>2. 0 \in Times
    BY LSPS2ServiceAssumption DEF Times
  <2> QED
    BY <1>1, <1>5, <2>1, <2>2 DEF EnvironmentOK, Statuses
<1>7. PeersOK /\ PromisesOK /\ RequestsOK /\ PurchasesOK /\ IndexesOK /\ ScidsOK
  BY <1>1, EmptyMaps DEF PeersOK, PromisesOK, RequestsOK, PurchasesOK, IndexesOK, ScidsOK
<1>8. Live = {}
  BY <1>1, EmptyMaps DEF Live
<1>9. OpeningsOK
  <2>1. \A s \in Scids : UserChannelId[s] \notin DOMAIN channels
    BY <1>1, UserChannelIds
  <2> QED
    BY <1>1, <1>4, <2>1 DEF OpeningsOK
<1>10. ChannelsOK /\ ForwardsOK
  BY <1>1, <1>8 DEF ChannelsOK, ForwardsOK
<1>11. ServiceInv
  BY <1>6, <1>7, <1>9, <1>10 DEF ServiceInv
<1>12. \A id, i : i \in DOMAIN events => ~Announces(i, id)
  BY <1>4 DEF Announces
<1>13. HTLCsOK
  BY <1>1, <1>8, <1>12 DEF HTLCsOK, AnnouncedOnce, Announced
<1>14. QueuesOK /\ HeldHTLCsAreOwned
  BY <1>1, <1>8 DEF QueuesOK, HeldHTLCsAreOwned
<1> QED
  BY <1>11, <1>13, <1>14 DEF IInv

(* Every step keeps it.                                                     *)
LEMMA NextKeepsInv ==
  ASSUME IInv, [Next]_vars
  PROVE  IInv'
<1>1. CASE \E p \in Peers, id \in RequestIds : Negotiate(p, id)
  BY <1>1, NegotiateKeepsInv
<1>2. CASE HandleEvent
  <2>1. CASE HandleHTLCIntercepted
    BY <2>1, InterceptedKeepsInv
  <2>2. CASE HandleChannelReady
    BY <2>2, ReadyKeepsInv
  <2>3. CASE HandleHTLCHandlingFailed
    BY <2>3, ResultKeepsInv DEF HandleHTLCHandlingFailed
  <2>4. CASE HandlePaymentForwarded
    BY <2>4, ResultKeepsInv DEF HandlePaymentForwarded
  <2> QED
    BY <1>2, <2>1, <2>2, <2>3, <2>4 DEF HandleEvent
<1>3. CASE OpenChannel
  BY <1>3, OpenKeepsInv
<1>4. CASE \E c \in OtherChannels : OtherResult(c, "PaymentForwarded")
  BY <1>4, OtherResultKeepsInv
<1>5. ASSUME NEW id \in Ids, Receive(id) \/ Claim(id) \/ FailBack(id) \/ TimeOut(id)
      PROVE  IInv'
  <2>1. CASE Receive(id)
    BY <2>1, ReceiveKeepsInv
  <2>2. CASE Claim(id)
    BY <2>2, ReportKeepsInv DEF Claim
  <2>3. CASE FailBack(id)
    BY <2>3, ReportKeepsInv DEF FailBack
  <2>4. CASE TimeOut(id)
    BY <2>4, TimeOutKeepsInv
  <2> QED
    BY <1>5, <2>1, <2>2, <2>3, <2>4
<1>6. CASE Tick
  <2>1. now' \in Times
    BY <1>6, LSPS2ServiceAssumption DEF Tick, Times, IInv, ServiceInv, EnvironmentOK
  <2> QED
    BY <1>6, <2>1, TimeKeepsInv DEF Tick, negotiation
<1>7. CASE UNCHANGED vars
  <2>1. UNCHANGED <<service, promised, bought, pending_events, ldk, removed, now>>
    BY <1>7 DEF vars, others, negotiation
  <2>2. now' \in Times
    BY <2>1 DEF IInv, ServiceInv, EnvironmentOK
  <2> QED
    BY <2>1, <2>2, TimeKeepsInv
<1> QED
  BY <1>1, <1>2, <1>3, <1>4, <1>5, <1>6, <1>7 DEF Next

(* The invariant of the service, the HTLCs and LDK.                         *)
LEMMA IInvHolds == Spec => []IInv
<1>1. Init => IInv
  BY InitIInv
<1>2. IInv /\ [Next]_vars => IInv'
  BY NextKeepsInv
<1> QED
  BY <1>1, <1>2, PTL DEF Spec

-----------------------------------------------------------------------------
(* What it says of the service.                                             *)

(* TypeOK: what the handler keeps for its peers, the maps of LSPS2Service-  *)
(* Handler and PeerState (service.rs:418-506), and the state of LDK.        *)
THEOREM TypeOKHolds == Spec => []TypeOK
<1>1. ASSUME IInv
      PROVE  TypeOK
  <2>1. ASSUME NEW p \in DOMAIN per_peer_state
        PROVE  PeerStateOK(per_peer_state[p])
    <3>1. ASSUME NEW s \in DOMAIN Outs(p), NEW jit, jit = Outs(p)[s]
          PROVE  /\ s \in Scids /\ jit.channel \in Channel /\ ValidOffer(jit.offer)
                 /\ jit.user_channel_id \in JITChannelIds
                 /\ jit.channel_id \in {None, jit.user_channel_id}
      <4>1. Registered(p, s)
        BY DEF Registered, Outs
      <4>2. s \in Live /\ s \in Scids /\ jit = Jit(s)
        BY <1>1, <3>1, <4>1, RegisteredIsLive DEF IInv
      <4>3. /\ Jit(s).channel \in Channel /\ ValidOffer(Jit(s).offer)
            /\ Jit(s).user_channel_id = UserChannelId[s]
            /\ Jit(s).channel_id \in {None, UserChannelId[s]}
        BY <1>1, <4>2, LiveChannel
      <4> QED
        BY <4>2, <4>3, UserChannelIds
    <3>2. /\ IsMap(ByUser(p), JITChannelIds, Scids)
          /\ IsMap(ByChannel(p), JITChannelIds, Scids)
      BY <1>1, UserChannelIds DEF IInv, ServiceInv, IndexesOK, IsMap
    <3>3. DOMAIN Requests(p) \subseteq RequestIds
      BY <1>1 DEF IInv, ServiceInv, RequestsOK
    <3> QED
      BY <3>1, <3>2, <3>3 DEF PeerStateOK, Outs, ByUser, ByChannel, Requests
  <2>2. IsMap(peer_by_intercept_scid, Scids, Peers)
    BY <1>1 DEF IInv, ServiceInv, ScidsOK, PurchasesOK, IsMap
  <2> QED
    BY <1>1, <2>1, <2>2 DEF TypeOK, IInv, ServiceInv, PeersOK, EnvironmentOK
<1> QED
  BY <1>1, IInvHolds, PTL

(* BoughtOffersWereMade: each channel was created for an offer that the LSP *)
(* had made, unaltered, valid when the client asked for it, and that its    *)
(* payment size fits (service.rs:1000-1088).                                *)
THEOREM BoughtOffersWereMadeHolds == Spec => []BoughtOffersWereMade
<1>1. IInv => BoughtOffersWereMade
  BY DEF IInv, ServiceInv, PurchasesOK, Bargain, BoughtOffersWereMade
<1> QED
  BY <1>1, IInvHolds, PTL

(* HTLCsFindTheirChannel: the five maps lead each scid to the channel that  *)
(* was bought under it, and the results of each HTLC to the channel it was  *)
(* forwarded over (service.rs:456-468, 623-645, 784-795, 852-864, 911-925). *)
THEOREM HTLCsFindTheirChannelHolds == Spec => []HTLCsFindTheirChannel
<1>1. ASSUME IInv
      PROVE  HTLCsFindTheirChannel
  <2>1. ASSUME NEW s \in Live
        PROVE  /\ Leads(peer_by_intercept_scid, s, bought[s].peer)
               /\ Registered(bought[s].peer, s)
               /\ Jit(s).user_channel_id = UserChannelId[s]
    <3>1. Registered(bought[s].peer, s) /\ Jit(s).user_channel_id = UserChannelId[s]
      BY <1>1, LiveIsRegistered, LiveChannel DEF IInv
    <3> QED
      BY <1>1, <3>1 DEF IInv, ServiceInv, ScidsOK, Live, Leads
  <2>2. ASSUME NEW id \in Ids, via[id] # None
        PROVE  LET p == bought[scid[id]].peer
               IN  /\ Registered(p, scid[id])
                   /\ via[id] = Jit(scid[id]).channel_id
                   /\ Leads(peer_by_channel_id, via[id], p)
                   /\ Leads(per_peer_state[p].intercept_scid_by_channel_id, via[id], scid[id])
    <3>1. PICK s \in Live : s = scid[id] /\ via[id] = Jit(s).channel_id
      BY <1>1, <2>2 DEF IInv, ServiceInv, ForwardsOK
    <3>2. /\ Found(bought[s].peer, s) /\ Jit(s).channel_id = UserChannelId[s]
      BY <1>1, <2>2, <3>1, LiveChannel
    <3>3. Registered(bought[s].peer, s)
      BY <1>1, LiveIsRegistered DEF IInv
    <3> QED
      BY <3>1, <3>2, <3>3 DEF Found, ByChannel
  <2> QED
    BY <2>1, <2>2 DEF HTLCsFindTheirChannel
<1> QED
  BY <1>1, IInvHolds, PTL

(* HeldHTLCsAreOwned: an HTLC that LDK holds waits for its event or in the  *)
(* queue of its channel, unless an HTLC for the same scid had the channel   *)
(* removed or expired (service.rs:743, 747-758, 816, 870, 941).             *)
THEOREM HeldHTLCsAreOwnedHolds == Spec => []HeldHTLCsAreOwned
<1>1. IInv => HeldHTLCsAreOwned
  BY DEF IInv
<1> QED
  BY <1>1, IInvHolds, PTL

(* Which step removes a channel: the refusal of an HTLC that is held.       *)
LEMMA OnlyRefusalRemoves ==
  ASSUME [Next]_vars, removed' # removed
  PROVE  HandleHTLCIntercepted
<1>1. CASE \E p \in Peers, id \in RequestIds : Negotiate(p, id)
  BY <1>1 DEF Negotiate, AskForMenu, handle_get_info_request, invalid_token_provided,
              OfferMenu, opening_fee_params_generated, Buy, handle_buy_request,
              GiveInvoice, invoice_parameters_generated, others
<1>2. CASE HandleEvent
  BY <1>2 DEF HandleEvent, HandleChannelReady, HandleHTLCHandlingFailed,
              HandlePaymentForwarded, HandleResult
<1>3. CASE OpenChannel
  BY <1>3 DEF OpenChannel
<1>4. CASE \E c \in OtherChannels : OtherResult(c, "PaymentForwarded")
  BY <1>4 DEF OtherResult, hop
<1>5. CASE \E id \in Ids : Receive(id) \/ Claim(id) \/ FailBack(id) \/ TimeOut(id)
  BY <1>5 DEF Receive, Claim, FailBack, Result, TimeOut, hop
<1>6. CASE Tick
  BY <1>6 DEF Tick
<1>7. CASE UNCHANGED vars
  BY <1>7 DEF vars, others
<1> QED
  BY <1>1, <1>2, <1>3, <1>4, <1>5, <1>6, <1>7 DEF Next

(* RemovalStrandsNothing: the queue that is dropped with a channel holds no *)
(* HTLC that LDK still holds.  The offer of such a channel names no payment *)
(* size (a fixed one is never refused, service.rs:147-203), so that every   *)
(* HTLC before was failed or expired when it came (service.rs:741-758).     *)
THEOREM RemovalStrandsNothingHolds == Spec => RemovalStrandsNothing
<1>1. ASSUME IInv, [Next]_vars, NEW s \in DOMAIN removed', s \notin DOMAIN removed,
             NEW i \in QueuedIds(removed'[s].payment_queue)
      PROVE  htlc'[i] # "held"
  <2>1. HandleHTLCIntercepted
    BY <1>1, OnlyRefusalRemoves
  <2>2. PICK id \in Ids : id = Head(events).id /\ id \in Announced
    BY <1>1, <2>1, AnnouncedMoves DEF HandleHTLCIntercepted, IInv, ServiceInv, HTLCsOK, Announced
  <2>3. PICK t : t = scid[id]
    OBVIOUS
  <2> DEFINE p == peer_by_intercept_scid[t]
             jit == Outs(p)[t]
             outcome == htlc_intercepted(jit.channel, jit.offer, id, amount[id])
  <2>4. Registered(p, t) /\ outcome.action = "Err" /\ RejectHTLC(p, t, id, outcome)
    BY <1>1, <2>1, <2>2, <2>3 DEF HandleHTLCIntercepted, AcceptHTLC, Outs
  <2>5. /\ htlc[id] = "held" /\ htlc' = [htlc EXCEPT ![id] = "failed"]
        /\ removed' = Put(removed, t, outcome.channel)
    BY <1>1, <2>4 DEF RejectHTLC
  <2>6. t \in Live /\ jit = Jit(t)
    BY <1>1, <2>4, RegisteredIsLive DEF IInv
  <2> DEFINE ch == Jit(t).channel
  <2>7. outcome = htlc_intercepted(ch, Jit(t).offer, id, amount[id])
    BY <2>6
  <2>8. s = t /\ removed'[s] = outcome.channel
    BY <1>1, <2>5 DEF Put
  <2> HIDE DEF outcome, ch
  <2>9. /\ ch \in Channel /\ Jit(t).offer \in Offer /\ ValidOffer(Jit(t).offer)
        /\ WellFormed(ch.payment_queue, amount)
        /\ ch.state = "PendingChannelOpen" => CanPay(ch)
        /\ ch.state = "PendingInitialPayment" /\ Jit(t).offer.payment_size_msat = None
             => \A j \in QueuedIds(ch.payment_queue) : htlc[j] # "held"
        /\ \A j \in QueuedIds(ch.payment_queue) : j \in Ids /\ j \notin Announced
    BY <1>1, <2>6, LiveChannel DEF ch
  <2>10. amount \in [Ids -> Nat]
    <3>1. amount \in [Ids -> Amounts \cup {0}]
      BY <1>1 DEF IInv, ServiceInv, EnvironmentOK
    <3>2. Amounts \cup {0} \subseteq Nat
      BY LSPS2ServiceAssumption
    <3> QED
      BY <3>1, <3>2
  <2>11. amount[id] \in Nat /\ id \notin QueuedIds(ch.payment_queue)
    BY <2>2, <2>9, <2>10
  <2>12. /\ ch.state = "PendingInitialPayment"
         /\ Jit(t).offer.payment_size_msat = None
    BY <2>4, <2>7, <2>9, <2>11, InterceptedForwards, FixedSizeIsAccepted
  <2>13. QueuedIds(outcome.channel.payment_queue) \subseteq QueuedIds(ch.payment_queue) \cup {id}
    <3> DEFINE ids == QueuedIds(ch.payment_queue) \cup {id}
    <3>1. Accounts(ids, outcome, amount)
      BY <2>7, <2>9, <2>10, <2>11, InterceptedAccounts
    <3>2. QueuedIds(outcome.channel.payment_queue) \subseteq ids
      BY <3>1 DEF Accounts
    <3> QED
      BY <3>2
  <2>14. htlc \in [Ids -> Statuses]
    BY <1>1 DEF IInv, ServiceInv, EnvironmentOK
  <2> QED
    BY <1>1, <2>2, <2>5, <2>8, <2>9, <2>12, <2>13, <2>14
<1>2. IInv /\ [Next]_vars =>
        [\A s \in DOMAIN removed' \ DOMAIN removed :
           \A id \in QueuedIds(removed'[s].payment_queue) : htlc'[id] # "held"]_vars
  BY <1>1
<1> QED
  BY <1>2, IInvHolds, PTL DEF Spec, RemovalStrandsNothing

=============================================================================
