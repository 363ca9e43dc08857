---------------------------- MODULE LSPS2Channels ----------------------------
(***************************************************************************)
(* The service implements JITChannel, once for each channel it creates.     *)
(***************************************************************************)
EXTENDS LSPS2Service

(* The events of the channel under s, oldest first, as JITChannel has them. *)
EventsOf(s) ==
  LET of_s(e) == IF e.type = "HTLCIntercepted" THEN scid[e.id] = s
                 ELSE e.channel_id = UserChannelId[s]
      mine == SelectSeq(events, of_s)
      shown(e) == IF e.type = "HTLCIntercepted" THEN e ELSE [type |-> e.type]
  IN  [i \in DOMAIN mine |-> shown(mine[i])]

JIT(s) == INSTANCE JITChannel WITH
  Offers <- {OfferOf([opening_fee_params |-> [raw |-> t], payment_size_msat |-> n]) :
               t \in Terms, n \in Sizes},
  HTLCMayTimeOut <- MayTimeOut # {}, OtherTraffic <- FALSE,
  channel <- IF s \in DOMAIN removed THEN removed[s] ELSE Jit(s).channel,
  registered <- s \notin DOMAIN removed,
  offer <- OfferOf(bought[s].buy),
  amount <- [id \in Ids |-> IF scid[id] = s THEN amount[id] ELSE 0],
  htlc <- [id \in Ids |-> IF scid[id] = s THEN htlc[id] ELSE "unseen"],
  events <- EventsOf(s),
  fee_payments <- {p \in fee_payments : \A id \in p : scid[id] = s},
  opening <- CASE UserChannelId[s] \in DOMAIN channels -> "open"
               [] \E e \in pending_events :
                    e.user_channel_id = UserChannelId[s] -> "requested"
               [] OTHER -> "no"

(* From its creation on every JIT channel behaves as JITChannel says,       *)
(* whatever happens to the others: no handler mistakes one for another.     *)
ChannelsAreJITChannels ==
  [][\A s \in DOMAIN bought' :
       IF s \in DOMAIN bought THEN UNCHANGED JIT(s)!vars \/ JIT(s)!Next
       ELSE (JIT(s)!Init)']_vars
=============================================================================
