------------------------- MODULE OutboundJITChannel -------------------------
(***************************************************************************)
(* The state machine of one requested JIT channel, lsps2/service.rs         *)
(* OutboundJITChannelState.  A channel is                                   *)
(*   [state, payment_queue, opening_fee_msat]                               *)
(* and each method gives the outcome [channel, action, htlcs]: what the     *)
(* channel becomes, the action its caller performs and the HTLCs the action *)
(* is about.  The action is "Err" where the method returns an error: the    *)
(* wrappers of OutboundJITChannel assign the new state on Ok only, but the  *)
(* queue is shared, and what was added to it stays.                         *)
(***************************************************************************)
EXTENDS PaymentQueue, LSPS2Fees

States == {"PendingInitialPayment", "PendingChannelOpen",
           "PendingPaymentForward", "PendingPayment", "PaymentForwarded"}

Channel == [state : States, payment_queue : Seq(Payment),
            opening_fee_msat : Nat]

(* The fee parameters and payment size a buy request settled.               *)
Offer == [payment_size_msat : Nat \cup {None}, min_fee_msat : Nat,
          proportional : Nat, min_payment_size_msat : Nat,
          max_payment_size_msat : Nat]

(* The conditions under which handle_buy_request accepts an offer.          *)
ValidOffer(offer) ==
  LET size == offer.payment_size_msat
      fee  == compute_opening_fee(size, offer.min_fee_msat, offer.proportional)
  IN  size # None => /\ size >= offer.min_payment_size_msat
                     /\ size <= offer.max_payment_size_msat
                     /\ fee # None
                     /\ fee < size

(* Mutant of new: the fee is not initialised.                               *)
new_without_fee == [state |-> "PendingInitialPayment", payment_queue |-> <<>>,
                    opening_fee_msat |-> None]

new == [state |-> "PendingInitialPayment", payment_queue |-> <<>>,
        opening_fee_msat |-> 0]

Outcome(channel, action, htlcs) ==
  [channel |-> channel, action |-> action, htlcs |-> htlcs]

Stay(channel) == Outcome(channel, "None", <<>>)
Err(channel)  == Outcome(channel, "Err", <<>>)

(* Forward the first payment of at least the fee and wait for its result;   *)
(* without one, the given outcome.                                          *)
PopAndForward(channel, otherwise) ==
  LET queue == channel.payment_queue
      fee   == channel.opening_fee_msat
  IN  IF position(queue, fee) = 0 THEN otherwise
      ELSE Outcome([channel EXCEPT !.state = "PendingPaymentForward",
                                   !.payment_queue = rest(queue, fee)],
                   "ForwardPayment", popped(queue, fee).htlcs)

(* Mutant of Suffices: the channel is opened before the payment arrived.    *)
Suffices_early(total_msat, size, fee) == saturating_sub(size, fee) > 0

(* Enough arrived to open the channel and to forward something.             *)
Suffices(total_msat, size, fee) ==
  total_msat >= size /\ saturating_sub(size, fee) > 0

(* Mutant of Exceeds: what arrived is compared, not what was agreed.        *)
Exceeds_total(size, total_msat, offer) ==
  total_msat > offer.max_payment_size_msat

(* The payment is larger than the offer allows.                             *)
Exceeds(size, total_msat, offer) == size > offer.max_payment_size_msat

(* The initial payment is still being collected: open the channel when      *)
(* enough arrived, fail what violates the offer.                            *)
initial_htlc_intercepted(channel, offer, id, amount_msat) ==
  LET queue == add_htlc(channel.payment_queue, id, amount_msat)
      payment == queue[find(queue, PaymentHash[id])]
      mpp_mode == offer.payment_size_msat # None
      size == IF mpp_mode THEN offer.payment_size_msat ELSE payment.total_msat
      fee == compute_opening_fee(size, offer.min_fee_msat, offer.proportional)
      queued == [channel EXCEPT !.payment_queue = queue]
      invalid == \/ ~mpp_mode /\ Len(payment.htlcs) # 1
                 \/ size < offer.min_payment_size_msat
                 \/ Exceeds(size, payment.total_msat, offer)
                 \/ fee = None
  IN  CASE invalid -> Err(queued)
        [] ~invalid /\ Suffices(payment.total_msat, size, fee) ->
             Outcome([queued EXCEPT !.state = "PendingChannelOpen",
                                    !.opening_fee_msat = fee],
                     "OpenChannel", <<>>)
        [] OTHER -> IF mpp_mode THEN Stay(queued) ELSE Err(queued)

(* Mutant of WhileForwarding: a second payment is tried at once.            *)
WhileForwarding_eager(queued) == PopAndForward(queued, Stay(queued))

(* An HTLC that arrives while a fee payment is in flight waits.             *)
WhileForwarding(queued) == Stay(queued)

htlc_intercepted(channel, offer, id, amount_msat) ==
  LET queued == [channel EXCEPT
                   !.payment_queue = add_htlc(@, id, amount_msat)]
  IN  CASE channel.state = "PendingInitialPayment" ->
             initial_htlc_intercepted(channel, offer, id, amount_msat)
        [] channel.state = "PendingChannelOpen" -> Stay(queued)
        [] channel.state = "PendingPaymentForward" -> WhileForwarding(queued)
        [] channel.state = "PendingPayment" ->
             PopAndForward(queued, Stay(queued))
        [] channel.state = "PaymentForwarded" ->
             Outcome(channel, "ForwardHTLCs", <<id>>)

channel_ready(channel) ==
  IF channel.state = "PendingChannelOpen"
  THEN PopAndForward(channel, Err(channel))
  ELSE Err(channel)

(* Mutant: with nothing else to forward, the failure is not recorded.       *)
htlc_handling_failed_unrecorded(channel) ==
  IF channel.state = "PendingPaymentForward"
  THEN PopAndForward(channel, Stay(channel))
  ELSE Stay(channel)

(* Mutant: the failure is recorded although another payment is forwarded.   *)
htlc_handling_failed_overwrites(channel) ==
  IF channel.state = "PendingPaymentForward"
  THEN [PopAndForward(channel, Stay(channel))
          EXCEPT !.channel.state = "PendingPayment"]
  ELSE Stay(channel)

(* Mutant: a failure counts as a success.                                   *)
htlc_handling_failed_settles(channel) ==
  IF channel.state = "PendingPaymentForward"
  THEN PopAndForward(channel,
                     Stay([channel EXCEPT !.state = "PaymentForwarded"]))
  ELSE Stay(channel)

htlc_handling_failed(channel) ==
  CASE channel.state = "PendingPaymentForward" ->
         PopAndForward(channel,
                       Stay([channel EXCEPT !.state = "PendingPayment"]))
    [] channel.state \in {"PendingPayment", "PaymentForwarded"} ->
         Stay(channel)
    [] OTHER -> Err(channel)

(* Mutant: a success is only recorded when other HTLCs wait for it.         *)
payment_forwarded_if_queued(channel) ==
  IF channel.state = "PendingPaymentForward" /\ channel.payment_queue # <<>>
  THEN Outcome([channel EXCEPT !.state = "PaymentForwarded",
                               !.payment_queue = <<>>],
               "ForwardHTLCs", clear(channel.payment_queue))
  ELSE Stay(channel)

payment_forwarded(channel) ==
  CASE channel.state = "PendingPaymentForward" ->
         Outcome([channel EXCEPT !.state = "PaymentForwarded",
                                 !.payment_queue = <<>>],
                 "ForwardHTLCs", clear(channel.payment_queue))
    [] channel.state = "PaymentForwarded" -> Stay(channel)
    [] OTHER -> Err(channel)
=============================================================================
