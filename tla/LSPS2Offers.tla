---------------------------- MODULE LSPS2Offers ----------------------------
(***************************************************************************)
(* What an LSP promises and a client buys.  The LSP signs raw fee           *)
(* parameters (an HMAC under its secret) and keeps no copy; the client      *)
(* sends them back with the payment size it wants, and the promise tells    *)
(* the LSP that they are its own.  Time is in seconds.                      *)
(***************************************************************************)
EXTENDS OutboundJITChannel

RawOpeningFeeParams ==
  [min_fee_msat : Nat, proportional : Nat, valid_until : Nat,
   min_payment_size_msat : Nat, max_payment_size_msat : Nat]

(* The HMAC of all the fields: equal only for equal parameters.             *)
promise(raw) == <<"hmac", raw>>

into_opening_fee_params(raw) == [raw |-> raw, promise |-> promise(raw)]

(* Mutant of is_valid_opening_fee_params: the time is not looked at.        *)
is_valid_forever(params, now) == params.promise = promise(params.raw)

(* valid_until is the last second at which the parameters are valid.        *)
is_valid_opening_fee_params(params, now) ==
  /\ now <= params.raw.valid_until
  /\ params.promise = promise(params.raw)

BuyRequest(params, size) ==
  [opening_fee_params |-> params, payment_size_msat |-> size]

OfferOf(buy) ==
  LET raw == buy.opening_fee_params.raw
  IN  [payment_size_msat |-> buy.payment_size_msat,
       min_fee_msat |-> raw.min_fee_msat,
       proportional |-> raw.proportional,
       min_payment_size_msat |-> raw.min_payment_size_msat,
       max_payment_size_msat |-> raw.max_payment_size_msat]

(* A buy request that is not refused.                                       *)
Acceptable(buy, now) ==
  /\ ValidOffer(OfferOf(buy))
  /\ is_valid_opening_fee_params(buy.opening_fee_params, now)
=============================================================================
