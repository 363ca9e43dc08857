# Verification of lightning-liquidity

TLA+ models of `lightning-liquidity`, the library that adds the LSPS protocols
(liquidity for Lightning wallets) to a node built on LDK. The models are
translated from the code under `src/src/`; TLC checks them on small instances
and TLAPS proves the theorems of the `*Proofs.tla` modules for every instance.

* [The system](#the-system): components, state, operations, interactions
* [The modules](#the-modules): how the models correspond to the code
* [The runs](#the-runs): what is checked, the bounds, the fairness
* [Where the code differs from its docs](#where-the-code-differs-from-its-docs)
* [The proofs](#the-proofs)
* [What is not modelled](#what-is-not-modelled)
* [Plan](#plan)

## The system

A `LiquidityManager` (`manager.rs`) sits beside LDK's `ChannelManager` and
`PeerManager`. Peers exchange JSON-RPC messages in LDK custom messages; the
application makes API calls and reads events. The interesting protocol is LSPS2:
the LSP opens a "just in time" channel when the first payment to a client
arrives at an intercept scid, and keeps its opening fee out of that payment.

| component | source | state | operations |
|---|---|---|---|
| JIT channel | `lsps2/service.rs` 52-428 | `OutboundJITChannelState` (five states with fields), `PaymentQueue`, the offer | `htlc_intercepted`, `channel_ready`, `htlc_handling_failed`, `payment_forwarded` |
| payment queue | `lsps2/payment_queue.rs` | HTLCs grouped by payment hash, in order of arrival | `add_htlc`, `pop_greater_than_msat`, `clear` |
| fees | `lsps2/utils.rs`, `service.rs` 1139-1172 | none | `compute_opening_fee`, `calculate_amount_to_forward_per_htlc` |
| LSPS2 service | `lsps2/service.rs` 430-1136 | `per_peer_state` (pending requests, channels by scid and by channel id), `peer_by_intercept_scid`, `peer_by_channel_id` | the LDK event handlers, the answers of the application, the requests of the client |
| LSPS2 client | `lsps2/client.rs` | pending `get_info` and `buy` requests per LSP | `request_opening_params`, `select_opening_params`, four answer handlers |
| manager | `manager.rs`, `lsps0/ser.rs` | `request_id_to_method_map`, `ignored_peers`, `best_block` | `handle_custom_message`, `get_and_clear_pending_msg`, the `Listen` and `Confirm` calls |
| offers | `lsps2/msgs.rs` 34-77, `lsps2/utils.rs` 17-48 | none: the promise is recomputed | `into_opening_fee_params`, `is_valid_opening_fee_params` |
| messages | `lsps0/ser.rs`, `utils.rs` | none | writing and reading JSON-RPC objects, scids as strings |
| message queue | `message_queue.rs` | messages to send, the callback of the application | `enqueue`, `get_and_clear_pending_msgs` |
| event queue | `events.rs` | events, one `Waker`, a `Condvar` | `enqueue`, `next_event`, `next_event_async`, `wait_next_event`, `get_and_clear_pending_events` |
| LSPS0 | `lsps0/` | none | list of protocols |
| LSPS1 | `lsps1/` (only with `cfg(lsps1)`) | client: channels by user id, requests by id; LSP: orders by id, pending requests | three requests of the client, their handlers, two answers of the LSP's application |

How they interact. A message enters through `handle_custom_message`, is parsed
with the help of the method map (a response names only the id of its request) and
goes to a protocol handler, which may enqueue an event for the application and
a message for the peer. Enqueueing a message runs the application's callback,
which usually calls back into the manager through
`PeerManager::process_events`. The application answers events with API calls,
and passes on four kinds of LDK events: `HTLCIntercepted`, `ChannelReady`,
`HTLCHandlingFailed` and `PaymentForwarded`. All calls may come from any thread.

What is hard, and what makes each part correct:

* **JIT channel.** HTLCs of several payments arrive, time out, fail and succeed
  in any order around the opening of the channel; results are reported per HTLC
  and name only the channel. The fee must be taken once; no HTLC may be lost,
  held forever, forwarded twice or forwarded for free before the fee was paid.
* **Payment queue.** One payment per hash, with the sum its comparisons use.
* **Fees.** The fee covers what the offer says and the parts add up, in the
  presence of rounding and overflow.
* **The maps of the service.** An HTLC is found by its scid, a channel by its
  user id, a result by its channel id. The maps are filled by four calls of
  different peers and must lead to one channel, and to the right one.
* **Offers.** The LSP keeps no copy: what is bought must have been offered, be
  unaltered and not expired.
* **Requests.** Ids must be matched across two queues, two processes and a
  connection that breaks; a misjudged answer makes a peer *ignored* for good.
* **Orders.** Client and LSP must agree on every order although each drops its side
  on an unexpected call; a paid order must not be lost or refunded by a query.
* **Locks.** Nine locks, taken in an order that differs from call to call, and
  a callback that re-enters.
* **Event queue.** Wake-ups must not be lost between looking and waiting.
* **Chain.** Assertions compare connected blocks with `best_block`.

## The modules

| module | models | kind |
|---|---|---|
| `LSPS2Fees` | fee arithmetic; u64 overflow at `U64_MAX` | operators |
| `MCLSPS2Fees` | enumeration of offers and parts | instance |
| `PaymentQueue` | `payment_queue.rs` | operators |
| `OutboundJITChannel` | each method of the channel state machine, as a function from a channel to an outcome | operators |
| `JITChannel` | one channel with its handlers, `ChannelManager`, the senders, the recipient and the application | state machine |
| `MCJITChannel` | offers and payments for TLC | instance |
| `LSPS2Offers` | fee parameters, their promise and its check | operators |
| `LSPS2Service` | the whole `LSPS2ServiceHandler`: peers, requests, maps, many JIT channels | state machine |
| `LSPS2Channels` | the service as an implementation of `JITChannel`, once for each channel | refinement |
| `MCLSPS2Service` | terms and payments for TLC | instance |
| `FeeSequencing` | the promise: payments bear the fee one at a time until one succeeds, then HTLCs pass for free | abstract specification |
| `OutboundJITChannelProofs` | lemmas about the queue and the methods of a channel | proofs |
| `JITChannelProofs` | theorems about `JITChannel` | proofs |
| `JITQueueProofs` | theorems about the queue of `JITChannel`, with payments of any number of parts | proofs |
| `SinglePartProofs` | theorems about `JITChannel` with single-part payments | proofs |
| `LSPS2ServiceProofs` | theorems about `LSPS2Service` | proofs |
| `HandlerLocksProofs` | theorem about `HandlerLocks` | proofs |
| `LSPS1OrdersProofs` | theorems about `LSPS1Orders` | proofs |
| `LSPS2RequestsProofs` | theorems about `LSPS2Requests` | proofs |
| `LSPSMessages` | messages, their JSON objects and how they are read | operators |
| `ScidCodec` | short channel ids and their strings | operators |
| `LSPS2Requests`, `MCLSPS2Requests` | client, LSP and connection | state machine |
| `HandlerLocks` | lock programs of the public calls | state machine |
| `EventQueue`, `MCEventQueue` | `events.rs` | state machine |
| `LSPS1Orders`, `MCLSPS1Orders` | LSPS1 orders of a client at an LSP | state machine |
| `ChainTracking` | `best_block` under the `Listen` calls | state machine |

`JITChannel` EXTENDS `OutboundJITChannel`, which EXTENDS `PaymentQueue` and
`LSPS2Fees`; it INSTANCEs `FeeSequencing` for the refinement. `LSPS2Service`
EXTENDS `LSPS2Offers` over the same operators. `LSPS2Channels` EXTENDS it and
INSTANCEs `JITChannel`, once for each intercept scid, which its channels are
shown to implement: what is checked or proved of one channel holds of each
channel among others.
`LSPS2Requests` EXTENDS `LSPSMessages` and `ScidCodec`. The other modules
stand alone: they share no state with these but the locks, which `HandlerLocks`
treats for all of them.

### `JITChannel`

* `channel` is the Rust `OutboundJITChannel`: `state` is the enum variant,
  `payment_queue` the queue that all variants share, `opening_fee_msat` the
  field of the later variants. A payment's total is kept as a running sum; the
  code adds the amounts again where it compares.
* `registered` says that `outbound_channels_by_intercept_scid` still has the
  channel. It is removed after an interception error (`service.rs:754`), unless
  failing the HTLC failed first (the `?` at 749).
* `htlc[id]` is where LDK has an HTLC: `unseen`, `held` by `ChannelManager` as
  intercepted, `outbound` on the JIT channel, `claimed` or `failed`.
* `events` is LDK's queue of unhandled events. Handlers run one after another;
  `HandleHTLCIntercepted`, `HandleChannelReady`, `HandleHTLCHandlingFailed` and
  `HandlePaymentForwarded` are whole handlers with their early returns,
  the loop over `forward_intercepted_htlc` (`Forwardable`: it stops at the first
  HTLC that LDK no longer holds) and the removal of channels.
* `fee_payments` is a history of the sets of HTLCs forwarded with the fee
  skimmed; the code keeps no such thing, the properties speak about it.
* The environment: `Receive`, `OpenChannel`, `Claim`, `FailBack`, `TimeOut` and
  `OtherResult`. The recipient claims a payment only when it has all parts. With
  a fixed payment size (MPP) the HTLCs of a hash are the parts of one payment;
  without, each HTLC is a payment. `HTLCMayTimeOut` lets LDK fail a held HTLC
  near its expiry: the `HTLCHandlingFailed` it then emits names an
  `InvalidForward` destination without a channel and the handler ignores it.
  `OtherTraffic` lets HTLCs that were not intercepted succeed or fail over the
  channel, whose results the handlers cannot tell from those of JIT payments.

### `LSPS2Service`

* `per_peer_state`, `peer_by_intercept_scid` and `peer_by_channel_id` are the
  fields of `LSPS2ServiceHandler`, with the four maps of `PeerState` as functions;
  a key that was never inserted is outside the domain, and a handler that
  finds none takes its early return.
* Requests: `handle_get_info_request` and `handle_buy_request` record what is
  pending; the buy request checks its size against the limits and the fee, and
  the promise and the expiry of its parameters (`Acceptable`). The application
  answers with `invalid_token_provided`, `opening_fee_params_generated` or
  `invoice_parameters_generated`, which creates the channel and its entries.
* The four handlers of LDK events have the steps of `JITChannel`, preceded by
  the look-ups. `HandleChannelReady` writes `peer_by_channel_id` before it knows
  whether the channel is one of its own, and `intercept_scid_by_channel_id` before
  it knows whether the JIT channel is still there. `RejectHTLC` removes the JIT
  channel and leaves the scid in `peer_by_intercept_scid` (the TODO at 754).
* The environment is that of `JITChannel` with several clients, channels opened
  by the application on its own (`OtherChannels`), a clock, and clients that buy
  with parameters they were promised or with others under the same promise.
* `promised`, `bought`, `removed` and `fee_payments` are histories.

`ChannelsAreJITChannels` (in `LSPS2Channels`) is the refinement: for each scid bought, the part of the
state that belongs to it starts as `JITChannel!Init` says and every step of
the service is a step of `JITChannel!Next` or leaves it alone. It is stated as
an action property, because a channel begins when it is bought.

### `LSPSMessages`, `ScidCodec` and `LSPS2Requests`

A message on the wire is a JSON object, modelled as a record of its fields:
`serialize` writes one for each kind of `LSPSMessage` and
`from_str_with_id_map` reads it back. A response does not name its method; it is
looked up and removed by the id, and a result of one method is not read as that
of another. What cannot be read is a `ParseError`.

`client_get_and_clear_pending_msg` records the method of each request it hands
to `PeerManager`; `client_handle_custom_message` reads an answer with that map
and dispatches it to the handler that drops the pending request, or reports a
parse failure and ignores the LSP. The LSP reads a request, drops one of a protocol
it is not configured for (`config.serves`), and ignores a client whose method its
build does not know (`config.lsps1`). It answers LSPS0 at once; for LSPS2 it
surfaces an event and answers when the application calls one of three functions,
perhaps a second time. The answer to a buy request names the intercept scid
as BLOCKxTXxVOUT, and the client packs it again. `Disconnect`, `RestartClient`
and `RestartLSP` lose what is in flight or in memory (nothing is persisted);
`failures` is a history variable. Other contents of messages are abstract: a buy
request is or is not acceptable, an answer is a result or an error.

### `LSPS1Orders`

`inbound` holds the client's `InboundRequestState`s, `outbound` the LSP's
`OutboundRequestState`s. What an LSP supports is the set of orders that
`is_valid` accepts; the amounts of a payment are abstracted to whether the client
accepts the fees. `place_order` and `check_order_status` may be called again and
then remove the channel, as the code does. The message queue is part of the
connection here. `refunded`, `refused`, `answered` and `failures` are histories,
and so is the `order` a channel keeps after the code forgot it.

### `HandlerLocks`

Every public call is a sequence of lock operations, in the order of the code and
with the scopes its guards have (a temporary guard lives to the end of its
statement). `set_process_msgs_callback` replaces the callback beside them. `Guard`
derives who holds what from the program counters. A `RwLock`
of std lets a waiting writer go first, so a reader also waits for
waiting writers. `get_and_clear_pending_msg` inside `enqueue` is the callback of
the documented setup.

### `EventQueue`

One step per critical section. `poll` registers its waker while the queue's guard
is still alive (the guard is a temporary of the `if let`), so looking and
registering are one step: the mutant `poll_unlocked` shows what would be lost
otherwise. `TakeWaker` and `NotifyOne` are the two later parts of `enqueue`.

### `ChainTracking`

A chain source connects and disconnects blocks in order; the two
`Listen` methods check their assertions and update, or fail to update,
`best_block`.

## The runs

A bound is named where it is used: `Ids`, `Amounts`, `Offers`, `MaxParts`,
`MaxEvents`, `MaxTime`, `MaxHeight`, `MaxRequests` and the sets of threads are
constants of the cfgs; the only bound inside a guard of `JITChannel` is one
unhandled result of other traffic at a time (`OtherResult`), to which
`LSPS2Service` adds one menu at a time and no more purchases than scids
(`AskForMenu`, `Buying`). Deadlock is checked in the runs of
`HandlerLocks`; the other systems stop when all HTLCs are resolved, all inputs
enumerated or all requests answered.

| run | instance | shows |
|---|---|---|
| `fees` | four parts, amounts 1-7, 24 offers | the fee is the least amount that covers the offer, `None` exactly on overflow; the split skims the fee, or less than one msat per part too little when the last part cannot bear the rounding; each part bears its proportion |
| `jit_single` | 3 HTLCs, one per payment, that may time out while queued, 7 offers, fair | one fee payment at a time, no free ride, refinement of `FeeSequencing`, types; the fee is paid at most once; a success is recorded in the end; and, unless an HTLC timed out: `PendingPaymentForward` is backed by a payment in flight or a result on its way, `PendingPayment` by none, held HTLCs are released once the fee is paid, the channel leaves its waiting states |
| `jit_parts` | 2 parts and a single payment, other traffic | the queue is well formed; LDK holds exactly what is queued or not handled yet; a channel that was opened finds its payment; the assertion at `service.rs:143` |
| `service` | 2 peers, 2 scids, 2 terms, 3 HTLCs (two are parts of one payment with a fixed size, one may time out), 2 seconds, 1 other channel | bought offers were made and valid; HTLCs and results find their channel; every channel is a `JITChannel` whatever the others do; what a held HTLC may be left behind by; a removed channel had nothing else to hold |
| `locks` | 10 calls, 3 threads | no circular wait |
| `events` | 2 producers, 1 task, 2 waiting threads, 3 events | no consumer sleeps on while an event is ready |
| `requests` | 2 requests of 4 methods, 3 kinds of LSP, 8 bit scids, every failure | answers are read as sent and expected; peers that follow the protocol are not ignored but after a restart or for a method the LSP's build lacks; invoices name the scid of their channel; requests the LSP serves are answered or something failed |
| `orders` | 2 channels, 2 orders, 6 requests, every failure | client and LSP agree on orders; no order is refunded or refused without need; the LSP is not ignored; orders proceed, or something failed |

Three HTLCs are what the sequencing needs: one payment in flight, the one that
is retried, and one that arrives meanwhile; two of them may be parts of one
payment. `Amounts` has values below, at and above the fees; the offers have flat
and proportional fees, a fee of the size of the payment, and limits the payment
violates. `U64_MAX` is small, so the overflow paths are taken. Three threads
suffice for a circle of three locks with a waiting writer in between; the
two-party circle of `locks_invoice` needs two. In the `service` run two scids may
belong to one peer or to two, which are the two ways to confuse channels; a
peer that confuses three confuses two of them. The terms have fees that the
amounts can and cannot pay, so that channels are also removed, and offers are bought
in their last second, and after it. Two requests are enough for
answers out of order and for one request to be lost while another is answered;
six are the three requests of two orders, which is what confusing two orders takes.

Fairness, and why the code or its surroundings justify it:

* `JITChannel`: the application handles LDK's events (LDK repeats
  unhandled events) and opens the channel it was asked for; an outbound HTLC is claimed
  or fails at the latest when its CLTV expires. Nothing forces an HTLC to
  arrive, to time out while held, or other traffic to exist.
* `EventQueue`: threads inside a call run and the executor polls a task that was
  woken. Nothing forces the application to ask for another event.
* `LSPS2Requests`: `PeerManager` sends and delivers, the application answers
  what it is shown. Nothing forces a client to ask, and failures are not fair.
* `LSPS1Orders`: likewise; nothing forces a client to place, pay or query an order.

What the conditions in the properties exclude is excluded because the
code breaks without them; the runs of the next section, or the list after them,
say how.

## Where the code differs from its docs

Four runs end in a violation of what the repository says:

* `jit_two_in_flight` (`AtMostOneFeePayment`). Two parts of one fee payment fail.
  Each failure is an event of its own, and `htlc_handling_failed` forwards the
  next payment for each (`service.rs:299-340`): two fee payments are in flight.
  `service.rs:102` and `CHANGELOG.md:5-6` promise one.
* `jit_stranded` (`ForwardStateIsBacked`). The state becomes
  `PendingPaymentForward` before the HTLCs are forwarded; when LDK has failed
  the HTLC meanwhile, the `?` returns and nothing is in flight, nor will any
  event arrive (`service.rs:743, 816, 941`).
* `locks_invoice` (`NoDeadlock`). `htlc_intercepted` takes
  `peer_by_intercept_scid` and then the `PeerState`,
  `invoice_parameters_generated` the other way round (`service.rs:618-623`,
  `695-700`).
* `chain_panics` (`ChainOrderIsAccepted`). Nothing updates `best_block` when a
  block is connected (`manager.rs:628-634`), so the second connected block trips
  the assertion at `manager.rs:586`.

Met while modelling, without a run of its own:

* `service.rs:903-904` says of a channel that matches none that it "will be
  ignored"; `channel_ready` returns an error for it and keeps it in
  `peer_by_channel_id`, so that `payment_forwarded` returns errors for it too
  (`service.rs:912, 962, 885`).
* When an HTLC of a payment has expired, the `?` in the forward loops leaves the
  HTLCs after it held and in no queue (`service.rs:743, 816, 870, 941`): the last
  disjunct of `HeldHTLCsAreOwned`.
* The LSPS0 service is always made with an empty list (`manager.rs:139`), so that
  the "list of supported protocols" of `lsps0/event.rs:22` is empty for every LSP.
* `manager.rs:399` takes an Invalid message as a sign that the peer does not
  support a protocol. The peer that sent it ignores its receiver for every
  other protocol, too (`manager.rs:509`): the second exception in
  `PeersAreNotIgnored`. A request of a protocol that is known but not configured gets no
  answer at all (`manager.rs:447`).
* `ser.rs:189` allows an error "a primitive or structured value" as data; the
  field is an `Option<String>`, and an error with other data cannot be read.
* A part of a scid that is too large for its width runs into the next
  (`utils.rs:37`); the `MAX_SCID` constants are not compared with. An LSP that runs
  this code never writes such a string.
* Fee parameters with a `valid_until` before 1970 make the LSP panic
  (`lsps2/utils.rs:24-28`); in `no_std` builds the expiry is not checked.

* `service.rs:681-685` says an HTLC is failed when the offer has
  expired; `htlc_intercepted` does not look at `valid_until`.
* The property test at `service.rs:1227` asserts that exactly the fee is skimmed
  and the one at `utils.rs:78` that the fee equals the rounded-down product;
  both are narrower than what the code does on all inputs (the saturating
  subtraction of the last part, the rounding up).
* A part of a payment as large as the fee is forwarded although the other parts
  have not arrived (`payment_queue.rs:46`).
* Success is only recorded in `PendingPaymentForward` (`service.rs:373`): after
  the second failure of a multi-part payment the state may no longer be that.
* Results of other traffic over the channel settle the fee
  (`service.rs:848-899`): the theorems below need `~OtherTraffic`.
* A task's waker replaces another's (`events.rs:126`), while `manager.rs:380`
  promises any caller the next event: the `events` run has one task.
* Lost requests are neither repeated nor reported (`lsps2/client.rs:108`); a
  restarted client ignores an LSP that answers late (`manager.rs:509`).
* LSPS1: `DisplayOrder` does not carry the order id that its documentation tells
  the application to pass to `check_order_status` (`lsps1/event.rs:38-64`); the
  model lets the application know it. The sum of the fees is in satoshi and its
  limit in millisatoshi (`lsps1/client.rs:451-456`). An error answer raises no
  event and leaves the channel in its state (`lsps1/client.rs:488-521`).

## The proofs

The theorems hold for all sets of HTLCs, hashes, peers, scids, offers, amounts,
threads and orders that satisfy the assumptions of the modules:

| assumption | says |
|---|---|
| `PaymentHashAssumption`, `U64Assumption`, `JITChannelAssumption` | every HTLC has a hash, amounts are positive numbers, offers are records of numbers |
| `LSPS2ServiceAssumption` | terms are fee parameters; each scid has a user channel id of its own, as the application picks them; the channels the application opens otherwise are finitely many and have other ids; `None` is no scid or channel id |
| `LSPS2RequestsAssumption` | scids are numbers of their width, LSPs serve LSPS0 and LSPS2 or less, and an Invalid message's id is no request id |
| `LSPS1OrdersAssumption` | `None` is no order, and an order is no order id (they are told apart in one field of a request) |

A theorem that needs more says so in its own `ASSUME`. Each module has one
inductive invariant, or two, and lists it first; the lemmas are ordered
bottom-up: helpers, methods, events, handlers, environment, theorems.

`OutboundJITChannelProofs` has no state. It shows what the methods of a channel
do to any queue and any offer, for the proofs of `JITChannel` and of `LSPS2Service`
alike: `find` and `position` return 0 or an index of a payment that fits, the
fee is a number, `add_htlc` and `pop_greater_than_msat` keep a queue well formed,
add or take exactly the HTLCs they name, and what each state forwards.

### One channel: `JITChannelProofs`

* `TypeCorrect == Spec => []TypeOK`. The invariant is inductive as it stands. What
  makes it more than a formality is that the code indexes: the popped payment
  and the payment just added exist (`FindIsIndex`, `PositionIsIndex`, from the
  existence of minima), and the fee is a number wherever it is stored (`FeeIsNat`).
* `NoFreeRideHolds == ASSUME ~OtherTraffic PROVE Spec => []NoFreeRide`.
  `NoFreeRide` is not inductive: a `PaymentForwarded` event may settle the fee,
  and nothing in it says that such an event is only on its way when a payment that
  bore the fee succeeded. `SuccessIsPaidFor` adds that; `RideInv` is the
  conjunction with the types. The argument: only `payment_forwarded` enters
  `PaymentForwarded` (`Unsettled` for the other methods); HTLCs are forwarded in
  full only in that state (`Sound`); claimed HTLCs and fee payments remain
  (`SuccessRemains`); and the first claim can only be of an HTLC that bore the
  fee.

### Its queue: `JITQueueProofs`

These hold for payments of any number of parts, and with other traffic.

* `QueueIsWellFormedHolds`, `OpenChannelHasPaymentHolds`. The invariant is
  `QueueInv`. To the well-formed queue it adds that an HTLC is announced by one
  event at most (`AnnouncedOnce`) and is not queued before that event is handled
  (`Arrived`), so that no handler queues one twice; that a removed channel
  never left `PendingInitialPayment` (`RemovedEarly`); and that while the channel
  is opened a payment in the queue can bear the fee (`OpeningIsBacked`), since
  only later arrivals change the queue then.
* `ForwardStateIsBackedHolds`, `HeldHTLCsAreAccountedInTime`,
  `FirstHTLCIsAloneInTime`. `AccountInv` says three things of the time before an
  HTLC expires while it is held: LDK holds exactly what is queued or announced,
  `PendingPaymentForward` has a payment in flight or a result to come, and a
  channel without a fixed size has no queue before it is opened. The argument
  is that every HTLC a handler pops is still held, so that the loops over
  `forward_intercepted_htlc` run to their end (`Forwardable` is everything).
* `HeldHTLCsAreAccountedHolds`, `FirstHTLCIsAloneHolds`: the same without the
  condition, when LDK fails no held HTLC (`~HTLCMayTimeOut`, as in `jit_parts`).

### Single parts: `SinglePartProofs`

What the code promises only when every HTLC is a payment
of its own (`SinglePart`) and nothing else travels over the channel
(`~OtherTraffic`); the previous section says what happens otherwise.

* `AtMostOneFeePaymentHolds`, `FeePaidOnceHolds`, `PendingPaymentIsIdleHolds`. None
  of the three is inductive, and they are proved together from `OneInv`. It says
  what each state knows: in the quiet states nothing is in flight and no result is
  to come (`QuietIsQuiet`); in `PendingPaymentForward` at most one HTLC is in flight
  or its result is in the event queue, never both (`OneIsForwarded`; neither, when
  LDK timed it out, as in `jit_stranded`); a fee payment
  that succeeded is known to have, or its event is (`SuccessIsReported`); after
  that no fee payment is in flight (`FeeIsSettled`). `HashesMatch` says that a
  queued HTLC is in the payment of its hash, so that what is popped is a single
  HTLC when payments are; `FeePaymentsAreApart` that no HTLC bears the fee twice;
  `RemovedEarly` that a removed channel never forwarded. The argument: handling an
  event is one of four moves (`Moved`), and a result taken from the queue in
  `PendingPaymentForward` is the only one, so that the next payment is forwarded
  when nothing is.
* `SequencingImplemented == ASSUME ~OtherTraffic, SinglePart PROVE
  Spec => ImplementsSequencing`. Under the refinement mapping of `JITChannel`, each
  move of a handler is `ForwardPayment`, `ForwardHTLCs` or a stutter, and each
  result is `Succeed`, `Fail`, `Return` or a stutter. It needs `OneInv` (nothing is
  in flight when a payment is forwarded) and `RideInv` (the fee was paid when HTLCs
  are forwarded in full).

### The whole service: `LSPS2ServiceProofs`

One invariant, `IInv`, gives all five theorems. `ServiceInv` has a part for each
piece of the state: what a peer keeps (`PeersOK`), that a promise was made for the
parameters that carry it (`PromisesOK`), that a pending buy request passed its
check (`RequestsOK`) and that a channel was created from such a request
(`PurchasesOK`), where the two indexes of the handler and the three of a peer
lead (`IndexesOK`, `ScidsOK`, `ChannelsOK`), and that openings and forwarded HTLCs
belong to a channel (`OpeningsOK`, `ForwardsOK`). `HTLCsOK` and `QueuesOK` say of every
queue what `QueueInv` says of one. A handler ends in one of three ways, each with
its lemma: a channel performs what its state machine said (`PerformKeepsInv`), a
channel is removed (`RemovalKeepsInv`), or no channel changes (`KeptChannels`,
`KeptHTLCs`).

* `TypeOKHolds`.
* `BoughtOffersWereMadeHolds`: the LSP keeps no copy of its offers, so the chain goes
  from the promise a client returns to the parameters it was made for. A
  promise is taken to be injective (an HMAC).
* `HTLCsFindTheirChannelHolds`: five maps, filled by four calls, lead to the channel
  that was bought, whatever channels the application opens besides.
* `HeldHTLCsAreOwnedHolds` is inductive only with `IInv`: that a handler finds the
  HTLC it owns is what the maps are for.
* `RemovalStrandsNothingHolds`, an action property: a channel is removed only by a
  refusal, which needs an offer without a fixed size; such a channel forwards or
  refuses its first HTLC at once, so that what else is in the queue expired.

### Locks: `HandlerLocksProofs`

`NoDeadlockHolds == ASSUME Calls \subseteq OrderedCalls PROVE Spec => []NoDeadlock`,
for any number of threads. `OrderedCalls` are all calls of the model but
`invoice_parameters_generated`, which is the finding of `locks_invoice`. Every
other call takes the locks in the order `Rank`: `peer_by_intercept_scid`,
`peer_by_channel_id`, `per_peer_state`, a `PeerState`, `ignored_peers`, the callback,
the messages, the method map. In a circle, take the thread that waits for the lock
of the highest rank: one that blocks it holds that lock, or waits to write it. The
one that holds it waits for a lock of a higher rank; the one that only waits to
write it is not waiting for itself, and is blocked by one that holds it. The
invariant ties a thread's counter to its program (`AtOperations`).

### Orders: `LSPS1OrdersProofs`

`OrdersAgreeHolds`, `OrdersAreNotRefundedHolds`, `OrdersAreNotRefusedHolds` and
`PeersAreNotIgnoredHolds`, with every failure of the model and any number of
orders and requests. The invariant says where a thing may be at the same time. An
order id is in one answer on its way or in one channel (`OfferedOnce`,
`OrderedOnce`), and no two queries of it are on their way before it waits for its
payment (`QueriedOnce`), so that none makes the LSP refund it; a request id belongs to one message, and to a pending
request of the client unless it restarted (`TokenInv`, which also ends when a query is answered twice); the options a client has
are those the LSP stands by unless the LSP restarted (`OptionsInv`).

### Requests: `LSPS2RequestsProofs`

`AnswersAreExpectedHolds`, `PeersAreNotIgnoredHolds` and
`InvoicesHaveChannelsHolds`, for any number of requests, every LSP and every
failure of the model. The invariant follows an id: it is in a request on its way,
or pending at the LSP, or in an answer on its way, in one of them and once
(`IdsInv`), under the method it was made with, and an answer to a buy request names the
scid of a channel (`RequestFits`, `AnswerFits`). `KnownInv` says what a client that
did not restart knows: it waits for every such id but those of LSPS1, and has its
method in the map as soon as the request is sent. The argument: the manager records a
method when `PeerManager` takes the message, and forgets it when the one answer
arrives. That `invoice_parameters_generated` creates the channel before it enqueues the
answer (one step of the model) gives the third theorem, which assumes that a scid is read as it was
written (`ScidsAreReadBack`): `BitOr` sums over bits, and what such a sum is for
every number needs induction. The run `requests` tries scids with
different and with full parts.

Every step is one of six moves (`Asks`, `ReadsAnswer`, `ReadsRequest`, `Answers`,
`Loses`, handing over messages), and the lemmas about the invariant treat those.

### What only TLC checks

* All liveness: fairness and `ENABLED` are beyond the prover.
* `ChannelsAreJITChannels`: the prover cannot expand an INSTANCE with a parameter, and
  knows nothing of `SelectSeq`. By it, checked on the instance of `service`, the
  theorems about `JITChannel` speak of every channel of the service; the theorems
  of `LSPS2ServiceProofs` do not rest on it.
* The three fee properties, which `MCLSPS2Fees` states over the inputs it
  enumerates.
* `ScidsAreReadBack`, the hypothesis of `InvoicesHaveChannelsHolds`, on the scids
  of its run: any that are misread violate `InvoicesHaveChannels` there.
* `NoConsumerSleepsOn` and the four violations.

The library's induction theorems take an operator and cannot be instantiated; where
a sum (`SumTo`) or a concatenation (`FlattenSeq`) is over a whole queue, the
lemmas argue by the least counterexample instead (`MinIsElement`). So the totals in
`QueueIsWellFormed` and the contents of `clear` are proved, too.

## What is not modelled

* The HMAC of a promise and the derived JSON of the structures (serde): computed
  by libraries. A promise is taken to be equal only for equal parameters.
* The feature bits the manager advertises: constants of its configuration.
* The reuse of an intercept scid or of a user channel id by the application.
* The amounts of LSPS1 orders.
* `no_std` synchronisation: `RefCell` for one thread.

## Plan

1. Done: the JIT channel with its queue and fees, its abstract specification and
   theorems; the service with all its channels and its offers; messages,
   requests of the three protocols and scids; orders; locks; event queue; chain.
2. Done: theorems about the queue, the whole service, the requests, the locks and the
   orders.
3. Proofs left: the fee properties, stated for all amounts as lemmas
   about `LSPS2Fees`; `FeePaymentsAreApart` and `HashesMatch` with parts.
