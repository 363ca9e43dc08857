---------------------------- MODULE LSPS1Orders ----------------------------
(***************************************************************************)
(* LSPS1: a client orders channels from an LSP.  For each order the client  *)
(* asks for the options, places the order, pays what the LSP asks and       *)
(* queries the order; client and LSP each keep a state machine of it.       *)
(*                                                                         *)
(* A request and its answer travel in order over a connection that may      *)
(* break.  The message queues are part of the connection here: their step   *)
(* of its own is in LSPS2Requests.  Neither side persists anything.         *)
(***************************************************************************)
EXTENDS Integers, Sequences

CONSTANTS Channels,     \* user_channel_ids, unique for the application
          Orders,       \* the parameters of an order
          OptionSets,   \* options an LSP may be configured with, each as the
                        \* set of the orders that is_valid accepts
          OrderIds,     \* order ids, drawn at random and never reused
          MaxRequests,  \* bound: requests sent, numbered by their ids
          MayFail       \* "connection", "client", "LSP"; "repeat": the LSP's
                        \* application answers a query twice

None == "none"

ASSUME LSPS1OrdersAssumption ==
  /\ MaxRequests \in Nat
  /\ OptionSets \subseteq SUBSET Orders
  /\ MayFail \subseteq {"connection", "client", "LSP", "repeat"}
  /\ None \notin Channels \cup Orders \cup OrderIds
  /\ Orders \cap OrderIds = {}

VARIABLES
  (* the client *)
  inbound,           \* inbound_channels_by_id
  request_to_cid,    \* the channel a request is about
  methods,           \* request_id_to_method_map of its LiquidityManager
  ignores_lsp,       \* the LSP is in ignored_peers
  (* the LSP *)
  options_supported, \* of its LSPS1ServiceConfig
  outbound,          \* outbound_channels_by_order_id
  pending_requests,
  refunded,          \* orders of Refund events
  refused,           \* requests answered with an error
  (* around them *)
  started,           \* user_channel_ids used so far
  requests,          \* number of requests sent so far
  answered,          \* queries the LSP's application has answered
  to_lsp, to_client,
  failures           \* what has failed so far

client == <<inbound, request_to_cid, methods, ignores_lsp>>
lsp == <<options_supported, outbound, pending_requests, refunded, refused>>
net == <<to_lsp, to_client>>
vars == <<client, lsp, started, requests, answered, net, failures>>

Ids == 1..MaxRequests

(* A channel of the client: order is kept after the code drops it, so that  *)
(* the properties can speak of it.                                          *)
Inbound(state, options, order, order_id) ==
  [state |-> state, options |-> options, order |-> order, order_id |-> order_id]

NoInbound == Inbound(None, {}, None, None)

InitClient == /\ inbound = [c \in Channels |-> NoInbound]
              /\ request_to_cid = [id \in Ids |-> None]
              /\ methods = [id \in Ids |-> None]
              /\ ignores_lsp = FALSE

(* An order the LSP has lost or removed is "gone", one not yet made "none". *)
Init == /\ InitClient
        /\ options_supported \in OptionSets
        /\ outbound = [o \in OrderIds |-> [state |-> None, order |-> None]]
        /\ pending_requests = [id \in Ids |-> None]
        /\ refunded = {} /\ refused = {}
        /\ started = {} /\ requests = 0 /\ answered = {}
        /\ to_lsp = <<>> /\ to_client = <<>>
        /\ failures = {}

-----------------------------------------------------------------------------
(* The client's API.                                                        *)

(* A request about channel c is recorded with its method and sent.          *)
Send(c, method, param) ==
  /\ requests < MaxRequests
  /\ requests' = requests + 1
  /\ request_to_cid' = [request_to_cid EXCEPT ![requests'] = c]
  /\ methods' = [methods EXCEPT ![requests'] = method]
  /\ to_lsp' = Append(to_lsp,
                      [method |-> method, id |-> requests', param |-> param])

Become(c, channel) == inbound' = [inbound EXCEPT ![c] = channel]

(* A call or an answer the state does not allow removes the channel.        *)
Remove(c) == Become(c, NoInbound)

send_get_info_request(c) ==
  /\ c \notin started
  /\ started' = started \cup {c}
  /\ Become(c, Inbound("InfoRequested", {}, None, None))
  /\ Send(c, "get_info", None)
  /\ UNCHANGED <<ignores_lsp, lsp, answered, to_client, failures>>

(* Mutant of order_requested: the order is not compared with the options.   *)
order_requested_unchecked(channel, order) == channel.state = "OptionsSupport"

order_requested(channel, order) ==
  channel.state = "OptionsSupport" /\ order \in channel.options

(* The application has seen GetInfoResponse; it may place the order again.  *)
place_order(c, order) ==
  /\ inbound[c].state \notin {None, "InfoRequested"}
  /\ IF order_requested(inbound[c], order)
     THEN /\ Become(c, Inbound("OrderRequested", {}, order, None))
          /\ Send(c, "create_order", order)
     ELSE /\ Remove(c)
          /\ UNCHANGED <<requests, request_to_cid, methods, to_lsp>>
  /\ UNCHANGED <<ignores_lsp, lsp, started, answered, to_client, failures>>

(* Mutant of pay_for_channel: an order can be queried again.                *)
pay_for_channel_again(channel) ==
  channel.state \in {"PendingPayment", "AwaitingConfirmation"}

pay_for_channel(channel) == channel.state = "PendingPayment"

(* The application has seen DisplayOrder and paid; it names the order.  It  *)
(* may query it again.                                                      *)
check_order_status(c) ==
  /\ inbound[c].state \in {"PendingPayment", "AwaitingConfirmation"}
  /\ IF pay_for_channel(inbound[c])
     THEN /\ Become(c, [inbound[c] EXCEPT !.state = "AwaitingConfirmation"])
          /\ Send(c, "get_order", inbound[c].order_id)
     ELSE /\ Remove(c)
          /\ UNCHANGED <<requests, request_to_cid, methods, to_lsp>>
  /\ UNCHANGED <<ignores_lsp, lsp, started, answered, to_client, failures>>

-----------------------------------------------------------------------------
(* The answers to the client.                                               *)

info_received(c, m) ==
  IF inbound[c].state = "InfoRequested"
  THEN Become(c, Inbound("OptionsSupport", m.options, None, None))
  ELSE Remove(c)

(* The order is the one placed, and its fees add up and are acceptable.     *)
order_received(c, m) ==
  IF /\ inbound[c].state = "OrderRequested"
     /\ inbound[c].order = m.order
     /\ m.fees_accepted
  THEN Become(c, [inbound[c] EXCEPT !.state = "PendingPayment",
                                    !.order_id = m.order_id])
  ELSE Remove(c)

(* The status of an order and errors leave the channel as it is.            *)
handle_answer(m) ==
  LET c == request_to_cid[m.id]
  IN  /\ request_to_cid' = [request_to_cid EXCEPT ![m.id] = None]
      /\ IF c = None \/ m.type # "result" THEN UNCHANGED inbound
         ELSE IF inbound[c].state = None THEN UNCHANGED inbound
         ELSE CASE methods[m.id] = "get_info" -> info_received(c, m)
                [] methods[m.id] = "create_order" -> order_received(c, m)
                [] methods[m.id] = "get_order" -> UNCHANGED inbound

(* An answer whose id is unknown makes the client ignore the LSP.           *)
client_handle_custom_message ==
  /\ to_client # <<>>
  /\ to_client' = Tail(to_client)
  /\ LET m == Head(to_client)
         known == methods[m.id] # None
     IN  IF ignores_lsp THEN UNCHANGED client
         ELSE /\ methods' = [methods EXCEPT ![m.id] = None]
              /\ ignores_lsp' = ~known
              /\ IF known THEN handle_answer(m)
                 ELSE UNCHANGED <<inbound, request_to_cid>>
  /\ UNCHANGED <<lsp, started, requests, answered, to_lsp, failures>>

-----------------------------------------------------------------------------
(* The LSP.                                                                 *)

Answer(m) == to_client' = Append(to_client, m)

handle_get_info_request(m) ==
  /\ Answer([type |-> "result", id |-> m.id, options |-> options_supported])
  /\ UNCHANGED <<outbound, pending_requests, refunded, refused>>

(* Mutant of insert: the request is shown to the application only.          *)
insert_nothing(id, param) == pending_requests

insert(id, param) == [pending_requests EXCEPT ![id] = param]

(* An order that fits the options is shown to the application.              *)
handle_create_order_request(m) ==
  /\ IF m.param \in options_supported
     THEN /\ pending_requests' = insert(m.id, m.param)
          /\ UNCHANGED <<refused, to_client>>
     ELSE /\ Answer([type |-> "error", id |-> m.id])
          /\ refused' = refused \cup {m.id}
          /\ UNCHANGED pending_requests
  /\ UNCHANGED <<outbound, refunded>>

(* A first query waits for the payment and is shown to the application; a   *)
(* second one removes the order and asks for a refund.                      *)
handle_get_order_request(m) ==
  LET o == m.param
  IN  /\ CASE outbound[o].state = "OrderCreated" ->
                /\ outbound' = [outbound EXCEPT ![o].state = "WaitingPayment"]
                /\ pending_requests' = insert(m.id, o)
                /\ UNCHANGED refunded
           [] outbound[o].state = "WaitingPayment" ->
                /\ outbound' = [outbound EXCEPT ![o].state = "gone"]
                /\ refunded' = refunded \cup {o}
                /\ UNCHANGED pending_requests
           [] OTHER -> UNCHANGED <<outbound, pending_requests, refunded>>
      /\ UNCHANGED <<refused, to_client>>

lsp_handle_custom_message ==
  /\ to_lsp # <<>>
  /\ to_lsp' = Tail(to_lsp)
  /\ LET m == Head(to_lsp)
     IN  CASE m.method = "get_info" -> handle_get_info_request(m)
           [] m.method = "create_order" -> handle_create_order_request(m)
           [] m.method = "get_order" -> handle_get_order_request(m)
  /\ UNCHANGED <<client, options_supported, started, requests, answered, failures>>

(* Mutant of generate_order_id: an id that is in use may be drawn.          *)
generate_order_id_reused == OrderIds

generate_order_id == {o \in OrderIds : outbound[o].state = None}

(* Mutant of remaining: the request stays pending.                          *)
remaining_all(id) == pending_requests

remaining(id) == [pending_requests EXCEPT ![id] = None]

(* The application asks for the payment of an order; whether the client     *)
(* will find the fees acceptable is up to it.                               *)
send_payment_details(id) ==
  /\ pending_requests[id] \in Orders
  /\ pending_requests' = remaining(id)
  /\ \E o \in generate_order_id, fees_accepted \in BOOLEAN :
       /\ outbound' = [outbound EXCEPT ![o] = [state |-> "OrderCreated",
                                               order |-> pending_requests[id]]]
       /\ Answer([type |-> "result", id |-> id, order |-> pending_requests[id],
                  order_id |-> o, fees_accepted |-> fees_accepted])
  /\ UNCHANGED <<client, options_supported, refunded, refused, started,
                 requests, answered, to_lsp, failures>>

(* The application reports on an order that is queried.  The query is not   *)
(* consumed: answering it again is a failure of the application.            *)
update_order_status(id) ==
  /\ pending_requests[id] \in OrderIds
  /\ outbound[pending_requests[id]].state = "WaitingPayment"
  /\ id \in answered => "repeat" \in MayFail \ failures
  /\ failures' = IF id \in answered THEN failures \cup {"repeat"} ELSE failures
  /\ answered' = answered \cup {id}
  /\ Answer([type |-> "result", id |-> id])
  /\ UNCHANGED <<client, lsp, started, requests, to_lsp>>

-----------------------------------------------------------------------------
(* Failures.                                                                *)

Fail(what) == /\ what \in MayFail
              /\ failures' = failures \cup {what}
              /\ to_lsp' = <<>> /\ to_client' = <<>>
              /\ UNCHANGED <<started, requests, answered>>

Disconnect == Fail("connection") /\ UNCHANGED <<client, lsp>>

RestartClient ==
  /\ Fail("client")
  /\ inbound' = [c \in Channels |-> NoInbound]
  /\ request_to_cid' = [id \in Ids |-> None]
  /\ methods' = [id \in Ids |-> None]
  /\ ignores_lsp' = FALSE
  /\ UNCHANGED lsp

(* The LSP starts again, maybe with other options; its orders are gone.     *)
RestartLSP ==
  /\ Fail("LSP")
  /\ options_supported' \in OptionSets
  /\ outbound' = [o \in OrderIds |->
                    IF outbound[o].state = None THEN outbound[o]
                    ELSE [outbound[o] EXCEPT !.state = "gone"]]
  /\ pending_requests' = [id \in Ids |-> None]
  /\ UNCHANGED <<client, refunded, refused>>

-----------------------------------------------------------------------------
Next == \/ \E c \in Channels : \/ send_get_info_request(c)
                               \/ \E order \in Orders : place_order(c, order)
                               \/ check_order_status(c)
        \/ client_handle_custom_message
        \/ lsp_handle_custom_message
        \/ \E id \in Ids : send_payment_details(id) \/ update_order_status(id)
        \/ Disconnect
        \/ RestartClient
        \/ RestartLSP

Spec == Init /\ [][Next]_vars

(* Messages are delivered, and the LSP's application answers orders.        *)
FairSpec == /\ Spec
            /\ WF_vars(client_handle_custom_message)
            /\ WF_vars(lsp_handle_custom_message)
            /\ \A id \in Ids : WF_vars(send_payment_details(id))

-----------------------------------------------------------------------------
Ordered == {c \in Channels :
              inbound[c].state \in {"PendingPayment", "AwaitingConfirmation"}}

(* The order a client is asked to pay is the LSP's order with its own       *)
(* parameters, and no other channel's; the LSP does not wait for a payment  *)
(* the client does not know of (lsps1/client.rs:92-126, service.rs:254-280),*)
(* until the LSP restarts.                                                  *)
OrdersAgree ==
  "LSP" \notin failures =>
    \A c \in Ordered :
      LET o == inbound[c].order_id
      IN  /\ outbound[o].order = inbound[c].order
          /\ outbound[o].state \in {"OrderCreated", "WaitingPayment"}
          /\ inbound[c].state = "PendingPayment"
               => outbound[o].state = "OrderCreated"
          /\ \A d \in Ordered : inbound[d].order_id = o => d = c

(* No order is refunded for having been queried (lsps1/service.rs:330-338): *)
(* the client's own state machine drops a second query before it is sent.   *)
OrdersAreNotRefunded == refunded = {}

(* An order the client found valid is not refused by the LSP whose options  *)
(* it used (lsps1/client.rs:73-90, service.rs:194-211), unless the LSP was  *)
(* restarted meanwhile.                                                     *)
OrdersAreNotRefused == refused # {} => "LSP" \in failures

(* The client ignores an LSP only for a late answer after its own restart   *)
(* or for a query that was answered twice (manager.rs:501-515).             *)
PeersAreNotIgnored == ignores_lsp => {"client", "repeat"} \cap failures # {}

(* A channel does not wait forever for the options or the order, unless     *)
(* something failed.                                                        *)
OrdersProceed ==
  \A c \in Channels :
    inbound[c].state \in {"InfoRequested", "OrderRequested"}
      ~> \/ inbound[c].state \notin {"InfoRequested", "OrderRequested"}
         \/ failures # {}
=============================================================================
