--------------------------- MODULE LSPS2Requests ---------------------------
(***************************************************************************)
(* The LSPS2 negotiation between a client and an LSP, each behind its       *)
(* LiquidityManager: requests are enqueued, their methods recorded when     *)
(* they are sent, answered by the LSP's application, and matched to their   *)
(* method again when the answer arrives, which names only the request id.   *)
(* The client may also ask which protocols the LSP supports (LSPS0) and     *)
(* for its LSPS1 options, of which LSPS1Orders has the rest.                *)
(*                                                                         *)
(* The peers talk over LDK's PeerManager: messages are in order and lost    *)
(* when the connection breaks.  Nothing is persisted by either side.        *)
(***************************************************************************)
EXTENDS LSPSMessages, ScidCodec

CONSTANTS Ids,               \* request ids, drawn at random and never reused
          Scids,             \* intercept scids the LSP may draw
          Configs,           \* LSPs: whether they are built with LSPS1, and
                             \* the protocols they are configured to serve
          MayFail            \* what may fail: "connection", "client", "LSP"

ASSUME LSPS2RequestsAssumption ==
  /\ MayFail \subseteq {"connection", "client", "LSP"}
  /\ Scids \subseteq 0..(2^Width - 1)
  /\ Configs \subseteq [lsps1 : BOOLEAN, serves : SUBSET {0, 2}]
  /\ Null \notin Ids

VARIABLES
  issued,                     \* the methods of the requests made so far
  (* the client *)
  pending_get_info_requests,  \* LSPS2ClientHandler
  pending_buy_requests,
  request_id_to_method_map,   \* LiquidityManager
  ignores_lsp,                \* the LSP is in ignored_peers
  client_messages,            \* its MessageQueue
  listed,                     \* requests with a ListProtocolsResponse event
  invoices,                   \* InvoiceParametersReady events: request and scid
  (* the LSP *)
  config,
  pending_requests,           \* LSPS2ServiceHandler: "none" where absent
  surfaced,                   \* GetInfo and BuyRequest events
  channels,                   \* the JIT channels created: request and scid
  lsp_messages,               \* its MessageQueue
  ignores_client,
  (* the connection *)
  to_lsp, to_client,
  failures                    \* what has failed so far

client == <<pending_get_info_requests, pending_buy_requests,
            request_id_to_method_map, ignores_lsp, client_messages, listed,
            invoices>>
lsp == <<config, pending_requests, surfaced, channels, lsp_messages,
         ignores_client>>
net == <<to_lsp, to_client>>
vars == <<issued, client, lsp, net, failures>>

NoMethods == [id \in {} |-> "none"]

InitClient == /\ pending_get_info_requests = {}
              /\ pending_buy_requests = {}
              /\ request_id_to_method_map = NoMethods
              /\ ignores_lsp = FALSE
              /\ client_messages = <<>>
              /\ listed = {}
              /\ invoices = {}

InitLSP == /\ pending_requests = [id \in Ids |-> "none"]
           /\ surfaced = {}
           /\ channels = {}
           /\ lsp_messages = <<>>
           /\ ignores_client = FALSE

Init == /\ issued = NoMethods
        /\ InitClient
        /\ config \in Configs
        /\ InitLSP
        /\ to_lsp = <<>> /\ to_client = <<>>
        /\ failures = {}

-----------------------------------------------------------------------------
(* The client's API.                                                        *)

Issue(method, id) ==
  /\ id \notin DOMAIN issued
  /\ issued' = [i \in DOMAIN issued \cup {id} |->
                  IF i = id THEN method ELSE issued[i]]
  /\ client_messages' =
       Append(client_messages, Request(id, method, Of(method)))
  /\ UNCHANGED <<request_id_to_method_map, ignores_lsp, listed, invoices, lsp,
                 net, failures>>

list_protocols(id) ==
  /\ Issue("lsps0.list_protocols", id)
  /\ UNCHANGED <<pending_get_info_requests, pending_buy_requests>>

send_get_info_request(id) ==
  /\ Issue("lsps1.get_info", id)
  /\ UNCHANGED <<pending_get_info_requests, pending_buy_requests>>

request_opening_params(id) ==
  /\ Issue("lsps2.get_info", id)
  /\ pending_get_info_requests' = pending_get_info_requests \cup {id}
  /\ UNCHANGED pending_buy_requests

select_opening_params(id) ==
  /\ Issue("lsps2.buy", id)
  /\ pending_buy_requests' = pending_buy_requests \cup {id}
  /\ UNCHANGED pending_get_info_requests

(* PeerManager takes the client's messages and sends them.                  *)
client_get_and_clear_pending_msg ==
  /\ client_messages # <<>>
  /\ request_id_to_method_map' =
       recorded(request_id_to_method_map, client_messages)
  /\ to_lsp' = to_lsp \o [i \in DOMAIN client_messages |->
                            serialize(client_messages[i])]
  /\ client_messages' = <<>>
  /\ UNCHANGED <<issued, pending_get_info_requests, pending_buy_requests,
                 ignores_lsp, listed, invoices, lsp, to_client, failures>>

(* The answers LSPS0ClientHandler and LSPS2ClientHandler take: a pending    *)
(* request is dropped, a result surfaces an event, an error none.           *)
handle_list_protocols(m) ==
  /\ listed' = IF m.field = "result" THEN listed \cup {m.id} ELSE listed
  /\ UNCHANGED <<pending_get_info_requests, pending_buy_requests, invoices>>

handle_get_info(m) ==
  /\ pending_get_info_requests' = pending_get_info_requests \ {m.id}
  /\ UNCHANGED <<pending_buy_requests, listed, invoices>>

handle_buy(m) ==
  /\ pending_buy_requests' = pending_buy_requests \ {m.id}
  /\ invoices' = IF m.field = "result" /\ m.id \in pending_buy_requests
                 THEN invoices \cup {<<m.id, to_scid(m.value.intercept_scid)>>}
                 ELSE invoices
  /\ UNCHANGED <<pending_get_info_requests, listed>>

client_handle_lsps_message(m) ==
  CASE m.type = "invalid" ->
         UNCHANGED <<pending_get_info_requests, pending_buy_requests, listed,
                     invoices>>
    [] m.type = "response" ->
         CASE m.method = "lsps0.list_protocols" -> handle_list_protocols(m)
           [] m.method = "lsps2.get_info" -> handle_get_info(m)
           [] m.method = "lsps2.buy" -> handle_buy(m)

(* What a manager does with a message it cannot read: the sender is told    *)
(* and ignored from then on.                                                *)
client_parse_failure ==
  /\ client_messages' = Append(client_messages, Invalid)
  /\ ignores_lsp' = TRUE
  /\ UNCHANGED <<pending_get_info_requests, pending_buy_requests, listed,
                 invoices>>

client_handle_custom_message ==
  /\ to_client # <<>>
  /\ to_client' = Tail(to_client)
  /\ LET read == from_str_with_id_map(Head(to_client), TRUE,
                                      request_id_to_method_map)
     IN  IF ignores_lsp THEN UNCHANGED client
         ELSE /\ request_id_to_method_map' = read.map
              /\ IF read.message = ParseError THEN client_parse_failure
                 ELSE /\ client_handle_lsps_message(read.message)
                      /\ UNCHANGED <<client_messages, ignores_lsp>>
  /\ UNCHANGED <<issued, lsp, to_lsp, failures>>

-----------------------------------------------------------------------------
(* The LSP.                                                                 *)

Enqueue(m) == lsp_messages' = Append(lsp_messages, m)

(* LSPS0 is answered at once.                                               *)
handle_list_protocols_request(id) ==
  /\ Enqueue(Response(id, "lsps0.list_protocols", "result",
                      Of("lsps0.list_protocols")))
  /\ UNCHANGED <<pending_requests, surfaced>>

handle_get_info_request(id) ==
  /\ pending_requests' = [pending_requests EXCEPT ![id] = "lsps2.get_info"]
  /\ surfaced' = surfaced \cup {<<"lsps2.get_info", id>>}
  /\ UNCHANGED lsp_messages

Refusal == [code |-> "other"]

(* A buy request is answered with an error when its parameters are invalid. *)
handle_buy_request(id) ==
  \/ /\ pending_requests' = [pending_requests EXCEPT ![id] = "lsps2.buy"]
     /\ surfaced' = surfaced \cup {<<"lsps2.buy", id>>}
     /\ UNCHANGED lsp_messages
  \/ /\ Enqueue(Response(id, "lsps2.buy", "error", Refusal))
     /\ UNCHANGED <<pending_requests, surfaced>>

(* A request of a protocol that is not configured is only logged, and so is *)
(* an Invalid message.                                                      *)
lsp_handle_lsps_message(m) ==
  IF m.type = "invalid" \/ Protocol(m.method) \notin config.serves
  THEN UNCHANGED <<pending_requests, surfaced, lsp_messages>>
  ELSE CASE m.method = "lsps0.list_protocols" ->
              handle_list_protocols_request(m.id)
         [] m.method = "lsps2.get_info" -> handle_get_info_request(m.id)
         [] m.method = "lsps2.buy" -> handle_buy_request(m.id)

lsp_parse_failure ==
  /\ Enqueue(Invalid)
  /\ ignores_client' = TRUE
  /\ UNCHANGED <<pending_requests, surfaced>>

(* The LSP has made no requests of its own.                                 *)
lsp_handle_custom_message ==
  /\ to_lsp # <<>>
  /\ to_lsp' = Tail(to_lsp)
  /\ LET m == from_str_with_id_map(Head(to_lsp), config.lsps1,
                                   NoMethods).message
     IN  CASE ignores_client -> UNCHANGED lsp
           [] ~ignores_client /\ m = ParseError -> lsp_parse_failure
           [] OTHER -> lsp_handle_lsps_message(m) /\ UNCHANGED ignores_client
  /\ UNCHANGED <<issued, client, config, channels, to_client, failures>>

(* Mutant of remaining: an answered request stays pending.                  *)
remaining_all(id) == pending_requests

(* What is left when a pending request is taken out to be answered.         *)
remaining(id) == [pending_requests EXCEPT ![id] = "none"]

(* The application answers a request it was shown, possibly once too often: *)
(* a request that is not pending with that method makes the call fail.      *)
AnswerRequest(method, id, field, value) ==
  /\ <<method, id>> \in surfaced
  /\ pending_requests' = remaining(id)
  /\ IF pending_requests[id] = method
     THEN Enqueue(Response(id, method, field, value))
     ELSE UNCHANGED lsp_messages
  /\ UNCHANGED <<issued, client, config, surfaced, ignores_client, net,
                 failures>>

invalid_token_provided(id) ==
  /\ AnswerRequest("lsps2.get_info", id, "error", Refusal)
  /\ UNCHANGED channels

opening_fee_params_generated(id) ==
  /\ AnswerRequest("lsps2.get_info", id, "result", Of("lsps2.get_info"))
  /\ UNCHANGED channels

created(id, scid) ==
  IF pending_requests[id] = "lsps2.buy" THEN channels \cup {<<id, scid>>}
  ELSE channels

invoice_parameters_generated(id) ==
  \E scid \in Scids :
    /\ AnswerRequest("lsps2.buy", id, "result",
         [of |-> "lsps2.buy", intercept_scid |-> InterceptScid(scid)])
    /\ channels' = created(id, scid)

lsp_get_and_clear_pending_msg ==
  /\ lsp_messages # <<>>
  /\ to_client' = to_client \o [i \in DOMAIN lsp_messages |->
                                  serialize(lsp_messages[i])]
  /\ lsp_messages' = <<>>
  /\ UNCHANGED <<issued, client, config, pending_requests, surfaced, channels,
                 ignores_client, to_lsp, failures>>

-----------------------------------------------------------------------------
(* Failures.                                                                *)

Fail(what) == /\ what \in MayFail
              /\ failures' = failures \cup {what}
              /\ to_lsp' = <<>> /\ to_client' = <<>>

Disconnect == /\ Fail("connection")
              /\ UNCHANGED <<issued, client, lsp>>

(* A restarted side starts from its initial state.                          *)
RestartClient ==
  /\ Fail("client")
  /\ pending_get_info_requests' = {} /\ pending_buy_requests' = {}
  /\ request_id_to_method_map' = NoMethods
  /\ ignores_lsp' = FALSE
  /\ client_messages' = <<>>
  /\ listed' = {} /\ invoices' = {}
  /\ UNCHANGED <<issued, lsp>>

RestartLSP ==
  /\ Fail("LSP")
  /\ pending_requests' = [id \in Ids |-> "none"]
  /\ surfaced' = {} /\ channels' = {}
  /\ lsp_messages' = <<>>
  /\ ignores_client' = FALSE
  /\ UNCHANGED <<issued, client, config>>

-----------------------------------------------------------------------------
GenerateAnswer(id) == \/ invalid_token_provided(id)
                      \/ opening_fee_params_generated(id)
                      \/ invoice_parameters_generated(id)

Next == \/ \E id \in Ids : \/ list_protocols(id)
                           \/ send_get_info_request(id)
                           \/ request_opening_params(id)
                           \/ select_opening_params(id)
                           \/ GenerateAnswer(id)
        \/ client_get_and_clear_pending_msg
        \/ client_handle_custom_message
        \/ lsp_handle_custom_message
        \/ lsp_get_and_clear_pending_msg
        \/ Disconnect
        \/ RestartClient
        \/ RestartLSP

Spec == Init /\ [][Next]_vars

(* PeerManager sends and delivers, the application answers what it is shown.*)
FairSpec == /\ Spec
            /\ WF_vars(client_get_and_clear_pending_msg)
            /\ WF_vars(client_handle_custom_message)
            /\ WF_vars(lsp_handle_custom_message)
            /\ WF_vars(lsp_get_and_clear_pending_msg)
            /\ \A id \in Ids : WF_vars(GenerateAnswer(id))

(* The requests a client still waits for.                                   *)
Waiting(id) == \/ id \in pending_get_info_requests \cup pending_buy_requests
               \/ /\ id \in DOMAIN issued
                  /\ issued[id] = "lsps0.list_protocols"
                  /\ id \notin listed

(* No request is answered twice, and every answer on its way is read as     *)
(* what the LSP sent, for a request of that method the client waits for     *)
(* (ser.rs:366-580, lsps2/client.rs:189-324), until a restart makes the     *)
(* client forget what it asked.                                             *)
AnswersAreExpected ==
  LET all == to_client
               \o [i \in DOMAIN lsp_messages |-> serialize(lsp_messages[i])]
      answers == {i \in DOMAIN all : all[i].id # Null}
  IN  /\ \A i, j \in answers : all[i].id = all[j].id => i = j
      /\ \A i \in answers :
           LET id == all[i].id
               m == from_str_with_id_map(all[i], TRUE,
                                         request_id_to_method_map).message
           IN  /\ pending_requests[id] = "none"
               /\ \/ "client" \in failures
                  \/ /\ m.type = "response"
                     /\ m.method = issued[id]
                     /\ Waiting(id)

(* Peers that follow the protocols do not end up ignoring each other for    *)
(* messages they cannot read (manager.rs:501-515), with two exceptions: a   *)
(* client that was restarted does not know a late answer, and an LSP built  *)
(* without LSPS1 does not know its methods (ser.rs:52-67).                  *)
PeersAreNotIgnored ==
  /\ ignores_lsp => "client" \in failures
  /\ ignores_client => /\ ~config.lsps1
                       /\ "lsps1.get_info" \in Range(issued)

(* An invoice the client may hand out has its JIT channel at the LSP, under *)
(* the very scid the invoice names (service.rs:629-645,                     *)
(* lsps2/client.rs:272-281, utils.rs:18-43), until the LSP restarts.        *)
InvoicesHaveChannels == "LSP" \notin failures => invoices \subseteq channels

(* Every request is answered (lsps2/client.rs:108 and 144: "The user will   *)
(* receive the LSP's response") that is of a protocol the LSP serves, or    *)
(* something failed or the client is ignored: nothing resends or gives up a *)
(* request that was lost.                                                   *)
RequestsAreAnswered ==
  \A id \in Ids :
    Waiting(id) /\ Protocol(issued[id]) \in config.serves
      ~> ~Waiting(id) \/ failures # {} \/ ignores_client
=============================================================================
