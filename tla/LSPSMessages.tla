---------------------------- MODULE LSPSMessages ----------------------------
(***************************************************************************)
(* LSPS messages and the JSON-RPC objects they are on the wire.  A request  *)
(* names its method; a response names the id of its request only, and is    *)
(* read with the map in which the manager keeps the methods of its          *)
(* requests.  An object is a record of its fields; what a field holds is    *)
(* told apart by the method it is of.                                       *)
(***************************************************************************)
EXTENDS Sequences, Functions

CONSTANT Null              \* the id of an Invalid message

LSPS1Methods == {"lsps1.get_info", "lsps1.create_order", "lsps1.get_order"}

(* The methods a build knows: LSPS1 is compiled with cfg(lsps1) only.       *)
LSPSMethod(lsps1) == {"lsps0.list_protocols", "lsps2.get_info", "lsps2.buy"}
                       \cup (IF lsps1 THEN LSPS1Methods ELSE {})

Protocol(method) == CASE method = "lsps0.list_protocols" -> 0
                      [] method \in LSPS1Methods -> 1
                      [] OTHER -> 2

Request(id, method, params) ==
  [type |-> "request", id |-> id, method |-> method, params |-> params]

(* field is "result" or "error".                                            *)
Response(id, method, field, value) ==
  [type |-> "response", id |-> id, method |-> method, field |-> field,
   value |-> value]

Invalid == [type |-> "invalid"]

(* What is neither.                                                         *)
ParseError == [type |-> "parse error"]

JSONRPC_INVALID_MESSAGE_ERROR == [code |-> -32700]

serialize(m) ==
  CASE m.type = "request" ->
         [id |-> m.id, method |-> m.method, params |-> m.params]
    [] m.type = "response" /\ m.field = "result" -> [id |-> m.id, result |-> m.value]
    [] m.type = "response" /\ m.field = "error" -> [id |-> m.id, error |-> m.value]
    [] m.type = "invalid" ->
         [id |-> Null, error |-> JSONRPC_INVALID_MESSAGE_ERROR]

(* Parameters and results of one method are not read as those of another.   *)
Of(method) == [of |-> method]
Reads(method, value) == value.of = method

Has(json, field) == field \in DOMAIN json

(* The parameters of list_protocols are not looked at.                      *)
read_request(json) ==
  IF json.method = "lsps0.list_protocols" \/ Reads(json.method, json.params)
  THEN Request(json.id, json.method, json.params) ELSE ParseError

read_response(json, method) ==
  CASE Has(json, "error") -> Response(json.id, method, "error", json.error)
    [] ~Has(json, "error") /\ Has(json, "result") ->
         IF Reads(method, json.result)
         THEN Response(json.id, method, "result", json.result)
         ELSE ParseError
    [] OTHER -> ParseError

(* An object whose id is null is an error of the other side or else a       *)
(* notification, and there are none.                                        *)
read_without_id(json) ==
  IF ~Has(json, "method") /\ Has(json, "error")
     /\ json.error = JSONRPC_INVALID_MESSAGE_ERROR
  THEN Invalid ELSE ParseError

(* An answer is read as one to the request whose id it names.               *)
read_answer(json, request_id_to_method_map) ==
  IF json.id \in DOMAIN request_id_to_method_map
  THEN read_response(json, request_id_to_method_map[json.id]) ELSE ParseError

(* The message an object stands for, and what remains of the map: the       *)
(* request is forgotten as soon as something answers it.                    *)
from_str_with_id_map(json, lsps1, request_id_to_method_map) ==
  LET forgotten == [id \in DOMAIN request_id_to_method_map \ {json.id} |->
                      request_id_to_method_map[id]]
      known == Has(json, "method") => json.method \in LSPSMethod(lsps1)
      read == CASE ~known -> ParseError
                [] known /\ json.id = Null -> read_without_id(json)
                [] known /\ json.id # Null /\ Has(json, "method") ->
                     read_request(json)
                [] OTHER -> read_answer(json, request_id_to_method_map)
  IN  [message |-> read,
       map |-> IF Has(json, "method") THEN request_id_to_method_map
               ELSE forgotten]

(* Mutant of recorded: the methods of the requests sent are not recorded.   *)
recorded_nothing(map, messages) == map

(* The map with the ids and methods of the requests that are being sent.    *)
recorded(map, messages) ==
  LET requests == {m \in Range(messages) : m.type = "request"}
      sent == {m.id : m \in requests}
  IN  [id \in sent \cup DOMAIN map |->
         IF id \in sent THEN (CHOOSE m \in requests : m.id = id).method ELSE map[id]]
=============================================================================
