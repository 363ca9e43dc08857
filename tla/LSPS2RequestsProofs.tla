------------------------ MODULE LSPS2RequestsProofs ------------------------
(***************************************************************************)
(* Theorems about LSPS2Requests, for any number of requests, any LSP and    *)
(* every failure of the model: each request is answered once and read for   *)
(* what it was, nobody is ignored without need, and an invoice names the    *)
(* scid of its channel.                                                     *)
(*                                                                         *)
(* The inductive invariant follows a request id: it is in a request on its  *)
(* way, or pending at the LSP, or in an answer on its way, never in two.    *)
(***************************************************************************)
EXTENDS LSPS2Requests, SequenceTheorems, TLAPS

-----------------------------------------------------------------------------
(* The inductive invariant.                                                 *)

Methods == {"lsps0.list_protocols", "lsps1.get_info", "lsps2.get_info", "lsps2.buy"}

Served == {"lsps0.list_protocols", "lsps2.get_info", "lsps2.buy"}

Invoice(scid) == [of |-> "lsps2.buy", intercept_scid |-> InterceptScid(scid)]

Values == {Of(method) : method \in Served} \cup {Invoice(scid) : scid \in Scids}

(* The messages the two sides make, and the objects they are on the wire.   *)
ClientMessages ==
  {Invalid} \cup {Request(id, method, Of(method)) : id \in Ids, method \in Methods}

LSPMessages ==
  {Invalid}
    \cup {Response(id, method, "error", Refusal) : id \in Ids, method \in Served}
    \cup {Response(id, method, "result", value) :
            id \in Ids, method \in Served, value \in Values}

InvalidObject == [id |-> Null, error |-> JSONRPC_INVALID_MESSAGE_ERROR]

RequestObject(id, method) == [id |-> id, method |-> method, params |-> Of(method)]

ClientObjects ==
  {InvalidObject} \cup {RequestObject(id, method) : id \in Ids, method \in Methods}

LSPObjects == {InvalidObject} \cup [id : Ids, error : {Refusal}]
                \cup [id : Ids, result : Values]

(* All requests and all answers that are on their way or about to be.       *)
Objects(messages) == [i \in DOMAIN messages |-> serialize(messages[i])]

requests == to_lsp \o Objects(client_messages)

answers == to_client \o Objects(lsp_messages)

IdsOf(objects) == {objects[i].id : i \in DOMAIN objects} \ {Null}

Once(objects) ==
  \A i, j \in DOMAIN objects :
    objects[i].id # Null /\ objects[i].id = objects[j].id => i = j

Pending == {id \in Ids : pending_requests[id] # "none"}

(* A request on its way is the one made under its id.                       *)
RequestFits(json) ==
  json.id # Null => json.id \in DOMAIN issued /\ json.method = issued[json.id]

(* So is an answer; an invoice names the scid of a channel.                 *)
AnswerFits(json) ==
  json.id # Null =>
    /\ json.id \in DOMAIN issued
    /\ issued[json.id] \in Served
    /\ Has(json, "result") =>
         \/ json.result = Of(issued[json.id]) /\ issued[json.id] # "lsps2.buy"
         \/ /\ issued[json.id] = "lsps2.buy"
            /\ \E scid \in Scids :
                 /\ json.result = Invoice(scid)
                 /\ "LSP" \in failures \/ <<json.id, scid>> \in channels

TypeInv ==
  /\ DOMAIN issued \subseteq Ids /\ \A id \in DOMAIN issued : issued[id] \in Methods
  /\ DOMAIN request_id_to_method_map \cup listed \subseteq DOMAIN issued
  /\ \A id \in DOMAIN request_id_to_method_map :
       request_id_to_method_map[id] = issued[id]
  /\ client_messages \in Seq(ClientMessages) /\ to_lsp \in Seq(ClientObjects)
  /\ lsp_messages \in Seq(LSPMessages) /\ to_client \in Seq(LSPObjects)
  /\ config \in Configs
  /\ pending_requests \in [Ids -> {"none", "lsps2.get_info", "lsps2.buy"}]
  /\ \A id \in Pending : id \in DOMAIN issued /\ issued[id] = pending_requests[id]
  /\ \A json \in Range(requests) : RequestFits(json)
  /\ \A json \in Range(answers) : AnswerFits(json)

(* An id is in one place.                                                   *)
IdsInv ==
  /\ Once(requests) /\ Once(answers)
  /\ IdsOf(requests) \cap IdsOf(answers) = {}
  /\ Pending \cap (IdsOf(requests) \cup IdsOf(answers)) = {}

(* A client that did not restart knows what it asked.                       *)
KnownInv ==
  "client" \notin failures =>
    /\ ~ignores_lsp
    /\ \A id \in IdsOf(to_lsp) \cup Pending \cup IdsOf(answers) :
         id \in DOMAIN request_id_to_method_map
    /\ \A id \in IdsOf(requests) \cup Pending \cup IdsOf(answers) :
         issued[id] # "lsps1.get_info" => Waiting(id)

IInv == TypeInv /\ IdsInv /\ KnownInv /\ PeersAreNotIgnored

-----------------------------------------------------------------------------
(* Messages and objects.                                                    *)

(* What serialize makes of each message (ser.rs:239-358).                   *)
LEMMA SerializeRequest ==
  ASSUME NEW id, NEW method
  PROVE  serialize(Request(id, method, Of(method))) = RequestObject(id, method)
BY DEF serialize, Request, RequestObject

(* A response has a result or an error (ser.rs:260-347).                    *)
LEMMA SerializeResponse ==
  ASSUME NEW id, NEW method, NEW value
  PROVE  /\ serialize(Response(id, method, "error", value)) = [id |-> id, error |-> value]
         /\ serialize(Response(id, method, "result", value)) = [id |-> id, result |-> value]
BY DEF serialize, Response

(* An Invalid message is an error without an id (ser.rs:349-352).           *)
LEMMA SerializeInvalid == serialize(Invalid) = InvalidObject
BY DEF serialize, Invalid, InvalidObject

(* What a client sends is an object of the kinds above (ser.rs:239-358).    *)
LEMMA ClientSerializes ==
  ASSUME NEW m \in ClientMessages
  PROVE  serialize(m) \in ClientObjects
<1>1. CASE m = Invalid
  BY <1>1, SerializeInvalid DEF ClientObjects
<1>2. ASSUME NEW id \in Ids, NEW method \in Methods, m = Request(id, method, Of(method))
      PROVE  serialize(m) \in ClientObjects
  BY <1>2, SerializeRequest DEF ClientObjects
<1> QED
  BY <1>1, <1>2 DEF ClientMessages

(* So is what an LSP sends (ser.rs:239-358).                                *)
LEMMA LSPSerializes ==
  ASSUME NEW m \in LSPMessages
  PROVE  serialize(m) \in LSPObjects
<1>1. CASE m = Invalid
  BY <1>1, SerializeInvalid DEF LSPObjects
<1>2. ASSUME NEW id \in Ids, NEW method \in Served, m = Response(id, method, "error", Refusal)
      PROVE  serialize(m) \in LSPObjects
  BY <1>2, SerializeResponse DEF LSPObjects
<1>3. ASSUME NEW id \in Ids, NEW method \in Served, NEW value \in Values,
             m = Response(id, method, "result", value)
      PROVE  serialize(m) \in LSPObjects
  BY <1>3, SerializeResponse DEF LSPObjects
<1> QED
  BY <1>1, <1>2, <1>3 DEF LSPMessages

(* A queue of messages becomes as many objects (message_queue.rs:37-46).    *)
LEMMA ClientObjectsAre ==
  ASSUME NEW ms \in Seq(ClientMessages)
  PROVE  Objects(ms) \in Seq(ClientObjects) /\ Len(Objects(ms)) = Len(ms)
BY ClientSerializes DEF Objects

(* The same for the queue of the LSP (message_queue.rs:37-46).              *)
LEMMA LSPObjectsAre ==
  ASSUME NEW ms \in Seq(LSPMessages)
  PROVE  Objects(ms) \in Seq(LSPObjects) /\ Len(Objects(ms)) = Len(ms)
BY LSPSerializes DEF Objects

(* An empty queue is sent as nothing.                                       *)
LEMMA ObjectsOfNone == Objects(<<>>) = <<>>
BY DEF Objects

(* A message at the end of the queue is sent as the last object.            *)
LEMMA ObjectsAppend ==
  ASSUME NEW S, NEW ms \in Seq(S), NEW m \in S
  PROVE  Objects(Append(ms, m)) = Append(Objects(ms), serialize(m))
<1> DEFINE new == Objects(Append(ms, m))
           old == Objects(ms)
<1>1. /\ old \in Seq({serialize(x) : x \in S}) /\ Len(old) = Len(ms)
      /\ \A i \in 1..Len(ms) : old[i] = serialize(ms[i])
  BY DEF Objects
<1>2. /\ Append(ms, m) \in Seq(S) /\ Len(Append(ms, m)) = Len(ms) + 1
      /\ \A i \in 1..(Len(ms) + 1) :
           Append(ms, m)[i] = IF i <= Len(ms) THEN ms[i] ELSE m
  OBVIOUS
<1>3. /\ new \in Seq({serialize(x) : x \in S}) /\ Len(new) = Len(ms) + 1
      /\ \A i \in 1..(Len(ms) + 1) :
           new[i] = IF i <= Len(ms) THEN serialize(ms[i]) ELSE serialize(m)
  BY <1>2 DEF Objects
<1> HIDE DEF new, old
<1>4. new = Append(old, serialize(m))
  BY <1>1, <1>3
<1> QED
  BY <1>4 DEF new, old

-----------------------------------------------------------------------------
(* The ids of objects.                                                      *)

(* An object at the end adds its id, and a new id keeps them distinct.      *)
LEMMA IdsOfAppend ==
  ASSUME NEW S, NEW seq \in Seq(S), NEW x
  PROVE  /\ IdsOf(Append(seq, x)) = IdsOf(seq) \cup ({x.id} \ {Null})
         /\ Once(seq) /\ x.id \notin IdsOf(seq) => Once(Append(seq, x))
<1> DEFINE T == S \cup {x}
           new == Append(seq, x)
<1>1. seq \in Seq(T) /\ x \in T
  OBVIOUS
<1>2. /\ Len(new) = Len(seq) + 1 /\ DOMAIN new = 1..(Len(seq) + 1)
      /\ DOMAIN seq = 1..Len(seq) /\ Len(seq) \in Nat
      /\ \A i \in 1..Len(seq) : new[i] = seq[i]
      /\ new[Len(seq) + 1] = x
  BY <1>1
<1> HIDE DEF new
<1>3. IdsOf(new) = IdsOf(seq) \cup ({x.id} \ {Null})
  <2>1. ASSUME NEW i \in DOMAIN new
        PROVE  new[i].id \in {seq[j].id : j \in DOMAIN seq} \cup {x.id}
    <3>1. CASE i = Len(seq) + 1
      BY <1>2, <3>1
    <3>2. CASE i # Len(seq) + 1
      <4>1. i \in DOMAIN seq
        BY <1>2, <3>2
      <4> QED
        BY <1>2, <4>1
    <3> QED
      BY <3>1, <3>2
  <2>2. ASSUME NEW i \in DOMAIN seq PROVE seq[i].id \in {new[j].id : j \in DOMAIN new}
    <3>1. i \in DOMAIN new /\ new[i] = seq[i]
      BY <1>2
    <3> QED
      BY <3>1
  <2>3. x.id \in {new[j].id : j \in DOMAIN new}
    <3>1. Len(seq) + 1 \in DOMAIN new
      BY <1>2
    <3> QED
      BY <1>2, <3>1
  <2> QED
    BY <2>1, <2>2, <2>3 DEF IdsOf
<1>4. ASSUME Once(seq), x.id \notin IdsOf(seq) PROVE Once(new)
  <2> SUFFICES ASSUME NEW i \in DOMAIN new, NEW j \in DOMAIN new,
                      new[i].id # Null, new[i].id = new[j].id
               PROVE  i = j
    BY DEF Once
  <2>1. \A k \in DOMAIN seq : seq[k].id # Null => seq[k].id # x.id
    BY <1>4 DEF IdsOf
  <2>2. (i \in DOMAIN seq \/ i = Len(seq) + 1) /\ (j \in DOMAIN seq \/ j = Len(seq) + 1)
    BY <1>2
  <2>3. CASE i \in DOMAIN seq /\ j \in DOMAIN seq
    <3>1. new[i] = seq[i] /\ new[j] = seq[j]
      BY <1>2, <2>3
    <3> QED
      BY <1>4, <2>3, <3>1 DEF Once
  <2>4. CASE i \in DOMAIN seq /\ j = Len(seq) + 1
    <3>1. new[i] = seq[i] /\ new[j] = x
      BY <1>2, <2>4
    <3> QED
      BY <2>1, <2>4, <3>1
  <2>5. CASE i = Len(seq) + 1 /\ j \in DOMAIN seq
    <3>1. new[j] = seq[j] /\ new[i] = x
      BY <1>2, <2>5
    <3> QED
      BY <2>1, <2>5, <3>1
  <2> QED
    BY <2>2, <2>3, <2>4, <2>5
<1> QED
  BY <1>3, <1>4 DEF new

(* Taking the first object takes its id, which no other object has.         *)
LEMMA IdsOfTail ==
  ASSUME NEW S, NEW seq \in Seq(S), seq # <<>>
  PROVE  /\ IdsOf(seq) = IdsOf(Tail(seq)) \cup ({Head(seq).id} \ {Null})
         /\ Once(seq) => Once(Tail(seq)) /\ Head(seq).id \notin IdsOf(Tail(seq))
<1> DEFINE new == Tail(seq)
<1>1. /\ Len(seq) \in Nat \ {0} /\ DOMAIN seq = 1..Len(seq)
      /\ DOMAIN new = 1..(Len(seq) - 1)
      /\ \A i \in 1..(Len(seq) - 1) : new[i] = seq[i + 1]
      /\ Head(seq) = seq[1]
  OBVIOUS
<1> HIDE DEF new
<1>2. ASSUME NEW i \in DOMAIN new PROVE i + 1 \in DOMAIN seq /\ new[i] = seq[i + 1] /\ i + 1 # 1
  BY <1>1
<1>3. 1 \in DOMAIN seq
  BY <1>1
<1>4. ASSUME NEW i \in DOMAIN seq, i # 1 PROVE \E j \in DOMAIN new : seq[i] = new[j]
  <2>1. i - 1 \in DOMAIN new /\ new[i - 1] = seq[i]
    BY <1>1, <1>4
  <2> QED
    BY <2>1
<1>5. IdsOf(seq) = IdsOf(new) \cup ({Head(seq).id} \ {Null})
  <2>1. ASSUME NEW i \in DOMAIN seq
        PROVE  seq[i].id \in {new[j].id : j \in DOMAIN new} \cup {Head(seq).id}
    BY <1>1, <1>4
  <2>2. ASSUME NEW i \in DOMAIN new PROVE new[i].id \in {seq[j].id : j \in DOMAIN seq}
    BY <1>2
  <2>3. Head(seq).id \in {seq[j].id : j \in DOMAIN seq}
    BY <1>1, <1>3
  <2> QED
    BY <2>1, <2>2, <2>3 DEF IdsOf
<1>6. ASSUME Once(seq) PROVE Once(new) /\ Head(seq).id \notin IdsOf(new)
  <2>1. ASSUME NEW i \in DOMAIN new, NEW j \in DOMAIN new,
               new[i].id # Null, new[i].id = new[j].id
        PROVE  i = j
    <3>1. i + 1 = j + 1
      BY <1>2, <1>6, <2>1 DEF Once
    <3> QED
      BY <1>1, <3>1
  <2>2. ASSUME NEW i \in DOMAIN new, new[i].id # Null PROVE new[i].id # Head(seq).id
    BY <1>1, <1>2, <1>3, <1>6, <2>2 DEF Once
  <2> QED
    BY <2>1, <2>2 DEF Once, IdsOf
<1> QED
  BY <1>5, <1>6 DEF new

(* The ids of two sequences, one after the other.                           *)
LEMMA IdsOfConcat ==
  ASSUME NEW S, NEW s \in Seq(S), NEW t \in Seq(S)
  PROVE  /\ IdsOf(s \o t) = IdsOf(s) \cup IdsOf(t)
         /\ Once(s \o t) => Once(t)
         /\ \A i \in DOMAIN s : i \in DOMAIN (s \o t) /\ (s \o t)[i] = s[i]
         /\ \A i \in DOMAIN t : \E j \in DOMAIN (s \o t) : (s \o t)[j] = t[i]
<1> DEFINE new == s \o t
<1>1. /\ Len(s) \in Nat /\ DOMAIN s = 1..Len(s)
      /\ Len(t) \in Nat /\ DOMAIN t = 1..Len(t)
      /\ DOMAIN new = 1..(Len(s) + Len(t))
      /\ \A i \in 1..(Len(s) + Len(t)) :
           new[i] = IF i <= Len(s) THEN s[i] ELSE t[i - Len(s)]
  OBVIOUS
<1> HIDE DEF new
<1>2. ASSUME NEW i \in DOMAIN s PROVE i \in DOMAIN new /\ new[i] = s[i]
  BY <1>1
<1>3. ASSUME NEW i \in DOMAIN t PROVE i + Len(s) \in DOMAIN new /\ new[i + Len(s)] = t[i]
  <2>1. /\ i + Len(s) \in 1..(Len(s) + Len(t))
        /\ ~(i + Len(s) <= Len(s)) /\ (i + Len(s)) - Len(s) = i
    BY <1>1
  <2> QED
    BY <1>1, <2>1
<1>4. ASSUME NEW i \in DOMAIN new
      PROVE  \/ i \in DOMAIN s /\ new[i] = s[i]
             \/ i - Len(s) \in DOMAIN t /\ new[i] = t[i - Len(s)]
  BY <1>1
<1>5. IdsOf(new) = IdsOf(s) \cup IdsOf(t)
  BY <1>2, <1>3, <1>4 DEF IdsOf
<1>6. ASSUME Once(new) PROVE Once(t)
  <2>1. ASSUME NEW i \in DOMAIN t, NEW j \in DOMAIN t,
               t[i].id # Null, t[i].id = t[j].id
        PROVE  i = j
    <3>1. i + Len(s) = j + Len(s)
      BY <1>3, <1>6, <2>1 DEF Once
    <3> QED
      BY <1>1, <3>1
  <2> QED
    BY <2>1 DEF Once
<1> QED
  BY <1>2, <1>3, <1>5, <1>6 DEF new

(* Nothing has no ids.                                                      *)
LEMMA NoIds == IdsOf(<<>>) = {} /\ Once(<<>>)
BY DEF IdsOf, Once
-----------------------------------------------------------------------------
(* Reading.                                                                 *)

(* A request is read as what it was, unless the build does not know its     *)
(* method (ser.rs:420-467).                                                 *)
LEMMA ReadRequest ==
  ASSUME NEW id \in Ids, NEW method \in Methods, NEW lsps1 \in BOOLEAN, NEW map
  PROVE  from_str_with_id_map(RequestObject(id, method), lsps1, map).message
           = IF method = "lsps1.get_info" /\ ~lsps1 THEN ParseError
             ELSE Request(id, method, Of(method))
<1> DEFINE json == RequestObject(id, method)
<1>1. /\ json.id = id /\ json.method = method /\ json.params = Of(method)
      /\ Has(json, "method")
  BY DEF RequestObject, Has
<1>2. Reads(json.method, json.params)
  BY <1>1 DEF Reads, Of
<1>3. json.method \notin LSPSMethod(lsps1) <=> method = "lsps1.get_info" /\ ~lsps1
  BY <1>1 DEF LSPSMethod, LSPS1Methods, Methods
<1>4. json.id # Null
  BY <1>1, LSPS2RequestsAssumption
<1> HIDE DEF json
<1>5. read_request(json) = Request(id, method, Of(method))
  BY <1>1, <1>2 DEF read_request
<1>6. from_str_with_id_map(json, lsps1, map).message
        = IF method = "lsps1.get_info" /\ ~lsps1 THEN ParseError
          ELSE Request(id, method, Of(method))
  BY <1>1, <1>3, <1>4, <1>5 DEF from_str_with_id_map
<1> QED
  BY <1>6 DEF json

(* An Invalid message is read as one, and no request is forgotten for it    *)
(* (ser.rs:402-419).                                                        *)
LEMMA ReadInvalid ==
  ASSUME NEW lsps1, NEW map, Null \notin DOMAIN map
  PROVE  /\ from_str_with_id_map(InvalidObject, lsps1, map).message = Invalid
         /\ from_str_with_id_map(InvalidObject, TRUE, map).map
              = [id \in DOMAIN map \ {Null} |-> map[id]]
<1>1. /\ InvalidObject.id = Null /\ ~Has(InvalidObject, "method")
      /\ Has(InvalidObject, "error")
      /\ InvalidObject.error = JSONRPC_INVALID_MESSAGE_ERROR
  BY DEF InvalidObject, Has
<1>2. read_without_id(InvalidObject) = Invalid
  BY <1>1 DEF read_without_id
<1> QED
  BY <1>1, <1>2 DEF from_str_with_id_map

(* An answer is read with the method of its request, which is then          *)
(* forgotten; a request that is not known makes it a parse error            *)
(* (ser.rs:468-580).                                                        *)
LEMMA ReadAnswer ==
  ASSUME NEW json \in LSPObjects, json.id # Null, NEW map,
         json.id \in DOMAIN map =>
           (Has(json, "result") => json.result.of = map[json.id])
  PROVE  LET read == from_str_with_id_map(json, TRUE, map)
         IN  /\ json.id \notin DOMAIN map => read.message = ParseError
             /\ json.id \in DOMAIN map =>
                  read.message =
                    IF Has(json, "result")
                    THEN Response(json.id, map[json.id], "result", json.result)
                    ELSE Response(json.id, map[json.id], "error", json.error)
             /\ read.map = [id \in DOMAIN map \ {json.id} |-> map[id]]
<1>1. CASE json \in [id : Ids, error : {Refusal}]
  <2>1. ~Has(json, "method") /\ ~Has(json, "result") /\ Has(json, "error")
    BY <1>1 DEF Has
  <2>2. read_response(json, map[json.id])
          = Response(json.id, map[json.id], "error", json.error)
    BY <2>1 DEF read_response
  <2> QED
    BY <2>1, <2>2 DEF from_str_with_id_map, read_answer
<1>2. CASE json \in [id : Ids, result : Values]
  <2>1. ~Has(json, "method") /\ Has(json, "result") /\ ~Has(json, "error")
    BY <1>2 DEF Has
  <2>2. json.id \in DOMAIN map => read_response(json, map[json.id])
          = Response(json.id, map[json.id], "result", json.result)
    BY <2>1 DEF read_response, Reads
  <2> QED
    BY <2>1, <2>2 DEF from_str_with_id_map, read_answer
<1>3. json # InvalidObject
  BY DEF InvalidObject
<1> QED
  BY <1>1, <1>2, <1>3 DEF LSPObjects

(* What the client makes of an answer.                                      *)
LEMMA AnswersAreResponses ==
  ASSUME TypeInv, NEW json \in LSPObjects, json.id # Null, AnswerFits(json)
  PROVE  json.id \in DOMAIN issued
         /\ (Has(json, "result") => json.result.of = issued[json.id])
<1>1. json.id \in DOMAIN issued
  BY DEF AnswerFits
<1>2. ASSUME Has(json, "result")
      PROVE  json.result.of = issued[json.id]
  <2>1. CASE json.result = Of(issued[json.id])
    BY <2>1 DEF Of
  <2>2. ASSUME NEW scid \in Scids, json.result = Invoice(scid), issued[json.id] = "lsps2.buy"
        PROVE  json.result.of = issued[json.id]
    BY <2>2 DEF Invoice
  <2> QED
    BY <1>2, <2>1, <2>2 DEF AnswerFits
<1> QED
  BY <1>1, <1>2

-----------------------------------------------------------------------------
(* What the actions do to the requests and answers on their way.            *)

(* The two at a later time.                                                 *)
LEMMA OnTheirWay ==
  /\ requests' = to_lsp' \o Objects(client_messages')
  /\ answers' = to_client' \o Objects(lsp_messages')
BY DEF requests, answers, Objects

(* What is enqueued comes last ...                                         *)
LEMMA AppendToConcat ==
  ASSUME NEW S, NEW s \in Seq(S), NEW t \in Seq(S), NEW x \in S
  PROVE  s \o Append(t, x) = Append(s \o t, x)
OBVIOUS

(* ... and what was sent comes first.                                       *)
LEMMA TailOfConcat ==
  ASSUME NEW S, NEW s \in Seq(S), NEW t \in Seq(S), s # <<>>
  PROVE  /\ Tail(s \o t) = Tail(s) \o t
         /\ Head(s \o t) = Head(s) /\ s \o t # <<>>
<1>1. Len(s) \in Nat \ {0} /\ Len(t) \in Nat
  OBVIOUS
<1>2. /\ Tail(s) \o t \in Seq(S) /\ Tail(s \o t) \in Seq(S)
      /\ Len(Tail(s) \o t) = Len(s) - 1 + Len(t)
      /\ Len(Tail(s \o t)) = Len(s) + Len(t) - 1
  BY <1>1
<1>3. ASSUME NEW i \in 1..(Len(s) + Len(t) - 1)
      PROVE  (Tail(s) \o t)[i] = Tail(s \o t)[i]
  BY <1>1, <1>3
<1>4. Tail(s \o t) = Tail(s) \o t
  BY <1>1, <1>2, <1>3
<1> QED
  BY <1>1, <1>4

(* They are sequences of objects.                                           *)
LEMMA WaysAreObjects ==
  ASSUME TypeInv
  PROVE  /\ requests \in Seq(ClientObjects) /\ answers \in Seq(LSPObjects)
         /\ Objects(client_messages) \in Seq(ClientObjects)
         /\ Objects(lsp_messages) \in Seq(LSPObjects)
BY ClientObjectsAre, LSPObjectsAre DEF TypeInv, requests, answers

(* A message enqueued by the client is a request on its way.                *)
LEMMA ClientEnqueues ==
  ASSUME TypeInv, NEW m \in ClientMessages,
         client_messages' = Append(client_messages, m), to_lsp' = to_lsp
  PROVE  /\ client_messages' \in Seq(ClientMessages)
         /\ requests' = Append(requests, serialize(m))
<1>1. Objects(client_messages') = Append(Objects(client_messages), serialize(m))
  BY ObjectsAppend DEF TypeInv
<1>2. requests' = to_lsp \o Append(Objects(client_messages), serialize(m))
  BY <1>1, OnTheirWay
<1>3. /\ to_lsp \in Seq(ClientObjects) /\ serialize(m) \in ClientObjects
      /\ Objects(client_messages) \in Seq(ClientObjects)
  BY WaysAreObjects, ClientSerializes DEF TypeInv
<1>4. requests' = Append(requests, serialize(m))
  BY <1>2, <1>3, AppendToConcat DEF requests
<1> QED
  BY <1>4 DEF TypeInv

(* A message enqueued by the LSP is an answer on its way.                   *)
LEMMA LSPEnqueues ==
  ASSUME TypeInv, NEW m \in LSPMessages,
         lsp_messages' = Append(lsp_messages, m), to_client' = to_client
  PROVE  /\ lsp_messages' \in Seq(LSPMessages)
         /\ answers' = Append(answers, serialize(m))
<1>1. Objects(lsp_messages') = Append(Objects(lsp_messages), serialize(m))
  BY ObjectsAppend DEF TypeInv
<1>2. answers' = to_client \o Append(Objects(lsp_messages), serialize(m))
  BY <1>1, OnTheirWay
<1>3. /\ to_client \in Seq(LSPObjects) /\ serialize(m) \in LSPObjects
      /\ Objects(lsp_messages) \in Seq(LSPObjects)
  BY WaysAreObjects, LSPSerializes DEF TypeInv
<1>4. answers' = Append(answers, serialize(m))
  BY <1>2, <1>3, AppendToConcat DEF answers
<1> QED
  BY <1>4 DEF TypeInv

(* Handing messages to PeerManager changes nothing of what is on its way.   *)
LEMMA SendingKeeps ==
  ASSUME TypeInv
  PROVE  /\ client_get_and_clear_pending_msg =>
              /\ requests' = requests /\ answers' = answers
              /\ to_lsp' = requests
         /\ lsp_get_and_clear_pending_msg => requests' = requests /\ answers' = answers
<1>1. ASSUME client_get_and_clear_pending_msg
      PROVE  requests' = requests /\ answers' = answers /\ to_lsp' = requests
  <2>1. client_messages' = <<>> /\ to_lsp' = requests
    BY <1>1 DEF client_get_and_clear_pending_msg, requests, Objects
  <2>2. requests' = requests \o <<>>
    BY <2>1, ObjectsOfNone, OnTheirWay
  <2>3. answers' = answers
    BY <1>1, OnTheirWay DEF client_get_and_clear_pending_msg, answers, lsp
  <2> QED
    BY <2>1, <2>2, <2>3, WaysAreObjects
<1>2. ASSUME lsp_get_and_clear_pending_msg
      PROVE  requests' = requests /\ answers' = answers
  <2>1. lsp_messages' = <<>> /\ to_client' = answers
    BY <1>2 DEF lsp_get_and_clear_pending_msg, answers, Objects
  <2>2. answers' = answers \o <<>>
    BY <2>1, ObjectsOfNone, OnTheirWay
  <2>3. requests' = requests
    BY <1>2, OnTheirWay DEF lsp_get_and_clear_pending_msg, requests, client
  <2> QED
    BY <2>2, <2>3, WaysAreObjects
<1> QED
  BY <1>1, <1>2

(* Delivering a message takes the first.                                    *)
LEMMA DeliveryTakes ==
  ASSUME TypeInv
  PROVE  /\ to_client # <<>> =>
              /\ answers # <<>> /\ Head(answers) = Head(to_client)
              /\ Tail(answers) = Tail(to_client) \o Objects(lsp_messages)
         /\ to_lsp # <<>> =>
              /\ requests # <<>> /\ Head(requests) = Head(to_lsp)
              /\ Tail(requests) = Tail(to_lsp) \o Objects(client_messages)
BY WaysAreObjects, TailOfConcat DEF TypeInv, requests, answers

-----------------------------------------------------------------------------
(* The moves.                                                               *)

(* A request is made and enqueued (lsps0/client.rs:51-58,                   *)
(* lsps2/client.rs:112-178).                                                *)
Asks(id, method) ==
  /\ id \in Ids /\ id \notin DOMAIN issued /\ method \in Methods
  /\ DOMAIN issued' = DOMAIN issued \cup {id} /\ issued'[id] = method
  /\ \A i \in DOMAIN issued : issued'[i] = issued[i]
  /\ requests' = Append(requests, RequestObject(id, method)) /\ answers' = answers
  /\ client_messages' \in Seq(ClientMessages)
  /\ \A i \in DOMAIN issued : Waiting(i) => Waiting(i)'
  /\ method # "lsps1.get_info" => Waiting(id)'
  /\ UNCHANGED <<request_id_to_method_map, ignores_lsp, listed, invoices, lsp, net,
                 failures>>

(* Each call of the client API that makes a request is such a step.         *)
LEMMA RequestsAreAsked ==
  ASSUME TypeInv, NEW id \in Ids,
         \/ list_protocols(id) \/ send_get_info_request(id)
         \/ request_opening_params(id) \/ select_opening_params(id)
  PROVE  \E method \in Methods : Asks(id, method)
<1>1. ASSUME NEW method \in Methods, Issue(method, id),
             \A i \in DOMAIN issued : Waiting(i) => Waiting(i)',
             method # "lsps1.get_info" => Waiting(id)'
      PROVE  Asks(id, method)
  <2>1. Request(id, method, Of(method)) \in ClientMessages
    BY DEF ClientMessages
  <2>2. /\ client_messages' \in Seq(ClientMessages)
        /\ requests' = Append(requests, serialize(Request(id, method, Of(method))))
    BY <1>1, <2>1, ClientEnqueues DEF Issue, net
  <2>3. answers' = answers
    BY <1>1, OnTheirWay DEF Issue, net, lsp, answers
  <2>4. requests' = Append(requests, RequestObject(id, method))
    BY <2>2, SerializeRequest
  <2>5. /\ id \notin DOMAIN issued
        /\ DOMAIN issued' = DOMAIN issued \cup {id} /\ issued'[id] = method
        /\ \A i \in DOMAIN issued : issued'[i] = issued[i]
    BY <1>1 DEF Issue
  <2>6. UNCHANGED <<request_id_to_method_map, ignores_lsp, listed, invoices, lsp, net,
                    failures>>
    BY <1>1 DEF Issue
  <2> QED
    BY <1>1, <2>2, <2>3, <2>4, <2>5, <2>6 DEF Asks
<1>2. CASE list_protocols(id)
  <2>1. /\ Issue("lsps0.list_protocols", id) /\ listed' = listed
        /\ UNCHANGED <<pending_get_info_requests, pending_buy_requests>>
    BY <1>2 DEF list_protocols, Issue
  <2>2. id \notin listed /\ id \notin DOMAIN issued
    BY <2>1 DEF Issue, TypeInv
  <2>3. \A i \in DOMAIN issued : Waiting(i) => Waiting(i)'
    BY <2>1 DEF Issue, Waiting
  <2>4. Waiting(id)'
    BY <2>1, <2>2 DEF Issue, Waiting
  <2> QED
    BY <1>1, <2>1, <2>3, <2>4 DEF Methods
<1>3. CASE send_get_info_request(id)
  <2>1. /\ Issue("lsps1.get_info", id) /\ listed' = listed
        /\ UNCHANGED <<pending_get_info_requests, pending_buy_requests>>
    BY <1>3 DEF send_get_info_request, Issue
  <2>2. \A i \in DOMAIN issued : Waiting(i) => Waiting(i)'
    BY <2>1 DEF Issue, Waiting
  <2> QED
    BY <1>1, <2>1, <2>2 DEF Methods
<1>4. CASE request_opening_params(id)
  <2>1. /\ Issue("lsps2.get_info", id) /\ listed' = listed
        /\ pending_get_info_requests' = pending_get_info_requests \cup {id}
        /\ UNCHANGED pending_buy_requests
    BY <1>4 DEF request_opening_params, Issue
  <2>2. \A i \in DOMAIN issued : Waiting(i) => Waiting(i)'
    BY <2>1 DEF Issue, Waiting
  <2>3. Waiting(id)'
    BY <2>1 DEF Waiting
  <2> QED
    BY <1>1, <2>1, <2>2, <2>3 DEF Methods
<1>5. CASE select_opening_params(id)
  <2>1. /\ Issue("lsps2.buy", id) /\ listed' = listed
        /\ pending_buy_requests' = pending_buy_requests \cup {id}
        /\ UNCHANGED pending_get_info_requests
    BY <1>5 DEF select_opening_params, Issue
  <2>2. \A i \in DOMAIN issued : Waiting(i) => Waiting(i)'
    BY <2>1 DEF Issue, Waiting
  <2>3. Waiting(id)'
    BY <2>1 DEF Waiting
  <2> QED
    BY <1>1, <2>1, <2>2, <2>3 DEF Methods
<1> QED
  BY <1>2, <1>3, <1>4, <1>5

(* An answer is read and handled (manager.rs:483-515,                       *)
(* lsps2/client.rs:189-324).                                                *)
ReadsAnswer(json) ==
  /\ answers # <<>> /\ json = Head(answers) /\ answers' = Tail(answers)
  /\ requests' \in {requests, Append(requests, InvalidObject)}
  /\ client_messages' \in Seq(ClientMessages) /\ to_client' \in Seq(LSPObjects)
  /\ DOMAIN request_id_to_method_map'
       \in {DOMAIN request_id_to_method_map,
            DOMAIN request_id_to_method_map \ {json.id}}
  /\ \A id \in DOMAIN request_id_to_method_map' :
       request_id_to_method_map'[id] = request_id_to_method_map[id]
  /\ \A id \in DOMAIN issued : id # json.id /\ Waiting(id) => Waiting(id)'
  /\ listed' \subseteq DOMAIN issued
  /\ ignores_lsp' /\ ~ignores_lsp =>
       json.id # Null /\ json.id \notin DOMAIN request_id_to_method_map
  /\ \A invoice \in invoices' :
       \/ invoice \in invoices
       \/ /\ json.id # Null /\ Has(json, "result") /\ issued[json.id] = "lsps2.buy"
          /\ invoice = <<json.id, to_scid(json.result.intercept_scid)>>
  /\ UNCHANGED <<issued, lsp, to_lsp, failures>>

(* How the client treats an answer depends on its type and its method       *)
(* (lsps0/client.rs:60-114, lsps2/client.rs:334-358).                       *)
LEMMA HandledByType ==
  ASSUME NEW m, client_handle_lsps_message(m)
  PROVE  /\ m.type = "invalid" =>
              UNCHANGED <<pending_get_info_requests, pending_buy_requests, listed,
                          invoices>>
         /\ m.type = "response" =>
              /\ m.method = "lsps0.list_protocols" => handle_list_protocols(m)
              /\ m.method = "lsps2.get_info" => handle_get_info(m)
              /\ m.method = "lsps2.buy" => handle_buy(m)
BY DEF client_handle_lsps_message

(* Delivering an answer is such a step (manager.rs:483-515).                *)
LEMMA AnswersAreRead ==
  ASSUME TypeInv, client_handle_custom_message
  PROVE  ReadsAnswer(Head(answers))
<1>1. PICK json : json = Head(to_client)
  OBVIOUS
<1>2. PICK map : map = request_id_to_method_map
  OBVIOUS
<1>3. PICK read : read = from_str_with_id_map(json, TRUE, map)
  OBVIOUS
<1>4. /\ answers # <<>> /\ json = Head(answers)
      /\ answers' = Tail(answers)
      /\ to_client' \in Seq(LSPObjects) /\ json \in LSPObjects
  <2>1. to_client # <<>> /\ to_client' = Tail(to_client) /\ lsp_messages' = lsp_messages
    BY DEF client_handle_custom_message, lsp
  <2>2. answers' = Tail(to_client) \o Objects(lsp_messages)
    BY <2>1, OnTheirWay
  <2>3. to_client \in Seq(LSPObjects)
    BY DEF TypeInv
  <2>4. Tail(to_client) \in Seq(LSPObjects) /\ Head(to_client) \in LSPObjects
    BY <2>1, <2>3
  <2>5. /\ answers # <<>> /\ Head(answers) = Head(to_client)
        /\ Tail(answers) = Tail(to_client) \o Objects(lsp_messages)
    BY <2>1, DeliveryTakes
  <2> QED
    BY <1>1, <2>1, <2>2, <2>4, <2>5
<1>5. AnswerFits(json) /\ Null \notin DOMAIN map
  <2>1. json \in Range(answers)
    BY <1>4, WaysAreObjects DEF Range
  <2> QED
    BY <1>2, <2>1, LSPS2RequestsAssumption DEF TypeInv
<1>6. UNCHANGED <<issued, lsp, to_lsp, failures>>
  BY DEF client_handle_custom_message
<1>7. /\ \A id \in DOMAIN map : id \in DOMAIN issued /\ map[id] = issued[id]
      /\ client_messages \in Seq(ClientMessages) /\ listed \subseteq DOMAIN issued
  BY <1>2 DEF TypeInv
<1>8. json.id # Null =>
        /\ json.id \in DOMAIN issued /\ issued[json.id] \in Served
        /\ (Has(json, "result") => json.result.of = issued[json.id])
  BY <1>4, <1>5, AnswersAreResponses DEF AnswerFits
<1>9. CASE ignores_lsp
  <2>1. UNCHANGED client
    BY <1>9 DEF client_handle_custom_message
  <2>2. requests' = requests
    BY <1>6, <2>1, OnTheirWay DEF requests, client
  <2>3. \A id \in DOMAIN issued : Waiting(id) => Waiting(id)'
    BY <1>6, <2>1 DEF Waiting, client
  <2>4. /\ client_messages' \in Seq(ClientMessages) /\ listed' \subseteq DOMAIN issued
        /\ invoices' = invoices /\ request_id_to_method_map' = request_id_to_method_map
    BY <1>7, <2>1 DEF client
  <2> QED
    BY <1>4, <1>6, <1>9, <2>2, <2>3, <2>4 DEF ReadsAnswer
<1>10. CASE ~ignores_lsp
  <2>1. /\ request_id_to_method_map' = read.map
        /\ IF read.message = ParseError THEN client_parse_failure
           ELSE /\ client_handle_lsps_message(read.message)
                /\ UNCHANGED <<client_messages, ignores_lsp>>
    BY <1>1, <1>2, <1>3, <1>10 DEF client_handle_custom_message
  <2>2. CASE json.id = Null
    <3>1. json = InvalidObject
      BY <1>4, <2>2, LSPS2RequestsAssumption DEF LSPObjects
    <3>2. read = from_str_with_id_map(InvalidObject, TRUE, map)
      BY <1>3, <3>1
    <3>3. /\ read.message = Invalid /\ DOMAIN read.map = DOMAIN map
          /\ \A id \in DOMAIN map : read.map[id] = map[id]
      <4>1. Null \notin DOMAIN map
        BY <1>5
      <4>2. from_str_with_id_map(InvalidObject, TRUE, map).message = Invalid
        BY <4>1, ReadInvalid
      <4>3. from_str_with_id_map(InvalidObject, TRUE, map).map
              = [id \in DOMAIN map \ {Null} |-> map[id]]
        BY <4>1, ReadInvalid
      <4> QED
        BY <3>2, <4>1, <4>2, <4>3
    <3>4. Invalid # ParseError /\ Invalid.type = "invalid"
      BY DEF Invalid, ParseError
    <3>5. /\ UNCHANGED <<pending_get_info_requests, pending_buy_requests, listed, invoices>>
          /\ UNCHANGED <<client_messages, ignores_lsp>>
      BY <2>1, <3>3, <3>4, HandledByType
    <3>6. requests' = requests
      BY <1>6, <3>5, OnTheirWay DEF requests
    <3>7. \A id \in DOMAIN issued : Waiting(id) => Waiting(id)'
      BY <1>6, <3>5 DEF Waiting
    <3>8. /\ DOMAIN request_id_to_method_map' = DOMAIN request_id_to_method_map
          /\ \A id \in DOMAIN request_id_to_method_map' :
               request_id_to_method_map'[id] = request_id_to_method_map[id]
      BY <1>2, <2>1, <3>3
    <3> QED
      BY <1>4, <1>6, <1>7, <3>5, <3>6, <3>7, <3>8 DEF ReadsAnswer
  <2>3. CASE json.id # Null
    <3>1. json.id \in DOMAIN map => (Has(json, "result") => json.result.of = map[json.id])
      BY <1>7, <1>8, <2>3
    <3>2. /\ json.id \notin DOMAIN map => read.message = ParseError
          /\ json.id \in DOMAIN map =>
               read.message =
                 IF Has(json, "result")
                 THEN Response(json.id, map[json.id], "result", json.result)
                 ELSE Response(json.id, map[json.id], "error", json.error)
          /\ read.map = [id \in DOMAIN map \ {json.id} |-> map[id]]
      BY <1>3, <1>4, <2>3, <3>1, ReadAnswer
    <3>3. /\ DOMAIN request_id_to_method_map' = DOMAIN request_id_to_method_map \ {json.id}
          /\ \A id \in DOMAIN request_id_to_method_map' :
               request_id_to_method_map'[id] = request_id_to_method_map[id]
      BY <1>2, <2>1, <3>2
    <3>4. CASE json.id \notin DOMAIN map
      <4>1. client_parse_failure
        BY <2>1, <3>2, <3>4
      <4>2. Invalid \in ClientMessages
        BY DEF ClientMessages
      <4>3. /\ client_messages' \in Seq(ClientMessages)
            /\ requests' = Append(requests, InvalidObject)
        BY <1>6, <4>1, <4>2, ClientEnqueues, SerializeInvalid DEF client_parse_failure
      <4>4. \A id \in DOMAIN issued : Waiting(id) => Waiting(id)'
        BY <1>6, <4>1 DEF client_parse_failure, Waiting
      <4>5. listed' \subseteq DOMAIN issued /\ invoices' = invoices
        BY <1>7, <4>1 DEF client_parse_failure
      <4> QED
        BY <1>2, <1>4, <1>6, <2>3, <3>3, <3>4, <4>3, <4>4, <4>5 DEF ReadsAnswer
    <3>5. CASE json.id \in DOMAIN map
      <4>1. PICK field, value :
              /\ read.message = Response(json.id, issued[json.id], field, value)
              /\ field = "result" => Has(json, "result") /\ value = json.result
        <5>1. CASE Has(json, "result")
          BY <1>7, <3>2, <3>5, <5>1
        <5>2. CASE ~Has(json, "result")
          <6>1. read.message = Response(json.id, issued[json.id], "error", json.error)
            BY <1>7, <3>2, <3>5, <5>2
          <6> QED
            BY <6>1
        <5> QED
          BY <5>1, <5>2
      <4>2. PICK m : m = read.message
        OBVIOUS
      <4>3. /\ m.type = "response" /\ m.id = json.id /\ m.method = issued[json.id]
            /\ m.field = field /\ m.value = value
        BY <4>1, <4>2 DEF Response
      <4>4. m # ParseError
        <5>1. ParseError.type = "parse error"
          BY DEF ParseError
        <5> QED
          BY <4>3, <5>1
      <4>5. client_handle_lsps_message(m) /\ UNCHANGED <<client_messages, ignores_lsp>>
        BY <2>1, <4>2, <4>4
      <4>6. requests' = requests /\ client_messages' \in Seq(ClientMessages)
        BY <1>6, <1>7, <4>5, OnTheirWay DEF requests
      <4>7. ASSUME \A id \in DOMAIN issued : id # json.id /\ Waiting(id) => Waiting(id)',
                   listed' \subseteq DOMAIN issued,
                   \A invoice \in invoices' :
                     \/ invoice \in invoices
                     \/ /\ Has(json, "result") /\ issued[json.id] = "lsps2.buy"
                        /\ invoice = <<json.id, to_scid(json.result.intercept_scid)>>
            PROVE  ReadsAnswer(json)
        BY <1>4, <1>6, <2>3, <3>3, <4>5, <4>6, <4>7 DEF ReadsAnswer
      <4>8. CASE issued[json.id] = "lsps0.list_protocols"
        <5>1. handle_list_protocols(m)
          BY <4>3, <4>5, <4>8, HandledByType
        <5>2. invoices' = invoices /\ listed' \subseteq listed \cup {json.id}
          BY <4>3, <5>1 DEF handle_list_protocols
        <5>3. \A id \in DOMAIN issued : id # json.id /\ Waiting(id) => Waiting(id)'
          BY <1>6, <5>1, <5>2 DEF handle_list_protocols, Waiting
        <5> QED
          BY <1>4, <1>7, <1>8, <2>3, <4>7, <5>2, <5>3
      <4>9. CASE issued[json.id] = "lsps2.get_info"
        <5>1. handle_get_info(m)
          BY <4>3, <4>5, <4>9, HandledByType
        <5>2. invoices' = invoices /\ listed' = listed
          BY <5>1 DEF handle_get_info
        <5>3. \A id \in DOMAIN issued : id # json.id /\ Waiting(id) => Waiting(id)'
          BY <1>6, <4>3, <5>1 DEF handle_get_info, Waiting
        <5> QED
          BY <1>4, <1>7, <4>7, <5>2, <5>3
      <4>10. CASE issued[json.id] = "lsps2.buy"
        <5>1. handle_buy(m)
          BY <4>3, <4>5, <4>10, HandledByType
        <5>2. listed' = listed
          BY <5>1 DEF handle_buy
        <5>3. \A id \in DOMAIN issued : id # json.id /\ Waiting(id) => Waiting(id)'
          BY <1>6, <4>3, <5>1 DEF handle_buy, Waiting
        <5>4. \A invoice \in invoices' :
                \/ invoice \in invoices
                \/ /\ Has(json, "result")
                   /\ invoice = <<json.id, to_scid(json.result.intercept_scid)>>
          BY <4>1, <4>3, <5>1 DEF handle_buy
        <5> QED
          BY <1>4, <1>7, <4>7, <4>10, <5>2, <5>3, <5>4
      <4> QED
        BY <1>4, <1>8, <2>3, <4>8, <4>9, <4>10 DEF Served
    <3> QED
      BY <3>4, <3>5
  <2> QED
    BY <2>2, <2>3
<1> QED
  BY <1>9, <1>10

(* An answer to one of the requests a client has made.                      *)
LEMMA ResponseIsAnswer ==
  ASSUME TypeInv, NEW id \in DOMAIN issued, issued[id] \in Served,
         NEW value \in Values, NEW m,
         \/ m = Response(id, issued[id], "error", Refusal)
         \/ m = Response(id, issued[id], "result", value)
  PROVE  /\ m \in LSPMessages
         /\ serialize(m) \in LSPObjects /\ serialize(m).id = id
         /\ Has(serialize(m), "result") => serialize(m).result = value
<1>1. id \in Ids /\ id # Null
  BY LSPS2RequestsAssumption DEF TypeInv
<1>2. CASE m = Response(id, issued[id], "error", Refusal)
  <2>1. m \in LSPMessages
    BY <1>1, <1>2 DEF LSPMessages
  <2>2. serialize(m) = [id |-> id, error |-> Refusal]
    BY <1>2, SerializeResponse
  <2> QED
    BY <1>1, <2>1, <2>2 DEF LSPObjects, Has
<1>3. CASE m = Response(id, issued[id], "result", value)
  <2>1. m \in LSPMessages
    BY <1>1, <1>3 DEF LSPMessages
  <2>2. serialize(m) = [id |-> id, result |-> value]
    BY <1>3, SerializeResponse
  <2> QED
    BY <1>1, <2>1, <2>2 DEF LSPObjects, Has
<1> QED
  BY <1>2, <1>3

(* A request is read and handled (manager.rs:483-515,                       *)
(* lsps0/service.rs:39-54, lsps2/service.rs:980-1113).                      *)
ReadsRequest(json) ==
  /\ requests # <<>> /\ json = Head(requests) /\ requests' = Tail(requests)
  /\ to_lsp # <<>> /\ to_lsp' = Tail(to_lsp)
  /\ lsp_messages' \in Seq(LSPMessages)
  /\ \/ /\ answers' \in {answers, Append(answers, InvalidObject)}
        /\ UNCHANGED pending_requests
     \/ /\ json.id # Null
        /\ \E answer \in LSPObjects : /\ answer.id = json.id /\ AnswerFits(answer)
                                      /\ answers' = Append(answers, answer)
        /\ UNCHANGED pending_requests
     \/ /\ json.id # Null /\ issued[json.id] \in {"lsps2.get_info", "lsps2.buy"}
        /\ pending_requests' = [pending_requests EXCEPT ![json.id] = issued[json.id]]
        /\ UNCHANGED answers
  /\ ignores_client' /\ ~ignores_client =>
       ~config.lsps1 /\ "lsps1.get_info" \in Range(issued)
  /\ UNCHANGED <<issued, client, config, channels, to_client, failures>>

(* Delivering a request is such a step (manager.rs:483-515).                *)
LEMMA RequestsAreRead ==
  ASSUME TypeInv, lsp_handle_custom_message
  PROVE  ReadsRequest(Head(requests))
<1>1. PICK json : json = Head(to_lsp)
  OBVIOUS
<1>2. PICK m : m = from_str_with_id_map(json, config.lsps1, NoMethods).message
  OBVIOUS
<1>3. UNCHANGED <<issued, client, config, channels, to_client, failures>>
  BY DEF lsp_handle_custom_message
<1>4. /\ requests # <<>> /\ json = Head(requests) /\ requests' = Tail(requests)
      /\ to_lsp # <<>> /\ to_lsp' = Tail(to_lsp) /\ json \in ClientObjects
  <2>1. to_lsp # <<>> /\ to_lsp' = Tail(to_lsp) /\ client_messages' = client_messages
    BY <1>3 DEF lsp_handle_custom_message, client
  <2>2. requests' = Tail(to_lsp) \o Objects(client_messages)
    BY <2>1, OnTheirWay
  <2>3. to_lsp \in Seq(ClientObjects)
    BY DEF TypeInv
  <2>4. Head(to_lsp) \in ClientObjects
    BY <2>1, <2>3
  <2>5. /\ requests # <<>> /\ Head(requests) = Head(to_lsp)
        /\ Tail(requests) = Tail(to_lsp) \o Objects(client_messages)
    BY <2>1, DeliveryTakes
  <2> QED
    BY <1>1, <2>1, <2>2, <2>4, <2>5
<1>5. RequestFits(json)
  <2>1. json \in Range(requests)
    BY <1>4, WaysAreObjects DEF Range
  <2> QED
    BY <2>1 DEF TypeInv
<1>6. /\ config.lsps1 \in BOOLEAN /\ config.serves \subseteq {0, 2}
      /\ lsp_messages \in Seq(LSPMessages)
  BY LSPS2RequestsAssumption DEF TypeInv
<1>7. CASE ignores_client
  <2>1. UNCHANGED lsp
    BY <1>7 DEF lsp_handle_custom_message
  <2>2. answers' = answers
    BY <1>3, <2>1, OnTheirWay DEF answers, lsp
  <2> QED
    BY <1>3, <1>4, <1>6, <1>7, <2>1, <2>2 DEF ReadsRequest, lsp
<1>8. CASE ~ignores_client /\ m = ParseError
  <2>1. lsp_parse_failure
    BY <1>1, <1>2, <1>8 DEF lsp_handle_custom_message
  <2>2. Invalid \in LSPMessages
    BY DEF LSPMessages
  <2>3. lsp_messages' \in Seq(LSPMessages) /\ answers' = Append(answers, InvalidObject)
    BY <1>3, <2>1, <2>2, LSPEnqueues, SerializeInvalid DEF lsp_parse_failure, Enqueue
  <2>4. ~config.lsps1 /\ "lsps1.get_info" \in Range(issued)
    <3>1. json # InvalidObject
      <4> SUFFICES ASSUME json = InvalidObject PROVE FALSE
        OBVIOUS
      <4>1. Null \notin DOMAIN NoMethods
        BY DEF NoMethods
      <4>2. m = Invalid
        BY <1>2, <4>1, ReadInvalid
      <4>3. Invalid.type = "invalid" /\ ParseError.type = "parse error"
        BY DEF Invalid, ParseError
      <4> QED
        BY <1>8, <4>2, <4>3
    <3>2. PICK id \in Ids, method \in Methods : json = RequestObject(id, method)
      BY <1>4, <3>1 DEF ClientObjects
    <3>3. m = IF method = "lsps1.get_info" /\ ~config.lsps1 THEN ParseError
              ELSE Request(id, method, Of(method))
      BY <1>2, <1>6, <3>2, ReadRequest
    <3>4. Request(id, method, Of(method)).type = "request" /\ ParseError.type = "parse error"
      BY DEF Request, ParseError
    <3>5. method = "lsps1.get_info" /\ ~config.lsps1
      BY <1>8, <3>3, <3>4
    <3>6. json.id = id /\ json.method = method /\ id # Null
      BY <3>2, LSPS2RequestsAssumption DEF RequestObject
    <3>7. id \in DOMAIN issued /\ issued[id] = "lsps1.get_info"
      BY <1>5, <3>5, <3>6 DEF RequestFits
    <3> QED
      BY <3>5, <3>7 DEF Range
  <2>5. pending_requests' = pending_requests
    BY <2>1 DEF lsp_parse_failure
  <2> QED
    BY <1>3, <1>4, <2>3, <2>4, <2>5 DEF ReadsRequest
<1>9. CASE ~ignores_client /\ m # ParseError
  <2>1. lsp_handle_lsps_message(m) /\ UNCHANGED ignores_client
    BY <1>1, <1>2, <1>9 DEF lsp_handle_custom_message
  <2>2. ASSUME UNCHANGED <<pending_requests, surfaced, lsp_messages>>
        PROVE  ReadsRequest(json)
    <3>1. answers' = answers
      BY <1>3, <2>2, OnTheirWay DEF answers
    <3> QED
      BY <1>3, <1>4, <1>6, <2>1, <2>2, <3>1 DEF ReadsRequest
  <2>3. CASE json = InvalidObject
    <3>1. Null \notin DOMAIN NoMethods
      BY DEF NoMethods
    <3>2. m = Invalid
      BY <1>2, <2>3, <3>1, ReadInvalid
    <3>3. m.type = "invalid"
      BY <3>2 DEF Invalid
    <3>4. UNCHANGED <<pending_requests, surfaced, lsp_messages>>
      BY <2>1, <3>3 DEF lsp_handle_lsps_message
    <3> QED
      BY <1>4, <2>2, <3>4
  <2>4. CASE json # InvalidObject
    <3>1. PICK id \in Ids, method \in Methods : json = RequestObject(id, method)
      BY <1>4, <2>4 DEF ClientObjects
    <3>2. m = Request(id, method, Of(method))
      BY <1>2, <1>6, <1>9, <3>1, ReadRequest
    <3>3. m.type = "request" /\ m.id = id /\ m.method = method
      BY <3>2 DEF Request
    <3>4. json.id = id /\ json.method = method /\ id # Null
      BY <3>1, LSPS2RequestsAssumption DEF RequestObject
    <3>5. id \in DOMAIN issued /\ issued[id] = method
      BY <1>5, <3>4 DEF RequestFits
    <3>6. CASE Protocol(method) \notin config.serves
      <4>1. UNCHANGED <<pending_requests, surfaced, lsp_messages>>
        BY <2>1, <3>3, <3>6 DEF lsp_handle_lsps_message
      <4> QED
        BY <1>4, <2>2, <4>1
    <3>7. CASE Protocol(method) \in config.serves
      <4>1. method \in Served
        BY <1>6, <3>7 DEF Protocol, LSPS1Methods, Methods, Served
      <4>2. /\ method = "lsps0.list_protocols" => handle_list_protocols_request(id)
            /\ method = "lsps2.get_info" => handle_get_info_request(id)
            /\ method = "lsps2.buy" => handle_buy_request(id)
        BY <2>1, <3>3, <3>7 DEF lsp_handle_lsps_message
      <4>3. ASSUME NEW response, Enqueue(response), UNCHANGED pending_requests,
                   NEW value \in Values,
                   \/ response = Response(id, method, "error", Refusal)
                   \/ /\ response = Response(id, method, "result", value)
                      /\ method # "lsps2.buy" /\ value = Of(method)
            PROVE  ReadsRequest(json)
        <5>1. /\ response \in LSPMessages
              /\ serialize(response) \in LSPObjects /\ serialize(response).id = id
          BY <3>5, <4>1, <4>3, ResponseIsAnswer
        <5>2. /\ lsp_messages' \in Seq(LSPMessages)
              /\ answers' = Append(answers, serialize(response))
          BY <1>3, <4>3, <5>1, LSPEnqueues DEF Enqueue
        <5>3. AnswerFits(serialize(response))
          <6>1. CASE response = Response(id, method, "error", Refusal)
            <7>1. ~Has(serialize(response), "result")
              BY <6>1, SerializeResponse DEF Has
            <7> QED
              BY <3>5, <4>1, <5>1, <7>1 DEF AnswerFits
          <6>2. CASE /\ response = Response(id, method, "result", value)
                     /\ method # "lsps2.buy" /\ value = Of(method)
            <7>1. serialize(response).result = Of(method)
              BY <6>2, SerializeResponse
            <7> QED
              BY <3>5, <4>1, <5>1, <6>2, <7>1 DEF AnswerFits
          <6> QED
            BY <4>3, <6>1, <6>2
        <5> QED
          BY <1>3, <1>4, <2>1, <3>4, <4>3, <5>1, <5>2, <5>3 DEF ReadsRequest
      <4>4. ASSUME method \in {"lsps2.get_info", "lsps2.buy"}, UNCHANGED lsp_messages,
                   pending_requests' = [pending_requests EXCEPT ![id] = method]
            PROVE  ReadsRequest(json)
        <5>1. answers' = answers
          BY <1>3, <4>4, OnTheirWay DEF answers
        <5> QED
          BY <1>3, <1>4, <1>6, <2>1, <3>4, <3>5, <4>4, <5>1 DEF ReadsRequest
      <4>5. Of(method) \in Values
        BY <4>1 DEF Values
      <4>6. CASE method = "lsps0.list_protocols"
        BY <1>4, <4>2, <4>3, <4>5, <4>6 DEF handle_list_protocols_request
      <4>7. CASE method = "lsps2.get_info"
        BY <1>4, <4>2, <4>4, <4>7 DEF handle_get_info_request
      <4>8. CASE method = "lsps2.buy"
        BY <1>4, <4>2, <4>3, <4>4, <4>5, <4>8 DEF handle_buy_request
      <4> QED
        BY <4>1, <4>6, <4>7, <4>8 DEF Served
    <3> QED
      BY <3>6, <3>7
  <2> QED
    BY <2>3, <2>4
<1> QED
  BY <1>7, <1>8, <1>9

(* The application answers a request (lsps2/service.rs:495-672).            *)
Answers(id) ==
  /\ requests' = requests
  /\ lsp_messages' \in Seq(LSPMessages)
  /\ pending_requests' = [pending_requests EXCEPT ![id] = "none"]
  /\ channels \subseteq channels'
  /\ \/ answers' = answers
     \/ /\ id \in Pending
        /\ \E answer \in LSPObjects : /\ answer.id = id /\ AnswerFits(answer)'
                                      /\ answers' = Append(answers, answer)
  /\ UNCHANGED <<issued, client, config, ignores_client, net, failures>>

(* Each answer of the application is such a step.                           *)
LEMMA AnswersAreGenerated ==
  ASSUME TypeInv, NEW id \in Ids, GenerateAnswer(id)
  PROVE  Answers(id)
<1>1. ASSUME NEW method \in {"lsps2.get_info", "lsps2.buy"},
             NEW field \in {"result", "error"}, NEW value,
             AnswerRequest(method, id, field, value),
             channels \subseteq channels',
             field = "error" => value = Refusal,
             field = "result" /\ method = "lsps2.get_info" => value = Of(method),
             field = "result" /\ method = "lsps2.buy" /\ pending_requests[id] = method =>
               \E scid \in Scids : value = Invoice(scid) /\ <<id, scid>> \in channels'
      PROVE  Answers(id)
  <2>1. /\ pending_requests' = [pending_requests EXCEPT ![id] = "none"]
        /\ UNCHANGED <<issued, client, config, ignores_client, net, failures>>
    BY <1>1 DEF AnswerRequest, remaining
  <2>2. requests' = requests
    BY <2>1, OnTheirWay DEF requests, client, net
  <2>3. CASE pending_requests[id] # method
    <3>1. UNCHANGED lsp_messages
      BY <1>1, <2>3 DEF AnswerRequest
    <3>2. answers' = answers /\ lsp_messages' \in Seq(LSPMessages)
      BY <2>1, <3>1, OnTheirWay DEF answers, net, TypeInv
    <3> QED
      BY <1>1, <2>1, <2>2, <3>2 DEF Answers
  <2>4. CASE pending_requests[id] = method
    <3>1. id \in Pending /\ id \in DOMAIN issued /\ issued[id] = method
      BY <1>1, <2>4 DEF Pending, TypeInv
    <3>2. PICK m : m = Response(id, method, field, value)
      OBVIOUS
    <3>3. lsp_messages' = Append(lsp_messages, m)
      BY <1>1, <2>4, <3>2 DEF AnswerRequest, Enqueue
    <3>4. method \in Served /\ method # "none"
      BY DEF Served
    <3>5. PICK v \in Values : field = "result" => v = value
      BY <1>1, <2>4, <3>4 DEF Values
    <3>6. \/ m = Response(id, method, "error", Refusal)
          \/ m = Response(id, method, "result", v)
      BY <1>1, <3>2, <3>5
    <3>7. /\ m \in LSPMessages
          /\ serialize(m) \in LSPObjects /\ serialize(m).id = id
      BY <3>1, <3>4, <3>6, ResponseIsAnswer
    <3>8. lsp_messages' \in Seq(LSPMessages) /\ answers' = Append(answers, serialize(m))
      BY <2>1, <3>3, <3>7, LSPEnqueues DEF net
    <3>9. AnswerFits(serialize(m))'
      <4>1. issued' = issued
        BY <2>1
      <4>2. CASE field = "error"
        <5>1. ~Has(serialize(m), "result")
          BY <1>1, <3>2, <4>2, SerializeResponse DEF Has
        <5> QED
          BY <3>1, <3>4, <3>7, <4>1, <5>1 DEF AnswerFits
      <4>3. CASE field = "result"
        <5>1. serialize(m).result = value
          BY <3>2, <4>3, SerializeResponse
        <5> QED
          BY <1>1, <2>4, <3>1, <3>4, <3>7, <4>1, <4>3, <5>1 DEF AnswerFits
      <4> QED
        BY <4>2, <4>3
    <3> QED
      BY <1>1, <2>1, <2>2, <3>1, <3>7, <3>8, <3>9 DEF Answers
  <2> QED
    BY <2>3, <2>4
<1>2. CASE invalid_token_provided(id)
  BY <1>1, <1>2 DEF invalid_token_provided
<1>3. CASE opening_fee_params_generated(id)
  BY <1>1, <1>3 DEF opening_fee_params_generated
<1>4. CASE invoice_parameters_generated(id)
  <2>1. PICK scid \in Scids :
          /\ AnswerRequest("lsps2.buy", id, "result", Invoice(scid))
          /\ channels' = created(id, scid)
    BY <1>4 DEF invoice_parameters_generated, Invoice
  <2>2. /\ channels \subseteq channels'
        /\ pending_requests[id] = "lsps2.buy" => <<id, scid>> \in channels'
    BY <2>1 DEF created
  <2> QED
    BY <1>1, <2>1, <2>2
<1> QED
  BY <1>2, <1>3, <1>4 DEF GenerateAnswer

(* The connection breaks or one side restarts: what is on its way is lost.  *)
Loses ==
  /\ requests' \in {Objects(client_messages), <<>>}
  /\ answers' \in {Objects(lsp_messages), <<>>}
  /\ to_lsp' = <<>> /\ to_client' = <<>>
  /\ failures \subseteq failures' /\ UNCHANGED <<issued, config>>
  /\ \/ UNCHANGED client
     \/ /\ "client" \in failures' /\ request_id_to_method_map' = NoMethods
        /\ client_messages' = <<>> /\ ~ignores_lsp' /\ listed' = {} /\ invoices' = {}
  /\ \/ UNCHANGED lsp
     \/ /\ "LSP" \in failures' /\ lsp_messages' = <<>> /\ ~ignores_client'
        /\ pending_requests' = [id \in Ids |-> "none"]

(* Each failure is such a step.                                             *)
LEMMA FailuresLose ==
  ASSUME TypeInv, Disconnect \/ RestartClient \/ RestartLSP
  PROVE  Loses
<1>1. /\ to_lsp' = <<>> /\ to_client' = <<>>
      /\ failures \subseteq failures' /\ UNCHANGED <<issued, config>>
  BY DEF Disconnect, RestartClient, RestartLSP, Fail, lsp
<1>2. \/ UNCHANGED client
      \/ /\ "client" \in failures' /\ request_id_to_method_map' = NoMethods
         /\ client_messages' = <<>> /\ ~ignores_lsp' /\ listed' = {} /\ invoices' = {}
  BY DEF Disconnect, RestartClient, RestartLSP, Fail
<1>3. \/ UNCHANGED lsp
      \/ /\ "LSP" \in failures' /\ lsp_messages' = <<>> /\ ~ignores_client'
         /\ pending_requests' = [id \in Ids |-> "none"]
  BY DEF Disconnect, RestartClient, RestartLSP, Fail
<1>4. ASSUME NEW S, NEW s \in Seq(S) PROVE <<>> \o s = s
  OBVIOUS
<1>5. requests' \in {Objects(client_messages), <<>>}
  <2>1. requests' = <<>> \o Objects(client_messages')
    BY <1>1, OnTheirWay
  <2>2. client_messages' = client_messages \/ client_messages' = <<>>
    BY <1>2 DEF client
  <2>3. <<>> \in Seq({})
    OBVIOUS
  <2> QED
    BY <1>4, <2>1, <2>2, <2>3, WaysAreObjects, ObjectsOfNone
<1>6. answers' \in {Objects(lsp_messages), <<>>}
  <2>1. answers' = <<>> \o Objects(lsp_messages')
    BY <1>1, OnTheirWay
  <2>2. lsp_messages' = lsp_messages \/ lsp_messages' = <<>>
    BY <1>3 DEF lsp
  <2>3. <<>> \in Seq({})
    OBVIOUS
  <2> QED
    BY <1>4, <2>1, <2>2, <2>3, WaysAreObjects, ObjectsOfNone
<1> QED
  BY <1>1, <1>2, <1>3, <1>5, <1>6 DEF Loses

(* Every step is one of these.                                              *)
Moves ==
  \/ \E id \in Ids, method \in Methods : Asks(id, method)
  \/ ReadsAnswer(Head(answers))
  \/ ReadsRequest(Head(requests))
  \/ \E id \in Ids : Answers(id)
  \/ client_get_and_clear_pending_msg
  \/ lsp_get_and_clear_pending_msg
  \/ Loses
  \/ UNCHANGED vars

(* There are no other steps.                                                *)
LEMMA StepsMove ==
  ASSUME TypeInv, [Next]_vars
  PROVE  Moves
BY RequestsAreAsked, AnswersAreRead, RequestsAreRead, AnswersAreGenerated, FailuresLose
   DEF Next, Moves

-----------------------------------------------------------------------------
(* Types.                                                                   *)

(* The members of a sequence with one more at its end.                      *)
LEMMA RangeOfAppend ==
  ASSUME NEW S, NEW seq \in Seq(S), NEW x
  PROVE  Range(Append(seq, x)) = Range(seq) \cup {x}
<1> DEFINE new == Append(seq, x)
<1>1. /\ Len(seq) \in Nat /\ DOMAIN seq = 1..Len(seq) /\ DOMAIN new = 1..(Len(seq) + 1)
      /\ \A i \in 1..Len(seq) : new[i] = seq[i]
      /\ new[Len(seq) + 1] = x
  OBVIOUS
<1> HIDE DEF new
<1>2. ASSUME NEW i \in DOMAIN new PROVE new[i] \in Range(seq) \cup {x}
  <2>1. i \in DOMAIN seq \/ i = Len(seq) + 1
    BY <1>1
  <2> QED
    BY <1>1, <2>1 DEF Range
<1>3. ASSUME NEW i \in DOMAIN seq PROVE seq[i] \in Range(new)
  <2>1. i \in DOMAIN new /\ new[i] = seq[i]
    BY <1>1
  <2> QED
    BY <2>1 DEF Range
<1>4. x \in Range(new)
  <2>1. Len(seq) + 1 \in DOMAIN new
    BY <1>1
  <2> QED
    BY <1>1, <2>1 DEF Range
<1>5. Range(new) = Range(seq) \cup {x}
  BY <1>2, <1>3, <1>4 DEF Range
<1> QED
  BY <1>5 DEF new

(* The members of a sequence without its first.                             *)
LEMMA RangeOfTail ==
  ASSUME NEW S, NEW seq \in Seq(S), seq # <<>>
  PROVE  Range(Tail(seq)) \subseteq Range(seq) /\ Head(seq) \in Range(seq)
<1> DEFINE new == Tail(seq)
<1>1. /\ Len(seq) \in Nat \ {0} /\ DOMAIN seq = 1..Len(seq)
      /\ DOMAIN new = 1..(Len(seq) - 1) /\ Head(seq) = seq[1]
      /\ \A i \in 1..(Len(seq) - 1) : new[i] = seq[i + 1]
  OBVIOUS
<1> HIDE DEF new
<1>2. ASSUME NEW i \in DOMAIN new PROVE new[i] \in Range(seq)
  <2>1. i + 1 \in DOMAIN seq /\ new[i] = seq[i + 1]
    BY <1>1
  <2> QED
    BY <2>1 DEF Range
<1>3. 1 \in DOMAIN seq
  BY <1>1
<1>4. Range(new) \subseteq Range(seq)
  BY <1>2 DEF Range
<1> QED
  BY <1>1, <1>3, <1>4 DEF new, Range

(* The members of two sequences, one after the other.                       *)
LEMMA RangeOfConcat ==
  ASSUME NEW S, NEW s \in Seq(S), NEW t \in Seq(S)
  PROVE  Range(s) \subseteq Range(s \o t) /\ Range(t) \subseteq Range(s \o t)
BY IdsOfConcat DEF Range

(* What was asked stays asked, and channels are only lost by a restart.     *)
Remembers ==
  /\ DOMAIN issued \subseteq DOMAIN issued'
  /\ \A id \in DOMAIN issued : issued'[id] = issued[id]
  /\ failures \subseteq failures'
  /\ channels \subseteq channels' \/ "LSP" \in failures'

(* What fitted once fits from then on.                                      *)
LEMMA FitsRemain ==
  ASSUME Remembers, NEW json
  PROVE  /\ RequestFits(json) => RequestFits(json)'
         /\ AnswerFits(json) => AnswerFits(json)'
<1>1. RequestFits(json) => RequestFits(json)'
  BY DEF Remembers, RequestFits
<1>2. ASSUME AnswerFits(json) PROVE AnswerFits(json)'
  <2> SUFFICES ASSUME json.id # Null PROVE AnswerFits(json)'
    BY DEF AnswerFits
  <2>1. /\ json.id \in DOMAIN issued' /\ issued'[json.id] = issued[json.id]
        /\ issued[json.id] \in Served
    BY <1>2 DEF AnswerFits, Remembers
  <2>2. ASSUME NEW scid, "LSP" \in failures \/ <<json.id, scid>> \in channels
        PROVE  "LSP" \in failures' \/ <<json.id, scid>> \in channels'
    BY <2>2 DEF Remembers
  <2> QED
    BY <1>2, <2>1, <2>2 DEF AnswerFits
<1> QED
  BY <1>1, <1>2

(* Every step remembers: no handler takes back a request or a channel.      *)
LEMMA MovesRemember ==
  ASSUME TypeInv, Moves
  PROVE  Remembers
<1>1. ASSUME NEW id \in Ids, NEW method \in Methods, Asks(id, method) PROVE Remembers
  BY <1>1 DEF Asks, Remembers, lsp
<1>2. CASE ReadsAnswer(Head(answers))
  BY <1>2 DEF ReadsAnswer, Remembers, lsp
<1>3. CASE ReadsRequest(Head(requests))
  BY <1>3 DEF ReadsRequest, Remembers
<1>4. ASSUME NEW id \in Ids, Answers(id) PROVE Remembers
  BY <1>4 DEF Answers, Remembers
<1>5. CASE client_get_and_clear_pending_msg
  BY <1>5 DEF client_get_and_clear_pending_msg, Remembers, lsp
<1>6. CASE lsp_get_and_clear_pending_msg
  BY <1>6 DEF lsp_get_and_clear_pending_msg, Remembers
<1>7. CASE Loses
  BY <1>7 DEF Loses, Remembers, lsp
<1>8. CASE UNCHANGED vars
  BY <1>8 DEF vars, Remembers, lsp
<1> QED
  BY <1>1, <1>2, <1>3, <1>4, <1>5, <1>6, <1>7, <1>8 DEF Moves

(* The methods recorded are those of the requests.                          *)
LEMMA RecordedAreIssued ==
  ASSUME TypeInv, NEW map, map = recorded(request_id_to_method_map, client_messages)
  PROVE  /\ DOMAIN map = DOMAIN request_id_to_method_map
                           \cup IdsOf(Objects(client_messages))
         /\ DOMAIN map \subseteq DOMAIN issued
         /\ \A id \in DOMAIN map : map[id] = issued[id]
<1> DEFINE asked == {m \in Range(client_messages) : m.type = "request"}
           sent == {m.id : m \in asked}
<1>1. ASSUME NEW m \in asked
      PROVE  m.id \in DOMAIN issued /\ m.method = issued[m.id] /\ m.id # Null
             /\ serialize(m) \in Range(Objects(client_messages)) /\ serialize(m).id = m.id
  <2>1. PICK i \in DOMAIN client_messages : client_messages[i] = m
    BY DEF Range
  <2>2. m \in ClientMessages /\ m.type = "request"
    BY <2>1 DEF TypeInv
  <2>3. m # Invalid
    BY <2>2 DEF Invalid
  <2>4. PICK id \in Ids, method \in Methods : m = Request(id, method, Of(method))
    BY <2>2, <2>3 DEF ClientMessages
  <2>5. m.id = id /\ m.method = method /\ serialize(m) = RequestObject(id, method)
    BY <2>4, SerializeRequest DEF Request
  <2>6. Objects(client_messages)[i] = serialize(m) /\ i \in DOMAIN Objects(client_messages)
    BY <2>1 DEF Objects
  <2>7. serialize(m) \in Range(Objects(client_messages))
    BY <2>6 DEF Range
  <2>8. serialize(m) \in Range(requests)
    BY <2>7, WaysAreObjects, RangeOfConcat DEF TypeInv, requests
  <2>9. serialize(m).id = id /\ serialize(m).method = method /\ id # Null
    BY <2>5, LSPS2RequestsAssumption DEF RequestObject
  <2> QED
    BY <2>5, <2>7, <2>8, <2>9 DEF TypeInv, RequestFits
<1>2. sent = IdsOf(Objects(client_messages))
  <2>1. ASSUME NEW i \in DOMAIN client_messages, Objects(client_messages)[i].id # Null
        PROVE  Objects(client_messages)[i].id \in sent
    <3>1. client_messages[i] \in ClientMessages
      BY DEF TypeInv
    <3>2. Objects(client_messages)[i] = serialize(client_messages[i])
      BY DEF Objects
    <3>3. client_messages[i] # Invalid
      BY <2>1, <3>2, SerializeInvalid DEF InvalidObject
    <3>4. PICK id \in Ids, method \in Methods :
            client_messages[i] = Request(id, method, Of(method))
      BY <3>1, <3>3 DEF ClientMessages
    <3>5. /\ client_messages[i].type = "request" /\ client_messages[i].id = id
          /\ serialize(client_messages[i]).id = id
      <4>1. serialize(client_messages[i]) = RequestObject(id, method)
        BY <3>4, SerializeRequest
      <4>2. client_messages[i].type = "request" /\ client_messages[i].id = id
        BY <3>4 DEF Request
      <4> QED
        BY <4>1, <4>2 DEF RequestObject
    <3>6. client_messages[i] \in asked
      BY <3>5 DEF Range
    <3> QED
      BY <3>2, <3>5, <3>6
  <2>2. DOMAIN Objects(client_messages) = DOMAIN client_messages
    BY DEF Objects
  <2>3. IdsOf(Objects(client_messages)) \subseteq sent
    BY <2>1, <2>2 DEF IdsOf
  <2>4. sent \subseteq IdsOf(Objects(client_messages))
    BY <1>1 DEF IdsOf, Range
  <2> QED
    BY <2>3, <2>4
<1>3. map = [id \in sent \cup DOMAIN request_id_to_method_map |->
               IF id \in sent THEN (CHOOSE m \in asked : m.id = id).method
               ELSE request_id_to_method_map[id]]
  BY DEF recorded
<1>4. ASSUME NEW id \in sent
      PROVE  /\ id \in DOMAIN issued
             /\ (CHOOSE m \in asked : m.id = id).method = issued[id]
  <2>1. \E m \in asked : m.id = id
    OBVIOUS
  <2>2. PICK m : m = CHOOSE x \in asked : x.id = id
    OBVIOUS
  <2>3. m \in asked /\ m.id = id
    BY <2>1, <2>2
  <2> QED
    BY <1>1, <2>2, <2>3
<1> HIDE DEF asked, sent
<1>5. \A id \in DOMAIN request_id_to_method_map :
        id \in DOMAIN issued /\ request_id_to_method_map[id] = issued[id]
  BY DEF TypeInv
<1>6. DOMAIN map = sent \cup DOMAIN request_id_to_method_map
  BY <1>3
<1>7. ASSUME NEW id \in DOMAIN map PROVE map[id] = issued[id] /\ id \in DOMAIN issued
  BY <1>3, <1>4, <1>5, <1>6
<1> QED
  BY <1>2, <1>6, <1>7

(* Every request and answer on its way still fits after a step.             *)
LEMMA NextFits ==
  ASSUME TypeInv, [Next]_vars
  PROVE  /\ \A json \in Range(requests') : RequestFits(json)'
         /\ \A json \in Range(answers') : AnswerFits(json)'
<1>1. Moves /\ Remembers
  BY StepsMove, MovesRemember
<1>2. /\ requests \in Seq(ClientObjects) /\ answers \in Seq(LSPObjects)
      /\ to_lsp \in Seq(ClientObjects) /\ to_client \in Seq(LSPObjects)
      /\ Objects(client_messages) \in Seq(ClientObjects)
      /\ Objects(lsp_messages) \in Seq(LSPObjects)
  BY WaysAreObjects DEF TypeInv
<1>3. /\ \A json \in Range(requests) : RequestFits(json)'
      /\ \A json \in Range(answers) : AnswerFits(json)'
  BY <1>1, FitsRemain DEF TypeInv
<1>4. RequestFits(InvalidObject)' /\ AnswerFits(InvalidObject)'
  BY DEF RequestFits, AnswerFits, InvalidObject
<1>5. ASSUME Range(requests') \subseteq Range(requests),
             Range(answers') \subseteq Range(answers)
      PROVE  /\ \A json \in Range(requests') : RequestFits(json)'
             /\ \A json \in Range(answers') : AnswerFits(json)'
  BY <1>3, <1>5
<1>6. ASSUME NEW id \in Ids, NEW method \in Methods, Asks(id, method)
      PROVE  /\ \A json \in Range(requests') : RequestFits(json)'
             /\ \A json \in Range(answers') : AnswerFits(json)'
  <2>1. RequestFits(RequestObject(id, method))'
    BY <1>6 DEF Asks, RequestFits, RequestObject
  <2>2. requests' = Append(requests, RequestObject(id, method)) /\ answers' = answers
    BY <1>6 DEF Asks
  <2> QED
    BY <1>2, <1>3, <2>1, <2>2, RangeOfAppend
<1>7. CASE ReadsAnswer(Head(answers))
  <2>1. /\ answers # <<>> /\ answers' = Tail(answers)
        /\ requests' = requests \/ requests' = Append(requests, InvalidObject)
    BY <1>7 DEF ReadsAnswer
  <2>2. Range(answers') \subseteq Range(answers)
    BY <1>2, <2>1, RangeOfTail
  <2>3. Range(requests') \subseteq Range(requests) \cup {InvalidObject}
    BY <1>2, <2>1, RangeOfAppend
  <2> QED
    BY <1>3, <1>4, <2>2, <2>3
<1>8. CASE ReadsRequest(Head(requests))
  <2>1. requests # <<>> /\ requests' = Tail(requests)
    BY <1>8 DEF ReadsRequest
  <2>2. \/ answers' = answers
        \/ \E answer : AnswerFits(answer)' /\ answers' = Append(answers, answer)
    BY <1>1, <1>4, <1>8, FitsRemain DEF ReadsRequest
  <2>3. Range(requests') \subseteq Range(requests)
    BY <1>2, <2>1, RangeOfTail
  <2>4. ASSUME NEW answer, AnswerFits(answer)', answers' = Append(answers, answer)
        PROVE  \A json \in Range(answers') : AnswerFits(json)'
    <3>1. Range(answers') = Range(answers) \cup {answer}
      BY <1>2, <2>4, RangeOfAppend
    <3> QED
      BY <1>3, <2>4, <3>1
  <2> QED
    BY <1>3, <2>2, <2>3, <2>4
<1>9. ASSUME NEW id \in Ids, Answers(id)
      PROVE  /\ \A json \in Range(requests') : RequestFits(json)'
             /\ \A json \in Range(answers') : AnswerFits(json)'
  <2>1. requests' = requests
    BY <1>9 DEF Answers
  <2>2. \/ answers' = answers
        \/ \E answer : AnswerFits(answer)' /\ answers' = Append(answers, answer)
    BY <1>9 DEF Answers
  <2>3. ASSUME NEW answer, AnswerFits(answer)', answers' = Append(answers, answer)
        PROVE  \A json \in Range(answers') : AnswerFits(json)'
    <3>1. Range(answers') = Range(answers) \cup {answer}
      BY <1>2, <2>3, RangeOfAppend
    <3> QED
      BY <1>3, <2>3, <3>1
  <2> QED
    BY <1>3, <2>1, <2>2, <2>3
<1>10. CASE client_get_and_clear_pending_msg \/ lsp_get_and_clear_pending_msg
  BY <1>5, <1>10, SendingKeeps
<1>11. CASE Loses
  <2>1. /\ requests' = Objects(client_messages) \/ requests' = <<>>
        /\ answers' = Objects(lsp_messages) \/ answers' = <<>>
    BY <1>11 DEF Loses
  <2>2. Range(<<>>) = {}
    BY DEF Range
  <2>3. /\ Range(Objects(client_messages)) \subseteq Range(requests)
        /\ Range(Objects(lsp_messages)) \subseteq Range(answers)
    BY <1>2, RangeOfConcat DEF requests, answers
  <2>4. Range(requests') \subseteq Range(requests) /\ Range(answers') \subseteq Range(answers)
    BY <2>1, <2>2, <2>3
  <2> QED
    BY <1>5, <2>4
<1>12. CASE UNCHANGED vars
  <2>1. requests' = requests /\ answers' = answers
    BY <1>12, OnTheirWay DEF vars, client, lsp, net, requests, answers
  <2> QED
    BY <1>5, <2>1
<1> QED
  BY <1>1, <1>6, <1>7, <1>8, <1>9, <1>10, <1>11, <1>12 DEF Moves

(* Only messages of the two protocols are queued and sent.                  *)
LEMMA NextMessages ==
  ASSUME TypeInv, [Next]_vars
  PROVE  /\ client_messages' \in Seq(ClientMessages) /\ to_lsp' \in Seq(ClientObjects)
         /\ lsp_messages' \in Seq(LSPMessages) /\ to_client' \in Seq(LSPObjects)
<1>1. Moves
  BY StepsMove
<1>2. /\ requests \in Seq(ClientObjects) /\ answers \in Seq(LSPObjects)
      /\ to_lsp \in Seq(ClientObjects) /\ to_client \in Seq(LSPObjects)
      /\ client_messages \in Seq(ClientMessages) /\ lsp_messages \in Seq(LSPMessages)
  BY WaysAreObjects DEF TypeInv
<1>3. CASE \E id \in Ids, method \in Methods : Asks(id, method)
  BY <1>2, <1>3 DEF Asks, lsp, net
<1>4. CASE ReadsAnswer(Head(answers))
  BY <1>2, <1>4 DEF ReadsAnswer, lsp
<1>5. CASE ReadsRequest(Head(requests))
  BY <1>2, <1>5 DEF ReadsRequest, client
<1>6. CASE \E id \in Ids : Answers(id)
  BY <1>2, <1>6 DEF Answers, client, net
<1>7. CASE client_get_and_clear_pending_msg
  <2>1. to_lsp' = requests /\ client_messages' = <<>> /\ UNCHANGED <<to_client, lsp_messages>>
    BY <1>7, SendingKeeps DEF client_get_and_clear_pending_msg, lsp
  <2> QED
    BY <1>2, <2>1
<1>8. CASE lsp_get_and_clear_pending_msg
  <2>1. to_client' = answers /\ lsp_messages' = <<>> /\ UNCHANGED <<to_lsp, client_messages>>
    BY <1>8 DEF lsp_get_and_clear_pending_msg, client, answers, Objects
  <2> QED
    BY <1>2, <2>1
<1>9. CASE Loses
  <2>1. to_lsp' = <<>> /\ to_client' = <<>>
    BY <1>9 DEF Loses
  <2>2. client_messages' = client_messages \/ client_messages' = <<>>
    BY <1>9 DEF Loses, client
  <2>3. lsp_messages' = lsp_messages \/ lsp_messages' = <<>>
    BY <1>9 DEF Loses, lsp
  <2>4. \A S : <<>> \in Seq(S)
    OBVIOUS
  <2> QED
    BY <1>2, <2>1, <2>2, <2>3, <2>4
<1>10. CASE UNCHANGED vars
  BY <1>2, <1>10 DEF vars, client, lsp, net
<1> QED
  BY <1>1, <1>3, <1>4, <1>5, <1>6, <1>7, <1>8, <1>9, <1>10 DEF Moves

(* The map and the events name only requests that were made.                *)
LEMMA NextIssued ==
  ASSUME TypeInv, [Next]_vars
  PROVE  /\ DOMAIN issued' \subseteq Ids /\ \A id \in DOMAIN issued' : issued'[id] \in Methods
         /\ DOMAIN request_id_to_method_map' \cup listed' \subseteq DOMAIN issued'
         /\ \A id \in DOMAIN request_id_to_method_map' :
              request_id_to_method_map'[id] = issued'[id]
<1>1. Moves
  BY StepsMove
<1>2. /\ DOMAIN issued \subseteq Ids /\ \A id \in DOMAIN issued : issued[id] \in Methods
      /\ DOMAIN request_id_to_method_map \subseteq DOMAIN issued
      /\ listed \subseteq DOMAIN issued
      /\ \A id \in DOMAIN request_id_to_method_map :
           request_id_to_method_map[id] = issued[id]
  BY DEF TypeInv
<1>3. ASSUME NEW id \in Ids, NEW method \in Methods, Asks(id, method)
      PROVE  /\ DOMAIN issued' \subseteq Ids /\ \A i \in DOMAIN issued' : issued'[i] \in Methods
             /\ DOMAIN request_id_to_method_map' \cup listed' \subseteq DOMAIN issued'
             /\ \A i \in DOMAIN request_id_to_method_map' :
                  request_id_to_method_map'[i] = issued'[i]
  <2>1. /\ DOMAIN issued' = DOMAIN issued \cup {id} /\ issued'[id] = method
        /\ \A i \in DOMAIN issued : issued'[i] = issued[i]
        /\ UNCHANGED <<request_id_to_method_map, listed>>
    BY <1>3 DEF Asks
  <2> QED
    BY <1>2, <2>1
<1>4. CASE ReadsAnswer(Head(answers))
  BY <1>2, <1>4 DEF ReadsAnswer
<1>5. CASE ReadsRequest(Head(requests))
  BY <1>2, <1>5 DEF ReadsRequest, client
<1>6. CASE \E id \in Ids : Answers(id)
  BY <1>2, <1>6 DEF Answers, client
<1>7. CASE client_get_and_clear_pending_msg
  <2>1. /\ request_id_to_method_map' = recorded(request_id_to_method_map, client_messages)
        /\ UNCHANGED <<issued, listed>>
    BY <1>7 DEF client_get_and_clear_pending_msg
  <2> QED
    BY <1>2, <2>1, RecordedAreIssued
<1>8. CASE lsp_get_and_clear_pending_msg
  BY <1>2, <1>8 DEF lsp_get_and_clear_pending_msg, client
<1>9. CASE Loses
  <2>1. DOMAIN NoMethods = {}
    BY DEF NoMethods
  <2> QED
    BY <1>2, <1>9, <2>1 DEF Loses, client
<1>10. CASE UNCHANGED vars
  BY <1>2, <1>10 DEF vars, client
<1> QED
  BY <1>1, <1>3, <1>4, <1>5, <1>6, <1>7, <1>8, <1>9, <1>10 DEF Moves

(* The LSP keeps a pending request under the method it was made with        *)
(* (lsps2/service.rs:980-1113).                                             *)
LEMMA NextPending ==
  ASSUME TypeInv, [Next]_vars
  PROVE  /\ config' \in Configs
         /\ pending_requests' \in [Ids -> {"none", "lsps2.get_info", "lsps2.buy"}]
         /\ \A id \in Pending' : id \in DOMAIN issued' /\ issued'[id] = pending_requests'[id]
<1>1. Moves /\ Remembers
  BY StepsMove, MovesRemember
<1>2. /\ config \in Configs
      /\ pending_requests \in [Ids -> {"none", "lsps2.get_info", "lsps2.buy"}]
      /\ \A id \in Pending : id \in DOMAIN issued /\ issued[id] = pending_requests[id]
  BY DEF TypeInv
<1>3. /\ Pending' = {id \in Ids : pending_requests'[id] # "none"}
      /\ \A id \in DOMAIN issued : id \in DOMAIN issued' /\ issued'[id] = issued[id]
  BY <1>1 DEF Pending, Remembers
<1>4. ASSUME config' = config,
             \/ UNCHANGED pending_requests
             \/ \E id \in DOMAIN issued \cap Ids :
                  /\ issued[id] \in {"lsps2.get_info", "lsps2.buy"}
                  /\ pending_requests' = [pending_requests EXCEPT ![id] = issued[id]]
             \/ \E id \in Ids : pending_requests' = [pending_requests EXCEPT ![id] = "none"]
             \/ pending_requests' = [id \in Ids |-> "none"]
      PROVE  /\ config' \in Configs
             /\ pending_requests' \in [Ids -> {"none", "lsps2.get_info", "lsps2.buy"}]
             /\ \A id \in Pending' : id \in DOMAIN issued' /\ issued'[id] = pending_requests'[id]
  BY <1>2, <1>3, <1>4 DEF Pending
<1>5. CASE \E id \in Ids, method \in Methods : Asks(id, method)
  BY <1>4, <1>5 DEF Asks, lsp
<1>6. CASE ReadsAnswer(Head(answers))
  BY <1>4, <1>6 DEF ReadsAnswer, lsp
<1>7. CASE ReadsRequest(Head(requests))
  <2>1. PICK json : json = Head(requests) /\ requests # <<>>
    BY <1>7 DEF ReadsRequest
  <2>2. json \in Range(requests)
    BY <2>1, WaysAreObjects, RangeOfTail
  <2>3. json.id # Null => json.id \in DOMAIN issued /\ json.id \in Ids
    BY <2>2 DEF TypeInv, RequestFits
  <2> QED
    BY <1>4, <1>7, <2>1, <2>3 DEF ReadsRequest
<1>8. CASE \E id \in Ids : Answers(id)
  BY <1>4, <1>8 DEF Answers
<1>9. CASE client_get_and_clear_pending_msg
  BY <1>4, <1>9 DEF client_get_and_clear_pending_msg, lsp
<1>10. CASE lsp_get_and_clear_pending_msg
  BY <1>4, <1>10 DEF lsp_get_and_clear_pending_msg
<1>11. CASE Loses
  BY <1>4, <1>11 DEF Loses, lsp
<1>12. CASE UNCHANGED vars
  BY <1>4, <1>12 DEF vars, lsp
<1> QED
  BY <1>1, <1>5, <1>6, <1>7, <1>8, <1>9, <1>10, <1>11, <1>12 DEF Moves

(* The types remain.                                                        *)
LEMMA NextTypeInv ==
  ASSUME TypeInv, [Next]_vars
  PROVE  TypeInv'
BY NextFits, NextMessages, NextIssued, NextPending DEF TypeInv

-----------------------------------------------------------------------------
(* Ids.                                                                     *)

(* The invariant at a later time.                                           *)
LEMMA IdsInvLater ==
  /\ IdsInv' <=> /\ Once(requests') /\ Once(answers')
                 /\ IdsOf(requests') \cap IdsOf(answers') = {}
                 /\ Pending' \cap (IdsOf(requests') \cup IdsOf(answers')) = {}
  /\ Pending' = {id \in Ids : pending_requests'[id] # "none"}
BY DEF IdsInv, Once, IdsOf, Pending

(* Only what was asked is anywhere.                                         *)
LEMMA IdsAreIssued ==
  ASSUME TypeInv
  PROVE  /\ IdsOf(requests) \cup IdsOf(answers) \cup Pending \subseteq DOMAIN issued
         /\ Null \notin Pending
         /\ \A id \in IdsOf(answers) \cup Pending : issued[id] \in Served
<1>1. ASSUME NEW i \in DOMAIN requests, requests[i].id # Null
      PROVE  requests[i].id \in DOMAIN issued
  BY <1>1 DEF TypeInv, Range, RequestFits
<1>2. ASSUME NEW i \in DOMAIN answers, answers[i].id # Null
      PROVE  answers[i].id \in DOMAIN issued /\ issued[answers[i].id] \in Served
  BY <1>2 DEF TypeInv, Range, AnswerFits
<1>3. ASSUME NEW id \in Pending PROVE id \in DOMAIN issued /\ issued[id] \in Served /\ id # Null
  BY LSPS2RequestsAssumption DEF TypeInv, Served, Pending
<1> QED
  BY <1>1, <1>2, <1>3 DEF IdsOf

(* An id stays in one place: a handler that takes a request or an answer    *)
(* removes it where it was (lsps2/service.rs:495-672,                       *)
(* lsps2/client.rs:189-324).                                                *)
LEMMA NextIdsInv ==
  ASSUME TypeInv, IdsInv, [Next]_vars
  PROVE  IdsInv'
<1>1. Moves
  BY StepsMove
<1>2. /\ requests \in Seq(ClientObjects) /\ answers \in Seq(LSPObjects)
      /\ to_lsp \in Seq(ClientObjects) /\ to_client \in Seq(LSPObjects)
      /\ Objects(client_messages) \in Seq(ClientObjects)
      /\ Objects(lsp_messages) \in Seq(LSPObjects)
  BY WaysAreObjects DEF TypeInv
<1>3. /\ Once(requests) /\ Once(answers)
      /\ IdsOf(requests) \cap IdsOf(answers) = {}
      /\ Pending \cap (IdsOf(requests) \cup IdsOf(answers)) = {}
  BY DEF IdsInv
<1>4. InvalidObject.id = Null /\ Null \notin IdsOf(requests) \cup IdsOf(answers)
  BY DEF InvalidObject, IdsOf
<1>5. pending_requests' = pending_requests => Pending' = Pending
  BY DEF Pending
<1>6. ASSUME NEW id \in Ids, NEW method \in Methods, Asks(id, method)
      PROVE  IdsInv'
  <2>1. /\ requests' = Append(requests, RequestObject(id, method)) /\ answers' = answers
        /\ id \notin DOMAIN issued /\ pending_requests' = pending_requests
    BY <1>6 DEF Asks, lsp
  <2>2. RequestObject(id, method).id = id
    BY DEF RequestObject
  <2>3. id \notin IdsOf(requests) \cup IdsOf(answers) \cup Pending
    BY <2>1, IdsAreIssued
  <2>4. /\ Once(requests')
        /\ IdsOf(requests') = IdsOf(requests) \cup ({id} \ {Null})
    BY <1>2, <1>3, <2>1, <2>2, <2>3, IdsOfAppend
  <2> QED
    BY <1>3, <1>5, <2>1, <2>3, <2>4, IdsInvLater
<1>7. CASE ReadsAnswer(Head(answers))
  <2>1. /\ answers # <<>> /\ answers' = Tail(answers)
        /\ requests' = requests \/ requests' = Append(requests, InvalidObject)
        /\ pending_requests' = pending_requests
    BY <1>7 DEF ReadsAnswer, lsp
  <2>2. Once(answers') /\ IdsOf(answers') \subseteq IdsOf(answers)
    BY <1>2, <1>3, <2>1, IdsOfTail
  <2>3. Once(requests') /\ IdsOf(requests') = IdsOf(requests)
    <3>1. CASE requests' = Append(requests, InvalidObject)
      <4>1. IdsOf(requests') = IdsOf(requests) \cup ({Null} \ {Null})
        BY <1>2, <1>4, <3>1, IdsOfAppend
      <4>2. Once(requests')
        BY <1>2, <1>3, <1>4, <3>1, IdsOfAppend
      <4> QED
        BY <4>1, <4>2
    <3> QED
      BY <1>3, <2>1, <3>1
  <2> QED
    BY <1>3, <1>5, <2>1, <2>2, <2>3, IdsInvLater
<1>8. CASE ReadsRequest(Head(requests))
  <2>1. PICK json : json = Head(requests)
    OBVIOUS
  <2>2. requests # <<>> /\ requests' = Tail(requests)
    BY <1>8 DEF ReadsRequest
  <2>3. /\ Once(requests') /\ json.id \notin IdsOf(requests')
        /\ IdsOf(requests) = IdsOf(requests') \cup ({json.id} \ {Null})
    BY <1>2, <1>3, <2>1, <2>2, IdsOfTail
  <2>4. json.id # Null => json.id \in IdsOf(requests) /\ json.id \in Ids
    BY <2>3, IdsAreIssued DEF TypeInv
  <2>5. CASE answers' = answers /\ pending_requests' = pending_requests
    BY <1>3, <1>5, <2>3, <2>5, IdsInvLater
  <2>6. ASSUME NEW answer, answers' = Append(answers, answer),
               pending_requests' = pending_requests,
               answer.id = Null \/ (json.id # Null /\ answer.id = json.id)
        PROVE  IdsInv'
    <3>1. answer.id \notin IdsOf(answers)
      BY <1>3, <1>4, <2>4, <2>6
    <3>2. Once(answers') /\ IdsOf(answers') = IdsOf(answers) \cup ({answer.id} \ {Null})
      BY <1>2, <1>3, <2>6, <3>1, IdsOfAppend
    <3> QED
      BY <1>3, <1>5, <2>3, <2>4, <2>6, <3>2, IdsInvLater
  <2>7. ASSUME NEW method, method # "none", answers' = answers, json.id # Null,
               pending_requests' = [pending_requests EXCEPT ![json.id] = method]
        PROVE  IdsInv'
    <3>1. Pending' = Pending \cup {json.id}
      BY <2>4, <2>7, IdsInvLater DEF TypeInv, Pending
    <3> QED
      BY <1>3, <2>3, <2>4, <2>7, <3>1, IdsInvLater
  <2>8. \/ /\ answers' \in {answers, Append(answers, InvalidObject)}
           /\ pending_requests' = pending_requests
        \/ /\ json.id # Null
           /\ \E answer : answer.id = json.id /\ answers' = Append(answers, answer)
           /\ pending_requests' = pending_requests
        \/ /\ json.id # Null /\ issued[json.id] \in {"lsps2.get_info", "lsps2.buy"}
           /\ pending_requests' = [pending_requests EXCEPT ![json.id] = issued[json.id]]
           /\ answers' = answers
    BY <1>8, <2>1 DEF ReadsRequest
  <2>9. ASSUME json.id # Null, NEW answer, answer.id = json.id,
               answers' = Append(answers, answer),
               pending_requests' = pending_requests
        PROVE  IdsInv'
    BY <2>6, <2>9
  <2>10. ASSUME answers' = Append(answers, InvalidObject), pending_requests' = pending_requests
         PROVE  IdsInv'
    <3>1. PICK answer : answer = InvalidObject
      OBVIOUS
    <3> QED
      BY <1>4, <2>6, <2>10, <3>1
  <2>11. ASSUME json.id # Null, issued[json.id] \in {"lsps2.get_info", "lsps2.buy"},
                pending_requests' = [pending_requests EXCEPT ![json.id] = issued[json.id]],
                answers' = answers
         PROVE  IdsInv'
    <3>1. issued[json.id] # "none"
      BY <2>11
    <3> QED
      BY <2>7, <2>11, <3>1
  <2> QED
    BY <2>5, <2>8, <2>9, <2>10, <2>11
<1>9. ASSUME NEW id \in Ids, Answers(id)
      PROVE  IdsInv'
  <2>1. /\ requests' = requests
        /\ pending_requests' = [pending_requests EXCEPT ![id] = "none"]
    BY <1>9 DEF Answers
  <2>2. Pending' = Pending \ {id}
    BY <2>1, IdsInvLater DEF TypeInv, Pending
  <2>3. CASE answers' = answers
    BY <1>3, <2>1, <2>2, <2>3, IdsInvLater
  <2>4. ASSUME NEW answer, id \in Pending, answer.id = id, answers' = Append(answers, answer)
        PROVE  IdsInv'
    <3>1. Once(answers') /\ IdsOf(answers') = IdsOf(answers) \cup ({id} \ {Null})
      BY <1>2, <1>3, <2>4, IdsOfAppend
    <3> QED
      BY <1>3, <2>1, <2>2, <2>4, <3>1, IdsInvLater
  <2> QED
    BY <1>9, <2>3, <2>4 DEF Answers
<1>10. CASE client_get_and_clear_pending_msg \/ lsp_get_and_clear_pending_msg
  <2>1. requests' = requests /\ answers' = answers
    BY <1>10, SendingKeeps
  <2>2. pending_requests' = pending_requests
    BY <1>10 DEF client_get_and_clear_pending_msg, lsp_get_and_clear_pending_msg, lsp
  <2> QED
    BY <1>3, <1>5, <2>1, <2>2, IdsInvLater
<1>11. CASE Loses
  <2>1. /\ requests' = Objects(client_messages) \/ requests' = <<>>
        /\ answers' = Objects(lsp_messages) \/ answers' = <<>>
    BY <1>11 DEF Loses
  <2>2. /\ Once(Objects(client_messages)) /\ Once(Objects(lsp_messages))
        /\ IdsOf(Objects(client_messages)) \subseteq IdsOf(requests)
        /\ IdsOf(Objects(lsp_messages)) \subseteq IdsOf(answers)
    BY <1>2, <1>3, IdsOfConcat DEF requests, answers
  <2>3. /\ Once(requests') /\ IdsOf(requests') \subseteq IdsOf(requests)
        /\ Once(answers') /\ IdsOf(answers') \subseteq IdsOf(answers)
    BY <2>1, <2>2, NoIds
  <2>4. \/ pending_requests' = pending_requests
        \/ pending_requests' = [id \in Ids |-> "none"]
    BY <1>11 DEF Loses, lsp
  <2>5. Pending' \subseteq Pending
    BY <1>5, <2>4, IdsInvLater
  <2> QED
    BY <1>3, <2>3, <2>5, IdsInvLater
<1>12. CASE UNCHANGED vars
  <2>1. requests' = requests /\ answers' = answers /\ pending_requests' = pending_requests
    BY <1>12, OnTheirWay DEF vars, client, lsp, net, requests, answers
  <2> QED
    BY <1>3, <1>5, <2>1, IdsInvLater
<1> QED
  BY <1>1, <1>6, <1>7, <1>8, <1>9, <1>10, <1>11, <1>12 DEF Moves

-----------------------------------------------------------------------------
(* What the client knows.                                                   *)

(* A step in which no id appears anywhere new and the client does nothing   *)
(* keeps what the client knows.                                             *)
LEMMA KnownRemains ==
  ASSUME KnownInv, UNCHANGED <<issued, client>>, failures \subseteq failures',
         IdsOf(to_lsp') \cup Pending' \cup IdsOf(answers')
           \subseteq IdsOf(to_lsp) \cup Pending \cup IdsOf(answers),
         IdsOf(requests') \cup Pending' \cup IdsOf(answers')
           \subseteq IdsOf(requests) \cup Pending \cup IdsOf(answers)
  PROVE  KnownInv'
<1>1. /\ UNCHANGED <<issued, ignores_lsp, request_id_to_method_map>>
      /\ \A id : Waiting(id)' <=> Waiting(id)
  BY DEF client, Waiting
<1>2. IdsOf(to_lsp)' = IdsOf(to_lsp') /\ IdsOf(answers)' = IdsOf(answers')
      /\ IdsOf(requests)' = IdsOf(requests')
  BY DEF IdsOf
<1>3. SUFFICES ASSUME "client" \notin failures'
      PROVE  /\ ~ignores_lsp
             /\ \A id \in IdsOf(to_lsp') \cup Pending' \cup IdsOf(answers') :
                  id \in DOMAIN request_id_to_method_map
             /\ \A id \in IdsOf(requests') \cup Pending' \cup IdsOf(answers') :
                  issued[id] # "lsps1.get_info" => Waiting(id)
  BY <1>1, <1>2 DEF KnownInv
<1>4. "client" \notin failures
  BY <1>3
<1> QED
  BY <1>4 DEF KnownInv

(* The ids on their way to the LSP are those of the requests sent.          *)
LEMMA RequestIds ==
  ASSUME TypeInv
  PROVE  /\ IdsOf(requests) = IdsOf(to_lsp) \cup IdsOf(Objects(client_messages))
         /\ answers # <<>> /\ Head(answers).id # Null => Head(answers).id \in IdsOf(answers)
         /\ requests # <<>> /\ Head(requests).id # Null => Head(requests).id \in IdsOf(requests)
<1>1. /\ requests \in Seq(ClientObjects) /\ answers \in Seq(LSPObjects)
      /\ to_lsp \in Seq(ClientObjects) /\ to_client \in Seq(LSPObjects)
      /\ Objects(client_messages) \in Seq(ClientObjects)
  BY WaysAreObjects DEF TypeInv
<1>2. IdsOf(requests) = IdsOf(to_lsp) \cup IdsOf(Objects(client_messages))
  BY <1>1, IdsOfConcat DEF requests
<1>3. ASSUME NEW S, NEW seq \in Seq(S), seq # <<>>, Head(seq).id # Null
      PROVE  Head(seq).id \in IdsOf(seq)
  <2>1. 1 \in DOMAIN seq /\ Head(seq) = seq[1]
    BY <1>3
  <2> QED
    BY <1>3, <2>1 DEF IdsOf
<1> QED
  BY <1>1, <1>2, <1>3

(* A client that did not restart still knows what it asked: the id enters   *)
(* the map before the request is sent and leaves it with the answer         *)
(* (manager.rs:483-515, ser.rs:468).                                        *)
LEMMA NextKnownInv ==
  ASSUME TypeInv, IdsInv, KnownInv, [Next]_vars
  PROVE  KnownInv'
<1>1. Moves /\ failures \subseteq failures'
  BY StepsMove, MovesRemember DEF Remembers
<1>2. /\ requests \in Seq(ClientObjects) /\ answers \in Seq(LSPObjects)
      /\ to_lsp \in Seq(ClientObjects) /\ to_client \in Seq(LSPObjects)
      /\ Objects(client_messages) \in Seq(ClientObjects)
      /\ Objects(lsp_messages) \in Seq(LSPObjects)
  BY WaysAreObjects DEF TypeInv
<1>3. /\ Once(answers)
      /\ IdsOf(requests) \cap IdsOf(answers) = {}
      /\ Pending \cap (IdsOf(requests) \cup IdsOf(answers)) = {}
  BY DEF IdsInv
<1>4. InvalidObject.id = Null /\ Null \notin Ids
  BY LSPS2RequestsAssumption DEF InvalidObject
<1>5. pending_requests' = pending_requests => Pending' = Pending
  BY DEF Pending
<1>6. IdsOf(requests) \cup IdsOf(answers) \cup Pending \subseteq DOMAIN issued
  BY IdsAreIssued
<1>7. /\ IdsOf(requests) = IdsOf(to_lsp) \cup IdsOf(Objects(client_messages))
      /\ answers # <<>> /\ Head(answers).id # Null => Head(answers).id \in IdsOf(answers)
      /\ requests # <<>> /\ Head(requests).id # Null =>
           Head(requests).id \in IdsOf(requests)
  BY RequestIds
<1>8. IdsOf(to_lsp)' = IdsOf(to_lsp') /\ IdsOf(answers)' = IdsOf(answers')
      /\ IdsOf(requests)' = IdsOf(requests')
  BY DEF IdsOf
<1>9. ASSUME NEW id \in Ids, NEW method \in Methods, Asks(id, method)
      PROVE  KnownInv'
  <2>1. /\ requests' = Append(requests, RequestObject(id, method)) /\ answers' = answers
        /\ id \notin DOMAIN issued /\ issued'[id] = method
        /\ \A i \in DOMAIN issued : issued'[i] = issued[i]
        /\ \A i \in DOMAIN issued : Waiting(i) => Waiting(i)'
        /\ method # "lsps1.get_info" => Waiting(id)'
        /\ Pending' = Pending /\ to_lsp' = to_lsp /\ ignores_lsp' = ignores_lsp
        /\ request_id_to_method_map' = request_id_to_method_map
        /\ failures' = failures
    BY <1>5, <1>9 DEF Asks, lsp, net
  <2>2. IdsOf(requests') \subseteq IdsOf(requests) \cup {id}
    <3>1. RequestObject(id, method).id = id
      BY DEF RequestObject
    <3> QED
      BY <1>2, <2>1, <3>1, IdsOfAppend
  <2>3. SUFFICES ASSUME "client" \notin failures
        PROVE  /\ ~ignores_lsp
               /\ \A i \in IdsOf(to_lsp) \cup Pending \cup IdsOf(answers) :
                    i \in DOMAIN request_id_to_method_map
               /\ \A i \in IdsOf(requests') \cup Pending \cup IdsOf(answers) :
                    issued'[i] # "lsps1.get_info" => Waiting(i)'
    BY <1>8, <2>1 DEF KnownInv
  <2>4. ASSUME NEW i \in IdsOf(requests) \cup Pending \cup IdsOf(answers),
               issued'[i] # "lsps1.get_info"
        PROVE  Waiting(i)'
    <3>1. i \in DOMAIN issued /\ issued[i] # "lsps1.get_info"
      BY <1>6, <2>1, <2>4
    <3>2. Waiting(i)
      BY <2>3, <2>4, <3>1 DEF KnownInv
    <3> QED
      BY <2>1, <3>1, <3>2
  <2> QED
    BY <2>1, <2>2, <2>3, <2>4 DEF KnownInv
<1>10. CASE ReadsAnswer(Head(answers))
  <2>1. PICK json : json = Head(answers)
    OBVIOUS
  <2>2. /\ answers # <<>> /\ answers' = Tail(answers)
        /\ requests' \in {requests, Append(requests, InvalidObject)}
        /\ DOMAIN request_id_to_method_map'
             \in {DOMAIN request_id_to_method_map,
                  DOMAIN request_id_to_method_map \ {json.id}}
        /\ \A id \in DOMAIN issued : id # json.id /\ Waiting(id) => Waiting(id)'
        /\ ignores_lsp' /\ ~ignores_lsp =>
             json.id # Null /\ json.id \notin DOMAIN request_id_to_method_map
        /\ issued' = issued /\ to_lsp' = to_lsp /\ Pending' = Pending
        /\ failures' = failures
    BY <1>5, <1>10, <2>1 DEF ReadsAnswer, lsp
  <2>3. /\ IdsOf(answers') \subseteq IdsOf(answers) /\ json.id \notin IdsOf(answers')
    BY <1>2, <1>3, <2>1, <2>2, IdsOfTail
  <2>4. json.id # Null => json.id \in IdsOf(answers)
    BY <1>7, <2>1, <2>2
  <2>5. IdsOf(requests') = IdsOf(requests)
    <3>1. CASE requests' = Append(requests, InvalidObject)
      <4>1. IdsOf(requests') = IdsOf(requests) \cup ({Null} \ {Null})
        BY <1>2, <1>4, <3>1, IdsOfAppend
      <4> QED
        BY <4>1
    <3> QED
      BY <2>2, <3>1
  <2>6. json.id \notin IdsOf(requests) \cup Pending \cup IdsOf(answers')
    BY <1>3, <2>3, <2>4, IdsAreIssued DEF IdsOf
  <2>7. SUFFICES ASSUME "client" \notin failures
        PROVE  /\ ~ignores_lsp'
               /\ \A id \in IdsOf(to_lsp) \cup Pending \cup IdsOf(answers') :
                    id \in DOMAIN request_id_to_method_map'
               /\ \A id \in IdsOf(requests) \cup Pending \cup IdsOf(answers') :
                    issued[id] # "lsps1.get_info" => Waiting(id)'
    BY <1>8, <2>2, <2>5 DEF KnownInv
  <2>8. /\ ~ignores_lsp
        /\ \A id \in IdsOf(to_lsp) \cup Pending \cup IdsOf(answers) :
             id \in DOMAIN request_id_to_method_map
        /\ \A id \in IdsOf(requests) \cup Pending \cup IdsOf(answers) :
             issued[id] # "lsps1.get_info" => Waiting(id)
    BY <2>7 DEF KnownInv
  <2>9. ~ignores_lsp'
    BY <2>2, <2>4, <2>8 DEF TypeInv
  <2>10. ASSUME NEW id \in IdsOf(to_lsp) \cup Pending \cup IdsOf(answers')
         PROVE  id \in DOMAIN request_id_to_method_map'
    <3>1. id # json.id /\ id \in DOMAIN request_id_to_method_map
      BY <1>7, <2>3, <2>6, <2>8, <2>10
    <3> QED
      BY <2>2, <3>1
  <2>11. ASSUME NEW id \in IdsOf(requests) \cup Pending \cup IdsOf(answers'),
                issued[id] # "lsps1.get_info"
         PROVE  Waiting(id)'
    <3>1. id # json.id /\ id \in DOMAIN issued /\ Waiting(id)
      BY <1>6, <2>3, <2>6, <2>8, <2>11
    <3> QED
      BY <2>2, <3>1
  <2> QED
    BY <2>9, <2>10, <2>11
<1>11. CASE ReadsRequest(Head(requests))
  <2>1. PICK json : json = Head(requests)
    OBVIOUS
  <2>2. /\ requests # <<>> /\ requests' = Tail(requests)
        /\ to_lsp # <<>> /\ to_lsp' = Tail(to_lsp)
        /\ UNCHANGED <<issued, client, failures>>
    BY <1>11 DEF ReadsRequest
  <2>3. /\ IdsOf(requests') \subseteq IdsOf(requests)
        /\ IdsOf(to_lsp') \subseteq IdsOf(to_lsp)
        /\ {json.id} \ {Null} \subseteq IdsOf(requests)
        /\ {json.id} \ {Null} \subseteq IdsOf(to_lsp)
    <3>1. json = Head(to_lsp)
      BY <2>1, <2>2, DeliveryTakes
    <3>2. /\ IdsOf(requests') \subseteq IdsOf(requests)
          /\ {json.id} \ {Null} \subseteq IdsOf(requests)
      BY <1>2, <2>1, <2>2, IdsOfTail
    <3>3. /\ IdsOf(to_lsp') \subseteq IdsOf(to_lsp)
          /\ {json.id} \ {Null} \subseteq IdsOf(to_lsp)
      BY <1>2, <2>2, <3>1, IdsOfTail
    <3> QED
      BY <3>2, <3>3
  <2>4. Pending' \cup IdsOf(answers') \subseteq
          Pending \cup IdsOf(answers) \cup ({json.id} \ {Null})
    <3>1. \/ answers' = answers /\ pending_requests' = pending_requests
          \/ answers' = Append(answers, InvalidObject) /\ pending_requests' = pending_requests
          \/ /\ json.id # Null
             /\ \E answer : answer.id = json.id /\ answers' = Append(answers, answer)
             /\ pending_requests' = pending_requests
          \/ /\ json.id # Null /\ answers' = answers
             /\ \E method : pending_requests' = [pending_requests EXCEPT ![json.id] = method]
      BY <1>11, <2>1 DEF ReadsRequest
    <3>2. CASE answers' = Append(answers, InvalidObject) /\ pending_requests' = pending_requests
      <4>1. IdsOf(answers') = IdsOf(answers) \cup ({Null} \ {Null})
        BY <1>2, <1>4, <3>2, IdsOfAppend
      <4> QED
        BY <1>5, <3>2, <4>1
    <3>3. ASSUME json.id # Null, NEW answer, answer.id = json.id,
                 answers' = Append(answers, answer), pending_requests' = pending_requests
          PROVE  Pending' \cup IdsOf(answers') \subseteq
                   Pending \cup IdsOf(answers) \cup ({json.id} \ {Null})
      <4>1. IdsOf(answers') = IdsOf(answers) \cup ({json.id} \ {Null})
        BY <1>2, <3>3, IdsOfAppend
      <4> QED
        BY <1>5, <3>3, <4>1
    <3>4. ASSUME json.id # Null, NEW method, answers' = answers,
                 pending_requests' = [pending_requests EXCEPT ![json.id] = method]
          PROVE  Pending' \cup IdsOf(answers') \subseteq
                   Pending \cup IdsOf(answers) \cup ({json.id} \ {Null})
      <4>1. Pending' \subseteq Pending \cup {json.id}
        BY <3>4, IdsInvLater DEF TypeInv, Pending
      <4> QED
        BY <3>4, <4>1
    <3> QED
      BY <1>5, <3>1, <3>2, <3>3, <3>4
  <2> QED
    BY <1>1, <2>2, <2>3, <2>4, KnownRemains
<1>12. ASSUME NEW id \in Ids, Answers(id) PROVE KnownInv'
  <2>1. /\ requests' = requests /\ UNCHANGED <<issued, client, net, failures>>
        /\ pending_requests' = [pending_requests EXCEPT ![id] = "none"]
    BY <1>12 DEF Answers
  <2>2. to_lsp' = to_lsp /\ Pending' \subseteq Pending
    BY <2>1, IdsInvLater DEF net, TypeInv, Pending
  <2>3. CASE answers' = answers
    BY <1>1, <2>1, <2>2, <2>3, KnownRemains
  <2>4. ASSUME NEW answer, id \in Pending, answer.id = id, answers' = Append(answers, answer)
        PROVE  KnownInv'
    <3>1. IdsOf(answers') = IdsOf(answers) \cup ({id} \ {Null})
      BY <1>2, <2>4, IdsOfAppend
    <3> QED
      BY <1>1, <2>1, <2>2, <2>4, <3>1, KnownRemains
  <2> QED
    BY <1>12, <2>3, <2>4 DEF Answers
<1>13. CASE client_get_and_clear_pending_msg
  <2>1. /\ requests' = requests /\ answers' = answers /\ to_lsp' = requests
        /\ Pending' = Pending /\ UNCHANGED <<issued, ignores_lsp, failures>>
        /\ \A id : Waiting(id)' <=> Waiting(id)
    BY <1>5, <1>13, SendingKeeps DEF client_get_and_clear_pending_msg, lsp, Waiting
  <2>2. DOMAIN request_id_to_method_map' = DOMAIN request_id_to_method_map
                                             \cup IdsOf(Objects(client_messages))
    BY <1>13, RecordedAreIssued DEF client_get_and_clear_pending_msg
  <2>3. SUFFICES ASSUME "client" \notin failures
        PROVE  /\ ~ignores_lsp
               /\ \A id \in IdsOf(requests) \cup Pending \cup IdsOf(answers) :
                    id \in DOMAIN request_id_to_method_map'
               /\ \A id \in IdsOf(requests) \cup Pending \cup IdsOf(answers) :
                    issued[id] # "lsps1.get_info" => Waiting(id)
    BY <1>8, <2>1 DEF KnownInv
  <2> QED
    BY <1>7, <2>2, <2>3 DEF KnownInv
<1>14. CASE lsp_get_and_clear_pending_msg
  <2>1. /\ requests' = requests /\ answers' = answers /\ to_lsp' = to_lsp
        /\ Pending' = Pending /\ UNCHANGED <<issued, client, failures>>
    BY <1>5, <1>14, SendingKeeps DEF lsp_get_and_clear_pending_msg, net
  <2> QED
    BY <1>1, <2>1, KnownRemains
<1>15. CASE Loses
  <2>1. /\ requests' = Objects(client_messages) \/ requests' = <<>>
        /\ answers' = Objects(lsp_messages) \/ answers' = <<>>
        /\ to_lsp' = <<>> /\ issued' = issued
        /\ UNCHANGED client \/ "client" \in failures'
    BY <1>15 DEF Loses
  <2>2. /\ IdsOf(Objects(client_messages)) \subseteq IdsOf(requests)
        /\ IdsOf(Objects(lsp_messages)) \subseteq IdsOf(answers)
    BY <1>2, IdsOfConcat DEF requests, answers
  <2>3. /\ IdsOf(requests') \subseteq IdsOf(requests)
        /\ IdsOf(answers') \subseteq IdsOf(answers) /\ IdsOf(to_lsp') = {}
    BY <2>1, <2>2, NoIds
  <2>4. \/ pending_requests' = pending_requests
        \/ pending_requests' = [id \in Ids |-> "none"]
    BY <1>15 DEF Loses, lsp
  <2>5. Pending' \subseteq Pending
    BY <1>5, <2>4, IdsInvLater
  <2>6. CASE "client" \in failures'
    BY <2>6 DEF KnownInv
  <2>7. CASE UNCHANGED client
    BY <1>1, <2>1, <2>3, <2>5, <2>7, KnownRemains
  <2> QED
    BY <2>1, <2>6, <2>7
<1>16. CASE UNCHANGED vars
  <2>1. /\ requests' = requests /\ answers' = answers /\ to_lsp' = to_lsp
        /\ Pending' = Pending /\ UNCHANGED <<issued, client, failures>>
    BY <1>5, <1>16, OnTheirWay DEF vars, client, lsp, net, requests, answers
  <2> QED
    BY <1>1, <2>1, KnownRemains
<1> QED
  BY <1>1, <1>9, <1>10, <1>11, <1>12, <1>13, <1>14, <1>15, <1>16 DEF Moves

-----------------------------------------------------------------------------
(* Peers and invoices.                                                      *)

(* A peer is ignored only as the theorem below says (manager.rs:501-515).   *)
LEMMA NextIgnored ==
  ASSUME IInv, [Next]_vars, KnownInv'
  PROVE  PeersAreNotIgnored'
<1>1. TypeInv
  BY DEF IInv
<1>2. Moves /\ Remembers
  BY <1>1, StepsMove, MovesRemember
<1>3. ignores_lsp' => "client" \in failures'
  BY DEF KnownInv
<1>4. ASSUME NEW method \in Range(issued) PROVE method \in Range(issued')
  BY <1>2, <1>4 DEF Remembers, Range
<1>5. config' = config
  <2>1. CASE client_get_and_clear_pending_msg \/ lsp_get_and_clear_pending_msg
    BY <2>1 DEF client_get_and_clear_pending_msg, lsp_get_and_clear_pending_msg, lsp
  <2> QED
    BY <1>2, <2>1 DEF Moves, Asks, ReadsAnswer, ReadsRequest, Answers, Loses, vars, lsp
<1>6. \/ ignores_client' = ignores_client
      \/ ignores_client' => ~config.lsps1 /\ "lsps1.get_info" \in Range(issued)
  <2>1. CASE client_get_and_clear_pending_msg \/ lsp_get_and_clear_pending_msg
    BY <2>1 DEF client_get_and_clear_pending_msg, lsp_get_and_clear_pending_msg, lsp
  <2>2. CASE ReadsRequest(Head(requests))
    <3>1. ignores_client' /\ ~ignores_client =>
            ~config.lsps1 /\ "lsps1.get_info" \in Range(issued)
      BY <2>2 DEF ReadsRequest
    <3>2. ignores_client => ~config.lsps1 /\ "lsps1.get_info" \in Range(issued)
      BY DEF IInv, PeersAreNotIgnored
    <3> QED
      BY <3>1, <3>2
  <2>3. CASE ReadsAnswer(Head(answers))
    BY <2>3 DEF ReadsAnswer, lsp
  <2>4. CASE Loses
    BY <2>4 DEF Loses, lsp
  <2>5. ASSUME NEW id \in Ids, NEW method \in Methods, Asks(id, method)
        PROVE  ignores_client' = ignores_client
    BY <2>5 DEF Asks, lsp
  <2>6. ASSUME NEW id \in Ids, Answers(id) PROVE ignores_client' = ignores_client
    BY <2>6 DEF Answers
  <2>7. CASE UNCHANGED vars
    BY <2>7 DEF vars, lsp
  <2> QED
    BY <1>2, <2>1, <2>2, <2>3, <2>4, <2>5, <2>6, <2>7 DEF Moves
<1>7. Range(issued)' = Range(issued')
  BY DEF Range
<1>8. ignores_client => ~config.lsps1 /\ "lsps1.get_info" \in Range(issued)
  BY DEF IInv, PeersAreNotIgnored
<1>9. ignores_client' => ~config'.lsps1 /\ "lsps1.get_info" \in Range(issued')
  BY <1>4, <1>5, <1>6, <1>8
<1> QED
  BY <1>3, <1>7, <1>9 DEF PeersAreNotIgnored

(* What the client reads in an invoice is the scid the LSP chose.           *)
ScidsAreReadBack == \A scid \in Scids : to_scid(InterceptScid(scid)) = scid

(* A channel is created before its answer is enqueued                       *)
(* (lsps2/service.rs:629-645), so an invoice finds it.                      *)
LEMMA NextInvoices ==
  ASSUME TypeInv, InvoicesHaveChannels, [Next]_vars, ScidsAreReadBack
  PROVE  InvoicesHaveChannels'
<1>1. Moves /\ Remembers
  BY StepsMove, MovesRemember
<1>2. SUFFICES ASSUME "LSP" \notin failures', NEW invoice \in invoices'
      PROVE  invoice \in channels'
  BY DEF InvoicesHaveChannels
<1>3. "LSP" \notin failures /\ channels \subseteq channels'
  BY <1>1, <1>2 DEF Remembers
<1>4. ASSUME invoice \in invoices PROVE invoice \in channels'
  BY <1>3, <1>4 DEF InvoicesHaveChannels
<1>5. CASE invoices' \in {invoices, {}}
  BY <1>2, <1>4, <1>5
<1>6. CASE ReadsAnswer(Head(answers))
  <2>1. PICK json : json = Head(answers)
    OBVIOUS
  <2>2. \/ invoice \in invoices
        \/ /\ json.id # Null /\ Has(json, "result") /\ issued[json.id] = "lsps2.buy"
           /\ invoice = <<json.id, to_scid(json.result.intercept_scid)>>
    BY <1>2, <1>6, <2>1 DEF ReadsAnswer
  <2>3. AnswerFits(json)
    <3>1. answers # <<>> /\ answers \in Seq(LSPObjects)
      BY <1>6, WaysAreObjects DEF ReadsAnswer
    <3>2. json \in Range(answers)
      BY <2>1, <3>1, RangeOfTail
    <3> QED
      BY <3>2 DEF TypeInv
  <2>4. CASE /\ json.id # Null /\ Has(json, "result") /\ issued[json.id] = "lsps2.buy"
             /\ invoice = <<json.id, to_scid(json.result.intercept_scid)>>
    <3>1. PICK scid \in Scids : json.result = Invoice(scid) /\ <<json.id, scid>> \in channels
      BY <1>3, <2>3, <2>4 DEF AnswerFits
    <3>2. json.result.intercept_scid = InterceptScid(scid)
      BY <3>1 DEF Invoice
    <3>3. invoice = <<json.id, scid>>
      BY <2>4, <3>2 DEF ScidsAreReadBack
    <3> QED
      BY <1>3, <3>1, <3>3
  <2> QED
    BY <1>4, <2>2, <2>4
<1>7. CASE client_get_and_clear_pending_msg \/ lsp_get_and_clear_pending_msg
  BY <1>5, <1>7 DEF client_get_and_clear_pending_msg, lsp_get_and_clear_pending_msg, client
<1>8. CASE Loses
  BY <1>5, <1>8 DEF Loses, client
<1>9. CASE ReadsRequest(Head(requests))
  BY <1>5, <1>9 DEF ReadsRequest, client
<1>10. ASSUME NEW id \in Ids, NEW method \in Methods, Asks(id, method)
       PROVE  invoice \in channels'
  BY <1>5, <1>10 DEF Asks
<1>11. ASSUME NEW id \in Ids, Answers(id) PROVE invoice \in channels'
  BY <1>5, <1>11 DEF Answers, client
<1>12. CASE UNCHANGED vars
  BY <1>5, <1>12 DEF vars, client
<1> QED
  BY <1>1, <1>6, <1>7, <1>8, <1>9, <1>10, <1>11, <1>12 DEF Moves

-----------------------------------------------------------------------------
(* The theorems.                                                            *)

(* Nothing is on its way at first.                                          *)
LEMMA InitIInv ==
  ASSUME Init
  PROVE  IInv /\ InvoicesHaveChannels
<1> USE DEF Init, InitClient, InitLSP
<1>1. DOMAIN issued = {} /\ DOMAIN request_id_to_method_map = {}
  BY DEF NoMethods
<1>2. requests = <<>> /\ answers = <<>> /\ to_lsp = <<>>
  <2>1. requests = <<>> \o <<>> /\ answers = <<>> \o <<>>
    BY ObjectsOfNone DEF requests, answers
  <2> QED
    BY <2>1
<1>3. Pending = {}
  BY DEF Pending
<1>4. Range(requests) = {} /\ Range(answers) = {}
  BY <1>2 DEF Range
<1>5. TypeInv
  <2>1. /\ client_messages \in Seq(ClientMessages) /\ to_lsp \in Seq(ClientObjects)
        /\ lsp_messages \in Seq(LSPMessages) /\ to_client \in Seq(LSPObjects)
    OBVIOUS
  <2>2. pending_requests \in [Ids -> {"none", "lsps2.get_info", "lsps2.buy"}]
    OBVIOUS
  <2> QED
    BY <1>1, <1>3, <1>4, <2>1, <2>2 DEF TypeInv
<1>6. IdsInv
  BY <1>2, <1>3, NoIds DEF IdsInv
<1>7. KnownInv
  BY <1>2, <1>3, NoIds DEF KnownInv
<1>8. PeersAreNotIgnored /\ InvoicesHaveChannels
  BY DEF PeersAreNotIgnored, InvoicesHaveChannels
<1> QED
  BY <1>5, <1>6, <1>7, <1>8 DEF IInv

(* The invariant is inductive.                                              *)
LEMMA NextIInv ==
  ASSUME IInv, [Next]_vars
  PROVE  IInv'
<1>1. TypeInv /\ IdsInv /\ KnownInv
  BY DEF IInv
<1>2. TypeInv' /\ IdsInv' /\ KnownInv'
  BY <1>1, NextTypeInv, NextIdsInv, NextKnownInv
<1> QED
  BY <1>2, NextIgnored DEF IInv

(* Hence it holds in every state.                                           *)
LEMMA IInvHolds == Spec => []IInv
BY InitIInv, NextIInv, PTL DEF Spec

(* What the invariant says of an answer on its way.                         *)
LEMMA AnswerIsExpected ==
  ASSUME IInv, NEW json \in Range(answers), json.id # Null
  PROVE  /\ pending_requests[json.id] = "none"
         /\ \/ "client" \in failures
            \/ LET m == from_str_with_id_map(json, TRUE, request_id_to_method_map).message
               IN  /\ m.type = "response"
                   /\ m.method = issued[json.id]
                   /\ Waiting(json.id)
<1> USE DEF IInv
<1>1. json.id \in IdsOf(answers)
  BY DEF IdsOf, Range
<1>2. /\ json \in LSPObjects /\ AnswerFits(json)
  <2>1. answers \in Seq(LSPObjects)
    BY WaysAreObjects
  <2> QED
    BY <2>1 DEF TypeInv, Range
<1>3. /\ json.id \in DOMAIN issued /\ issued[json.id] \in Served
      /\ Has(json, "result") => json.result.of = issued[json.id]
  BY <1>2, AnswersAreResponses DEF AnswerFits
<1>4. pending_requests[json.id] = "none"
  BY <1>1, <1>3 DEF TypeInv, IdsInv, Pending
<1>5. ASSUME "client" \notin failures
      PROVE  json.id \in DOMAIN request_id_to_method_map /\ Waiting(json.id)
  BY <1>1, <1>3, <1>5 DEF KnownInv, Served
<1>6. ASSUME json.id \in DOMAIN request_id_to_method_map,
             NEW m, m = from_str_with_id_map(json, TRUE, request_id_to_method_map).message
      PROVE  m.type = "response" /\ m.method = issued[json.id]
  <2>1. request_id_to_method_map[json.id] = issued[json.id]
    BY <1>6 DEF TypeInv
  <2>2. m = IF Has(json, "result")
            THEN Response(json.id, issued[json.id], "result", json.result)
            ELSE Response(json.id, issued[json.id], "error", json.error)
    <3>1. PICK map : map = request_id_to_method_map
      OBVIOUS
    <3>2. PICK read : read = from_str_with_id_map(json, TRUE, map)
      OBVIOUS
    <3>3. read.message = IF Has(json, "result")
                         THEN Response(json.id, map[json.id], "result", json.result)
                         ELSE Response(json.id, map[json.id], "error", json.error)
      <4>1. json.id \in DOMAIN map /\ (Has(json, "result") => json.result.of = map[json.id])
        BY <1>3, <1>6, <2>1, <3>1
      <4> QED
        BY <1>2, <3>2, <4>1, ReadAnswer
    <3> QED
      BY <1>6, <2>1, <3>1, <3>2, <3>3
  <2> QED
    BY <2>2 DEF Response
<1> QED
  BY <1>4, <1>5, <1>6

(* No request is answered twice, and every answer on its way is read as an  *)
(* answer to a request of its method for which the client waits, unless the *)
(* client was restarted: the map from ids to methods (manager.rs:483-515)   *)
(* has the id until the answer arrives.                                     *)
THEOREM AnswersAreExpectedHolds == Spec => []AnswersAreExpected
<1>1. ASSUME IInv PROVE AnswersAreExpected
  <2>1. answers = to_client \o [i \in DOMAIN lsp_messages |-> serialize(lsp_messages[i])]
    BY DEF answers, Objects
  <2>2. ASSUME NEW i \in DOMAIN answers, NEW j \in DOMAIN answers, answers[i].id # Null,
               answers[i].id = answers[j].id
        PROVE  i = j
    BY <1>1, <2>2 DEF IInv, IdsInv, Once
  <2>3. ASSUME NEW i \in DOMAIN answers
        PROVE  answers[i] \in Range(answers)
    BY DEF Range
  <2>4. ASSUME NEW i \in DOMAIN answers, answers[i].id # Null
        PROVE  /\ pending_requests[answers[i].id] = "none"
               /\ \/ "client" \in failures
                  \/ LET m == from_str_with_id_map(answers[i], TRUE,
                                                   request_id_to_method_map).message
                     IN  /\ m.type = "response"
                         /\ m.method = issued[answers[i].id]
                         /\ Waiting(answers[i].id)
    BY <1>1, <2>3, <2>4, AnswerIsExpected
  <2> QED
    BY <2>1, <2>2, <2>4 DEF AnswersAreExpected
<1> QED
  BY <1>1, IInvHolds, PTL

(* Two managers ignore each other (manager.rs:501-515) only after the       *)
(* client was restarted, or when it asks an LSP built without LSPS1 for its *)
(* options.                                                                 *)
THEOREM PeersAreNotIgnoredHolds == Spec => []PeersAreNotIgnored
<1>1. IInv => PeersAreNotIgnored
  BY DEF IInv
<1> QED
  BY <1>1, IInvHolds, PTL

(* An invoice the client may hand out has its channel at the LSP, under the *)
(* scid it names (lsps2/service.rs:629-645), until the LSP restarts.  How   *)
(* to_scid undoes the way a scid is written is a matter of sums over bits   *)
(* (utils.rs:18-43), hence the hypothesis.                                  *)
THEOREM InvoicesHaveChannelsHolds ==
  ASSUME ScidsAreReadBack
  PROVE  Spec => []InvoicesHaveChannels
<1>1. Init => InvoicesHaveChannels
  BY InitIInv
<1>2. InvoicesHaveChannels /\ IInv /\ [Next]_vars => InvoicesHaveChannels'
  BY NextInvoices DEF IInv
<1> QED
  BY <1>1, <1>2, IInvHolds, PTL DEF Spec

=============================================================================
