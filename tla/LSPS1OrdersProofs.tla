------------------------- MODULE LSPS1OrdersProofs -------------------------
(***************************************************************************)
(* Theorems about LSPS1Orders, for any number of channels, orders and       *)
(* requests and with every failure of the model: what the two state         *)
(* machines know of an order agrees, no order is refunded or refused by     *)
(* mistake, and no answer comes that the client does not wait for.          *)
(*                                                                         *)
(* The inductive invariant says where an order id, a request id and the     *)
(* options of the LSP may be at the same time: in a message on its way, in  *)
(* a pending request, in a channel of the client, in an order of the LSP.   *)
(***************************************************************************)
EXTENDS LSPS1Orders, TLAPS

-----------------------------------------------------------------------------
(* Types.                                                                   *)
Methods == {"get_info", "create_order", "get_order"}

Requests == [method : {"get_info"}, id : Ids, param : {None}]
              \cup [method : {"create_order"}, id : Ids, param : Orders]
              \cup [method : {"get_order"}, id : Ids, param : OrderIds]

InfoAnswers == [type : {"result"}, id : Ids, options : SUBSET Orders]

OrderAnswers == [type : {"result"}, id : Ids, order : Orders,
                 order_id : OrderIds, fees_accepted : BOOLEAN]

StatusAnswers == [type : {"result"}, id : Ids]

Errors == [type : {"error"}, id : Ids]

Answers == InfoAnswers \cup OrderAnswers \cup StatusAnswers \cup Errors

InboundChannels ==
  [state : {None, "InfoRequested", "OptionsSupport", "OrderRequested",
            "PendingPayment", "AwaitingConfirmation"},
   options : SUBSET Orders,
   order : Orders \cup {None},
   order_id : OrderIds \cup {None}]

OutboundChannels ==
  [state : {None, "OrderCreated", "WaitingPayment", "gone"},
   order : Orders \cup {None}]

ClientOK ==
  /\ inbound \in [Channels -> InboundChannels]
  /\ request_to_cid \in [Ids -> Channels \cup {None}]
  /\ methods \in [Ids -> Methods \cup {None}]
  /\ ignores_lsp \in BOOLEAN

LspOK ==
  /\ options_supported \in SUBSET Orders
  /\ outbound \in [OrderIds -> OutboundChannels]
  /\ pending_requests \in [Ids -> Orders \cup OrderIds \cup {None}]

NetOK ==
  /\ requests \in 0..MaxRequests
  /\ to_lsp \in Seq(Requests)
  /\ to_client \in Seq(Answers)

(* A channel whose order the client knows names that order.                 *)
OrderedOK ==
  \A c \in Channels :
     inbound[c].state \in {"PendingPayment", "AwaitingConfirmation"}
       => inbound[c].order_id \in OrderIds /\ inbound[c].order \in Orders

(* The ids of requests not sent yet are nowhere in use.                     *)
IdsAreOld ==
  /\ \A i \in DOMAIN to_lsp : to_lsp[i].id <= requests
  /\ \A i \in DOMAIN to_client : to_client[i].id <= requests
  /\ \A id \in Ids : pending_requests[id] # None => id <= requests

(* A result is of the form its method's handler reads.                      *)
Fits(m, method) ==
  /\ method = "get_info" => m \in InfoAnswers
  /\ method = "create_order" => m \in OrderAnswers
  /\ method = "get_order" => m \in StatusAnswers

(* Each request id is used for one method, at both ends.                    *)
AnswersFit ==
  /\ \A i \in DOMAIN to_lsp : methods[to_lsp[i].id] \in {None, to_lsp[i].method}
  /\ \A id \in Ids :
       /\ pending_requests[id] \in Orders => methods[id] \in {None, "create_order"}
       /\ pending_requests[id] \in OrderIds => methods[id] \in {None, "get_order"}
  /\ \A i \in DOMAIN to_client :
       to_client[i].type = "result" => Fits(to_client[i], methods[to_client[i].id])

TypeInv == ClientOK /\ LspOK /\ NetOK /\ OrderedOK /\ IdsAreOld /\ AnswersFit

(* While the LSP has not been restarted, what the client knows of its       *)
(* options and orders by them are options it supports.                      *)
OptionsInv ==
  "LSP" \notin failures =>
     /\ refused = {}
     /\ \A c \in Channels : inbound[c].options \subseteq options_supported
     /\ \A i \in DOMAIN to_client :
          to_client[i] \in InfoAnswers => to_client[i].options \subseteq options_supported
     /\ \A i \in DOMAIN to_lsp :
          to_lsp[i].method = "create_order" => to_lsp[i].param \in options_supported

(* The i-th request on its way queries order o; the i-th answer offers it.  *)
Queries(i, o) == to_lsp[i].method = "get_order" /\ to_lsp[i].param = o

OffersOrder(i, o) == to_client[i] \in OrderAnswers /\ to_client[i].order_id = o

(* An order is queried once, before the LSP waits for its payment.          *)
QueriedOnce ==
  \A o \in OrderIds, i \in DOMAIN to_lsp : Queries(i, o) =>
     /\ outbound[o].state \in {"OrderCreated", "gone"}
     /\ \A j \in DOMAIN to_lsp : Queries(j, o) => j = i

(* An order the client is still to be told of: it is in one answer, as the  *)
(* LSP keeps it, and nowhere on the client's side.                          *)
OfferedOnce ==
  \A o \in OrderIds, i \in DOMAIN to_client : OffersOrder(i, o) =>
     /\ outbound[o].state \in {"OrderCreated", "gone"}
     /\ "LSP" \notin failures => outbound[o].order = to_client[i].order
     /\ \A j \in DOMAIN to_client : OffersOrder(j, o) => j = i
     /\ \A j \in DOMAIN to_lsp : ~Queries(j, o)
     /\ \A c \in Ordered : inbound[c].order_id # o

(* An order the client knows is known to one channel, as the LSP keeps it;  *)
(* until the channel queries it, nobody has.                                *)
OrderedOnce ==
  \A o \in OrderIds, c \in Ordered : inbound[c].order_id = o =>
     /\ \A d \in Ordered : inbound[d].order_id = o => d = c
     /\ outbound[o].state # None
     /\ "LSP" \notin failures => outbound[o].order = inbound[c].order
     /\ inbound[c].state = "PendingPayment" =>
          /\ outbound[o].state \in {"OrderCreated", "gone"}
          /\ \A j \in DOMAIN to_lsp : ~Queries(j, o)

(* The order ids.                                                           *)
OrderInv ==
  /\ refunded = {}
  /\ \A o \in OrderIds : outbound[o].state = "gone" => "LSP" \in failures
  /\ QueriedOnce
  /\ OfferedOnce
  /\ OrderedOnce

(* The requests the LSP's application may still answer for the first time.  *)
Unanswered ==
  {id \in Ids : \/ pending_requests[id] \in Orders
                \/ pending_requests[id] \in OrderIds /\ id \notin answered}

(* A request on its way, an answer on its way and a request that waits for  *)
(* its answer: the client knows the method of each, and of no id there is   *)
(* more than one of them.                                                   *)
Sent == \A i \in DOMAIN to_lsp :
          /\ methods[to_lsp[i].id] # None
          /\ to_lsp[i].id \notin Unanswered
          /\ \A j \in DOMAIN to_client : to_client[j].id # to_lsp[i].id
          /\ \A j \in DOMAIN to_lsp : to_lsp[j].id = to_lsp[i].id => j = i

Answered == \A i \in DOMAIN to_client :
              /\ methods[to_client[i].id] # None
              /\ \A j \in DOMAIN to_client : to_client[j].id = to_client[i].id => j = i

Waiting == \A id \in Ids : id \in Unanswered =>
             /\ methods[id] # None
             /\ \A j \in DOMAIN to_client : to_client[j].id # id

(* The request ids, until the client restarts or a query is answered twice. *)
TokenInv ==
  {"client", "repeat"} \cap failures = {} => ~ignores_lsp /\ Sent /\ Answered /\ Waiting

-----------------------------------------------------------------------------
(* What the assumption on the constants comes to.                           *)
LEMMA Constants ==
  /\ None \notin Channels /\ None \notin Orders /\ None \notin OrderIds
  /\ Orders \cap OrderIds = {}
  /\ \A id \in Ids : id \in Nat
BY LSPS1OrdersAssumption DEF Ids

(* The types hold initially.                                                *)
LEMMA InitTypeInv == Init => TypeInv
<1> SUFFICES ASSUME Init PROVE TypeInv
  OBVIOUS
<1> USE DEF Init
<1>1. ClientOK
  BY Constants DEF InitClient, NoInbound, Inbound, ClientOK, InboundChannels
<1>2. LspOK
  BY LSPS1OrdersAssumption DEF LspOK, OutboundChannels
<1>3. NetOK
  BY LSPS1OrdersAssumption DEF NetOK
<1>4. OrderedOK
  BY Constants DEF OrderedOK, InitClient, NoInbound, Inbound, None
<1>5. IdsAreOld /\ AnswersFit
  BY Constants DEF IdsAreOld, AnswersFit
<1>6. QED
  BY <1>1, <1>2, <1>3, <1>4, <1>5 DEF TypeInv

(* What Send does: the request has a new id and goes last.                  *)
LEMMA SendTypes ==
  ASSUME TypeInv, NEW c \in Channels, NEW method \in Methods, NEW param,
         \A id \in Ids : [method |-> method, id |-> id, param |-> param] \in Requests,
         Send(c, method, param)
  PROVE  /\ request_to_cid' \in [Ids -> Channels \cup {None}]
         /\ methods' \in [Ids -> Methods \cup {None}]
         /\ requests' \in 0..MaxRequests /\ requests' = requests + 1 /\ requests' \in Ids
         /\ to_lsp' \in Seq(Requests)
         /\ Len(to_lsp') = Len(to_lsp) + 1
         /\ \A i \in DOMAIN to_lsp' :
              \/ i \in DOMAIN to_lsp /\ to_lsp'[i] = to_lsp[i]
              \/ /\ i = Len(to_lsp) + 1
                 /\ to_lsp'[i] = [method |-> method, id |-> requests', param |-> param]
         /\ \A id \in Ids : id # requests' => methods'[id] = methods[id]
         /\ methods'[requests'] = method
<1> USE DEF Send
<1>0. to_lsp \in Seq(Requests) /\ requests \in 0..MaxRequests /\ MaxRequests \in Nat
  BY LSPS1OrdersAssumption DEF TypeInv, NetOK
<1>1. requests' \in 0..MaxRequests /\ requests' = requests + 1 /\ requests' \in Ids
  BY <1>0 DEF Ids
<1> DEFINE m == [method |-> method, id |-> requests', param |-> param]
<1>2. m \in Requests
  BY <1>1
<1>3. to_lsp' = Append(to_lsp, m)
  OBVIOUS
<1> HIDE DEF m
<1>4. to_lsp' \in Seq(Requests) /\ Len(to_lsp') = Len(to_lsp) + 1
  BY <1>0, <1>2, <1>3
<1>5. \A i \in DOMAIN to_lsp' : \/ i \in DOMAIN to_lsp /\ to_lsp'[i] = to_lsp[i]
                                \/ i = Len(to_lsp) + 1 /\ to_lsp'[i] = m
  BY <1>0, <1>2, <1>3
<1>6. methods' = [methods EXCEPT ![requests'] = method]
      /\ request_to_cid' = [request_to_cid EXCEPT ![requests'] = c]
  OBVIOUS
<1>7. /\ methods' \in [Ids -> Methods \cup {None}]
      /\ \A id \in Ids : id # requests' => methods'[id] = methods[id]
      /\ methods'[requests'] = method
  BY <1>1, <1>6 DEF TypeInv, ClientOK
<1>8. request_to_cid' \in [Ids -> Channels \cup {None}]
  BY <1>1, <1>6 DEF TypeInv, ClientOK
<1>9. QED
  BY <1>1, <1>4, <1>5, <1>7, <1>8 DEF m

(* The elements of a sequence whose first is taken.                         *)
LEMMA TailElements ==
  ASSUME NEW S, NEW s \in Seq(S), s # <<>>
  PROVE  /\ 1 \in DOMAIN s /\ Head(s) = s[1] /\ s[1] \in S
         /\ Tail(s) \in Seq(S)
         /\ \A i \in DOMAIN Tail(s) : /\ i + 1 \in DOMAIN s /\ i + 1 # 1
                                     /\ Tail(s)[i] = s[i + 1]
         /\ \A i, j \in DOMAIN Tail(s) : i + 1 = j + 1 => i = j
OBVIOUS

(* The elements of a sequence to which one is appended.                     *)
LEMMA AppendElements ==
  ASSUME NEW S, NEW s \in Seq(S), NEW m \in S
  PROVE  /\ Append(s, m) \in Seq(S)
         /\ \A i \in DOMAIN Append(s, m) :
              \/ i \in DOMAIN s /\ Append(s, m)[i] = s[i]
              \/ i = Len(s) + 1 /\ Append(s, m)[i] = m
OBVIOUS

(* The empty sequence.                                                      *)
LEMMA EmptyTypes ==
  ASSUME NEW S
  PROVE  <<>> \in Seq(S) /\ DOMAIN <<>> = {}
OBVIOUS

(* The client sets the state of one channel.                                *)
LEMMA BecomeTypes ==
  ASSUME TypeInv, NEW c \in Channels, NEW ch \in InboundChannels,
         ch.state \in {"PendingPayment", "AwaitingConfirmation"}
           => ch.order_id \in OrderIds /\ ch.order \in Orders,
         Become(c, ch)
  PROVE  /\ inbound' \in [Channels -> InboundChannels]
         /\ OrderedOK'
         /\ inbound'[c] = ch
         /\ \A d \in Channels : d # c => inbound'[d] = inbound[d]
BY DEF Become, TypeInv, ClientOK, OrderedOK

(* A call of the client that sends a request keeps the types.               *)
LEMMA SendTypeInv ==
  ASSUME TypeInv, NEW c \in Channels, NEW method \in Methods, NEW param,
         \A id \in Ids : [method |-> method, id |-> id, param |-> param] \in Requests,
         Send(c, method, param),
         inbound' \in [Channels -> InboundChannels], OrderedOK',
         UNCHANGED <<ignores_lsp, lsp, to_client>>
  PROVE  TypeInv'
<1>1. /\ request_to_cid' \in [Ids -> Channels \cup {None}]
      /\ methods' \in [Ids -> Methods \cup {None}]
      /\ requests' \in 0..MaxRequests /\ requests' = requests + 1 /\ requests' \in Ids
      /\ to_lsp' \in Seq(Requests)
      /\ \A i \in DOMAIN to_lsp' :
              \/ i \in DOMAIN to_lsp /\ to_lsp'[i] = to_lsp[i]
              \/ to_lsp'[i] = [method |-> method, id |-> requests', param |-> param]
      /\ \A id \in Ids : id # requests' => methods'[id] = methods[id]
      /\ methods'[requests'] = method
  BY SendTypes
<1>2. ClientOK' /\ LspOK' /\ NetOK'
  BY <1>1 DEF ClientOK, LspOK, NetOK, TypeInv, lsp
<1>3. /\ \A i \in DOMAIN to_lsp : to_lsp[i].id <= requests /\ to_lsp[i].id \in Ids
      /\ \A i \in DOMAIN to_client : to_client[i].id <= requests /\ to_client[i].id \in Ids
      /\ \A id \in Ids : pending_requests[id] # None => id <= requests
      /\ requests \in Nat /\ \A id \in Ids : id \in Nat
  <2>1. \A i \in DOMAIN to_lsp : to_lsp[i].id \in Ids
    BY DEF TypeInv, NetOK, Requests
  <2>2. \A i \in DOMAIN to_client : to_client[i].id \in Ids
    BY DEF TypeInv, NetOK, Answers, InfoAnswers, OrderAnswers, StatusAnswers, Errors
  <2>3. QED
    BY <2>1, <2>2, Constants DEF TypeInv, IdsAreOld, NetOK
<1>u. /\ pending_requests' = pending_requests /\ to_client' = to_client
      /\ requests' > requests
      /\ \A n \in Ids : n <= requests => n <= requests' /\ n # requests'
  BY <1>1, <1>3 DEF lsp
<1>4. IdsAreOld'
  <2>1. ASSUME NEW i \in DOMAIN to_lsp' PROVE to_lsp'[i].id <= requests'
    <3>1. CASE i \in DOMAIN to_lsp /\ to_lsp'[i] = to_lsp[i]
      BY <1>u, <1>3, <3>1
    <3>2. CASE to_lsp'[i] = [method |-> method, id |-> requests', param |-> param]
      BY <1>1, <1>3, <3>2
    <3>3. QED
      BY <1>1, <3>1, <3>2
  <2>2. ASSUME NEW i \in DOMAIN to_client' PROVE to_client'[i].id <= requests'
    BY <1>u, <1>3
  <2>3. ASSUME NEW id \in Ids, pending_requests'[id] # None PROVE id <= requests'
    BY <1>u, <1>3, <1>1, <2>3
  <2>4. QED
    BY <2>1, <2>2, <2>3 DEF IdsAreOld
<1>5. AnswersFit'
  <2>1. ASSUME NEW i \in DOMAIN to_lsp' PROVE methods'[to_lsp'[i].id] \in {None, to_lsp'[i].method}
    <3>1. CASE i \in DOMAIN to_lsp /\ to_lsp'[i] = to_lsp[i]
      <4>1. methods'[to_lsp[i].id] = methods[to_lsp[i].id]
        BY <1>u, <1>3, <1>1, <3>1
      <4>2. QED
        BY <3>1, <4>1 DEF TypeInv, AnswersFit
    <3>2. CASE to_lsp'[i] = [method |-> method, id |-> requests', param |-> param]
      BY <1>1, <3>2
    <3>3. QED
      BY <1>1, <3>1, <3>2
  <2>2. ASSUME NEW id \in Ids
        PROVE  /\ pending_requests'[id] \in Orders => methods'[id] \in {None, "create_order"}
               /\ pending_requests'[id] \in OrderIds => methods'[id] \in {None, "get_order"}
    <3>1. CASE pending_requests[id] = None
      BY <1>u, <3>1, Constants
    <3>2. CASE pending_requests[id] # None
      <4>1. methods'[id] = methods[id]
        BY <1>u, <1>3, <1>1, <3>2
      <4>2. QED
        BY <1>u, <4>1 DEF TypeInv, AnswersFit
    <3>3. QED
      BY <3>1, <3>2
  <2>3. ASSUME NEW i \in DOMAIN to_client'
        PROVE to_client'[i].type = "result" => Fits(to_client'[i], methods'[to_client'[i].id])
    <3>1. methods'[to_client[i].id] = methods[to_client[i].id]
      BY <1>u, <1>3, <1>1
    <3>2. QED
      BY <1>u, <3>1 DEF TypeInv, AnswersFit
  <2>4. QED
    BY <2>1, <2>2, <2>3 DEF AnswersFit
<1>6. QED
  BY <1>2, <1>4, <1>5 DEF TypeInv

(* Every call of the client keeps the types.                                *)
LEMMA ApiTypeInv ==
  ASSUME TypeInv, NEW c \in Channels
  PROVE  /\ send_get_info_request(c) => TypeInv'
         /\ \A order \in Orders : place_order(c, order) => TypeInv'
         /\ check_order_status(c) => TypeInv'
<1>0. /\ NoInbound \in InboundChannels
      /\ NoInbound.state \notin {"PendingPayment", "AwaitingConfirmation"}
  BY DEF NoInbound, Inbound, InboundChannels, None
<1>1. ASSUME Remove(c), UNCHANGED <<request_to_cid, methods, ignores_lsp, lsp, requests, net>>
      PROVE  TypeInv'
  <2>1. inbound' \in [Channels -> InboundChannels] /\ OrderedOK'
    BY <1>0, <1>1, BecomeTypes DEF Remove
  <2>2. QED
    BY <1>1, <2>1 DEF TypeInv, ClientOK, LspOK, NetOK, IdsAreOld, AnswersFit, lsp, net
<1>2. ASSUME send_get_info_request(c) PROVE TypeInv'
  <2>1. Inbound("InfoRequested", {}, None, None) \in InboundChannels
    BY DEF Inbound, InboundChannels
  <2>2. Inbound("InfoRequested", {}, None, None).state = "InfoRequested"
    BY DEF Inbound
  <2>3. inbound' \in [Channels -> InboundChannels] /\ OrderedOK'
    BY <1>2, <2>1, <2>2, BecomeTypes DEF send_get_info_request
  <2>4. \A id \in Ids : [method |-> "get_info", id |-> id, param |-> None] \in Requests
    BY DEF Requests
  <2>5. QED
    BY <1>2, <2>3, <2>4, SendTypeInv DEF send_get_info_request, Methods
<1>3. ASSUME NEW order \in Orders, place_order(c, order) PROVE TypeInv'
  <2>1. CASE order_requested(inbound[c], order)
    <3>1. /\ Inbound("OrderRequested", {}, order, None) \in InboundChannels
          /\ Inbound("OrderRequested", {}, order, None).state = "OrderRequested"
      BY DEF Inbound, InboundChannels
    <3>2. inbound' \in [Channels -> InboundChannels] /\ OrderedOK'
      BY <1>3, <2>1, <3>1, BecomeTypes DEF place_order
    <3>3. \A id \in Ids : [method |-> "create_order", id |-> id, param |-> order] \in Requests
      BY DEF Requests
    <3>4. QED
      BY <1>3, <2>1, <3>2, <3>3, SendTypeInv DEF place_order, Methods
  <2>2. CASE ~order_requested(inbound[c], order)
    BY <1>1, <1>3, <2>2 DEF place_order, net
  <2>3. QED
    BY <2>1, <2>2
<1>4. ASSUME check_order_status(c) PROVE TypeInv'
  <2>1. CASE pay_for_channel(inbound[c])
    <3> DEFINE ch == [inbound[c] EXCEPT !.state = "AwaitingConfirmation"]
    <3>0. /\ inbound[c] \in InboundChannels
          /\ inbound[c].order_id \in OrderIds /\ inbound[c].order \in Orders
      BY <2>1 DEF TypeInv, ClientOK, OrderedOK, pay_for_channel
    <3>1. ch \in InboundChannels /\ ch.order_id \in OrderIds /\ ch.order \in Orders
      BY <3>0 DEF InboundChannels
    <3>2. Become(c, ch)
      BY <1>4, <2>1 DEF check_order_status
    <3> HIDE DEF ch
    <3>3. inbound' \in [Channels -> InboundChannels] /\ OrderedOK'
      BY <3>1, <3>2, BecomeTypes
    <3>4. \A id \in Ids : [method |-> "get_order", id |-> id,
                           param |-> inbound[c].order_id] \in Requests
      BY <3>0 DEF Requests
    <3>5. QED
      BY <1>4, <2>1, <3>3, <3>4, SendTypeInv DEF check_order_status, Methods
  <2>2. CASE ~pay_for_channel(inbound[c])
    BY <1>1, <1>4, <2>2 DEF check_order_status, net
  <2>3. QED
    BY <2>1, <2>2
<1>5. QED
  BY <1>2, <1>3, <1>4

(* The fields of an answer.                                                 *)
LEMMA AnswerTypes ==
  ASSUME NEW m \in Answers
  PROVE  /\ m.id \in Ids
         /\ m.type \in {"result", "error"}
         /\ m \in InfoAnswers => m.options \in SUBSET Orders
         /\ m \in OrderAnswers => m.order \in Orders /\ m.order_id \in OrderIds
BY DEF Answers, InfoAnswers, OrderAnswers, StatusAnswers, Errors

(* The fields of a request.                                                 *)
LEMMA RequestTypes ==
  ASSUME NEW m \in Requests
  PROVE  /\ m.id \in Ids /\ m.method \in Methods
         /\ m.method = "create_order" => m.param \in Orders
         /\ m.method = "get_order" => m.param \in OrderIds
BY DEF Requests, Methods

(* An answer that fits leaves a channel of the right type.                  *)
LEMMA HandleAnswerTypes ==
  ASSUME TypeInv, NEW m \in Answers, methods[m.id] # None,
         m.type = "result" => Fits(m, methods[m.id]),
         handle_answer(m)
  PROVE  /\ inbound' \in [Channels -> InboundChannels]
         /\ request_to_cid' \in [Ids -> Channels \cup {None}]
         /\ OrderedOK'
<1> DEFINE c == request_to_cid[m.id]
<1>0. /\ m.id \in Ids /\ c \in Channels \cup {None} /\ methods[m.id] \in Methods
      /\ inbound \in [Channels -> InboundChannels] /\ OrderedOK
  BY AnswerTypes DEF TypeInv, ClientOK
<1>1. request_to_cid' \in [Ids -> Channels \cup {None}]
  BY <1>0 DEF handle_answer, TypeInv, ClientOK
<1>2. CASE UNCHANGED inbound
  BY <1>0, <1>1, <1>2 DEF OrderedOK
<1>3. CASE /\ c # None /\ m.type = "result" /\ inbound[c].state # None
           /\ methods[m.id] = "get_info" /\ info_received(c, m)
  <2>0. m.options \in SUBSET Orders
    BY <1>3, AnswerTypes DEF Fits
  <2> DEFINE ch == Inbound("OptionsSupport", m.options, None, None)
  <2>1. ch \in InboundChannels /\ ch.state = "OptionsSupport"
    BY <2>0 DEF Inbound, InboundChannels
  <2>2. NoInbound \in InboundChannels /\ NoInbound.state = "none"
    BY DEF NoInbound, Inbound, InboundChannels, None
  <2>3. Become(c, ch) \/ Become(c, NoInbound)
    BY <1>3 DEF info_received, Remove
  <2> HIDE DEF ch, c
  <2>4. c \in Channels
    BY <1>0, <1>3
  <2>5. inbound' \in [Channels -> InboundChannels] /\ OrderedOK'
    BY <2>1, <2>2, <2>3, <2>4, BecomeTypes
  <2>6. QED
    BY <1>1, <2>5
<1>4. CASE /\ c # None /\ m.type = "result" /\ inbound[c].state # None
           /\ methods[m.id] = "create_order" /\ order_received(c, m)
  <2>0. m.order \in Orders /\ m.order_id \in OrderIds
    BY <1>4, AnswerTypes DEF Fits
  <2> DEFINE ch == [inbound[c] EXCEPT !.state = "PendingPayment", !.order_id = m.order_id]
  <2>c. c \in Channels /\ inbound[c] \in InboundChannels
    BY <1>0, <1>4
  <2>1. inbound[c].order = m.order =>
          ch \in InboundChannels /\ ch.order \in Orders /\ ch.order_id \in OrderIds
    BY <2>0, <2>c DEF InboundChannels
  <2>2. NoInbound \in InboundChannels /\ NoInbound.state = "none"
    BY DEF NoInbound, Inbound, InboundChannels, None
  <2>3. (Become(c, ch) /\ inbound[c].order = m.order) \/ Become(c, NoInbound)
    BY <1>4 DEF order_received, Remove
  <2> HIDE DEF ch, c
  <2>5. inbound' \in [Channels -> InboundChannels] /\ OrderedOK'
    BY <2>1, <2>2, <2>3, <2>c, BecomeTypes
  <2>6. QED
    BY <1>1, <2>5
<1>5. QED
  BY <1>0, <1>2, <1>3, <1>4 DEF handle_answer, Methods

(* The client's handler keeps the types.                                    *)
LEMMA ClientTypeInv ==
  TypeInv /\ client_handle_custom_message => TypeInv'
<1> SUFFICES ASSUME TypeInv, client_handle_custom_message PROVE TypeInv'
  OBVIOUS
<1> DEFINE m == Head(to_client)
<1>0. /\ to_client \in Seq(Answers) /\ to_client # <<>> /\ to_client' = Tail(to_client)
      /\ UNCHANGED <<lsp, requests, to_lsp>>
  BY DEF TypeInv, NetOK, client_handle_custom_message
<1>1. /\ m \in Answers /\ m = to_client[1] /\ 1 \in DOMAIN to_client
      /\ Tail(to_client) \in Seq(Answers)
      /\ \A i \in DOMAIN Tail(to_client) :
           i + 1 \in DOMAIN to_client /\ Tail(to_client)[i] = to_client[i + 1]
  BY <1>0, TailElements
<1>2. m.id \in Ids /\ (m.type = "result" => Fits(m, methods[m.id]))
  BY <1>1, AnswerTypes DEF TypeInv, AnswersFit
<1>3. \A i \in DOMAIN to_client' :
        i + 1 \in DOMAIN to_client /\ to_client'[i] = to_client[i + 1]
  BY <1>0, <1>1
<1>4. LspOK' /\ NetOK' /\ IdsAreOld'
  <2>1. LspOK' /\ NetOK'
    BY <1>0, <1>1 DEF TypeInv, LspOK, NetOK, lsp
  <2>2. IdsAreOld'
    BY <1>0, <1>3 DEF TypeInv, IdsAreOld, lsp
  <2>3. QED
    BY <2>1, <2>2
<1> HIDE DEF m
<1>5. ClientOK' /\ OrderedOK' /\ \A id \in Ids : methods'[id] \in {methods[id], None}
  <2>1. CASE ignores_lsp
    BY <2>1 DEF client_handle_custom_message, client, TypeInv, ClientOK, OrderedOK
  <2>2. CASE ~ignores_lsp /\ methods[m.id] = None
    BY <1>2, <2>2 DEF m, client_handle_custom_message, TypeInv, ClientOK, OrderedOK
  <2>3. CASE ~ignores_lsp /\ methods[m.id] # None
    <3>1. handle_answer(m) /\ methods' = [methods EXCEPT ![m.id] = None]
          /\ ignores_lsp' \in BOOLEAN
      BY <2>3 DEF m, client_handle_custom_message
    <3>2. /\ inbound' \in [Channels -> InboundChannels]
          /\ request_to_cid' \in [Ids -> Channels \cup {None}]
          /\ OrderedOK'
      BY <1>1, <1>2, <2>3, <3>1, HandleAnswerTypes
    <3>3. /\ methods' \in [Ids -> Methods \cup {None}]
          /\ \A id \in Ids : methods'[id] \in {methods[id], None}
      BY <1>2, <3>1 DEF TypeInv, ClientOK
    <3>4. QED
      BY <3>1, <3>2, <3>3 DEF ClientOK
  <2>4. QED
    BY <2>1, <2>2, <2>3
<1>6. AnswersFit'
  <2>0. /\ None \notin Methods
        /\ \A i \in DOMAIN to_lsp : to_lsp[i].id \in Ids
        /\ \A i \in DOMAIN to_client : to_client[i].id \in Ids
    BY AnswerTypes, RequestTypes DEF TypeInv, NetOK, Methods, None
  <2>1. ASSUME NEW i \in DOMAIN to_lsp' PROVE methods'[to_lsp'[i].id] \in {None, to_lsp'[i].method}
    BY <1>0, <1>5, <2>0 DEF TypeInv, AnswersFit
  <2>2. ASSUME NEW id \in Ids
        PROVE  /\ pending_requests'[id] \in Orders => methods'[id] \in {None, "create_order"}
               /\ pending_requests'[id] \in OrderIds => methods'[id] \in {None, "get_order"}
    BY <1>0, <1>5 DEF TypeInv, AnswersFit, lsp
  <2>3. ASSUME NEW i \in DOMAIN to_client', to_client'[i].type = "result"
        PROVE Fits(to_client'[i], methods'[to_client'[i].id])
    <3>1. i + 1 \in DOMAIN to_client /\ to_client'[i] = to_client[i + 1]
      BY <1>3
    <3>2. Fits(to_client'[i], methods[to_client'[i].id])
      BY <2>3, <3>1 DEF TypeInv, AnswersFit
    <3>3. methods'[to_client'[i].id] \in {methods[to_client'[i].id], None}
      BY <1>5, <2>0, <3>1
    <3>4. QED
      BY <3>2, <3>3 DEF Fits, None
  <2>4. QED
    BY <2>1, <2>2, <2>3 DEF AnswersFit
<1>7. QED
  BY <1>4, <1>5, <1>6 DEF TypeInv

(* Every step of the LSP takes at most one request, may make the request    *)
(* pending and may append an answer that fits it.                           *)
LEMMA LspStepTypeInv ==
  ASSUME TypeInv, UNCHANGED <<client, requests>>, LspOK',
         to_lsp' = to_lsp \/ (to_lsp # <<>> /\ to_lsp' = Tail(to_lsp)),
         \A id \in Ids :
            \/ pending_requests'[id] \in {pending_requests[id], None}
            \/ /\ id <= requests
               /\ \/ /\ pending_requests'[id] \in Orders
                     /\ methods[id] \in {None, "create_order"}
                  \/ /\ pending_requests'[id] \in OrderIds
                     /\ methods[id] \in {None, "get_order"},
         \/ to_client' = to_client
         \/ \E m \in Answers : /\ m.id <= requests
                               /\ m.type = "result" => Fits(m, methods[m.id])
                               /\ to_client' = Append(to_client, m)
  PROVE  TypeInv'
<1>1. ClientOK' /\ OrderedOK' /\ methods' = methods /\ requests' = requests
  BY DEF TypeInv, ClientOK, OrderedOK, client
<1>2. /\ to_lsp' \in Seq(Requests)
      /\ \A i \in DOMAIN to_lsp' : \E j \in DOMAIN to_lsp : to_lsp'[i] = to_lsp[j]
  <2>0. to_lsp \in Seq(Requests)
    BY DEF TypeInv, NetOK
  <2>1. CASE to_lsp' = to_lsp
    BY <2>0, <2>1
  <2>2. CASE to_lsp # <<>> /\ to_lsp' = Tail(to_lsp)
    <3>1. /\ Tail(to_lsp) \in Seq(Requests)
          /\ \A i \in DOMAIN Tail(to_lsp) : /\ i + 1 \in DOMAIN to_lsp
                                           /\ Tail(to_lsp)[i] = to_lsp[i + 1]
      BY <2>0, <2>2, TailElements
    <3>2. QED
      BY <2>2, <3>1
  <2>3. QED
    BY <2>1, <2>2
<1>3. /\ to_client' \in Seq(Answers)
      /\ \A i \in DOMAIN to_client' :
           /\ to_client'[i].id <= requests
           /\ to_client'[i].type = "result"
                => Fits(to_client'[i], methods[to_client'[i].id])
  <2>1. CASE to_client' = to_client
    BY <2>1 DEF TypeInv, NetOK, IdsAreOld, AnswersFit
  <2>2. ASSUME NEW m \in Answers, m.id <= requests,
               m.type = "result" => Fits(m, methods[m.id]),
               to_client' = Append(to_client, m)
        PROVE  /\ to_client' \in Seq(Answers)
               /\ \A i \in DOMAIN to_client' :
                    /\ to_client'[i].id <= requests
                    /\ to_client'[i].type = "result"
                         => Fits(to_client'[i], methods[to_client'[i].id])
    <3>1. /\ to_client' \in Seq(Answers)
          /\ \A i \in DOMAIN to_client' :
               (i \in DOMAIN to_client /\ to_client'[i] = to_client[i]) \/ to_client'[i] = m
      BY <2>2, AppendElements DEF TypeInv, NetOK
    <3>2. QED
      BY <2>2, <3>1 DEF TypeInv, IdsAreOld, AnswersFit
  <2>3. QED
    BY <2>1, <2>2
<1>4. NetOK'
  BY <1>1, <1>2, <1>3 DEF TypeInv, NetOK
<1>5. IdsAreOld'
  <2>1. \A i \in DOMAIN to_lsp' : to_lsp'[i].id <= requests
    BY <1>2 DEF TypeInv, IdsAreOld
  <2>2. \A id \in Ids : pending_requests'[id] # None => id <= requests
    BY DEF TypeInv, IdsAreOld
  <2>3. QED
    BY <1>1, <1>3, <2>1, <2>2 DEF IdsAreOld
<1>6. AnswersFit'
  <2>1. \A i \in DOMAIN to_lsp' : methods[to_lsp'[i].id] \in {None, to_lsp'[i].method}
    BY <1>2 DEF TypeInv, AnswersFit
  <2>2. ASSUME NEW id \in Ids
        PROVE  /\ pending_requests'[id] \in Orders => methods[id] \in {None, "create_order"}
               /\ pending_requests'[id] \in OrderIds => methods[id] \in {None, "get_order"}
    BY Constants DEF TypeInv, AnswersFit
  <2>3. QED
    BY <1>1, <1>3, <2>1, <2>2 DEF AnswersFit
<1>7. QED
  BY <1>1, <1>4, <1>5, <1>6 DEF TypeInv

(* The LSP's handlers keep the types.                                       *)
LEMMA LspTypeInv ==
  TypeInv /\ lsp_handle_custom_message => TypeInv'
<1> SUFFICES ASSUME TypeInv, lsp_handle_custom_message PROVE TypeInv'
  OBVIOUS
<1> DEFINE m == Head(to_lsp)
<1>0. /\ to_lsp \in Seq(Requests) /\ to_lsp # <<>> /\ to_lsp' = Tail(to_lsp)
      /\ UNCHANGED <<client, requests>> /\ options_supported' = options_supported
  BY DEF TypeInv, NetOK, lsp_handle_custom_message
<1>1. m \in Requests /\ m = to_lsp[1] /\ 1 \in DOMAIN to_lsp
  BY <1>0, TailElements
<1>2. /\ m.id \in Ids /\ m.id <= requests /\ m.method \in Methods
      /\ methods[m.id] \in {None, m.method}
      /\ m.method = "create_order" => m.param \in Orders
      /\ m.method = "get_order" => m.param \in OrderIds
  BY <1>1, RequestTypes DEF TypeInv, AnswersFit, IdsAreOld
<1>3. \/ m.method = "get_info" /\ handle_get_info_request(m)
      \/ m.method = "create_order" /\ handle_create_order_request(m)
      \/ m.method = "get_order" /\ handle_get_order_request(m)
  BY <1>2 DEF lsp_handle_custom_message, Methods
<1> HIDE DEF m
<1>4. CASE m.method = "get_info" /\ handle_get_info_request(m)
  <2> DEFINE a == [type |-> "result", id |-> m.id, options |-> options_supported]
  <2>1. a \in Answers /\ a.id = m.id /\ a \in InfoAnswers
    BY <1>2 DEF Answers, InfoAnswers, TypeInv, LspOK
  <2>2. to_client' = Append(to_client, a) /\ UNCHANGED <<outbound, pending_requests>>
    BY <1>4 DEF handle_get_info_request, Answer
  <2>3. Fits(a, methods[a.id])
    BY <1>2, <1>4, <2>1 DEF Fits, None
  <2> HIDE DEF a
  <2>4. LspOK'
    BY <1>0, <2>2 DEF TypeInv, LspOK
  <2>5. QED
    BY <1>0, <1>2, <2>1, <2>2, <2>3, <2>4, LspStepTypeInv
<1>5. CASE m.method = "create_order" /\ handle_create_order_request(m)
  <2>1. CASE m.param \in options_supported
    <3>1. /\ pending_requests' = [pending_requests EXCEPT ![m.id] = m.param]
          /\ UNCHANGED <<outbound, to_client>>
      BY <1>5, <2>1 DEF handle_create_order_request, insert
    <3>2. LspOK' /\ pending_requests'[m.id] = m.param
          /\ \A id \in Ids : id # m.id => pending_requests'[id] = pending_requests[id]
      BY <1>0, <1>2, <1>5, <3>1 DEF TypeInv, LspOK
    <3>3. QED
      BY <1>0, <1>2, <1>5, <3>1, <3>2, LspStepTypeInv
  <2>2. CASE m.param \notin options_supported
    <3> DEFINE a == [type |-> "error", id |-> m.id]
    <3>1. a \in Answers /\ a.id = m.id /\ a.type = "error"
      BY <1>2 DEF Answers, Errors
    <3>2. to_client' = Append(to_client, a) /\ UNCHANGED <<outbound, pending_requests>>
      BY <1>5, <2>2 DEF handle_create_order_request, Answer
    <3> HIDE DEF a
    <3>3. LspOK'
      BY <1>0, <3>2 DEF TypeInv, LspOK
    <3>4. QED
      BY <1>0, <1>2, <3>1, <3>2, <3>3, LspStepTypeInv
  <2>3. QED
    BY <2>1, <2>2
<1>6. CASE m.method = "get_order" /\ handle_get_order_request(m)
  <2>1. /\ to_client' = to_client
        /\ \/ pending_requests' = [pending_requests EXCEPT ![m.id] = m.param]
           \/ pending_requests' = pending_requests
        /\ \/ outbound' = [outbound EXCEPT ![m.param].state = "WaitingPayment"]
           \/ outbound' = [outbound EXCEPT ![m.param].state = "gone"]
           \/ outbound' = outbound
    BY <1>6 DEF handle_get_order_request, insert
  <2>2. outbound' \in [OrderIds -> OutboundChannels]
    BY <1>2, <1>6, <2>1 DEF TypeInv, LspOK, OutboundChannels
  <2>3. LspOK' /\ (pending_requests'[m.id] \in {m.param, pending_requests[m.id]})
        /\ \A id \in Ids : id # m.id => pending_requests'[id] = pending_requests[id]
    BY <1>0, <1>2, <1>6, <2>1, <2>2 DEF TypeInv, LspOK
  <2>4. QED
    BY <1>0, <1>2, <1>6, <2>1, <2>3, LspStepTypeInv
<1>7. QED
  BY <1>3, <1>4, <1>5, <1>6

(* The answers of the LSP's application keep the types.                     *)
LEMMA ApplicationTypeInv ==
  ASSUME TypeInv, NEW id \in Ids
  PROVE  /\ send_payment_details(id) => TypeInv'
         /\ update_order_status(id) => TypeInv'
<1>0. id <= requests \/ pending_requests[id] = None
  BY DEF TypeInv, IdsAreOld
<1>1. ASSUME send_payment_details(id) PROVE TypeInv'
  <2>1. PICK o \in generate_order_id, fees_accepted \in BOOLEAN :
          /\ outbound' = [outbound EXCEPT ![o] = [state |-> "OrderCreated",
                                                  order |-> pending_requests[id]]]
          /\ Answer([type |-> "result", id |-> id, order |-> pending_requests[id],
                     order_id |-> o, fees_accepted |-> fees_accepted])
    BY <1>1 DEF send_payment_details
  <2> DEFINE a == [type |-> "result", id |-> id, order |-> pending_requests[id],
                   order_id |-> o, fees_accepted |-> fees_accepted]
  <2>2. /\ o \in OrderIds /\ pending_requests[id] \in Orders
        /\ pending_requests' = [pending_requests EXCEPT ![id] = None]
        /\ UNCHANGED <<client, options_supported, requests, to_lsp>>
    BY <1>1, <2>1 DEF send_payment_details, generate_order_id, remaining
  <2>3. a \in OrderAnswers /\ a \in Answers /\ a.id = id
    BY <2>2 DEF Answers, OrderAnswers
  <2>4. Fits(a, methods[a.id])
    BY <2>2, <2>3 DEF Fits, None, TypeInv, AnswersFit
  <2>5. to_client' = Append(to_client, a)
    BY <2>1 DEF Answer
  <2> HIDE DEF a
  <2>6. LspOK' /\ \A n \in Ids : pending_requests'[n] \in {pending_requests[n], None}
    BY <2>1, <2>2 DEF TypeInv, LspOK, OutboundChannels
  <2>7. id <= requests
    BY <1>0, <2>2, Constants
  <2>8. QED
    BY <2>2, <2>3, <2>4, <2>5, <2>6, <2>7, LspStepTypeInv
<1>2. ASSUME update_order_status(id) PROVE TypeInv'
  <2> DEFINE a == [type |-> "result", id |-> id]
  <2>1. /\ UNCHANGED <<client, lsp, requests, to_lsp>> /\ to_client' = Append(to_client, a)
        /\ pending_requests[id] \in OrderIds
    BY <1>2 DEF update_order_status, Answer
  <2>2. a \in StatusAnswers /\ a \in Answers /\ a.id = id
    BY DEF Answers, StatusAnswers
  <2>3. Fits(a, methods[a.id])
    BY <2>1, <2>2 DEF Fits, None, TypeInv, AnswersFit
  <2> HIDE DEF a
  <2>4. LspOK' /\ pending_requests' = pending_requests
    BY <2>1 DEF TypeInv, LspOK, lsp
  <2>5. id <= requests
    BY <1>0, <2>1, Constants
  <2>6. QED
    BY <2>1, <2>2, <2>3, <2>4, <2>5, LspStepTypeInv
<1>3. QED
  BY <1>1, <1>2

(* Failures keep the types.                                                 *)
LEMMA FailureTypeInv ==
  TypeInv /\ (Disconnect \/ RestartClient \/ RestartLSP) => TypeInv'
<1> SUFFICES ASSUME TypeInv, Disconnect \/ RestartClient \/ RestartLSP PROVE TypeInv'
  OBVIOUS
<1>1. NetOK' /\ requests' = requests /\ DOMAIN to_lsp' = {} /\ DOMAIN to_client' = {}
  <2>1. to_lsp' = <<>> /\ to_client' = <<>> /\ requests' = requests
    BY DEF Disconnect, RestartClient, RestartLSP, Fail
  <2>2. <<>> \in Seq(Requests) /\ <<>> \in Seq(Answers) /\ DOMAIN <<>> = {}
    BY EmptyTypes
  <2>3. QED
    BY <2>1, <2>2 DEF TypeInv, NetOK
<1>2. CASE Disconnect
  BY <1>1, <1>2 DEF TypeInv, Disconnect, client, lsp, ClientOK, LspOK, OrderedOK,
                    IdsAreOld, AnswersFit
<1>3. CASE RestartClient
  <2>1. NoInbound \in InboundChannels /\ NoInbound.state = "none"
    BY DEF NoInbound, Inbound, InboundChannels, None
  <2>2. ClientOK' /\ OrderedOK'
    BY <1>3, <2>1 DEF RestartClient, ClientOK, OrderedOK
  <2>3. LspOK' /\ pending_requests' = pending_requests
    BY <1>3 DEF RestartClient, TypeInv, LspOK, lsp
  <2>4. AnswersFit'
    BY <1>1, <1>3 DEF RestartClient, AnswersFit
  <2>5. IdsAreOld'
    BY <1>1, <2>3 DEF TypeInv, IdsAreOld
  <2>6. QED
    BY <1>1, <2>2, <2>3, <2>4, <2>5 DEF TypeInv
<1>4. CASE RestartLSP
  <2>1. ClientOK' /\ OrderedOK'
    BY <1>4 DEF RestartLSP, TypeInv, ClientOK, OrderedOK, client
  <2>2. options_supported' \in SUBSET Orders
    BY <1>4, LSPS1OrdersAssumption DEF RestartLSP
  <2>3. outbound' \in [OrderIds -> OutboundChannels]
    BY <1>4 DEF RestartLSP, TypeInv, LspOK, OutboundChannels
  <2>4. /\ pending_requests' = [id \in Ids |-> None]
        /\ LspOK'
    BY <1>4, <2>2, <2>3 DEF RestartLSP, LspOK
  <2>5. AnswersFit' /\ IdsAreOld'
    BY <1>1, <2>4, Constants DEF AnswersFit, IdsAreOld
  <2>6. QED
    BY <1>1, <2>1, <2>4, <2>5 DEF TypeInv
<1>5. QED
  BY <1>2, <1>3, <1>4

(* Every step keeps the types.                                              *)
LEMMA NextTypeInv == TypeInv /\ [Next]_vars => TypeInv'
<1> SUFFICES ASSUME TypeInv, [Next]_vars PROVE TypeInv'
  OBVIOUS
<1>1. CASE UNCHANGED vars
  BY <1>1 DEF vars, client, lsp, net, TypeInv, ClientOK, LspOK, NetOK, OrderedOK,
              IdsAreOld, AnswersFit
<1>2. ASSUME Next PROVE TypeInv'
  BY <1>2, ApiTypeInv, ClientTypeInv, LspTypeInv, ApplicationTypeInv, FailureTypeInv
     DEF Next
<1>3. QED
  BY <1>1, <1>2

(* The types hold throughout.                                               *)
LEMMA TypeInvHolds == Spec => []TypeInv
  BY InitTypeInv, NextTypeInv, PTL DEF Spec

-----------------------------------------------------------------------------
(* What the steps do to messages.                                           *)

(* The client takes the first answer, which fits; the others move up.       *)
LEMMA TakenByClient ==
  ASSUME TypeInv, client_handle_custom_message
  PROVE  /\ 1 \in DOMAIN to_client /\ Head(to_client) = to_client[1]
         /\ Head(to_client) \in Answers
         /\ Head(to_client).type = "result"
              => Fits(Head(to_client), methods[Head(to_client).id])
         /\ \A i \in DOMAIN to_client' :
              /\ i + 1 \in DOMAIN to_client /\ i + 1 # 1
              /\ to_client'[i] = to_client[i + 1]
         /\ \A i, j \in DOMAIN to_client' : i + 1 = j + 1 => i = j
<1>1. /\ to_client \in Seq(Answers) /\ to_client # <<>> /\ to_client' = Tail(to_client)
  BY DEF TypeInv, NetOK, client_handle_custom_message
<1>2. /\ 1 \in DOMAIN to_client /\ Head(to_client) = to_client[1]
      /\ Head(to_client) \in Answers
      /\ \A i \in DOMAIN to_client' :
           /\ i + 1 \in DOMAIN to_client /\ i + 1 # 1
           /\ to_client'[i] = to_client[i + 1]
      /\ \A i, j \in DOMAIN to_client' : i + 1 = j + 1 => i = j
  BY <1>1, TailElements
<1>3. QED
  BY <1>2 DEF TypeInv, AnswersFit

(* The LSP takes the first request; the others move up.                     *)
LEMMA TakenByLsp ==
  ASSUME TypeInv, lsp_handle_custom_message
  PROVE  /\ 1 \in DOMAIN to_lsp /\ Head(to_lsp) = to_lsp[1]
         /\ Head(to_lsp) \in Requests
         /\ \A i \in DOMAIN to_lsp' :
              /\ i + 1 \in DOMAIN to_lsp /\ i + 1 # 1
              /\ to_lsp'[i] = to_lsp[i + 1]
         /\ \A i, j \in DOMAIN to_lsp' : i + 1 = j + 1 => i = j
         /\ LET m == Head(to_lsp)
            IN  \/ m.method = "get_info" /\ handle_get_info_request(m)
                \/ m.method = "create_order" /\ handle_create_order_request(m)
                \/ m.method = "get_order" /\ handle_get_order_request(m)
<1>1. /\ to_lsp \in Seq(Requests) /\ to_lsp # <<>> /\ to_lsp' = Tail(to_lsp)
  BY DEF TypeInv, NetOK, lsp_handle_custom_message
<1>2. /\ 1 \in DOMAIN to_lsp /\ Head(to_lsp) = to_lsp[1]
      /\ Head(to_lsp) \in Requests
      /\ \A i \in DOMAIN to_lsp' :
           /\ i + 1 \in DOMAIN to_lsp /\ i + 1 # 1
           /\ to_lsp'[i] = to_lsp[i + 1]
      /\ \A i, j \in DOMAIN to_lsp' : i + 1 = j + 1 => i = j
  BY <1>1, TailElements
<1>3. Head(to_lsp).method \in Methods
  BY <1>2, RequestTypes
<1>4. QED
  BY <1>2, <1>3 DEF lsp_handle_custom_message, Methods

(* An answer goes last.                                                     *)
LEMMA AnswerAppended ==
  ASSUME TypeInv, NEW m \in Answers, Answer(m)
  PROVE  /\ \A i \in DOMAIN to_client' :
              \/ i \in DOMAIN to_client /\ to_client'[i] = to_client[i]
              \/ i = Len(to_client) + 1 /\ to_client'[i] = m
         /\ Len(to_client) + 1 \notin DOMAIN to_client
<1>1. to_client \in Seq(Answers) /\ to_client' = Append(to_client, m)
  BY DEF TypeInv, NetOK, Answer
<1>2. Len(to_client) + 1 \notin DOMAIN to_client
  BY <1>1
<1>3. QED
  BY <1>1, <1>2, AppendElements

(* A failure loses the messages, and undoes nothing else that counts.       *)
LEMMA NetEmptied ==
  ASSUME Disconnect \/ RestartClient \/ RestartLSP
  PROVE  /\ DOMAIN to_lsp' = {} /\ DOMAIN to_client' = {}
         /\ failures \subseteq failures'
         /\ refunded' = refunded /\ refused' = refused /\ answered' = answered
         /\ RestartClient => "client" \in failures'
         /\ RestartLSP => "LSP" \in failures'
<1>1. to_lsp' = <<>> /\ to_client' = <<>>
  BY DEF Disconnect, RestartClient, RestartLSP, Fail
<1>2. DOMAIN <<>> = {}
  BY EmptyTypes
<1>3. QED
  BY <1>1, <1>2 DEF Disconnect, RestartClient, RestartLSP, Fail, lsp

-----------------------------------------------------------------------------
(* Options: what the client knows of them, and what it orders by them.      *)

(* The client orders by the options it was given.                           *)
LEMMA OptionsOfApi ==
  ASSUME TypeInv, OptionsInv, "LSP" \notin failures, NEW c \in Channels,
         \/ send_get_info_request(c)
         \/ \E order \in Orders : place_order(c, order)
         \/ check_order_status(c)
  PROVE  OptionsInv'
<1> USE DEF Methods
<1>0. /\ inbound \in [Channels -> InboundChannels]
      /\ NoInbound.options = {}
  BY DEF TypeInv, ClientOK, NoInbound, Inbound
<1>1. ASSUME Remove(c), UNCHANGED <<lsp, net, failures>> PROVE OptionsInv'
  <2>1. \A d \in Channels : inbound'[d].options \subseteq options_supported
    BY <1>0, <1>1 DEF Remove, Become, OptionsInv
  <2>2. QED
    BY <1>1, <2>1 DEF OptionsInv, lsp, net
<1>2. ASSUME NEW method \in Methods, NEW param,
             \A id \in Ids : [method |-> method, id |-> id, param |-> param] \in Requests,
             Send(c, method, param), UNCHANGED <<lsp, to_client, failures>>,
             \A d \in Channels : inbound'[d].options \subseteq options_supported,
             method = "create_order" => param \in options_supported
      PROVE  OptionsInv'
  <2>1. \A i \in DOMAIN to_lsp' :
          \/ i \in DOMAIN to_lsp /\ to_lsp'[i] = to_lsp[i]
          \/ to_lsp'[i] = [method |-> method, id |-> requests', param |-> param]
    BY <1>2, SendTypes
  <2>2. \A i \in DOMAIN to_lsp' :
          to_lsp'[i].method = "create_order" => to_lsp'[i].param \in options_supported
    BY <1>2, <2>1 DEF OptionsInv
  <2>3. QED
    BY <1>2, <2>2 DEF OptionsInv, lsp
<1>3. CASE send_get_info_request(c)
  <2>1. \A id \in Ids : [method |-> "get_info", id |-> id, param |-> None] \in Requests
    BY DEF Requests
  <2>2. \A d \in Channels : inbound'[d].options \subseteq options_supported
    BY <1>0, <1>3 DEF send_get_info_request, Become, Inbound, OptionsInv
  <2>3. QED
    BY <1>2, <1>3, <2>1, <2>2 DEF send_get_info_request
<1>4. ASSUME NEW order \in Orders, place_order(c, order) PROVE OptionsInv'
  <2>1. CASE order_requested(inbound[c], order)
    <3>1. \A id \in Ids : [method |-> "create_order", id |-> id, param |-> order] \in Requests
      BY DEF Requests
    <3>2. \A d \in Channels : inbound'[d].options \subseteq options_supported
      BY <1>0, <1>4, <2>1 DEF place_order, Become, Inbound, OptionsInv
    <3>3. order \in options_supported
      BY <2>1 DEF order_requested, OptionsInv
    <3>4. QED
      BY <1>2, <1>4, <2>1, <3>1, <3>2, <3>3 DEF place_order
  <2>2. CASE ~order_requested(inbound[c], order)
    BY <1>1, <1>4, <2>2 DEF place_order, net
  <2>3. QED
    BY <2>1, <2>2
<1>5. CASE check_order_status(c)
  <2>1. CASE pay_for_channel(inbound[c])
    <3>0. inbound[c].order_id \in OrderIds
      BY <2>1 DEF TypeInv, OrderedOK, pay_for_channel
    <3>1. \A id \in Ids : [method |-> "get_order", id |-> id,
                           param |-> inbound[c].order_id] \in Requests
      BY <3>0 DEF Requests
    <3>2. \A d \in Channels : inbound'[d].options \subseteq options_supported
      BY <1>0, <1>5, <2>1 DEF check_order_status, Become, InboundChannels, OptionsInv
    <3>3. QED
      BY <1>2, <1>5, <2>1, <3>1, <3>2 DEF check_order_status
  <2>2. CASE ~pay_for_channel(inbound[c])
    BY <1>1, <1>5, <2>2 DEF check_order_status, net
  <2>3. QED
    BY <2>1, <2>2
<1>6. QED
  BY <1>3, <1>4, <1>5

(* The client takes its options from the LSP's answer.                      *)
LEMMA OptionsOfClient ==
  ASSUME TypeInv, OptionsInv, "LSP" \notin failures, client_handle_custom_message
  PROVE  OptionsInv'
<1> DEFINE m == Head(to_client)
           c == request_to_cid[m.id]
<1>1. /\ 1 \in DOMAIN to_client /\ m = to_client[1] /\ m \in Answers
      /\ m.type = "result" => Fits(m, methods[m.id])
      /\ \A i \in DOMAIN to_client' :
           i + 1 \in DOMAIN to_client /\ to_client'[i] = to_client[i + 1]
  BY TakenByClient
<1>2. m \in InfoAnswers => m.options \subseteq options_supported
  BY <1>1 DEF OptionsInv
<1>3. UNCHANGED <<lsp, to_lsp, failures>>
  BY DEF client_handle_custom_message
<1>5. /\ m.id \in Ids /\ c \in Channels \cup {None} /\ inbound \in [Channels -> InboundChannels]
      /\ methods[m.id] \in Methods \cup {None}
  BY <1>1, AnswerTypes DEF TypeInv, ClientOK
<1>4. \/ inbound' = inbound
      \/ c # None /\ info_received(c, m) /\ m \in InfoAnswers
      \/ c # None /\ order_received(c, m)
  <2>1. CASE ignores_lsp \/ methods[m.id] = None
    BY <2>1 DEF client_handle_custom_message, client
  <2>2. CASE ~ignores_lsp /\ methods[m.id] # None
    <3>1. handle_answer(m)
      BY <2>2 DEF client_handle_custom_message
    <3> HIDE DEF m
    <3>2. CASE c = None \/ m.type # "result" \/ inbound[c].state = None
      BY <3>1, <3>2 DEF handle_answer
    <3>3. CASE ~(c = None \/ m.type # "result" \/ inbound[c].state = None)
      BY <1>1, <1>5, <2>2, <3>1, <3>3 DEF handle_answer, Fits, Methods
    <3>4. QED
      BY <3>2, <3>3
  <2>3. QED
    BY <2>1, <2>2
<1> HIDE DEF m, c
<1>6. ASSUME NEW d \in Channels PROVE inbound'[d].options \subseteq options_supported
  <2>0. inbound[d].options \subseteq options_supported
    BY DEF OptionsInv
  <2>1. CASE inbound' = inbound
    BY <2>0, <2>1
  <2>2. CASE c # None /\ info_received(c, m) /\ m \in InfoAnswers
    BY <1>2, <1>5, <2>0, <2>2 DEF info_received, Become, Remove, Inbound, NoInbound
  <2>3. CASE c # None /\ order_received(c, m)
    <3>1. \/ Become(c, [inbound[c] EXCEPT !.state = "PendingPayment",
                                          !.order_id = m.order_id])
          \/ Become(c, NoInbound)
      BY <2>3 DEF order_received, Remove
    <3>2. /\ [inbound[c] EXCEPT !.state = "PendingPayment",
                                !.order_id = m.order_id].options = inbound[c].options
          /\ NoInbound.options = {}
      BY <1>5, <2>3 DEF InboundChannels, NoInbound, Inbound
    <3>3. inbound'[d] \in {inbound[d], [inbound[c] EXCEPT !.state = "PendingPayment",
                                        !.order_id = m.order_id], NoInbound}
          /\ (d # c => inbound'[d] = inbound[d])
      BY <1>5, <2>3, <3>1 DEF Become
    <3>4. QED
      BY <2>0, <3>2, <3>3
  <2>4. QED
    BY <1>4, <2>1, <2>2, <2>3
<1>7. \A i \in DOMAIN to_client' :
        to_client'[i] \in InfoAnswers => to_client'[i].options \subseteq options_supported
  BY <1>1 DEF OptionsInv
<1>8. QED
  BY <1>3, <1>6, <1>7 DEF OptionsInv, lsp

(* The LSP answers with its options, and refuses nothing they allow.        *)
LEMMA OptionsOfLsp ==
  ASSUME TypeInv, OptionsInv, "LSP" \notin failures, lsp_handle_custom_message
  PROVE  OptionsInv'
<1> DEFINE m == Head(to_lsp)
<1>1. /\ 1 \in DOMAIN to_lsp /\ m = to_lsp[1] /\ m \in Requests
      /\ \A i \in DOMAIN to_lsp' : i + 1 \in DOMAIN to_lsp /\ to_lsp'[i] = to_lsp[i + 1]
      /\ \/ m.method = "get_info" /\ handle_get_info_request(m)
         \/ m.method = "create_order" /\ handle_create_order_request(m)
         \/ m.method = "get_order" /\ handle_get_order_request(m)
  BY TakenByLsp
<1>2. UNCHANGED <<inbound, options_supported, failures>>
  BY DEF lsp_handle_custom_message, client
<1>3. m.id \in Ids /\ (m.method = "create_order" => m.param \in options_supported)
  BY <1>1, RequestTypes DEF OptionsInv
<1> HIDE DEF m
<1>4. /\ refused' = refused
      /\ \A i \in DOMAIN to_client' : to_client'[i] \in InfoAnswers
            => to_client'[i].options \subseteq options_supported
  <2>1. CASE m.method = "get_info" /\ handle_get_info_request(m)
    <3> DEFINE a == [type |-> "result", id |-> m.id, options |-> options_supported]
    <3>1. a \in Answers /\ a.options = options_supported
      BY <1>3 DEF Answers, InfoAnswers, TypeInv, LspOK
    <3>2. Answer(a) /\ refused' = refused
      BY <2>1 DEF handle_get_info_request
    <3> HIDE DEF a
    <3>3. \A i \in DOMAIN to_client' :
              \/ i \in DOMAIN to_client /\ to_client'[i] = to_client[i]
              \/ to_client'[i] = a
      BY <3>1, <3>2, AnswerAppended
    <3>4. QED
      BY <3>1, <3>2, <3>3 DEF OptionsInv
  <2>2. CASE m.method = "create_order" /\ handle_create_order_request(m)
    BY <1>3, <2>2 DEF handle_create_order_request, OptionsInv
  <2>3. CASE m.method = "get_order" /\ handle_get_order_request(m)
    BY <2>3 DEF handle_get_order_request, OptionsInv
  <2>4. QED
    BY <1>1, <2>1, <2>2, <2>3
<1>5. \A i \in DOMAIN to_lsp' :
        to_lsp'[i].method = "create_order" => to_lsp'[i].param \in options_supported
  BY <1>1 DEF OptionsInv
<1>6. QED
  BY <1>2, <1>4, <1>5 DEF OptionsInv

(* The application's answers have nothing to do with options.               *)
LEMMA OptionsOfApplication ==
  ASSUME TypeInv, OptionsInv, "LSP" \notin failures, NEW id \in Ids,
         send_payment_details(id) \/ update_order_status(id)
  PROVE  OptionsInv'
<1>1. UNCHANGED <<inbound, options_supported, refused, to_lsp>>
  BY DEF send_payment_details, update_order_status, client, lsp
<1>2. PICK a \in Answers : Answer(a) /\ a \notin InfoAnswers
  <2>1. CASE send_payment_details(id)
    <3>1. PICK o \in generate_order_id, fees_accepted \in BOOLEAN :
            Answer([type |-> "result", id |-> id, order |-> pending_requests[id],
                    order_id |-> o, fees_accepted |-> fees_accepted])
      BY <2>1 DEF send_payment_details
    <3>2. o \in OrderIds /\ pending_requests[id] \in Orders
      BY <2>1, <3>1 DEF send_payment_details, generate_order_id
    <3> DEFINE a == [type |-> "result", id |-> id, order |-> pending_requests[id],
                     order_id |-> o, fees_accepted |-> fees_accepted]
    <3>3. a \in Answers
      BY <3>2 DEF Answers, OrderAnswers
    <3>4. a \notin InfoAnswers
      BY DEF InfoAnswers
    <3>5. QED
      BY <3>1, <3>3, <3>4
  <2>2. CASE update_order_status(id)
    <3> DEFINE a == [type |-> "result", id |-> id]
    <3>1. a \in Answers
      BY DEF Answers, StatusAnswers
    <3>2. a \notin InfoAnswers
      BY DEF InfoAnswers
    <3>3. Answer(a)
      BY <2>2 DEF update_order_status
    <3>4. QED
      BY <3>1, <3>2, <3>3
  <2>3. QED
    BY <2>1, <2>2
<1>3. \A i \in DOMAIN to_client' :
              \/ i \in DOMAIN to_client /\ to_client'[i] = to_client[i]
              \/ to_client'[i] = a
  BY <1>2, AnswerAppended
<1>4. QED
  BY <1>1, <1>2, <1>3 DEF OptionsInv

(* What has failed stays recorded.                                          *)
LEMMA FailuresStay == [Next]_vars => failures \subseteq failures'
BY DEF Next, vars, send_get_info_request, place_order, check_order_status,
       client_handle_custom_message, lsp_handle_custom_message, send_payment_details,
       update_order_status, Disconnect, RestartClient, RestartLSP, Fail

(* Every step keeps the invariant of the options.                           *)
LEMMA NextOptionsInv == TypeInv /\ OptionsInv /\ [Next]_vars => OptionsInv'
<1> SUFFICES ASSUME TypeInv, OptionsInv, [Next]_vars, "LSP" \notin failures'
             PROVE  OptionsInv'
  BY DEF OptionsInv
<1>0. "LSP" \notin failures
  BY FailuresStay
<1>1. CASE UNCHANGED vars
  BY <1>1 DEF vars, client, lsp, net, OptionsInv
<1>2. CASE Disconnect \/ RestartClient \/ RestartLSP
  <2>1. /\ DOMAIN to_lsp' = {} /\ DOMAIN to_client' = {}
        /\ refused' = refused /\ ~RestartLSP
    BY <1>2, NetEmptied
  <2>2. options_supported' = options_supported
    BY <1>2, <2>1 DEF Disconnect, RestartClient, lsp
  <2>3. \A c \in Channels : inbound'[c].options \subseteq options_supported
    BY <1>0, <1>2, <2>1 DEF Disconnect, RestartClient, client, NoInbound, Inbound, OptionsInv
  <2>4. QED
    BY <1>0, <2>1, <2>2, <2>3 DEF OptionsInv
<1>3. ASSUME Next PROVE OptionsInv'
  BY <1>0, <1>2, <1>3, OptionsOfApi, OptionsOfClient, OptionsOfLsp, OptionsOfApplication
     DEF Next
<1>4. QED
  BY <1>1, <1>3

-----------------------------------------------------------------------------
(* Request ids: each has one answer at most, and the client waits for it.   *)

(* An id in use is not the next one.                                        *)
LEMMA IdsInUse ==
  ASSUME TypeInv
  PROVE  /\ \A i \in DOMAIN to_lsp : to_lsp[i].id \in Ids /\ to_lsp[i].id <= requests
         /\ \A i \in DOMAIN to_client : to_client[i].id \in Ids /\ to_client[i].id <= requests
         /\ \A id \in Ids : id \in Unanswered => id <= requests
         /\ \A id \in Ids : id # requests + 1 \/ ~(id <= requests)
<1>1. \A i \in DOMAIN to_lsp : to_lsp[i].id \in Ids
  BY RequestTypes DEF TypeInv, NetOK
<1>2. \A i \in DOMAIN to_client : to_client[i].id \in Ids
  BY AnswerTypes DEF TypeInv, NetOK
<1>3. requests \in Nat
  BY DEF TypeInv, NetOK
<1>4. \A id \in Ids : id # requests + 1 \/ ~(id <= requests)
  BY <1>3, Constants
<1>5. \A id \in Ids : id \in Unanswered => id <= requests
  BY Constants DEF TypeInv, IdsAreOld, Unanswered
<1>6. QED
  BY <1>1, <1>2, <1>4, <1>5 DEF TypeInv, IdsAreOld

(* A request with a new id is the only use of it.                           *)
LEMMA TokensOfSend ==
  ASSUME TypeInv, ~ignores_lsp, Sent, Answered, Waiting,
         NEW c \in Channels, NEW method \in Methods, NEW param,
         \A id \in Ids : [method |-> method, id |-> id, param |-> param] \in Requests,
         Send(c, method, param), UNCHANGED <<ignores_lsp, lsp, answered, to_client>>
  PROVE  ~ignores_lsp' /\ Sent' /\ Answered' /\ Waiting'
<1>1. /\ requests' = requests + 1 /\ requests' \in Ids
      /\ \A i \in DOMAIN to_lsp' :
           \/ i \in DOMAIN to_lsp /\ to_lsp'[i] = to_lsp[i]
           \/ /\ i = Len(to_lsp) + 1
              /\ to_lsp'[i] = [method |-> method, id |-> requests', param |-> param]
      /\ \A id \in Ids : id # requests' => methods'[id] = methods[id]
      /\ methods'[requests'] = method
  BY SendTypes
<1>2. /\ \A i \in DOMAIN to_lsp : to_lsp[i].id \in Ids /\ to_lsp[i].id # requests'
      /\ \A i \in DOMAIN to_client : to_client[i].id \in Ids /\ to_client[i].id # requests'
      /\ \A id \in Ids : id \in Unanswered => id # requests'
  BY <1>1, IdsInUse
<1>3. method # None
  BY DEF Methods, None
<1>4. \A id \in Ids : (id \in Unanswered') <=> id \in Unanswered
  BY DEF Unanswered, lsp
<1>5. ASSUME NEW i \in DOMAIN to_lsp'
      PROVE  /\ methods'[to_lsp'[i].id] # None
             /\ to_lsp'[i].id \notin Unanswered'
             /\ \A j \in DOMAIN to_client' : to_client'[j].id # to_lsp'[i].id
             /\ \A j \in DOMAIN to_lsp' : to_lsp'[j].id = to_lsp'[i].id => j = i
  <2>1. CASE i \in DOMAIN to_lsp /\ to_lsp'[i] = to_lsp[i]
    <3>1. /\ methods'[to_lsp[i].id] # None
          /\ to_lsp[i].id \notin Unanswered
          /\ \A j \in DOMAIN to_client : to_client[j].id # to_lsp[i].id
      BY <1>1, <1>2, <2>1 DEF Sent
    <3>2. ASSUME NEW j \in DOMAIN to_lsp', to_lsp'[j].id = to_lsp'[i].id PROVE j = i
      BY <1>1, <1>2, <2>1, <3>2 DEF Sent
    <3>3. to_lsp'[i].id \notin Unanswered'
      BY <1>4, <2>1, <3>1 DEF Unanswered
    <3>4. QED
      BY <2>1, <3>1, <3>2, <3>3
  <2>2. CASE /\ i = Len(to_lsp) + 1
             /\ to_lsp'[i] = [method |-> method, id |-> requests', param |-> param]
    <3>1. to_lsp'[i].id = requests'
      BY <2>2
    <3>2. requests' \notin Unanswered /\ to_lsp'[i].id \notin Unanswered'
      BY <1>1, <1>2, <1>4, <3>1 DEF Unanswered
    <3>3. \A j \in DOMAIN to_lsp' : to_lsp'[j].id = to_lsp'[i].id => j = i
      BY <1>1, <1>2, <2>2, <3>1
    <3>4. QED
      BY <1>1, <1>2, <1>3, <3>1, <3>2, <3>3
  <2>3. QED
    BY <1>1, <2>1, <2>2
<1>6. Answered'
  BY <1>1, <1>2 DEF Answered
<1>7. Waiting'
  BY <1>1, <1>2, <1>4 DEF Waiting
<1>8. QED
  BY <1>5, <1>6, <1>7 DEF Sent

(* The calls of the client keep the invariant of the request ids.           *)
LEMMA TokensOfApi ==
  ASSUME TypeInv, ~ignores_lsp, Sent, Answered, Waiting, NEW c \in Channels,
         \/ send_get_info_request(c)
         \/ \E order \in Orders : place_order(c, order)
         \/ check_order_status(c)
  PROVE  ~ignores_lsp' /\ Sent' /\ Answered' /\ Waiting'
<1> USE DEF Methods
<1>1. ASSUME UNCHANGED <<methods, ignores_lsp, lsp, answered, net>>
      PROVE  ~ignores_lsp' /\ Sent' /\ Answered' /\ Waiting'
  BY <1>1 DEF lsp, net, Sent, Answered, Waiting, Unanswered
<1>2. CASE send_get_info_request(c)
  <2>1. \A id \in Ids : [method |-> "get_info", id |-> id, param |-> None] \in Requests
    BY DEF Requests
  <2>2. QED
    BY <1>2, <2>1, TokensOfSend DEF send_get_info_request
<1>3. ASSUME NEW order \in Orders, place_order(c, order)
      PROVE  ~ignores_lsp' /\ Sent' /\ Answered' /\ Waiting'
  <2>1. \A id \in Ids : [method |-> "create_order", id |-> id, param |-> order] \in Requests
    BY DEF Requests
  <2>2. CASE order_requested(inbound[c], order)
    BY <1>3, <2>1, <2>2, TokensOfSend DEF place_order
  <2>3. CASE ~order_requested(inbound[c], order)
    BY <1>1, <1>3, <2>3 DEF place_order, net
  <2>4. QED
    BY <2>2, <2>3
<1>4. CASE check_order_status(c)
  <2>1. CASE pay_for_channel(inbound[c])
    <3>0. inbound[c].order_id \in OrderIds
      BY <2>1 DEF TypeInv, OrderedOK, pay_for_channel
    <3>1. \A id \in Ids : [method |-> "get_order", id |-> id,
                           param |-> inbound[c].order_id] \in Requests
      BY <3>0 DEF Requests
    <3>2. QED
      BY <1>4, <2>1, <3>1, TokensOfSend DEF check_order_status
  <2>2. CASE ~pay_for_channel(inbound[c])
    BY <1>1, <1>4, <2>2 DEF check_order_status, net
  <2>3. QED
    BY <2>1, <2>2
<1>5. QED
  BY <1>2, <1>3, <1>4

(* The id of an answer that is handled is used up.                          *)
LEMMA TokensOfClient ==
  ASSUME TypeInv, ~ignores_lsp, Sent, Answered, Waiting, client_handle_custom_message
  PROVE  ~ignores_lsp' /\ Sent' /\ Answered' /\ Waiting'
<1> DEFINE m == Head(to_client)
<1>1. /\ 1 \in DOMAIN to_client /\ m = to_client[1] /\ m \in Answers
      /\ \A i \in DOMAIN to_client' :
           /\ i + 1 \in DOMAIN to_client /\ i + 1 # 1
           /\ to_client'[i] = to_client[i + 1]
      /\ \A i, j \in DOMAIN to_client' : i + 1 = j + 1 => i = j
  BY TakenByClient
<1>2. /\ methods' = [methods EXCEPT ![m.id] = None]
      /\ ignores_lsp' = ~(methods[m.id] # None)
      /\ UNCHANGED <<lsp, answered, to_lsp>>
  BY DEF client_handle_custom_message
<1> HIDE DEF m
<1>3. m.id \in Ids /\ methods[m.id] # None
  BY <1>1, AnswerTypes DEF Answered
<1>4. \A id \in Ids : id # m.id => methods'[id] = methods[id]
  BY <1>2, <1>3 DEF TypeInv, ClientOK
<1>5. \A id \in Ids : (id \in Unanswered') <=> id \in Unanswered
  BY <1>2 DEF Unanswered, lsp
<1>6. Sent'
  <2> SUFFICES ASSUME NEW i \in DOMAIN to_lsp
               PROVE  /\ methods'[to_lsp[i].id] # None
                      /\ to_lsp[i].id \notin Unanswered
                      /\ \A j \in DOMAIN to_client' : to_client'[j].id # to_lsp[i].id
                      /\ \A j \in DOMAIN to_lsp : to_lsp[j].id = to_lsp[i].id => j = i
    BY <1>2, <1>5 DEF Sent, Unanswered, lsp
  <2>1. to_lsp[i].id \in Ids /\ to_lsp[i].id # m.id
    BY <1>1, IdsInUse DEF Sent
  <2>2. QED
    BY <1>1, <1>4, <2>1 DEF Sent
<1>7. Answered'
  <2> SUFFICES ASSUME NEW i \in DOMAIN to_client'
               PROVE  /\ methods'[to_client'[i].id] # None
                      /\ \A j \in DOMAIN to_client' : to_client'[j].id = to_client'[i].id
                                                      => j = i
    BY DEF Answered
  <2>1. to_client'[i].id \in Ids /\ to_client'[i].id # m.id
    BY <1>1, IdsInUse DEF Answered
  <2>2. methods'[to_client'[i].id] # None
    BY <1>1, <1>4, <2>1 DEF Answered
  <2>3. ASSUME NEW j \in DOMAIN to_client', to_client'[j].id = to_client'[i].id PROVE j = i
    BY <1>1, <2>3 DEF Answered
  <2>4. QED
    BY <2>2, <2>3
<1>8. Waiting'
  BY <1>1, <1>4, <1>5 DEF Waiting
<1>9. QED
  BY <1>2, <1>3, <1>6, <1>7, <1>8

(* The LSP answers a request that is not answered yet: any of its steps.    *)
LEMMA TokensOfAnswer ==
  ASSUME TypeInv, Answered, Waiting, NEW m \in Answers, Answer(m),
         methods[m.id] # None, \A i \in DOMAIN to_client : to_client[i].id # m.id,
         UNCHANGED methods,
         \A id \in Ids : id \in Unanswered' => id \in Unanswered /\ id # m.id
  PROVE  Answered' /\ Waiting'
<1>1. /\ \A i \in DOMAIN to_client' :
           \/ i \in DOMAIN to_client /\ to_client'[i] = to_client[i]
           \/ i = Len(to_client) + 1 /\ to_client'[i] = m
  BY AnswerAppended
<1>2. Answered'
  BY <1>1 DEF Answered
<1>3. Waiting'
  BY <1>1 DEF Waiting
<1>4. QED
  BY <1>2, <1>3

(* An answer of the application replaces its pending request.               *)
LEMMA TokensOfApplication ==
  ASSUME TypeInv, ~ignores_lsp, Sent, Answered, Waiting, NEW id \in Ids,
         send_payment_details(id) \/ update_order_status(id),
         "repeat" \notin failures'
  PROVE  ~ignores_lsp' /\ Sent' /\ Answered' /\ Waiting'
<1>1. UNCHANGED <<methods, ignores_lsp, to_lsp>> /\ id \in Unanswered
  BY DEF send_payment_details, update_order_status, client, lsp, Unanswered
<1>2. /\ \A n \in Ids : n \in Unanswered' => n \in Unanswered /\ n # id
  <2>1. CASE send_payment_details(id)
    BY <2>1, Constants DEF send_payment_details, remaining, Unanswered, TypeInv, LspOK
  <2>2. CASE update_order_status(id)
    BY <2>2, Constants DEF update_order_status, Unanswered, lsp
  <2>3. QED
    BY <2>1, <2>2
<1>3. PICK a \in Answers : Answer(a) /\ a.id = id
  <2>1. CASE send_payment_details(id)
    <3>1. PICK o \in generate_order_id, fees_accepted \in BOOLEAN :
            Answer([type |-> "result", id |-> id, order |-> pending_requests[id],
                    order_id |-> o, fees_accepted |-> fees_accepted])
      BY <2>1 DEF send_payment_details
    <3>2. o \in OrderIds /\ pending_requests[id] \in Orders
      BY <2>1, <3>1 DEF send_payment_details, generate_order_id
    <3> DEFINE a == [type |-> "result", id |-> id, order |-> pending_requests[id],
                     order_id |-> o, fees_accepted |-> fees_accepted]
    <3>3. a \in Answers /\ a.id = id
      BY <3>2 DEF Answers, OrderAnswers
    <3>4. QED
      BY <3>1, <3>3
  <2>2. CASE update_order_status(id)
    <3> DEFINE a == [type |-> "result", id |-> id]
    <3>1. a \in Answers /\ a.id = id
      BY DEF Answers, StatusAnswers
    <3>2. Answer(a)
      BY <2>2 DEF update_order_status
    <3>3. QED
      BY <3>1, <3>2
  <2>3. QED
    BY <2>1, <2>2
<1>4. Answered' /\ Waiting'
  BY <1>1, <1>2, <1>3, TokensOfAnswer DEF Waiting
<1>5. \A i \in DOMAIN to_client' :
        \/ i \in DOMAIN to_client /\ to_client'[i] = to_client[i]
        \/ to_client'[i].id = id
  BY <1>3, AnswerAppended
<1>6. Sent'
  <2> SUFFICES ASSUME NEW i \in DOMAIN to_lsp
               PROVE  /\ methods[to_lsp[i].id] # None
                      /\ to_lsp[i].id \notin Unanswered'
                      /\ \A j \in DOMAIN to_client' : to_client'[j].id # to_lsp[i].id
                      /\ \A j \in DOMAIN to_lsp : to_lsp[j].id = to_lsp[i].id => j = i
    BY <1>1 DEF Sent, Unanswered
  <2>1. to_lsp[i].id \in Ids /\ to_lsp[i].id \notin Unanswered
    BY IdsInUse DEF Sent
  <2>2. to_lsp[i].id \notin Unanswered'
    BY <1>2, <2>1
  <2>3. QED
    BY <1>1, <1>5, <2>1, <2>2 DEF Sent
<1>7. QED
  BY <1>1, <1>4, <1>6

(* A request is replaced by its answer, or waits for it.                    *)
LEMMA TokensOfLsp ==
  ASSUME TypeInv, ~ignores_lsp, Sent, Answered, Waiting, lsp_handle_custom_message
  PROVE  ~ignores_lsp' /\ Sent' /\ Answered' /\ Waiting'
<1> DEFINE m == Head(to_lsp)
<1>1. /\ 1 \in DOMAIN to_lsp /\ m = to_lsp[1] /\ m \in Requests
      /\ \A i \in DOMAIN to_lsp' :
           /\ i + 1 \in DOMAIN to_lsp /\ i + 1 # 1
           /\ to_lsp'[i] = to_lsp[i + 1]
      /\ \A i, j \in DOMAIN to_lsp' : i + 1 = j + 1 => i = j
      /\ \/ m.method = "get_info" /\ handle_get_info_request(m)
         \/ m.method = "create_order" /\ handle_create_order_request(m)
         \/ m.method = "get_order" /\ handle_get_order_request(m)
  BY TakenByLsp
<1>2. UNCHANGED <<methods, ignores_lsp, answered>>
  BY DEF lsp_handle_custom_message, client
<1> HIDE DEF m
<1>3. /\ m.id \in Ids /\ methods[m.id] # None /\ m.id \notin Unanswered
      /\ \A j \in DOMAIN to_client : to_client[j].id # m.id
      /\ \A i \in DOMAIN to_lsp : to_lsp[i].id = m.id => i = 1
  BY <1>1, RequestTypes DEF Sent
<1>4. /\ \A n \in Ids : n # m.id => ((n \in Unanswered') <=> n \in Unanswered)
      /\ \/ to_client' = to_client
         \/ /\ m.id \notin Unanswered'
            /\ \E a \in Answers : Answer(a) /\ a.id = m.id
  <2>1. CASE m.method = "get_info" /\ handle_get_info_request(m)
    <3> DEFINE a == [type |-> "result", id |-> m.id, options |-> options_supported]
    <3>1. a \in Answers /\ a.id = m.id
      BY <1>3 DEF Answers, InfoAnswers, TypeInv, LspOK
    <3>2. Answer(a) /\ pending_requests' = pending_requests
      BY <2>1 DEF handle_get_info_request
    <3> HIDE DEF a
    <3>3. \A n \in Ids : (n \in Unanswered') <=> n \in Unanswered
      BY <1>2, <3>2 DEF Unanswered
    <3>4. m.id \notin Unanswered'
      BY <1>2, <1>3, <3>2 DEF Unanswered, m, lsp_handle_custom_message
    <3>5. QED
      BY <3>1, <3>2, <3>3, <3>4
  <2>2. CASE m.method = "create_order" /\ handle_create_order_request(m)
    <3>1. CASE m.param \in options_supported
      <4>1. /\ to_client' = to_client
            /\ pending_requests' = [pending_requests EXCEPT ![m.id] = m.param]
        BY <2>2, <3>1 DEF handle_create_order_request, insert
      <4>2. \A n \in Ids : n # m.id => pending_requests'[n] = pending_requests[n]
        BY <1>3, <4>1 DEF TypeInv, LspOK
      <4>3. QED
        BY <1>2, <4>1, <4>2 DEF Unanswered
    <3>2. CASE m.param \notin options_supported
      <4> DEFINE a == [type |-> "error", id |-> m.id]
      <4>1. a \in Answers /\ a.id = m.id
        BY <1>3 DEF Answers, Errors
      <4>2. Answer(a) /\ pending_requests' = pending_requests
        BY <2>2, <3>2 DEF handle_create_order_request
      <4> HIDE DEF a
      <4>3. \A n \in Ids : (n \in Unanswered') <=> n \in Unanswered
        BY <1>2, <4>2 DEF Unanswered
      <4>4. m.id \notin Unanswered'
        BY <1>2, <1>3, <4>2 DEF Unanswered, m, lsp_handle_custom_message
      <4>5. QED
        BY <4>1, <4>2, <4>3, <4>4
    <3>3. QED
      BY <3>1, <3>2
  <2>3. CASE m.method = "get_order" /\ handle_get_order_request(m)
    <3>1. /\ to_client' = to_client
          /\ \/ pending_requests' = [pending_requests EXCEPT ![m.id] = m.param]
             \/ pending_requests' = pending_requests
      BY <2>3 DEF handle_get_order_request, insert
    <3>2. \A n \in Ids : n # m.id => pending_requests'[n] = pending_requests[n]
      BY <1>3, <3>1 DEF TypeInv, LspOK
    <3>3. QED
      BY <1>2, <3>1, <3>2 DEF Unanswered
  <2>4. QED
    BY <1>1, <2>1, <2>2, <2>3
<1>5. Answered' /\ Waiting'
  <2>1. CASE to_client' = to_client
    <3>1. Answered'
      BY <1>2, <2>1 DEF Answered
    <3>2. ASSUME NEW id \in Ids, id \in Unanswered'
          PROVE  /\ methods[id] # None
                 /\ \A j \in DOMAIN to_client : to_client[j].id # id
      BY <1>3, <1>4, <3>2 DEF Waiting
    <3>3. QED
      BY <1>2, <2>1, <3>1, <3>2 DEF Waiting
  <2>2. ASSUME m.id \notin Unanswered', NEW a \in Answers, Answer(a), a.id = m.id
        PROVE  Answered' /\ Waiting'
    <3>1. ASSUME NEW id \in Ids, id \in Unanswered' PROVE id \in Unanswered /\ id # m.id
      <4>1. CASE id = m.id
        BY <1>2, <2>2, <3>1, <4>1 DEF Unanswered
      <4>2. CASE id # m.id
        BY <1>4, <3>1, <4>2
      <4>3. QED
        BY <4>1, <4>2
    <3>2. QED
      BY <1>2, <1>3, <2>2, <3>1, TokensOfAnswer
  <2>3. QED
    BY <1>4, <2>1, <2>2
<1>6. \A i \in DOMAIN to_client' :
        \/ i \in DOMAIN to_client /\ to_client'[i] = to_client[i]
        \/ to_client'[i].id = m.id
  BY <1>4, AnswerAppended
<1>7. ASSUME NEW i \in DOMAIN to_lsp'
      PROVE  /\ methods[to_lsp'[i].id] # None
             /\ to_lsp'[i].id \notin Unanswered'
             /\ \A j \in DOMAIN to_client' : to_client'[j].id # to_lsp'[i].id
             /\ \A j \in DOMAIN to_lsp' : to_lsp'[j].id = to_lsp'[i].id => j = i
  <2>1. to_lsp'[i].id \in Ids /\ to_lsp'[i].id # m.id
    BY <1>1, <1>3, IdsInUse
  <2>2. methods[to_lsp'[i].id] # None /\ to_lsp[i + 1].id \notin Unanswered
    BY <1>1 DEF Sent
  <2>3. to_lsp'[i].id \notin Unanswered'
    BY <1>1, <1>4, <2>1, <2>2 DEF Unanswered
  <2>4. \A j \in DOMAIN to_client' : to_client'[j].id # to_lsp'[i].id
    BY <1>1, <1>6, <2>1 DEF Sent
  <2>5. ASSUME NEW j \in DOMAIN to_lsp', to_lsp'[j].id = to_lsp'[i].id PROVE j = i
    BY <1>1, <2>5 DEF Sent
  <2>6. QED
    BY <2>2, <2>3, <2>4, <2>5
<1>8. QED
  BY <1>2, <1>5, <1>7 DEF Sent

(* Every step keeps the invariant of the request ids.                       *)
LEMMA NextTokenInv == TypeInv /\ TokenInv /\ [Next]_vars => TokenInv'
<1> SUFFICES ASSUME TypeInv, TokenInv, [Next]_vars,
                    {"client", "repeat"} \cap failures' = {}
             PROVE  ~ignores_lsp' /\ Sent' /\ Answered' /\ Waiting'
  BY DEF TokenInv
<1>0. /\ ~ignores_lsp /\ Sent /\ Answered /\ Waiting
      /\ "client" \notin failures' /\ "repeat" \notin failures'
  BY FailuresStay DEF TokenInv
<1>1. CASE UNCHANGED vars
  BY <1>0, <1>1 DEF vars, client, lsp, net, Sent, Answered, Waiting, Unanswered
<1>2. CASE Disconnect \/ RestartClient \/ RestartLSP
  <2>1. /\ DOMAIN to_lsp' = {} /\ DOMAIN to_client' = {}
        /\ answered' = answered /\ ~RestartClient
    BY <1>0, <1>2, NetEmptied
  <2>2. UNCHANGED <<methods, ignores_lsp>>
    BY <1>2, <2>1 DEF Disconnect, RestartLSP, client
  <2>3. \A id \in Ids : pending_requests'[id] \in {pending_requests[id], None}
    BY <1>2, <2>1 DEF Disconnect, RestartLSP, lsp
  <2>4. Waiting'
    BY <1>0, <2>1, <2>2, <2>3, Constants DEF Waiting, Unanswered
  <2>5. QED
    BY <1>0, <2>1, <2>2, <2>4 DEF Sent, Answered
<1>3. ASSUME Next PROVE ~ignores_lsp' /\ Sent' /\ Answered' /\ Waiting'
  BY <1>0, <1>2, <1>3, TokensOfApi, TokensOfClient, TokensOfLsp, TokensOfApplication
     DEF Next
<1>4. QED
  BY <1>1, <1>3

-----------------------------------------------------------------------------
(* Order ids: where each one may be named at the same time.                 *)

(* A step that takes messages and channels away and adds neither a query    *)
(* nor an order.                                                            *)
LEMMA OrdersKept ==
  ASSUME OrderInv, failures \subseteq failures', refunded' = refunded,
         outbound' = outbound, NEW k \in {0, 1}, NEW l \in {0, 1},
         \A i \in DOMAIN to_lsp', o \in OrderIds : Queries(i, o)' =>
            i + k \in DOMAIN to_lsp /\ Queries(i + k, o),
         \A i, j \in DOMAIN to_lsp' : i + k = j + k => i = j,
         \A i \in DOMAIN to_client', o \in OrderIds : OffersOrder(i, o)' =>
            /\ i + l \in DOMAIN to_client /\ OffersOrder(i + l, o)
            /\ to_client'[i] = to_client[i + l],
         \A i, j \in DOMAIN to_client' : i + l = j + l => i = j,
         \A c \in Ordered' : c \in Ordered /\ inbound'[c] = inbound[c]
  PROVE  OrderInv'
<1>1. QueriedOnce'
  <2> SUFFICES ASSUME NEW o \in OrderIds, NEW i \in DOMAIN to_lsp', Queries(i, o)'
               PROVE  /\ outbound[o].state \in {"OrderCreated", "gone"}
                      /\ \A j \in DOMAIN to_lsp' : Queries(j, o)' => j = i
    BY DEF QueriedOnce
  <2>1. i + k \in DOMAIN to_lsp /\ Queries(i + k, o)
    OBVIOUS
  <2>2. ASSUME NEW j \in DOMAIN to_lsp', Queries(j, o)' PROVE j = i
    <3>1. j + k \in DOMAIN to_lsp /\ Queries(j + k, o)
      BY <2>2
    <3>2. j + k = i + k
      BY <2>1, <3>1 DEF OrderInv, QueriedOnce
    <3>3. QED
      BY <3>2
  <2>3. QED
    BY <2>1, <2>2 DEF OrderInv, QueriedOnce
<1>2. OfferedOnce'
  <2> SUFFICES ASSUME NEW o \in OrderIds, NEW i \in DOMAIN to_client', OffersOrder(i, o)'
               PROVE  /\ outbound[o].state \in {"OrderCreated", "gone"}
                      /\ "LSP" \notin failures' => outbound[o].order = to_client'[i].order
                      /\ \A j \in DOMAIN to_client' : OffersOrder(j, o)' => j = i
                      /\ \A j \in DOMAIN to_lsp' : ~Queries(j, o)'
                      /\ \A c \in Ordered' : inbound'[c].order_id # o
    BY DEF OfferedOnce
  <2>1. /\ i + l \in DOMAIN to_client /\ OffersOrder(i + l, o)
        /\ to_client'[i] = to_client[i + l]
    OBVIOUS
  <2>2. /\ outbound[o].state \in {"OrderCreated", "gone"}
        /\ "LSP" \notin failures => outbound[o].order = to_client[i + l].order
        /\ \A j \in DOMAIN to_client : OffersOrder(j, o) => j = i + l
        /\ \A j \in DOMAIN to_lsp : ~Queries(j, o)
        /\ \A c \in Ordered : inbound[c].order_id # o
    BY <2>1 DEF OrderInv, OfferedOnce
  <2>3. ASSUME NEW j \in DOMAIN to_client', OffersOrder(j, o)' PROVE j = i
    BY <2>2, <2>3
  <2>4. ASSUME NEW j \in DOMAIN to_lsp' PROVE ~Queries(j, o)'
    BY <2>2
  <2>5. QED
    BY <2>1, <2>2, <2>3, <2>4
<1>3. OrderedOnce'
  <2> SUFFICES ASSUME NEW o \in OrderIds, NEW c \in Ordered', inbound'[c].order_id = o
               PROVE  /\ \A d \in Ordered' : inbound'[d].order_id = o => d = c
                      /\ outbound[o].state # None
                      /\ "LSP" \notin failures' => outbound[o].order = inbound'[c].order
                      /\ inbound'[c].state = "PendingPayment" =>
                           /\ outbound[o].state \in {"OrderCreated", "gone"}
                           /\ \A j \in DOMAIN to_lsp' : ~Queries(j, o)'
    BY DEF OrderedOnce
  <2>1. /\ c \in Ordered /\ inbound'[c] = inbound[c]
        /\ \A d \in Ordered : inbound[d].order_id = o => d = c
        /\ outbound[o].state # None
        /\ "LSP" \notin failures => outbound[o].order = inbound[c].order
        /\ inbound[c].state = "PendingPayment" =>
             /\ outbound[o].state \in {"OrderCreated", "gone"}
             /\ \A j \in DOMAIN to_lsp : ~Queries(j, o)
    BY DEF OrderInv, OrderedOnce
  <2>2. QED
    BY <2>1
<1>4. QED
  BY <1>1, <1>2, <1>3 DEF OrderInv

(* A request that is no query leaves the order ids as they are.             *)
LEMMA OrdersOfSend ==
  ASSUME TypeInv, OrderInv, NEW c \in Channels, NEW method \in Methods, NEW param,
         \A id \in Ids : [method |-> method, id |-> id, param |-> param] \in Requests,
         Send(c, method, param), method # "get_order",
         UNCHANGED <<lsp, to_client, failures>>,
         \A d \in Ordered' : d \in Ordered /\ inbound'[d] = inbound[d]
  PROVE  OrderInv'
<1>0. to_lsp \in Seq(Requests) /\ to_client \in Seq(Answers) /\ to_lsp' \in Seq(Requests)
  BY SendTypes DEF TypeInv, NetOK
<1>1. \A i \in DOMAIN to_lsp' :
        \/ i \in DOMAIN to_lsp /\ to_lsp'[i] = to_lsp[i]
        \/ to_lsp'[i] = [method |-> method, id |-> requests', param |-> param]
  BY SendTypes
<1>2. \A i \in DOMAIN to_lsp', o \in OrderIds : Queries(i, o)' =>
        i + 0 \in DOMAIN to_lsp /\ Queries(i + 0, o)
  <2>1. \A i \in DOMAIN to_lsp' : i + 0 = i
    BY <1>0
  <2>2. QED
    BY <1>1, <2>1 DEF Queries
<1>3. /\ \A i \in DOMAIN to_client' : i + 0 = i
      /\ \A i \in DOMAIN to_lsp' : i + 0 = i
  BY <1>0
<1>4. \A i \in DOMAIN to_client', o \in OrderIds : OffersOrder(i, o)' =>
        /\ i + 0 \in DOMAIN to_client /\ OffersOrder(i + 0, o)
        /\ to_client'[i] = to_client[i + 0]
  BY <1>3 DEF OffersOrder
<1>5. /\ \A i, j \in DOMAIN to_lsp' : i + 0 = j + 0 => i = j
      /\ \A i, j \in DOMAIN to_client' : i + 0 = j + 0 => i = j
  BY <1>3
<1>6. failures \subseteq failures' /\ refunded' = refunded /\ outbound' = outbound
  BY DEF lsp
<1>7. QED
  BY <1>2, <1>4, <1>5, <1>6, OrdersKept

(* So does a step that sends and takes no message.                          *)
LEMMA OrdersOfQuietStep ==
  ASSUME TypeInv, OrderInv, failures \subseteq failures',
         UNCHANGED <<refunded, outbound, to_lsp, to_client>>,
         \A d \in Ordered' : d \in Ordered /\ inbound'[d] = inbound[d]
  PROVE  OrderInv'
<1>0. to_lsp \in Seq(Requests) /\ to_client \in Seq(Answers)
  BY DEF TypeInv, NetOK
<1>1. /\ \A i \in DOMAIN to_client' : i + 0 = i
      /\ \A i \in DOMAIN to_lsp' : i + 0 = i
  BY <1>0
<1>2. \A i \in DOMAIN to_lsp', o \in OrderIds : Queries(i, o)' =>
        i + 0 \in DOMAIN to_lsp /\ Queries(i + 0, o)
  BY <1>1 DEF Queries
<1>3. \A i \in DOMAIN to_client', o \in OrderIds : OffersOrder(i, o)' =>
        /\ i + 0 \in DOMAIN to_client /\ OffersOrder(i + 0, o)
        /\ to_client'[i] = to_client[i + 0]
  BY <1>1 DEF OffersOrder
<1>4. /\ \A i, j \in DOMAIN to_lsp' : i + 0 = j + 0 => i = j
      /\ \A i, j \in DOMAIN to_client' : i + 0 = j + 0 => i = j
  BY <1>1
<1>5. QED
  BY <1>2, <1>3, <1>4, OrdersKept

(* A channel that leaves the states in which the client knows its order.    *)
LEMMA LeavesOrdered ==
  ASSUME TypeInv, NEW c \in Channels, NEW ch, Become(c, ch),
         ch.state \notin {"PendingPayment", "AwaitingConfirmation"}
  PROVE  \A d \in Ordered' : d \in Ordered /\ inbound'[d] = inbound[d]
BY DEF Become, Ordered, TypeInv, ClientOK

(* The client's query of an order is the first, since its channel was       *)
(* waiting for the payment.                                                 *)
LEMMA OrdersOfQuery ==
  ASSUME TypeInv, OrderInv, NEW c \in Channels, check_order_status(c),
         pay_for_channel(inbound[c])
  PROVE  OrderInv'
<1> DEFINE p == inbound[c].order_id
<1>0. /\ c \in Ordered /\ inbound[c].state = "PendingPayment" /\ p \in OrderIds
      /\ inbound[c] \in InboundChannels
      /\ UNCHANGED <<outbound, refunded, to_client, failures>>
      /\ Send(c, "get_order", p)
      /\ Become(c, [inbound[c] EXCEPT !.state = "AwaitingConfirmation"])
  BY DEF pay_for_channel, Ordered, TypeInv, ClientOK, OrderedOK, check_order_status, lsp
<1>1. /\ outbound[p].state \in {"OrderCreated", "gone"}
      /\ \A j \in DOMAIN to_lsp : ~Queries(j, p)
      /\ \A d \in Ordered : inbound[d].order_id = p => d = c
      /\ \A i \in DOMAIN to_client : ~OffersOrder(i, p)
  BY <1>0 DEF OrderInv, OrderedOnce, OfferedOnce
<1>2. \A id \in Ids : [method |-> "get_order", id |-> id, param |-> p] \in Requests
  BY <1>0 DEF Requests
<1> HIDE DEF p
<1>3. \A i \in DOMAIN to_lsp' :
        \/ i \in DOMAIN to_lsp /\ to_lsp'[i] = to_lsp[i]
        \/ /\ i = Len(to_lsp) + 1
           /\ to_lsp'[i] = [method |-> "get_order", id |-> requests', param |-> p]
  BY <1>0, <1>2, SendTypes DEF Methods
<1>4. \A i \in DOMAIN to_lsp', o \in OrderIds : Queries(i, o)' =>
        \/ i \in DOMAIN to_lsp /\ Queries(i, o)
        \/ i = Len(to_lsp) + 1 /\ o = p
  BY <1>3 DEF Queries
<1>5. /\ \A d \in Ordered' : /\ d \in Ordered
                             /\ inbound'[d].order_id = inbound[d].order_id
                             /\ inbound'[d].order = inbound[d].order
                             /\ d # c => inbound'[d] = inbound[d]
      /\ inbound'[c].state = "AwaitingConfirmation"
  <2>1. /\ inbound'[c] = [inbound[c] EXCEPT !.state = "AwaitingConfirmation"]
        /\ \A d \in Channels : d # c => inbound'[d] = inbound[d]
    BY <1>0 DEF Become, TypeInv, ClientOK
  <2>2. /\ inbound'[c].state = "AwaitingConfirmation"
        /\ inbound'[c].order_id = inbound[c].order_id
        /\ inbound'[c].order = inbound[c].order
    BY <1>0, <2>1 DEF InboundChannels
  <2>3. QED
    BY <1>0, <2>1, <2>2 DEF Ordered
<1>6. QueriedOnce'
  <2> SUFFICES ASSUME NEW o \in OrderIds, NEW i \in DOMAIN to_lsp', Queries(i, o)'
               PROVE  /\ outbound[o].state \in {"OrderCreated", "gone"}
                      /\ \A j \in DOMAIN to_lsp' : Queries(j, o)' => j = i
    BY <1>0 DEF QueriedOnce
  <2>1. CASE o = p
    BY <1>1, <1>4, <2>1
  <2>2. CASE o # p
    BY <1>4, <2>2 DEF OrderInv, QueriedOnce
  <2>3. QED
    BY <2>1, <2>2
<1>7. OfferedOnce'
  <2> SUFFICES ASSUME NEW o \in OrderIds, NEW i \in DOMAIN to_client, OffersOrder(i, o)
               PROVE  /\ outbound[o].state \in {"OrderCreated", "gone"}
                      /\ "LSP" \notin failures => outbound[o].order = to_client[i].order
                      /\ \A j \in DOMAIN to_client : OffersOrder(j, o) => j = i
                      /\ \A j \in DOMAIN to_lsp' : ~Queries(j, o)'
                      /\ \A d \in Ordered' : inbound'[d].order_id # o
    BY <1>0 DEF OfferedOnce, OffersOrder
  <2>1. o # p
    BY <1>1
  <2>2. \A j \in DOMAIN to_lsp' : ~Queries(j, o)'
    BY <1>4, <2>1 DEF OrderInv, OfferedOnce
  <2>3. \A d \in Ordered' : d \in Ordered /\ inbound'[d].order_id = inbound[d].order_id
    BY <1>5
  <2>4. \A d \in Ordered : inbound[d].order_id # o
    BY DEF OrderInv, OfferedOnce
  <2>5. QED
    BY <2>2, <2>3, <2>4 DEF OrderInv, OfferedOnce
<1>8. OrderedOnce'
  <2> SUFFICES ASSUME NEW o \in OrderIds, NEW e \in Ordered', inbound'[e].order_id = o
               PROVE  /\ \A d \in Ordered' : inbound'[d].order_id = o => d = e
                      /\ outbound[o].state # None
                      /\ "LSP" \notin failures => outbound[o].order = inbound'[e].order
                      /\ inbound'[e].state = "PendingPayment" =>
                           /\ outbound[o].state \in {"OrderCreated", "gone"}
                           /\ \A j \in DOMAIN to_lsp' : ~Queries(j, o)'
    BY <1>0 DEF OrderedOnce
  <2>a. /\ e \in Ordered /\ inbound[e].order_id = o
        /\ inbound'[e].order = inbound[e].order
    BY <1>5
  <2>0. /\ \A d \in Ordered : inbound[d].order_id = o => d = e
        /\ outbound[o].state # None
        /\ "LSP" \notin failures => outbound[o].order = inbound[e].order
        /\ inbound[e].state = "PendingPayment" =>
             /\ outbound[o].state \in {"OrderCreated", "gone"}
             /\ \A j \in DOMAIN to_lsp : ~Queries(j, o)
    BY <2>a DEF OrderInv, OrderedOnce
  <2>1. inbound'[e].state = "PendingPayment" =>
          /\ outbound[o].state \in {"OrderCreated", "gone"}
          /\ \A j \in DOMAIN to_lsp' : ~Queries(j, o)'
    <3>1. CASE e = c
      BY <1>5, <3>1
    <3>2. CASE e # c
      <4>1. o # p
        BY <1>1, <2>a, <3>2
      <4>2. inbound'[e] = inbound[e]
        BY <1>5, <3>2
      <4>3. \A j \in DOMAIN to_lsp' : Queries(j, o)' => j \in DOMAIN to_lsp /\ Queries(j, o)
        BY <1>4, <4>1
      <4>4. QED
        BY <2>0, <4>2, <4>3
    <3>3. QED
      BY <3>1, <3>2
  <2>2. ASSUME NEW d \in Ordered', inbound'[d].order_id = o PROVE d = e
    <3>1. d \in Ordered /\ inbound[d].order_id = o
      BY <1>5, <2>2
    <3>2. QED
      BY <2>0, <3>1
  <2>3. QED
    BY <2>a, <2>0, <2>1, <2>2
<1>9. QED
  BY <1>0, <1>6, <1>7, <1>8 DEF OrderInv

(* The calls of the client keep the invariant of the order ids.             *)
LEMMA OrdersOfApi ==
  ASSUME TypeInv, OrderInv, NEW c \in Channels,
         \/ send_get_info_request(c)
         \/ \E order \in Orders : place_order(c, order)
         \/ check_order_status(c)
  PROVE  OrderInv'
<1> USE DEF Methods
<1>1. ASSUME Remove(c), UNCHANGED <<lsp, net, failures>> PROVE OrderInv'
  <2>1. NoInbound.state = "none"
    BY DEF NoInbound, Inbound, None
  <2>2. \A d \in Ordered' : d \in Ordered /\ inbound'[d] = inbound[d]
    BY <1>1, <2>1, LeavesOrdered DEF Remove
  <2>3. QED
    BY <1>1, <2>2, OrdersOfQuietStep DEF lsp, net
<1>2. CASE send_get_info_request(c)
  <2>1. \A id \in Ids : [method |-> "get_info", id |-> id, param |-> None] \in Requests
    BY DEF Requests
  <2>2. Inbound("InfoRequested", {}, None, None).state = "InfoRequested"
    BY DEF Inbound
  <2>3. \A d \in Ordered' : d \in Ordered /\ inbound'[d] = inbound[d]
    BY <1>2, <2>2, LeavesOrdered DEF send_get_info_request
  <2>4. QED
    BY <1>2, <2>1, <2>3, OrdersOfSend DEF send_get_info_request
<1>3. ASSUME NEW order \in Orders, place_order(c, order)
      PROVE  OrderInv'
  <2>1. \A id \in Ids : [method |-> "create_order", id |-> id, param |-> order] \in Requests
    BY DEF Requests
  <2>2. CASE order_requested(inbound[c], order)
    <3>1. Inbound("OrderRequested", {}, order, None).state = "OrderRequested"
      BY DEF Inbound
    <3>2. \A d \in Ordered' : d \in Ordered /\ inbound'[d] = inbound[d]
      BY <1>3, <2>2, <3>1, LeavesOrdered DEF place_order
    <3>3. QED
      BY <1>3, <2>1, <2>2, <3>2, OrdersOfSend DEF place_order
  <2>3. CASE ~order_requested(inbound[c], order)
    BY <1>1, <1>3, <2>3 DEF place_order, net
  <2>4. QED
    BY <2>2, <2>3
<1>4. CASE check_order_status(c)
  <2>1. CASE pay_for_channel(inbound[c])
    BY <1>4, <2>1, OrdersOfQuery
  <2>2. CASE ~pay_for_channel(inbound[c])
    BY <1>1, <1>4, <2>2 DEF check_order_status, net
  <2>3. QED
    BY <2>1, <2>2
<1>5. QED
  BY <1>2, <1>3, <1>4

(* The answer to an order, the only one that makes the client know it.      *)
LEMMA OrdersOfOffer ==
  ASSUME TypeInv, OrderInv, client_handle_custom_message, NEW c \in Channels,
         Head(to_client) \in OrderAnswers, inbound[c].order = Head(to_client).order,
         Become(c, [inbound[c] EXCEPT !.state = "PendingPayment",
                                      !.order_id = Head(to_client).order_id])
  PROVE  OrderInv'
<1> DEFINE m == Head(to_client)
           p == m.order_id
<1>1. /\ 1 \in DOMAIN to_client /\ m = to_client[1] /\ m \in Answers
      /\ \A i \in DOMAIN to_client' :
           /\ i + 1 \in DOMAIN to_client /\ i + 1 # 1
           /\ to_client'[i] = to_client[i + 1]
      /\ \A i, j \in DOMAIN to_client' : i + 1 = j + 1 => i = j
  BY TakenByClient
<1>2. UNCHANGED <<outbound, refunded, to_lsp, failures>>
  BY DEF client_handle_custom_message, lsp
<1>3. p \in OrderIds /\ OffersOrder(1, p)
  BY <1>1 DEF OffersOrder, OrderAnswers
<1>4. /\ outbound[p].state \in {"OrderCreated", "gone"}
      /\ "LSP" \notin failures => outbound[p].order = m.order
      /\ \A j \in DOMAIN to_client : OffersOrder(j, p) => j = 1
      /\ \A j \in DOMAIN to_lsp : ~Queries(j, p)
      /\ \A d \in Ordered : inbound[d].order_id # p
  BY <1>1, <1>3 DEF OrderInv, OfferedOnce
<1>5. /\ inbound'[c].order_id = p /\ inbound'[c].order = m.order
      /\ inbound'[c].state = "PendingPayment"
      /\ \A d \in Ordered' : d # c => d \in Ordered /\ inbound'[d] = inbound[d]
  <2>1. /\ inbound'[c] = [inbound[c] EXCEPT !.state = "PendingPayment", !.order_id = p]
        /\ \A d \in Channels : d # c => inbound'[d] = inbound[d]
    BY DEF Become, TypeInv, ClientOK
  <2>2. inbound[c] \in InboundChannels
    BY DEF TypeInv, ClientOK
  <2>3. QED
    BY <2>1, <2>2 DEF InboundChannels, Ordered
<1> HIDE DEF m, p
<1>6. \A i \in DOMAIN to_client', o \in OrderIds : OffersOrder(i, o)' =>
        i + 1 \in DOMAIN to_client /\ OffersOrder(i + 1, o) /\ o # p
  BY <1>1, <1>4 DEF OffersOrder
<1>7. QueriedOnce'
  BY <1>2 DEF OrderInv, QueriedOnce, Queries
<1>8. OfferedOnce'
  <2> SUFFICES ASSUME NEW o \in OrderIds, NEW i \in DOMAIN to_client', OffersOrder(i, o)'
               PROVE  /\ outbound[o].state \in {"OrderCreated", "gone"}
                      /\ "LSP" \notin failures => outbound[o].order = to_client'[i].order
                      /\ \A j \in DOMAIN to_client' : OffersOrder(j, o)' => j = i
                      /\ \A j \in DOMAIN to_lsp : ~Queries(j, o)
                      /\ \A d \in Ordered' : inbound'[d].order_id # o
    BY <1>2 DEF OfferedOnce, Queries
  <2>1. /\ i + 1 \in DOMAIN to_client /\ OffersOrder(i + 1, o) /\ o # p
        /\ to_client'[i] = to_client[i + 1]
    BY <1>1, <1>6
  <2>2. /\ outbound[o].state \in {"OrderCreated", "gone"}
        /\ "LSP" \notin failures => outbound[o].order = to_client[i + 1].order
        /\ \A j \in DOMAIN to_client : OffersOrder(j, o) => j = i + 1
        /\ \A j \in DOMAIN to_lsp : ~Queries(j, o)
        /\ \A d \in Ordered : inbound[d].order_id # o
    BY <2>1 DEF OrderInv, OfferedOnce
  <2>3. ASSUME NEW j \in DOMAIN to_client', OffersOrder(j, o)' PROVE j = i
    BY <1>1, <1>6, <2>2, <2>3
  <2>4. \A d \in Ordered' : inbound'[d].order_id # o
    BY <1>5, <2>1, <2>2
  <2>5. QED
    BY <2>1, <2>2, <2>3, <2>4
<1>9. OrderedOnce'
  <2> SUFFICES ASSUME NEW o \in OrderIds, NEW e \in Ordered', inbound'[e].order_id = o
               PROVE  /\ \A d \in Ordered' : inbound'[d].order_id = o => d = e
                      /\ outbound[o].state # None
                      /\ "LSP" \notin failures => outbound[o].order = inbound'[e].order
                      /\ inbound'[e].state = "PendingPayment" =>
                           /\ outbound[o].state \in {"OrderCreated", "gone"}
                           /\ \A j \in DOMAIN to_lsp : ~Queries(j, o)
    BY <1>2 DEF OrderedOnce, Queries
  <2>1. CASE e = c
    <3>1. o = p
      BY <1>5, <2>1
    <3>2. \A d \in Ordered' : inbound'[d].order_id = o => d = e
      BY <1>4, <1>5, <2>1, <3>1
    <3>3. QED
      BY <1>4, <1>5, <2>1, <3>1, <3>2 DEF None
  <2>2. CASE e # c
    <3>1. e \in Ordered /\ inbound'[e] = inbound[e] /\ o # p
      BY <1>4, <1>5, <2>2
    <3>2. QED
      BY <1>5, <3>1 DEF OrderInv, OrderedOnce
  <2>3. QED
    BY <2>1, <2>2
<1>10. QED
  BY <1>2, <1>7, <1>8, <1>9 DEF OrderInv

(* The client's handler keeps the invariant of the order ids.               *)
LEMMA OrdersOfClient ==
  ASSUME TypeInv, OrderInv, client_handle_custom_message
  PROVE  OrderInv'
<1> DEFINE m == Head(to_client)
           c == request_to_cid[m.id]
<1>1. /\ 1 \in DOMAIN to_client /\ m = to_client[1] /\ m \in Answers
      /\ m.type = "result" => Fits(m, methods[m.id])
      /\ \A i \in DOMAIN to_client' :
           /\ i + 1 \in DOMAIN to_client
           /\ to_client'[i] = to_client[i + 1]
      /\ \A i, j \in DOMAIN to_client' : i + 1 = j + 1 => i = j
  BY TakenByClient
<1>2. UNCHANGED <<outbound, refunded, to_lsp, failures>>
  BY DEF client_handle_custom_message, lsp
<1>3. /\ m.id \in Ids /\ c \in Channels \cup {None} /\ inbound \in [Channels -> InboundChannels]
      /\ methods[m.id] \in Methods \cup {None}
      /\ to_lsp \in Seq(Requests)
  BY <1>1, AnswerTypes DEF TypeInv, ClientOK, NetOK
<1> DEFINE offered == [inbound[c] EXCEPT !.state = "PendingPayment", !.order_id = m.order_id]
<1>4. \/ inbound' = inbound
      \/ /\ c \in Channels
         /\ \/ Become(c, Inbound("OptionsSupport", m.options, None, None))
            \/ Become(c, NoInbound)
            \/ Become(c, offered) /\ m \in OrderAnswers /\ inbound[c].order = m.order
  <2>1. CASE ignores_lsp \/ methods[m.id] = None
    BY <2>1 DEF client_handle_custom_message, client
  <2>2. CASE ~ignores_lsp /\ methods[m.id] # None
    <3>1. handle_answer(m)
      BY <2>2 DEF client_handle_custom_message
    <3> HIDE DEF m
    <3>2. CASE c = None \/ m.type # "result" \/ inbound[c].state = None
      BY <3>1, <3>2 DEF handle_answer
    <3>3. CASE ~(c = None \/ m.type # "result" \/ inbound[c].state = None)
      <4>0. c \in Channels /\ Fits(m, methods[m.id])
        BY <1>1, <1>3, <3>3
      <4>1. CASE methods[m.id] = "get_info"
        BY <3>1, <3>3, <4>0, <4>1 DEF handle_answer, info_received, Remove
      <4>2. CASE methods[m.id] = "create_order"
        BY <3>1, <3>3, <4>0, <4>2 DEF handle_answer, order_received, Remove, Fits
      <4>3. CASE methods[m.id] = "get_order"
        BY <3>1, <3>3, <4>0, <4>3 DEF handle_answer
      <4>4. QED
        BY <1>3, <2>2, <4>1, <4>2, <4>3 DEF Methods
    <3>4. QED
      BY <3>2, <3>3
  <2>3. QED
    BY <2>1, <2>2
<1>5. ASSUME \A d \in Ordered' : d \in Ordered /\ inbound'[d] = inbound[d]
      PROVE  OrderInv'
  <2>1. \A i \in DOMAIN to_lsp' : i + 0 = i
    BY <1>2, <1>3
  <2>2. \A i \in DOMAIN to_lsp', o \in OrderIds : Queries(i, o)' =>
          i + 0 \in DOMAIN to_lsp /\ Queries(i + 0, o)
    BY <1>2, <2>1 DEF Queries
  <2>3. \A i \in DOMAIN to_client', o \in OrderIds : OffersOrder(i, o)' =>
          /\ i + 1 \in DOMAIN to_client /\ OffersOrder(i + 1, o)
          /\ to_client'[i] = to_client[i + 1]
    BY <1>1 DEF OffersOrder
  <2>4. \A i, j \in DOMAIN to_lsp' : i + 0 = j + 0 => i = j
    BY <2>1
  <2>5. failures \subseteq failures'
    BY <1>2
  <2>6. QED
    BY <1>1, <1>2, <1>5, <2>2, <2>3, <2>4, <2>5, OrdersKept
<1>6. CASE inbound' = inbound
  BY <1>5, <1>6 DEF Ordered
<1>7. CASE /\ c \in Channels
           /\ \/ Become(c, Inbound("OptionsSupport", m.options, None, None))
              \/ Become(c, NoInbound)
  <2>1. /\ Inbound("OptionsSupport", m.options, None, None).state = "OptionsSupport"
        /\ NoInbound.state = "none"
    BY DEF NoInbound, Inbound, None
  <2> HIDE DEF c, m
  <2>2. \A d \in Ordered' : d \in Ordered /\ inbound'[d] = inbound[d]
    BY <1>7, <2>1, LeavesOrdered
  <2>3. QED
    BY <1>5, <2>2
<1>8. CASE c \in Channels /\ Become(c, offered) /\ m \in OrderAnswers /\ inbound[c].order = m.order
  <2> HIDE DEF c
  <2>1. QED
    BY <1>8, OrdersOfOffer
<1>9. QED
  BY <1>4, <1>6, <1>7, <1>8

(* The LSP takes a request that is no query and answers it with something   *)
(* that is no order.                                                        *)
LEMMA OrdersOfOtherRequest ==
  ASSUME TypeInv, OrderInv, lsp_handle_custom_message,
         UNCHANGED <<outbound, refunded>>,
         \/ to_client' = to_client
         \/ \E a \in Answers : Answer(a) /\ a \notin OrderAnswers
  PROVE  OrderInv'
<1>1. /\ \A i \in DOMAIN to_lsp' : /\ i + 1 \in DOMAIN to_lsp
                                /\ to_lsp'[i] = to_lsp[i + 1]
      /\ \A i, j \in DOMAIN to_lsp' : i + 1 = j + 1 => i = j
  BY TakenByLsp
<1>2. /\ failures \subseteq failures' /\ UNCHANGED inbound
      /\ to_client \in Seq(Answers)
  BY DEF lsp_handle_custom_message, client, TypeInv, NetOK
<1>3. to_client' \in Seq(Answers)
  BY <1>2, AppendElements DEF Answer
<1>4. /\ \A i \in DOMAIN to_client' : i + 0 = i
      /\ \A i, j \in DOMAIN to_client' : i + 0 = j + 0 => i = j
  BY <1>3
<1>5. \A i \in DOMAIN to_client' :
        \/ i \in DOMAIN to_client /\ to_client'[i] = to_client[i]
        \/ to_client'[i] \notin OrderAnswers
  <2>1. CASE to_client' = to_client
    BY <2>1
  <2>2. ASSUME NEW a \in Answers, Answer(a), a \notin OrderAnswers
        PROVE  \A i \in DOMAIN to_client' :
                 \/ i \in DOMAIN to_client /\ to_client'[i] = to_client[i]
                 \/ to_client'[i] \notin OrderAnswers
    BY <2>2, AnswerAppended
  <2>3. QED
    BY <2>1, <2>2
<1>6. \A i \in DOMAIN to_client', o \in OrderIds : OffersOrder(i, o)' =>
        /\ i + 0 \in DOMAIN to_client /\ OffersOrder(i + 0, o)
        /\ to_client'[i] = to_client[i + 0]
  BY <1>4, <1>5 DEF OffersOrder
<1>7. \A i \in DOMAIN to_lsp', o \in OrderIds : Queries(i, o)' =>
        i + 1 \in DOMAIN to_lsp /\ Queries(i + 1, o)
  BY <1>1 DEF Queries
<1>8. \A d \in Ordered' : d \in Ordered /\ inbound'[d] = inbound[d]
  BY <1>2 DEF Ordered
<1>9. QED
  BY <1>1, <1>2, <1>4, <1>6, <1>7, <1>8, OrdersKept

(* The first query of an order, which is also the last.                     *)
LEMMA OrdersOfQueried ==
  ASSUME TypeInv, OrderInv, lsp_handle_custom_message,
         Head(to_lsp).method = "get_order",
         handle_get_order_request(Head(to_lsp)),
         outbound[Head(to_lsp).param].state = "OrderCreated"
  PROVE  OrderInv'
<1> DEFINE m == Head(to_lsp)
           p == m.param
<1>1. /\ 1 \in DOMAIN to_lsp /\ m = to_lsp[1] /\ m \in Requests
      /\ \A i \in DOMAIN to_lsp' :
           /\ i + 1 \in DOMAIN to_lsp /\ i + 1 # 1
           /\ to_lsp'[i] = to_lsp[i + 1]
      /\ \A i, j \in DOMAIN to_lsp' : i + 1 = j + 1 => i = j
  BY TakenByLsp
<1>2. UNCHANGED <<inbound, failures, to_client, refunded>>
  BY DEF lsp_handle_custom_message, client, handle_get_order_request
<1>3. p \in OrderIds /\ Queries(1, p)
  BY <1>1, RequestTypes DEF Queries
<1>4. /\ \A j \in DOMAIN to_lsp : Queries(j, p) => j = 1
      /\ \A i \in DOMAIN to_client : ~OffersOrder(i, p)
      /\ \A d \in Ordered : inbound[d].order_id = p => inbound[d].state # "PendingPayment"
  BY <1>1, <1>3 DEF OrderInv, QueriedOnce, OfferedOnce, OrderedOnce
<1>5. /\ outbound'[p].state = "WaitingPayment" /\ outbound'[p].order = outbound[p].order
      /\ \A o \in OrderIds : o # p => outbound'[o] = outbound[o]
  <2>1. outbound' = [outbound EXCEPT ![p].state = "WaitingPayment"]
    BY DEF handle_get_order_request
  <2>2. outbound \in [OrderIds -> OutboundChannels]
    BY DEF TypeInv, LspOK
  <2> HIDE DEF p
  <2>3. outbound[p] \in OutboundChannels
    BY <1>3, <2>2
  <2>4. QED
    BY <1>3, <2>1, <2>2, <2>3 DEF OutboundChannels
<1> HIDE DEF m, p
<1>6. \A i \in DOMAIN to_lsp', o \in OrderIds : Queries(i, o)' =>
        i + 1 \in DOMAIN to_lsp /\ Queries(i + 1, o) /\ o # p
  BY <1>1, <1>4 DEF Queries
<1>7. \A o \in OrderIds : outbound'[o].state = "gone" => "LSP" \in failures'
  BY <1>2, <1>5 DEF OrderInv
<1>8. QueriedOnce'
  <2> SUFFICES ASSUME NEW o \in OrderIds, NEW i \in DOMAIN to_lsp', Queries(i, o)'
               PROVE  /\ outbound'[o].state \in {"OrderCreated", "gone"}
                      /\ \A j \in DOMAIN to_lsp' : Queries(j, o)' => j = i
    BY DEF QueriedOnce
  <2>1. i + 1 \in DOMAIN to_lsp /\ Queries(i + 1, o) /\ o # p
    BY <1>6
  <2>2. /\ outbound[o].state \in {"OrderCreated", "gone"}
        /\ \A j \in DOMAIN to_lsp : Queries(j, o) => j = i + 1
    BY <2>1 DEF OrderInv, QueriedOnce
  <2>3. ASSUME NEW j \in DOMAIN to_lsp', Queries(j, o)' PROVE j = i
    BY <1>1, <1>6, <2>2, <2>3
  <2>4. QED
    BY <1>5, <2>1, <2>2, <2>3
<1>9. OfferedOnce'
  <2> SUFFICES ASSUME NEW o \in OrderIds, NEW i \in DOMAIN to_client, OffersOrder(i, o)
               PROVE  /\ outbound'[o].state \in {"OrderCreated", "gone"}
                      /\ "LSP" \notin failures => outbound'[o].order = to_client[i].order
                      /\ \A j \in DOMAIN to_client : OffersOrder(j, o) => j = i
                      /\ \A j \in DOMAIN to_lsp' : ~Queries(j, o)'
                      /\ \A d \in Ordered : inbound[d].order_id # o
    BY <1>2 DEF OfferedOnce, OffersOrder, Ordered
  <2>1. o # p
    BY <1>4
  <2>2. \A j \in DOMAIN to_lsp' : ~Queries(j, o)'
    BY <1>6 DEF OrderInv, OfferedOnce
  <2>3. QED
    BY <1>5, <2>1, <2>2 DEF OrderInv, OfferedOnce
<1>10. OrderedOnce'
  <2> SUFFICES ASSUME NEW o \in OrderIds, NEW e \in Ordered, inbound[e].order_id = o
               PROVE  /\ \A d \in Ordered : inbound[d].order_id = o => d = e
                      /\ outbound'[o].state # None
                      /\ "LSP" \notin failures => outbound'[o].order = inbound[e].order
                      /\ inbound[e].state = "PendingPayment" =>
                           /\ outbound'[o].state \in {"OrderCreated", "gone"}
                           /\ \A j \in DOMAIN to_lsp' : ~Queries(j, o)'
    BY <1>2 DEF OrderedOnce, Ordered
  <2>1. /\ \A d \in Ordered : inbound[d].order_id = o => d = e
        /\ outbound[o].state # None
        /\ "LSP" \notin failures => outbound[o].order = inbound[e].order
        /\ inbound[e].state = "PendingPayment" =>
             /\ outbound[o].state \in {"OrderCreated", "gone"}
             /\ \A j \in DOMAIN to_lsp : ~Queries(j, o)
    BY DEF OrderInv, OrderedOnce
  <2>2. CASE o = p
    <3>1. outbound'[o].state # None
      BY <1>5, <2>2 DEF None
    <3>2. outbound'[o].order = outbound[o].order
      BY <1>5, <2>2
    <3>3. inbound[e].state # "PendingPayment"
      BY <1>4, <2>2
    <3>4. QED
      BY <2>1, <3>1, <3>2, <3>3
  <2>3. CASE o # p
    <3>1. inbound[e].state = "PendingPayment" => \A j \in DOMAIN to_lsp' : ~Queries(j, o)'
      BY <1>6, <2>1
    <3>2. QED
      BY <1>5, <2>1, <2>3, <3>1
  <2>4. QED
    BY <2>2, <2>3
<1>11. QED
  BY <1>2, <1>7, <1>8, <1>9, <1>10 DEF OrderInv

(* The LSP's handlers keep the invariant of the order ids.                  *)
LEMMA OrdersOfLsp ==
  ASSUME TypeInv, OrderInv, lsp_handle_custom_message
  PROVE  OrderInv'
<1> DEFINE m == Head(to_lsp)
<1>1. /\ 1 \in DOMAIN to_lsp /\ m = to_lsp[1] /\ m \in Requests
      /\ \/ m.method = "get_info" /\ handle_get_info_request(m)
         \/ m.method = "create_order" /\ handle_create_order_request(m)
         \/ m.method = "get_order" /\ handle_get_order_request(m)
  BY TakenByLsp
<1>2. m.id \in Ids
  BY <1>1, RequestTypes
<1>3. CASE m.method = "get_info" /\ handle_get_info_request(m)
  <2> DEFINE a == [type |-> "result", id |-> m.id, options |-> options_supported]
  <2>1. a \in Answers
    BY <1>2 DEF Answers, InfoAnswers, TypeInv, LspOK
  <2>2. a \notin OrderAnswers
    BY DEF OrderAnswers
  <2>3. Answer(a) /\ UNCHANGED <<outbound, refunded>>
    BY <1>3 DEF handle_get_info_request
  <2>4. QED
    BY <2>1, <2>2, <2>3, OrdersOfOtherRequest
<1>4. CASE m.method = "create_order" /\ handle_create_order_request(m)
  <2> DEFINE a == [type |-> "error", id |-> m.id]
  <2>1. a \in Answers
    BY <1>2 DEF Answers, Errors
  <2>2. a \notin OrderAnswers
    BY DEF OrderAnswers
  <2>3. (Answer(a) \/ to_client' = to_client) /\ UNCHANGED <<outbound, refunded>>
    BY <1>4 DEF handle_create_order_request
  <2>4. QED
    BY <2>1, <2>2, <2>3, OrdersOfOtherRequest
<1>5. CASE m.method = "get_order" /\ handle_get_order_request(m)
  <2>1. m.param \in OrderIds /\ Queries(1, m.param)
    BY <1>1, <1>5, RequestTypes DEF Queries
  <2>2. outbound[m.param].state \in {"OrderCreated", "gone"}
    BY <1>1, <2>1 DEF OrderInv, QueriedOnce
  <2>3. CASE outbound[m.param].state = "OrderCreated"
    BY <1>5, <2>3, OrdersOfQueried
  <2>4. CASE outbound[m.param].state = "gone"
    <3>1. UNCHANGED <<outbound, refunded, to_client>>
      BY <1>5, <2>4 DEF handle_get_order_request
    <3>2. QED
      BY <3>1, OrdersOfOtherRequest
  <2>5. QED
    BY <2>2, <2>3, <2>4
<1>6. QED
  BY <1>1, <1>3, <1>4, <1>5

(* A new order: its id was neither queried, nor offered, nor ordered.       *)
LEMMA OrdersOfNewOrder ==
  ASSUME TypeInv, OrderInv, NEW id \in Ids, send_payment_details(id)
  PROVE  OrderInv'
<1>1. PICK p \in generate_order_id, fees_accepted \in BOOLEAN :
        /\ outbound' = [outbound EXCEPT ![p] = [state |-> "OrderCreated",
                                                order |-> pending_requests[id]]]
        /\ Answer([type |-> "result", id |-> id, order |-> pending_requests[id],
                   order_id |-> p, fees_accepted |-> fees_accepted])
  BY DEF send_payment_details
<1> DEFINE a == [type |-> "result", id |-> id, order |-> pending_requests[id],
                 order_id |-> p, fees_accepted |-> fees_accepted]
<1>2. /\ p \in OrderIds /\ outbound[p].state = None
      /\ pending_requests[id] \in Orders
      /\ UNCHANGED <<inbound, to_lsp, failures, refunded>>
  BY <1>1 DEF generate_order_id, send_payment_details, client
<1>3. /\ a \in OrderAnswers /\ a \in Answers /\ a.order_id = p
      /\ a.order = pending_requests[id] /\ Answer(a)
  BY <1>1, <1>2 DEF Answers, OrderAnswers
<1> HIDE DEF a
<1>4. /\ outbound'[p].state = "OrderCreated" /\ outbound'[p].order = a.order
      /\ \A o \in OrderIds : o # p => outbound'[o] = outbound[o]
  BY <1>1, <1>2, <1>3 DEF TypeInv, LspOK
<1>5. /\ \A i \in DOMAIN to_client' :
           \/ i \in DOMAIN to_client /\ to_client'[i] = to_client[i]
           \/ i = Len(to_client) + 1 /\ to_client'[i] = a
  BY <1>3, AnswerAppended
<1>6. /\ \A i \in DOMAIN to_lsp : ~Queries(i, p)
      /\ \A i \in DOMAIN to_client : ~OffersOrder(i, p)
      /\ \A d \in Ordered : inbound[d].order_id # p
  BY <1>2 DEF OrderInv, QueriedOnce, OfferedOnce, OrderedOnce, None
<1>7. \A o \in OrderIds : outbound'[o].state = "gone" => "LSP" \in failures'
  BY <1>2, <1>4 DEF OrderInv
<1>8. QueriedOnce'
  <2> SUFFICES ASSUME NEW o \in OrderIds, NEW i \in DOMAIN to_lsp, Queries(i, o)
               PROVE  /\ outbound'[o].state \in {"OrderCreated", "gone"}
                      /\ \A j \in DOMAIN to_lsp : Queries(j, o) => j = i
    BY <1>2 DEF QueriedOnce, Queries
  <2>1. o # p
    BY <1>6
  <2>2. QED
    BY <1>4, <2>1 DEF OrderInv, QueriedOnce
<1>9. OfferedOnce'
  <2> SUFFICES ASSUME NEW o \in OrderIds, NEW i \in DOMAIN to_client', OffersOrder(i, o)'
               PROVE  /\ outbound'[o].state \in {"OrderCreated", "gone"}
                      /\ "LSP" \notin failures => outbound'[o].order = to_client'[i].order
                      /\ \A j \in DOMAIN to_client' : OffersOrder(j, o)' => j = i
                      /\ \A j \in DOMAIN to_lsp : ~Queries(j, o)
                      /\ \A d \in Ordered : inbound[d].order_id # o
    BY <1>2 DEF OfferedOnce, Queries, Ordered
  <2>1. \A j \in DOMAIN to_client', n \in OrderIds : OffersOrder(j, n)' =>
          \/ j \in DOMAIN to_client /\ OffersOrder(j, n) /\ n # p
          \/ j = Len(to_client) + 1 /\ n = p
    BY <1>3, <1>5, <1>6 DEF OffersOrder
  <2>2. CASE o = p
    <3>1. to_client'[i] = a
      BY <1>5, <1>6, <2>1, <2>2
    <3>2. QED
      BY <1>4, <1>6, <2>1, <2>2, <3>1
  <2>3. CASE o # p
    <3>1. i \in DOMAIN to_client /\ OffersOrder(i, o)
      BY <2>1, <2>3
    <3>2. /\ outbound[o].state \in {"OrderCreated", "gone"}
          /\ "LSP" \notin failures => outbound[o].order = to_client[i].order
          /\ \A j \in DOMAIN to_client : OffersOrder(j, o) => j = i
          /\ \A j \in DOMAIN to_lsp : ~Queries(j, o)
          /\ \A d \in Ordered : inbound[d].order_id # o
      BY <3>1 DEF OrderInv, OfferedOnce
    <3>3. to_client'[i] = to_client[i]
      <4>1. Len(to_client) + 1 \notin DOMAIN to_client
        BY <1>3, AnswerAppended
      <4>2. QED
        BY <1>5, <3>1, <4>1
    <3>4. QED
      BY <1>4, <2>1, <2>3, <3>2, <3>3
  <2>4. QED
    BY <2>2, <2>3
<1>10. OrderedOnce'
  <2> SUFFICES ASSUME NEW o \in OrderIds, NEW e \in Ordered, inbound[e].order_id = o
               PROVE  /\ \A d \in Ordered : inbound[d].order_id = o => d = e
                      /\ outbound'[o].state # None
                      /\ "LSP" \notin failures => outbound'[o].order = inbound[e].order
                      /\ inbound[e].state = "PendingPayment" =>
                           /\ outbound'[o].state \in {"OrderCreated", "gone"}
                           /\ \A j \in DOMAIN to_lsp : ~Queries(j, o)
    BY <1>2 DEF OrderedOnce, Ordered, Queries
  <2>1. o # p
    BY <1>6
  <2>2. QED
    BY <1>4, <2>1 DEF OrderInv, OrderedOnce
<1>11. QED
  BY <1>2, <1>7, <1>8, <1>9, <1>10 DEF OrderInv

(* The status of an order is no offer of it.                                *)
LEMMA OrdersOfStatus ==
  ASSUME TypeInv, OrderInv, NEW id \in Ids, update_order_status(id)
  PROVE  OrderInv'
<1> DEFINE a == [type |-> "result", id |-> id]
<1>1. /\ a \in Answers /\ a \notin OrderAnswers
  <2>1. a \in Answers
    BY DEF Answers, StatusAnswers
  <2>2. a \notin OrderAnswers
    BY DEF OrderAnswers
  <2>3. QED
    BY <2>1, <2>2
<1>2. Answer(a) /\ UNCHANGED <<inbound, outbound, refunded, to_lsp>>
      /\ failures \subseteq failures'
  BY DEF update_order_status, client, lsp
<1> HIDE DEF a
<1>3. \A i \in DOMAIN to_client' :
        \/ i \in DOMAIN to_client /\ to_client'[i] = to_client[i]
        \/ to_client'[i] = a
  BY <1>1, <1>2, AnswerAppended
<1>4. to_client' \in Seq(Answers) /\ to_lsp \in Seq(Requests)
  BY <1>1, <1>2, AppendElements DEF TypeInv, NetOK, Answer
<1>5. /\ \A i \in DOMAIN to_client' : i + 0 = i
      /\ \A i, j \in DOMAIN to_client' : i + 0 = j + 0 => i = j
      /\ \A i \in DOMAIN to_lsp' : i + 0 = i
      /\ \A i, j \in DOMAIN to_lsp' : i + 0 = j + 0 => i = j
  BY <1>2, <1>4
<1>6. \A i \in DOMAIN to_client', o \in OrderIds : OffersOrder(i, o)' =>
        /\ i + 0 \in DOMAIN to_client /\ OffersOrder(i + 0, o)
        /\ to_client'[i] = to_client[i + 0]
  BY <1>1, <1>3, <1>5 DEF OffersOrder
<1>7. \A i \in DOMAIN to_lsp', o \in OrderIds : Queries(i, o)' =>
        i + 0 \in DOMAIN to_lsp /\ Queries(i + 0, o)
  BY <1>2, <1>5 DEF Queries
<1>8. \A d \in Ordered' : d \in Ordered /\ inbound'[d] = inbound[d]
  BY <1>2 DEF Ordered
<1>9. QED
  BY <1>2, <1>5, <1>6, <1>7, <1>8, OrdersKept

(* Failures keep the invariant of the order ids.                            *)
LEMMA OrdersOfFailure ==
  ASSUME TypeInv, OrderInv, Disconnect \/ RestartClient \/ RestartLSP
  PROVE  OrderInv'
<1>1. /\ DOMAIN to_lsp' = {} /\ DOMAIN to_client' = {}
      /\ refunded' = {} /\ failures \subseteq failures'
      /\ RestartLSP => "LSP" \in failures'
  BY NetEmptied DEF OrderInv
<1>2. QueriedOnce' /\ OfferedOnce'
  BY <1>1 DEF QueriedOnce, OfferedOnce
<1>3. CASE RestartLSP
  <2>1. \A o \in OrderIds : outbound'[o].state = None \/ outbound'[o].state = "gone"
    BY <1>3 DEF RestartLSP, TypeInv, LspOK, OutboundChannels
  <2>2. \A o \in OrderIds : outbound[o].state # None => outbound'[o].state = "gone"
    BY <1>3 DEF RestartLSP, TypeInv, LspOK, OutboundChannels
  <2>3. inbound' = inbound
    BY <1>3 DEF RestartLSP, client
  <2>4. OrderedOnce'
    BY <1>1, <1>3, <2>2, <2>3 DEF OrderInv, OrderedOnce, Ordered, None
  <2>5. QED
    BY <1>1, <1>2, <1>3, <2>4 DEF OrderInv
<1>4. CASE Disconnect
  <2>1. OrderedOnce'
    BY <1>1, <1>4 DEF Disconnect, client, lsp, OrderInv, OrderedOnce, Ordered
  <2>2. QED
    BY <1>1, <1>2, <1>4, <2>1 DEF Disconnect, lsp, OrderInv
<1>5. CASE RestartClient
  <2>1. Ordered' = {}
    BY <1>5 DEF RestartClient, Ordered, NoInbound, Inbound, None
  <2>2. OrderedOnce'
    BY <2>1 DEF OrderedOnce
  <2>3. QED
    BY <1>1, <1>2, <1>5, <2>2 DEF RestartClient, lsp, OrderInv
<1>6. QED
  BY <1>3, <1>4, <1>5

(* The invariants hold initially.                                           *)
LEMMA InitOrderInv == Init => OrderInv /\ OptionsInv /\ TokenInv
<1> SUFFICES ASSUME Init PROVE OrderInv /\ OptionsInv /\ TokenInv
  OBVIOUS
<1>1. /\ DOMAIN to_lsp = {} /\ DOMAIN to_client = {} /\ refunded = {} /\ refused = {}
      /\ outbound = [o \in OrderIds |-> [state |-> None, order |-> None]]
      /\ pending_requests = [id \in Ids |-> None]
      /\ inbound = [c \in Channels |-> NoInbound] /\ ignores_lsp = FALSE
  BY EmptyTypes DEF Init, InitClient
<1>2. OptionsInv
  BY <1>1 DEF OptionsInv, NoInbound, Inbound
<1>3. OrderInv
  <2>1. Ordered = {}
    BY <1>1 DEF Ordered, NoInbound, Inbound, None
  <2>2. \A o \in OrderIds : outbound[o].state # "gone"
    BY <1>1 DEF None
  <2>3. QED
    BY <1>1, <2>1, <2>2 DEF OrderInv, QueriedOnce, OfferedOnce, OrderedOnce
<1>4. TokenInv
  BY <1>1, Constants DEF TokenInv, Sent, Answered, Waiting, Unanswered
<1>5. QED
  BY <1>2, <1>3, <1>4

(* Every step keeps the invariant of the order ids.                         *)
LEMMA NextOrderInv == TypeInv /\ OrderInv /\ [Next]_vars => OrderInv'
<1> SUFFICES ASSUME TypeInv, OrderInv, [Next]_vars PROVE OrderInv'
  OBVIOUS
<1>1. CASE UNCHANGED vars
  <2>1. \A d \in Ordered' : d \in Ordered /\ inbound'[d] = inbound[d]
    BY <1>1 DEF vars, client, Ordered
  <2>2. failures \subseteq failures' /\ UNCHANGED <<refunded, outbound, to_lsp, to_client>>
    BY <1>1 DEF vars, lsp, net
  <2>3. QED
    BY <2>1, <2>2, OrdersOfQuietStep
<1>2. ASSUME Next PROVE OrderInv'
  BY <1>2, OrdersOfApi, OrdersOfClient, OrdersOfLsp, OrdersOfNewOrder, OrdersOfStatus,
     OrdersOfFailure DEF Next
<1>3. QED
  BY <1>1, <1>2

-----------------------------------------------------------------------------
(* The inductive invariant.                                                *)
IInv == TypeInv /\ OrderInv /\ OptionsInv /\ TokenInv

(* The inductive invariant holds throughout.                                *)
LEMMA IInvHolds == Spec => []IInv
<1>1. Init => IInv
  BY InitTypeInv, InitOrderInv DEF IInv
<1>2. IInv /\ [Next]_vars => IInv'
  BY NextTypeInv, NextOrderInv, NextOptionsInv, NextTokenInv DEF IInv
<1>3. QED
  BY <1>1, <1>2, PTL DEF Spec

(* The order a client is asked to pay is the LSP's order with its own       *)
(* parameters, and no other channel's (lsps1/client.rs:92-126,              *)
(* service.rs:254-280).                                                     *)
THEOREM OrdersAgreeHolds == Spec => []OrdersAgree
<1>1. IInv => OrdersAgree
  <2> SUFFICES ASSUME IInv, "LSP" \notin failures, NEW c \in Ordered,
                      NEW o, o = inbound[c].order_id
               PROVE  /\ outbound[o].order = inbound[c].order
                      /\ outbound[o].state \in {"OrderCreated", "WaitingPayment"}
                      /\ inbound[c].state = "PendingPayment"
                           => outbound[o].state = "OrderCreated"
                      /\ \A d \in Ordered : inbound[d].order_id = o => d = c
    BY DEF OrdersAgree
  <2>1. o \in OrderIds
    BY DEF IInv, TypeInv, OrderedOK, Ordered
  <2>2. outbound[o] \in OutboundChannels /\ outbound[o].state # "gone"
    BY <2>1 DEF IInv, TypeInv, LspOK, OrderInv
  <2>3. QED
    BY <2>1, <2>2 DEF IInv, OrderInv, OrderedOnce, OutboundChannels
<1>2. QED
  BY <1>1, IInvHolds, PTL

(* No order is refunded for having been queried (lsps1/service.rs:330-338), *)
(* whatever fails.                                                          *)
THEOREM OrdersAreNotRefundedHolds == Spec => []OrdersAreNotRefunded
<1>1. IInv => OrdersAreNotRefunded
  BY DEF IInv, OrderInv, OrdersAreNotRefunded
<1>2. QED
  BY <1>1, IInvHolds, PTL

(* An order the client found valid is refused only after a restart of the   *)
(* LSP (lsps1/client.rs:73-90, service.rs:194-211).                         *)
THEOREM OrdersAreNotRefusedHolds == Spec => []OrdersAreNotRefused
<1>1. IInv => OrdersAreNotRefused
  BY DEF IInv, OptionsInv, OrdersAreNotRefused
<1>2. QED
  BY <1>1, IInvHolds, PTL

(* The client ignores the LSP only after its own restart or for a query that*)
(* was answered twice (manager.rs:501-515).                                 *)
THEOREM PeersAreNotIgnoredHolds == Spec => []PeersAreNotIgnored
<1>1. IInv => PeersAreNotIgnored
  BY DEF IInv, TokenInv, PeersAreNotIgnored
<1>2. QED
  BY <1>1, IInvHolds, PTL
=============================================================================
