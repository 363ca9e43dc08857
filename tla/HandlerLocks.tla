---------------------------- MODULE HandlerLocks ----------------------------
(***************************************************************************)
(* The locks of LSPS2ServiceHandler, LiquidityManager and MessageQueue, in  *)
(* the order in which each public call takes and drops them.  The           *)
(* application may run the calls on any thread.                             *)
(*                                                                         *)
(* "scid" is peer_by_intercept_scid, "channel" peer_by_channel_id, "peers"  *)
(* per_peer_state, "peer" the Mutex of the counterparty's PeerState,        *)
(* "ignored" ignored_peers, "methods" request_id_to_method_map, "messages"  *)
(* the queue of MessageQueue and "callback" its process_msgs_callback.      *)
(***************************************************************************)
EXTENDS Integers, Sequences, FiniteSets, FiniteSetsExt

CONSTANTS Threads,
          Calls           \* the calls the application makes

Locks == {"scid", "channel", "peers", "peer",
          "ignored", "methods", "messages", "callback"}

read(lock)  == <<"read", lock>>
write(lock) == <<"write", lock>>  \* the write guard of a RwLock, or a Mutex
drop(lock)  == <<"drop", lock>>

scoped(lock) == <<write(lock), drop(lock)>>

(* What process_msgs_callback runs in the documented setup:                 *)
(* PeerManager::process_events asks for the pending messages, whose methods *)
(* are recorded before they are serialised.                                 *)
get_and_clear_pending_msg == scoped("messages") \o scoped("methods")

(* MessageQueue::enqueue, with the callback set.                            *)
enqueue == scoped("messages") \o <<read("callback")>>
             \o get_and_clear_pending_msg \o <<drop("callback")>>

(* Mutant: the method map stays locked while the error is reported, the     *)
(* deadlock CHANGELOG.md:8-9 says was fixed.                                *)
parse_failure_under_lock ==
  <<read("ignored"), drop("ignored"), write("methods")>>
     \o enqueue \o scoped("ignored")

(* handle_custom_message with a message it cannot parse.                    *)
parse_failure == <<read("ignored"), drop("ignored")>>
                   \o scoped("methods") \o enqueue \o scoped("ignored")

(* Receiving a request, up to the answer of an invalid one.                 *)
parse_request == <<read("ignored"), drop("ignored")>> \o scoped("methods")

(* The lock operations of a call; all guards left are dropped on return.    *)
Program(call) ==
  CASE call = "htlc_intercepted" ->
         <<read("scid"), read("peers"), write("peer")>>
    [] call \in {"htlc_handling_failed", "payment_forwarded"} ->
         <<read("channel"), read("peers"), write("peer")>>
    [] call = "channel_ready" ->
         scoped("channel") \o <<read("peers"), write("peer")>>
    [] call = "invoice_parameters_generated" ->
         <<read("peers"), write("peer")>> \o scoped("scid")
           \o <<drop("peer"), drop("peers")>> \o enqueue
    [] call \in {"opening_fee_params_generated", "invalid_token_provided"} ->
         <<read("peers"), write("peer"), drop("peer"), drop("peers")>>
           \o enqueue
    [] call = "handle_request" ->
         parse_request \o <<write("peers"), write("peer")>>
    [] call = "refuse_request" -> parse_request \o enqueue
    [] call = "parse_failure" -> parse_failure
    [] call = "get_and_clear_pending_msg" -> get_and_clear_pending_msg
    [] call = "set_process_msgs_callback" -> scoped("callback")

VARIABLES call,  \* the call each thread is in, or "none"
          step   \* the next operation of its program

vars == <<call, step>>

Init == /\ call = [t \in Threads |-> "none"]
        /\ step = [t \in Threads |-> 1]

(* How thread t holds a lock: by its last operation on it.                  *)
Guard(t, lock) ==
  LET before == {k \in 1..(step[t] - 1) : Program(call[t])[k][2] = lock}
  IN  IF call[t] = "none" \/ before = {} THEN "drop"
      ELSE Program(call[t])[Max(before)][1]

Busy(t) == call[t] # "none" /\ step[t] <= Len(Program(call[t]))

(* The threads whose guards refuse t its next operation.                    *)
Holders(t) ==
  LET op == Program(call[t])[step[t]]
  IN  CASE op[1] = "read" -> {u \in Threads : Guard(u, op[2]) = "write"}
        [] op[1] = "write" -> {u \in Threads : Guard(u, op[2]) # "drop"}
        [] op[1] = "drop" -> {}

(* The threads that may wait for the write guard of the lock t wants to     *)
(* read: the RwLock of std lets a waiting writer go first.                  *)
WaitingWriters(t) ==
  LET op == Program(call[t])[step[t]]
  IN  {u \in Threads \ {t} :
         op[1] = "read" /\ Busy(u)
           /\ Program(call[u])[step[u]] = write(op[2])}

Start(t, c) == /\ call[t] = "none"
               /\ call' = [call EXCEPT ![t] = c]
               /\ UNCHANGED step

Advance(t) == /\ Busy(t)
              /\ Holders(t) = {}
              /\ step' = [step EXCEPT ![t] = @ + 1]
              /\ UNCHANGED call

Return(t) == /\ call[t] # "none"
             /\ ~Busy(t)
             /\ call' = [call EXCEPT ![t] = "none"]
             /\ step' = [step EXCEPT ![t] = 1]

Next == \E t \in Threads : \/ \E c \in Calls : Start(t, c)
                           \/ Advance(t)
                           \/ Return(t)

Spec == Init /\ [][Next]_vars

(* No threads wait for each other in a circle, a waiting writer holding     *)
(* back the readers that come after it included.                            *)
NoDeadlock ==
  \A S \in (SUBSET Threads) \ {{}} :
    \E t \in S : ~Busy(t) \/ (Holders(t) \cup WaitingWriters(t)) \cap S = {}
=============================================================================
