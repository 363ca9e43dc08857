----------------------------- MODULE EventQueue -----------------------------
(***************************************************************************)
(* events.rs: the queue between the protocol handlers and the application.  *)
(* Handlers enqueue on any thread.  The application takes events with       *)
(* async tasks (next_event_async), with blocking threads (wait_next_event)  *)
(* and without waiting (next_event, get_and_clear_pending_events).          *)
(*                                                                         *)
(* A step is what happens between two lock acquisitions.  poll registers    *)
(* its waker while the guard of the empty queue it looked at is still       *)
(* alive, so that it is one step.                                           *)
(***************************************************************************)
EXTENDS Integers, Sequences, SequencesExt

CONSTANTS Producers, Tasks, Waiters,
          MaxEvents,    \* bound: events enqueued
          NoTask        \* the empty waker slot

ASSUME EventQueueAssumption == MaxEvents \in Nat /\ NoTask \notin Tasks

VARIABLES queue,     \* VecDeque of events, as their numbers
          waker,     \* the task whose Waker is registered
          enqueued,  \* how many events were enqueued so far
          pc         \* what each producer and consumer does next

vars == <<queue, waker, enqueued, pc>>

Consumers == Tasks \cup Waiters

(* "idle": not in a call.  Producers and waiters: "wake" before the waker   *)
(* is taken, "notify" before notify_one.  Waiters: "wait" in the condvar,   *)
(* "check" when about to look at the queue.  Tasks: "poll" when scheduled,  *)
(* "pending" when not.                                                      *)
Init == /\ queue = <<>>
        /\ waker = NoTask
        /\ enqueued = 0
        /\ pc = [p \in Producers \cup Consumers |-> "idle"]

Goto(p, label) == pc' = [pc EXCEPT ![p] = label]

-----------------------------------------------------------------------------
(* enqueue: push, wake the registered task, notify one thread.              *)
enqueue(p) == /\ pc[p] = "idle"
              /\ enqueued < MaxEvents
              /\ enqueued' = enqueued + 1
              /\ queue' = Append(queue, enqueued')
              /\ Goto(p, "wake")
              /\ UNCHANGED waker

(* Waker::wake schedules the task it belongs to.                            *)
TakeWaker(p) ==
  /\ pc[p] = "wake"
  /\ waker' = NoTask
  /\ pc' = [q \in DOMAIN pc |->
              CASE q = p -> "notify"
                [] q = waker /\ pc[q] = "pending" -> "poll"
                [] OTHER -> pc[q]]
  /\ UNCHANGED <<queue, enqueued>>

NotifyOne(p) ==
  /\ pc[p] = "notify"
  /\ \/ \E w \in Waiters : /\ pc[w] = "wait"
                           /\ pc' = [pc EXCEPT ![p] = "idle", ![w] = "check"]
     \/ /\ \A w \in Waiters : pc[w] # "wait"
        /\ Goto(p, "idle")
  /\ UNCHANGED <<queue, waker, enqueued>>

(* An application thread or task asks for the next event.                   *)
Call(c) == /\ pc[c] = "idle"
           /\ Goto(c, IF c \in Tasks THEN "poll" ELSE "check")
           /\ UNCHANGED <<queue, waker, enqueued>>

(* Mutant of poll: the queue is unlocked before the waker is registered,    *)
(* and the first of the two steps is repeated by nobody.                    *)
poll_unlocked(t) ==
  /\ \/ /\ pc[t] = "poll"
        /\ queue # <<>>
        /\ queue' = Tail(queue)
        /\ Goto(t, "idle")
        /\ UNCHANGED waker
     \/ /\ pc[t] = "poll"
        /\ queue = <<>>
        /\ Goto(t, "register")
        /\ UNCHANGED <<queue, waker>>
     \/ /\ pc[t] = "register"
        /\ waker' = t
        /\ Goto(t, "pending")
        /\ UNCHANGED queue
  /\ UNCHANGED enqueued

(* EventFuture::poll: take an event, or register the task's waker in place  *)
(* of any other.                                                            *)
poll(t) ==
  /\ pc[t] = "poll"
  /\ IF queue # <<>>
     THEN queue' = Tail(queue) /\ Goto(t, "idle") /\ UNCHANGED waker
     ELSE waker' = t /\ Goto(t, "pending") /\ UNCHANGED queue
  /\ UNCHANGED enqueued

(* wait_next_event: wait for the queue to be non-empty and take an event;   *)
(* pass the notification on when events remain.                             *)
wait_next_event(w) ==
  /\ pc[w] = "check"
  /\ IF queue = <<>>
     THEN Goto(w, "wait") /\ UNCHANGED queue
     ELSE /\ queue' = Tail(queue)
          /\ Goto(w, IF Len(queue) > 1 THEN "wake" ELSE "idle")
  /\ UNCHANGED <<waker, enqueued>>

(* next_event and get_and_clear_pending_events.                             *)
next_event == /\ queue # <<>>
              /\ queue' = Tail(queue)
              /\ UNCHANGED <<waker, enqueued, pc>>

get_and_clear_pending_events == /\ queue # <<>>
                                /\ queue' = <<>>
                                /\ UNCHANGED <<waker, enqueued, pc>>

-----------------------------------------------------------------------------
Progress(p) == TakeWaker(p) \/ NotifyOne(p)

Next == \/ \E p \in Producers : enqueue(p)
        \/ \E p \in Producers \cup Waiters : Progress(p)
        \/ \E c \in Consumers : Call(c)
        \/ \E t \in Tasks : poll(t)
        \/ \E w \in Waiters : wait_next_event(w)
        \/ next_event
        \/ get_and_clear_pending_events

Spec == Init /\ [][Next]_vars

(* Threads that are in a call run, and the executor polls scheduled tasks.  *)
(* Nothing forces the application to ask for another event.                 *)
FairSpec == /\ Spec
            /\ \A p \in Producers \cup Waiters : WF_vars(Progress(p))
            /\ \A t \in Tasks : WF_vars(poll(t))
            /\ \A w \in Waiters : WF_vars(wait_next_event(w))

Asleep(c) == pc[c] \in {"pending", "wait"}

(* manager.rs:365 and 380: a call returns once the next event is ready: no  *)
(* consumer sleeps on while an event stays in the queue.                    *)
NoConsumerSleepsOn ==
  \A c \in Consumers :
    Asleep(c) /\ queue # <<>> ~> ~Asleep(c) \/ queue = <<>>
=============================================================================
