------------------------- MODULE HandlerLocksProofs -------------------------
(***************************************************************************)
(* Theorem about HandlerLocks: whatever the number of threads, no circle of *)
(* threads wait for each other, unless the application answers a buy        *)
(* request.  Every other call takes the locks in one order.                 *)
(***************************************************************************)
EXTENDS HandlerLocks, SequenceTheorems, WellFoundedInduction, TLAPS

(* The calls that take the locks in order: all but                          *)
(* invoice_parameters_generated, which takes peer_by_intercept_scid while   *)
(* it holds the peer's state (service.rs:613-627).                          *)
OrderedCalls ==
  {"htlc_intercepted", "htlc_handling_failed", "payment_forwarded",
   "channel_ready", "opening_fee_params_generated", "invalid_token_provided",
   "handle_request", "refuse_request", "parse_failure",
   "get_and_clear_pending_msg", "set_process_msgs_callback"}

(* The order of the locks.                                                  *)
Rank(lock) == CASE lock = "scid"     -> 1
                [] lock = "channel"  -> 2
                [] lock = "peers"    -> 3
                [] lock = "peer"     -> 4
                [] lock = "ignored"  -> 5
                [] lock = "callback" -> 6
                [] lock = "messages" -> 7
                [] lock = "methods"  -> 8

Operations == {"read", "write", "drop"} \X Locks

(* Operation j of a program took a lock that is not dropped before k.       *)
HeldAt(program, j, k) ==
  /\ program[j][1] # "drop"
  /\ \A m \in (j + 1)..(k - 1) : program[m][2] # program[j][2]

(* A lock is only taken when its rank is above those of the locks held.     *)
Ordered(program) ==
  \A k \in 1..Len(program) : \A j \in 1..(k - 1) :
    program[k][1] # "drop" /\ HeldAt(program, j, k)
      => Rank(program[j][2]) < Rank(program[k][2])

-----------------------------------------------------------------------------
(* The programs.                                                            *)

(* No lock is held at the end.                                              *)
Released(program) ==
  \A j \in 1..Len(program) : ~HeldAt(program, j, Len(program) + 1)

(* The program is well formed, and takes the locks in order.                *)
Sound(program) == program \in Seq(Operations) /\ Ordered(program)

(* What concatenating two lists gives.                                      *)
LEMMA ConcatLists ==
  ASSUME NEW s \in Seq(Operations), NEW t \in Seq(Operations)
  PROVE  /\ s \o t \in Seq(Operations)
         /\ Len(s \o t) = Len(s) + Len(t)
         /\ \A k \in 1..Len(s) : (s \o t)[k] = s[k]
         /\ \A k \in 1..Len(t) : (s \o t)[Len(s) + k] = t[k]
<1>1. /\ s \o t \in Seq(Operations)
      /\ Len(s \o t) = Len(s) + Len(t)
      /\ \A i \in 1..(Len(s) + Len(t)) :
           (s \o t)[i] = IF i <= Len(s) THEN s[i] ELSE t[i - Len(s)]
  BY ConcatProperties
<1>2. ASSUME NEW k \in 1..Len(t) PROVE (s \o t)[Len(s) + k] = t[k]
  <2>1. /\ Len(s) + k \in 1..(Len(s) + Len(t)) /\ ~(Len(s) + k <= Len(s))
        /\ Len(s) + k - Len(s) = k
    OBVIOUS
  <2> QED
    BY <1>1, <2>1
<1> QED
  BY <1>1, <1>2

(* A lock that is taken and dropped.                                        *)
LEMMA ScopedLists ==
  ASSUME NEW lock \in Locks
  PROVE  /\ scoped(lock) \in Seq(Operations) /\ Len(scoped(lock)) = 2
         /\ scoped(lock)[1] = write(lock) /\ scoped(lock)[2] = drop(lock)
<1>1. write(lock) \in Operations /\ drop(lock) \in Operations
  BY DEF write, drop, Operations
<1> HIDE DEF write, drop, Operations
<1> QED
  BY <1>1 DEF scoped

(* MessageQueue::get_and_clear_pending_msgs and the methods it records.     *)
LEMMA ClearingLists ==
  LET p == get_and_clear_pending_msg
  IN  /\ p \in Seq(Operations) /\ Len(p) = 4
      /\ p[1] = write("messages") /\ p[2] = drop("messages")
      /\ p[3] = write("methods") /\ p[4] = drop("methods")
<1> DEFINE s == scoped("messages")
           t == scoped("methods")
           p == get_and_clear_pending_msg
<1>1. /\ s \in Seq(Operations) /\ Len(s) = 2
      /\ s[1] = write("messages") /\ s[2] = drop("messages")
  BY ScopedLists DEF Locks
<1>2. /\ t \in Seq(Operations) /\ Len(t) = 2
      /\ t[1] = write("methods") /\ t[2] = drop("methods")
  BY ScopedLists DEF Locks
<1>3. p = s \o t
  BY DEF get_and_clear_pending_msg
<1> HIDE DEF s, t, p
<1>4. /\ p \in Seq(Operations) /\ Len(p) = 2 + 2
      /\ \A k \in 1..2 : p[k] = s[k]
      /\ \A k \in 1..2 : p[2 + k] = t[k]
  BY <1>1, <1>2, <1>3, ConcatLists
<1> QED
  BY <1>1, <1>2, <1>4 DEF p

(* MessageQueue::enqueue.                                                   *)
LEMMA EnqueueLists ==
  LET p == enqueue
  IN  /\ p \in Seq(Operations) /\ Len(p) = 8
      /\ p[1] = write("messages") /\ p[2] = drop("messages")
      /\ p[3] = read("callback")
      /\ p[4] = write("messages") /\ p[5] = drop("messages")
      /\ p[6] = write("methods") /\ p[7] = drop("methods")
      /\ p[8] = drop("callback")
<1> DEFINE s == scoped("messages")
           r == <<read("callback")>>
           c == get_and_clear_pending_msg
           d == <<drop("callback")>>
           sr == s \o r
           src == sr \o c
           p == enqueue
<1>1. /\ s \in Seq(Operations) /\ Len(s) = 2
      /\ s[1] = write("messages") /\ s[2] = drop("messages")
  BY ScopedLists DEF Locks
<1>2. /\ c \in Seq(Operations) /\ Len(c) = 4
      /\ c[1] = write("messages") /\ c[2] = drop("messages")
      /\ c[3] = write("methods") /\ c[4] = drop("methods")
  BY ClearingLists
<1>3. /\ r \in Seq(Operations) /\ Len(r) = 1 /\ r[1] = read("callback")
      /\ d \in Seq(Operations) /\ Len(d) = 1 /\ d[1] = drop("callback")
  <2>1. read("callback") \in Operations /\ drop("callback") \in Operations
    BY DEF read, drop, Operations, Locks
  <2> QED
    BY <2>1
<1>4. p = src \o d
  BY DEF enqueue
<1> HIDE DEF s, r, c, d, p
<1>5. /\ sr \in Seq(Operations) /\ Len(sr) = 3
      /\ sr[1] = s[1] /\ sr[2] = s[2] /\ sr[3] = r[1]
  <2>1. /\ sr \in Seq(Operations) /\ Len(sr) = 2 + 1
        /\ \A k \in 1..2 : sr[k] = s[k]
        /\ \A k \in 1..1 : sr[2 + k] = r[k]
    BY <1>1, <1>3, ConcatLists
  <2> HIDE DEF sr
  <2> QED
    BY <2>1
<1> HIDE DEF sr
<1>6. /\ src \in Seq(Operations) /\ Len(src) = 7
      /\ \A k \in 1..3 : src[k] = sr[k]
      /\ src[4] = c[1] /\ src[5] = c[2] /\ src[6] = c[3] /\ src[7] = c[4]
  <2>1. /\ src \in Seq(Operations) /\ Len(src) = 3 + 4
        /\ \A k \in 1..3 : src[k] = sr[k]
        /\ \A k \in 1..4 : src[3 + k] = c[k]
    <3>1. /\ src \in Seq(Operations) /\ Len(src) = Len(sr) + Len(c)
          /\ \A k \in 1..Len(sr) : src[k] = sr[k]
          /\ \A k \in 1..Len(c) : src[Len(sr) + k] = c[k]
      BY <1>2, <1>5, ConcatLists
    <3> HIDE DEF src
    <3> QED
      BY <1>2, <1>5, <3>1
  <2> HIDE DEF src
  <2> QED
    BY <2>1
<1> HIDE DEF src
<1>7. /\ p \in Seq(Operations) /\ Len(p) = 8
      /\ \A k \in 1..7 : p[k] = src[k]
      /\ p[8] = d[1]
  <2>1. /\ p \in Seq(Operations) /\ Len(p) = 7 + 1
        /\ \A k \in 1..7 : p[k] = src[k]
        /\ \A k \in 1..1 : p[7 + k] = d[k]
    <3>1. /\ p \in Seq(Operations) /\ Len(p) = Len(src) + Len(d)
          /\ \A k \in 1..Len(src) : p[k] = src[k]
          /\ \A k \in 1..Len(d) : p[Len(src) + k] = d[k]
      BY <1>3, <1>4, <1>6, ConcatLists
    <3> QED
      BY <1>3, <1>6, <3>1
  <2> QED
    BY <2>1
<1>8. /\ p[1] = src[1] /\ p[2] = src[2] /\ p[3] = src[3] /\ p[4] = src[4]
      /\ p[5] = src[5] /\ p[6] = src[6] /\ p[7] = src[7]
      /\ src[1] = sr[1] /\ src[2] = sr[2] /\ src[3] = sr[3]
  BY <1>6, <1>7
<1> QED
  BY <1>1, <1>2, <1>3, <1>5, <1>6, <1>7, <1>8 DEF p

-----------------------------------------------------------------------------
(* The order in each program.                                               *)

(* A program that releases its locks may be followed by another.            *)
LEMMA OrderedConcat ==
  ASSUME NEW s, NEW t, Sound(s), Released(s), Sound(t)
  PROVE  Sound(s \o t) /\ (Released(t) => Released(s \o t))
<1> DEFINE p == s \o t
           n == Len(s)
           o == Len(t)
<1>1. /\ s \in Seq(Operations) /\ t \in Seq(Operations) /\ n \in Nat /\ o \in Nat
      /\ Ordered(s) /\ Ordered(t)
  BY DEF Sound
<1>2. /\ p \in Seq(Operations) /\ Len(p) = n + o
      /\ \A k \in 1..n : p[k] = s[k]
      /\ \A k \in 1..o : p[n + k] = t[k]
  BY <1>1, ConcatLists
<1> HIDE DEF p, n, o
<1>3. ASSUME NEW j \in 1..n, NEW k \in 1..(n + o + 1), HeldAt(p, j, k), j < k
      PROVE  k \in 1..n /\ HeldAt(s, j, k)
  <2>1. CASE k \in 1..n
    <3>1. \A m \in (j + 1)..(k - 1) : m \in 1..n
      BY <1>1, <2>1
    <3> QED
      BY <1>2, <1>3, <2>1, <3>1 DEF HeldAt
  <2>2. CASE k > n
    <3>1. \A m \in (j + 1)..n : m \in 1..n /\ m \in (j + 1)..(k - 1)
      BY <1>1, <2>2
    <3>2. HeldAt(s, j, n + 1)
      <4>1. s[j] = p[j] /\ p[j][1] # "drop"
        BY <1>2, <1>3 DEF HeldAt
      <4>2. \A m \in (j + 1)..n : s[m] = p[m] /\ p[m][2] # p[j][2]
        BY <1>2, <1>3, <3>1 DEF HeldAt
      <4>3. (n + 1) - 1 = n
        BY <1>1
      <4>4. \A m \in (j + 1)..((n + 1) - 1) : s[m][2] # s[j][2]
        BY <4>1, <4>2, <4>3, Zenon
      <4>5. s[j][1] # "drop"
        BY <4>1
      <4> QED
        BY <4>4, <4>5, Zenon DEF HeldAt
    <3> QED
      BY <3>2 DEF Released, n
  <2> QED
    BY <1>1, <2>1, <2>2
<1>4. ASSUME NEW j \in 1..o, NEW k \in 1..(o + 1), HeldAt(p, n + j, n + k)
      PROVE  HeldAt(t, j, k)
  <2>1. p[n + j] = t[j]
    BY <1>2
  <2>2. ASSUME NEW m \in (j + 1)..(k - 1) PROVE t[m][2] # t[j][2]
    <3>1. /\ m \in 1..o
          /\ n + m \in ((n + j) + 1)..((n + k) - 1)
      BY <1>1
    <3>2. p[n + m] = t[m]
      BY <1>2, <3>1
    <3>3. p[n + m][2] # p[n + j][2]
      <4>1. \A x \in ((n + j) + 1)..((n + k) - 1) : p[x][2] # p[n + j][2]
        BY <1>4, Zenon DEF HeldAt
      <4> QED
        BY <3>1, <4>1, Zenon
    <3> QED
      BY <2>1, <3>2, <3>3
  <2> QED
    BY <1>4, <2>1, <2>2 DEF HeldAt
<1>5. \A j \in 1..(n + o) : j \in 1..n \/ \E i \in 1..o : j = n + i
  <2> SUFFICES ASSUME NEW j \in 1..(n + o), j \notin 1..n
               PROVE  \E i \in 1..o : j = n + i
    OBVIOUS
  <2>1. j - n \in 1..o /\ j = n + (j - n)
    BY <1>1
  <2> QED
    BY <2>1
<1>6. Ordered(p)
  <2> SUFFICES ASSUME NEW k \in 1..(n + o), NEW j \in 1..(k - 1),
                      p[k][1] # "drop", HeldAt(p, j, k)
               PROVE  Rank(p[j][2]) < Rank(p[k][2])
    BY <1>2 DEF Ordered
  <2>1. j \in 1..(n + o) /\ j < k /\ k \in 1..(n + o + 1)
    BY <1>1
  <2>2. CASE j \in 1..n
    <3>1. k \in 1..n /\ HeldAt(s, j, k)
      BY <1>3, <2>1, <2>2
    <3>2. p[j] = s[j] /\ p[k] = s[k]
      BY <1>2, <2>2, <3>1
    <3> QED
      BY <1>1, <3>1, <3>2 DEF Ordered, n
  <2>3. CASE j \notin 1..n
    <3>1. PICK i \in 1..o : j = n + i
      BY <1>5, <2>1, <2>3
    <3>2. PICK l \in 1..o : k = n + l
      BY <1>1, <1>5, <2>1, <2>3
    <3>3. i \in 1..(l - 1) /\ l \in 1..(o + 1)
      BY <1>1, <2>1, <3>1, <3>2
    <3>4. HeldAt(t, i, l)
      BY <1>4, <3>1, <3>2, <3>3
    <3>5. p[j] = t[i] /\ p[k] = t[l]
      BY <1>2, <3>1, <3>2
    <3> QED
      BY <1>1, <3>3, <3>4, <3>5 DEF Ordered, o
  <2> QED
    BY <2>2, <2>3
<1>7. ASSUME Released(t) PROVE Released(p)
  <2> SUFFICES ASSUME NEW j \in 1..(n + o), HeldAt(p, j, n + o + 1)
               PROVE  FALSE
    BY <1>2 DEF Released
  <2>1. n + o + 1 \in 1..(n + o + 1) /\ j < n + o + 1 /\ n + o + 1 \notin 1..n
    BY <1>1
  <2>2. j \notin 1..n
    BY <1>3, <2>1
  <2>3. PICK i \in 1..o : j = n + i
    BY <1>5, <2>2
  <2>4. o + 1 \in 1..(o + 1) /\ n + o + 1 = n + (o + 1)
    BY <1>1
  <2>5. HeldAt(t, i, o + 1)
    BY <1>4, <2>3, <2>4
  <2> QED
    BY <1>7, <2>5 DEF Released, o
<1> QED
  BY <1>2, <1>6, <1>7 DEF Sound, p

(* Taking and dropping one lock.                                            *)
LEMMA ScopedIsSound ==
  ASSUME NEW lock \in Locks
  PROVE  Sound(scoped(lock)) /\ Released(scoped(lock))
<1> DEFINE p == scoped(lock)
<1>1. /\ p \in Seq(Operations) /\ Len(p) = 2
      /\ p[1][2] = lock /\ p[2][1] = "drop" /\ p[2][2] = lock
  BY ScopedLists DEF write, drop
<1> HIDE DEF p
<1>2. Ordered(p)
  BY <1>1 DEF Ordered
<1>3. Released(p)
  <2>1. ASSUME NEW j \in 1..2 PROVE ~HeldAt(p, j, 3)
    <3>1. CASE j = 1
      <4>1. 2 \in (j + 1)..(3 - 1)
        BY <3>1
      <4> QED
        BY <1>1, <3>1, <4>1 DEF HeldAt
    <3>2. CASE j = 2
      BY <1>1, <3>2 DEF HeldAt
    <3> QED
      BY <3>1, <3>2
  <2> QED
    BY <1>1, <2>1 DEF Released
<1> QED
  BY <1>1, <1>2, <1>3 DEF Sound, p

(* Collecting the messages.                                                 *)
LEMMA ClearingIsSound ==
  Sound(get_and_clear_pending_msg) /\ Released(get_and_clear_pending_msg)
BY ScopedIsSound, OrderedConcat DEF get_and_clear_pending_msg, Locks

(* Enqueueing: the callback is held while the messages are collected.       *)
LEMMA EnqueueIsSound == Sound(enqueue) /\ Released(enqueue)
<1> DEFINE p == enqueue
<1>1. /\ p \in Seq(Operations) /\ Len(p) = 8
      /\ p[1][1] # "drop" /\ p[1][2] = "messages"
      /\ p[2][1] = "drop" /\ p[2][2] = "messages"
      /\ p[3][1] # "drop" /\ p[3][2] = "callback"
      /\ p[4][1] # "drop" /\ p[4][2] = "messages"
      /\ p[5][1] = "drop" /\ p[5][2] = "messages"
      /\ p[6][1] # "drop" /\ p[6][2] = "methods"
      /\ p[7][1] = "drop" /\ p[7][2] = "methods"
      /\ p[8][1] = "drop" /\ p[8][2] = "callback"
  BY EnqueueLists DEF read, write, drop
<1> HIDE DEF p
<1>2. ASSUME NEW j \in 1..8, NEW k \in 1..9, j < k, HeldAt(p, j, k)
      PROVE  \/ j = 3
             \/ j \in {1, 4, 6} /\ k = j + 1
  <2>1. p[j][1] # "drop" /\ \A m \in (j + 1)..(k - 1) : p[m][2] # p[j][2]
    BY <1>2 DEF HeldAt
  <2>2. j \in {1, 3, 4, 6}
    BY <1>1, <2>1
  <2>3. j \in {1, 4, 6} => p[j + 1][2] = p[j][2]
    BY <1>1
  <2>4. j + 1 \notin (j + 1)..(k - 1) => k = j + 1
    BY <1>2
  <2> QED
    BY <2>1, <2>2, <2>3, <2>4
<1>3. Ordered(p)
  <2> SUFFICES ASSUME NEW k \in 1..8, NEW j \in 1..(k - 1),
                      p[k][1] # "drop", HeldAt(p, j, k)
               PROVE  Rank(p[j][2]) < Rank(p[k][2])
    BY <1>1 DEF Ordered
  <2>1. j = 3 \/ (j \in {1, 4, 6} /\ k = j + 1)
    BY <1>2
  <2>2. j = 3 /\ k \in {4, 6}
    BY <1>1, <2>1
  <2> QED
    BY <1>1, <2>2 DEF Rank
<1>4. Released(p)
  <2> SUFFICES ASSUME NEW j \in 1..8, HeldAt(p, j, 9) PROVE FALSE
    BY <1>1 DEF Released
  <2>1. j = 3
    BY <1>2
  <2>2. 8 \in (j + 1)..(9 - 1)
    BY <2>1
  <2> QED
    BY <1>1, <2>1, <2>2 DEF HeldAt
<1> QED
  BY <1>1, <1>3, <1>4 DEF Sound, p

(* Taking three locks one after the other.                                  *)
LEMMA ThreeAreSound ==
  ASSUME NEW a \in Operations, NEW b \in Operations, NEW c \in Operations,
         Rank(a[2]) < Rank(b[2]), Rank(a[2]) < Rank(c[2]),
         Rank(b[2]) < Rank(c[2])
  PROVE  Sound(<<a, b, c>>)
<1> DEFINE p == <<a, b, c>>
<1>1. /\ p \in Seq(Operations) /\ Len(p) = 3
      /\ p[1] = a /\ p[2] = b /\ p[3] = c
  OBVIOUS
<1> HIDE DEF p
<1>2. ASSUME NEW k \in 1..3, NEW j \in 1..(k - 1)
      PROVE  Rank(p[j][2]) < Rank(p[k][2])
  <2>1. \/ j = 1 /\ k = 2
        \/ j = 1 /\ k = 3
        \/ j = 2 /\ k = 3
    OBVIOUS
  <2> QED
    BY <1>1, <2>1
<1> QED
  BY <1>1, <1>2 DEF Sound, Ordered, p

(* Taking two locks one after the other.                                    *)
LEMMA TwoAreSound ==
  ASSUME NEW a \in Operations, NEW b \in Operations, Rank(a[2]) < Rank(b[2])
  PROVE  Sound(<<a, b>>)
<1> DEFINE p == <<a, b>>
<1>1. /\ p \in Seq(Operations) /\ Len(p) = 2
      /\ p[1] = a /\ p[2] = b
  OBVIOUS
<1> HIDE DEF p
<1>2. ASSUME NEW k \in 1..2, NEW j \in 1..(k - 1)
      PROVE  Rank(p[j][2]) < Rank(p[k][2])
  <2>1. j = 1 /\ k = 2
    OBVIOUS
  <2> QED
    BY <1>1, <2>1
<1> QED
  BY <1>1, <1>2 DEF Sound, Ordered, p

(* Reading ignored_peers for a moment.                                      *)
LEMMA ReadingIsSound ==
  LET p == <<read("ignored"), drop("ignored")>>
  IN  Sound(p) /\ Released(p)
<1> DEFINE p == <<read("ignored"), drop("ignored")>>
<1>1. read("ignored") \in Operations /\ drop("ignored") \in Operations
  BY DEF read, drop, Operations, Locks
<1>2. /\ p \in Seq(Operations) /\ Len(p) = 2
      /\ p[1][2] = "ignored" /\ p[2][1] = "drop" /\ p[2][2] = "ignored"
  <2>1. /\ p \in Seq(Operations) /\ Len(p) = 2
        /\ p[1] = read("ignored") /\ p[2] = drop("ignored")
    BY <1>1
  <2> QED
    BY <2>1 DEF read, drop
<1> HIDE DEF p
<1>3. Ordered(p)
  BY <1>2 DEF Ordered
<1>4. Released(p)
  <2>1. ASSUME NEW j \in 1..2 PROVE ~HeldAt(p, j, 3)
    <3>1. CASE j = 1
      <4>1. 2 \in (j + 1)..(3 - 1)
        BY <3>1
      <4> QED
        BY <1>2, <3>1, <4>1 DEF HeldAt
    <3>2. CASE j = 2
      BY <1>2, <3>2 DEF HeldAt
    <3> QED
      BY <3>1, <3>2
  <2> QED
    BY <1>2, <2>1 DEF Released
<1> QED
  BY <1>2, <1>3, <1>4 DEF Sound, p

(* Taking the state of a peer and dropping it.                              *)
LEMMA PeerIsSound ==
  LET p == <<read("peers"), write("peer"), drop("peer"), drop("peers")>>
  IN  Sound(p) /\ Released(p)
<1> DEFINE p == <<read("peers"), write("peer"), drop("peer"), drop("peers")>>
<1>1. /\ read("peers") \in Operations /\ write("peer") \in Operations
      /\ drop("peer") \in Operations /\ drop("peers") \in Operations
  BY DEF read, write, drop, Operations, Locks
<1>2. /\ p \in Seq(Operations) /\ Len(p) = 4
      /\ p[1][2] = "peers" /\ p[2][2] = "peer"
      /\ p[3][1] = "drop" /\ p[3][2] = "peer"
      /\ p[4][1] = "drop" /\ p[4][2] = "peers"
  <2>1. /\ p \in Seq(Operations) /\ Len(p) = 4
        /\ p[1] = read("peers") /\ p[2] = write("peer")
        /\ p[3] = drop("peer") /\ p[4] = drop("peers")
    BY <1>1
  <2> QED
    BY <2>1 DEF read, write, drop
<1> HIDE DEF p
<1>3. Ordered(p)
  <2> SUFFICES ASSUME NEW k \in 1..4, NEW j \in 1..(k - 1), p[k][1] # "drop"
               PROVE  Rank(p[j][2]) < Rank(p[k][2])
    BY <1>2 DEF Ordered
  <2>1. k = 2 /\ j = 1
    BY <1>2
  <2> QED
    BY <1>2, <2>1 DEF Rank
<1>4. Released(p)
  <2>1. ASSUME NEW j \in 1..4 PROVE ~HeldAt(p, j, 5)
    <3>1. CASE j = 1
      <4>1. 4 \in (j + 1)..(5 - 1)
        BY <3>1
      <4> QED
        BY <1>2, <3>1, <4>1 DEF HeldAt
    <3>2. CASE j = 2
      <4>1. 3 \in (j + 1)..(5 - 1)
        BY <3>2
      <4> QED
        BY <1>2, <3>2, <4>1 DEF HeldAt
    <3>3. CASE j \in {3, 4}
      BY <1>2, <3>3 DEF HeldAt
    <3> QED
      BY <3>1, <3>2, <3>3
  <2> QED
    BY <1>2, <2>1 DEF Released
<1> QED
  BY <1>2, <1>3, <1>4 DEF Sound, p

(* Every call but invoice_parameters_generated takes the locks in order.    *)
LEMMA ProgramsAreSound ==
  ASSUME NEW c \in OrderedCalls
  PROVE  Sound(Program(c))
<1>1. /\ read("scid") \in Operations /\ read("channel") \in Operations
      /\ read("peers") \in Operations /\ write("peer") \in Operations
      /\ write("peers") \in Operations
  BY DEF read, write, Operations, Locks
<1>2. /\ \A lock : read(lock)[2] = lock /\ write(lock)[2] = lock
      /\ Rank("scid") = 1 /\ Rank("channel") = 2 /\ Rank("peers") = 3
      /\ Rank("peer") = 4
  BY DEF read, write, Rank
<1>3. Sound(<<read("peers"), write("peer")>>)
  BY <1>1, <1>2, TwoAreSound
<1>4. Sound(<<write("peers"), write("peer")>>)
  BY <1>1, <1>2, TwoAreSound
<1>5. \A lock \in {"ignored", "methods", "channel", "callback"} :
        Sound(scoped(lock)) /\ Released(scoped(lock))
  BY ScopedIsSound DEF Locks
<1>6. Sound(parse_request) /\ Released(parse_request)
  BY <1>5, ReadingIsSound, OrderedConcat DEF parse_request
<1>7. CASE c = "htlc_intercepted"
  <2>1. Sound(<<read("scid"), read("peers"), write("peer")>>)
    BY <1>1, <1>2, ThreeAreSound
  <2> QED
    BY <1>7, <2>1 DEF Program
<1>8. CASE c \in {"htlc_handling_failed", "payment_forwarded"}
  <2>1. Sound(<<read("channel"), read("peers"), write("peer")>>)
    BY <1>1, <1>2, ThreeAreSound
  <2> QED
    BY <1>8, <2>1 DEF Program
<1>9. CASE c = "channel_ready"
  BY <1>3, <1>5, <1>9, OrderedConcat DEF Program
<1>10. CASE c \in {"opening_fee_params_generated", "invalid_token_provided"}
  BY <1>10, PeerIsSound, EnqueueIsSound, OrderedConcat DEF Program
<1>11. CASE c = "handle_request"
  BY <1>4, <1>6, <1>11, OrderedConcat DEF Program
<1>12. CASE c = "refuse_request"
  BY <1>6, <1>12, EnqueueIsSound, OrderedConcat DEF Program
<1>13. CASE c = "parse_failure"
  <2> DEFINE r == <<read("ignored"), drop("ignored")>>
  <2>1. /\ Sound(r \o scoped("methods"))
        /\ Released(r \o scoped("methods"))
    BY <1>5, ReadingIsSound, OrderedConcat
  <2>2. /\ Sound(r \o scoped("methods") \o enqueue)
        /\ Released(r \o scoped("methods") \o enqueue)
    BY <2>1, EnqueueIsSound, OrderedConcat
  <2>3. Sound(r \o scoped("methods") \o enqueue \o scoped("ignored"))
    BY <1>5, <2>2, OrderedConcat
  <2> QED
    BY <1>13, <2>3 DEF Program, parse_failure
<1>14. CASE c = "get_and_clear_pending_msg"
  BY <1>14, ClearingIsSound DEF Program
<1>15. CASE c = "set_process_msgs_callback"
  BY <1>5, <1>15 DEF Program
<1> QED
  BY <1>7, <1>8, <1>9, <1>10, <1>11, <1>12, <1>13, <1>14, <1>15 DEF OrderedCalls

-----------------------------------------------------------------------------
(* The threads.                                                             *)

(* A thread is at an operation of the program of its call, or after it.     *)
AtOperations ==
  /\ call \in [Threads -> Calls \cup {"none"}]
  /\ step \in [Threads -> Nat \ {0}]
  /\ \A t \in Threads : IF call[t] = "none" THEN step[t] = 1
                        ELSE step[t] <= Len(Program(call[t])) + 1

(* It always is.                                                            *)
LEMMA AlwaysAtOperations ==
  ASSUME Calls \subseteq OrderedCalls
  PROVE  Spec => []AtOperations
<1>1. Init => AtOperations
  BY DEF Init, AtOperations
<1>2. \A c \in Calls : Len(Program(c)) \in Nat /\ c # "none"
  <2> SUFFICES ASSUME NEW c \in Calls
               PROVE  Len(Program(c)) \in Nat /\ c # "none"
    OBVIOUS
  <2>1. Program(c) \in Seq(Operations)
    BY ProgramsAreSound DEF Sound
  <2> QED
    BY <2>1 DEF OrderedCalls
<1>3. AtOperations /\ [Next]_vars => AtOperations'
  <2> SUFFICES ASSUME AtOperations, [Next]_vars PROVE AtOperations'
    OBVIOUS
  <2>1. ASSUME NEW t \in Threads, NEW c \in Calls, Start(t, c)
        PROVE  AtOperations'
    <3>1. /\ call' = [call EXCEPT ![t] = c] /\ step' = step
          /\ step[t] = 1 /\ Len(Program(c)) \in Nat /\ c # "none"
      BY <1>2, <2>1 DEF Start, AtOperations
    <3>2. \A u \in Threads : call'[u] = IF u = t THEN c ELSE call[u]
      BY <3>1 DEF AtOperations
    <3> QED
      BY <3>1, <3>2 DEF AtOperations
  <2>2. ASSUME NEW t \in Threads, Advance(t)
        PROVE  AtOperations'
    <3>1. /\ step' = [step EXCEPT ![t] = step[t] + 1] /\ call' = call
          /\ call[t] # "none" /\ step[t] <= Len(Program(call[t]))
      BY <2>2 DEF Advance, Busy
    <3>2. \A u \in Threads : step'[u] = IF u = t THEN step[t] + 1 ELSE step[u]
      BY <3>1 DEF AtOperations
    <3>3. Len(Program(call[t])) \in Nat
      BY <1>2, <3>1 DEF AtOperations
    <3> QED
      BY <3>1, <3>2, <3>3 DEF AtOperations
  <2>3. ASSUME NEW t \in Threads, Return(t)
        PROVE  AtOperations'
    <3>1. /\ step' = [step EXCEPT ![t] = 1] /\ call' = [call EXCEPT ![t] = "none"]
      BY <2>3 DEF Return
    <3>2. \A u \in Threads : /\ step'[u] = IF u = t THEN 1 ELSE step[u]
                             /\ call'[u] = IF u = t THEN "none" ELSE call[u]
      BY <3>1 DEF AtOperations
    <3> QED
      BY <3>1, <3>2 DEF AtOperations
  <2>4. CASE UNCHANGED vars
    BY <2>4 DEF vars, AtOperations
  <2> QED
    BY <2>1, <2>2, <2>3, <2>4 DEF Next
<1> QED
  BY <1>1, <1>3, PTL DEF Spec

(* A bounded set of numbers that is not empty has a largest element.        *)
LEMMA MaxIsElement ==
  ASSUME NEW n \in Nat, NEW S \in SUBSET (0..n), S # {}
  PROVE  Max(S) \in S /\ \A y \in S : Max(S) >= y
<1> DEFINE R == {ss \in Nat \X Nat : ss[1] < ss[2]}
           T == {n - y : y \in S}
<1>1. IsWellFoundedOn(R, Nat)
  BY NatLessThanWellFounded DEF OpToRel
<1>2. T \in SUBSET Nat /\ T # {}
  <2>1. ASSUME NEW y \in S PROVE n - y \in Nat /\ y \in Nat
    <3>1. y \in 0..n
      OBVIOUS
    <3> QED
      BY <3>1
  <2> QED
    BY <2>1
<1>3. PICK x \in T : \A y \in T : <<y, x>> \notin R
  <2> HIDE DEF T, R
  <2> QED
    BY <1>1, <1>2, WFMin
<1>4. PICK m \in S : x = n - m
  OBVIOUS
<1>5. ASSUME NEW y \in S PROVE m >= y
  <2>1. n - y \in T /\ n - y \in Nat /\ x \in Nat
    BY <1>2
  <2>2. <<n - y, x>> \in Nat \X Nat /\ <<n - y, x>>[1] = n - y /\ <<n - y, x>>[2] = x
    BY <2>1
  <2>3. ~(n - y < x)
    BY <1>3, <2>1, <2>2
  <2> QED
    BY <1>4, <2>3
<1> QED
  BY <1>5 DEF Max

(* A thread holds the locks its operations so far left held.                *)
LEMMA GuardIsHeld ==
  ASSUME AtOperations, NEW t \in Threads, NEW lock, Guard(t, lock) # "drop"
  PROVE  /\ call[t] # "none"
         /\ \E j \in 1..(step[t] - 1) :
              /\ Program(call[t])[j][2] = lock
              /\ HeldAt(Program(call[t]), j, step[t])
<1> DEFINE p == Program(call[t])
           k == step[t]
           B == {i \in 1..(k - 1) : p[i][2] = lock}
<1>1. /\ call[t] # "none" /\ B # {} /\ p[Max(B)][1] # "drop"
      /\ k \in Nat \ {0}
  BY DEF Guard, AtOperations
<1> HIDE DEF p, k
<1>2. Max(B) \in B /\ \A i \in B : Max(B) >= i
  <2>1. k - 1 \in Nat /\ B \in SUBSET (0..(k - 1))
    BY <1>1
  <2> HIDE DEF B
  <2> QED
    BY <1>1, <2>1, MaxIsElement
<1> DEFINE j == Max(B)
<1>3. j \in 1..(k - 1) /\ p[j][2] = lock
  BY <1>2
<1>4. ASSUME NEW m \in (j + 1)..(k - 1) PROVE p[m][2] # p[j][2]
  <2>1. m \notin B
    <3> HIDE DEF B
    <3>1. j \in Nat
      BY <1>3
    <3> HIDE DEF j
    <3>2. ~(j >= m)
      BY <3>1
    <3> QED
      BY <1>2, <3>2 DEF j
  <2>2. m \in 1..(k - 1)
    <3> HIDE DEF j
    <3> QED
      BY <1>1, <1>3
  <2> QED
    BY <1>3, <2>1, <2>2
<1>5. HeldAt(p, j, k)
  <2> HIDE DEF j
  <2> QED
    BY <1>1, <1>4 DEF HeldAt, j
<1> HIDE DEF j
<1> QED
  BY <1>1, <1>3, <1>5 DEF p, k

(* The lock a thread asks for.                                              *)
Wanted(t) == Program(call[t])[step[t]][2]

(* A thread that asks for a lock asks for one above those it holds.         *)
LEMMA WantsAbove ==
  ASSUME Calls \subseteq OrderedCalls, AtOperations,
         NEW t \in Threads, Busy(t), Program(call[t])[step[t]][1] # "drop",
         NEW lock, Guard(t, lock) # "drop"
  PROVE  Rank(lock) < Rank(Wanted(t))
<1> DEFINE p == Program(call[t])
           k == step[t]
<1>1. k \in 1..Len(p) /\ call[t] \in OrderedCalls
  BY DEF AtOperations, Busy
<1>2. PICK j \in 1..(k - 1) : p[j][2] = lock /\ HeldAt(p, j, k)
  BY GuardIsHeld
<1>3. Ordered(p)
  BY <1>1, ProgramsAreSound DEF Sound
<1> QED
  BY <1>1, <1>2, <1>3 DEF Ordered, Wanted

(* Whatever the number of threads, no circle of threads wait for each       *)
(* other, if the application makes none but the calls that take the locks   *)
(* in order (service.rs:495-978, manager.rs:483-535, message_queue.rs).     *)
THEOREM NoDeadlockHolds ==
  ASSUME Calls \subseteq OrderedCalls
  PROVE  Spec => []NoDeadlock
<1>1. AtOperations => NoDeadlock
  <2> SUFFICES ASSUME AtOperations, NEW S \in SUBSET Threads, S # {},
                      \A t \in S : /\ Busy(t)
                                   /\ (Holders(t) \cup WaitingWriters(t)) \cap S # {}
               PROVE  FALSE
    BY DEF NoDeadlock
  <2> DEFINE op(t) == Program(call[t])[step[t]]
             ranks == {Rank(Wanted(t)) : t \in S}
  <2>1. ASSUME NEW t \in S
        PROVE  /\ op(t) \in Operations /\ op(t)[1] # "drop"
               /\ Rank(Wanted(t)) \in 0..8
    <3>1. call[t] \in OrderedCalls /\ step[t] <= Len(Program(call[t]))
      BY DEF AtOperations, Busy
    <3>2. op(t) \in Operations
      <4>1. Program(call[t]) \in Seq(Operations)
        BY <3>1, ProgramsAreSound DEF Sound
      <4>2. step[t] \in 1..Len(Program(call[t]))
        BY <3>1, <4>1 DEF AtOperations
      <4> QED
        BY <4>1, <4>2
    <3>3. op(t)[1] # "drop"
      BY DEF Holders, WaitingWriters
    <3>4. op(t)[2] \in Locks
      BY <3>2 DEF Operations
    <3>5. Rank(op(t)[2]) \in 0..8
      BY <3>4 DEF Rank, Locks
    <3> QED
      BY <3>2, <3>3, <3>5 DEF Wanted
  <2>2. PICK t \in S : \A u \in S : Rank(Wanted(t)) >= Rank(Wanted(u))
    <3>1. ranks \in SUBSET (0..8) /\ ranks # {}
      BY <2>1
    <3>2. Max(ranks) \in ranks /\ \A r \in ranks : Max(ranks) >= r
      <4> HIDE DEF ranks
      <4> QED
        BY <3>1, MaxIsElement
    <3> QED
      BY <3>2
  <2>3. ASSUME NEW v \in S, Guard(v, Wanted(t)) # "drop"
        PROVE  FALSE
    <3>1. Rank(Wanted(t)) < Rank(Wanted(v))
      BY <2>1, <2>3, WantsAbove
    <3>2. Rank(Wanted(t)) \in 0..8 /\ Rank(Wanted(v)) \in 0..8
      BY <2>1
    <3> QED
      BY <2>2, <3>1, <3>2
  <2>4. ASSUME NEW u \in S PROVE \A v \in Holders(u) : Guard(v, Wanted(u)) # "drop"
    <3>1. op(u)[1] \in {"read", "write"}
      BY <2>1 DEF Operations
    <3> QED
      BY <3>1 DEF Holders, Wanted
  <2>5. Holders(t) \cap S = {}
    BY <2>3, <2>4
  <2>6. PICK u \in S : u \in WaitingWriters(t)
    BY <2>5
  <2>7. op(u)[1] = "write" /\ Wanted(u) = Wanted(t)
    BY <2>6 DEF WaitingWriters, write, Wanted
  <2>8. WaitingWriters(u) = {}
    BY <2>7 DEF WaitingWriters
  <2>9. PICK v \in S : v \in Holders(u)
    BY <2>8
  <2> QED
    BY <2>3, <2>4, <2>7, <2>9
<1> QED
  BY <1>1, AlwaysAtOperations, PTL
=============================================================================
