------------------------- MODULE EventStreamProofs -------------------------
(***************************************************************************)
(* Theorems about the event stream of a run, for every number of           *)
(* subscribers, rows and connections and every size of the queues: at most *)
(* one task is inside publication(), a reader gets every row once and in   *)
(* order, and a stream that ends by itself has yielded all that was        *)
(* announced.                                                              *)
(***************************************************************************)
EXTENDS EventStream, FiniteSetTheorems, WellFoundedInduction, TLAPS

Queued == [seq : Nat, after : Nat]

\* Where a generator is inside publication(), or waits to be.
Locking == {"register", "initial", "poll", "read", "ending"}

\* Where it is between its registration and the finally block.
Listening == {"initial", "replay", "get", "range", "emit", "poll", "read", "polled", "status",
              "check", "left", "ending"}

\* Where it has read the rows of a poll.
Polled == {"polled", "status", "check"}

Generator == [pc : {"idle", "register"} \cup Listening, queue : Seq(Queued), pend : Seq(Queued),
              buf : SUBSET Nat, over : BOOLEAN, drop : BOOLEAN]

StreamShape ==
    /\ lastSeq \in Nat /\ published \in Nat /\ transients \in Nat /\ derived \in Nat
    /\ published <= lastSeq /\ derived <= lastSeq
    /\ lastSeq <= MaxSeq /\ transients <= MaxTransient
    /\ live \in BOOLEAN /\ working \in BOOLEAN /\ active \in BOOLEAN
    /\ writer \in {"idle", "asked", "appended"}
    /\ registry \subseteq Subscriber
    /\ sub \in [Subscriber -> Generator]
    /\ seen \in [Subscriber -> Nat]

LockShape == entry \in Nat /\ users \in Nat /\ lock \in [StreamTask -> [obj : Nat, has : BOOLEAN]]

Askers == {t \in StreamTask : lock[t].obj # 0}

\* Every task inside or waiting has the object that is in the dictionary, because it is only
\* dropped when nobody uses it.
LockInv ==
    /\ LockShape
    /\ users = Cardinality(Askers)
    /\ \A t \in StreamTask : /\ lock[t].has => lock[t].obj # 0
                             /\ lock[t].obj # 0 => lock[t].obj = entry
    /\ \A t, u \in StreamTask : lock[t].has /\ lock[u].has => t = u

\* Who uses the lock, by where it is.
UsersInv ==
    /\ lock["attempt"].obj # 0 <=> writer # "idle"
    /\ lock["child"].obj # 0 <=> derived # 0
    /\ \A s \in Subscriber : lock[s].obj # 0 <=> sub[s].pc \in Locking

Stored(q) == \A i \in 1..Len(q) : q[i].seq <= lastSeq

Batch(s) == \E m \in 0..lastSeq : sub[s].buf = RowsAfter(s, m)

\* What a generator is about to yield are the rows right after its cursor; after a poll, and
\* as long as no wake-up has come, they are all that were announced.
Reader(s) ==
    /\ seen[s] <= lastSeq /\ Len(sub[s].queue) <= QueueSize
    /\ Stored(sub[s].queue) /\ Stored(sub[s].pend)
    /\ sub[s].pc \in Listening => s \in registry
    /\ sub[s].pc = "range" => sub[s].pend # <<>>
    /\ Batch(s)
    /\ sub[s].pc \in Polled /\ sub[s].queue = <<>> =>
           \A n \in 1..published : n > seen[s] => n \in sub[s].buf
    /\ sub[s].pc \in {"status", "check"} => sub[s].buf = {}

StreamInv == StreamShape /\ LockInv /\ UsersInv /\ \A s \in Subscriber : Reader(s)

-----------------------------------------------------------------------------
(* The least and the greatest number of a set.                             *)

\* A set of numbers that is not empty has a least one, and Min finds it.
LEMMA LeastIn ==
  ASSUME NEW S, S \subseteq Nat, S # {}
  PROVE  Min(S) \in S /\ \A x \in S : Min(S) <= x
<1> DEFINE R == OpToRel(<, Nat)
<1>1. \E x \in S : \A y \in S : ~ (<<y, x>> \in R)
  <2>1. IsWellFoundedOn(R, Nat)
    BY NatLessThanWellFounded
  <2> HIDE DEF R
  <2> QED BY <2>1, WFMin
<1>2. \A x, y \in Nat : <<x, y>> \in R <=> x < y
  BY DEF OpToRel
<1>3. PICK x \in S : \A y \in S : ~ (<<y, x>> \in R)
  BY <1>1
<1> HIDE DEF R
<1>4. ASSUME NEW y \in S PROVE x <= y
  <2>1. ~ (<<y, x>> \in R)
    BY <1>3
  <2>2. x \in Nat /\ y \in Nat
    OBVIOUS
  <2>3. ~ (y < x)
    BY <1>2, <2>1, <2>2
  <2> QED BY <2>2, <2>3
<1> QED BY <1>4 DEF Min

\* A bounded one has a greatest.
LEMMA GreatestIn ==
  ASSUME NEW S, S \subseteq Nat, S # {}, NEW b \in Nat, \A x \in S : x <= b
  PROVE  Max(S) \in S /\ \A x \in S : Max(S) >= x
<1> DEFINE T == {b - x : x \in S}
<1>1. \A x \in S : b - x \in Nat
  OBVIOUS
<1>5. T \subseteq Nat /\ T # {}
  BY <1>1
<1>2. PICK m \in S : Min(T) = b - m
  BY <1>5, LeastIn
<1>3. \A x \in S : b - m <= b - x
  BY <1>5, <1>2, LeastIn
<1>4. \A x \in S : m >= x
  BY <1>3
<1> QED BY <1>4 DEF Max

-----------------------------------------------------------------------------
(* The publication lock (event_stream.py:250-270).                         *)

LEMMA TasksAreFinite ==
  /\ IsFiniteSet(StreamTask)
  /\ "attempt" \in StreamTask /\ "child" \in StreamTask /\ Subscriber \subseteq StreamTask
  /\ \A s \in Subscriber : s # "attempt" /\ s # "child"
<1>1. IsFiniteSet({"attempt"})
  BY FS_Singleton
<1>2. IsFiniteSet({"attempt"} \cup {"child"})
  BY <1>1, FS_AddElement
<1>3. Publisher = {"attempt"} \cup {"child"}
  BY DEF Publisher
<1>4. IsFiniteSet(Publisher \cup Subscriber)
  BY <1>2, <1>3, FS_Union, StreamAssumption
<1> QED BY <1>4, StreamAssumption DEF StreamTask, Publisher

LEMMA AskersAreFinite ==
  ASSUME LockInv
  PROVE  /\ IsFiniteSet(Askers)
         /\ users = 0 <=> Askers = {}
         /\ entry = 0 => Askers = {}
<1>1. IsFiniteSet(Askers)
  BY TasksAreFinite, FS_Subset DEF Askers
<1>2. users = 0 <=> Askers = {}
  BY <1>1, FS_EmptySet DEF LockInv
<1>3. entry = 0 => Askers = {}
  BY DEF LockInv, Askers
<1> QED BY <1>1, <1>2, <1>3

\* The object a first user makes is a new one.
LEMMA UnusedIsNew ==
  ASSUME LockInv, entry = 0
  PROVE  Unused \in Nat \ {0} /\ \A t \in StreamTask : lock[t].obj # Unused
<1> DEFINE Left == (1..(Cardinality(StreamTask) + 1)) \ ({entry} \cup {lock[t].obj : t \in StreamTask})
<1>1. \A t \in StreamTask : lock[t].obj = 0
  BY AskersAreFinite DEF Askers
<1>2. Cardinality(StreamTask) \in Nat
  BY TasksAreFinite, FS_CardinalityType
<1>3. 1 \in Left
  BY <1>1, <1>2
<1>4. Left \subseteq Nat /\ Left # {}
  BY <1>2, <1>3
<1>5. Min(Left) \in Left
  BY <1>4, LeastIn
<1>6. Unused \in Left
  BY <1>5 DEF Unused
<1> QED BY <1>1, <1>2, <1>6

LEMMA EntersOnce ==
  ASSUME LockInv, NEW t \in StreamTask, lock[t].obj = 0, Enter(t)
  PROVE  /\ LockInv'
         /\ lock'[t].obj # 0
         /\ \A u \in StreamTask \ {t} : lock'[u] = lock[u]
<1> DEFINE o == IF entry = 0 THEN Unused ELSE entry
<1>1. o \in Nat \ {0}
  BY UnusedIsNew DEF LockInv, LockShape
<1>2. /\ entry' = o /\ users' = users + 1
      /\ lock' = [lock EXCEPT ![t] = [obj |-> o, has |-> \A u \in StreamTask : lock[u].obj # o]]
  BY DEF Enter
<1> HIDE DEF o
<1>3. \A u \in StreamTask : lock[u].obj # 0 => lock[u].obj = o
  BY AskersAreFinite DEF o, LockInv, Askers
<1>4. LockShape'
  BY <1>1, <1>2 DEF LockInv, LockShape
<1>5. /\ lock'[t].obj = o /\ lock'[t].has = (\A u \in StreamTask : lock[u].obj # o)
      /\ \A u \in StreamTask \ {t} : lock'[u] = lock[u]
  BY <1>2 DEF LockInv, LockShape
<1>6. users' = Cardinality(Askers')
  <2>1. Askers' = Askers \cup {t} /\ t \notin Askers
    BY <1>1, <1>5 DEF Askers
  <2>2. Cardinality(Askers \cup {t}) = Cardinality(Askers) + 1
    BY <2>1, AskersAreFinite, FS_AddElement
  <2> QED BY <1>2, <2>1, <2>2 DEF LockInv
<1>7. \A u \in StreamTask : /\ lock'[u].has => lock'[u].obj # 0
                            /\ lock'[u].obj # 0 => lock'[u].obj = entry'
  BY <1>1, <1>2, <1>3, <1>5 DEF LockInv
<1>8. \A u, v \in StreamTask : lock'[u].has /\ lock'[v].has => u = v
  <2>1. ASSUME NEW u \in StreamTask \ {t}, lock[u].has PROVE ~lock'[t].has
    BY <1>3, <1>5, <2>1 DEF LockInv
  <2> QED BY <1>5, <2>1 DEF LockInv
<1> QED BY <1>1, <1>4, <1>5, <1>6, <1>7, <1>8 DEF LockInv

LEMMA ExitsOnce ==
  ASSUME LockInv, NEW t \in StreamTask, lock[t].obj # 0, NEW regs, Exit(t, regs)
  PROVE  /\ LockInv'
         /\ lock'[t].obj = 0
         /\ \A u \in StreamTask \ {t} : lock'[u] = lock[u]
<1>1. /\ users' = users - 1
      /\ entry' \in {0, entry} /\ (entry' # entry => users - 1 = 0)
      /\ lock' = [lock EXCEPT ![t] = NoLock]
  BY DEF Exit, Idle
<1>2. /\ lock'[t].obj = 0 /\ ~lock'[t].has
      /\ \A u \in StreamTask \ {t} : lock'[u] = lock[u]
  BY <1>1 DEF LockInv, LockShape, NoLock
<1>3. Askers' = Askers \ {t} /\ t \in Askers
  BY <1>2 DEF Askers
<1>4. Cardinality(Askers \ {t}) = Cardinality(Askers) - 1
  BY <1>3, AskersAreFinite, FS_RemoveElement
<1>5. users' = Cardinality(Askers')
  BY <1>1, <1>3, <1>4 DEF LockInv
<1>6. IsFiniteSet(Askers') /\ Cardinality(Askers') \in Nat
  BY <1>3, AskersAreFinite, FS_RemoveElement, FS_CardinalityType
<1>7. LockShape'
  BY <1>1, <1>5, <1>6 DEF LockInv, LockShape, NoLock
<1>8. entry' # entry => Askers' = {}
  BY <1>1, <1>5, <1>6, FS_EmptySet
<1>9. \A u \in StreamTask : /\ lock'[u].has => lock'[u].obj # 0
                            /\ lock'[u].obj # 0 => lock'[u].obj = entry'
  BY <1>2, <1>8 DEF LockInv, Askers
<1>10. \A u, v \in StreamTask : lock'[u].has /\ lock'[v].has => u = v
  BY <1>2 DEF LockInv
<1> QED BY <1>2, <1>5, <1>7, <1>9, <1>10 DEF LockInv

LEMMA AcquiresAlone ==
  ASSUME LockInv, NEW t \in StreamTask, Acquire(t)
  PROVE  LockInv' /\ \A u \in StreamTask : lock'[u].obj = lock[u].obj
<1>1. /\ lock[t].obj # 0
      /\ \A u \in StreamTask : lock[u].obj = lock[t].obj => ~lock[u].has
      /\ lock' = [lock EXCEPT ![t].has = TRUE] /\ entry' = entry /\ users' = users
  BY DEF Acquire
<1>2. LockShape'
  BY <1>1 DEF LockInv, LockShape
<1>3. /\ \A u \in StreamTask : lock'[u].obj = lock[u].obj
      /\ \A u \in StreamTask \ {t} : lock'[u].has = lock[u].has
  BY <1>1 DEF LockInv, LockShape
<1>4. Askers' = Askers
  BY <1>3 DEF Askers
<1>5. \A u \in StreamTask : ~lock[u].has
  BY <1>1 DEF LockInv
<1> QED BY <1>1, <1>2, <1>3, <1>4, <1>5 DEF LockInv

LEMMA LockStays ==
  ASSUME LockInv, UNCHANGED lockVars
  PROVE  LockInv'
BY DEF lockVars, LockInv, LockShape, Askers

LEMMA OneInsideHolds == LockInv => OneInside
<1> SUFFICES ASSUME LockInv PROVE OneInside
  OBVIOUS
<1> DEFINE In == {t \in StreamTask : Inside(t)}
<1>1. CASE In = {}
  BY <1>1, FS_EmptySet DEF OneInside
<1>2. CASE In # {}
  <2>1. PICK t \in In : TRUE
    BY <1>2
  <2>2. In = {t}
    BY <2>1 DEF LockInv, Inside
  <2>3. Cardinality(In) = 1
    BY <2>2, FS_Singleton
  <2> QED BY <2>3 DEF OneInside
<1> QED BY <1>1, <1>2

-----------------------------------------------------------------------------
(* What a generator knows.                                                 *)

LEMMA GoneIsOne == Gone \in Generator
<1>1. <<>> \in Seq(Queued)
  OBVIOUS
<1> QED BY <1>1 DEF Gone, Generator

LEMMA StreamStart == StreamInit => StreamInv
<1> SUFFICES ASSUME StreamInit PROVE StreamInv
  OBVIOUS
<1>1. StreamShape
  <2>1. Gone \in Generator
    BY GoneIsOne
  <2>2. lastSeq = 0 /\ published = 0 /\ transients = 0 /\ derived = 0 /\ writer = "idle"
    BY DEF StreamInit
  <2>3. live \in BOOLEAN /\ working \in BOOLEAN /\ active \in BOOLEAN
    BY DEF StreamInit
  <2>4. registry = {} /\ sub \in [Subscriber -> Generator] /\ seen \in [Subscriber -> Nat]
    BY <2>1 DEF StreamInit
  <2> QED BY <2>2, <2>3, <2>4, StreamAssumption DEF StreamShape
<1>2. LockInv
  <2>1. Askers = {}
    BY DEF StreamInit, Askers, NoLock
  <2> QED BY <2>1, FS_EmptySet DEF StreamInit, LockInv, LockShape, NoLock
<1>3. UsersInv
  BY TasksAreFinite DEF StreamInit, UsersInv, NoLock, Gone, Locking
<1>4. ASSUME NEW s \in Subscriber PROVE Reader(s)
  <2>1. seen[s] = 0 /\ lastSeq = 0 /\ sub[s] = Gone
    BY DEF StreamInit
  <2>2. RowsAfter(s, 0) = {}
    BY DEF RowsAfter
  <2> QED BY <2>1, <2>2, StreamAssumption DEF Reader, Batch, Gone, Listening, Polled, Stored
<1> QED BY <1>1, <1>2, <1>3, <1>4 DEF StreamInv

\* What was stored stays stored.
LEMMA StoredLater ==
  ASSUME NEW q \in Seq(Queued), lastSeq \in Nat, lastSeq' \in Nat, lastSeq <= lastSeq', Stored(q)
  PROVE  \A i \in 1..Len(q) : q[i].seq <= lastSeq'
<1> TAKE i \in 1..Len(q)
<1>1. q[i] \in Queued
  OBVIOUS
<1>2. q[i].seq \in Nat
  BY <1>1 DEF Queued
<1>3. q[i].seq <= lastSeq
  BY DEF Stored
<1> QED BY <1>2, <1>3

\* What a reader knows outlasts new rows and registrations, as long as nothing is announced.
LEMMA ReaderKeeps ==
  ASSUME NEW s \in Subscriber, StreamShape, Reader(s), sub'[s] = sub[s], seen'[s] = seen[s],
         lastSeq' \in Nat, lastSeq <= lastSeq', published' = published, s \in registry => s \in registry'
  PROVE  Reader(s)'
<1>1. PICK m \in 0..lastSeq : sub[s].buf = RowsAfter(s, m)
  BY DEF Reader, Batch
<1>2. m \in 0..lastSeq' /\ sub'[s].buf = RowsAfter(s, m)'
  BY <1>1 DEF Generator, StreamShape, RowsAfter
<1>3. /\ sub[s].queue \in Seq(Queued) /\ sub[s].pend \in Seq(Queued)
      /\ lastSeq \in Nat /\ seen[s] \in Nat
  BY DEF StreamShape, Generator
<1>4. Stored(sub[s].queue)' /\ Stored(sub[s].pend)'
  <2>1. Stored(sub[s].queue) /\ Stored(sub[s].pend)
    BY DEF Reader
  <2>2. /\ \A i \in 1..Len(sub[s].queue) : sub[s].queue[i].seq <= lastSeq'
        /\ \A i \in 1..Len(sub[s].pend) : sub[s].pend[i].seq <= lastSeq'
    BY <1>3, <2>1, StoredLater
  <2> QED BY <2>2 DEF Stored
<1> QED BY <1>2, <1>3, <1>4 DEF Reader, Batch

\* An announcement puts something into the queue of everybody who listens, or finds it full.
LEMMA OfferReaches ==
  ASSUME StreamShape, \A s \in Subscriber : Reader(s), NEW e \in Queued, e.seq <= lastSeq,
         Offer(e), lastSeq' = lastSeq, seen' = seen, registry' = registry
  PROVE  /\ sub' \in [Subscriber -> Generator]
         /\ \A s \in Subscriber : sub'[s].pc = sub[s].pc /\ Reader(s)'
<1>1. ASSUME NEW s \in Subscriber
      PROVE  /\ sub'[s] \in Generator
             /\ sub'[s].pc = sub[s].pc /\ sub'[s].buf = sub[s].buf /\ sub'[s].pend = sub[s].pend
             /\ Len(sub'[s].queue) <= QueueSize
             /\ \A i \in 1..Len(sub'[s].queue) : sub'[s].queue[i].seq <= lastSeq
             /\ s \in registry => sub'[s].queue # <<>>
  <2> USE DEF Generator
  <2>1. /\ sub[s] \in Generator
        /\ Len(sub[s].queue) <= QueueSize /\ Stored(sub[s].queue)
    BY DEF StreamShape, Reader
  <2>2. CASE s \notin registry
    <3>1. sub'[s] = sub[s]
      BY <2>2 DEF Offer
    <3> QED BY <2>1, <2>2, <3>1 DEF Stored
  <2>3. CASE s \in registry /\ Len(sub[s].queue) < QueueSize
    <3> DEFINE q == Append(sub[s].queue, e)
    <3>1. sub'[s] = [sub[s] EXCEPT !.queue = q]
      BY <2>3 DEF Offer
    <3>2. /\ q \in Seq(Queued) /\ Len(q) = Len(sub[s].queue) + 1
          /\ \A i \in 1..Len(q) : q[i] = IF i <= Len(sub[s].queue) THEN sub[s].queue[i] ELSE e
      BY <2>1
    <3>3. Len(q) <= QueueSize /\ q # <<>>
      BY <2>1, <2>3, <3>2, StreamAssumption
    <3> HIDE DEF q
    <3>4. \A i \in 1..Len(q) : q[i].seq <= lastSeq
      <4>1. SUFFICES ASSUME NEW i \in 1..Len(q) PROVE q[i].seq <= lastSeq
        OBVIOUS
      <4>2. CASE i <= Len(sub[s].queue)
        <5>1. q[i] = sub[s].queue[i] /\ i \in 1..Len(sub[s].queue)
          BY <2>1, <3>2, <4>2
        <5> QED BY <2>1, <5>1 DEF Stored
      <4>3. CASE ~(i <= Len(sub[s].queue))
        BY <3>2, <4>3
      <4> QED BY <4>2, <4>3
    <3>5. /\ sub'[s].queue = q /\ sub'[s].pc = sub[s].pc
          /\ sub'[s].buf = sub[s].buf /\ sub'[s].pend = sub[s].pend
      BY <2>1, <3>1
    <3>6. sub'[s] \in Generator
      BY <2>1, <3>1, <3>2
    <3> QED BY <3>3, <3>4, <3>5, <3>6
  <2>4. CASE s \in registry /\ ~(Len(sub[s].queue) < QueueSize)
    <3>1. sub'[s] = [sub[s] EXCEPT !.drop = TRUE]
      BY <2>4 DEF Offer
    <3>2. sub[s].queue # <<>>
      BY <2>1, <2>4, StreamAssumption
    <3> QED BY <2>1, <3>1, <3>2 DEF Stored
  <2> QED BY <2>2, <2>3, <2>4
<1>2. \A s \in Subscriber : Reader(s)'
  <2> TAKE s \in Subscriber
  <2>1. Reader(s) /\ sub[s].pend \in Seq(Queued)
    BY DEF StreamShape, Generator
  <2>2. Batch(s)'
    BY <1>1, <2>1 DEF Reader, Batch, RowsAfter
  <2>3. sub'[s].pc \in Polled => sub'[s].queue # <<>>
    BY <1>1, <2>1 DEF Reader, Polled, Listening
  <2> QED BY <1>1, <2>1, <2>2, <2>3 DEF Reader, Stored
<1>3. sub' = [s \in Subscriber |-> sub'[s]]
  BY DEF Offer
<1> QED BY <1>1, <1>2, <1>3

-----------------------------------------------------------------------------
(* The steps of publishers.                                                *)

LEMMA ReadersKeep ==
  ASSUME StreamInv, lastSeq' \in Nat, lastSeq <= lastSeq', UNCHANGED <<published, registry, sub, seen>>
  PROVE  \A s \in Subscriber : Reader(s)'
BY ReaderKeeps DEF StreamInv

LEMMA UsersAfter ==
  ASSUME StreamInv, NEW p \in Publisher, \A u \in StreamTask \ {p} : lock'[u] = lock[u],
         p = "attempt" => derived' = derived /\ (lock'[p].obj # 0 <=> writer' # "idle"),
         p = "child" => writer' = writer /\ (lock'[p].obj # 0 <=> derived' # 0),
         \A s \in Subscriber : sub'[s].pc = sub[s].pc
  PROVE  UsersInv'
BY TasksAreFinite DEF StreamInv, UsersInv, StreamTask, Publisher

LEMMA AttemptSteps ==
  ASSUME StreamInv, AttemptBegins \/ AttemptLeaves \/ AppendSilently \/ AppendDurable
  PROVE  StreamInv'
<1>1. UNCHANGED <<published, registry, sub, seen, transients, derived, lock, users>>
  BY DEF AttemptBegins, AttemptLeaves, AppendSilently, AppendDurable, lockVars
<1>2. /\ lastSeq' \in Nat /\ lastSeq <= lastSeq' /\ lastSeq' <= MaxSeq
      /\ live' \in BOOLEAN /\ working' \in BOOLEAN /\ active' \in BOOLEAN
  <2>1. lastSeq \in Nat /\ lastSeq <= MaxSeq /\ MaxSeq \in Nat
    BY StreamAssumption DEF StreamInv, StreamShape
  <2>2. lastSeq' = lastSeq \/ (lastSeq' = lastSeq + 1 /\ lastSeq < MaxSeq)
    BY DEF AttemptBegins, AttemptLeaves, AppendSilently, AppendDurable
  <2>3. live' \in BOOLEAN /\ working' \in BOOLEAN /\ active' \in BOOLEAN
    BY DEF AttemptBegins, AttemptLeaves, AppendSilently, AppendDurable, StreamInv, StreamShape
  <2> QED BY <2>1, <2>2, <2>3
<1>3. writer' \in {"idle", "asked", "appended"} /\ (writer' # "idle" <=> writer # "idle")
  BY DEF AttemptBegins, AttemptLeaves, AppendSilently, AppendDurable, StreamInv, StreamShape
<1>4. StreamShape'
  BY <1>1, <1>2, <1>3 DEF StreamInv, StreamShape
<1>5. LockInv'
  <2>1. CASE UNCHANGED entry
    BY <1>1, <2>1, LockStays DEF StreamInv, lockVars
  <2>2. CASE entry' # entry
    <3>1. entry' = 0 /\ users = 0
      BY <2>2 DEF AttemptBegins, AttemptLeaves, AppendSilently, AppendDurable, lockVars, Idle
    <3>2. Askers = {}
      BY <3>1, AskersAreFinite DEF StreamInv
    <3> QED BY <1>1, <3>1, <3>2 DEF StreamInv, LockInv, LockShape, Askers
  <2> QED BY <2>1, <2>2
<1>6. UsersInv'
  BY <1>1, <1>3 DEF StreamInv, UsersInv
<1>7. \A s \in Subscriber : Reader(s)'
  BY <1>1, <1>2, ReadersKeep
<1> QED BY <1>4, <1>5, <1>6, <1>7 DEF StreamInv

LEMMA StartPublishStep ==
  ASSUME StreamInv, StartPublish PROVE StreamInv'
<1>1. /\ writer = "idle" /\ writer' = "asked" /\ Enter("attempt")
      /\ UNCHANGED <<lastSeq, live, working, active, transients, derived, published, registry, sub, seen>>
  BY DEF StartPublish, runVars
<1>2. /\ LockInv' /\ lock'["attempt"].obj # 0
      /\ \A u \in StreamTask \ {"attempt"} : lock'[u] = lock[u]
  BY <1>1, EntersOnce, TasksAreFinite DEF StreamInv, UsersInv
<1>3. StreamShape'
  BY <1>1 DEF StreamInv, StreamShape
<1>4. UsersInv'
  BY <1>1, <1>2, UsersAfter DEF Publisher
<1>5. \A s \in Subscriber : Reader(s)'
  BY <1>1, ReadersKeep DEF StreamInv, StreamShape
<1> QED BY <1>2, <1>3, <1>4, <1>5 DEF StreamInv

LEMMA DeriveEventStep ==
  ASSUME StreamInv, DeriveEvent PROVE StreamInv'
<1>1. /\ derived = 0 /\ derived' = lastSeq + 1 /\ lastSeq' = lastSeq + 1 /\ lastSeq < MaxSeq
      /\ Enter("child")
      /\ UNCHANGED <<live, working, active, transients, writer, published, registry, sub, seen>>
  BY DEF DeriveEvent
<1>2. /\ LockInv' /\ lock'["child"].obj # 0
      /\ \A u \in StreamTask \ {"child"} : lock'[u] = lock[u]
  BY <1>1, EntersOnce, TasksAreFinite DEF StreamInv, UsersInv
<1>3. lastSeq \in Nat /\ published \in Nat /\ published <= lastSeq /\ MaxSeq \in Nat
  BY StreamAssumption DEF StreamInv, StreamShape
<1>4. StreamShape'
  BY <1>1, <1>3 DEF StreamInv, StreamShape
<1>5. UsersInv'
  BY <1>1, <1>2, <1>3, UsersAfter DEF Publisher
<1>6. \A s \in Subscriber : Reader(s)'
  BY <1>1, <1>3, ReadersKeep
<1> QED BY <1>2, <1>4, <1>5, <1>6 DEF StreamInv

LEMMA PublishFailsStep ==
  ASSUME StreamInv, PublishFails PROVE StreamInv'
<1>1. /\ writer = "asked" /\ writer' = "idle" /\ Exit("attempt", registry)
      /\ UNCHANGED <<lastSeq, live, working, active, transients, derived, published, registry, sub, seen>>
  BY DEF PublishFails, runVars
<1>2. /\ LockInv' /\ lock'["attempt"].obj = 0
      /\ \A u \in StreamTask \ {"attempt"} : lock'[u] = lock[u]
  BY <1>1, ExitsOnce, TasksAreFinite DEF StreamInv, UsersInv
<1>3. StreamShape'
  BY <1>1 DEF StreamInv, StreamShape
<1>4. UsersInv'
  BY <1>1, <1>2, UsersAfter DEF Publisher
<1>5. \A s \in Subscriber : Reader(s)'
  BY <1>1, ReadersKeep DEF StreamInv, StreamShape
<1> QED BY <1>2, <1>3, <1>4, <1>5 DEF StreamInv

\* The three announcements: the attempt's row, its transient output, and a child's row.
LEMMA AnnounceSteps ==
  ASSUME StreamInv, PublishDurable \/ PublishTransient \/ PublishDerived
  PROVE  StreamInv'
<1>1. /\ lastSeq \in Nat /\ published \in Nat /\ derived \in Nat /\ transients \in Nat
      /\ published <= lastSeq /\ derived <= lastSeq /\ transients <= MaxTransient
      /\ MaxTransient \in Nat
  BY StreamAssumption DEF StreamInv, StreamShape
<1>2. PICK e \in Queued, p \in Publisher :
         /\ e.seq <= lastSeq /\ Offer(e) /\ Exit(p, registry)
         /\ p = "attempt" => writer # "idle" /\ writer' = "idle" /\ derived' = derived
         /\ p = "child" => derived # 0 /\ derived' = 0 /\ writer' = writer
         /\ published' \in Nat /\ published' <= lastSeq
         /\ transients' \in Nat /\ transients' <= MaxTransient
         /\ UNCHANGED <<lastSeq, live, working, active, registry, seen>>
  <2>1. CASE PublishDurable
    <3>1. Wake(lastSeq) \in Queued /\ Wake(lastSeq).seq = lastSeq
      BY <1>1 DEF Wake, Queued
    <3> QED BY <1>1, <2>1, <3>1 DEF PublishDurable, runVars, Publisher
  <2>2. CASE PublishTransient
    <3>1. Transient(published) \in Queued /\ Transient(published).seq = 0
      BY <1>1 DEF Transient, Queued
    <3> QED BY <1>1, <2>2, <3>1 DEF PublishTransient, Publisher
  <2>3. CASE PublishDerived
    <3>1. Wake(derived) \in Queued /\ Wake(derived).seq = derived
      BY <1>1 DEF Wake, Queued
    <3>2. Max({published, derived}) \in {published, derived}
      BY <1>1, GreatestIn
    <3>3. published' \in Nat /\ published' <= lastSeq
      BY <1>1, <2>3, <3>2 DEF PublishDerived
    <3> QED BY <1>1, <2>3, <3>1, <3>3 DEF PublishDerived, Publisher
  <2> QED BY <2>1, <2>2, <2>3
<1>3. /\ LockInv' /\ lock'[p].obj = 0
      /\ \A u \in StreamTask \ {p} : lock'[u] = lock[u]
  <2>1. lock[p].obj # 0
    BY <1>2 DEF StreamInv, UsersInv, Publisher
  <2> QED BY <1>2, <2>1, ExitsOnce DEF StreamInv, StreamTask
<1>4. /\ sub' \in [Subscriber -> Generator]
      /\ \A s \in Subscriber : sub'[s].pc = sub[s].pc /\ Reader(s)'
  BY <1>2, OfferReaches DEF StreamInv
<1>5. writer' \in {"idle", "asked", "appended"} /\ derived' \in Nat /\ derived' <= lastSeq
  BY <1>1, <1>2 DEF StreamInv, StreamShape, Publisher
<1>6. StreamShape'
  BY <1>2, <1>4, <1>5 DEF StreamInv, StreamShape
<1>7. UsersInv'
  BY <1>2, <1>3, <1>4, UsersAfter
<1> QED BY <1>3, <1>4, <1>6, <1>7 DEF StreamInv

LEMMA AcquireStep ==
  ASSUME StreamInv, NEW t \in StreamTask, Acquire(t) PROVE StreamInv'
<1>1. /\ UNCHANGED <<lastSeq, live, working, active, transients, derived, published, writer, registry,
                     sub, seen>>
  BY DEF Acquire, runVars
<1>2. LockInv' /\ \A u \in StreamTask : lock'[u].obj = lock[u].obj
  BY AcquiresAlone DEF StreamInv
<1>3. StreamShape'
  BY <1>1 DEF StreamInv, StreamShape
<1>4. UsersInv'
  BY <1>1, <1>2, TasksAreFinite DEF StreamInv, UsersInv
<1>5. \A s \in Subscriber : Reader(s)'
  BY <1>1, ReadersKeep DEF StreamInv, StreamShape
<1> QED BY <1>2, <1>3, <1>4, <1>5 DEF StreamInv

-----------------------------------------------------------------------------
(* The steps of a generator.                                               *)

\* A step of one generator leaves the others alone.
LEMMA GeneratorMoves ==
  ASSUME StreamInv, NEW s \in Subscriber, NEW g \in Generator, Go(s, g), UNCHANGED StreamRest,
         registry' \subseteq Subscriber, \A u \in Subscriber \ {s} : u \in registry => u \in registry',
         seen' \in [Subscriber -> Nat], \A u \in Subscriber \ {s} : seen'[u] = seen[u],
         LockInv', lock'[s].obj # 0 <=> g.pc \in Locking,
         \A u \in StreamTask \ {s} : lock'[u] = lock[u],
         Reader(s)'
  PROVE  StreamInv'
<1>1. /\ sub' \in [Subscriber -> Generator] /\ sub'[s] = g
      /\ \A u \in Subscriber \ {s} : sub'[u] = sub[u]
  BY DEF Go, StreamInv, StreamShape
<1>2. UNCHANGED <<lastSeq, live, working, active, transients, derived, published, writer>>
  BY DEF StreamRest, runVars
<1>3. StreamShape'
  BY <1>1, <1>2 DEF StreamInv, StreamShape
<1>4. UsersInv'
  BY <1>1, <1>2, TasksAreFinite DEF StreamInv, UsersInv
<1>5. \A u \in Subscriber \ {s} : Reader(u)'
  BY <1>1, <1>2, ReaderKeeps DEF StreamInv, StreamShape
<1> QED BY <1>3, <1>4, <1>5 DEF StreamInv

\* The lock a generator enters or leaves, and a step beside it.
LEMMA GeneratorLocks ==
  ASSUME StreamInv, NEW s \in Subscriber
  PROVE  /\ Enter(s) /\ sub[s].pc \notin Locking =>
               LockInv' /\ lock'[s].obj # 0 /\ \A u \in StreamTask \ {s} : lock'[u] = lock[u]
         /\ \A regs : Exit(s, regs) /\ sub[s].pc \in Locking =>
               LockInv' /\ lock'[s].obj = 0 /\ \A u \in StreamTask \ {s} : lock'[u] = lock[u]
         /\ UNCHANGED lockVars =>
               /\ LockInv' /\ \A u \in StreamTask : lock'[u] = lock[u]
               /\ lock'[s].obj # 0 <=> sub[s].pc \in Locking
<1>1. s \in StreamTask /\ (lock[s].obj # 0 <=> sub[s].pc \in Locking)
  BY DEF StreamInv, UsersInv, StreamTask
<1>2. Enter(s) /\ sub[s].pc \notin Locking =>
         LockInv' /\ lock'[s].obj # 0 /\ \A u \in StreamTask \ {s} : lock'[u] = lock[u]
  BY <1>1, EntersOnce DEF StreamInv
<1>3. ASSUME NEW regs, Exit(s, regs), sub[s].pc \in Locking
      PROVE  LockInv' /\ lock'[s].obj = 0 /\ \A u \in StreamTask \ {s} : lock'[u] = lock[u]
  BY <1>1, <1>3, ExitsOnce DEF StreamInv
<1>4. UNCHANGED lockVars =>
         /\ LockInv' /\ \A u \in StreamTask : lock'[u] = lock[u]
         /\ lock'[s].obj # 0 <=> sub[s].pc \in Locking
  BY <1>1, LockStays DEF StreamInv, lockVars
<1> QED BY <1>2, <1>3, <1>4

\* A generator with the same cursor that goes somewhere with the same queue, batch and
\* pending entries, or with fewer of them.
LEMMA CursorStays ==
  ASSUME StreamInv, NEW s \in Subscriber, UNCHANGED <<lastSeq, published>>, seen'[s] = seen[s],
         sub'[s].queue = sub[s].queue, Stored(sub[s].pend)', Batch(s)',
         sub'[s].pc \in Listening => s \in registry',
         sub'[s].pc = "range" => sub'[s].pend # <<>>,
         sub'[s].pc \in Polled /\ sub[s].queue = <<>> =>
             \A n \in 1..published : n > seen[s] => n \in sub'[s].buf,
         sub'[s].pc \in {"status", "check"} => sub'[s].buf = {}
  PROVE  Reader(s)'
BY DEF StreamInv, Reader, Stored

LEMMA BatchOf ==
  ASSUME StreamInv, NEW s \in Subscriber, lastSeq' = lastSeq, seen'[s] = seen[s]
  PROVE  /\ sub'[s].buf = sub[s].buf => Batch(s)'
         /\ sub'[s].buf = {} => Batch(s)'
         /\ \A m \in 0..lastSeq : sub'[s].buf = RowsAfter(s, m) => Batch(s)'
         /\ \A m : RowsAfter(s, m) \subseteq Nat
<1>1. lastSeq \in Nat /\ Batch(s)
  BY DEF StreamInv, StreamShape, Reader
<1>2. \A m : RowsAfter(s, m)' = RowsAfter(s, m)
  BY DEF RowsAfter
<1>3. RowsAfter(s, 0) = {} /\ 0 \in 0..lastSeq
  BY <1>1 DEF RowsAfter
<1>4. \A m : RowsAfter(s, m) \subseteq Nat
  BY DEF RowsAfter
<1> QED BY <1>1, <1>2, <1>3, <1>4 DEF Batch

\* The first row of a batch is the one after the cursor, and the others are the rest.
LEMMA NextRow ==
  ASSUME StreamInv, NEW s \in Subscriber, sub[s].buf # {}
  PROVE  /\ Min(sub[s].buf) = seen[s] + 1 /\ seen[s] + 1 <= lastSeq
         /\ \E m \in 0..lastSeq : sub[s].buf \ {Min(sub[s].buf)} = {n \in 1..m : n > seen[s] + 1}
<1>1. lastSeq \in Nat /\ seen[s] \in Nat /\ Batch(s)
  BY DEF StreamInv, StreamShape, Reader
<1>2. PICK m \in 0..lastSeq : sub[s].buf = {n \in 1..m : n > seen[s]}
  BY <1>1 DEF Batch, RowsAfter
<1>3. /\ Min(sub[s].buf) \in sub[s].buf
      /\ \A n \in sub[s].buf : Min(sub[s].buf) <= n
  <2>1. sub[s].buf \subseteq Nat
    BY <1>2
  <2> QED BY <2>1, LeastIn
<1>4. seen[s] + 1 \in sub[s].buf
  BY <1>1, <1>2, <1>3
<1>5. Min(sub[s].buf) = seen[s] + 1
  <2> DEFINE least == Min(sub[s].buf)
  <2>1. least \in 1..m /\ least > seen[s] /\ least <= seen[s] + 1
    BY <1>2, <1>3, <1>4
  <2> HIDE DEF least
  <2>2. least = seen[s] + 1
    BY <1>1, <2>1
  <2> QED BY <2>2 DEF least
<1>6. sub[s].buf \ {Min(sub[s].buf)} = {n \in 1..m : n > seen[s] + 1}
  <2>1. \A n \in 1..m : n \in sub[s].buf \ {Min(sub[s].buf)} <=> n > seen[s] + 1
    BY <1>1, <1>2, <1>5
  <2>2. sub[s].buf \ {Min(sub[s].buf)} \subseteq 1..m
    BY <1>2
  <2> QED BY <2>1, <2>2
<1> QED BY <1>1, <1>2, <1>4, <1>5, <1>6

\* Yielding a row, wherever the batch comes from.
LEMMA YieldStep ==
  ASSUME StreamInv, NEW s \in Subscriber, Replay(s) \/ EmitRow(s) \/ PollRow(s)
  PROVE  StreamInv' /\ seen' = [seen EXCEPT ![s] = @ + 1]
<1> DEFINE g == [sub[s] EXCEPT !.buf = @ \ {Min(@)}]
<1>1. /\ sub[s].pc \in {"replay", "emit", "polled"} /\ sub[s].buf # {}
      /\ seen' = [seen EXCEPT ![s] = Min(sub[s].buf)] /\ Go(s, g)
      /\ UNCHANGED StreamRest /\ UNCHANGED lockVars /\ registry' = registry
  BY DEF Replay, EmitRow, PollRow, AtPc, StreamRest, lockVars
<1>2. /\ seen[s] \in Nat /\ sub[s] \in Generator /\ lastSeq \in Nat /\ published \in Nat
      /\ published <= lastSeq /\ seen \in [Subscriber -> Nat] /\ registry \subseteq Subscriber
      /\ sub \in [Subscriber -> Generator]
  BY DEF StreamInv, StreamShape
<1>3. seen' = [seen EXCEPT ![s] = @ + 1] /\ seen'[s] = seen[s] + 1
  BY <1>1, <1>2, NextRow
<1>4. /\ g \in Generator /\ g.pc = sub[s].pc /\ g.queue = sub[s].queue /\ g.pend = sub[s].pend
      /\ g.buf = sub[s].buf \ {seen[s] + 1}
  BY <1>1, <1>2, NextRow DEF Generator
<1> HIDE DEF g
<1>5. sub'[s] = g
  BY <1>1, <1>2 DEF Go
<1>6. UNCHANGED <<lastSeq, published>>
  BY <1>1 DEF StreamRest, runVars
<1>7. Reader(s)'
  <2>1. Reader(s)
    BY DEF StreamInv
  <2>2. Batch(s)'
    <3>1. PICK m \in 0..lastSeq : g.buf = {n \in 1..m : n > seen[s] + 1}
      BY <1>1, <1>4, NextRow
    <3> QED BY <1>3, <1>5, <1>6, <3>1 DEF Batch, RowsAfter
  <2>3. seen'[s] <= lastSeq'
    BY <1>1, <1>3, <1>6, NextRow
  <2>4. sub'[s].pc \in Polled /\ sub'[s].queue = <<>> =>
            \A n \in 1..published' : n > seen'[s] => n \in sub'[s].buf
    BY <1>2, <1>3, <1>4, <1>5, <1>6, <2>1 DEF Reader
  <2> QED BY <1>1, <1>4, <1>5, <1>6, <2>1, <2>2, <2>3, <2>4 DEF Reader, Stored, Listening
<1>8. /\ LockInv' /\ \A u \in StreamTask : lock'[u] = lock[u]
      /\ lock'[s].obj # 0 <=> g.pc \in Locking
  BY <1>1, <1>4, GeneratorLocks
<1>9. StreamInv'
  <2>1. seen' \in [Subscriber -> Nat] /\ \A u \in Subscriber \ {s} : seen'[u] = seen[u]
    BY <1>2, <1>3
  <2> QED BY <1>1, <1>2, <1>4, <1>7, <1>8, <2>1, GeneratorMoves
<1> QED BY <1>3, <1>9

\* A step of a generator that yields nothing.
LEMMA GeneratorGoes ==
  ASSUME StreamInv, NEW s \in Subscriber, NEW g \in Generator, Go(s, g), UNCHANGED StreamRest,
         UNCHANGED seen,
         registry' \subseteq Subscriber, \A u \in Subscriber \ {s} : u \in registry => u \in registry',
         \/ UNCHANGED lockVars /\ (g.pc \in Locking <=> sub[s].pc \in Locking)
         \/ Enter(s) /\ sub[s].pc \notin Locking /\ g.pc \in Locking
         \/ (\E regs : Exit(s, regs)) /\ sub[s].pc \in Locking /\ g.pc \notin Locking,
         g.queue \in {sub[s].queue, <<>>},
         Stored(g.pend),
         g.buf \in {sub[s].buf, {}} \cup {RowsAfter(s, m) : m \in 0..lastSeq},
         g.pc \in Listening => s \in registry',
         g.pc = "range" => g.pend # <<>>,
         g.pc \in Polled /\ g.queue = <<>> => \A n \in 1..published : n > seen[s] => n \in g.buf,
         g.pc \in {"status", "check"} => g.buf = {}
  PROVE  StreamInv'
<1>1. sub'[s] = g
  BY DEF Go, StreamInv, StreamShape
<1>2. UNCHANGED <<lastSeq, published>>
  BY DEF StreamRest, runVars
<1>3. Reader(s)'
  <2>1. Reader(s)
    BY DEF StreamInv
  <2>2. Stored(g.queue)
    BY <2>1 DEF Reader, Stored
  <2>3. Batch(s)'
    BY <1>1, <1>2, BatchOf
  <2>4. Len(g.queue) <= QueueSize
    BY <2>1, StreamAssumption DEF Reader
  <2>5. seen'[s] = seen[s]
    OBVIOUS
  <2> QED BY <1>1, <1>2, <2>1, <2>2, <2>3, <2>4, <2>5 DEF Reader, Stored
<1>4. LockInv' /\ (lock'[s].obj # 0 <=> g.pc \in Locking) /\ \A u \in StreamTask \ {s} : lock'[u] = lock[u]
  BY GeneratorLocks
<1>5. seen' \in [Subscriber -> Nat] /\ \A u \in Subscriber \ {s} : seen'[u] = seen[u]
  BY DEF StreamInv, StreamShape
<1> QED BY <1>3, <1>4, <1>5, GeneratorMoves

\* What the steps below start from.
LEMMA GeneratorHas ==
  ASSUME StreamInv, NEW s \in Subscriber
  PROVE  /\ sub[s] \in Generator /\ Gone \in Generator
         /\ Stored(sub[s].queue) /\ Stored(sub[s].pend) /\ Stored(<<>>)
         /\ registry \subseteq Subscriber
         /\ sub[s].pc \in Listening => s \in registry
         /\ lastSeq \in Nat /\ published \in Nat /\ published <= lastSeq
         /\ RowsAfter(s, lastSeq) \subseteq Nat
         /\ \A n \in 1..published : n > seen[s] => n \in RowsAfter(s, lastSeq)
BY GoneIsOne, BatchOf DEF StreamInv, StreamShape, Reader, Stored, RowsAfter

LEMMA LiveSteps ==
  ASSUME StreamInv, NEW s \in Subscriber, ReplayDone(s) \/ EmitDone(s) \/ ReadStatus(s) \/ ReadJob(s)
  PROVE  StreamInv'
<1> USE GeneratorHas
<1>1. CASE ReplayDone(s)
  <2> DEFINE g == [sub[s] EXCEPT !.pc = "get"]
  <2>1. g \in Generator /\ g.pc = "get" /\ g.queue = sub[s].queue /\ g.pend = sub[s].pend /\ g.buf = sub[s].buf
    BY DEF Generator, Listening
  <2> HIDE DEF g
  <2>2. Go(s, g) /\ UNCHANGED StreamRest /\ UNCHANGED lockVars /\ sub[s].pc = "replay"
        /\ seen' = seen /\ registry' = registry
    BY <1>1 DEF ReplayDone, AtPc, g
  <2> QED BY <2>1, <2>2, GeneratorGoes DEF Locking, Listening, Polled
<1>2. CASE EmitDone(s)
  <2> DEFINE g == [sub[s] EXCEPT !.pend = Tail(@)]
  <2>1. sub[s].pend \in Seq(Queued) /\ sub[s].pend # <<>> /\ sub[s].pc = "emit"
    BY <1>2 DEF Generator, EmitDone, AtPc
  <2>2. /\ Tail(sub[s].pend) \in Seq(Queued) /\ Len(Tail(sub[s].pend)) = Len(sub[s].pend) - 1
        /\ \A i \in 1..Len(Tail(sub[s].pend)) : Tail(sub[s].pend)[i] = sub[s].pend[i + 1]
    BY <2>1
  <2>3. Stored(Tail(sub[s].pend))
    BY <2>1, <2>2 DEF Stored
  <2>4. /\ g \in Generator /\ g.pc = "emit" /\ g.queue = sub[s].queue /\ g.buf = sub[s].buf
        /\ g.pend = Tail(sub[s].pend)
    BY <2>1, <2>2 DEF Generator, Listening
  <2> HIDE DEF g
  <2>5. Go(s, g) /\ UNCHANGED StreamRest /\ UNCHANGED lockVars /\ seen' = seen /\ registry' = registry
    BY <1>2 DEF EmitDone, g
  <2> QED BY <2>1, <2>3, <2>4, <2>5, GeneratorGoes DEF Locking, Listening, Polled
<1>3. CASE ReadStatus(s)
  <2> DEFINE g == [sub[s] EXCEPT !.pc = "status", !.over = ~live]
  <2>1. /\ g \in Generator /\ g.pc = "status" /\ g.queue = sub[s].queue /\ g.pend = sub[s].pend
        /\ g.buf = sub[s].buf
    BY DEF Generator, Listening
  <2> HIDE DEF g
  <2>2. Go(s, g) /\ UNCHANGED StreamRest /\ UNCHANGED lockVars /\ sub[s].pc = "polled"
        /\ sub[s].buf = {} /\ seen' = seen /\ registry' = registry
    BY <1>3 DEF ReadStatus, AtPc, g
  <2>3. sub[s].queue = <<>> => \A n \in 1..published : n > seen[s] => n \in g.buf
    BY <2>1, <2>2 DEF StreamInv, Reader, Polled
  <2> QED BY <2>1, <2>2, <2>3, GeneratorGoes DEF Locking, Listening, Polled
<1>4. CASE ReadJob(s)
  <2> DEFINE g == [sub[s] EXCEPT !.pc = "check", !.over = @ /\ ~working]
  <2>1. /\ g \in Generator /\ g.pc = "check" /\ g.queue = sub[s].queue /\ g.pend = sub[s].pend
        /\ g.buf = sub[s].buf
    BY DEF Generator, Listening
  <2> HIDE DEF g
  <2>2. Go(s, g) /\ UNCHANGED StreamRest /\ UNCHANGED lockVars /\ sub[s].pc = "status"
        /\ seen' = seen /\ registry' = registry
    BY <1>4 DEF ReadJob, AtPc, g
  <2>3. /\ sub[s].queue = <<>> => \A n \in 1..published : n > seen[s] => n \in g.buf
        /\ g.buf = {}
    BY <2>1, <2>2 DEF StreamInv, Reader, Polled
  <2> QED BY <2>1, <2>2, <2>3, GeneratorGoes DEF Locking, Listening, Polled
<1> QED BY <1>1, <1>2, <1>3, <1>4

LEMMA WakeUpSteps ==
  ASSUME StreamInv, NEW s \in Subscriber, Take(s) \/ RangeRead(s)
  PROVE  StreamInv'
<1> USE GeneratorHas
<1>1. CASE Take(s)
  <2> DEFINE to == IF \E i \in DOMAIN sub[s].queue : sub[s].queue[i].seq # 0 THEN "range" ELSE "emit"
             g == [sub[s] EXCEPT !.pc = to, !.pend = sub[s].queue, !.queue = <<>>]
  <2>1. to \in {"range", "emit"}
    OBVIOUS
  <2> HIDE DEF to
  <2>2. /\ g \in Generator /\ g.pc = to /\ g.queue = <<>> /\ g.pend = sub[s].queue /\ g.buf = sub[s].buf
    <3>1. sub[s] \in Generator /\ <<>> \in Seq(Queued)
      OBVIOUS
    <3>2. to \in {"idle", "register"} \cup Listening
      BY <2>1 DEF Listening
    <3> QED BY <3>1, <3>2 DEF Generator
  <2> HIDE DEF g
  <2>3. Go(s, g) /\ UNCHANGED StreamRest /\ UNCHANGED lockVars /\ sub[s].pc = "get"
        /\ sub[s].queue # <<>> /\ seen' = seen /\ registry' = registry
    BY <1>1 DEF Take, AtPc, g, to
  <2> QED BY <2>1, <2>2, <2>3, GeneratorGoes DEF Locking, Listening, Polled
<1>2. CASE RangeRead(s)
  <2> DEFINE seqs == {sub[s].pend[i].seq : i \in DOMAIN sub[s].pend}
             m == WakeSeq(sub[s].pend)
             g == [sub[s] EXCEPT !.pc = "emit", !.buf = RowsAfter(s, m)]
  <2>1. /\ sub[s].pc = "range" /\ sub[s].pend # <<>> /\ sub[s].pend \in Seq(Queued)
        /\ \A i \in 1..Len(sub[s].pend) : sub[s].pend[i].seq <= lastSeq
    BY <1>2 DEF RangeRead, AtPc, StreamInv, Reader, Stored, Generator
  <2>2. /\ DOMAIN sub[s].pend = 1..Len(sub[s].pend) /\ 1 \in DOMAIN sub[s].pend
        /\ \A i \in DOMAIN sub[s].pend : sub[s].pend[i] \in Queued
    BY <2>1
  <2>3. seqs \subseteq Nat /\ seqs # {} /\ \A x \in seqs : x <= lastSeq
    <3>1. \A i \in DOMAIN sub[s].pend : sub[s].pend[i].seq \in Nat /\ sub[s].pend[i].seq <= lastSeq
      BY <2>1, <2>2 DEF Queued
    <3>2. sub[s].pend[1].seq \in seqs
      BY <2>2
    <3> QED BY <3>1, <3>2
  <2>4. m \in 0..lastSeq
    <3>1. Max(seqs) \in seqs
      BY <2>3, GreatestIn
    <3> QED BY <2>3, <3>1 DEF WakeSeq
  <2>5. RowsAfter(s, m) \subseteq Nat
    BY DEF RowsAfter
  <2> HIDE DEF m, seqs
  <2>6. /\ g \in Generator /\ g.pc = "emit" /\ g.queue = sub[s].queue /\ g.pend = sub[s].pend
        /\ g.buf = RowsAfter(s, m)
    BY <2>5 DEF Generator, Listening
  <2> HIDE DEF g
  <2>7. Go(s, g) /\ UNCHANGED StreamRest /\ UNCHANGED lockVars /\ seen' = seen /\ registry' = registry
    BY <1>2 DEF RangeRead, g, m
  <2> QED BY <2>1, <2>4, <2>6, <2>7, GeneratorGoes DEF Locking, Listening, Polled
<1> QED BY <1>1, <1>2

\* The steps that begin inside publication() or end there.
LEMMA EnteringSteps ==
  ASSUME StreamInv, NEW s \in Subscriber,
         Connect(s) \/ StartPoll(s) \/ StartRead(s) \/ DecideEnd(s) \/ Leave(s)
  PROVE  StreamInv'
<1> USE GeneratorHas
<1>1. CASE Connect(s)
  <2> DEFINE g == [Gone EXCEPT !.pc = "register"]
  <2>1. /\ g \in Generator /\ g.pc = "register" /\ g.queue = <<>> /\ g.pend = <<>> /\ g.buf = {}
    BY DEF Generator, Gone
  <2> HIDE DEF g
  <2>2. Go(s, g) /\ UNCHANGED StreamRest /\ Enter(s) /\ sub[s].pc = "idle"
        /\ seen' = seen /\ registry' = registry
    BY <1>1 DEF Connect, AtPc, g
  <2> QED BY <2>1, <2>2, GeneratorGoes DEF Locking, Listening, Polled
<1>2. CASE StartPoll(s)
  <2> DEFINE g == [sub[s] EXCEPT !.pc = "poll", !.buf = {}]
  <2>1. /\ g \in Generator /\ g.pc = "poll" /\ g.queue = sub[s].queue /\ g.pend = sub[s].pend
        /\ g.buf = {}
    BY DEF Generator, Listening
  <2> HIDE DEF g
  <2>2. Go(s, g) /\ UNCHANGED StreamRest /\ Enter(s) /\ sub[s].pc \in {"emit", "get"}
        /\ seen' = seen /\ registry' = registry
    BY <1>2 DEF StartPoll, AtPc, g
  <2> QED BY <2>1, <2>2, GeneratorGoes DEF Locking, Listening, Polled
<1>3. CASE StartRead(s)
  <2> DEFINE g == [sub[s] EXCEPT !.pc = "read"]
  <2>1. /\ g \in Generator /\ g.pc = "read" /\ g.queue = sub[s].queue /\ g.pend = sub[s].pend
        /\ g.buf = sub[s].buf
    BY DEF Generator, Listening
  <2> HIDE DEF g
  <2>2. Go(s, g) /\ UNCHANGED StreamRest /\ UNCHANGED lockVars /\ sub[s].pc = "poll"
        /\ seen' = seen /\ registry' = registry
    BY <1>3 DEF StartRead, AtPc, g
  <2> QED BY <2>1, <2>2, GeneratorGoes DEF Locking, Listening, Polled
<1>4. CASE DecideEnd(s)
  <2> DEFINE e == [sub[s] EXCEPT !.pc = "ending"]
             g == [sub[s] EXCEPT !.pc = "get"]
  <2>1. /\ e \in Generator /\ e.pc = "ending" /\ e.queue = sub[s].queue /\ e.pend = sub[s].pend
        /\ e.buf = sub[s].buf
        /\ g \in Generator /\ g.pc = "get" /\ g.queue = sub[s].queue /\ g.pend = sub[s].pend
        /\ g.buf = sub[s].buf
    BY DEF Generator, Listening
  <2> HIDE DEF e, g
  <2>2. /\ UNCHANGED StreamRest /\ sub[s].pc = "check" /\ seen' = seen /\ registry' = registry
        /\ (Go(s, e) /\ Enter(s)) \/ (Go(s, g) /\ UNCHANGED lockVars)
    BY <1>4 DEF DecideEnd, AtPc, e, g
  <2>3. CASE Go(s, e) /\ Enter(s)
    BY <2>1, <2>2, <2>3, GeneratorGoes DEF Locking, Listening, Polled
  <2>4. CASE Go(s, g) /\ UNCHANGED lockVars
    BY <2>1, <2>2, <2>4, GeneratorGoes DEF Locking, Listening, Polled
  <2> QED BY <2>2, <2>3, <2>4
<1>5. CASE Leave(s)
  <2> DEFINE g == [sub[s] EXCEPT !.pc = "ending"]
  <2>1. /\ g \in Generator /\ g.pc = "ending" /\ g.queue = sub[s].queue /\ g.pend = sub[s].pend
        /\ g.buf = sub[s].buf
    BY DEF Generator, Listening
  <2> HIDE DEF g
  <2>2. Go(s, g) /\ UNCHANGED StreamRest /\ Enter(s) /\ sub[s].pc = "left"
        /\ seen' = seen /\ registry' = registry
    BY <1>5 DEF Leave, AtPc, g
  <2> QED BY <2>1, <2>2, GeneratorGoes DEF Locking, Listening, Polled
<1> QED BY <1>1, <1>2, <1>3, <1>4, <1>5

\* The steps that go on inside it, or leave it.
LEMMA LeavingSteps ==
  ASSUME StreamInv, NEW s \in Subscriber,
         Register(s) \/ ReadInitial(s) \/ SkipPoll(s) \/ Poll(s) \/ Unregister(s)
  PROVE  StreamInv'
<1> USE GeneratorHas
<1>1. CASE Register(s)
  <2> DEFINE g == [sub[s] EXCEPT !.pc = "initial"]
  <2>1. /\ g \in Generator /\ g.pc = "initial" /\ g.queue = sub[s].queue /\ g.pend = sub[s].pend
        /\ g.buf = sub[s].buf
    BY DEF Generator, Listening
  <2> HIDE DEF g
  <2>2. Go(s, g) /\ UNCHANGED StreamRest /\ UNCHANGED lockVars /\ sub[s].pc = "register"
        /\ seen' = seen /\ registry' = registry \cup {s}
    BY <1>1 DEF Register, AtPc, g
  <2> QED BY <2>1, <2>2, GeneratorGoes DEF Locking, Listening, Polled
<1>2. CASE ReadInitial(s)
  <2> DEFINE g == [sub[s] EXCEPT !.pc = "replay", !.buf = RowsAfter(s, lastSeq)]
  <2>1. /\ g \in Generator /\ g.pc = "replay" /\ g.queue = sub[s].queue /\ g.pend = sub[s].pend
        /\ g.buf = RowsAfter(s, lastSeq)
    BY DEF Generator, Listening
  <2> HIDE DEF g
  <2>2. Go(s, g) /\ UNCHANGED StreamRest /\ Exit(s, registry) /\ sub[s].pc = "initial"
        /\ seen' = seen /\ registry' = registry /\ lastSeq \in 0..lastSeq
    BY <1>2 DEF ReadInitial, AtPc, g
  <2> QED BY <2>1, <2>2, GeneratorGoes DEF Locking, Listening, Polled
<1>3. CASE SkipPoll(s)
  <2> DEFINE g == [sub[s] EXCEPT !.pc = "get"]
  <2>1. /\ g \in Generator /\ g.pc = "get" /\ g.queue = sub[s].queue /\ g.pend = sub[s].pend
        /\ g.buf = sub[s].buf
    BY DEF Generator, Listening
  <2> HIDE DEF g
  <2>2. Go(s, g) /\ UNCHANGED StreamRest /\ Exit(s, registry) /\ sub[s].pc = "poll"
        /\ seen' = seen /\ registry' = registry
    BY <1>3 DEF SkipPoll, AtPc, g
  <2> QED BY <2>1, <2>2, GeneratorGoes DEF Locking, Listening, Polled
<1>4. CASE Poll(s)
  <2> DEFINE g == [sub[s] EXCEPT !.pc = "polled", !.buf = RowsAfter(s, lastSeq)]
  <2>1. /\ g \in Generator /\ g.pc = "polled" /\ g.queue = sub[s].queue /\ g.pend = sub[s].pend
        /\ g.buf = RowsAfter(s, lastSeq)
    BY DEF Generator, Listening
  <2> HIDE DEF g
  <2>2. Go(s, g) /\ UNCHANGED StreamRest /\ Exit(s, registry) /\ sub[s].pc = "read"
        /\ seen' = seen /\ registry' = registry /\ lastSeq \in 0..lastSeq
    BY <1>4 DEF Poll, AtPc, g
  <2> QED BY <2>1, <2>2, GeneratorGoes DEF Locking, Listening, Polled
<1>5. CASE Unregister(s)
  <2>1. /\ Gone.pc = "idle" /\ Gone.queue = <<>> /\ Gone.pend = <<>> /\ Gone.buf = {}
    BY DEF Gone
  <2>2. Go(s, Gone) /\ UNCHANGED StreamRest /\ Exit(s, registry \ {s}) /\ sub[s].pc = "ending"
        /\ seen' = seen /\ registry' = registry \ {s}
    BY <1>5 DEF Unregister, AtPc
  <2> QED BY <2>1, <2>2, GeneratorGoes DEF Locking, Listening, Polled
<1> QED BY <1>1, <1>2, <1>3, <1>4, <1>5

LEMMA DisconnectStep ==
  ASSUME StreamInv, NEW s \in Subscriber, Disconnect(s) PROVE StreamInv'
<1> USE GeneratorHas
<1> DEFINE g == [sub[s] EXCEPT !.pc = "left"]
<1>1. /\ g \in Generator /\ g.pc = "left" /\ g.queue = sub[s].queue /\ g.pend = sub[s].pend
      /\ g.buf = sub[s].buf
  BY DEF Generator, Listening
<1> HIDE DEF g
<1>2. /\ sub[s].pc \notin {"idle", "ending", "left"} /\ UNCHANGED StreamRest /\ seen' = seen
      /\ registry' = registry
      /\ IF lock[s].obj # 0 THEN Exit(s, registry) /\ Go(s, IF s \in registry THEN g ELSE Gone)
                            ELSE UNCHANGED lockVars /\ Go(s, g)
  BY DEF Disconnect, g
<1>3. lock[s].obj # 0 <=> sub[s].pc \in Locking
  BY DEF StreamInv, UsersInv
<1>4. CASE lock[s].obj = 0
  <2>1. sub[s].pc \in Listening
    BY <1>2, <1>3, <1>4 DEF Generator, Locking
  <2> QED BY <1>1, <1>2, <1>3, <1>4, <2>1, GeneratorGoes DEF Locking, Listening, Polled
<1>5. CASE lock[s].obj # 0 /\ s \in registry
  BY <1>1, <1>2, <1>3, <1>5, GeneratorGoes DEF Locking, Listening, Polled
<1>6. CASE lock[s].obj # 0 /\ s \notin registry
  <2>1. /\ Gone.pc = "idle" /\ Gone.queue = <<>> /\ Gone.pend = <<>> /\ Gone.buf = {}
    BY DEF Gone
  <2> QED BY <1>2, <1>3, <1>6, <2>1, GeneratorGoes DEF Locking, Listening, Polled
<1> QED BY <1>4, <1>5, <1>6

-----------------------------------------------------------------------------
LEMMA StreamStep == StreamInv /\ [StreamNext]_streamVars => StreamInv'
<1> SUFFICES ASSUME StreamInv, [StreamNext]_streamVars PROVE StreamInv'
  OBVIOUS
<1>1. CASE UNCHANGED streamVars
  <2>1. /\ UNCHANGED <<lastSeq, published, transients, live, working, active, writer, derived,
                       registry, sub, seen>>
        /\ UNCHANGED lockVars
    BY <1>1 DEF streamVars, lockVars
  <2>2. LockInv'
    BY <2>1, LockStays DEF StreamInv
  <2>3. StreamShape' /\ UsersInv'
    BY <2>1 DEF StreamInv, StreamShape, UsersInv, lockVars
  <2>4. \A s \in Subscriber : Reader(s)'
    BY <2>1, ReadersKeep DEF StreamInv, StreamShape
  <2> QED BY <2>2, <2>3, <2>4 DEF StreamInv
<1>2. ASSUME NEW s \in Subscriber, Connect(s) \/ Disconnect(s) \/ SubscriberStep(s) PROVE StreamInv'
  BY <1>2, YieldStep, LiveSteps, WakeUpSteps, EnteringSteps, LeavingSteps, DisconnectStep,
     AcquireStep DEF SubscriberStep, StreamTask
<1>3. CASE PublisherStep
  BY <1>3, AttemptSteps, StartPublishStep, PublishFailsStep, AnnounceSteps, AcquireStep
     DEF PublisherStep, StreamTask
<1> QED BY <1>1, <1>2, <1>3, AttemptSteps, DeriveEventStep DEF StreamNext

\* The inductive invariant of the stream: the lock object and who has asked for it, and what
\* each generator has read, is about to yield and knows of the rows (runs/event_stream.py).
THEOREM StreamInvariant == StreamSpec => []StreamInv
BY StreamStart, StreamStep, PTL DEF StreamSpec

LEMMA StreamTypes == StreamInv => StreamTypeOK
BY DEF StreamInv, StreamShape, LockInv, Askers, Reader, StreamTypeOK

\* The counts and bounds of the stream: lock users are counted exactly, no cursor is ahead
\* of the log, no queue is longer than its bound (event_stream.py:250-270).
THEOREM StreamTypesHold == StreamSpec => []StreamTypeOK
BY StreamInvariant, StreamTypes, PTL

\* The publication lock excludes, although its object is made, counted and dropped
\* (event_stream.py:250-270).
THEOREM LockExcludes == StreamSpec => []OneInside
<1>1. StreamInv => OneInside
  BY OneInsideHolds DEF StreamInv
<1> QED BY <1>1, StreamInvariant, PTL

\* Only yielding moves a cursor, by one.
LEMMA CursorStep ==
  ASSUME StreamInv, [StreamNext]_streamVars
  PROVE  \A s \in Subscriber : seen'[s] \in {seen[s], seen[s] + 1}
<1>1. CASE seen' = seen
  BY <1>1
<1>2. ASSUME NEW s \in Subscriber, Replay(s) \/ EmitRow(s) \/ PollRow(s)
      PROVE  \A u \in Subscriber : seen'[u] \in {seen[u], seen[u] + 1}
  BY <1>2, YieldStep DEF StreamInv, StreamShape
<1>3. \/ seen' = seen
      \/ \E s \in Subscriber : Replay(s) \/ EmitRow(s) \/ PollRow(s)
  BY DEF StreamNext, streamVars, AttemptBegins, AttemptLeaves, DeriveEvent, AppendSilently,
         PublisherStep, StartPublish, AppendDurable, PublishDurable, PublishTransient,
         PublishFails, PublishDerived, Acquire, Connect, Disconnect, SubscriberStep, Register,
         ReadInitial, ReplayDone, Take, RangeRead, EmitDone, StartPoll, SkipPoll, StartRead, Poll,
         ReadStatus, ReadJob, DecideEnd, Leave, Unregister
<1> QED BY <1>1, <1>2, <1>3

\* A reader gets the rows one by one, in order and none twice, through replays, wake-ups, full
\* queues, polls and reconnections (event_stream.py:80-143).
THEOREM RowsComeInOrder == StreamSpec => NoGapNoDuplicate
<1>1. StreamInv /\ [StreamNext]_streamVars =>
          [\A s \in Subscriber : seen'[s] \in {seen[s], seen[s] + 1}]_streamVars
  BY CursorStep
<1> QED BY <1>1, StreamInvariant, PTL DEF StreamSpec, NoGapNoDuplicate

\* The end of a stream is decided with an empty queue after a poll whose rows are yielded.
LEMMA EndStep ==
  ASSUME StreamInv, [StreamNext]_streamVars, NEW s \in Subscriber, AtPc(s, "check"),
         sub'[s].pc = "ending"
  PROVE  seen[s] >= published
<1>1. sub[s].queue = <<>>
  <2>1. sub[s].pc = "check" /\ sub'[s].pc = "ending" /\ sub \in [Subscriber -> Generator]
    BY DEF AtPc, StreamInv, StreamShape
  <2>2. ASSUME sub[s].queue # <<>>, NEW u \in Subscriber, Connect(u) \/ Disconnect(u) \/ SubscriberStep(u)
        PROVE  FALSE
    <3>1. CASE u = s
      BY <2>1, <2>2, <3>1 DEF AtPc, Go, Gone, Connect, Disconnect, SubscriberStep, Register,
         ReadInitial, Replay, EmitRow, PollRow, ReplayDone, Take, RangeRead, EmitDone, StartPoll,
         SkipPoll, StartRead, Poll, ReadStatus, ReadJob, DecideEnd, Leave, Unregister, Acquire, Generator
    <3>2. CASE u # s
      BY <2>1, <2>2, <3>2 DEF Go, Connect, Disconnect, SubscriberStep, Register,
         ReadInitial, Replay, EmitRow, PollRow, ReplayDone, Take, RangeRead, EmitDone, StartPoll,
         SkipPoll, StartRead, Poll, ReadStatus, ReadJob, DecideEnd, Leave, Unregister, Acquire
    <3> QED BY <3>1, <3>2
  <2>3. ASSUME \A e : ~Offer(e), NEW p \in Publisher, PublisherStep PROVE sub' = sub
    BY <2>3 DEF PublisherStep, StartPublish, AppendDurable, PublishDurable, PublishTransient,
       PublishFails, PublishDerived, Acquire
  <2>4. ASSUME NEW e, Offer(e) PROVE sub'[s].pc = sub[s].pc
    BY <2>1, <2>4 DEF Offer, Generator
  <2>5. CASE UNCHANGED sub
    BY <2>1, <2>5
  <2>6. \/ UNCHANGED sub \/ PublisherStep
        \/ \E u \in Subscriber : Connect(u) \/ Disconnect(u) \/ SubscriberStep(u)
    BY DEF StreamNext, streamVars, AttemptBegins, AttemptLeaves, DeriveEvent, AppendSilently
  <2>7. "attempt" \in Publisher
    BY DEF Publisher
  <2> QED BY <2>1, <2>2, <2>3, <2>4, <2>5, <2>6, <2>7
<1>2. sub[s].buf = {} /\ \A n \in 1..published : n > seen[s] => n \in sub[s].buf
  BY <1>1 DEF AtPc, StreamInv, Reader, Polled
<1>3. seen[s] \in Nat /\ published \in Nat
  BY DEF StreamInv, StreamShape
<1> QED BY <1>2, <1>3

\* A stream that ends by itself has yielded every row whose wake-up was sent
\* (event_stream.py:149-152).
THEOREM EndsAreComplete == StreamSpec => EndsComplete
<1>1. StreamInv /\ [StreamNext]_streamVars =>
          [\A s \in Subscriber :
              AtPc(s, "check") /\ sub'[s].pc = "ending" => seen[s] >= published]_streamVars
  BY EndStep
<1> QED BY <1>1, StreamInvariant, PTL DEF StreamSpec, EndsComplete

=============================================================================
