---------------------------- MODULE EventStream ----------------------------
(***************************************************************************)
(* The event stream of one run (runs/event_stream.py and                   *)
(* runs/event_publisher.py).  Durable events are numbered by the store;    *)
(* what a subscriber finds in its bounded queue is only a wake-up with a   *)
(* number, or transient output that is never stored.  A run's publication  *)
(* lock orders the two kinds for everybody who takes it; most store        *)
(* transactions append without taking it.                                  *)
(***************************************************************************)
EXTENDS Naturals, Sequences, FiniteSets, FiniteSetsExt

CONSTANTS
    Subscriber,    \* clients of the run's stream
    QueueSize,     \* _LIVE_EVENT_QUEUE_SIZE
    MaxSeq,        \* bound: durable events
    MaxTransient,  \* bound: transient events
    MaxConnect     \* bound: connections of a subscriber

ASSUME StreamAssumption ==
    /\ IsFiniteSet(Subscriber)
    /\ QueueSize \in Nat \ {0}
    /\ MaxSeq \in Nat /\ MaxTransient \in Nat /\ MaxConnect \in Nat
    /\ {"attempt", "child"} \cap Subscriber = {}

VARIABLES
    lastSeq,     \* the newest row of local_events
    published,   \* the newest row a wake-up was sent for
    transients,  \* transient events produced so far
    live,        \* the status is queued or running
    working,     \* get_active_run_job finds a job
    active,      \* the run is in _tasks
    writer,      \* what the attempt is about to publish
    derived,     \* the row a child appended and has not published, or 0
    entry,       \* the lock object in _publication_locks, 0 when there is none
    users,       \* _publication_lock_users
    lock,        \* of a task: the lock object it asked for and whether it has it
    registry,    \* _subscribers
    sub,         \* of a subscriber: its generator
    seen,        \* of a subscriber: the sequence number of its cursor
    connects     \* of a subscriber: connections made

streamVars == <<lastSeq, published, transients, live, working, active, writer, derived, entry,
                users, lock, registry, sub, seen, connects>>
runVars == <<lastSeq, live, working, active, transients, derived>>
lockVars == <<entry, users, lock>>

\* The task that executes the run, and the one that publishes a child's derived event.
Publisher == {"attempt", "child"}
StreamTask == Publisher \cup Subscriber

NoLock == [obj |-> 0, has |-> FALSE]
Transient(k) == [seq |-> 0, after |-> k]
Wake(n) == [seq |-> n, after |-> n]
Gone == [pc |-> "idle", queue |-> <<>>, pend |-> <<>>, buf |-> {}, over |-> FALSE, drop |-> FALSE]

StreamInit ==
    /\ lastSeq = 0 /\ published = 0 /\ transients = 0
    /\ live = TRUE /\ working = TRUE /\ active = FALSE
    /\ writer = "idle" /\ derived = 0
    /\ entry = 0 /\ users = 0 /\ lock = [t \in StreamTask |-> NoLock]
    /\ registry = {}
    /\ sub = [s \in Subscriber |-> Gone]
    /\ seen = [s \in Subscriber |-> 0]
    /\ connects = [s \in Subscriber |-> 0]

-----------------------------------------------------------------------------
(* The publication lock.                                                   *)

Unused == Min((1..(Cardinality(StreamTask) + 1)) \ ({entry} \cup {lock[t].obj : t \in StreamTask}))

\* setdefault, one more user, and the first await of the lock: it is taken at once
\* when nobody has it or waits for it.
Enter(t) ==
    LET o == IF entry = 0 THEN Unused ELSE entry
    IN /\ entry' = o
       /\ users' = users + 1
       /\ lock' = [lock EXCEPT ![t] = [obj |-> o, has |-> \A u \in StreamTask : lock[u].obj # o]]

\* A waiter gets the lock.
Acquire(t) ==
    /\ lock[t].obj # 0 /\ ~lock[t].has
    /\ \A u \in StreamTask : lock[u].obj = lock[t].obj => ~lock[u].has
    /\ lock' = [lock EXCEPT ![t].has = TRUE]
    /\ UNCHANGED <<runVars, published, writer, entry, users, registry, sub, seen, connects>>

\* MUTANT of Idle: the lock is dropped although somebody waits for it.
IdleWithUsers(n, regs, act) == regs = {} /\ ~act

\* discard_if_idle.
Idle(n, regs, act) == n = 0 /\ regs = {} /\ ~act

\* The end of publication(), for a holder or for a waiter that is cancelled.
Exit(t, regs) ==
    /\ users' = users - 1
    /\ entry' = IF Idle(users - 1, regs, active) THEN 0 ELSE entry
    /\ lock' = [lock EXCEPT ![t] = NoLock]

Inside(t) == lock[t].has

-----------------------------------------------------------------------------
(* Publishers.                                                             *)

\* publish_live: a full queue drops the entry.
Offer(e) ==
    sub' = [s \in Subscriber |->
              IF s \notin registry THEN sub[s]
              ELSE IF Len(sub[s].queue) < QueueSize THEN [sub[s] EXCEPT !.queue = Append(@, e)]
              ELSE [sub[s] EXCEPT !.drop = TRUE]]

AttemptBegins ==
    /\ live /\ working /\ ~active
    /\ active' = TRUE
    /\ UNCHANGED <<lastSeq, live, working, transients, derived, published, writer, lockVars, registry, sub, seen, connects>>

\* The attempt's coroutine leaves _tasks and calls discard_if_idle.
AttemptLeaves ==
    /\ active /\ ~working /\ writer = "idle"
    /\ active' = FALSE
    /\ entry' = IF Idle(users, registry, FALSE) THEN 0 ELSE entry
    /\ UNCHANGED <<lastSeq, live, working, transients, derived, published, writer, users, lock, registry, sub, seen, connects>>

\* _enqueue and _commit_run_result ask for the lock.
StartPublish ==
    /\ active /\ working /\ writer = "idle"
    /\ writer' = "asked"
    /\ Enter("attempt")
    /\ UNCHANGED <<runVars, published, registry, sub, seen, connects>>

\* Inside: append_event, or commit_run_result, which settles the job too.
AppendDurable ==
    /\ writer = "asked" /\ Inside("attempt") /\ lastSeq < MaxSeq
    /\ lastSeq' = lastSeq + 1
    /\ \/ UNCHANGED <<live, working>>
       \/ live' = FALSE /\ working' = FALSE
    /\ writer' = "appended"
    /\ UNCHANGED <<transients, active, derived, published, lockVars, registry, sub, seen, connects>>

\* Inside, after the append: the wake-up, and the end of the block.
PublishDurable ==
    /\ writer = "appended"
    /\ Offer(Wake(lastSeq))
    /\ published' = lastSeq
    /\ writer' = "idle"
    /\ Exit("attempt", registry)
    /\ UNCHANGED <<runVars, registry, seen, connects>>

PublishTransient ==
    /\ writer = "asked" /\ Inside("attempt") /\ transients < MaxTransient
    /\ transients' = transients + 1
    /\ Offer(Transient(published))
    /\ writer' = "idle"
    /\ Exit("attempt", registry)
    /\ UNCHANGED <<lastSeq, live, working, active, derived, published, registry, seen, connects>>

\* The transaction is refused (the attempt lost its lease): the block is left.
PublishFails ==
    /\ writer = "asked" /\ Inside("attempt")
    /\ writer' = "idle"
    /\ Exit("attempt", registry)
    /\ UNCHANGED <<runVars, published, registry, sub, seen, connects>>

\* A child's transaction appends to this run's log without its lock;
\* _publish_derived_parent_event follows.
DeriveEvent ==
    /\ derived = 0 /\ lastSeq < MaxSeq
    /\ lastSeq' = lastSeq + 1
    /\ derived' = lastSeq + 1
    /\ Enter("child")
    /\ UNCHANGED <<live, working, active, transients, published, writer, registry, sub, seen, connects>>

PublishDerived ==
    /\ derived # 0 /\ Inside("child")
    /\ Offer(Wake(derived))
    /\ published' = Max({published, derived})
    /\ derived' = 0
    /\ Exit("child", registry)
    /\ UNCHANGED <<lastSeq, live, working, active, transients, writer, registry, seen, connects>>

\* Transactions that publish nothing: a decision (which may enqueue the run again), a
\* cancel, sweep or recovery that ends a run no attempt executes.
AppendSilently ==
    /\ lastSeq < MaxSeq
    /\ lastSeq' = lastSeq + 1
    /\ \/ UNCHANGED <<live, working>>
       \/ ~working /\ live' = TRUE /\ working' = TRUE
       \/ ~active /\ live' = FALSE /\ working' = FALSE
    /\ UNCHANGED <<active, transients, derived, published, writer, lockVars, registry, sub, seen, connects>>

-----------------------------------------------------------------------------
(* A subscriber's generator, RunEventStream.stream.                        *)

AtPc(s, pc) == sub[s].pc = pc
Go(s, g) == sub' = [sub EXCEPT ![s] = g]
StreamRest == <<runVars, published, writer>>

Connect(s) ==
    /\ AtPc(s, "idle") /\ connects[s] < MaxConnect
    /\ connects' = [connects EXCEPT ![s] = @ + 1]
    /\ Go(s, [Gone EXCEPT !.pc = "register"])
    /\ Enter(s)
    /\ UNCHANGED <<StreamRest, registry, seen>>

Register(s) ==
    /\ AtPc(s, "register") /\ Inside(s)
    /\ registry' = registry \cup {s}
    /\ Go(s, [sub[s] EXCEPT !.pc = "initial"])
    /\ UNCHANGED <<StreamRest, lockVars, seen, connects>>

\* events_since: the rows after the cursor, up to last.
RowsAfter(s, last) == {n \in 1..last : n > seen[s]}

ReadInitial(s) ==
    /\ AtPc(s, "initial")
    /\ Go(s, [sub[s] EXCEPT !.pc = "replay", !.buf = RowsAfter(s, lastSeq)])
    /\ Exit(s, registry)
    /\ UNCHANGED <<StreamRest, registry, seen, connects>>

\* Yield the next row of a replay; the batch of a poll is followed by the end test.
Replay(s) ==
    /\ AtPc(s, "replay") /\ sub[s].buf # {}
    /\ seen' = [seen EXCEPT ![s] = Min(sub[s].buf)]
    /\ Go(s, [sub[s] EXCEPT !.buf = @ \ {Min(@)}])
    /\ UNCHANGED <<StreamRest, lockVars, registry, connects>>

ReplayDone(s) ==
    /\ AtPc(s, "replay") /\ sub[s].buf = {}
    /\ Go(s, [sub[s] EXCEPT !.pc = "get"])
    /\ UNCHANGED <<StreamRest, lockVars, registry, seen, connects>>

\* wait_for(live_events.get()) and the drain of the queue.
Take(s) ==
    /\ AtPc(s, "get") /\ sub[s].queue # <<>>
    /\ Go(s, [sub[s] EXCEPT !.pc = IF \E i \in DOMAIN sub[s].queue : sub[s].queue[i].seq # 0
                                   THEN "range" ELSE "emit",
                            !.pend = sub[s].queue, !.queue = <<>>])
    /\ UNCHANGED <<StreamRest, lockVars, registry, seen, connects>>

WakeSeq(pend) == Max({pend[i].seq : i \in DOMAIN pend})

\* MUTANT of RangeRead: the wake-ups are taken for payloads.
RangeReadPayloads(s) ==
    /\ AtPc(s, "range")
    /\ Go(s, [sub[s] EXCEPT !.pc = "emit",
                            !.buf = {sub[s].pend[i].seq : i \in DOMAIN sub[s].pend} \ {0}])
    /\ UNCHANGED <<StreamRest, lockVars, registry, seen, connects>>

\* One range read up to the newest wake-up.
RangeRead(s) ==
    /\ AtPc(s, "range")
    /\ Go(s, [sub[s] EXCEPT !.pc = "emit", !.buf = RowsAfter(s, WakeSeq(sub[s].pend))])
    /\ UNCHANGED <<StreamRest, lockVars, registry, seen, connects>>

\* The pending entries in their order: transient output is yielded; a wake-up
\* yields the rows of the range up to its own.
EmitRow(s) ==
    /\ AtPc(s, "emit") /\ sub[s].pend # <<>>
    /\ \E n \in sub[s].buf : n <= Head(sub[s].pend).seq
    /\ seen' = [seen EXCEPT ![s] = Min(sub[s].buf)]
    /\ Go(s, [sub[s] EXCEPT !.buf = @ \ {Min(@)}])
    /\ UNCHANGED <<StreamRest, lockVars, registry, connects>>

EmitDone(s) ==
    /\ AtPc(s, "emit") /\ sub[s].pend # <<>>
    /\ ~\E n \in sub[s].buf : n <= Head(sub[s].pend).seq
    /\ Go(s, [sub[s] EXCEPT !.pend = Tail(@)])
    /\ UNCHANGED <<StreamRest, lockVars, registry, seen, connects>>

\* MUTANT of StartPoll: no poll without an entry.
StartPollAfterBatch(s) ==
    /\ AtPc(s, "emit") /\ sub[s].pend = <<>>
    /\ Go(s, [sub[s] EXCEPT !.pc = "poll", !.buf = {}])
    /\ Enter(s)
    /\ UNCHANGED <<StreamRest, registry, seen, connects>>

\* The batch is done, or half a second passed without an entry.
StartPoll(s) ==
    /\ \/ AtPc(s, "emit") /\ sub[s].pend = <<>>
       \/ AtPc(s, "get") /\ sub[s].queue = <<>>
    /\ Go(s, [sub[s] EXCEPT !.pc = "poll", !.buf = {}])
    /\ Enter(s)
    /\ UNCHANGED <<StreamRest, registry, seen, connects>>

SkipPoll(s) ==
    /\ AtPc(s, "poll") /\ Inside(s) /\ sub[s].queue # <<>>
    /\ Go(s, [sub[s] EXCEPT !.pc = "get"])
    /\ Exit(s, registry)
    /\ UNCHANGED <<StreamRest, registry, seen, connects>>

\* The queue is looked at before the await of the read.
StartRead(s) ==
    /\ AtPc(s, "poll") /\ Inside(s) /\ sub[s].queue = <<>>
    /\ Go(s, [sub[s] EXCEPT !.pc = "read"])
    /\ UNCHANGED <<StreamRest, lockVars, registry, seen, connects>>

Poll(s) ==
    /\ AtPc(s, "read")
    /\ Go(s, [sub[s] EXCEPT !.pc = "polled", !.buf = RowsAfter(s, lastSeq)])
    /\ Exit(s, registry)
    /\ UNCHANGED <<StreamRest, registry, seen, connects>>

PollRow(s) ==
    /\ AtPc(s, "polled") /\ sub[s].buf # {}
    /\ seen' = [seen EXCEPT ![s] = Min(sub[s].buf)]
    /\ Go(s, [sub[s] EXCEPT !.buf = @ \ {Min(@)}])
    /\ UNCHANGED <<StreamRest, lockVars, registry, connects>>

\* get_run ...
ReadStatus(s) ==
    /\ AtPc(s, "polled") /\ sub[s].buf = {}
    /\ Go(s, [sub[s] EXCEPT !.pc = "status", !.over = ~live])
    /\ UNCHANGED <<StreamRest, lockVars, registry, seen, connects>>

\* ... then get_active_run_job ...
ReadJob(s) ==
    /\ AtPc(s, "status")
    /\ Go(s, [sub[s] EXCEPT !.pc = "check", !.over = @ /\ ~working])
    /\ UNCHANGED <<StreamRest, lockVars, registry, seen, connects>>

\* MUTANT of DecideEnd: the queue is not looked at again.
DecideEndBlindly(s) ==
    /\ AtPc(s, "check")
    /\ IF sub[s].over
       THEN Go(s, [sub[s] EXCEPT !.pc = "ending"]) /\ Enter(s)
       ELSE Go(s, [sub[s] EXCEPT !.pc = "get"]) /\ UNCHANGED lockVars
    /\ UNCHANGED <<StreamRest, registry, seen, connects>>

\* ... then the queue.
DecideEnd(s) ==
    /\ AtPc(s, "check")
    /\ IF sub[s].queue = <<>> /\ sub[s].over
       THEN Go(s, [sub[s] EXCEPT !.pc = "ending"]) /\ Enter(s)
       ELSE Go(s, [sub[s] EXCEPT !.pc = "get"]) /\ UNCHANGED lockVars
    /\ UNCHANGED <<StreamRest, registry, seen, connects>>

\* The client goes away: the generator is closed at whatever it was doing.
Disconnect(s) ==
    /\ sub[s].pc \notin {"idle", "ending", "left"}
    /\ IF lock[s].obj # 0
       THEN Exit(s, registry) /\ Go(s, IF s \in registry THEN [sub[s] EXCEPT !.pc = "left"] ELSE Gone)
       ELSE UNCHANGED lockVars /\ Go(s, [sub[s] EXCEPT !.pc = "left"])
    /\ UNCHANGED <<StreamRest, registry, seen, connects>>

\* The finally block asks for the lock ...
Leave(s) ==
    /\ AtPc(s, "left")
    /\ Go(s, [sub[s] EXCEPT !.pc = "ending"])
    /\ Enter(s)
    /\ UNCHANGED <<StreamRest, registry, seen, connects>>

\* ... and removes the queue.
Unregister(s) ==
    /\ AtPc(s, "ending") /\ Inside(s)
    /\ registry' = registry \ {s}
    /\ Go(s, Gone)
    /\ Exit(s, registry \ {s})
    /\ UNCHANGED <<StreamRest, seen, connects>>

-----------------------------------------------------------------------------
PublisherStep ==
    \/ StartPublish \/ AppendDurable \/ PublishDurable \/ PublishTransient \/ PublishFails
    \/ PublishDerived
    \/ \E p \in Publisher : Acquire(p)

SubscriberStep(s) ==
    \/ Register(s) \/ ReadInitial(s) \/ Replay(s) \/ ReplayDone(s) \/ Take(s) \/ RangeRead(s)
    \/ EmitRow(s) \/ EmitDone(s) \/ StartPoll(s) \/ SkipPoll(s) \/ StartRead(s) \/ Poll(s)
    \/ PollRow(s) \/ ReadStatus(s) \/ ReadJob(s) \/ DecideEnd(s) \/ Leave(s) \/ Unregister(s) \/ Acquire(s)

StreamNext ==
    \/ AttemptBegins \/ AttemptLeaves \/ DeriveEvent \/ AppendSilently \/ PublisherStep
    \/ \E s \in Subscriber : Connect(s) \/ Disconnect(s) \/ SubscriberStep(s)

StreamSpec == StreamInit /\ [][StreamNext]_streamVars

\* The event loop runs every ready coroutine, the client reads what it is sent, and
\* asyncio.Lock serves its waiters in order.
StreamFairness ==
    /\ WF_streamVars(PublisherStep)
    /\ \A s \in Subscriber : WF_streamVars(SubscriberStep(s))
    /\ WF_streamVars(Acquire("attempt")) /\ WF_streamVars(Acquire("child"))
    /\ \A s \in Subscriber : SF_streamVars(Acquire(s))

-----------------------------------------------------------------------------
(* Properties.                                                             *)

StreamTypeOK ==
    /\ published <= lastSeq /\ lastSeq <= MaxSeq /\ transients <= MaxTransient
    /\ users = Cardinality({t \in StreamTask : lock[t].obj # 0})
    /\ \A s \in Subscriber : Len(sub[s].queue) <= QueueSize /\ seen[s] <= lastSeq

\* At most one task is inside publication(), although the lock object comes and goes
\* (event_stream.py:250-270).
OneInside == Cardinality({t \in StreamTask : Inside(t)}) <= 1

\* A reader gets the rows one by one, in order, none twice, through replays, wake-ups,
\* full queues, polls and reconnections (event_stream.py:80-143).
NoGapNoDuplicate == [][\A s \in Subscriber : seen'[s] \in {seen[s], seen[s] + 1}]_streamVars

\* A stream that ends by itself has yielded every row whose wake-up was sent
\* (event_stream.py:149-152).
EndsComplete ==
    [][\A s \in Subscriber :
         AtPc(s, "check") /\ sub'[s].pc = "ending" => seen[s] >= published]_streamVars

\* Every row reaches a reader that stays (event_stream.py:130-143).
RowsReachReaders ==
    \A s \in Subscriber, n \in 1..MaxSeq :
        (s \in registry /\ lastSeq >= n) ~> (seen[s] >= n \/ s \notin registry)

\* When the run has ended for good, its streams end (event_stream.py:145-152).
StreamsEnd ==
    \A s \in Subscriber : <>[](~live /\ ~working) => []<>(sub[s].pc = "idle")

=============================================================================
