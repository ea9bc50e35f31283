----------------------------- MODULE PushOutbox ------------------------------
(***************************************************************************)
(* Push notifications of one A2A task (a2a_gateway/push.py, push_store.py). *)
(* A configuration starts with a snapshot of the task; one coordinator      *)
(* polls the task's run, writes every event beyond the task's cursor into   *)
(* an outbox, one row for each configuration, and delivers the rows, each   *)
(* under a lease.  The gateway may stop between any two of its statements.  *)
(***************************************************************************)
EXTENDS Naturals, FiniteSets

CONSTANTS
    Config,        \* push configuration ids of the task, at most the 8 it may have
    MaxAttempts,   \* attempts before a delivery is dead (12)
    MaxEvents,     \* bound: events of the run
    MaxFaults      \* bound: stops, failed polls and failed projections

ASSUME PushAssumption ==
    /\ IsFiniteSet(Config) /\ Cardinality(Config) <= 8
    /\ MaxAttempts \in Nat \ {0} /\ MaxEvents \in Nat /\ MaxFaults \in Nat

VARIABLES
    lastEvent,   \* the run's last event
    config,      \* a2a_push_configs, and create requests that hold a snapshot
    cursor,      \* runtime_after of the task
    jumped,      \* history: events the cursor has passed without a row
    outbox,      \* a2a_push_outbox, by configuration and event; the snapshot is event 0
    pump,        \* the coordinator
    faults

pushVars == <<lastEvent, config, cursor, jumped, outbox, pump, faults>>

Pushes == Config \X (0..MaxEvents)
NoPush == [status |-> "none", attempts |-> 0]
NewPush == [status |-> "pending", attempts |-> 0]
\* The attempts of a row count until it is settled.
SettledAs(status) == [status |-> status, attempts |-> 0]
Unsettled == {"pending", "leased"}
Settled == {"delivered", "dead", "canceled"}
LiveConfigs == {c \in Config : config[c].state = "live"}
Pumping(pc) == pump.pc = pc
PumpAt(pc) == [pc |-> pc, after |-> 0, upto |-> 0, job |-> <<>>]
PumpGoesTo(pc) == pump' = PumpAt(pc)

PushInit ==
    /\ lastEvent = 0 /\ cursor = 0 /\ jumped = {} /\ faults = 0
    /\ config = [c \in Config |-> [state |-> "none", start |-> 0, since |-> 0]]
    /\ outbox = [k \in Pushes |-> NoPush]
    /\ pump = PumpAt("list")

Publish ==
    /\ lastEvent < MaxEvents
    /\ lastEvent' = lastEvent + 1
    /\ UNCHANGED <<config, cursor, jumped, outbox, pump, faults>>

-----------------------------------------------------------------------------
(* The peer's requests.                                                    *)

\* get_push_config finds nothing; projection.snapshot reads the run and its last event.
\* A repeated request finds the row and changes nothing; a deleted id is refused.
ReadSnapshot(c) ==
    /\ config[c].state = "none"
    /\ config' = [config EXCEPT ![c] = [state |-> "creating", start |-> lastEvent, since |-> 0]]
    /\ UNCHANGED <<lastEvent, cursor, jumped, outbox, pump, faults>>

\* MUTANT of CursorWith: the run's last event when the row is inserted.
CursorNow(start) == lastEvent

CursorWith(start) == IF start > cursor THEN start ELSE cursor

Passed(seq) == IF cursor < seq THEN (cursor + 1)..seq ELSE {}

\* create_push_config.  since is the run's last event at this moment.
InsertConfig(c) ==
    LET start == config[c].start
    IN /\ config[c].state = "creating"
       /\ config' = [config EXCEPT ![c].state = "live", ![c].since = lastEvent]
       /\ cursor' = CursorWith(start)
       /\ jumped' = jumped \cup Passed(start)
       /\ outbox' = [outbox EXCEPT ![<<c, 0>>] = NewPush]
       /\ UNCHANGED <<lastEvent, pump, faults>>

DeleteConfig(c) ==
    /\ config[c].state = "live"
    /\ config' = [config EXCEPT ![c] = [state |-> "deleted", start |-> 0, since |-> 0]]
    /\ outbox' = [k \in Pushes |-> IF k[1] = c /\ outbox[k].status \in Unsettled
                                   THEN SettledAs("canceled")
                                   ELSE outbox[k]]
    /\ UNCHANGED <<lastEvent, cursor, jumped, pump, faults>>

-----------------------------------------------------------------------------
(* produce_once.                                                           *)

\* list_push_watch_tasks: a task is watched while one of its configurations is live.  A round
\* without one records nothing and has nothing to deliver.
ListTasks ==
    /\ Pumping("list") /\ LiveConfigs # {}
    /\ pump' = [PumpAt("poll") EXCEPT !.after = cursor]
    /\ UNCHANGED <<lastEvent, config, cursor, jumped, outbox, faults>>

PollRun ==
    /\ Pumping("poll")
    /\ pump' = [pump EXCEPT !.pc = "record", !.upto = lastEvent]
    /\ UNCHANGED <<lastEvent, config, cursor, jumped, outbox, faults>>

\* The poll fails, and the task is left for the next round.
PollFails ==
    /\ Pumping("poll") /\ faults < MaxFaults
    /\ faults' = faults + 1 /\ PumpGoesTo("deliver")
    /\ UNCHANGED <<lastEvent, config, cursor, jumped, outbox>>

NextEvent == pump.after + 1
Batched == Pumping("record") /\ NextEvent <= pump.upto

\* record_push_event, for the configurations that are live in its transaction.  One payload
\* stands for those the event projects to, each of which has a row.
RecordEvent ==
    /\ Batched
    /\ IF NextEvent <= cursor
       THEN UNCHANGED <<outbox, cursor>>
       ELSE /\ outbox' = [k \in Pushes |-> IF k[1] \in LiveConfigs /\ k[2] = NextEvent
                                              /\ outbox[k].status = "none"
                                           THEN NewPush ELSE outbox[k]]
            /\ cursor' = NextEvent
    /\ pump' = [pump EXCEPT !.after = NextEvent]
    /\ UNCHANGED <<lastEvent, config, jumped, faults>>

\* The projection of an event raises: the round is given up, deliveries included.
ProjectionFails ==
    /\ Batched /\ faults < MaxFaults
    /\ faults' = faults + 1 /\ PumpGoesTo("list")
    /\ UNCHANGED <<lastEvent, config, cursor, jumped, outbox>>

BatchDone ==
    /\ Pumping("record") /\ ~Batched
    /\ PumpGoesTo("deliver")
    /\ UNCHANGED <<lastEvent, config, cursor, jumped, outbox, faults>>

-----------------------------------------------------------------------------
(* deliver_once.                                                           *)

\* MUTANT of Claimable: an expired lease is not claimed again.
ClaimablePending == {k \in Pushes : k[1] \in LiveConfigs /\ outbox[k].status = "pending"}

\* A row is due when its available_at, or its lease, has passed: it may be at any time.
Claimable == {k \in Pushes : k[1] \in LiveConfigs /\ outbox[k].status \in Unsettled}

\* claim_push_delivery takes the row that has been due longest.
Claim(k) ==
    /\ Pumping("deliver") /\ k \in Claimable
    /\ outbox' = [outbox EXCEPT ![k] = [status |-> "leased", attempts |-> @.attempts + 1]]
    /\ pump' = [PumpAt("send") EXCEPT !.job = k]
    /\ UNCHANGED <<lastEvent, config, cursor, jumped, faults>>

\* Nothing is due: the coordinator sleeps until it is woken or half a second is over.
Rest ==
    /\ Pumping("deliver")
    /\ PumpGoesTo("list")
    /\ UNCHANGED <<lastEvent, config, cursor, jumped, outbox, faults>>

Written(k, status) ==
    [outbox EXCEPT ![k] = IF status = "pending" THEN [@ EXCEPT !.status = status]
                                                ELSE SettledAs(status)]

\* MUTANT of Close: the row is written whatever has become of it.
CloseAnyway(k, status) == outbox' = Written(k, status)

\* settle_push_delivery and retry_push_delivery: WHERE status = 'leased'.
Close(k, status) ==
    outbox' = IF outbox[k].status = "leased" THEN Written(k, status) ELSE outbox

Deliver2xx ==
    /\ Pumping("send")
    /\ Close(pump.job, "delivered")
    /\ PumpGoesTo("deliver")
    /\ UNCHANGED <<lastEvent, config, cursor, jumped, faults>>

\* _fail: a refusal, or a receiver whose answer did not come, whether or not it was reached.
Fail(retryable) ==
    /\ Pumping("send")
    /\ Close(pump.job, IF ~retryable \/ outbox[pump.job].attempts >= MaxAttempts
                       THEN "dead" ELSE "pending")
    /\ PumpGoesTo("deliver")
    /\ UNCHANGED <<lastEvent, config, cursor, jumped, faults>>

\* The gateway stops and starts again: requests and the coordinator begin anew.
Restart ==
    /\ faults < MaxFaults
    /\ faults' = faults + 1
    /\ config' = [c \in Config |-> IF config[c].state = "creating"
                                   THEN [state |-> "none", start |-> 0, since |-> 0]
                                   ELSE config[c]]
    /\ PumpGoesTo("list")
    /\ UNCHANGED <<lastEvent, cursor, jumped, outbox>>

-----------------------------------------------------------------------------
Produce == ListTasks \/ PollRun \/ PollFails \/ RecordEvent \/ ProjectionFails \/ BatchDone
DeliverOnce == (\E k \in Pushes : Claim(k)) \/ Rest \/ Deliver2xx
               \/ \E retryable \in BOOLEAN : Fail(retryable)

PushNext ==
    \/ Publish \/ Produce \/ DeliverOnce \/ Restart
    \/ \E c \in Config : ReadSnapshot(c) \/ InsertConfig(c) \/ DeleteConfig(c)

PushSpec == PushInit /\ [][PushNext]_pushVars

\* The coordinator's loop goes on, and does not for ever find that nothing is due yet.
PushFairness ==
    /\ WF_pushVars(Produce \/ DeliverOnce)
    /\ SF_pushVars(\E k \in Pushes : Claim(k))

-----------------------------------------------------------------------------
(* Properties.                                                             *)

PushTypeOK ==
    /\ lastEvent \in 0..MaxEvents /\ cursor \in 0..lastEvent /\ jumped \subseteq 1..cursor
    /\ config \in [Config -> [state : {"none", "creating", "live", "deleted"},
                              start : 0..lastEvent, since : 0..lastEvent]]
    /\ outbox \in [Pushes -> [status : {"none"} \cup Unsettled \cup Settled,
                              attempts : 0..(MaxAttempts + MaxFaults)]]
    /\ pump.pc \in {"list", "poll", "record", "deliver", "send"}
    /\ Pumping("send") => pump.job \in Pushes
    /\ faults \in 0..MaxFaults

\* After its deletion a configuration owes nothing, though events are being recorded and one
\* of its rows may be on its way: the answer does not bring a canceled row back
\* (push_store.py:149-155, 196-202, 256-270).
DeletedOwesNothing ==
    \A k \in Pushes : config[k[1]].state = "deleted" => outbox[k].status \notin Unsettled

\* An event published after a configuration was stored gets a row for it, unless the snapshot
\* of another configuration has moved the task's cursor past it: the only way an event is
\* passed over (push_store.py:81-88, 188-227).
OnlySnapshotsSkip ==
    \A k \in Pushes : LET c == k[1] IN
        (config[c].state = "live" /\ config[c].since < k[2] /\ k[2] <= cursor /\ k[2] \notin jumped)
            => outbox[k].status # "none"

\* "at least one attempt" of every event for every configuration (docs/a2a-conformance.md:18):
\* what the run publishes after a configuration's snapshot has a row for it once the cursor
\* has passed.
EveryConfigIsTold ==
    \A k \in Pushes : LET c == k[1] IN
        (config[c].state = "live" /\ config[c].start < k[2] /\ k[2] <= cursor)
            => outbox[k].status # "none"

\* Every delivery ends, also one whose gateway stopped between the lease and the answer
\* (push_store.py:229-270, push.py:293-307, 378-389).
PushesSettle ==
    \A k \in Pushes : outbox[k].status \in Unsettled ~> outbox[k].status \in Settled
=============================================================================
