------------------------------ MODULE RunWorker ------------------------------
(***************************************************************************)
(* The Runtime process around the store: RunCoordinator with its           *)
(* dispatcher, one asyncio task per claimed job, that task's heartbeat,    *)
(* cancel_run, shutdown, crash and boot recovery.  One process is up at a  *)
(* time (the port binding keeps a second one off the data directory); each *)
(* has a fresh worker id.                                                  *)
(*                                                                         *)
(* Every task is sequential and gives up control only at an await, so a    *)
(* step here runs from one await that matters to the next.  task.cancel()  *)
(* raises CancelledError at the await where the task is suspended: when    *)
(* that await is a write transaction, it may have committed already.       *)
(* All writes are the transactions of RunStore; the ledgers an attempt     *)
(* writes while it drives its graph, and its children, are left to         *)
(* RunStore.                                                               *)
(***************************************************************************)
EXTENDS RunStore

CONSTANT Slots  \* max_concurrent_runs

ASSUME SlotsAssumption == Slots \in Nat \ {0}

VARIABLES
    proc,       \* the worker id of the process that is up
    spent,      \* the worker ids of all processes so far
    stage,      \* boot (recover_orphans), up, stopping, draining
    recovering, \* the runs recover_orphans has still to look at
    free,       \* permits left in _slots
    task,       \* per job, the task that executes it and its heartbeat
    current,    \* _tasks: the job whose task is registered for the run, 0: none
    context,    \* _goals, _histories, _modes, ...: the job whose input they hold, 0: none
    accepted,   \* run.cancel commands committed, their coordinator.cancel_run to come
    calling,    \* cancel_run calls that read "leased" and have not called task.cancel()
    asked       \* HISTORY: the runs whose cancellation was ever requested

process == <<proc, spent, stage, recovering>>
memory == <<free, task, current, context>>
requests == <<accepted, calling, asked>>
workerVars == <<vars, process, memory, requests>>

ShuttingDown == stage \in {"stopping", "draining"}

NoTask == [pc |-> "none", cancel |-> FALSE, lost |-> FALSE, unproven |-> FALSE,
           frame |-> "body", res |-> "none", out |-> "none", cycle |-> 0, beat |-> "off"]
NewTask == [NoTask EXCEPT !.pc = "created"]

RunOf(j) == job[j].run
Ended == {"none", "gone", "leaked", "dead"}
Alive(j) == task[j].pc \notin Ended
\* In _started_jobs: the coroutine has reached its first await.
Started(j) == Alive(j) /\ task[j].pc # "created"

WorkerInit ==
    /\ Init
    /\ proc \in Worker /\ spent = {proc}
    /\ stage = "up" /\ recovering = {}
    /\ free = Slots
    /\ task = [j \in Job |-> NoTask]
    /\ current = [r \in Run |-> 0]
    /\ context = [r \in Run |-> 0]
    /\ accepted = {} /\ calling = {} /\ asked = {}

-----------------------------------------------------------------------------
(* Where control goes next in a task.  Each returns the task's new record. *)

Goto(t, pc) == [t EXCEPT !.pc = pc]

\* A task of which only these facts still matter.
Rest(t, pc) == [NoTask EXCEPT !.pc = pc, !.res = t.res, !.lost = t.lost]

\* The outer finally of _execute_claimed_job, whose first act is heartbeat.cancel().
Finally(t) == Rest(t, "final")

\* The result of an attempt that was interrupted but holds its lease.
InterruptedOutcome == IF ShuttingDown THEN "failed" ELSE "canceled"

\* MUTANT of OnCancelled: the failed cleanup is not remembered.
CancelledWithoutProof(t) ==
    IF t.frame # "body" THEN Finally(t)
    ELSE IF t.lost THEN [t EXCEPT !.frame = "cancel", !.pc = "ensure"]
    ELSE [t EXCEPT !.frame = "cancel", !.pc = "commit", !.out = InterruptedOutcome]

\* CancelledError leaves _run_claimed_attempt: the handler settles the run, unless
\* a cleanup failed.  Raised in a handler, it goes straight to the finally block.
OnCancelled(t) ==
    IF t.frame # "body" \/ t.unproven THEN Finally(t)
    ELSE IF t.lost THEN [t EXCEPT !.frame = "cancel", !.pc = "ensure"]
    ELSE [t EXCEPT !.frame = "cancel", !.pc = "commit", !.out = InterruptedOutcome]

\* LeaseFenceError from a commit: in the body its handler confirms the cleanup of a
\* lost attempt; in the CancelledError handler it is only noted.
OnFenced(t) ==
    IF t.frame = "body" THEN [t EXCEPT !.lost = TRUE, !.frame = "fence", !.pc = "ensure"]
    ELSE Finally([t EXCEPT !.lost = TRUE])

\* After the resources were closed.
Closed(t) ==
    LET c == [t EXCEPT !.res = "closed"]
    IN  IF t.out = "fenced" \/ (t.out = "interrupted" /\ t.lost) THEN Goto(c, "ensure")
        ELSE IF t.out = "interrupted" THEN [c EXCEPT !.pc = "commit", !.out = InterruptedOutcome]
        ELSE Goto(c, "commit")

Set(j, t) == task' = [task EXCEPT ![j] = t]
At(j, pc) == task[j].pc = pc /\ ~task[j].cancel
\* A pending task.cancel() is delivered at the await of pc.
HitAt(j, pc) == task[j].pc = pc /\ task[j].cancel
Taken(j) == [task[j] EXCEPT !.cancel = FALSE]

-----------------------------------------------------------------------------
(* The dispatcher.                                                         *)

\* It takes a slot, claims, and creates the task or gives the slot back.
Dispatch ==
    /\ stage = "up" /\ free > 0
    /\ Claim(proc)
    /\ \/ /\ \A j \in Job : job'[j].gen = job[j].gen
          /\ UNCHANGED memory
       \/ \E j \in Job :
            /\ job'[j].gen # job[j].gen
            /\ Set(j, NewTask)
            /\ current' = [current EXCEPT ![RunOf(j)] = j]
            /\ free' = free - 1
            /\ UNCHANGED context
    /\ UNCHANGED <<process, requests>>

-----------------------------------------------------------------------------
(* The attempt: _execute_claimed_job.                                      *)

\* The coroutine starts: it fills the run's context and starts its heartbeat.
Begin(j) ==
    /\ At(j, "created")
    /\ Set(j, [task[j] EXCEPT !.pc = "prepare", !.beat = "renew"])
    /\ context' = [context EXCEPT ![RunOf(j)] = j]
    /\ UNCHANGED <<vars, process, free, current, requests>>

\* A task cancelled before its first step never runs: no block of it is entered.
NeverBegins(j) ==
    /\ HitAt(j, "created")
    /\ Set(j, Rest(task[j], "leaked"))
    /\ UNCHANGED <<vars, process, free, current, context, requests>>

\* Identity, workspace, attachment and model checks: drive the graph, or fail.
Prepare(j) ==
    /\ \/ /\ At(j, "prepare")
          /\ \/ Set(j, [task[j] EXCEPT !.pc = "drive", !.res = "open"])
             \/ Set(j, [task[j] EXCEPT !.pc = "commit", !.out = "failed"])
       \/ HitAt(j, "prepare") /\ Set(j, OnCancelled(Taken(j)))
    /\ UNCHANGED <<vars, process, free, current, context, requests>>

\* The graph stops by itself: it has finished, failed, or waits for the user.  A
\* lost lease shows at the next write, as a failure or as LeaseFenceError.
DriveEnds(j) ==
    /\ At(j, "drive")
    /\ \/ \E out \in {"completed", "failed"} :
            /\ Set(j, [task[j] EXCEPT !.pc = "close", !.out = out])
            /\ UNCHANGED vars
       \/ /\ \E S \in SUBSET (Ask \cup Tool) : OpenWait(j, proc, S)
          /\ Set(j, [task[j] EXCEPT !.pc = "close", !.out = "waiting"])
       \/ /\ ~Fenced(j, proc)
          /\ Set(j, [task[j] EXCEPT !.pc = "close", !.out = "fenced"])
          /\ UNCHANGED vars
    /\ UNCHANGED <<process, free, current, context, requests>>

\* MUTANT of DriveInterrupted: a cancellation is always the user's.
DriveCanceled(j) ==
    /\ HitAt(j, "drive")
    /\ Set(j, [Taken(j) EXCEPT !.pc = "close", !.out = "canceled"])
    /\ UNCHANGED <<vars, process, free, current, context, requests>>

\* CancelledError in the graph: re-raised when the process stops or the lease is
\* lost, the result "canceled" otherwise.
DriveInterrupted(j) ==
    /\ HitAt(j, "drive")
    /\ Set(j, [Taken(j) EXCEPT !.pc = "close",
                  !.out = IF ShuttingDown \/ task[j].lost THEN "interrupted" ELSE "canceled"])
    /\ UNCHANGED <<vars, process, free, current, context, requests>>

\* resource_stack.aclose().  It fails by itself, or because it is cancelled.
Close(j) ==
    /\ \/ At(j, "close") /\ Set(j, Closed(task[j]))
       \/ /\ At(j, "close") \/ HitAt(j, "close")
          /\ Set(j, [Taken(j) EXCEPT !.unproven = TRUE, !.res = "stuck", !.pc = "quarantine"])
    /\ UNCHANGED <<vars, process, free, current, context, requests>>

\* quarantine_execution_attempt after a failed cleanup.
QuarantineSelf(j) ==
    /\ \/ At(j, "quarantine") /\ Quarantine(j, proc) /\ Set(j, Finally(task[j]))
       \/ /\ At(j, "quarantine") /\ ~Fenced(j, proc)
          /\ Set(j, Finally([task[j] EXCEPT !.lost = TRUE]))
          /\ UNCHANGED vars
       \/ /\ HitAt(j, "quarantine")
          /\ Quarantine(j, proc) \/ UNCHANGED vars
          /\ Set(j, OnCancelled(Taken(j)))
    /\ UNCHANGED <<process, free, current, context, requests>>

\* _settle_execution_outcome and _commit_run_result, in the body or in the handler
\* of CancelledError.
Commit(j) ==
    /\ \/ /\ At(j, "commit") /\ CommitResult(j, proc, task[j].out)
          /\ Set(j, IF status'[RunOf(j)] = "waiting" THEN Goto(task[j], "notify")
                    ELSE Finally(task[j]))
       \/ At(j, "commit") /\ ~Fenced(j, proc) /\ Set(j, OnFenced(task[j])) /\ UNCHANGED vars
       \/ /\ HitAt(j, "commit")
          /\ CommitResult(j, proc, task[j].out) \/ UNCHANGED vars
          /\ Set(j, OnCancelled(Taken(j)))
    /\ UNCHANGED <<process, free, current, context, requests>>

\* After a waiting commit: the cycle may have been decided already, then resume_run
\* is called, first its status check ...
Notify(j) ==
    LET r == RunOf(j)
        c == Newest(r)
    IN  /\ \/ /\ At(j, "notify") /\ BeginResume(r, c)
              /\ Set(j, [task[j] EXCEPT !.pc = "resume", !.cycle = c])
           \/ /\ At(j, "notify")
              /\ ~Resolved(r, c) \/ status[r] # "waiting" \/ <<r, c>> \in resuming
              /\ Set(j, Finally(task[j])) /\ UNCHANGED vars
           \/ HitAt(j, "notify") /\ Set(j, OnCancelled(Taken(j))) /\ UNCHANGED vars
        /\ UNCHANGED <<process, free, current, context, requests>>

\* ... then its enqueue.
AutoResume(j) ==
    LET r == RunOf(j)
        c == task[j].cycle
    IN  /\ \/ At(j, "resume") /\ EnqueueResume(r, c) /\ Set(j, Finally(task[j]))
           \/ /\ HitAt(j, "resume")
              /\ EnqueueResume(r, c) \/ AbandonResume(r, c)
              /\ Set(j, OnCancelled(Taken(j)))
        /\ UNCHANGED <<process, free, current, context, requests>>

\* _confirm_lost_attempt_cleanup: first the quarantine of the lost attempt, unless
\* the dispatcher's sweep came first ...
Ensure(j) ==
    LET mine == job[j].st = "leased" /\ job[j].owner = proc
    IN  /\ \/ /\ At(j, "ensure") /\ EnsureLostQuarantined(j, proc)
              /\ Set(j, Goto(task[j], "confirm"))
           \/ /\ At(j, "ensure")
              /\ ~mine \/ job[j].quar \/ job[j].lease > 0
              /\ Set(j, IF mine /\ job[j].quar THEN Goto(task[j], "confirm")
                        ELSE Finally(task[j]))
              /\ UNCHANGED vars
           \/ /\ HitAt(j, "ensure")
              /\ EnsureLostQuarantined(j, proc) \/ UNCHANGED vars
              /\ Set(j, OnCancelled(Taken(j)))
        /\ UNCHANGED <<process, free, current, context, requests>>

\* ... then the proof that its cleanup is done.
Confirm(j) ==
    /\ \/ At(j, "confirm") /\ ConfirmCleanup(j, proc) /\ Set(j, Finally(task[j]))
       \/ /\ HitAt(j, "confirm")
          /\ ConfirmCleanup(j, proc) \/ UNCHANGED vars
          /\ Set(j, OnCancelled(Taken(j)))
    /\ UNCHANGED <<process, free, current, context, requests>>

\* MUTANT of Release: the run's entry in _tasks is removed whoever it belongs to.
ReleaseEntry(j) ==
    /\ Set(j, [NoTask EXCEPT !.pc = "gone", !.res = task[j].res])
    /\ free' = free + 1
    /\ current' = [current EXCEPT ![RunOf(j)] = 0]
    /\ context' = [context EXCEPT ![RunOf(j)] = 0]

\* MUTANT of Release: the slot is given back twice.
ReleaseTwice(j) ==
    /\ Set(j, [NoTask EXCEPT !.pc = "gone", !.res = task[j].res])
    /\ free' = free + 2
    /\ current' = [current EXCEPT ![RunOf(j)] = IF @ = j THEN 0 ELSE @]
    /\ context' = [context EXCEPT ![RunOf(j)] = 0]

\* The inner finally.  Only the entries of _tasks and _wakeups are checked to be
\* this attempt's before they are removed.
Release(j) ==
    /\ Set(j, [NoTask EXCEPT !.pc = "gone", !.res = task[j].res])
    /\ free' = free + 1
    /\ current' = [current EXCEPT ![RunOf(j)] = IF @ = j THEN 0 ELSE @]
    /\ context' = [context EXCEPT ![RunOf(j)] = 0]

\* The outer finally waits for the heartbeat before it enters the inner one: a
\* CancelledError there leaves it, and nothing is released.  get_run and
\* finish_run_job come in between, which find a job that has a result already.
Final(j) ==
    /\ \/ At(j, "final") /\ Release(j)
       \/ /\ HitAt(j, "final")
          /\ Set(j, Rest(task[j], "leaked"))
          /\ UNCHANGED <<free, current, context>>
    /\ UNCHANGED <<vars, process, requests>>

-----------------------------------------------------------------------------
(* The heartbeat: _heartbeat_job.                                          *)

\* MUTANT of Beat: the heartbeat only renews.
BeatRenewsOnly(j) ==
    /\ task[j].beat = "renew"
    /\ \/ Renew(j, proc) /\ UNCHANGED task
       \/ ~Fenced(j, proc) /\ UNCHANGED vars /\ Set(j, [task[j] EXCEPT !.beat = "check"])
    /\ UNCHANGED <<process, free, current, context, requests>>

\* renew_run_job: the lease is extended and a cancel request seen, or it is not.
Beat(j) ==
    /\ task[j].beat = "renew"
    /\ \/ /\ Renew(j, proc)
          /\ Set(j, [task[j] EXCEPT !.beat = IF job[j].cancel THEN "cancel" ELSE "renew"])
       \/ ~Fenced(j, proc) /\ UNCHANGED vars /\ Set(j, [task[j] EXCEPT !.beat = "check"])
    /\ UNCHANGED <<process, free, current, context, requests>>

\* get_run_job: nothing to do for an attempt that quarantined itself or has settled.
BeatCheck(j) ==
    LET mine == job[j].owner = proc
        quiet == \/ task[j].unproven /\ job[j].st = "leased" /\ job[j].quar /\ mine
                 \/ job[j].st \in {"completed", "canceled", "dead"} /\ mine
    IN  /\ task[j].beat = "check"
        /\ Set(j, [task[j] EXCEPT !.beat = IF quiet THEN "off" ELSE "lose"])
        /\ UNCHANGED <<vars, process, free, current, context, requests>>

\* owner_task.cancel()
BeatCancel(j) ==
    /\ task[j].beat \in {"cancel", "lose"}
    /\ Set(j, [task[j] EXCEPT !.beat = "off", !.cancel = TRUE,
                              !.lost = @ \/ task[j].beat = "lose"])
    /\ UNCHANGED <<vars, process, free, current, context, requests>>

-----------------------------------------------------------------------------
(* Cancellation from outside the attempt.                                  *)

\* The run.cancel command; coordinator.cancel_run follows if it says canceled.
AcceptCancel(r) ==
    /\ stage = "up"
    /\ RequestCancel(r)
    /\ accepted' = IF LiveJob(r, "leased") # {} \/ CancelNow({r}) # {}
                   THEN accepted \cup {r} ELSE accepted
    /\ asked' = asked \cup {r} \cup Children(r)
    /\ UNCHANGED <<process, memory, calling>>

\* cancel_run: the tree cancel in its own transaction ...
CallCancel(r) ==
    /\ stage = "up"
    /\ RequestCancel(r)
    /\ accepted' = accepted \ {r}
    /\ calling' = calling \cup {q \in {r} \cup Children(r) : LiveJob(q, "leased") # {}}
    /\ asked' = asked \cup {r} \cup Children(r)
    /\ UNCHANGED <<process, memory>>

\* ... and then task.cancel() on whatever task the run has by now, if it has begun.
DeliverCancel(r) ==
    /\ r \in calling
    /\ calling' = calling \ {r}
    /\ IF current[r] # 0 /\ Started(current[r])
       THEN Set(current[r], [task[current[r]] EXCEPT !.cancel = TRUE])
       ELSE UNCHANGED task
    /\ UNCHANGED <<vars, process, free, current, context, accepted, asked>>

\* cancel_model_connection_runs: a run of the connection whose settings are known and
\* that has nothing left to cancel in the store still has its task cancelled.
ChangeConnection(r) ==
    /\ stage = "up" /\ current[r] # 0 /\ Alive(current[r]) /\ context[r] # 0
    /\ status[r] # "waiting" /\ LiveJob(r, "leased") \cup LiveJob(r, "pending") = {}
    /\ Set(current[r], [task[current[r]] EXCEPT !.cancel = TRUE])
    /\ UNCHANGED <<vars, process, free, current, context, requests>>

-----------------------------------------------------------------------------
(* The process: stop, crash, boot.                                         *)

\* The resume_run calls that are an attempt's own.
OwnResumes == {<<RunOf(j), task[j].cycle>> : j \in {i \in Job : task[i].pc = "resume"}}

\* stop(), once every request has been answered: the dispatcher is cancelled; a claim
\* it waits for may have committed, and then its job has no task.
Stop ==
    /\ stage = "up"
    /\ accepted = {} /\ calling = {} /\ resuming \subseteq OwnResumes
    /\ stage' = "stopping"
    /\ UNCHANGED vars \/ (free > 0 /\ Claim(proc))
    /\ UNCHANGED <<proc, spent, recovering, memory, requests>>

\* MUTANT of CancelAll: a task that has not begun is left alone.
CancelStarted ==
    /\ stage = "stopping"
    /\ stage' = "draining"
    /\ task' = [j \in Job |-> IF Started(j) /\ current[RunOf(j)] = j
                              THEN [task[j] EXCEPT !.cancel = TRUE] ELSE task[j]]
    /\ UNCHANGED <<vars, proc, spent, recovering, free, current, context, requests>>

\* ... then every registered task is cancelled once, and awaited.
CancelAll ==
    /\ stage = "stopping"
    /\ stage' = "draining"
    /\ task' = [j \in Job |-> IF Alive(j) /\ current[RunOf(j)] = j
                              THEN [task[j] EXCEPT !.cancel = TRUE] ELSE task[j]]
    /\ UNCHANGED <<vars, proc, spent, recovering, free, current, context, requests>>

\* The process is killed, or exits after stop().  Another process starts.  A resume_run
\* call it was in has been abandoned, or is not past its status check.
Restart ==
    /\ resuming = {}
    /\ \E w \in Worker \ spent : proc' = w /\ spent' = spent \cup {w}
    /\ stage' = "boot" /\ recovering' = Run
    /\ free' = Slots
    /\ task' = [j \in Job |-> IF Alive(j) \/ task[j].pc = "leaked"
                              THEN Rest(task[j], "dead")
                              ELSE task[j]]
    /\ current' = [r \in Run |-> 0] /\ context' = [r \in Run |-> 0]
    /\ accepted' = {} /\ calling' = {}
    /\ UNCHANGED <<vars, asked>>

\* recover_orphans: a run without a job fails, and so does one whose graph head
\* cannot be reconciled; a decided wait is resumed.
Recover(r) ==
    /\ stage = "boot" /\ r \in recovering /\ resuming = {}
    /\ recovering' = recovering \ {r}
    /\ \/ OrphanFail(r)
       \/ BeginResume(r, Newest(r))
       \/ ~(status[r] = "waiting" /\ Resolved(r, Newest(r))) /\ UNCHANGED vars
    /\ UNCHANGED <<proc, spent, stage, memory, requests>>

\* coordinator.start()
StartUp ==
    /\ stage = "boot" /\ recovering = {} /\ resuming = {}
    /\ stage' = "up"
    /\ UNCHANGED <<vars, proc, spent, recovering, memory, requests>>

-----------------------------------------------------------------------------
\* Commands and routes.  They are served after recovery and before shutdown.
Serve(r) ==
    /\ stage = "up"
    /\ \/ AcceptRun(r)
       \/ \E c \in 1..MaxCycles :
            \/ ReplayDecision(r, c) \/ BeginResume(r, c)
            \/ \E x \in Ask \cup Tool : Decide(r, c, x) \/ DecideByRoute(r, c, x)
    /\ UNCHANGED <<process, memory, requests>>

\* The second half of a resume_run call that is not an attempt's own.
ServeResume(r) ==
    /\ \E c \in 1..MaxCycles :
        /\ <<r, c>> \notin OwnResumes
        /\ EnqueueResume(r, c) \/ AbandonResume(r, c)
    /\ UNCHANGED <<process, memory, requests>>

Clock(j) == Tick(j) /\ UNCHANGED <<process, memory, requests>>

\* The steps a task takes without waiting for anything outside the process; the end
\* of its graph is not among them.
Proceed(j) ==
    \/ Begin(j) \/ NeverBegins(j) \/ Prepare(j) \/ DriveInterrupted(j) \/ Close(j)
    \/ QuarantineSelf(j) \/ Commit(j) \/ Notify(j) \/ AutoResume(j)
    \/ Ensure(j) \/ Confirm(j) \/ Final(j)
Heartbeat(j) == Beat(j) \/ BeatCheck(j) \/ BeatCancel(j)

WorkerNext ==
    \/ Dispatch \/ Stop \/ CancelAll \/ StartUp \/ Restart
    \/ \E j \in Job : Proceed(j) \/ DriveEnds(j) \/ Heartbeat(j) \/ Clock(j)
    \/ \E r \in Run : \/ Serve(r) \/ ServeResume(r) \/ Recover(r)
                      \/ AcceptCancel(r) \/ CallCancel(r) \/ DeliverCancel(r)
                      \/ ChangeConnection(r)

WorkerSafe == WorkerInit /\ [][WorkerNext]_workerVars

\* The event loop runs every task that is ready, the dispatcher polls every half
\* second, and the lease of an attempt without a heartbeat runs out.  Nothing makes
\* a graph finish, a user decide or a client call.
WorkerFairness ==
    /\ WF_workerVars(Dispatch) /\ WF_workerVars(CancelAll)
    /\ \A j \in Job : /\ WF_workerVars(Proceed(j)) /\ WF_workerVars(Heartbeat(j))
                      /\ WF_workerVars(task[j].beat = "off" /\ Clock(j))
    /\ \A r \in Run : WF_workerVars(DeliverCancel(r))

WorkerSpec == WorkerSafe /\ WorkerFairness

-----------------------------------------------------------------------------
(* Properties.                                                             *)

TaskRecord ==
    [pc: {"created", "prepare", "drive", "close", "quarantine", "commit", "notify", "resume",
          "ensure", "confirm", "final"} \cup Ended,
     cancel: BOOLEAN, lost: BOOLEAN, unproven: BOOLEAN, frame: {"body", "cancel", "fence"},
     res: {"none", "open", "closed", "stuck"},
     out: Outcome \cup {"none", "fenced", "interrupted"}, cycle: Nat,
     beat: {"off", "renew", "check", "cancel", "lose"}]

\* The process's tables have their types, and no more slots are free than there are.
WorkerTypeOK ==
    /\ proc \in Worker /\ spent \subseteq Worker
    /\ stage \in {"boot", "up", "stopping", "draining"} /\ recovering \subseteq Run
    /\ free \in 0..Slots
    /\ task \in [Job -> TaskRecord]
    /\ current \in [Run -> Job \cup {0}] /\ context \in [Run -> Job \cup {0}]
    /\ accepted \subseteq Run /\ calling \subseteq Run /\ asked \subseteq Run

\* A run does not end, and does not wait, while resources of an attempt of it are
\* open, or after their cleanup failed: no cancel, shutdown, lost lease or restart
\* passes an unproven cleanup off as a proven one.
CleanupBeforeEnd ==
    \A j \in Job : task[j].res \in {"open", "stuck"} =>
        status[RunOf(j)] \in {"running", "cleanup_required"}

\* The attempt that holds the run's lease is the one cancel_run and stop() find in
\* _tasks, although the previous attempt may still be finishing.
HolderIsRegistered ==
    \A j \in Job : Alive(j) /\ job[j].st = "leased" => current[RunOf(j)] = j

\* A run ends as canceled only if its cancellation was requested: a shutdown or a
\* lost lease, which also cancel the task, are never reported as the user's wish.
CanceledWasAsked == \A r \in Run : status[r] = "canceled" => r \in asked

\* While the process is up, a cancel request on an attempt's job is answered: the
\* attempt settles or is fenced, whatever its graph does and whatever becomes of the
\* task.cancel() of the request itself; the heartbeat sees to it.
CancelSettles ==
    \A j \in Job : stage = "up" /\ job[j].st = "leased" /\ job[j].cancel
                    ~> job[j].st # "leased" \/ job[j].quar \/ stage # "up"

\* stop() comes to its end: every task it waits for ends, however far it was.
StopDrains ==
    stage = "draining" ~> stage # "draining" \/ \A r \in Run : current[r] = 0 \/ ~Alive(current[r])

\* Stated of the code, and refuted.

\* "In-process cleanup and the release of the slot are in an inner finally that
\* cannot be skipped": a task that has begun does not end without releasing its slot.
SlotIsReleased ==
    \A j \in Job : task[j].pc = "leaked" => ShuttingDown

\* A running execution whose cancellation was accepted and carried out is closed by
\* it: once the attempt is over, the run does not wait for the user.
CancelClosesTheRun ==
    \A j \in Job :
        task[j].pc = "gone" /\ job[j].cancel /\ job[j].st = "completed"
        /\ RunOf(j) \notin accepted \cup calling
            => status[RunOf(j)] # "waiting"
=============================================================================
