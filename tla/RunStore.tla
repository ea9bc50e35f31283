------------------------------ MODULE RunStore ------------------------------
(***************************************************************************)
(* The durable half of the Runtime: the SQLite tables that decide which    *)
(* execution attempt owns a Run and what the Run's authoritative outcome   *)
(* is (local_runs, local_run_jobs, local_tool_receipts, local_model_calls, *)
(* local_wait_candidates, local_events), and every transaction on them.    *)
(*                                                                         *)
(* Every store method opens its own connection, takes BEGIN IMMEDIATE and  *)
(* commits or rolls back, so one method is one atomic action.  Workers are *)
(* only names here: which process calls what, and when, is arbitrary, and  *)
(* module RunWorker restricts it to what the coordinator does.             *)
(***************************************************************************)
EXTENDS Naturals, Sequences, FiniteSets

CONSTANTS
    Run,          \* run ids
    NoRun,        \* the run_id of a job row that was never inserted
    Worker,       \* lease owners (one fresh id per Runtime process)
    NoWorker,     \* lease_owner IS NULL
    Tool,         \* tool operations: one durable receipt each
    ToolRun,      \* the run whose graph calls the tool
    Recoverable,  \* tools the Runtime itself may reconcile (child.spawn, mailbox.*)
    Caller,       \* the runs whose attempts call a model
    Ask,          \* waits that are only a user decision: permission, question, plan
    Parent,       \* parent_run_id of a child run, NoRun for a conversation run
    Deps,         \* local_child_dependencies of a child run
    CompletionMode,  \* of a child run: required, best_effort or quorum
    QuorumRequired,  \* quorum_required; a parent's quorum members are one group here
    Thread,       \* the product thread of a conversation run
    LeaseTicks,   \* lease_seconds, in steps of the clock
    MaxJobs,      \* BOUND: jobs ever inserted
    MaxCycles,    \* BOUND: wait cycles ever opened by one run
    MaxStarts     \* BOUND: times one tool is started

Job == 1..MaxJobs

ASSUME LeaseAssumption == LeaseTicks \in Nat \ {0}
ASSUME BoundAssumption == MaxJobs \in Nat /\ MaxCycles \in Nat /\ MaxStarts \in Nat
ASSUME NullAssumption == NoRun \notin Run /\ NoWorker \notin Worker
\* MAX_DURABLE_CHILD_DEPTH is 1, and only a child run has dependencies.
ASSUME TopologyAssumption ==
    /\ ToolRun \in [Tool -> Run]
    /\ Parent \in [Run -> Run \cup {NoRun}]
    /\ Deps \in [Run -> SUBSET Run]
    /\ CompletionMode \in [Run -> {"required", "best_effort", "quorum"}]
    /\ QuorumRequired \in Nat \ {0}
    /\ IsFiniteSet(Run)
    /\ DOMAIN Thread = Run
    /\ \A r \in Run : IF Parent[r] = NoRun THEN Deps[r] = {} ELSE Parent[Parent[r]] = NoRun
ASSUME SubsetAssumption ==
    Recoverable \subseteq Tool /\ Caller \subseteq Run /\ Ask \cap Tool = {}

VARIABLES
    status,    \* local_runs.status; waiting_permission and waiting_input are "waiting"
    job,       \* local_run_jobs, in created_at order
    nJobs,     \* how many job rows exist
    tool,      \* local_tool_receipts
    calls,     \* what an attempt's local_model_calls rows still say: active, unknown
    ask,       \* local_wait_candidates: per run, the pending ones of each wait cycle
    log,       \* local_events: the run.* lifecycle events, by the status they publish
    resuming   \* resume_run calls past their status check: <<run, wait cycle>>

tables == <<status, job, nJobs, tool, calls, ask, log>>
vars == <<status, job, nJobs, tool, calls, ask, log, resuming>>

Terminal == {"completed", "failed", "canceled"}
Published == Terminal \cup {"waiting", "cleanup_required"}
RunStatus == Published \cup {"none", "queued", "running"}

\* A dependency in one of these states can no longer complete.
Broken == {"failed", "canceled", "cleanup_required"}

\* _CHILD_TERMINAL_STATUSES: a child its parent no longer waits for.
ChildSettled == Terminal \cup {"cleanup_required"}

\* The job status recorded with a run status when an attempt is settled.
JobStatusFor(s) == CASE s = "failed"   -> "dead"
                     [] s = "canceled" -> "canceled"
                     [] OTHER          -> "completed"

FreshJob(r, kind, cycle, late) ==
    [run |-> r, kind |-> kind, st |-> "pending", owner |-> NoWorker, gen |-> 0,
     lease |-> 0, quar |-> FALSE, cancel |-> FALSE, asked |-> FALSE,
     cycle |-> cycle, late |-> late]

FreeJob == [FreshJob(NoRun, "start", 0, FALSE) EXCEPT !.st = "free"]

FreshTool == [st |-> "none", job |-> 0, starts |-> 0, grants |-> 0]

Init ==
    /\ status = [r \in Run |-> "none"]
    /\ job = [j \in Job |-> FreeJob]
    /\ nJobs = 0
    /\ tool = [t \in Tool |-> FreshTool]
    /\ calls = [j \in Job |-> {}]
    /\ ask = [r \in Run |-> <<>>]
    /\ log = [r \in Run |-> <<>>]
    /\ resuming = {}

-----------------------------------------------------------------------------
(* What the queries of the transactions select.                            *)

Active(jb, j) == jb[j].st \in {"pending", "leased"}

\* MUTANT of HasActive: a run being executed does not count as having a job.
HasPendingOnly(r) == \E j \in Job : job[j].run = r /\ job[j].st = "pending"

\* SELECT ... WHERE run_id = ? AND status IN ('pending', 'leased'): quarantined
\* jobs count, so a run whose cleanup is unproven cannot get a new attempt.
HasActive(r) == \E j \in Job : job[j].run = r /\ Active(job, j)

\* The fence of run_write_transaction: the exact owner and generation, not
\* quarantined, lease not expired.
Fenced(j, w) ==
    /\ job[j].st = "leased" /\ job[j].owner = w
    /\ ~job[j].quar /\ job[j].lease > 0

\* The attempt is still driving its graph: it has not come to collecting the
\* interrupts it will wait for, which it does once, after the graph has stopped.
Driving(j, w) == Fenced(j, w) /\ ~job[j].asked

Expired == {j \in Job : job[j].st = "leased" /\ ~job[j].quar /\ job[j].lease = 0}

ToolsOf(r) == {t \in Tool : ToolRun[t] = r}
Children(r) == {c \in Run : Parent[c] = r /\ status[c] # "none"}
Newest(r) == Len(ask[r])
Resolved(r, c) == c \in 1..Len(ask[r]) /\ ask[r][c] = {}

-----------------------------------------------------------------------------
(* What the transactions write, as functions of the tables they start from.*)

\* INSERT INTO local_run_jobs ... status 'pending'
Insert(r, kind, cycle, late) ==
    /\ nJobs < MaxJobs
    /\ nJobs' = nJobs + 1
    /\ job' = [job EXCEPT ![nJobs + 1] = FreshJob(r, kind, cycle, late)]

\* _append_event_uncommitted with the projection of the same status.
Publish(lg, rs, s) == [r \in Run |-> IF r \in rs THEN Append(lg[r], s) ELSE lg[r]]

\* MUTANT of CancelUnstarted: a paused tool is forgotten.
CancelPreparedOnly(tl, rs) ==
    [t \in Tool |-> IF ToolRun[t] \in rs /\ tl[t].st = "prepared"
                    THEN [tl[t] EXCEPT !.st = "canceled"] ELSE tl[t]]

\* _cancel_unstarted_tool_receipts_uncommitted, for the runs rs
CancelUnstarted(tl, rs) ==
    [t \in Tool |-> IF ToolRun[t] \in rs /\ tl[t].st \in {"prepared", "paused"}
                    THEN [tl[t] EXCEPT !.st = "canceled"] ELSE tl[t]]

\* MUTANT of MarkLostTools: only what the Runtime reconciles itself is marked.
MarkLostRecoverable(js) ==
    [t \in Tool |-> IF t \in Recoverable /\ tool[t].st = "running" /\ tool[t].job \in js
                    THEN [tool[t] EXCEPT !.st = "unknown"] ELSE tool[t]]

\* _mark_running_tool_receipts_outcome_unknown_uncommitted, for the attempts js
MarkLostTools(js) ==
    [t \in Tool |-> IF tool[t].st = "running" /\ tool[t].job \in js
                    THEN [tool[t] EXCEPT !.st = "unknown"] ELSE tool[t]]

\* UPDATE local_model_calls SET status = 'outcome_unknown' for the attempts js
MarkLostCalls(js) ==
    [j \in Job |-> IF j \in js /\ "active" \in calls[j] THEN {"unknown"} ELSE calls[j]]

\* Every pending wait candidate of the runs rs is closed with a cancel decision.
CloseWaits(rs) ==
    [r \in Run |-> IF r \in rs THEN [c \in DOMAIN ask[r] |-> {}] ELSE ask[r]]

-----------------------------------------------------------------------------
(* Admission: accept_run_command and accept_child_run.                     *)

\* MUTANT of AcceptRun: a run that waits no longer occupies its thread.
AcceptBesideIdle(r) ==
    /\ Parent[r] = NoRun
    /\ status[r] = "none"
    /\ \A q \in Run : Thread[q] = Thread[r] /\ Parent[q] = NoRun => ~HasActive(q)
    /\ status' = [status EXCEPT ![r] = "queued"]
    /\ Insert(r, "start", 0, FALSE)
    /\ UNCHANGED <<tool, calls, ask, log, resuming>>

\* A conversation run is admitted only into a thread without an unsettled run:
\* every other run there is terminal and none of them has a live job.
AcceptRun(r) ==
    /\ Parent[r] = NoRun
    /\ status[r] = "none"
    /\ \A q \in Run : Thread[q] = Thread[r] /\ Parent[q] = NoRun =>
            status[q] \in Terminal \cup {"none"} /\ ~HasActive(q)
    /\ status' = [status EXCEPT ![r] = "queued"]
    /\ Insert(r, "start", 0, FALSE)
    /\ UNCHANGED <<tool, calls, ask, log, resuming>>

\* A child is admitted under its parent's live lease; its dependencies are
\* siblings admitted before it.
AcceptChild(r, j, w) ==
    /\ Parent[r] # NoRun /\ job[j].run = Parent[r]
    /\ Driving(j, w)
    /\ status[Parent[r]] = "running"
    /\ status[r] = "none"
    /\ Deps[r] \subseteq Children(Parent[r])
    /\ status' = [status EXCEPT ![r] = "queued"]
    /\ Insert(r, "start", 0, FALSE)
    /\ UNCHANGED <<tool, calls, ask, log, resuming>>

-----------------------------------------------------------------------------
(* The job lease: claim_run_job, renew_run_job and the passing of time.    *)

\* _requeue_expired_jobs_uncommitted.  A job whose run already has a result is
\* settled like the run; any other is quarantined, never made pending again.
HasResult(r) == status[r] \in Terminal \cup {"waiting"}
Overdue == {j \in Expired : HasResult(job[j].run)}
Lost == Expired \ Overdue
LostRuns == {job[j].run : j \in Lost}
OverdueRuns == {job[j].run : j \in Overdue}

SweptJob ==
    [j \in Job |->
        IF j \in Lost THEN [job[j] EXCEPT !.quar = TRUE]
        ELSE IF j \in Overdue
             THEN [job[j] EXCEPT !.st = JobStatusFor(status[job[j].run]), !.owner = NoWorker]
             ELSE job[j]]
SweptStatus == [r \in Run |-> IF r \in LostRuns THEN "cleanup_required" ELSE status[r]]
SweptTool ==
    CancelUnstarted(MarkLostTools(Expired),
                    LostRuns \cup {r \in OverdueRuns : status[r] \in Terminal})
SweptLog == Publish(log, LostRuns, "cleanup_required")

\* Runs with a pending job that depend on a run that can no longer complete.
Blocked ==
    {r \in Run : /\ \E j \in Job : SweptJob[j].run = r /\ SweptJob[j].st = "pending"
                 /\ \E d \in Deps[r] : SweptStatus[d] \in Broken}

\* _request_run_cancel_uncommitted finds their pending job and cancels the run.
UnblockedJob ==
    [j \in Job |-> IF SweptJob[j].st = "pending" /\ SweptJob[j].run \in Blocked
                   THEN [SweptJob[j] EXCEPT !.st = "canceled", !.cancel = TRUE]
                   ELSE SweptJob[j]]
UnblockedStatus == [r \in Run |-> IF r \in Blocked THEN "canceled" ELSE SweptStatus[r]]

\* MUTANT of Claimable: a dependency that has not broken is good enough.
ClaimableUnlessBroken ==
    {j \in Job : /\ UnblockedJob[j].st = "pending"
                 /\ \A d \in Deps[UnblockedJob[j].run] : UnblockedStatus[d] \notin Broken}

Claimable ==
    {j \in Job : /\ UnblockedJob[j].st = "pending"
                 /\ \A d \in Deps[UnblockedJob[j].run] : UnblockedStatus[d] = "completed"}
\* ORDER BY created_at, id LIMIT 1
Oldest(j) == j \in Claimable /\ \A k \in Claimable : j <= k

\* Sweep, cancel what is blocked, and lease the oldest runnable job, if any.
\* The run becomes running whatever its status was.
Claim(w) ==
    /\ \/ \E j \in Job :
            /\ Oldest(j)
            /\ job' = [UnblockedJob EXCEPT ![j].st = "leased", ![j].owner = w,
                                           ![j].gen = @ + 1, ![j].lease = LeaseTicks]
            /\ status' = [UnblockedStatus EXCEPT ![UnblockedJob[j].run] = "running"]
       \/ /\ Claimable = {} /\ (Expired # {} \/ Blocked # {})
          /\ job' = UnblockedJob
          /\ status' = UnblockedStatus
    /\ tool' = CancelUnstarted(SweptTool, Blocked)
    /\ calls' = MarkLostCalls(Expired)
    /\ ask' = CloseWaits(Blocked)
    /\ log' = Publish(SweptLog, Blocked, "canceled")
    /\ UNCHANGED <<nJobs, resuming>>

\* MUTANT of Renew: the lease is prolonged from its old end instead of from now.
RenewFromOldEnd(j, w) ==
    /\ Fenced(j, w)
    /\ job' = [job EXCEPT ![j].lease = @ + LeaseTicks]
    /\ UNCHANGED <<status, nJobs, tool, calls, ask, log, resuming>>

\* The heartbeat extends a lease that is still its own and still running.
Renew(j, w) ==
    /\ Fenced(j, w)
    /\ job' = [job EXCEPT ![j].lease = LeaseTicks]
    /\ UNCHANGED <<status, nJobs, tool, calls, ask, log, resuming>>

\* Wall-clock time passes for a lease.
Tick(j) ==
    /\ job[j].st = "leased" /\ ~job[j].quar /\ job[j].lease > 0
    /\ job' = [job EXCEPT ![j].lease = @ - 1]
    /\ UNCHANGED <<status, nJobs, tool, calls, ask, log, resuming>>

-----------------------------------------------------------------------------
(* Results and quarantine.                                                 *)

\* _settle_execution_outcome: an outcome the ledgers contradict is a failure.
Unsettled(r) == \E t \in ToolsOf(r) : tool[t].st \in {"prepared", "paused", "unknown"}
StillActive(r) ==
    \/ \E t \in ToolsOf(r) : tool[t].st = "running"
    \/ \E j \in Job : job[j].run = r /\ "active" \in calls[j]
UnknownCall(r) == \E j \in Job : job[j].run = r /\ "unknown" \in calls[j]

\* MUTANT of SettledOutcome: model calls of unknown outcome are not looked at.
SettledByTools(r, s) ==
    IF StillActive(r) \/ (s = "completed" /\ Unsettled(r)) THEN "failed" ELSE s

SettledOutcome(r, s) ==
    IF StillActive(r) \/ (s = "completed" /\ (Unsettled(r) \/ UnknownCall(r)))
    THEN "failed" ELSE s

\* A run that got a resume job after it had ended (resume_run's late enqueue).
Revivable(r) == \E j \in Job : job[j].run = r /\ job[j].late

\* What a settlement has seen of a child, which may be revived before the result that
\* rests on it is committed.
Seen(c, S) == status[c] \in S \/ Revivable(c)

\* MUTANT of ChildrenSettled: a child that waits for the user counts as settled.
ChildrenIdle(r) == \A c \in Children(r) : Seen(c, ChildSettled \cup {"waiting"})

\* Every child has been cancelled or awaited, before a failure or a cancellation.
ChildrenSettled(r) == \A c \in Children(r) : Seen(c, ChildSettled)

QuorumMembers(r) == {c \in Children(r) : CompletionMode[c] = "quorum"}
QuorumReached(r) ==
    Cardinality({c \in QuorumMembers(r) : Seen(c, {"completed"})}) >= QuorumRequired

\* The completion policies are satisfied.  Members of a quorum that was reached only
\* after the others had been cancelled may go on, and nobody asks them to stop.
PolicySatisfied(r) ==
    /\ \A c \in Children(r) :
          /\ CompletionMode[c] = "required" => Seen(c, {"completed"})
          /\ CompletionMode[c] = "best_effort" => Seen(c, ChildSettled)
    /\ QuorumMembers(r) # {} => QuorumReached(r)

\* What _settle_child_coordination has done about the children when it hands on this
\* outcome; a failure may also be a completed outcome without a final draft.
Coordinated(r, outcome) ==
    CASE outcome = "waiting"   -> TRUE
      [] outcome = "canceled"  -> ChildrenSettled(r)
      [] outcome = "completed" -> PolicySatisfied(r)
      [] outcome = "failed"    -> ChildrenSettled(r) \/ PolicySatisfied(r)

\* commit_run_result under the attempt's lease: status, event, projection and
\* job in one transaction.  It does not look at cancel_requested_at.
CommitResult(j, w, outcome) ==
    LET r == job[j].run
        s == SettledOutcome(r, outcome)
    IN  /\ Fenced(j, w)
        /\ outcome = "waiting" => ask[r] # <<>>
        /\ Coordinated(r, outcome)
        /\ status[r] \notin Terminal \cup {s}
        /\ status' = [status EXCEPT ![r] = s]
        /\ job' = [job EXCEPT ![j].st = JobStatusFor(s), ![j].lease = 0]
        /\ tool' = IF s \in Terminal THEN CancelUnstarted(tool, {r}) ELSE tool
        /\ log' = Publish(log, {r}, s)
        /\ UNCHANGED <<nJobs, calls, ask, resuming>>

\* MUTANT of OrphanFail: boot recovery does not look for a live job.
OrphanFailOwned(r) ==
    /\ status[r] \in {"queued", "running", "waiting"}
    /\ status' = [status EXCEPT ![r] = "failed"]
    /\ tool' = CancelUnstarted(tool, {r})
    /\ log' = Publish(log, {r}, "failed")
    /\ UNCHANGED <<job, nJobs, calls, ask, resuming>>

\* commit_run_result(orphan_recovery=True): at boot, a run left queued, running
\* or waiting (with an irreconcilable graph head) without any live job fails.
OrphanFail(r) ==
    /\ status[r] \in {"queued", "running", "waiting"}
    /\ ~HasActive(r)
    /\ status' = [status EXCEPT ![r] = "failed"]
    /\ tool' = CancelUnstarted(tool, {r})
    /\ log' = Publish(log, {r}, "failed")
    /\ UNCHANGED <<job, nJobs, calls, ask, resuming>>

\* MUTANT of QuarantineJob: the quarantined job is closed at once.
QuarantineAndClose(j) ==
    LET r == job[j].run
    IN  /\ calls' = MarkLostCalls({j})
        /\ tool' = CancelUnstarted(MarkLostTools({j}), {r})
        /\ status' = [status EXCEPT ![r] = "cleanup_required"]
        /\ log' = Publish(log, {r}, "cleanup_required")
        /\ job' = [job EXCEPT ![j].quar = TRUE, ![j].lease = 0, ![j].st = "dead"]
        /\ UNCHANGED <<nJobs, ask, resuming>>

\* The body shared by quarantine_execution_attempt and
\* ensure_lost_execution_quarantined.
QuarantineJob(j) ==
    LET r == job[j].run
    IN  /\ calls' = MarkLostCalls({j})
        /\ tool' = CancelUnstarted(MarkLostTools({j}), {r})
        /\ status' = [status EXCEPT ![r] = "cleanup_required"]
        /\ log' = Publish(log, {r}, "cleanup_required")
        /\ job' = [job EXCEPT ![j].quar = TRUE, ![j].lease = 0]
        /\ UNCHANGED <<nJobs, ask, resuming>>

\* The owner could not prove that its resources stopped.
Quarantine(j, w) == Fenced(j, w) /\ QuarantineJob(j)

\* The owner saw its lease expire before any dispatcher swept it.
EnsureLostQuarantined(j, w) ==
    /\ job[j].st = "leased" /\ job[j].owner = w
    /\ ~job[j].quar /\ job[j].lease = 0
    /\ QuarantineJob(j)

\* Only the quarantined owner closes its attempt, after its cleanup is done.
ConfirmCleanup(j, w) ==
    LET r == job[j].run
    IN  /\ job[j].st = "leased" /\ job[j].owner = w /\ job[j].quar
        /\ ChildrenSettled(r)
        /\ tool' = CancelUnstarted(tool, {r})
        /\ status' = IF status[r] = "cleanup_required"
                     THEN [status EXCEPT ![r] = "failed"] ELSE status
        /\ log' = Publish(log, {r}, "failed")
        /\ job' = [job EXCEPT ![j].st = "dead", ![j].lease = 0]
        /\ UNCHANGED <<nJobs, calls, ask, resuming>>

-----------------------------------------------------------------------------
(* Cancellation.                                                           *)

\* _request_run_cancel_uncommitted looks only at a job that is not quarantined:
\* leased, it is flagged; pending, it and its run are canceled; absent, a
\* waiting run is canceled.
LiveJob(r, st) == {j \in Job : job[j].run = r /\ job[j].st = st /\ ~job[j].quar}
\* MUTANT of CancelNow: a run without a live job is canceled whatever its status.
CancelWithoutJob(rs) ==
    {r \in rs : LiveJob(r, "pending") # {} \/ LiveJob(r, "leased") = {}}

\* MUTANT of CancelNow: a running run is canceled under its attempt.
CancelRunning(rs) ==
    {r \in rs : LiveJob(r, "pending") # {} \/ status[r] \in {"waiting", "running"}}

CancelNow(rs) ==
    {r \in rs : \/ LiveJob(r, "pending") # {}
                \/ LiveJob(r, "leased") = {} /\ status[r] = "waiting"}

CancelTree(r) ==
    LET tree == {r} \cup Children(r)
        gone == CancelNow(tree)
        flagged(j) == job[j].run \in tree /\ j \in LiveJob(job[j].run, "leased")
        dropped(j) == job[j].run \in gone /\ job[j].st = "pending"
    IN  /\ status' = [q \in Run |-> IF q \in gone THEN "canceled" ELSE status[q]]
        /\ job' = [j \in Job |->
                      IF flagged(j) THEN [job[j] EXCEPT !.cancel = TRUE]
                      ELSE IF dropped(j)
                           THEN [job[j] EXCEPT !.st = "canceled", !.cancel = TRUE]
                           ELSE job[j]]
        /\ tool' = CancelUnstarted(tool, gone)
        /\ ask' = CloseWaits(gone)
        /\ log' = Publish(log, gone, "canceled")
        /\ UNCHANGED <<nJobs, calls, resuming>>

\* A tree cancel: the run.cancel command with its receipt, coordinator.cancel_run
\* (after the command, for a parent that cancels its children, for the cancel route
\* of older clients, before a model connection changes).
RequestCancel(r) == status[r] # "none" /\ CancelTree(r)

-----------------------------------------------------------------------------
(* Waits and their resolution.                                             *)

\* _waiting_outcome: a stopped graph's interrupts become the candidates of a new
\* cycle, user decisions and tools whose outcome is unknown.  No other transaction
\* looks at them before the cycle is complete.  An interrupt that was recorded
\* before keeps its old record: if all were, there is no new cycle.
OpenWait(j, w, S) ==
    LET r == job[j].run
    IN  /\ Driving(j, w)
        /\ Len(ask[r]) < MaxCycles
        /\ S # {}
        /\ S \subseteq Ask \cup {t \in ToolsOf(r) : tool[t].st = "unknown"}
        /\ ask' = [ask EXCEPT ![r] = Append(@, S)]
        /\ job' = [job EXCEPT ![j].asked = TRUE]
        /\ UNCHANGED <<status, nJobs, tool, calls, log, resuming>>

\* _resume_resolved_wait_uncommitted: once the decided cycle has no pending
\* candidate left, a run that waits and has no job gets its resume job.
ResumeIfResolved(r, c, pending) ==
    IF pending = {} /\ ~HasActive(r)
    THEN Insert(r, "resume", c, FALSE)
    ELSE UNCHANGED <<job, nJobs>>

\* A decision command on a candidate that is still pending.  A reconciliation
\* also settles the tool's receipt, or makes it startable again.
Decide(r, c, x) ==
    LET pending == ask[r][c] \ {x}
    IN  /\ status[r] = "waiting"
        /\ c \in 1..Len(ask[r]) /\ x \in ask[r][c]
        /\ \A j \in Job : job[j].run = r /\ Active(job, j) => job[j].kind = "resume"
        /\ ask' = [ask EXCEPT ![r][c] = pending]
        /\ \/ x \notin Tool /\ UNCHANGED tool
           \/ /\ x \in Tool /\ tool[x].st = "unknown"
              /\ \/ \E s \in {"completed", "failed"} : tool' = [tool EXCEPT ![x].st = s]
                 \/ tool' = [tool EXCEPT ![x].st = "prepared", ![x].grants = @ + 1]
        /\ ResumeIfResolved(r, c, pending)
        /\ UNCHANGED <<status, calls, log, resuming>>

\* The decision routes of older clients resolve the candidate alone, in a run that
\* may still be on its way to waiting.
DecideByRoute(r, c, x) ==
    /\ status[r] \notin ChildSettled
    /\ c \in 1..Len(ask[r]) /\ x \in ask[r][c] /\ x \notin Tool
    /\ ask' = [ask EXCEPT ![r][c] = @ \ {x}]
    /\ UNCHANGED <<status, job, nJobs, tool, calls, log, resuming>>

\* MUTANT of ReplayDecision: the run's status is not checked.
ReplayAnytime(r, c) ==
    /\ Resolved(r, c)
    /\ ~HasActive(r)
    /\ Insert(r, "resume", c, FALSE)
    /\ UNCHANGED <<status, tool, calls, ask, log, resuming>>

\* The same decision under a new command id, for a candidate decided before: it
\* checks the cycle of that candidate, which need not be the newest one.
ReplayDecision(r, c) ==
    /\ status[r] = "waiting" /\ Resolved(r, c)
    /\ ~HasActive(r)
    /\ Insert(r, "resume", c, FALSE)
    /\ UNCHANGED <<status, tool, calls, ask, log, resuming>>

\* resume_run, by the decision routes for the decided cycle, and for the newest
\* cycle by the auto-resume after a waiting commit and by boot recovery: it reads
\* the run's status ...
BeginResume(r, c) ==
    /\ status[r] = "waiting" /\ Resolved(r, c)
    /\ <<r, c>> \notin resuming
    /\ resuming' = resuming \cup {<<r, c>>}
    /\ UNCHANGED tables

\* ... and later enqueues the job, in a transaction that does not look at the
\* run's status again.
EnqueueResume(r, c) ==
    /\ <<r, c>> \in resuming
    /\ resuming' = resuming \ {<<r, c>>}
    /\ IF HasActive(r)
       THEN UNCHANGED <<job, nJobs>>
       ELSE Insert(r, "resume", c, status[r] \in Terminal)
    /\ UNCHANGED <<status, tool, calls, ask, log>>

\* resume_run gives up: the workspace is no longer admitted, or its process stops.
AbandonResume(r, c) ==
    /\ <<r, c>> \in resuming
    /\ resuming' = resuming \ {<<r, c>>}
    /\ UNCHANGED tables

-----------------------------------------------------------------------------
(* Ledgers written by an attempt: tool receipts and model calls.           *)

PrepareTool(j, w, t) ==
    /\ Driving(j, w) /\ ToolRun[t] = job[j].run
    /\ tool[t].st = "none"
    /\ tool' = [tool EXCEPT ![t].st = "prepared", ![t].grants = 1]
    /\ UNCHANGED <<status, job, nJobs, calls, ask, log, resuming>>

\* MUTANT of BeginTool: a receipt of unknown outcome may be started again.
BeginAgain(j, w, t) ==
    /\ Driving(j, w) /\ ToolRun[t] = job[j].run
    /\ tool[t].st \in {"prepared", "paused", "unknown"}
    /\ tool[t].starts < MaxStarts
    /\ tool' = [tool EXCEPT ![t].st = "running", ![t].job = j, ![t].starts = @ + 1]
    /\ UNCHANGED <<status, job, nJobs, calls, ask, log, resuming>>

\* begin_tool_receipt: a cancel request stops a tool that has not started.
BeginTool(j, w, t) ==
    /\ Driving(j, w) /\ ToolRun[t] = job[j].run
    /\ tool[t].st \in {"prepared", "paused"}
    /\ tool[t].starts < MaxStarts
    /\ tool' = IF job[j].cancel
               THEN [tool EXCEPT ![t].st = "canceled"]
               ELSE [tool EXCEPT ![t].st = "running", ![t].job = j, ![t].starts = @ + 1]
    /\ UNCHANGED <<status, job, nJobs, calls, ask, log, resuming>>

\* settle_tool_receipt.  A tool that pauses for the user may be started again.
SettleTool(j, w, t, s) ==
    /\ Fenced(j, w) /\ ToolRun[t] = job[j].run
    /\ \/ tool[t].st = "running" /\ s \in {"paused", "completed", "failed", "unknown", "canceled"}
       \/ tool[t].st = "prepared" /\ s = "failed"
       \/ tool[t].st \in {"prepared", "paused"} /\ s = "canceled"
    /\ tool' = [tool EXCEPT ![t].st = s, ![t].grants = IF s = "paused" THEN @ + 1 ELSE @]
    /\ UNCHANGED <<status, job, nJobs, calls, ask, log, resuming>>

\* reconcile_tool_receipt by the Runtime itself: a spawned child is recognised,
\* a mailbox operation is idempotent and runs again.
RecoverTool(j, w, t) ==
    /\ Driving(j, w) /\ ToolRun[t] = job[j].run
    /\ t \in Recoverable /\ tool[t].st = "unknown"
    /\ \/ tool' = [tool EXCEPT ![t].st = "completed"]
       \/ tool' = [tool EXCEPT ![t].st = "prepared", ![t].grants = @ + 1]
    /\ UNCHANGED <<status, job, nJobs, calls, ask, log, resuming>>

ReserveCall(j, w) ==
    /\ Driving(j, w) /\ job[j].run \in Caller /\ "active" \notin calls[j]
    /\ calls' = [calls EXCEPT ![j] = @ \cup {"active"}]
    /\ UNCHANGED <<status, job, nJobs, tool, ask, log, resuming>>

\* settle_model_call, fail_model_call
EndCall(j, w, unknown) ==
    /\ Fenced(j, w) /\ "active" \in calls[j]
    /\ calls' = [calls EXCEPT ![j] = IF unknown THEN {"unknown"} ELSE @ \ {"active"}]
    /\ UNCHANGED <<status, job, nJobs, tool, ask, log, resuming>>

-----------------------------------------------------------------------------
ToolOutcome == {"paused", "completed", "failed", "unknown", "canceled"}
Outcome == Terminal \cup {"waiting"}

\* What an attempt does under the lease of job j.
AttemptStep(j, w) ==
    \/ Renew(j, w)
    \/ \E r \in Run : AcceptChild(r, j, w)
    \/ \E o \in Outcome : CommitResult(j, w, o)
    \/ Quarantine(j, w)
    \/ EnsureLostQuarantined(j, w)
    \/ ConfirmCleanup(j, w)
    \/ \E S \in SUBSET (Ask \cup Tool) : OpenWait(j, w, S)
    \/ \E t \in Tool :
        \/ PrepareTool(j, w, t) \/ BeginTool(j, w, t) \/ RecoverTool(j, w, t)
        \/ \E s \in ToolOutcome : SettleTool(j, w, t, s)
    \/ ReserveCall(j, w)
    \/ \E u \in BOOLEAN : EndCall(j, w, u)

\* What arrives for a run from outside its attempt.
RunStep(r) ==
    \/ AcceptRun(r) \/ RequestCancel(r) \/ OrphanFail(r)
    \/ \E c \in 1..MaxCycles :
        \/ ReplayDecision(r, c)
        \/ BeginResume(r, c) \/ EnqueueResume(r, c) \/ AbandonResume(r, c)
        \/ \E x \in Ask \cup Tool : Decide(r, c, x) \/ DecideByRoute(r, c, x)

Next ==
    \/ \E w \in Worker : Claim(w)
    \/ \E j \in Job : Tick(j)
    \/ \E j \in Job, w \in Worker : AttemptStep(j, w)
    \/ \E r \in Run : RunStep(r)

Spec == Init /\ [][Next]_vars

-----------------------------------------------------------------------------
(* Properties.                                                             *)

JobRecord ==
    [run: Run \cup {NoRun}, kind: {"start", "resume"},
     st: {"free", "pending", "leased", "completed", "canceled", "dead"},
     owner: Worker \cup {NoWorker}, gen: Nat, lease: 0..LeaseTicks,
     quar: BOOLEAN, cancel: BOOLEAN, asked: BOOLEAN, cycle: Nat, late: BOOLEAN]

ToolRecord ==
    [st: {"none", "prepared"} \cup {"running"} \cup ToolOutcome,
     job: Nat, starts: Nat, grants: Nat]

\* The tables hold values of the columns' types, and a job row belongs to a run
\* exactly when it has been inserted.
TypeOK ==
    /\ status \in [Run -> RunStatus]
    /\ job \in [Job -> JobRecord]
    /\ nJobs \in 0..MaxJobs
    /\ \A j \in Job : /\ j <= nJobs <=> job[j].st # "free"
                      /\ j <= nJobs <=> job[j].run # NoRun
    /\ tool \in [Tool -> ToolRecord]
    /\ calls \in [Job -> SUBSET {"active", "unknown"}]
    /\ ask \in [Run -> Seq(SUBSET (Ask \cup Tool))]
    /\ log \in [Run -> Seq(Published)]
    /\ resuming \in SUBSET (Run \X Nat)

\* A run never has two jobs that are pending or leased: no interleaving of
\* commands, decisions, resume calls and sweeps gives it a second attempt.
OneActiveJob ==
    \A i, j \in Job : Active(job, i) /\ Active(job, j) /\ job[i].run = job[j].run => i = j

\* A run's status and its live job always tell the same story: a leased job is
\* the attempt of a running run, a quarantined one holds a cleanup_required run,
\* a pending one is a queued run's start or a waiting run's resume.
JobMatchesStatus ==
    \A j \in Job :
        LET r == job[j].run
        IN  /\ job[j].st = "leased" => status[r] = IF job[j].quar THEN "cleanup_required"
                                                   ELSE "running"
            /\ job[j].st = "pending" =>
                  \/ job[j].kind = "start" /\ status[r] = "queued"
                  \/ job[j].kind = "resume" /\ status[r] = "waiting"
                  \/ job[j].late /\ status[r] \in Terminal

\* A run that is queued, running or in need of cleanup always has the live job
\* that will move it on: nothing the store does strands it.
NoStrandedRun ==
    \A r \in Run : status[r] \in {"queued", "running", "cleanup_required"} =>
        \E j \in Job : job[j].run = r /\ Active(job, j)

\* A job is leased at most once, whatever expires or crashes: an attempt whose
\* lease was lost is never executed again under the same job.
LeasedOnce == \A j \in Job : job[j].gen <= 1

\* What the four properties above rest on besides each other: a row that is not
\* leased yet is fresh, and resume_run only ever holds a run that was admitted.
FreshUntilLeased ==
    \A j \in Job : job[j].st = "pending" => job[j].gen = 0 /\ ~job[j].quar
ResumingAdmitted == \A p \in resuming : status[p[1]] # "none"

AttemptInv ==
    /\ OneActiveJob
    /\ JobMatchesStatus
    /\ NoStrandedRun
    /\ LeasedOnce
    /\ FreshUntilLeased
    /\ ResumingAdmitted

\* A completed run has no receipt in doubt and no model call of unknown outcome,
\* and a run that waits has nothing still executing, although the ledgers are
\* written by transactions other than the one that commits the result.
LedgersSettled ==
    \A r \in Run :
        /\ status[r] = "completed" => ~Unsettled(r) /\ ~StillActive(r) /\ ~UnknownCall(r)
        /\ status[r] = "waiting" => ~StillActive(r)

\* Once a run has ended, or is fenced for cleanup, no tool of it can be started
\* any more, by any late attempt or late decision.
NoStartAfterEnd ==
    \A t \in Tool : status[ToolRun[t]] \in Terminal \cup {"cleanup_required"} =>
                        tool[t].st \notin {"prepared", "paused"}

\* A receipt or a model call that still says it is executing belongs to an
\* attempt that holds its lease, or its run was failed for exactly that reason:
\* no lost, quarantined or superseded attempt leaves work that looks live.
LiveWorkIsOwned ==
    LET owned(j) == \/ job[j].st = "leased" /\ ~job[j].quar
                    \/ \E n \in 1..Len(log[job[j].run]) : log[job[j].run][n] = "failed"
    IN  /\ \A t \in Tool : tool[t].st = "running" => owned(tool[t].job)
        /\ \A j \in Job : "active" \in calls[j] => owned(j)

\* A tool is started no more often than it was made startable: by preparing it,
\* by a pause, or by an explicit decision that it did not execute.  A crash or a
\* lost lease never starts a side effect again on its own.
NoBlindRestart == \A t \in Tool : tool[t].starts <= tool[t].grants

\* The last lifecycle event of a run is its published status, and a run that was
\* never revived publishes exactly one end, with nothing after it; cleanup_required
\* is followed by nothing but its failure.
OneVerdict ==
    \A r \in Run :
        LET n == Len(log[r])
        IN  /\ status[r] \in Published => n > 0 /\ log[r][n] = status[r]
            /\ ~Revivable(r) => \A k \in 1..n - 1 : log[r][k] \notin Terminal
            /\ \A k \in 1..n - 1 : log[r][k] = "cleanup_required" => log[r][k + 1] = "failed"

\* Admission and every later transition keep a thread at one unsettled
\* conversation run, unless a run of it was revived.
OneTurnPerThread ==
    \A q, r \in Run :
        /\ Parent[q] = NoRun /\ Parent[r] = NoRun /\ Thread[q] = Thread[r]
        /\ ~Revivable(q) /\ ~Revivable(r)
        /\ status[q] \notin Terminal \cup {"none"}
        /\ status[r] \notin Terminal \cup {"none"}
        => q = r

\* A child starts only when everything it depends on is completed, and a child
\* whose dependency broke never runs.
DependenciesFirst ==
    \A j \in Job : job[j].gen > 0 /\ job[j].kind = "start" =>
        \A d \in Deps[job[j].run] : \/ status[d] = "completed"
                                    \/ Revivable(d)

\* When a parent has completed or was canceled, a child that has not ended either has
\* been asked to stop, or is a member of a quorum that its completed parent reached
\* without it: no other child goes on unaware of its parent's end.  A parent that failed
\* gives no such assurance: a waiting outcome that the ledgers contradict, and boot
\* recovery, fail it without a look at its children.
NoUnawareChild ==
    \A c \in Run :
        /\ Parent[c] # NoRun /\ status[c] \notin ChildSettled \cup {"none"}
        /\ status[Parent[c]] \in {"completed", "canceled"} /\ ~Revivable(Parent[c])
        => \/ \E j \in Job : job[j].run = c /\ job[j].cancel
           \/ Revivable(c)
           \/ /\ status[Parent[c]] = "completed"
              /\ CompletionMode[c] = "quorum" /\ QuorumReached(Parent[c])

\* The only way out of a terminal status is a resume job enqueued too late.
OnlyLateJobRevives ==
    [][\A r \in Run : status[r] \in Terminal /\ status'[r] # status[r] =>
          \E j \in Job : job[j].run = r /\ job[j].late /\ job[j].st = "pending"]_vars

\* The tables implement the lifecycle: a row that is leased is the right to
\* execute, a pending one an execution that is owed.
PhaseOf(s) == CASE s \in Terminal         -> "ended"
                [] s = "cleanup_required" -> "fenced"
                [] OTHER                  -> s
LeasedJobs(r) == {j \in Job : job[j].run = r /\ job[j].st = "leased"}

RunPhase == [r \in Run |-> PhaseOf(status[r])]
RunHolder == [r \in Run |-> IF LeasedJobs(r) = {} THEN NoWorker
                            ELSE job[CHOOSE j \in LeasedJobs(r) : TRUE].owner]
RunOwed == [r \in Run |-> \E j \in Job : job[j].run = r /\ job[j].st = "pending"]

Lifecycle == INSTANCE RunLifecycle
                 WITH phase <- RunPhase, holder <- RunHolder, owed <- RunOwed

\* Every transaction moves the runs only as the lifecycle allows: no sweep, cancel
\* or late call takes the right to execute from a worker or grants it twice.
ImplementsLifecycle == Lifecycle!Spec

\* Stated of the code, and refuted.

\* "A different result cannot replace an already persisted waiting/terminal
\* result": a terminal status never changes.
TerminalIsFinal ==
    [][\A r \in Run : status[r] \in Terminal => status'[r] = status[r]]_vars
=============================================================================
