------------------------------ MODULE Schedules ------------------------------
(***************************************************************************)
(* Runs that start at a set time (scheduler.py, store/schedules.py): a row  *)
(* is claimed, its run is admitted under a command id derived from the row, *)
(* the run is bound to the row, followed to its end, and the row tells the  *)
(* outcome.  The process may stop between any two of these steps; what it   *)
(* had claimed is taken up when it starts again.  Runs move by themselves.  *)
(***************************************************************************)
EXTENDS Naturals, Sequences, FiniteSets, FiniteSetsExt

CONSTANTS
    Schedule,     \* rows of local_scheduled_runs
    ClaimLimit,   \* limit of claim_due_scheduled_runs
    MaxPauses,    \* bound: times a run waits for the user
    MaxRestarts   \* bound: times the process stops

ASSUME ScheduleAssumption ==
    /\ IsFiniteSet(Schedule) /\ ClaimLimit \in Nat \ {0}
    /\ MaxPauses \in Nat /\ MaxRestarts \in Nat

VARIABLES
    sched,      \* the rows
    receipt,    \* the run accepted under the row's command id, or 0
    runs,       \* of a row: the runs that were ever created for it
    errand,     \* _run_schedule or the reconciliation of a row
    todo,       \* rows that recover_running has listed and not reached
    server,     \* down, boot or up
    restarts

schedVars == <<sched, receipt, runs, errand, todo, server, restarts>>

NoErrand == [pc |-> "off", run |-> 0, status |-> "none", why |-> "none"]
At(s, pc) == errand[s].pc = pc
Busy == {s \in Schedule : ~At(s, "off")}
Final == {"completed", "failed", "canceled"}

SchedInit ==
    /\ sched = [s \in Schedule |-> [status |-> "none", due |-> FALSE, run |-> 0, why |-> "none",
                                    notified |-> FALSE]]
    /\ receipt = [s \in Schedule |-> 0]
    /\ runs = [s \in Schedule |-> <<>>]
    /\ errand = [s \in Schedule |-> NoErrand]
    /\ todo = {} /\ server = "up" /\ restarts = 0

-----------------------------------------------------------------------------
(* The client's requests.                                                  *)

Create(s) ==
    /\ server = "up" /\ sched[s].status = "none"
    /\ sched' = [sched EXCEPT ![s].status = "scheduled"]
    /\ UNCHANGED <<receipt, runs, errand, todo, server, restarts>>

\* run_at <= now.
TimeComes(s) ==
    /\ sched[s].status = "scheduled" /\ ~sched[s].due
    /\ sched' = [sched EXCEPT ![s].due = TRUE]
    /\ UNCHANGED <<receipt, runs, errand, todo, server, restarts>>

\* MUTANT of CancelSchedule: a claimed row is canceled too.
CancelUnfinished(s) ==
    /\ server = "up" /\ sched[s].status \in {"scheduled", "running"}
    /\ sched' = [sched EXCEPT ![s].status = "canceled"]
    /\ UNCHANGED <<receipt, runs, errand, todo, server, restarts>>

\* cancel_scheduled_run.
CancelSchedule(s) ==
    /\ server = "up" /\ sched[s].status = "scheduled"
    /\ sched' = [sched EXCEPT ![s].status = "canceled"]
    /\ UNCHANGED <<receipt, runs, errand, todo, server, restarts>>

\* mark_scheduled_run_notified.
Notify(s) ==
    /\ server = "up" /\ sched[s].status \in {"completed", "failed"} /\ ~sched[s].notified
    /\ sched' = [sched EXCEPT ![s].notified = TRUE]
    /\ UNCHANGED <<receipt, runs, errand, todo, server, restarts>>

-----------------------------------------------------------------------------
(* The dispatcher.                                                         *)

Due == {s \in Schedule : sched[s].status = "scheduled" /\ sched[s].due}

\* tick: the next one comes when every errand of this one is done (gather).
Tick(batch) ==
    /\ server = "up" /\ Busy = {}
    /\ batch \subseteq Due /\ batch # {}
    /\ Cardinality(batch) = Min({Cardinality(Due), ClaimLimit})
    /\ sched' = [s \in Schedule |-> IF s \in batch THEN [sched[s] EXCEPT !.status = "running"]
                                    ELSE sched[s]]
    /\ errand' = [s \in Schedule |-> IF s \in batch THEN [NoErrand EXCEPT !.pc = "check"]
                                     ELSE errand[s]]
    /\ UNCHANGED <<receipt, runs, todo, server, restarts>>

Proceed(s, pc, run) ==
    /\ errand' = [errand EXCEPT ![s] = [NoErrand EXCEPT !.pc = pc, !.run = run]]
    /\ UNCHANGED <<todo, server, restarts>>

\* What complete_scheduled_run is about to be called with.
Report(s, status, why) ==
    /\ errand' = [errand EXCEPT ![s].pc = "report", ![s].status = status, ![s].why = why]
    /\ UNCHANGED <<sched, receipt, runs, todo, server, restarts>>

\* workspace_admission_error.
CheckWorkspace(s) ==
    /\ At(s, "check")
    /\ \/ Proceed(s, "admit", 0) /\ UNCHANGED <<sched, receipt, runs>>
       \/ Report(s, "failed", "workspace")

\* MUTANT of AcceptedRun: every attempt uses a command id of its own.
AcceptedRunNever(s) == 0

\* accepted_run_for_command, read again inside the transaction that inserts.
AcceptedRun(s) == receipt[s]

\* start_run with the command id of the row.
AdmitRun(s) ==
    /\ At(s, "admit")
    /\ IF AcceptedRun(s) # 0
       THEN Proceed(s, "bind", receipt[s]) /\ UNCHANGED <<receipt, runs>>
       ELSE /\ runs' = [runs EXCEPT ![s] = Append(@, [status |-> "queued", pauses |-> 0])]
            /\ receipt' = [receipt EXCEPT ![s] = Len(runs'[s])]
            /\ Proceed(s, "bind", receipt'[s])
    /\ UNCHANGED sched

\* mark_scheduled_run_started, and the two comparisons with what it returned.
Bind(s) ==
    LET run == errand[s].run
        mine == sched[s].status = "running" /\ sched[s].run \in {0, run}
    IN /\ At(s, "bind")
       /\ sched' = IF mine THEN [sched EXCEPT ![s].run = run] ELSE sched
       /\ Proceed(s, IF mine THEN "follow" ELSE "off", run)
       /\ UNCHANGED <<receipt, runs>>

RunOf(s) == runs[s][errand[s].run]

\* coordinator.stream comes to its end when the run is neither queued nor running.
Follow(s) ==
    /\ At(s, "follow")
    /\ RunOf(s).status \notin {"queued", "running"}
    /\ Proceed(s, "read", errand[s].run)
    /\ UNCHANGED <<sched, receipt, runs>>

\* get_run and _finalize_schedule_from_run.
Read(s) ==
    /\ At(s, "read")
    /\ IF RunOf(s).status \in Final THEN Report(s, RunOf(s).status, "run")
       ELSE Report(s, "failed", "paused")

\* The except clause: an admission that is refused, an error of the store.
Raise(s) ==
    /\ errand[s].pc \in {"check", "admit", "bind", "follow"}
    /\ At(s, "admit") => receipt[s] = 0
    /\ Report(s, "failed", "error")

\* complete_scheduled_run.
Complete(s) ==
    /\ At(s, "report")
    /\ sched' = IF sched[s].status = "running"
                THEN [sched EXCEPT ![s].status = errand[s].status, ![s].why = errand[s].why]
                ELSE sched
    /\ Proceed(s, "off", 0)
    /\ UNCHANGED <<receipt, runs>>

-----------------------------------------------------------------------------
(* The process.                                                            *)

\* stop cancels the errands; a crash loses them.
Down ==
    /\ server # "down" /\ restarts < MaxRestarts
    /\ server' = "down" /\ restarts' = restarts + 1
    /\ errand' = [s \in Schedule |-> NoErrand] /\ todo' = {}
    /\ UNCHANGED <<sched, receipt, runs>>

Claimed == {s \in Schedule : sched[s].status = "running"}

\* recover_running lists the rows after the coordinator has started.
Boot ==
    /\ server = "down"
    /\ server' = "boot" /\ todo' = Claimed
    /\ UNCHANGED <<sched, receipt, runs, errand, restarts>>

\* MUTANT of Recover: only the rows that are bound are reconciled.
RecoverBound(s) ==
    /\ server = "boot" /\ Busy = {} /\ s \in todo
    /\ todo' = todo \ {s}
    /\ errand' = [errand EXCEPT ![s].pc = IF sched[s].run = 0 THEN "off" ELSE "read",
                                ![s].run = sched[s].run]
    /\ UNCHANGED <<sched, receipt, runs, server, restarts>>

\* One row after the other; an unbound one is run to its end here.
Recover(s) ==
    /\ server = "boot" /\ Busy = {} /\ s \in todo
    /\ todo' = todo \ {s}
    /\ errand' = [errand EXCEPT ![s].pc = IF sched[s].run = 0 THEN "check" ELSE "read",
                                ![s].run = sched[s].run]
    /\ UNCHANGED <<sched, receipt, runs, server, restarts>>

Serve ==
    /\ server = "boot" /\ Busy = {} /\ todo = {}
    /\ server' = "up"
    /\ UNCHANGED <<sched, receipt, runs, errand, todo, restarts>>

-----------------------------------------------------------------------------
(* The runs, as RunLifecycle has them.                                     *)

MoveRun(s, n, from, to) ==
    /\ n \in DOMAIN runs[s] /\ runs[s][n].status \in from
    /\ runs' = [runs EXCEPT ![s][n].status = to,
                            ![s][n].pauses = IF to = "waiting" THEN @ + 1 ELSE @]
    /\ UNCHANGED <<sched, receipt, errand, todo, server, restarts>>

Execute(s, n) ==
    /\ server # "down"
    /\ \/ MoveRun(s, n, {"queued"}, "running")
       \/ \E to \in {"completed", "failed", "cleanup_required"} : MoveRun(s, n, {"running"}, to)
       \/ n \in DOMAIN runs[s] /\ runs[s][n].pauses < MaxPauses
          /\ MoveRun(s, n, {"running"}, "waiting")

\* The user decides what a run waits for, or cancels it; recover_orphans applies a
\* decision of before the stop, and that is before the rows are listed.
Resume(s, n) == server # "boot" /\ MoveRun(s, n, {"waiting"}, "queued")
CancelRun(s, n) ==
    /\ server = "up"
    /\ MoveRun(s, n, {"queued", "running", "waiting"}, "canceled")

\* confirm_quarantined_cleanup.
Release(s, n) ==
    /\ server = "up"
    /\ \E to \in {"failed", "canceled"} : MoveRun(s, n, {"cleanup_required"}, to)

-----------------------------------------------------------------------------
Step(s) ==
    \/ CheckWorkspace(s) \/ AdmitRun(s) \/ Bind(s) \/ Follow(s) \/ Read(s) \/ Complete(s)

RunStep(s) == \E n \in 1..2 : Execute(s, n) \/ Resume(s, n) \/ CancelRun(s, n) \/ Release(s, n)

SchedNext ==
    \/ \E s \in Schedule :
          \/ Create(s) \/ TimeComes(s) \/ CancelSchedule(s) \/ Notify(s)
          \/ Step(s) \/ Raise(s) \/ Recover(s) \/ RunStep(s)
    \/ \E batch \in SUBSET Schedule : Tick(batch)
    \/ Down \/ Boot \/ Serve

SchedSpec == SchedInit /\ [][SchedNext]_schedVars

\* The event loop runs what is ready, the user starts the program again, and a run
\* that is queued is executed until it waits or ends.
SchedFairness ==
    /\ \A s \in Schedule : /\ WF_schedVars(Step(s)) /\ WF_schedVars(Recover(s))
                           /\ \A n \in 1..2 : WF_schedVars(Execute(s, n))
    /\ WF_schedVars(\E batch \in SUBSET Schedule : Tick(batch))
    /\ WF_schedVars(Boot) /\ WF_schedVars(Serve)

-----------------------------------------------------------------------------
(* Properties.                                                             *)

SchedTypeOK ==
    /\ sched \in [Schedule -> [status : {"none", "scheduled", "running"} \cup Final,
                               due : BOOLEAN, run : Nat, notified : BOOLEAN,
                               why : {"none", "run", "workspace", "error", "paused"}]]
    /\ \A s \in Schedule :
          /\ receipt[s] \in 0..Len(runs[s]) /\ sched[s].run \in 0..Len(runs[s])
          /\ \A n \in DOMAIN runs[s] :
                runs[s][n] \in [status : {"queued", "running", "waiting", "cleanup_required"} \cup Final,
                                pauses : 0..MaxPauses]
          /\ errand[s].pc \in {"off", "check", "admit", "bind", "follow", "read", "report"}
          /\ errand[s].pc \in {"bind", "follow", "read"} => errand[s].run \in 1..Len(runs[s])
    /\ todo \subseteq Schedule /\ server \in {"down", "boot", "up"}
    /\ restarts \in 0..MaxRestarts

\* A schedule starts one run, however often the process stops between the admission of
\* the run, its binding and its end (scheduler.py:108-136).
OneRunPerSchedule == \A s \in Schedule : Len(runs[s]) <= 1

\* A schedule that is completed, or canceled, says so of its run: the run has completed,
\* or was canceled or never admitted (store/schedules.py:230-243, scheduler.py:157-192).
OutcomeIsTheRuns ==
    \A s \in Schedule :
       /\ sched[s].status = "completed" => runs[s][sched[s].run].status = "completed"
       /\ sched[s].status = "canceled" => \A n \in DOMAIN runs[s] : runs[s][n].status = "canceled"

\* A schedule that fails because its run has paused is one whose run did pause
\* ("Scheduled run paused for user input or permission.", scheduler.py:193-196).
PausedIfItPaused ==
    \A s \in Schedule : sched[s].why = "paused" => runs[s][sched[s].run].pauses > 0

\* A schedule whose time has come is completed, failed or canceled in the end, and no
\* stop of the process leaves it claimed for good (scheduler.py:54-70).
ScheduleSettles == \A s \in Schedule : sched[s].due ~> sched[s].status \in Final
=============================================================================
