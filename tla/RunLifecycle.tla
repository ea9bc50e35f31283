---------------------------- MODULE RunLifecycle ----------------------------
(***************************************************************************)
(* What the store promises about a run, with its tables left out: the      *)
(* right to execute the run is granted only when an execution is owed, to  *)
(* one worker, and leaves that worker only when the attempt is settled or, *)
(* once it was fenced, released.  One transaction may move several runs (a *)
(* sweep fences and drops them, a cancel drops a tree), but it grants one  *)
(* at most.  RunStore implements this.                                     *)
(***************************************************************************)
EXTENDS Naturals

CONSTANTS Run, Worker, NoWorker

VARIABLES
    phase,   \* none, queued, running, waiting, fenced or ended
    holder,  \* the worker whose attempt executes the run or is fenced in it
    owed     \* an execution is due: a start, or the continuation of a wait

lifecycle == <<phase, holder, owed>>
Phase == {"none", "queued", "running", "waiting", "fenced", "ended"}

Init ==
    /\ phase = [r \in Run |-> "none"]
    /\ holder = [r \in Run |-> NoWorker]
    /\ owed = [r \in Run |-> FALSE]

To(r, p, w, o) == phase'[r] = p /\ holder'[r] = w /\ owed'[r] = o

Admit(r) == phase[r] = "none" /\ To(r, "queued", NoWorker, TRUE)
Grant(r, w) == owed[r] /\ To(r, "running", w, FALSE)
Settle(r) == phase[r] = "running" /\ \E p \in {"waiting", "ended"} : To(r, p, NoWorker, FALSE)
Fence(r) == phase[r] = "running" /\ To(r, "fenced", holder[r], FALSE)
Release(r) == phase[r] = "fenced" /\ To(r, "ended", NoWorker, FALSE)
Drop(r) == (owed[r] \/ phase[r] = "waiting") /\ To(r, "ended", NoWorker, FALSE)

\* A continuation is owed to a run that waits, or, when the run ended while the
\* decision to continue it was under way, to one that has ended.
Owe(r) ==
    /\ phase[r] \in {"waiting", "ended"} /\ ~owed[r]
    /\ To(r, phase[r], NoWorker, TRUE)

Still(r) == To(r, phase[r], holder[r], owed[r])

Move(r) ==
    \/ Admit(r) \/ Owe(r) \/ Settle(r) \/ Fence(r) \/ Release(r) \/ Drop(r) \/ Still(r)
    \/ \E w \in Worker : Grant(r, w)

Granted(r) == owed[r] /\ phase'[r] = "running"

Next ==
    /\ phase' \in [Run -> Phase]
    /\ holder' \in [Run -> Worker \cup {NoWorker}]
    /\ owed' \in [Run -> BOOLEAN]
    /\ \A r \in Run : Move(r)
    /\ \A q, r \in Run : Granted(q) /\ Granted(r) => q = r

Spec == Init /\ [][Next]_lifecycle
=============================================================================
