------------------------- MODULE ChildCoordination -------------------------
(***************************************************************************)
(* A run and its durable children inside one process                       *)
(* (runs/collaboration.py, the child part of runs/settlement.py).  The      *)
(* attempt of the parent holds an execution slot.  Before each of its waits *)
(* it gives the slot back, so that its children can run even when there is  *)
(* only one, and takes a slot again when the wait is over.  Waits of one    *)
(* parent take turns by a lock that is made on demand and dropped.          *)
(* RunStore models the transactions, RunWorker the attempt; here a child is *)
(* its status, and the parent is one attempt.                              *)
(***************************************************************************)
EXTENDS Naturals, FiniteSets, FiniteSetsExt

CONSTANTS
    Child,
    Policies,      \* what the children of a run are admitted with, to choose from
    Slots,         \* max_concurrent_runs
    ToolWaits,     \* bound: child.wait calls of one model step
    MaxCuts        \* bound: deliveries of task.cancel() to the parent

\* A policy gives each child its completion mode, quorum group and quorum_required.
ASSUME CoordAssumption ==
    /\ IsFiniteSet(Child) /\ Slots \in Nat \ {0}
    /\ ToolWaits \in Nat /\ MaxCuts \in Nat
    /\ Policies \subseteq [Child -> [mode: {"required", "best_effort", "quorum"},
                                     group: Nat, need: Nat]]

VARIABLES
    policy,     \* the policy of this run
    kid,        \* of a child: its status; "cancelling" is running with a requested cancel
    parent,     \* the parent's attempt
    free,       \* _slots
    wait,       \* of a wait of the parent: 0 is its settlement, the others its tools
    dictLock,   \* _child_wait_locks[parent]: a lock object, or 0
    cuts,       \* cancels delivered to the parent
    leaked      \* slots that were given back and not taken again

coordVars == <<policy, kid, parent, free, wait, dictLock, cuts, leaked>>

Wait == 0..ToolWaits
ChildEnd == {"completed", "failed", "canceled", "cleanup_required"}
NoWait == [pc |-> "off", ids |-> {}, all |-> TRUE, obj |-> 0, has |-> FALSE, cut |-> FALSE]
NoKids == [c \in Child |-> "absent"]

CoordInit ==
    /\ policy \in Policies
    /\ kid = NoKids
    /\ parent = [pc |-> "queued", out |-> "none", level |-> 0, snap |-> NoKids, todo |-> {},
                 ids |-> {}, then |-> "commit", row |-> "queued"]
    /\ free = Slots
    /\ wait = [w \in Wait |-> NoWait]
    /\ dictLock = 0 /\ cuts = 0 /\ leaked = 0

ParentAt(pcs) == parent.pc \in pcs

-----------------------------------------------------------------------------
(* _collaboration_completion_summary, over a snapshot k of the children.    *)

Admitted(k) == {c \in Child : k[c] # "absent"}
ActiveIn(k, cs) == {c \in cs : k[c] \notin ChildEnd}
CompletedIn(k, cs) == {c \in cs : k[c] = "completed"}
Mode(k, m) == {c \in Admitted(k) : policy[c].mode = m}
Groups(k) == {policy[c].group : c \in Mode(k, "quorum")}
Members(k, g) == {c \in Mode(k, "quorum") : policy[c].group = g}

\* Members that disagree on quorum_required have none.
Need(k, g) ==
    LET needs == {policy[c].need : c \in Members(k, g)}
    IN IF Cardinality(needs) = 1 THEN CHOOSE n \in needs : TRUE ELSE 0

QuorumMet(k, g) == Need(k, g) > 0 /\ Cardinality(CompletedIn(k, Members(k, g))) >= Need(k, g)

QuorumLost(k, g) ==
    \/ Need(k, g) = 0
    \/ Cardinality(CompletedIn(k, Members(k, g))) + Cardinality(ActiveIn(k, Members(k, g))) < Need(k, g)

\* MUTANT of Impossible: a required child that was canceled is not a failure.
ImpossibleIfFailed(k) ==
    \/ \E c \in Mode(k, "required") : k[c] \in {"failed", "cleanup_required"}
    \/ \E g \in Groups(k) : QuorumLost(k, g)

Impossible(k) ==
    \/ \E c \in Mode(k, "required") : k[c] \in ChildEnd \ {"completed"}
    \/ \E g \in Groups(k) : QuorumLost(k, g)

PolicySatisfied(k) ==
    /\ \A c \in Mode(k, "required") : k[c] = "completed"
    /\ \A g \in Groups(k) : QuorumMet(k, g)
    /\ ~Impossible(k)

\* MUTANT of OpenQuorums: a quorum is waited for when no member has ended yet.
OpenQuorumsAtFirst(k) ==
    UNION {ActiveIn(k, Members(k, g)) : g \in {h \in Groups(k) : CompletedIn(k, Members(k, h)) = {}}}

OpenQuorums(k) ==
    UNION {ActiveIn(k, Members(k, g)) : g \in {h \in Groups(k) : ~QuorumMet(k, h) /\ ~QuorumLost(k, h)}}

WaitFor(k) ==
    IF Impossible(k) THEN {} ELSE ActiveIn(k, Mode(k, "required")) \cup OpenQuorums(k)

\* Best effort children, and members of a quorum that is decided; all when it is hopeless.
ToCancel(k) ==
    IF Impossible(k) THEN ActiveIn(k, Child) \cap Admitted(k)
    ELSE ActiveIn(k, Mode(k, "best_effort"))
         \cup (ActiveIn(k, Mode(k, "quorum")) \ OpenQuorums(k))

ActiveKids(k) == ActiveIn(k, Admitted(k))

-----------------------------------------------------------------------------
(* Children.                                                               *)

\* RunStore: a cancel ends a run without an attempt at once and flags another.
Canceled(s) == CASE s \in {"queued", "waiting"} -> "canceled"
                 [] s = "running"               -> "cancelling"
                 [] OTHER                       -> s
CancelKids(cs) == [c \in Child |-> IF c \in cs THEN Canceled(kid[c]) ELSE kid[c]]

KidMoves(c, from, to, slots) ==
    /\ kid[c] \in from
    /\ kid' = [kid EXCEPT ![c] = to]
    /\ free' = slots
    /\ UNCHANGED <<policy, parent, wait, dictLock, cuts, leaked>>

\* child.spawn, by the graph: members of a quorum group agree on quorum_required.
Spawn(c) ==
    /\ ParentAt({"graph"})
    /\ policy[c].mode = "quorum" =>
           \A d \in Members(kid, policy[c].group) : policy[d].need = policy[c].need
    /\ KidMoves(c, {"absent"}, "queued", free)

\* The dispatcher takes a slot and claims; the attempt's finally block gives it back.
StartKid(c) == free > 0 /\ KidMoves(c, {"queued"}, "running", free - 1)
EndKid(c) == \E s \in ChildEnd :
    /\ s = "canceled" => kid[c] = "cancelling"
    /\ KidMoves(c, {"running", "cancelling"}, s, free + 1)

\* A result that waits for the user is committed even when a cancel was requested.
PauseKid(c) == KidMoves(c, {"running", "cancelling"}, "waiting", free + 1)
DecideKid(c) == KidMoves(c, {"waiting"}, "queued", free)

\* The cleanup of a quarantined attempt is proved.
ConfirmKid(c) == KidMoves(c, {"cleanup_required"}, "failed", free)

-----------------------------------------------------------------------------
(* Waits: _yield_execution_slot inside the parent's lock.                   *)

Unheld == Min((1..(ToolWaits + 2)) \ ({dictLock} \cup {wait[w].obj : w \in Wait}))
Shown(s) == IF s = "cancelling" THEN "running" ELSE s

\* setdefault, and the lock: taken at once when nobody has it or waits for it.
AskLock(w, ids, all) ==
    LET o == IF dictLock = 0 THEN Unheld ELSE dictLock
    IN /\ dictLock' = o
       /\ wait' = [wait EXCEPT ![w] =
                     [pc |-> "lock", ids |-> ids, all |-> all, obj |-> o, cut |-> FALSE,
                      has |-> \A v \in Wait : wait[v].obj # o]]

GetLock(w) ==
    /\ wait[w].obj # 0 /\ ~wait[w].has
    /\ \A v \in Wait : wait[v].obj = wait[w].obj => ~wait[v].has
    /\ wait' = [wait EXCEPT ![w].has = TRUE]
    /\ UNCHANGED <<policy, kid, parent, free, dictLock, cuts, leaked>>

\* MUTANT of Lend: a waiting parent keeps its slot.
LendNothing(w) ==
    /\ wait[w].pc = "lock" /\ wait[w].has
    /\ wait' = [wait EXCEPT ![w].pc = "poll"]
    /\ UNCHANGED <<policy, kid, parent, free, dictLock, cuts, leaked>>

\* The slot is given back, the dispatcher woken.
Lend(w) ==
    /\ wait[w].pc = "lock" /\ wait[w].has
    /\ wait' = [wait EXCEPT ![w].pc = "poll"]
    /\ free' = free + 1
    /\ UNCHANGED <<policy, kid, parent, dictLock, cuts, leaked>>

Ended(ids) == {c \in ids : kid[c] \in ChildEnd}

\* All or any of the children have ended; for _wait_for_child_status_change, one of
\* them is not as the settlement saw it.
Arrived(w) ==
    IF wait[w].all THEN Ended(wait[w].ids) = wait[w].ids
    ELSE IF w = 0 THEN \E c \in wait[w].ids : Shown(kid[c]) # Shown(parent.snap[c])
    ELSE Ended(wait[w].ids) # {}

\* A poll sees what it waits for; a tool's wait may time out.
PollKids(w) ==
    /\ wait[w].pc = "poll"
    /\ w # 0 \/ Arrived(w)
    /\ wait' = [wait EXCEPT ![w].pc = "take"]
    /\ UNCHANGED <<policy, kid, parent, free, dictLock, cuts, leaked>>

\* The end of an attempt: the finally block gives back the slot.
AfterCancel == IF parent.level = 0
               THEN [parent EXCEPT !.level = 1, !.out = "canceled", !.pc = "list"]
               ELSE [parent EXCEPT !.pc = "ended"]
SlotsAfterCancel(n) == IF parent.level = 0 THEN n ELSE n + 1

\* A slot is taken again.  A wait that was cancelled meanwhile now raises; one that
\* was not drops whatever lock the dictionary holds.
TakeBack(w) ==
    /\ wait[w].pc \in {"take", "last"} /\ free > 0
    /\ wait' = [wait EXCEPT ![w] = NoWait]
    /\ IF wait[w].cut
       THEN /\ UNCHANGED dictLock
            /\ parent' = IF w = 0 THEN AfterCancel ELSE parent
            /\ free' = IF w = 0 THEN SlotsAfterCancel(free - 1) ELSE free - 1
       ELSE /\ dictLock' = 0
            /\ parent' = IF w = 0 THEN [parent EXCEPT !.pc = parent.then] ELSE parent
            /\ free' = free - 1
    /\ UNCHANGED <<policy, kid, cuts, leaked>>

-----------------------------------------------------------------------------
(* The parent's attempt.                                                   *)

StartParent ==
    /\ ParentAt({"queued"}) /\ free > 0
    /\ parent' = [parent EXCEPT !.pc = "graph", !.row = "running", !.out = "none", !.level = 0]
    /\ free' = free - 1
    /\ UNCHANGED <<policy, kid, wait, dictLock, cuts, leaked>>

\* child.wait, after a first look at the children.
ToolWait(w, ids, all) ==
    /\ ParentAt({"graph"}) /\ w # 0 /\ wait[w].pc = "off"
    /\ ids # {} /\ ids \subseteq Admitted(kid)
    /\ IF all THEN Ended(ids) # ids ELSE Ended(ids) = {}
    /\ AskLock(w, ids, all)
    /\ UNCHANGED <<policy, kid, parent, free, cuts, leaked>>

\* child.cancel.
ToolCancel(c) ==
    /\ ParentAt({"graph"}) /\ kid[c] \in {"queued", "running", "waiting"}
    /\ kid' = CancelKids({c})
    /\ UNCHANGED <<policy, parent, free, wait, dictLock, cuts, leaked>>

NoToolWaits == \A w \in Wait \ {0} : wait[w].pc = "off"

\* The graph stops; a run that waits for the user leaves its children alone.
StopGraph(out) ==
    /\ ParentAt({"graph"}) /\ NoToolWaits
    /\ parent' = [parent EXCEPT !.out = out, !.pc = IF out = "waiting" THEN "commit" ELSE "list"]
    /\ UNCHANGED <<policy, kid, free, wait, dictLock, cuts, leaked>>

\* A cancelled graph has stopped.
Unwound ==
    /\ ParentAt({"unwind"}) /\ NoToolWaits
    /\ parent' = [parent EXCEPT !.out = "canceled", !.pc = "list"]
    /\ UNCHANGED <<policy, kid, free, wait, dictLock, cuts, leaked>>

CancelAll(ids, then, out) ==
    [parent EXCEPT !.pc = "cancel", !.todo = ids, !.ids = ids, !.then = then, !.out = out]
Finish(out) == [parent EXCEPT !.pc = "commit", !.out = out]

\* MUTANT of Judged: with nobody left to wait for, the outcome stands.
JudgedOptimistic ==
    IF WaitFor(kid) = {} THEN Finish("completed")
    ELSE [parent EXCEPT !.pc = "wait", !.ids = WaitFor(kid), !.snap = kid, !.then = "list"]

\* What _settle_child_coordination does next for a completed outcome.
Judged ==
    CASE Impossible(kid) /\ ActiveKids(kid) # {} -> CancelAll(ActiveKids(kid), "commit", "failed")
      [] Impossible(kid) /\ ActiveKids(kid) = {} -> Finish("failed")
      [] PolicySatisfied(kid)                    -> Finish("completed")
      [] ~Impossible(kid) /\ ~PolicySatisfied(kid) /\ WaitFor(kid) = {} -> Finish("failed")
      [] OTHER -> [parent EXCEPT !.pc = "wait", !.ids = WaitFor(kid), !.snap = kid, !.then = "list"]

\* MUTANT of Settle: a failed or canceled parent leaves its children alone.
SettleOwnEnd ==
    /\ ParentAt({"list", "recheck"})
    /\ parent' = CASE parent.pc = "recheck"      -> Judged
                   [] parent.out # "completed"   -> Finish(parent.out)
                   [] ToCancel(kid) # {}         -> CancelAll(ToCancel(kid), "recheck", "completed")
                   [] OTHER                      -> Judged
    /\ UNCHANGED <<policy, kid, free, wait, dictLock, cuts, leaked>>

\* One reading of the children: at the head of the loop, or after cancellations.
Settle ==
    /\ ParentAt({"list", "recheck"})
    /\ parent' =
         CASE parent.pc = "recheck" -> Judged
           [] parent.pc = "list" /\ parent.out # "completed" ->
                IF ActiveKids(kid) = {} THEN Finish(parent.out)
                ELSE CancelAll(ActiveKids(kid), "commit", parent.out)
           [] parent.pc = "list" /\ parent.out = "completed" ->
                IF ToCancel(kid) = {} THEN Judged
                ELSE CancelAll(ToCancel(kid), "recheck", "completed")
    /\ UNCHANGED <<policy, kid, free, wait, dictLock, cuts, leaked>>

\* _cancel_child_runs, one child after the other.
CancelOne(c) ==
    /\ ParentAt({"cancel"}) /\ c \in parent.todo
    /\ kid' = CancelKids({c})
    /\ parent' = [parent EXCEPT !.todo = @ \ {c},
                                !.pc = IF parent.todo = {c} THEN "waitall" ELSE "cancel"]
    /\ UNCHANGED <<policy, free, wait, dictLock, cuts, leaked>>

SettleWait ==
    /\ ParentAt({"wait", "waitall"}) /\ wait[0].pc = "off"
    /\ AskLock(0, parent.ids, ParentAt({"waitall"}))
    /\ UNCHANGED <<policy, kid, parent, free, cuts, leaked>>

\* The ledgers and the final draft are checked after the children, and may turn any
\* outcome into a failure; the result is committed and the coroutine ends.
CommitParent ==
    /\ ParentAt({"commit"})
    /\ \E row \in {parent.out, "failed"} :
          parent' = [parent EXCEPT !.row = row, !.pc = IF row = "waiting" THEN "paused" ELSE "ended"]
    /\ free' = free + 1
    /\ UNCHANGED <<policy, kid, wait, dictLock, cuts, leaked>>

DecideParent ==
    /\ ParentAt({"paused"})
    /\ parent' = [parent EXCEPT !.pc = "queued", !.row = "queued"]
    /\ UNCHANGED <<policy, kid, free, wait, dictLock, cuts, leaked>>

-----------------------------------------------------------------------------
(* CancelledError.                                                         *)

Executing == ~ParentAt({"queued", "paused", "ended"})

\* MUTANT of CutWait: a cancelled wait does not take its slot again.
CutWaitAway(x) == NoWait

CutWait(x) ==
    CASE x.pc = "poll" -> [x EXCEPT !.pc = "take", !.cut = TRUE]
      [] x.pc = "take" -> [x EXCEPT !.pc = "last", !.cut = TRUE]
      [] x.pc \in {"off", "lock", "last"} -> NoWait

\* A second cancel ends the await of the slot itself: no slot is taken.
Lost(ws) == Cardinality({w \in ws : wait[w].pc = "last"})

CutTools ==
    /\ wait' = [w \in Wait |-> IF w = 0 THEN wait[0] ELSE CutWait(wait[w])]
    /\ leaked' = leaked + Lost(Wait \ {0})

\* task.cancel() reaches the attempt at the await it is at.
Cut ==
    /\ Executing /\ cuts < MaxCuts
    /\ cuts' = cuts + 1
    /\ \/ /\ ParentAt({"graph"})
          /\ CutTools
          /\ parent' = [parent EXCEPT !.pc = "unwind"]
          /\ UNCHANGED free
       \/ /\ ParentAt({"unwind"})
          /\ CutTools \/ UNCHANGED <<wait, leaked>>
          /\ UNCHANGED <<parent, free>>
       \/ /\ wait[0].pc \in {"poll", "take"}
          /\ wait' = [wait EXCEPT ![0] = CutWait(wait[0])]
          /\ UNCHANGED <<parent, free, leaked>>
       \/ /\ ~ParentAt({"graph", "unwind"}) /\ wait[0].pc \in {"off", "lock", "last"}
          /\ wait' = [wait EXCEPT ![0] = NoWait]
          /\ leaked' = leaked + Lost({0})
          /\ parent' = AfterCancel
          /\ free' = SlotsAfterCancel(free)
    /\ UNCHANGED <<policy, dictLock>>

\* cancel_run: the tree's rows, then the task; the heartbeat repeats the latter.
CancelTreeOf ==
    /\ kid' = CancelKids(Child)
    /\ IF Executing THEN Cut
       ELSE /\ ParentAt({"queued", "paused"})
            /\ parent' = [parent EXCEPT !.pc = "ended", !.row = "canceled"]
            /\ UNCHANGED <<policy, free, wait, dictLock, cuts, leaked>>
Heartbeat == cuts > 0 /\ Cut /\ UNCHANGED kid

-----------------------------------------------------------------------------
KidStep(c) == StartKid(c) \/ EndKid(c) \/ PauseKid(c) \/ ConfirmKid(c)
WaitStep(w) == GetLock(w) \/ Lend(w) \/ PollKids(w) \/ TakeBack(w)
SettleStep ==
    \/ Unwound \/ Settle \/ SettleWait \/ CommitParent
    \/ \E c \in Child : CancelOne(c)
    \/ WaitStep(0)

CoordNext ==
    \/ StartParent \/ DecideParent \/ SettleStep \/ CancelTreeOf \/ Heartbeat
    \/ \E out \in {"completed", "failed", "waiting"} : StopGraph(out)
    \/ \E c \in Child : Spawn(c) \/ KidStep(c) \/ DecideKid(c) \/ ToolCancel(c)
    \/ \E w \in Wait \ {0} :
          WaitStep(w) \/ \E ids \in SUBSET Child, all \in BOOLEAN : ToolWait(w, ids, all)

CoordSpec == CoordInit /\ [][CoordNext]_coordVars

\* Attempts and waits go on, and a child that has its slot ends or pauses.
CoordFairness ==
    /\ WF_coordVars(SettleStep)
    /\ \A w \in Wait : WF_coordVars(WaitStep(w))
    /\ \A c \in Child : WF_coordVars(StartKid(c)) /\ WF_coordVars(EndKid(c) \/ PauseKid(c))

-----------------------------------------------------------------------------
(* Properties.                                                             *)

KidsExecuting == {c \in Child : kid[c] \in {"running", "cancelling"}}
Lent == {w \in Wait : wait[w].pc \in {"poll", "take", "last"}}
Holders == Cardinality(KidsExecuting) + (IF Executing THEN 1 ELSE 0)

\* Slots are conserved, up to those a doubly cancelled wait did not take again; a settlement
\* that can neither succeed nor fail has somebody to wait for.
CoordTypeOK ==
    /\ policy \in Policies
    /\ \A c \in Child : kid[c] \in ChildEnd \cup {"absent", "queued", "running", "cancelling", "waiting"}
    /\ free + Holders = Slots + Cardinality(Lent) + leaked
    /\ ParentAt({"wait", "waitall"}) \/ wait[0].pc = "off"
    /\ ParentAt({"list", "recheck"}) => Impossible(kid) \/ PolicySatisfied(kid) \/ WaitFor(kid) # {}

\* Whatever changed while the settlement looked, cancelled and waited: a parent that ends
\* after a failure or a cancellation has no active child, and one that ends after a
\* completed outcome, failed by its ledgers or not, only members of a quorum that was
\* reached without them (settlement.py:96-129, 181-231).  Nothing is claimed where nobody
\* looked: a waiting outcome that the ledgers turn into a failure, and a cancel that finds
\* no attempt, leave the children as they are, or asked to stop.
OnlySurplusOutlives ==
    parent.row \in {"completed", "failed", "canceled"} =>
        /\ parent.out \in {"failed", "canceled"} => ActiveKids(kid) = {}
        /\ parent.out = "completed" =>
               \A c \in ActiveKids(kid) : policy[c].mode = "quorum" /\ QuorumMet(kid, policy[c].group)

\* As docs/runtime-protocol.md:125 has it, the members of a quorum that it did not need are
\* cancelled before the parent completes.  After its cancellations
\* _settle_child_coordination reads the children again and looks whether they satisfy the
\* policy, but not whom to cancel now (settlement.py:195-200, 219).
NoKidOutlivesResult == parent.row = "completed" => ActiveKids(kid) = {}

\* A completed parent has what its policy asks for (collaboration.py:99-101).
CompletedByPolicy == parent.row = "completed" => PolicySatisfied(kid)

\* With every slot lent and taken back in turn, a settling parent ends, unless a child
\* waits for the user (collaboration.py:328-345).
ParentSettles ==
    (Executing /\ ~ParentAt({"graph"})) ~> (~Executing \/ \E c \in Child : kid[c] = "waiting")
=============================================================================
