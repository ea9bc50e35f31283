---------------------------- MODULE MCRunStore ----------------------------
(***************************************************************************)
(* Small instances of RunStore.  The constants that are functions are      *)
(* defined here; each .cfg picks one shape of the run tree.                *)
(***************************************************************************)
EXTENDS RunStore, TLC

CONSTANTS r1, r2, r3, r4, r5, t1, t2, w1, w2, q1, q2

\* A conversation run alone, or two in one thread.
FlatParent == [r \in Run |-> NoRun]
FlatDeps == [r \in Run |-> {}]
OneThread == [r \in Run |-> "thread"]

\* r1 spawns r2, r3 after r2 completes, and r5; r4 is another turn of r1's thread.
TreeParent == [r \in Run |-> IF r \in {r1, r4} THEN NoRun ELSE r1]
TreeDeps == [r \in Run |-> IF r = r3 THEN {r2} ELSE {}]

\* r2 and r3 are a quorum of one, r5 is best effort.
TreeMode == [r \in Run |-> IF r \in {r2, r3} THEN "quorum" ELSE "best_effort"]
FlatMode == [r \in Run |-> "required"]

\* Every tool is called by the first run.
ToolsOfFirst == [t \in Tool |-> r1]

NoTools == [t \in {} |-> r1]

\* The instance for a tree is two in one: a second turn or a third child, not both.  One of
\* its runs waits for the user.
OneExtra ==
    /\ status[r4] = "none" \/ status[r5] = "none"
    /\ \A r, q \in Run : ask[r] # <<>> /\ ask[q] # <<>> => r = q

\* The instance for one run is two in one: two owners that race for it, without tools and
\* model calls, or one owner, twice, with two tools or with one and model calls, whose waits
\* ask about tools only.
RaceOfOwners == (\A t \in Tool : tool[t] = FreshTool) /\ (\A j \in Job : calls[j] = {})
OneOwner ==
    /\ nJobs <= 2 /\ \E w \in Worker : \A j \in Job : job[j].owner \in {NoWorker, w}
    /\ (\A j \in Job : calls[j] = {}) \/ \E t \in Tool : tool[t] = FreshTool
    /\ \A r \in Run : Len(ask[r]) <= 1 /\ \A c \in DOMAIN ask[r] : ask[r][c] \cap Ask = {}
OneShape == RaceOfOwners \/ OneOwner

\* Workers are alike, and so are the questions a run can ask.
Alike == Permutations(Worker) \cup Permutations(Ask)
=============================================================================
