--------------------------- MODULE RunWorkerProofs ---------------------------
(***************************************************************************)
(* Theorems about the process model: its writes are transactions of the    *)
(* store, so what is proved of the store holds of the process; and its     *)
(* own safety properties, for every number of runs, jobs and slots.        *)
(***************************************************************************)
EXTENDS RunWorker, RunStoreProofs, FiniteSetTheorems

USE DEF Job

\* An attempt that has not come to settle anything.
EarlyPc == {"created", "prepare", "drive", "close", "quarantine"}
Holding == {"open", "stuck"}

\* What a task record says besides its types: it carries the outcome or the cycle
\* that its next write needs, and resources that are not closed stay with an attempt
\* that can only close them or quarantine itself.
GoodTask ==
    {t \in TaskRecord :
        /\ t.pc = "commit" => t.out \in Outcome
        /\ t.pc = "close" => t.out # "none"
        /\ t.pc = "resume" => t.cycle \in 1..MaxCycles
        /\ t.pc = "quarantine" => t.unproven
        /\ t.res \in Holding => t.pc \in {"drive", "close", "quarantine", "final",
                                         "gone", "leaked", "dead"}}

Early(t) == t.pc \in EarlyPc \/ t.res \in Holding

CyclesBounded == \A r \in Run : Len(ask[r]) <= MaxCycles

\* The inductive invariant of the process.
WorkerInv ==
    /\ TypeOK /\ AttemptInv
    /\ proc \in Worker
    /\ CyclesBounded
    /\ task \in [Job -> GoodTask]
    /\ current \in [Run -> Job \cup {0}]
    /\ \A j \in Job : task[j].pc # "none" => job[j].st \notin {"free", "pending"}
    /\ \A j \in Job : Early(task[j]) => job[j].st = "leased"
    /\ HolderIsRegistered

-----------------------------------------------------------------------------
(* What the transactions do to the rows.                                   *)

\* The transactions other than a claim; those of K settle a job of K.
Quiet(K) ==
    \/ UNCHANGED vars
    \/ \E j \in Job : Tick(j)
    \/ \E j \in Job, w \in Worker :
        \/ Renew(j, w) \/ Quarantine(j, w) \/ EnsureLostQuarantined(j, w)
        \/ \E S \in SUBSET (Ask \cup Tool) : OpenWait(j, w, S)
        \/ j \in K /\ (ConfirmCleanup(j, w) \/ \E o \in Outcome : CommitResult(j, w, o))
    \/ \E r \in Run : RunStep(r)

\* No row of a started job becomes startable, no row becomes leased, and a leased one
\* of a job outside K stays leased.
Rows(K) ==
    \A k \in Job :
        /\ job[k].st \notin {"free", "pending"} =>
              job'[k].st \notin {"free", "pending"} /\ job'[k].run = job[k].run
        /\ job'[k].st = "leased" => job[k].st = "leased"
        /\ job[k].st = "leased" /\ k \notin K => job'[k].st = "leased"

\* They are transactions of the store.
LEMMA QuietStep ==
    ASSUME NEW K, Quiet(K)
    PROVE  [Next]_vars
BY DEF Quiet, Next, AttemptStep

\* Inserting a row touches a free one.
LEMMA InsertRows ==
    ASSUME TypeOK, NEW r, NEW kind, NEW cycle, NEW late, Insert(r, kind, cycle, late), NEW K
    PROVE  Rows(K)
<1>1. nJobs + 1 \in Job /\ job[nJobs + 1].st = "free"
  BY BoundAssumption DEF TypeOK, Insert
<1>2. job'[nJobs + 1].st = "pending"
  BY <1>1 DEF TypeOK, Insert, FreshJob
<1> QED BY <1>1, <1>2 DEF TypeOK, Insert, Rows

\* The same for the transactions of a run.
LEMMA RunRows ==
    ASSUME TypeOK, NEW r \in Run, RunStep(r), NEW K
    PROVE  Rows(K)
<1>1. CASE AcceptRun(r)
  BY <1>1, InsertRows DEF AcceptRun
<1>2. CASE RequestCancel(r)
  <2>1. \A k \in Job : /\ job'[k].run = job[k].run
                       /\ job[k].st # "pending" => job'[k].st = job[k].st
                       /\ job[k].st = "pending" => job'[k].st \in {"pending", "canceled"}
    <3> SUFFICES ASSUME NEW k \in Job
                 PROVE  /\ job'[k].run = job[k].run
                        /\ job[k].st # "pending" => job'[k].st = job[k].st
                        /\ job[k].st = "pending" => job'[k].st \in {"pending", "canceled"}
      OBVIOUS
    <3>1. job[k] \in JobRecord
      BY DEF TypeOK
    <3>2. \/ job'[k] = job[k] \/ job'[k] = [job[k] EXCEPT !.cancel = TRUE]
          \/ /\ job[k].st = "pending"
             /\ job'[k] = [job[k] EXCEPT !.st = "canceled", !.cancel = TRUE]
      BY <1>2 DEF RequestCancel, CancelTree
    <3> QED BY <3>1, <3>2 DEF JobRecord
  <2> QED BY <2>1 DEF Rows
<1>3. CASE OrphanFail(r)
  BY <1>3 DEF OrphanFail, Rows
<1>4. ASSUME NEW c \in 1..MaxCycles,
             ReplayDecision(r, c) \/ BeginResume(r, c) \/ EnqueueResume(r, c) \/ AbandonResume(r, c)
      PROVE  Rows(K)
  <2>1. \/ job' = job
        \/ Insert(r, "resume", c, FALSE)
        \/ Insert(r, "resume", c, status[r] \in Terminal)
    BY <1>4 DEF ReplayDecision, BeginResume, EnqueueResume, AbandonResume, tables
  <2> QED BY <2>1, InsertRows DEF Rows
<1>5. ASSUME NEW c \in 1..MaxCycles, NEW x \in Ask \cup Tool, Decide(r, c, x) \/ DecideByRoute(r, c, x)
      PROVE  Rows(K)
  <2>1. job' = job \/ Insert(r, "resume", c, FALSE)
    BY <1>5 DEF Decide, DecideByRoute, ResumeIfResolved
  <2> QED BY <2>1, InsertRows DEF Rows
<1> QED BY <1>1, <1>2, <1>3, <1>4, <1>5 DEF RunStep

\* Closing waits keeps the number of cycles.
LEMMA CloseWaitsLength ==
    ASSUME TypeOK, CyclesBounded, NEW rs, ask' = CloseWaits(rs)
    PROVE  CyclesBounded'
<1>1. ASSUME NEW r \in Run PROVE Len([c \in DOMAIN ask[r] |-> {}]) = Len(ask[r])
  <2>1. Len(ask[r]) \in Nat /\ DOMAIN ask[r] = 1..Len(ask[r])
    BY LenProperties DEF TypeOK
  <2> QED BY <2>1
<1> QED BY <1>1 DEF CyclesBounded, CloseWaits

\* What holds of the rows after every quiet transaction.
LEMMA QuietRows ==
    ASSUME TypeOK, NEW K, Quiet(K)
    PROVE  Rows(K)
<1>0. \A k \in Job : job[k] \in JobRecord
  BY DEF TypeOK
<1>1. CASE UNCHANGED vars
  BY <1>1 DEF vars, Rows
<1>2. ASSUME NEW j \in Job, NEW x,
             job' = [job EXCEPT ![j] = x], x.run = job[j].run, x.st = job[j].st
      PROVE  Rows(K)
  <2>1. \A k \in Job : job'[k].run = job[k].run /\ job'[k].st = job[k].st
    BY <1>2 DEF TypeOK
  <2> QED BY <2>1 DEF Rows
<1>3. ASSUME NEW j \in Job, \/ Tick(j) \/ \E w \in Worker : \/ Renew(j, w)
                                                           \/ Quarantine(j, w)
                                                           \/ EnsureLostQuarantined(j, w)
                                                           \/ \E S : OpenWait(j, w, S)
      PROVE  Rows(K)
  <2> DEFINE Same(x) == job' = [job EXCEPT ![j] = x] /\ x.run = job[j].run /\ x.st = job[j].st
  <2>1. ASSUME NEW l, job' = [job EXCEPT ![j].lease = l] PROVE Same([job[j] EXCEPT !.lease = l])
    BY <1>0, <2>1 DEF JobRecord
  <2>2. CASE job' = [job EXCEPT ![j].quar = TRUE, ![j].lease = 0]
    <3>1. Same([job[j] EXCEPT !.quar = TRUE, !.lease = 0])
      BY <1>0, <2>2 DEF JobRecord
    <3> QED BY <1>2, <3>1
  <2>3. CASE job' = [job EXCEPT ![j].asked = TRUE]
    <3>1. Same([job[j] EXCEPT !.asked = TRUE])
      BY <1>0, <2>3 DEF JobRecord
    <3> QED BY <1>2, <3>1
  <2>4. CASE \E l : job' = [job EXCEPT ![j].lease = l]
    BY <1>2, <2>1, <2>4
  <2> QED BY <1>3, <2>2, <2>3, <2>4
          DEF Tick, Renew, Quarantine, EnsureLostQuarantined, QuarantineJob, OpenWait
<1>5. ASSUME NEW j \in Job, NEW w \in Worker, j \in K,
             ConfirmCleanup(j, w) \/ \E o \in Outcome : CommitResult(j, w, o)
      PROVE  Rows(K)
  <2>1. ASSUME NEW s \in {"dead", "canceled", "completed"},
               job' = [job EXCEPT ![j].st = s, ![j].lease = 0], job[j].st = "leased"
        PROVE  Rows(K)
    <3> DEFINE x == [job[j] EXCEPT !.st = s, !.lease = 0]
    <3>1. job' = [job EXCEPT ![j] = x] /\ x.run = job[j].run /\ x.st = s
      BY <1>0, <2>1 DEF JobRecord
    <3> HIDE DEF x
    <3>2. /\ \A k \in Job : k # j => job'[k] = job[k]
          /\ job'[j].st = s /\ job'[j].run = job[j].run
      BY <3>1 DEF TypeOK
    <3> QED BY <1>5, <2>1, <3>2 DEF Rows
  <2>2. \A s : JobStatusFor(s) \in {"dead", "canceled", "completed"}
    BY DEF JobStatusFor
  <2> QED BY <1>5, <2>1, <2>2 DEF ConfirmCleanup, CommitResult, Fenced
<1>6. ASSUME NEW r \in Run, RunStep(r) PROVE Rows(K)
  BY <1>6, RunRows
<1> QED BY <1>1, <1>3, <1>5, <1>6 DEF Quiet

\* No transaction opens a wait cycle beyond the bound.
LEMMA QuietCycles ==
    ASSUME TypeOK, CyclesBounded, NEW K, Quiet(K)
    PROVE  CyclesBounded'
<1>1. CASE ask' = ask
  BY <1>1 DEF CyclesBounded
<1>2. ASSUME NEW j \in Job, NEW w \in Worker, NEW S \in SUBSET (Ask \cup Tool), OpenWait(j, w, S)
      PROVE  CyclesBounded'
  <2> DEFINE q == job[j].run
  <2>1. q \in Run
    BY <1>2, RowRun DEF OpenWait, Driving, Fenced
  <2>2. /\ ask' = [ask EXCEPT ![q] = Append(ask[q], S)]
        /\ ask[q] \in Seq(SUBSET (Ask \cup Tool)) /\ Len(ask[q]) < MaxCycles
    BY <1>2, <2>1 DEF OpenWait, TypeOK
  <2>3. Len(Append(ask[q], S)) = Len(ask[q]) + 1 /\ Len(ask[q]) \in Nat
    BY <2>2
  <2>4. Len(Append(ask[q], S)) <= MaxCycles
    BY <2>2, <2>3, BoundAssumption
  <2> QED BY <2>1, <2>2, <2>4 DEF CyclesBounded, TypeOK
<1>3. ASSUME NEW rs, ask' = CloseWaits(rs) PROVE CyclesBounded'
  BY <1>3, CloseWaitsLength
<1>4. ASSUME NEW r \in Run, NEW c \in 1..MaxCycles, NEW x \in Ask \cup Tool,
             Decide(r, c, x) \/ DecideByRoute(r, c, x)
      PROVE  CyclesBounded'
  <2>1. c \in 1..Len(ask[r]) /\ ask' = [ask EXCEPT ![r][c] = ask[r][c] \ {x}]
    BY <1>4 DEF Decide, DecideByRoute
  <2>2. ask[r] \in Seq(SUBSET (Ask \cup Tool))
    BY DEF TypeOK
  <2>3. Len([ask[r] EXCEPT ![c] = ask[r][c] \ {x}]) = Len(ask[r])
    BY <2>1, <2>2, ExceptSeq
  <2> QED BY <2>1, <2>3 DEF CyclesBounded, TypeOK
<1>5. ASSUME NEW r \in Run, RunStep(r) PROVE CyclesBounded'
  <2>1. CASE RequestCancel(r)
    BY <1>3, <2>1 DEF RequestCancel, CancelTree
  <2>2. CASE AcceptRun(r) \/ OrphanFail(r)
    BY <1>1, <2>2 DEF AcceptRun, OrphanFail
  <2>3. ASSUME NEW c \in 1..MaxCycles,
               \/ ReplayDecision(r, c) \/ BeginResume(r, c) \/ EnqueueResume(r, c) \/ AbandonResume(r, c)
               \/ \E x \in Ask \cup Tool : Decide(r, c, x) \/ DecideByRoute(r, c, x)
        PROVE  CyclesBounded'
    <3>1. CASE ReplayDecision(r, c) \/ BeginResume(r, c) \/ EnqueueResume(r, c) \/ AbandonResume(r, c)
      <4>1. ask' = ask
        BY <3>1 DEF ReplayDecision, BeginResume, EnqueueResume, AbandonResume, tables
      <4> QED BY <1>1, <4>1
    <3>2. CASE \E x \in Ask \cup Tool : Decide(r, c, x) \/ DecideByRoute(r, c, x)
      <4>1. PICK x \in Ask \cup Tool : Decide(r, c, x) \/ DecideByRoute(r, c, x)
        BY <3>2
      <4> QED BY <1>4, <4>1
    <3> QED BY <2>3, <3>1, <3>2
  <2>4. CASE \E c \in 1..MaxCycles :
               \/ ReplayDecision(r, c) \/ BeginResume(r, c) \/ EnqueueResume(r, c) \/ AbandonResume(r, c)
               \/ \E x \in Ask \cup Tool : Decide(r, c, x) \/ DecideByRoute(r, c, x)
    BY <2>3, <2>4
  <2> QED BY <1>5, <2>1, <2>2, <2>4 DEF RunStep
<1>6. ASSUME UNCHANGED vars \/ \E i \in Job : Tick(i) PROVE ask' = ask
  BY <1>6 DEF vars, Tick
<1>7. ASSUME NEW i \in Job, NEW w \in Worker,
             \/ Renew(i, w) \/ Quarantine(i, w) \/ EnsureLostQuarantined(i, w)
             \/ ConfirmCleanup(i, w) \/ \E o \in Outcome : CommitResult(i, w, o)
      PROVE  ask' = ask
  BY <1>7 DEF Renew, Quarantine, EnsureLostQuarantined, QuarantineJob, ConfirmCleanup, CommitResult
<1>8. ASSUME NEW i \in Job, NEW w \in Worker,
             \/ Renew(i, w) \/ Quarantine(i, w) \/ EnsureLostQuarantined(i, w)
             \/ \E S \in SUBSET (Ask \cup Tool) : OpenWait(i, w, S)
             \/ i \in K /\ (ConfirmCleanup(i, w) \/ \E o \in Outcome : CommitResult(i, w, o))
      PROVE  CyclesBounded'
  <2>1. CASE \E S \in SUBSET (Ask \cup Tool) : OpenWait(i, w, S)
    BY <1>2, <2>1
  <2> QED BY <1>1, <1>7, <1>8, <2>1
<1> QED BY <1>1, <1>5, <1>6, <1>8 DEF Quiet

\* A claim leases only a pending row, and counts it.
LEMMA ClaimRows ==
    ASSUME TypeOK, AttemptInv, NEW w \in Worker, Claim(w)
    PROVE  \A k \in Job :
            /\ job'[k].run = job[k].run
            /\ job[k].st \notin {"free", "pending"} => job'[k].st \notin {"free", "pending"}
            /\ job[k].st = "leased" => job'[k].st = "leased"
            /\ job'[k].st = "leased" /\ job[k].st # "leased" =>
                  job[k].st = "pending" /\ job'[k].gen # job[k].gen
            /\ job'[k].gen # job[k].gen => job[k].st = "pending" /\ job'[k].st = "leased"
<1>1. CASE job' = UnblockedJob
  BY <1>1, SweepFacts
<1> DEFINE Row(i) == [UnblockedJob[i] EXCEPT !.st = "leased", !.owner = w,
                                              !.gen = @ + 1, !.lease = LeaseTicks]
<1>2. ASSUME NEW i \in Job
      PROVE  [UnblockedJob EXCEPT ![i].st = "leased", ![i].owner = w,
                                  ![i].gen = @ + 1, ![i].lease = LeaseTicks]
             = [UnblockedJob EXCEPT ![i] = Row(i)]
  BY SweepType
<1>3. ASSUME NEW i \in Job, Oldest(i)
      PROVE  /\ job[i].st = "pending" /\ Row(i).st = "leased"
             /\ Row(i).run = job[i].run /\ Row(i).gen # job[i].gen
  <2>1. UnblockedJob[i] \in JobRecord
    BY SweepType
  <2>2. Row(i).st = "leased" /\ Row(i).run = UnblockedJob[i].run
        /\ Row(i).gen = UnblockedJob[i].gen + 1 /\ UnblockedJob[i].gen \in Nat
    BY <2>1 DEF JobRecord
  <2>3. UnblockedJob[i].run = job[i].run /\ UnblockedJob[i].gen = job[i].gen
    BY SweepFacts
  <2>4. UnblockedJob[i].st = "pending"
    BY <1>3 DEF Oldest, Claimable
  <2>5. job[i].st = "pending"
    BY <2>4, SweepFacts
  <2> QED BY <2>2, <2>3, <2>5
<1> HIDE DEF Row
<1>4. ASSUME NEW i \in Job, Oldest(i), job' = [UnblockedJob EXCEPT ![i] = Row(i)], NEW k \in Job
      PROVE  /\ job'[k].run = job[k].run
             /\ job[k].st \notin {"free", "pending"} => job'[k].st \notin {"free", "pending"}
             /\ job[k].st = "leased" => job'[k].st = "leased"
             /\ job'[k].st = "leased" /\ job[k].st # "leased" =>
                  job[k].st = "pending" /\ job'[k].gen # job[k].gen
             /\ job'[k].gen # job[k].gen => job[k].st = "pending" /\ job'[k].st = "leased"
  <2>1. job'[k] = IF k = i THEN Row(i) ELSE UnblockedJob[k]
    BY <1>4, SweepType
  <2>2. CASE k = i
    BY <1>3, <1>4, <2>1, <2>2
  <2>3. CASE k # i
    BY <2>1, <2>3, SweepFacts
  <2> QED BY <2>2, <2>3
<1>5. ASSUME NEW i \in Job, Oldest(i),
             job' = [UnblockedJob EXCEPT ![i].st = "leased", ![i].owner = w,
                                         ![i].gen = @ + 1, ![i].lease = LeaseTicks]
      PROVE  job' = [UnblockedJob EXCEPT ![i] = Row(i)]
  BY <1>2, <1>5
<1> QED BY <1>1, <1>4, <1>5 DEF Claim

\* A claim closes the waits of blocked runs and opens none.
LEMMA ClaimCycles ==
    ASSUME TypeOK, CyclesBounded, NEW w \in Worker, Claim(w)
    PROVE  CyclesBounded'
BY CloseWaitsLength DEF Claim

-----------------------------------------------------------------------------
(* Task records: what the operators that move a task return.               *)

\* A task of which only its resources matter any more, without and with the mark
\* of a lease observed lost.
Blank(pc, res) == [NoTask EXCEPT !.pc = pc, !.res = res]
Marked(pc, res, lost) == [NoTask EXCEPT !.pc = pc, !.res = res, !.lost = lost]

\* Such a task is a good one.
LEMMA BlankGood ==
    ASSUME NEW pc \in {"final", "gone", "leaked", "dead"},
           NEW res \in {"none", "open", "closed", "stuck"}
    PROVE  Blank(pc, res) \in GoodTask /\ Blank(pc, res).pc = pc /\ Blank(pc, res).res = res
<1> DEFINE a == [NoTask EXCEPT !.pc = pc]
           b == [a EXCEPT !.res = res]
<1>1. NoTask \in TaskRecord
  BY DEF TaskRecord, NoTask, Ended
<1>2. a \in TaskRecord /\ a.pc = pc
  BY <1>1 DEF TaskRecord, Ended
<1> HIDE DEF a
<1>3. b \in TaskRecord /\ b.pc = pc /\ b.res = res
  BY <1>2 DEF TaskRecord
<1> HIDE DEF b
<1>4. b \in GoodTask
  BY <1>3 DEF GoodTask
<1>5. b = Blank(pc, res)
  BY DEF a, b, Blank
<1> QED BY <1>3, <1>4, <1>5

\* With or without the mark.
LEMMA MarkedGood ==
    ASSUME NEW pc \in {"final", "gone", "leaked", "dead"},
           NEW res \in {"none", "open", "closed", "stuck"}, NEW lost \in BOOLEAN
    PROVE  /\ Marked(pc, res, lost) \in GoodTask
           /\ Marked(pc, res, lost).pc = pc /\ Marked(pc, res, lost).res = res
<1> DEFINE b == Blank(pc, res)
           c == [b EXCEPT !.lost = lost]
<1>1. b \in GoodTask /\ b.pc = pc /\ b.res = res
  BY BlankGood
<1> HIDE DEF b
<1>2. c \in TaskRecord /\ c.pc = pc /\ c.res = res
  BY <1>1 DEF GoodTask, TaskRecord
<1> HIDE DEF c
<1>3. c \in GoodTask
  BY <1>2 DEF GoodTask
<1>4. c = Marked(pc, res, lost)
  BY DEF b, c, Blank, Marked
<1> QED BY <1>2, <1>3, <1>4

\* So one that only has to end.
LEMMA RestGood ==
    ASSUME NEW t \in GoodTask, NEW pc \in {"final", "leaked", "dead"}
    PROVE  Rest(t, pc) \in GoodTask /\ Rest(t, pc).pc = pc /\ Rest(t, pc).res = t.res
<1>1. t.res \in {"none", "open", "closed", "stuck"} /\ t.lost \in BOOLEAN
  BY DEF GoodTask, TaskRecord
<1>2. Rest(t, pc) = Marked(pc, t.res, t.lost)
  BY DEF Rest, Marked
<1> QED BY <1>1, <1>2, MarkedGood

\* What a record says besides its types is about five of its fields.
LEMMA SameGood ==
    ASSUME NEW t \in GoodTask, NEW u \in TaskRecord,
           u.pc = t.pc, u.res = t.res, u.out = t.out, u.cycle = t.cycle, u.unproven = t.unproven
    PROVE  u \in GoodTask
BY DEF GoodTask

\* A cancellation and a heartbeat only leave their marks.
LEMMA MarkGood ==
    ASSUME NEW t \in GoodTask
    PROVE  /\ \A c \in BOOLEAN : [t EXCEPT !.cancel = c] \in GoodTask
           /\ \A b \in {"off", "renew", "check", "cancel", "lose"} :
                 /\ [t EXCEPT !.beat = b] \in GoodTask
                 /\ \A l \in BOOLEAN :
                       [t EXCEPT !.beat = b, !.cancel = TRUE, !.lost = l] \in GoodTask
<1>0. t \in TaskRecord
  BY DEF GoodTask
<1>1. ASSUME NEW c \in BOOLEAN PROVE [t EXCEPT !.cancel = c] \in GoodTask
  <2> DEFINE u == [t EXCEPT !.cancel = c]
  <2>1. /\ u \in TaskRecord /\ u.pc = t.pc /\ u.res = t.res /\ u.out = t.out
        /\ u.cycle = t.cycle /\ u.unproven = t.unproven
    BY <1>0 DEF TaskRecord
  <2> HIDE DEF u
  <2> QED BY <2>1, SameGood DEF u
<1>2. ASSUME NEW b \in {"off", "renew", "check", "cancel", "lose"}
      PROVE  [t EXCEPT !.beat = b] \in GoodTask
  <2> DEFINE u == [t EXCEPT !.beat = b]
  <2>1. /\ u \in TaskRecord /\ u.pc = t.pc /\ u.res = t.res /\ u.out = t.out
        /\ u.cycle = t.cycle /\ u.unproven = t.unproven
    BY <1>0 DEF TaskRecord
  <2> HIDE DEF u
  <2> QED BY <2>1, SameGood DEF u
<1>3. ASSUME NEW b \in {"off", "renew", "check", "cancel", "lose"}, NEW l \in BOOLEAN
      PROVE  [t EXCEPT !.beat = b, !.cancel = TRUE, !.lost = l] \in GoodTask
  <2> DEFINE u == [t EXCEPT !.beat = b, !.cancel = TRUE, !.lost = l]
  <2>1. u \in TaskRecord
    BY <1>0 DEF TaskRecord
  <2>2. /\ u.pc = t.pc /\ u.res = t.res /\ u.out = t.out
        /\ u.cycle = t.cycle /\ u.unproven = t.unproven
    BY <1>0 DEF TaskRecord
  <2> HIDE DEF u
  <2> QED BY <2>1, <2>2, SameGood DEF u
<1> QED BY <1>1, <1>2, <1>3

\* So does taking a cancellation.
LEMMA TakenGood ==
    ASSUME NEW j \in Job, task[j] \in GoodTask
    PROVE  /\ Taken(j) \in GoodTask
           /\ Taken(j).pc = task[j].pc /\ Taken(j).res = task[j].res
           /\ Taken(j).unproven = task[j].unproven
<1>1. Taken(j) \in GoodTask
  BY MarkGood DEF Taken
<1>2. task[j] \in TaskRecord
  BY DEF GoodTask
<1> QED BY <1>1, <1>2 DEF Taken, TaskRecord

\* A move to another step of the attempt, with what that step needs.
LEMMA MoveGood ==
    ASSUME NEW t \in GoodTask, t.res \notin Holding
    PROVE  /\ \A pc \in {"prepare", "notify", "ensure", "confirm", "final"} :
                 /\ [t EXCEPT !.pc = pc] \in GoodTask
                 /\ [t EXCEPT !.pc = pc, !.beat = "renew"] \in GoodTask
           /\ \A o \in Outcome : [t EXCEPT !.pc = "commit", !.out = o] \in GoodTask
           /\ \A c \in 1..MaxCycles : [t EXCEPT !.pc = "resume", !.cycle = c] \in GoodTask
<1>1. ASSUME NEW pc \in {"prepare", "notify", "ensure", "confirm", "final"}
      PROVE  /\ [t EXCEPT !.pc = pc] \in GoodTask
             /\ [t EXCEPT !.pc = pc, !.beat = "renew"] \in GoodTask
  <2> DEFINE u == [t EXCEPT !.pc = pc]
             b == [t EXCEPT !.pc = pc, !.beat = "renew"]
  <2>1. u \in TaskRecord /\ u.pc = pc /\ u.res = t.res
    BY DEF GoodTask, TaskRecord
  <2>2. b \in TaskRecord /\ b.pc = pc /\ b.res = t.res
    BY DEF GoodTask, TaskRecord
  <2> HIDE DEF u, b
  <2>3. u \in GoodTask
    BY <2>1 DEF GoodTask
  <2>4. b \in GoodTask
    BY <2>2 DEF GoodTask
  <2> QED BY <2>3, <2>4 DEF u, b
<1>2. ASSUME NEW o \in Outcome PROVE [t EXCEPT !.pc = "commit", !.out = o] \in GoodTask
  BY DEF GoodTask, TaskRecord
<1>3. ASSUME NEW c \in 1..MaxCycles PROVE [t EXCEPT !.pc = "resume", !.cycle = c] \in GoodTask
  <2>1. c \in Nat
    BY BoundAssumption
  <2> QED BY <2>1 DEF GoodTask, TaskRecord
<1> QED BY <1>1, <1>2, <1>3

\* Where a cancellation sends a task that is past its graph, or not yet in it.
LEMMA CancelledGood ==
    ASSUME NEW t \in GoodTask, t.pc \notin {"drive", "close"}, t.pc \notin Ended, t.pc # "final"
    PROVE  /\ OnCancelled(t) \in GoodTask
           /\ OnCancelled(t).pc \in {"final", "ensure", "commit"}
           /\ OnCancelled(t).res = t.res
<1>1. CASE t.frame # "body" \/ t.unproven
  BY <1>1, RestGood DEF OnCancelled, Finally
<1>2. CASE ~(t.frame # "body" \/ t.unproven)
  <2>1. t.res \notin Holding
    BY <1>2 DEF GoodTask, Ended
  <2>2. InterruptedOutcome \in Outcome
    BY DEF InterruptedOutcome, Outcome, Terminal
  <2> DEFINE e == [t EXCEPT !.frame = "cancel", !.pc = "ensure"]
             c == [t EXCEPT !.frame = "cancel", !.pc = "commit", !.out = InterruptedOutcome]
  <2>3. t \in TaskRecord
    BY DEF GoodTask
  <2>4. e \in TaskRecord /\ e.pc = "ensure" /\ e.res = t.res
    BY <2>3 DEF TaskRecord
  <2>5. c \in TaskRecord /\ c.pc = "commit" /\ c.res = t.res /\ c.out = InterruptedOutcome
    BY <2>2, <2>3 DEF TaskRecord
  <2>6. OnCancelled(t) \in {e, c}
    BY <1>2 DEF OnCancelled
  <2> HIDE DEF e, c
  <2>7. e \in GoodTask
    BY <2>1, <2>4 DEF GoodTask
  <2>8. c \in GoodTask
    BY <2>1, <2>2, <2>5 DEF GoodTask
  <2> QED BY <2>4, <2>5, <2>6, <2>7, <2>8
<1> QED BY <1>1, <1>2

\* Where a lost lease sends a task that commits.
LEMMA FencedGood ==
    ASSUME NEW t \in GoodTask, t.pc = "commit"
    PROVE  /\ OnFenced(t) \in GoodTask
           /\ OnFenced(t).pc \in {"final", "ensure"}
           /\ OnFenced(t).res = t.res /\ t.res \notin Holding
<1>1. t.res \notin Holding
  BY DEF GoodTask, Ended
<1> DEFINE e == [t EXCEPT !.lost = TRUE, !.frame = "fence", !.pc = "ensure"]
           l == [t EXCEPT !.lost = TRUE]
<1>2. /\ e \in GoodTask /\ e.pc = "ensure" /\ e.res = t.res
      /\ l \in GoodTask /\ l.res = t.res
  <2>1. t \in TaskRecord
    BY DEF GoodTask
  <2>2. e \in TaskRecord /\ e.pc = "ensure" /\ e.res = t.res
    BY <2>1 DEF TaskRecord
  <2>3. l \in TaskRecord /\ l.pc = "commit" /\ l.res = t.res /\ l.out = t.out
    BY <2>1 DEF TaskRecord
  <2> HIDE DEF e, l
  <2>4. e \in GoodTask
    BY <1>1, <2>2 DEF GoodTask
  <2>5. l \in GoodTask
    BY <1>1, <2>3 DEF GoodTask
  <2> QED BY <2>2, <2>3, <2>4, <2>5
<1>3. OnFenced(t) \in {e, Finally(l)}
  BY DEF OnFenced
<1> HIDE DEF e, l
<1> QED BY <1>1, <1>2, <1>3, RestGood DEF Finally

\* Where a task goes when its resources are closed.
LEMMA ClosedGood ==
    ASSUME NEW t \in GoodTask, t.pc = "close"
    PROVE  /\ Closed(t) \in GoodTask
           /\ Closed(t).pc \in {"ensure", "commit"} /\ Closed(t).res = "closed"
<1> DEFINE c == [t EXCEPT !.res = "closed"]
           e == [c EXCEPT !.pc = "ensure"]
           i == [c EXCEPT !.pc = "commit", !.out = InterruptedOutcome]
           m == [c EXCEPT !.pc = "commit"]
<1>1. c \in TaskRecord /\ c.res = "closed" /\ c.out = t.out /\ c.pc = "close"
  BY DEF GoodTask, TaskRecord
<1>2. InterruptedOutcome \in Outcome
  BY DEF InterruptedOutcome, Outcome, Terminal
<1> HIDE DEF c
<1>3. /\ e \in GoodTask /\ e.pc = "ensure" /\ e.res = "closed"
      /\ i \in GoodTask /\ i.pc = "commit" /\ i.res = "closed"
  BY <1>1, <1>2 DEF GoodTask, TaskRecord, Holding
<1>4. t.out \notin {"fenced", "interrupted"} =>
        m \in GoodTask /\ m.pc = "commit" /\ m.res = "closed"
  <2>1. t.out # "none" /\ t.out \in Outcome \cup {"none", "fenced", "interrupted"}
    BY DEF GoodTask, TaskRecord
  <2> QED BY <1>1, <2>1 DEF GoodTask, TaskRecord, Holding
<1>5. Closed(t) \in {e, i} \/ (t.out \notin {"fenced", "interrupted"} /\ Closed(t) = m)
  BY DEF Closed, Goto, c
<1> QED BY <1>3, <1>4, <1>5

-----------------------------------------------------------------------------
(* What keeps the invariant.                                               *)

\* The types give more: a task has an inserted job, whose run exists.
LEMMA TaskRun ==
    ASSUME WorkerInv, NEW j \in Job, task[j].pc # "none"
    PROVE  RunOf(j) \in Run
BY RowRun DEF WorkerInv, RunOf

\* The newest cycle, when it is resolved, is within the bound.
LEMMA NewestBounded ==
    ASSUME WorkerInv, NEW r \in Run, BeginResume(r, Newest(r))
    PROVE  Newest(r) \in 1..MaxCycles
<1>1. Newest(r) \in 1..Len(ask[r]) /\ Len(ask[r]) <= MaxCycles
  BY DEF BeginResume, Resolved, WorkerInv, CyclesBounded
<1>2. Len(ask[r]) \in Nat
  BY LenProperties DEF WorkerInv, TypeOK
<1> QED BY <1>1, <1>2, BoundAssumption

\* A step that keeps the invariant, and writes only what a transaction does.
Kept == WorkerInv' /\ [Next]_vars

\* A transaction that leases nothing, with tasks that do not come to life, stay
\* registered, and begin nothing with a job that the transaction settles.
LEMMA Preserve ==
    ASSUME WorkerInv, NEW K, Quiet(K),
           proc' \in Worker, task' \in [Job -> GoodTask], current' \in [Run -> Job \cup {0}],
           \A k \in Job :
             /\ task'[k].pc # "none" => task[k].pc # "none"
             /\ Early(task'[k]) => Early(task[k]) /\ k \notin K
             /\ task'[k].pc \notin Ended => /\ task[k].pc \notin Ended
                                            /\ current[RunOf(k)] = k => current'[RunOf(k)] = k
    PROVE  Kept
<1>1. TypeOK' /\ AttemptInv'
  BY QuietStep, StepType, StepAttempt DEF WorkerInv
<1>2. CyclesBounded' /\ Rows(K)
  BY QuietCycles, QuietRows DEF WorkerInv
<1>3. ASSUME NEW k \in Job
      PROVE  /\ task'[k].pc # "none" => job'[k].st \notin {"free", "pending"}
             /\ Early(task'[k]) => job'[k].st = "leased"
             /\ task'[k].pc \notin Ended /\ job'[k].st = "leased" => current'[job'[k].run] = k
  BY <1>2 DEF WorkerInv, Rows, HolderIsRegistered, Alive, RunOf
<1>4. HolderIsRegistered'
  BY <1>3 DEF HolderIsRegistered, Alive, RunOf
<1>5. \A j \in Job : Early(task'[j]) <=> Early(task[j])'
  BY DEF Early
<1> QED BY <1>1, <1>2, <1>3, <1>4, <1>5, QuietStep DEF WorkerInv, Kept

\* The step of one task: it is alive, or goes nowhere, and it does not take up what
\* the transaction has settled.
LEMMA TaskStep ==
    ASSUME WorkerInv, NEW j \in Job, NEW t \in GoodTask, Set(j, t), NEW K, Quiet(K), K \subseteq {j},
           UNCHANGED <<proc, current>>,
           Alive(j) \/ t.pc = task[j].pc,
           Early(t) => Early(task[j]) /\ K = {}
    PROVE  Kept
<1>1. task \in [Job -> GoodTask]
  BY DEF WorkerInv
<1>2. task' \in [Job -> GoodTask] /\ \A k \in Job : task'[k] = IF k = j THEN t ELSE task[k]
  BY <1>1 DEF Set
<1>3. ASSUME NEW k \in Job
      PROVE  /\ task'[k].pc # "none" => task[k].pc # "none"
             /\ Early(task'[k]) => Early(task[k]) /\ k \notin K
             /\ task'[k].pc \notin Ended => task[k].pc \notin Ended
  <2>1. CASE k = j
    BY <1>2, <2>1 DEF Alive, Ended
  <2>2. CASE k # j
    BY <1>2, <2>2
  <2> QED BY <2>1, <2>2
<1> QED BY <1>2, <1>3, Preserve DEF WorkerInv

\* A step that touches no task.
LEMMA StoreStep ==
    ASSUME WorkerInv, Quiet({}), UNCHANGED <<proc, task, current>>
    PROVE  Kept
BY Preserve DEF WorkerInv

\* A claim keeps everything but the registration of the job it leases.
LEMMA ClaimKeeps ==
    ASSUME WorkerInv, Claim(proc)
    PROVE  /\ TypeOK' /\ AttemptInv' /\ CyclesBounded'
           /\ \A k \in Job : task[k].pc # "none" =>
                /\ job'[k].run = job[k].run /\ job'[k].gen = job[k].gen
                /\ job'[k].st \notin {"free", "pending"}
                /\ Early(task[k]) => job'[k].st = "leased"
                /\ Alive(k) /\ job'[k].st = "leased" => current[job'[k].run] = k
<1>1. [Next]_vars
  BY DEF WorkerInv, Next
<1>2. TypeOK' /\ AttemptInv' /\ CyclesBounded'
  BY <1>1, StepType, StepAttempt, ClaimCycles DEF WorkerInv
<1>3. \A k \in Job :
            /\ job'[k].run = job[k].run
            /\ job[k].st \notin {"free", "pending"} => job'[k].st \notin {"free", "pending"}
            /\ job[k].st = "leased" => job'[k].st = "leased"
            /\ job'[k].st = "leased" /\ job[k].st # "leased" =>
                  job[k].st = "pending" /\ job'[k].gen # job[k].gen
            /\ job'[k].gen # job[k].gen => job[k].st = "pending" /\ job'[k].st = "leased"
  BY ClaimRows DEF WorkerInv
<1> QED BY <1>2, <1>3 DEF WorkerInv, HolderIsRegistered, RunOf

\* The step of one task that does not touch the store.
LEMMA LocalStep ==
    ASSUME WorkerInv, NEW j \in Job, NEW t \in GoodTask, Set(j, t), UNCHANGED vars,
           UNCHANGED <<proc, current>>,
           Alive(j) \/ t.pc = task[j].pc, Early(t) => Early(task[j])
    PROVE  Kept
<1>1. Quiet({})
  BY DEF Quiet
<1> QED BY <1>1, TaskStep

\* A claim whose job no task has been created for yet.
LEMMA ClaimSame ==
    ASSUME WorkerInv, Claim(proc), UNCHANGED <<proc, task, current>>
    PROVE  Kept
<1>1. ASSUME NEW k \in Job
      PROVE  /\ task[k].pc # "none" => job'[k].st \notin {"free", "pending"}
             /\ Early(task[k]) => job'[k].st = "leased"
             /\ Alive(k) /\ job'[k].st = "leased" => current[job'[k].run] = k
  <2>1. CASE task[k].pc = "none"
    <3>1. task[k] \in GoodTask
      BY DEF WorkerInv
    <3>2. ~Early(task[k]) /\ ~Alive(k)
      BY <2>1, <3>1 DEF GoodTask, Early, EarlyPc, Alive, Ended
    <3> QED BY <2>1, <3>2
  <2>2. CASE task[k].pc # "none"
    BY <2>2, ClaimKeeps
  <2> QED BY <2>1, <2>2
<1>2. HolderIsRegistered'
  BY <1>1 DEF HolderIsRegistered, Alive, RunOf
<1>3. TypeOK' /\ AttemptInv' /\ CyclesBounded'
  BY ClaimKeeps
<1>4. \A k \in Job : Early(task[k])' <=> Early(task[k])
  BY DEF Early
<1>5. [Next]_vars
  BY DEF WorkerInv, Next
<1> QED BY <1>1, <1>2, <1>3, <1>4, <1>5 DEF WorkerInv, Kept

-----------------------------------------------------------------------------
(* Each action of the process keeps the invariant.                         *)

\* The job a claim leases had no task, and no other job of its run has a lease.
LEMMA DispatchStep == ASSUME WorkerInv, Dispatch PROVE Kept
<1>1. /\ TypeOK' /\ AttemptInv' /\ CyclesBounded'
      /\ \A k \in Job : task[k].pc # "none" =>
            /\ job'[k].run = job[k].run /\ job'[k].gen = job[k].gen
            /\ job'[k].st \notin {"free", "pending"}
            /\ Early(task[k]) => job'[k].st = "leased"
            /\ Alive(k) /\ job'[k].st = "leased" => current[job'[k].run] = k
  BY ClaimKeeps DEF Dispatch
<1>2. CASE UNCHANGED memory
  <2>1. UNCHANGED <<task, current, proc>>
    BY <1>2 DEF memory, Dispatch, process
  <2> QED BY <2>1, ClaimSame DEF Dispatch
<1>3. ASSUME NEW j \in Job, job'[j].gen # job[j].gen, Set(j, NewTask),
             current' = [current EXCEPT ![RunOf(j)] = j]
      PROVE  Kept
  <2>1. job[j].st = "pending" /\ job'[j].st = "leased" /\ job'[j].run = job[j].run
    BY <1>3, ClaimRows DEF Dispatch, WorkerInv
  <2>2. task[j].pc = "none" /\ RunOf(j) \in Run
    BY <1>3, <1>1, <2>1, RowRun DEF WorkerInv, RunOf
  <2>3. NewTask \in GoodTask /\ NewTask.pc = "created"
    BY DEF NewTask, NoTask, GoodTask, TaskRecord, Holding
  <2>4. /\ task' \in [Job -> GoodTask] /\ current' \in [Run -> Job \cup {0}]
        /\ \A k \in Job : task'[k] = IF k = j THEN NewTask ELSE task[k]
    BY <1>3, <2>2, <2>3 DEF WorkerInv, Set
  <2>5. HolderIsRegistered'
    <3>1. ASSUME NEW k \in Job, task'[k].pc \notin Ended, job'[k].st = "leased"
          PROVE  current'[job'[k].run] = k
      <4>1. CASE k = j
        BY <1>3, <2>1, <2>2, <4>1 DEF WorkerInv, RunOf
      <4>2. CASE k # j
        <5>1. /\ task[k].pc \notin Ended /\ task[k].pc # "none"
              /\ current[job'[k].run] = k
          BY <1>1, <2>4, <3>1, <4>2 DEF Alive, Ended
        <5>2. job'[k].run # job'[j].run
          BY <1>1, <2>1, <3>1, <4>2 DEF AttemptInv, OneActiveJob, Active
        <5>3. job'[k].run = job[k].run /\ RunOf(k) \in Run
          BY <1>1, <5>1, TaskRun
        <5> QED BY <1>3, <2>1, <5>1, <5>2, <5>3 DEF WorkerInv, RunOf
      <4> QED BY <4>1, <4>2
    <3> QED BY <3>1 DEF HolderIsRegistered, Alive, RunOf
  <2>6. ASSUME NEW k \in Job
        PROVE  /\ task'[k].pc # "none" => job'[k].st \notin {"free", "pending"}
               /\ Early(task[k])' => job'[k].st = "leased"
    <3>1. CASE k = j
      BY <2>1, <3>1
    <3>2. CASE k # j /\ task[k].pc = "none"
      <4>1. task[k] \in GoodTask /\ task'[k] = task[k]
        BY <2>4, <3>2 DEF WorkerInv
      <4> QED BY <3>2, <4>1 DEF GoodTask, Early, EarlyPc
    <3>3. CASE k # j /\ task[k].pc # "none"
      BY <1>1, <2>4, <3>3 DEF Early
    <3> QED BY <3>1, <3>2, <3>3
  <2>7. proc' \in Worker
    BY DEF Dispatch, process, WorkerInv
  <2>8. [Next]_vars
    BY DEF Dispatch, WorkerInv, Next
  <2> QED BY <1>1, <2>4, <2>5, <2>6, <2>7, <2>8 DEF WorkerInv, Kept
<1> QED BY <1>2, <1>3 DEF Dispatch

\* A claim that commits while the dispatcher is cancelled leaves a job without a task.
LEMMA StopStep == ASSUME WorkerInv, Stop PROVE Kept
<1>1. UNCHANGED <<proc, task, current>>
  BY DEF Stop, memory
<1>2. CASE UNCHANGED vars
  BY <1>1, <1>2, StoreStep DEF Quiet
<1>3. CASE Claim(proc)
  BY <1>1, <1>3, ClaimSame
<1> QED BY <1>2, <1>3 DEF Stop

\* The steps of an attempt up to the end of its graph.
LEMMA DriveSteps ==
    ASSUME WorkerInv, NEW j \in Job,
           Begin(j) \/ NeverBegins(j) \/ Prepare(j) \/ DriveEnds(j) \/ DriveInterrupted(j)
    PROVE  Kept
<1> DEFINE t == task[j]
<1>0. t \in GoodTask /\ UNCHANGED <<proc, current>>
  BY DEF WorkerInv, Begin, NeverBegins, Prepare, DriveEnds, DriveInterrupted, process
<1> HIDE DEF t
<1>1. CASE Begin(j)
  <2> DEFINE u == [t EXCEPT !.pc = "prepare", !.beat = "renew"]
  <2>1. t.pc = "created" /\ Set(j, u) /\ UNCHANGED vars
    BY <1>1 DEF Begin, At, t
  <2>2. u \in GoodTask
    BY <1>0, <2>1, MoveGood DEF GoodTask, Ended
  <2>3. Alive(j) /\ (Early(u) => Early(task[j]))
    BY <2>1 DEF Alive, Ended, Early, EarlyPc, t
  <2> HIDE DEF u
  <2> QED BY <1>0, <2>1, <2>2, <2>3, LocalStep
<1>2. CASE NeverBegins(j)
  <2> DEFINE u == Rest(task[j], "leaked")
  <2>1. t.pc = "created" /\ Set(j, u) /\ UNCHANGED vars
    BY <1>2 DEF NeverBegins, HitAt, t
  <2>2. u \in GoodTask /\ u.pc = "leaked" /\ u.res = task[j].res
    BY <1>0, RestGood DEF t
  <2>3. Alive(j) /\ (Early(u) => Early(task[j]))
    BY <2>1, <2>2 DEF Alive, Ended, Early, EarlyPc, t
  <2> HIDE DEF u
  <2> QED BY <1>0, <2>1, <2>2, <2>3, LocalStep
<1>3. CASE Prepare(j)
  <2>1. t.pc = "prepare" /\ UNCHANGED vars /\ t.res \notin Holding
    BY <1>0, <1>3 DEF Prepare, At, HitAt, t, GoodTask, Ended
  <2>2. Alive(j) /\ Early(task[j])
    BY <2>1 DEF Alive, Ended, Early, EarlyPc, t
  <2>3. CASE Set(j, [task[j] EXCEPT !.pc = "drive", !.res = "open"])
    <3> DEFINE u == [t EXCEPT !.pc = "drive", !.res = "open"]
    <3>1. t \in TaskRecord
      BY <1>0 DEF GoodTask
    <3>2. u \in TaskRecord /\ u.pc = "drive"
      BY <3>1 DEF TaskRecord
    <3> HIDE DEF u
    <3>3. u \in GoodTask
      BY <3>2 DEF GoodTask
    <3> QED BY <1>0, <2>1, <2>2, <2>3, <3>3, LocalStep DEF t, u
  <2>4. CASE Set(j, [task[j] EXCEPT !.pc = "commit", !.out = "failed"])
    <3>1. [t EXCEPT !.pc = "commit", !.out = "failed"] \in GoodTask
      BY <1>0, <2>1, MoveGood DEF Outcome, Terminal
    <3> QED BY <1>0, <2>1, <2>2, <2>4, <3>1, LocalStep DEF t
  <2>5. CASE Set(j, OnCancelled(Taken(j)))
    <3>1. Taken(j) \in GoodTask /\ Taken(j).pc = "prepare"
      BY <1>0, <2>1, TakenGood DEF t
    <3>2. OnCancelled(Taken(j)) \in GoodTask
      BY <3>1, CancelledGood DEF Ended
    <3> QED BY <1>0, <2>1, <2>2, <2>5, <3>2, LocalStep
  <2> QED BY <1>3, <2>3, <2>4, <2>5 DEF Prepare
<1>4. CASE DriveEnds(j) \/ DriveInterrupted(j)
  <2>1. t.pc = "drive" /\ Alive(j) /\ Early(task[j])
    BY <1>4 DEF DriveEnds, DriveInterrupted, At, HitAt, t, Alive, Ended, Early, EarlyPc
  <2>2. ASSUME NEW o \in Outcome \cup {"fenced", "interrupted"}, NEW c \in BOOLEAN
        PROVE  /\ [t EXCEPT !.pc = "close", !.out = o] \in GoodTask
               /\ [t EXCEPT !.cancel = c, !.pc = "close", !.out = o] \in GoodTask
    <3> DEFINE u == [t EXCEPT !.pc = "close", !.out = o]
               v == [t EXCEPT !.cancel = c, !.pc = "close", !.out = o]
    <3>0. t \in TaskRecord /\ o \in Outcome \cup {"none", "fenced", "interrupted"} /\ o # "none"
      BY <1>0 DEF GoodTask, Outcome, Terminal
    <3>1. u \in TaskRecord /\ u.pc = "close" /\ u.out # "none"
      BY <3>0 DEF TaskRecord
    <3>2. v \in TaskRecord /\ v.pc = "close" /\ v.out # "none"
      BY <3>0 DEF TaskRecord
    <3> HIDE DEF u, v
    <3>3. u \in GoodTask /\ v \in GoodTask
      BY <3>1, <3>2 DEF GoodTask
    <3> QED BY <3>3 DEF u, v
  <2>3. CASE DriveInterrupted(j)
    <3> DEFINE o == IF ShuttingDown \/ task[j].lost THEN "interrupted" ELSE "canceled"
               u == [t EXCEPT !.cancel = FALSE, !.pc = "close", !.out = o]
    <3>1. Set(j, u) /\ UNCHANGED vars
      BY <2>3 DEF DriveInterrupted, Taken, t
    <3>2. o \in Outcome \cup {"fenced", "interrupted"}
      BY DEF Outcome, Terminal
    <3> HIDE DEF o
    <3>3. u \in GoodTask
      BY <2>2, <3>2
    <3> HIDE DEF u
    <3> QED BY <1>0, <2>1, <3>1, <3>3, LocalStep
  <2>4. CASE DriveEnds(j)
    <3>1. PICK o \in Outcome \cup {"fenced"} :
            /\ Set(j, [task[j] EXCEPT !.pc = "close", !.out = o])
            /\ UNCHANGED vars \/ \E S \in SUBSET (Ask \cup Tool) : OpenWait(j, proc, S)
      BY <2>4 DEF DriveEnds, Outcome, Terminal
    <3>2. Quiet({})
      BY <3>1 DEF Quiet, WorkerInv
    <3>3. [t EXCEPT !.pc = "close", !.out = o] \in GoodTask
      BY <2>2
    <3> QED BY <1>0, <2>1, <3>1, <3>2, <3>3, TaskStep DEF t
  <2> QED BY <1>4, <2>3, <2>4
<1> QED BY <1>1, <1>2, <1>3, <1>4

\* Closing the resources, or being stopped while they are closed.
LEMMA CloseStep == ASSUME WorkerInv, NEW j \in Job, Close(j) PROVE Kept
<1> DEFINE t == task[j]
           q == [Taken(j) EXCEPT !.unproven = TRUE, !.res = "stuck", !.pc = "quarantine"]
<1>1. /\ t \in GoodTask /\ UNCHANGED <<proc, current>> /\ UNCHANGED vars
      /\ t.pc = "close" /\ (Set(j, Closed(t)) \/ Set(j, q))
  BY DEF WorkerInv, Close, process, At, HitAt
<1>2. Alive(j) /\ Early(task[j])
  BY <1>1 DEF Alive, Ended, Early, EarlyPc
<1>3. Closed(t) \in GoodTask
  BY <1>1, ClosedGood
<1>4. q \in GoodTask
  <2>1. Taken(j) \in TaskRecord
    BY <1>1, TakenGood DEF GoodTask
  <2>2. q \in TaskRecord /\ q.unproven /\ q.pc = "quarantine"
    BY <2>1 DEF TaskRecord
  <2> HIDE DEF q
  <2> QED BY <2>2 DEF GoodTask
<1> HIDE DEF q
<1> QED BY <1>1, <1>2, <1>3, <1>4, LocalStep

\* What a task becomes after a write of which it only has to be remembered that the
\* attempt is over, or that its settlement begins.
LEMMA SettleStep ==
    ASSUME WorkerInv, NEW j \in Job, NEW u \in GoodTask, Set(j, u), NEW K, Quiet(K), K \subseteq {j},
           UNCHANGED <<proc, current>>, Alive(j),
           u.pc \in {"final", "ensure", "commit", "notify", "resume", "confirm"},
           u.res = task[j].res, K = {} \/ task[j].pc \in {"commit", "confirm"}
    PROVE  Kept
<1>1. task[j] \in GoodTask
  BY DEF WorkerInv
<1>2. Early(u) => u.res \in Holding
  BY DEF Early, EarlyPc
<1>3. task[j].pc \in {"commit", "confirm"} => task[j].res \notin Holding
  BY <1>1 DEF GoodTask
<1>4. Early(u) => Early(task[j]) /\ K = {}
  BY <1>2, <1>3 DEF Early
<1> QED BY <1>4, TaskStep

\* A cancellation that hits a task at a write, which may have been committed.
LEMMA HitStep ==
    ASSUME WorkerInv, NEW j \in Job, Set(j, OnCancelled(Taken(j))), NEW K, Quiet(K), K \subseteq {j},
           UNCHANGED <<proc, current>>,
           task[j].pc \in {"quarantine", "commit", "notify", "resume", "ensure", "confirm"},
           K = {} \/ task[j].pc \in {"commit", "confirm"}
    PROVE  Kept
<1>1. task[j] \in GoodTask /\ Alive(j)
  BY DEF WorkerInv, Alive, Ended
<1>2. Taken(j) \in GoodTask /\ Taken(j).pc = task[j].pc /\ Taken(j).res = task[j].res
  BY <1>1, TakenGood
<1>3. /\ OnCancelled(Taken(j)) \in GoodTask
      /\ OnCancelled(Taken(j)).pc \in {"final", "ensure", "commit"}
      /\ OnCancelled(Taken(j)).res = task[j].res
  BY <1>2, CancelledGood DEF Ended
<1> QED BY <1>1, <1>3, SettleStep

\* The writes that settle an attempt.
LEMMA SettleSteps ==
    ASSUME WorkerInv, NEW j \in Job, QuarantineSelf(j) \/ Commit(j) \/ Confirm(j) \/ Ensure(j)
    PROVE  Kept
<1> DEFINE t == task[j]
           lost == [t EXCEPT !.lost = TRUE]
<1>0. t \in GoodTask /\ UNCHANGED <<proc, current>> /\ proc \in Worker
  BY DEF WorkerInv, QuarantineSelf, Commit, Confirm, Ensure, process
<1>1. t.pc \in {"quarantine", "commit", "confirm", "ensure"} /\ Alive(j)
  BY DEF QuarantineSelf, Commit, Confirm, Ensure, At, HitAt, Alive, Ended
<1>2. t.pc # "quarantine" => t.res \notin Holding
  BY <1>0, <1>1 DEF GoodTask
<1>3. ASSUME NEW u \in GoodTask
      PROVE  Finally(u) \in GoodTask /\ Finally(u).pc = "final" /\ Finally(u).res = u.res
  BY RestGood DEF Finally
<1>4. lost \in GoodTask /\ lost.res = t.res
  <2>1. t \in TaskRecord
    BY <1>0 DEF GoodTask
  <2>2. /\ lost \in TaskRecord /\ lost.pc = t.pc /\ lost.res = t.res /\ lost.out = t.out
        /\ lost.cycle = t.cycle /\ lost.unproven = t.unproven
    BY <2>1 DEF TaskRecord
  <2> HIDE DEF lost
  <2> QED BY <1>0, <2>2 DEF GoodTask
<1>5. ASSUME NEW pc \in {"notify", "confirm"}, t.pc # "quarantine"
      PROVE  Goto(t, pc) \in GoodTask /\ Goto(t, pc).pc = pc /\ Goto(t, pc).res = t.res
  <2>1. Goto(t, pc) \in GoodTask
    BY <1>0, <1>2, <1>5, MoveGood DEF Goto
  <2>2. t \in TaskRecord
    BY <1>0 DEF GoodTask
  <2> QED BY <2>1, <2>2 DEF Goto, TaskRecord
<1> HIDE DEF lost
<1>7. CASE QuarantineSelf(j)
  <2>1. Quiet({}) /\ t.pc = "quarantine"
    BY <1>0, <1>7 DEF QuarantineSelf, Quiet, At, HitAt
  <2>2. Set(j, Finally(t)) \/ Set(j, Finally(lost)) \/ Set(j, OnCancelled(Taken(j)))
    BY <1>7 DEF QuarantineSelf, lost
  <2> QED BY <1>0, <1>1, <1>3, <1>4, <2>1, <2>2, SettleStep, HitStep
<1>8. CASE Ensure(j)
  <2>1. Quiet({}) /\ t.pc = "ensure"
    BY <1>0, <1>8 DEF Ensure, Quiet, At, HitAt
  <2>2. Set(j, Goto(t, "confirm")) \/ Set(j, Finally(t)) \/ Set(j, OnCancelled(Taken(j)))
    BY <1>8 DEF Ensure
  <2> QED BY <1>0, <1>1, <1>3, <1>5, <2>1, <2>2, SettleStep, HitStep
<1>9. CASE Confirm(j)
  <2>1. Quiet({j}) /\ t.pc = "confirm"
    BY <1>0, <1>9 DEF Confirm, Quiet, At, HitAt
  <2>2. Set(j, Finally(t)) \/ Set(j, OnCancelled(Taken(j)))
    BY <1>9 DEF Confirm
  <2> QED BY <1>0, <1>1, <1>3, <2>1, <2>2, SettleStep, HitStep
<1>10. CASE Commit(j)
  <2>1. t.pc = "commit" /\ t.out \in Outcome
    BY <1>0, <1>10 DEF Commit, At, HitAt, GoodTask
  <2>2. Quiet({j})
    BY <1>0, <1>10, <2>1 DEF Commit, Quiet
  <2>3. \/ Set(j, Goto(t, "notify")) \/ Set(j, Finally(t))
        \/ Set(j, OnFenced(t)) \/ Set(j, OnCancelled(Taken(j)))
    BY <1>10 DEF Commit
  <2>4. /\ OnFenced(t) \in GoodTask /\ OnFenced(t).pc \in {"final", "ensure"}
        /\ OnFenced(t).res = t.res
    BY <1>0, <2>1, FencedGood
  <2> QED BY <1>0, <1>1, <1>3, <1>5, <2>1, <2>2, <2>3, <2>4, SettleStep, HitStep
<1> QED BY <1>7, <1>8, <1>9, <1>10

\* The resume that an attempt gives its own run.
LEMMA ResumeSteps ==
    ASSUME WorkerInv, NEW j \in Job, Notify(j) \/ AutoResume(j)
    PROVE  Kept
<1> DEFINE t == task[j]
           r == RunOf(j)
<1>0. t \in GoodTask /\ UNCHANGED <<proc, current>>
  BY DEF WorkerInv, Notify, AutoResume, process
<1>1. t.pc \in {"notify", "resume"} /\ Alive(j) /\ t.pc # "none"
  BY DEF Notify, AutoResume, At, HitAt, Alive, Ended
<1>2. t.res \notin Holding /\ r \in Run
  BY <1>0, <1>1, TaskRun DEF GoodTask
<1>3. Finally(t) \in GoodTask /\ Finally(t).pc = "final" /\ Finally(t).res = t.res
  BY <1>0, RestGood DEF Finally
<1>4. CASE Notify(j)
  <2> DEFINE c == Newest(r)
             u == [t EXCEPT !.pc = "resume", !.cycle = c]
  <2>1. CASE BeginResume(r, c) /\ Set(j, u)
    <3>1. c \in 1..MaxCycles
      BY <1>2, <2>1, NewestBounded
    <3>2. Quiet({})
      BY <1>2, <2>1, <3>1 DEF Quiet, RunStep
    <3>3. u \in GoodTask
      BY <1>0, <1>2, <3>1, MoveGood
    <3>4. u.pc = "resume" /\ u.res = t.res
      BY <1>0 DEF GoodTask, TaskRecord
    <3> HIDE DEF u
    <3> QED BY <1>0, <1>1, <2>1, <3>2, <3>3, <3>4, SettleStep
  <2>2. CASE UNCHANGED vars /\ (Set(j, Finally(t)) \/ Set(j, OnCancelled(Taken(j))))
    <3>1. Quiet({})
      BY <2>2 DEF Quiet
    <3> QED BY <1>0, <1>1, <1>3, <2>2, <3>1, SettleStep, HitStep
  <2> QED BY <1>4, <2>1, <2>2 DEF Notify
<1>5. CASE AutoResume(j)
  <2>1. t.pc = "resume" /\ t.cycle \in 1..MaxCycles
    BY <1>0, <1>5 DEF AutoResume, At, HitAt, GoodTask
  <2>2. Quiet({})
    BY <1>2, <1>5, <2>1 DEF AutoResume, Quiet, RunStep
  <2>3. Set(j, Finally(t)) \/ Set(j, OnCancelled(Taken(j)))
    BY <1>5 DEF AutoResume
  <2> QED BY <1>0, <1>1, <1>3, <2>2, <2>3, SettleStep, HitStep
<1> QED BY <1>4, <1>5

\* A finishing attempt removes only its own registration.
LEMMA FinalStep == ASSUME WorkerInv, NEW j \in Job, Final(j) PROVE Kept
<1> DEFINE t == task[j]
           u == Blank("gone", t.res)
<1>0. t \in GoodTask /\ t.pc = "final" /\ Alive(j) /\ UNCHANGED vars /\ proc' = proc
  BY DEF WorkerInv, Final, At, HitAt, process, Alive, Ended
<1>1. RunOf(j) \in Run /\ t \in TaskRecord
  BY <1>0, TaskRun DEF GoodTask
<1>2. CASE Set(j, Rest(t, "leaked")) /\ current' = current
  <2>1. Rest(t, "leaked") \in GoodTask /\ Rest(t, "leaked").pc = "leaked" /\ Rest(t, "leaked").res = t.res
    BY <1>0, RestGood
  <2>2. Early(Rest(t, "leaked")) => Early(t)
    BY <2>1 DEF Early, EarlyPc
  <2> QED BY <1>0, <1>2, <2>1, <2>2, LocalStep
<1>3. CASE Release(j)
  <2>0. t.res \in {"none", "open", "closed", "stuck"}
    BY <1>1 DEF TaskRecord
  <2>1. u \in GoodTask /\ u.pc = "gone" /\ u.res = t.res
    BY <2>0, BlankGood
  <2>2. Set(j, u) /\ current' = [current EXCEPT ![RunOf(j)] = IF @ = j THEN 0 ELSE @]
    BY <1>3 DEF Release, Blank
  <2> HIDE DEF u
  <2>4. task' \in [Job -> GoodTask] /\ \A k \in Job : task'[k] = IF k = j THEN u ELSE task[k]
    BY <2>1, <2>2 DEF WorkerInv, Set
  <2>5. /\ current' \in [Run -> Job \cup {0}]
        /\ \A r \in Run, k \in Job : k # j /\ current[r] = k => current'[r] = k
    BY <1>1, <2>2 DEF WorkerInv
  <2>6. ASSUME NEW k \in Job
        PROVE  /\ task'[k].pc # "none" => task[k].pc # "none"
               /\ Early(task'[k]) => Early(task[k])
               /\ task'[k].pc \notin Ended => /\ task[k].pc \notin Ended
                                              /\ current[RunOf(k)] = k => current'[RunOf(k)] = k
    <3>1. CASE k = j
      BY <1>0, <2>1, <2>4, <3>1 DEF Early, EarlyPc, Ended
    <3>2. CASE k # j
      <4>1. task'[k].pc \notin Ended => RunOf(k) \in Run
        BY <2>4, <3>2, TaskRun DEF Ended
      <4> QED BY <2>4, <2>5, <3>2, <4>1
    <3> QED BY <3>1, <3>2
  <2>7. Quiet({})
    BY <1>0 DEF Quiet
  <2> QED BY <1>0, <2>4, <2>5, <2>6, <2>7, Preserve DEF WorkerInv
<1> QED BY <1>2, <1>3 DEF Final

\* What only marks a task for cancellation or moves its heartbeat.
LEMMA MarkSteps ==
    ASSUME WorkerInv,
           \/ \E j \in Job : Heartbeat(j)
           \/ \E r \in Run : DeliverCancel(r) \/ ChangeConnection(r)
    PROVE  Kept
<1>0. task \in [Job -> GoodTask] /\ UNCHANGED <<proc, current>>
  BY DEF WorkerInv, Heartbeat, Beat, BeatCheck, BeatCancel, DeliverCancel, ChangeConnection, process
<1>1. ASSUME NEW j \in Job, NEW u, Set(j, u), Quiet({}),
             \/ \E b \in {"off", "renew", "check", "cancel", "lose"} :
                  \/ u = [task[j] EXCEPT !.beat = b]
                  \/ \E l \in BOOLEAN : u = [task[j] EXCEPT !.beat = b, !.cancel = TRUE, !.lost = l]
             \/ u = [task[j] EXCEPT !.cancel = TRUE]
      PROVE  Kept
  <2>0. task[j] \in GoodTask
    BY <1>0
  <2>1. u \in GoodTask
    BY <1>1, <2>0, MarkGood
  <2>2. task[j] \in TaskRecord
    BY <2>0 DEF GoodTask
  <2>3. u.pc = task[j].pc /\ u.res = task[j].res
    BY <1>1, <2>2 DEF TaskRecord
  <2>4. Early(u) => Early(task[j])
    BY <2>3 DEF Early
  <2> QED BY <1>0, <1>1, <2>1, <2>3, <2>4, TaskStep
<1>2. ASSUME NEW j \in Job, Heartbeat(j) PROVE Kept
  <2>1. Quiet({})
    BY <1>2 DEF WorkerInv, Heartbeat, Beat, BeatCheck, BeatCancel, Quiet
  <2>2. CASE Beat(j)
    <3>1. \E b \in {"cancel", "renew", "check"} : Set(j, [task[j] EXCEPT !.beat = b])
      BY <2>2 DEF Beat
    <3> QED BY <1>1, <2>1, <3>1
  <2>3. CASE BeatCheck(j)
    <3>1. \E b \in {"off", "lose"} : Set(j, [task[j] EXCEPT !.beat = b])
      BY <2>3 DEF BeatCheck
    <3> QED BY <1>1, <2>1, <3>1
  <2>4. CASE BeatCancel(j)
    <3> DEFINE l == task[j].lost \/ task[j].beat = "lose"
    <3>1. task[j] \in TaskRecord
      BY <1>0 DEF GoodTask
    <3>2. l \in BOOLEAN /\ Set(j, [task[j] EXCEPT !.beat = "off", !.cancel = TRUE, !.lost = l])
      BY <2>4, <3>1 DEF BeatCancel, TaskRecord
    <3> HIDE DEF l
    <3> QED BY <1>1, <2>1, <3>2
  <2> QED BY <1>2, <2>2, <2>3, <2>4 DEF Heartbeat
<1>3. ASSUME NEW r \in Run, DeliverCancel(r) \/ ChangeConnection(r) PROVE Kept
  <2>1. UNCHANGED vars
    BY <1>3 DEF DeliverCancel, ChangeConnection
  <2>2. \/ UNCHANGED task
        \/ current[r] # 0 /\ Set(current[r], [task[current[r]] EXCEPT !.cancel = TRUE])
    BY <1>3 DEF DeliverCancel, ChangeConnection
  <2>3. Quiet({})
    BY <2>1 DEF Quiet
  <2>4. current[r] # 0 => current[r] \in Job
    BY DEF WorkerInv
  <2> QED BY <1>0, <1>1, <2>2, <2>3, <2>4, StoreStep
<1> QED BY <1>2, <1>3

\* What happens to all tasks at once.
LEMMA ProcessSteps == ASSUME WorkerInv, CancelAll \/ Restart PROVE Kept
<1>0. task \in [Job -> GoodTask] /\ UNCHANGED vars
  BY DEF WorkerInv, CancelAll, Restart
<1>1. Quiet({})
  BY <1>0 DEF Quiet
<1>2. CASE CancelAll
  <2>1. ASSUME NEW k \in Job
        PROVE task'[k] \in GoodTask /\ task'[k].pc = task[k].pc /\ task'[k].res = task[k].res
    <3>1. task'[k] \in {task[k], [task[k] EXCEPT !.cancel = TRUE]}
      BY <1>2 DEF CancelAll
    <3>2. [task[k] EXCEPT !.cancel = TRUE] \in GoodTask /\ task[k] \in TaskRecord
      BY <1>0, MarkGood DEF GoodTask
    <3> QED BY <1>0, <3>1, <3>2 DEF TaskRecord
  <2>2. task' \in [Job -> GoodTask]
    BY <1>2, <2>1 DEF CancelAll
  <2>3. UNCHANGED <<proc, current>>
    BY <1>2 DEF CancelAll
  <2>4. \A k \in Job : Early(task'[k]) => Early(task[k])
    BY <2>1 DEF Early
  <2> QED BY <1>1, <2>1, <2>2, <2>3, <2>4, Preserve DEF WorkerInv
<1>3. CASE Restart
  <2>1. ASSUME NEW k \in Job
        PROVE /\ task'[k] \in GoodTask /\ task'[k].res = task[k].res
              /\ task'[k].pc \in Ended /\ (task'[k].pc # "none" => task[k].pc # "none")
    <3>1. CASE Alive(k) \/ task[k].pc = "leaked"
      <4>1. task'[k] = Rest(task[k], "dead")
        BY <1>3, <3>1 DEF Restart
      <4> QED BY <1>0, <3>1, <4>1, RestGood DEF Alive, Ended
    <3>2. CASE ~(Alive(k) \/ task[k].pc = "leaked")
      <4>1. task'[k] = task[k]
        BY <1>3, <3>2 DEF Restart
      <4> QED BY <1>0, <3>2, <4>1 DEF Alive
    <3> QED BY <3>1, <3>2
  <2>2. task' \in [Job -> GoodTask]
    BY <1>3, <2>1 DEF Restart
  <2>3. proc' \in Worker /\ current' \in [Run -> Job \cup {0}]
    BY <1>3 DEF Restart
  <2>4. \A k \in Job : Early(task'[k]) => Early(task[k])
    BY <2>1 DEF Early, EarlyPc, Ended
  <2> QED BY <1>1, <2>1, <2>2, <2>3, <2>4, Preserve
<1> QED BY <1>2, <1>3

\* What is served, recovered or passes without any task.
LEMMA ServiceSteps ==
    ASSUME WorkerInv,
           \/ StartUp
           \/ \E j \in Job : Clock(j)
           \/ \E r \in Run : \/ Serve(r) \/ ServeResume(r) \/ Recover(r)
                             \/ AcceptCancel(r) \/ CallCancel(r)
    PROVE  Kept
<1>0. UNCHANGED <<proc, task, current>>
  BY DEF StartUp, Clock, Serve, ServeResume, Recover, AcceptCancel, CallCancel, process, memory
<1>1. ASSUME NEW r \in Run, Recover(r) PROVE Quiet({})
  <2>1. CASE BeginResume(r, Newest(r))
    BY <2>1, NewestBounded DEF Quiet, RunStep
  <2> QED BY <1>1, <2>1 DEF Recover, Quiet, RunStep
<1>2. ASSUME NEW r \in Run, Serve(r) \/ ServeResume(r) \/ AcceptCancel(r) \/ CallCancel(r)
      PROVE  Quiet({})
  BY <1>2 DEF Serve, ServeResume, AcceptCancel, CallCancel, Quiet, RunStep
<1>3. CASE StartUp
  <2>1. UNCHANGED vars
    BY <1>3 DEF StartUp
  <2> QED BY <1>0, <2>1, StoreStep DEF Quiet
<1>4. ASSUME NEW j \in Job, Clock(j) PROVE Quiet({})
  BY <1>4 DEF Clock, Quiet
<1> QED BY <1>0, <1>1, <1>2, <1>3, <1>4, StoreStep

\* The process starts with no task and no row.
LEMMA WorkerStart == ASSUME WorkerInit PROVE WorkerInv
<1>1. TypeOK /\ AttemptInv
  BY InitType, InitAttempt DEF WorkerInit
<1>2. NoTask \in GoodTask /\ NoTask.pc = "none" /\ NoTask.res = "none"
  BY DEF NoTask, GoodTask, TaskRecord, Ended, Holding
<1>3. \A r \in Run : Len(ask[r]) = 0
  BY DEF WorkerInit, Init
<1>4. CyclesBounded
  BY <1>3, BoundAssumption DEF CyclesBounded
<1>5. \A j \in Job : task[j] = NoTask
  BY DEF WorkerInit
<1> QED BY <1>1, <1>2, <1>4, <1>5
        DEF WorkerInit, WorkerInv, Early, EarlyPc, Holding, HolderIsRegistered, Alive, Ended

\* Every step of the process keeps the invariant.
LEMMA WorkerStep == WorkerInv /\ [WorkerNext]_workerVars => Kept
<1> SUFFICES ASSUME WorkerInv, [WorkerNext]_workerVars PROVE Kept
  OBVIOUS
<1>1. CASE UNCHANGED workerVars
  BY <1>1, StoreStep DEF workerVars, process, memory, Quiet
<1>2. CASE WorkerNext
  BY <1>2, DispatchStep, StopStep, DriveSteps, CloseStep, SettleSteps, ResumeSteps, FinalStep,
     MarkSteps, ProcessSteps, ServiceSteps DEF WorkerNext, Proceed
<1> QED BY <1>1, <1>2

\* The inductive invariant of the process holds in every reachable state.
THEOREM WorkerInvariant == WorkerSafe => []WorkerInv
<1>1. WorkerInit => WorkerInv
  BY WorkerStart
<1>2. WorkerInv /\ [WorkerNext]_workerVars => WorkerInv'
  BY WorkerStep DEF Kept
<1> QED BY <1>1, <1>2, PTL DEF WorkerSafe

-----------------------------------------------------------------------------
(* What follows from it.                                                   *)

\* Whatever the process does, between any two awaits, is a transaction of the store
\* or leaves the tables alone: every property proved of the store's transactions,
\* called in any order by any number of workers, holds of the process.
THEOREM WorkerCallsStore == WorkerSafe => Spec
<1>1. WorkerInit => Init
  BY DEF WorkerInit
<1>2. WorkerInv /\ [WorkerNext]_workerVars => [Next]_vars
  BY WorkerStep DEF Kept
<1> QED BY <1>1, <1>2, WorkerInvariant, PTL DEF WorkerSafe, Spec

\* So what AttemptInvariant says of the store holds of the process: no interleaving of
\* its tasks, requests, crashes and restarts gives a run two jobs to execute.
THEOREM WorkerAttemptIsUnique == WorkerSafe => []OneActiveJob
BY WorkerCallsStore, AttemptIsUnique, PTL

\* The attempt that holds a run's lease is always the one that cancel_run and stop()
\* find in _tasks.
THEOREM HolderStaysRegistered == WorkerSafe => []HolderIsRegistered
BY WorkerInvariant, PTL DEF WorkerInv

\* No run ends or waits while resources of an attempt of it are open, or after their
\* cleanup failed: whatever interrupts the attempt, its job stays leased.
THEOREM CleanupComesFirst == WorkerSafe => []CleanupBeforeEnd
<1>1. WorkerInv => CleanupBeforeEnd
  <2> SUFFICES ASSUME WorkerInv, NEW j \in Job, task[j].res \in {"open", "stuck"}
               PROVE  status[RunOf(j)] \in {"running", "cleanup_required"}
    BY DEF CleanupBeforeEnd
  <2>1. job[j].st = "leased"
    BY DEF WorkerInv, Early, Holding
  <2> QED BY <2>1 DEF WorkerInv, AttemptInv, JobMatchesStatus, RunOf
<1> QED BY <1>1, WorkerInvariant, PTL

-----------------------------------------------------------------------------
(* Slots and cancellations.                                                *)

\* A task that ended without its inner finally still holds its slot.
SlotFree == {"none", "gone", "dead"}
SlotTakers == {j \in Job : task[j].pc \notin SlotFree}
PermitInv == free \in Nat /\ free + Cardinality(SlotTakers) = Slots

\* The cancellation of the run was requested, or the attempt can write no result.
Wanted(j) == RunOf(j) \in asked \/ ~Owns(j)

\* What may cancel a task, and what its outcome may say of it.
Reasoned(j, t) ==
    /\ t.cancel => Wanted(j) \/ ShuttingDown \/ t.lost
    /\ t.out = "interrupted" => ShuttingDown \/ t.lost
    /\ t.out = "canceled" \/ t.beat = "cancel" => Wanted(j)

CancelInv ==
    /\ CanceledWasAsked
    /\ calling \subseteq asked
    /\ \A r \in Run : status[r] # "none" => Parent[r] = NoRun
    /\ \A r \in Run : current[r] # 0 => RunOf(current[r]) = r /\ task[current[r]].pc # "none"
    /\ \A j \in Job : job[j].cancel => RunOf(j) \in asked
    /\ \A j \in Job : Alive(j) => Reasoned(j, task[j])

\* The types that WorkerInv does not speak of.
ShapeInv ==
    /\ spent \subseteq Worker
    /\ stage \in {"boot", "up", "stopping", "draining"} /\ recovering \subseteq Run
    /\ context \in [Run -> Job \cup {0}]
    /\ accepted \subseteq Run /\ calling \subseteq Run /\ asked \subseteq Run

ProcessInv == WorkerInv /\ ShapeInv /\ PermitInv /\ CancelInv

\* The slots do not change when no task takes or gives one.
LEMMA SlotsStay ==
    ASSUME PermitInv, free' = free,
           \A j \in Job : task'[j].pc \in SlotFree <=> task[j].pc \in SlotFree
    PROVE  PermitInv'
<1>1. SlotTakers' = SlotTakers
  BY DEF SlotTakers
<1> QED BY <1>1 DEF PermitInv

\* Only jobs take slots, and there are finitely many.
LEMMA TakersFinite == IsFiniteSet(SlotTakers)
<1>1. IsFiniteSet(Job)
  BY FS_Interval, BoundAssumption
<1>2. SlotTakers \subseteq Job
  BY DEF SlotTakers
<1> QED BY <1>1, <1>2, FS_Subset

\* A new task takes one.
LEMMA SlotTaken ==
    ASSUME PermitInv, NEW j \in Job, free > 0, free' = free - 1,
           task[j].pc \in SlotFree, task'[j].pc \notin SlotFree,
           \A k \in Job : k # j => task'[k] = task[k]
    PROVE  PermitInv'
<1>1. SlotTakers' = SlotTakers \cup {j} /\ j \notin SlotTakers
  BY DEF SlotTakers
<1>2. Cardinality(SlotTakers') = Cardinality(SlotTakers) + 1
  BY <1>1, TakersFinite, FS_AddElement
<1>3. Cardinality(SlotTakers) \in Nat
  BY TakersFinite, FS_CardinalityType
<1>4. Cardinality(SlotTakers)' = Cardinality(SlotTakers')
  OBVIOUS
<1> QED BY <1>2, <1>3, <1>4, SlotsAssumption DEF PermitInv

\* A task that ends gives one back.
LEMMA SlotGiven ==
    ASSUME PermitInv, NEW j \in Job, free' = free + 1,
           task[j].pc \notin SlotFree, task'[j].pc \in SlotFree,
           \A k \in Job : k # j => task'[k] = task[k]
    PROVE  PermitInv'
<1>1. SlotTakers' = SlotTakers \ {j} /\ j \in SlotTakers
  BY DEF SlotTakers
<1>2. Cardinality(SlotTakers') = Cardinality(SlotTakers) - 1
  BY <1>1, TakersFinite, FS_RemoveElement
<1>3. Cardinality(SlotTakers) \in Nat
  BY TakersFinite, FS_CardinalityType
<1>4. Cardinality(SlotTakers)' = Cardinality(SlotTakers')
  OBVIOUS
<1> QED BY <1>2, <1>3, <1>4, SlotsAssumption DEF PermitInv

\* A process that starts has all of them.
LEMMA SlotsFresh ==
    ASSUME free' = Slots, \A j \in Job : task'[j].pc \in SlotFree
    PROVE  PermitInv'
<1>1. SlotTakers' = {}
  BY DEF SlotTakers
<1>2. Cardinality(SlotTakers)' = 0
  BY <1>1, FS_EmptySet
<1> QED BY <1>2, SlotsAssumption DEF PermitInv

-----------------------------------------------------------------------------
(* What cancels a run.                                                     *)

\* Transactions that cancel nobody who was not asked for, and admit no child.
Unforced ==
    /\ \A r \in Run : status'[r] = "canceled" => status[r] = "canceled" \/ r \in asked
    /\ \A r \in Run : status'[r] # "none" => status[r] # "none" \/ Parent[r] = NoRun
    /\ \A j \in Job : job'[j].cancel => job[j].cancel

\* A claim cancels only runs that depend on others, which the process admits none of.
LEMMA ClaimUnforced ==
    ASSUME ProcessInv, NEW w \in Worker, Claim(w)
    PROVE  Unforced
<1>0. TypeOK /\ AttemptInv
  BY DEF ProcessInv, WorkerInv
<1>1. Blocked = {}
  <2> SUFFICES ASSUME NEW r \in Blocked PROVE FALSE
    OBVIOUS
  <2>1. PICK j \in Job : job[j].run = r /\ job[j].st = "pending"
    BY <1>0, SweepFacts DEF Blocked
  <2>2. r \in Run /\ status[r] # "none"
    BY <1>0, <2>1 DEF Blocked, AttemptInv, JobMatchesStatus, Terminal
  <2>3. Deps[r] = {}
    BY <2>2, TopologyAssumption DEF ProcessInv, CancelInv
  <2> QED BY <2>3 DEF Blocked
<1>2. \A j \in Job : UnblockedJob[j] = SweptJob[j]
  BY <1>1 DEF UnblockedJob
<1>3. ASSUME NEW j \in Job PROVE SweptJob[j].cancel = job[j].cancel
  <2>0. job[j] \in JobRecord
    BY <1>0 DEF TypeOK
  <2>1. SweptJob[j] = IF j \in Lost THEN [job[j] EXCEPT !.quar = TRUE]
                      ELSE IF j \in Overdue
                           THEN [job[j] EXCEPT !.st = JobStatusFor(status[job[j].run]), !.owner = NoWorker]
                           ELSE job[j]
    BY DEF SweptJob
  <2> QED BY <2>0, <2>1 DEF JobRecord
<1>4. ASSUME NEW j \in Job PROVE job'[j].cancel = job[j].cancel
  <2>1. UnblockedJob \in [Job -> JobRecord] /\ UnblockedJob[j].cancel = job[j].cancel
    BY <1>0, <1>2, <1>3, SweepType
  <2>2. CASE job' = UnblockedJob
    BY <2>1, <2>2
  <2>3. ASSUME NEW k \in Job,
               job' = [UnblockedJob EXCEPT ![k].st = "leased", ![k].owner = w,
                                           ![k].gen = @ + 1, ![k].lease = LeaseTicks]
        PROVE  job'[j].cancel = job[j].cancel
    <3>1. UnblockedJob[j] \in JobRecord
      BY <2>1
    <3>2. CASE j = k
      <4>1. job'[j].cancel = UnblockedJob[j].cancel
        BY <2>1, <2>3, <3>1, <3>2 DEF JobRecord
      <4> QED BY <2>1, <4>1
    <3>3. CASE j # k
      BY <2>1, <2>3, <3>3
    <3> QED BY <3>2, <3>3
  <2> QED BY <2>2, <2>3 DEF Claim
<1>5. ASSUME NEW r \in Run PROVE UnblockedStatus[r] \in {status[r], "cleanup_required"}
  BY <1>0, <1>1, SweepFacts
<1>6. ASSUME NEW r \in Run PROVE status'[r] \in {UnblockedStatus[r], "running"}
  BY <1>0, SweepType DEF Claim
<1>7. ASSUME NEW r \in Run, status[r] = "none", Parent[r] # NoRun PROVE status'[r] = "none"
  <2>1. StatusMove(r)
    BY <1>0, ClaimStatus
  <2>2. status'[r] = "none" \/ status'[r] = "queued"
    BY <1>0, <1>7, <2>1 DEF StatusMove, Untouched, Executes, Tells, Admits, Terminal, TypeOK
  <2> QED BY <1>5, <1>6, <1>7, <2>2
<1> QED BY <1>4, <1>5, <1>6, <1>7 DEF Unforced

\* The other transactions the process calls, but for a cancel.
LEMMA StoreUnforced ==
    ASSUME ProcessInv,
           \/ UNCHANGED vars
           \/ \E j \in Job : \/ Tick(j) \/ Renew(j, proc)
                             \/ \E S \in SUBSET (Ask \cup Tool) : OpenWait(j, proc, S)
                             \/ \E o : /\ CommitResult(j, proc, o)
                                       /\ o = "canceled" => RunOf(j) \in asked
                             \/ Quarantine(j, proc) \/ EnsureLostQuarantined(j, proc)
                             \/ ConfirmCleanup(j, proc)
           \/ \E r \in Run : AcceptRun(r) \/ OrphanFail(r)
           \/ \E r, c : \/ ReplayDecision(r, c) \/ BeginResume(r, c)
                        \/ EnqueueResume(r, c) \/ AbandonResume(r, c)
                        \/ \E x : Decide(r, c, x) \/ DecideByRoute(r, c, x)
    PROVE  Unforced
<1>0. TypeOK /\ job \in [Job -> JobRecord]
  BY DEF ProcessInv, WorkerInv, TypeOK
<1> DEFINE Rowed == \A j \in Job : job'[j].cancel => job[j].cancel
<1>1. ASSUME UNCHANGED status, Rowed PROVE Unforced
  BY <1>1 DEF Unforced
<1>2. ASSUME NEW r, NEW kind, NEW c, NEW late, Insert(r, kind, c, late) PROVE Rowed
  <2>1. job' = [job EXCEPT ![nJobs + 1] = FreshJob(r, kind, c, late)]
    BY <1>2 DEF Insert
  <2>2. \A j \in Job : job'[j] = job[j] \/ job'[j] = FreshJob(r, kind, c, late)
    BY <1>0, <2>1
  <2> QED BY <2>2 DEF FreshJob
<1>3. ASSUME UNCHANGED job PROVE Rowed
  BY <1>3
<1>4. ASSUME NEW i \in Job, NEW x, job' = [job EXCEPT ![i] = x], x.cancel = job[i].cancel PROVE Rowed
  <2>1. \A j \in Job : job'[j] = IF j = i THEN x ELSE job[j]
    BY <1>0, <1>4
  <2> QED BY <1>4, <2>1
<1>5. ASSUME NEW i \in Job, NEW l, job' = [job EXCEPT ![i].lease = l] PROVE Rowed
  <2>1. job' = [job EXCEPT ![i] = [job[i] EXCEPT !.lease = l]]
    BY <1>0, <1>5
  <2>2. [job[i] EXCEPT !.lease = l].cancel = job[i].cancel
    BY <1>0 DEF JobRecord
  <2> QED BY <1>4, <2>1, <2>2
<1>6. ASSUME NEW i \in Job, job' = [job EXCEPT ![i].asked = TRUE] PROVE Rowed
  <2>1. job' = [job EXCEPT ![i] = [job[i] EXCEPT !.asked = TRUE]]
    BY <1>0, <1>6
  <2>2. [job[i] EXCEPT !.asked = TRUE].cancel = job[i].cancel
    BY <1>0 DEF JobRecord
  <2> QED BY <1>4, <2>1, <2>2
<1>7. ASSUME NEW i \in Job, job' = [job EXCEPT ![i].quar = TRUE, ![i].lease = 0] PROVE Rowed
  <2>1. job' = [job EXCEPT ![i] = [job[i] EXCEPT !.quar = TRUE, !.lease = 0]]
    BY <1>0, <1>7
  <2>2. [job[i] EXCEPT !.quar = TRUE, !.lease = 0].cancel = job[i].cancel
    BY <1>0 DEF JobRecord
  <2> QED BY <1>4, <2>1, <2>2
<1>8. ASSUME NEW i \in Job, NEW s, job' = [job EXCEPT ![i].st = s, ![i].lease = 0] PROVE Rowed
  <2>1. job' = [job EXCEPT ![i] = [job[i] EXCEPT !.st = s, !.lease = 0]]
    BY <1>0, <1>8
  <2>2. [job[i] EXCEPT !.st = s, !.lease = 0].cancel = job[i].cancel
    BY <1>0 DEF JobRecord
  <2> QED BY <1>4, <2>1, <2>2
<1> HIDE DEF Rowed
<1>9. ASSUME NEW j \in Job,
             \/ Tick(j) \/ Renew(j, proc)
             \/ \E S \in SUBSET (Ask \cup Tool) : OpenWait(j, proc, S)
      PROVE  Unforced
  <2>1. UNCHANGED status
    BY <1>9 DEF Tick, Renew, OpenWait
  <2>2. \/ \E l : job' = [job EXCEPT ![j].lease = l]
        \/ job' = [job EXCEPT ![j].asked = TRUE]
    BY <1>9 DEF Tick, Renew, OpenWait
  <2> QED BY <1>1, <1>5, <1>6, <2>1, <2>2
<1>10. ASSUME NEW j \in Job, job[j].st = "leased"
       PROVE  RunOf(j) \in Run /\ status[RunOf(j)] # "none"
  BY <1>0, <1>10, RowRun DEF RunOf, ProcessInv, WorkerInv, AttemptInv, JobMatchesStatus
<1>11. ASSUME NEW j \in Job, NEW o, CommitResult(j, proc, o), o = "canceled" => RunOf(j) \in asked
       PROVE  Unforced
  <2>1. Rowed
    BY <1>8, <1>11 DEF CommitResult
  <2>2. SettledOutcome(RunOf(j), o) = "canceled" => o = "canceled"
    BY DEF SettledOutcome
  <2>3. RunOf(j) \in Run /\ status[RunOf(j)] # "none"
    BY <1>10, <1>11 DEF CommitResult, Fenced
  <2>4. status' = [status EXCEPT ![RunOf(j)] = SettledOutcome(RunOf(j), o)]
    BY <1>11 DEF CommitResult, RunOf
  <2>5. \A r \in Run : status'[r] = IF r = RunOf(j) THEN SettledOutcome(RunOf(j), o) ELSE status[r]
    BY <1>0, <2>4 DEF TypeOK
  <2> QED BY <1>11, <2>1, <2>2, <2>3, <2>5 DEF Unforced, Rowed
<1>12. ASSUME NEW j \in Job, \/ Quarantine(j, proc) \/ EnsureLostQuarantined(j, proc)
                             \/ ConfirmCleanup(j, proc)
       PROVE  Unforced
  <2>1. \/ job' = [job EXCEPT ![j].quar = TRUE, ![j].lease = 0]
        \/ job' = [job EXCEPT ![j].st = "dead", ![j].lease = 0]
    BY <1>12 DEF Quarantine, EnsureLostQuarantined, QuarantineJob, ConfirmCleanup
  <2>2. RunOf(j) \in Run /\ status[RunOf(j)] # "none"
    BY <1>10, <1>12 DEF Quarantine, EnsureLostQuarantined, ConfirmCleanup, Fenced
  <2>3. \/ \E s \in {"cleanup_required", "failed"} : status' = [status EXCEPT ![RunOf(j)] = s]
        \/ status' = status
    BY <1>12 DEF Quarantine, EnsureLostQuarantined, QuarantineJob, ConfirmCleanup, RunOf
  <2>4. \A r \in Run : \/ status'[r] = status[r]
                       \/ r = RunOf(j) /\ status'[r] \in {"cleanup_required", "failed"}
    BY <1>0, <2>3 DEF TypeOK
  <2>5. Rowed
    BY <1>7, <1>8, <2>1
  <2> QED BY <2>2, <2>4, <2>5 DEF Unforced, Rowed
<1>13. ASSUME NEW r \in Run, AcceptRun(r) \/ OrphanFail(r) PROVE Unforced
  <2>1. Rowed
    BY <1>2, <1>3, <1>13 DEF AcceptRun, OrphanFail
  <2>2. \/ Parent[r] = NoRun /\ status' = [status EXCEPT ![r] = "queued"]
        \/ status[r] # "none" /\ status' = [status EXCEPT ![r] = "failed"]
    BY <1>13 DEF AcceptRun, OrphanFail
  <2>3. \A q \in Run : \/ status'[q] = status[q]
                       \/ status'[q] \in {"queued", "failed"} /\ (status[q] # "none" \/ Parent[q] = NoRun)
    BY <1>0, <2>2 DEF TypeOK
  <2> QED BY <2>1, <2>3 DEF Unforced, Rowed
<1>14. ASSUME NEW r, NEW c,
              \/ ReplayDecision(r, c) \/ BeginResume(r, c) \/ EnqueueResume(r, c) \/ AbandonResume(r, c)
              \/ \E x : Decide(r, c, x) \/ DecideByRoute(r, c, x)
       PROVE  Unforced
  <2>1. UNCHANGED status
    BY <1>14 DEF ReplayDecision, BeginResume, EnqueueResume, AbandonResume, Decide, DecideByRoute, tables
  <2>2. UNCHANGED job \/ \E kind, q, late : Insert(r, kind, q, late)
    BY <1>14 DEF ReplayDecision, BeginResume, EnqueueResume, AbandonResume, Decide, DecideByRoute, tables,
                 ResumeIfResolved
  <2> QED BY <1>1, <1>2, <1>3, <2>1, <2>2
<1>15. CASE UNCHANGED vars
  BY <1>1, <1>3, <1>15 DEF vars
<1> QED BY <1>9, <1>11, <1>12, <1>13, <1>14, <1>15


\* The actions of the process that are not cancels.
LEMMA StepUnforced ==
    ASSUME ProcessInv, [WorkerNext]_workerVars,
           \A r \in Run : ~AcceptCancel(r) /\ ~CallCancel(r)
    PROVE  Unforced
<1> DEFINE Store ==
           \/ UNCHANGED vars
           \/ \E j \in Job : \/ Tick(j) \/ Renew(j, proc)
                             \/ \E S \in SUBSET (Ask \cup Tool) : OpenWait(j, proc, S)
                             \/ \E o : /\ CommitResult(j, proc, o)
                                       /\ o = "canceled" => RunOf(j) \in asked
                             \/ Quarantine(j, proc) \/ EnsureLostQuarantined(j, proc)
                             \/ ConfirmCleanup(j, proc)
           \/ \E r \in Run : AcceptRun(r) \/ OrphanFail(r)
           \/ \E r, c : \/ ReplayDecision(r, c) \/ BeginResume(r, c)
                        \/ EnqueueResume(r, c) \/ AbandonResume(r, c)
                        \/ \E x : Decide(r, c, x) \/ DecideByRoute(r, c, x)
<1>0. proc \in Worker
  BY DEF ProcessInv, WorkerInv
<1>1. CASE Dispatch \/ Stop
  <2>1. Claim(proc) \/ UNCHANGED vars
    BY <1>1 DEF Dispatch, Stop
  <2> QED BY <1>0, <2>1, ClaimUnforced, StoreUnforced
<1>2. CASE CancelAll \/ StartUp \/ Restart
  BY <1>2, StoreUnforced DEF CancelAll, StartUp, Restart
<1>3. ASSUME NEW j \in Job, Proceed(j) PROVE Store
  <2>1. CASE Commit(j)
    <3>1. CASE UNCHANGED vars
      BY <3>1
    <3>2. CASE CommitResult(j, proc, task[j].out)
      <4>1. task[j].pc = "commit"
        BY <2>1 DEF Commit, At, HitAt
      <4>2. Reasoned(j, task[j])
        BY <4>1 DEF ProcessInv, CancelInv, Alive, Ended
      <4>3. Owns(j)
        BY <3>2 DEF CommitResult, Fenced, Owns
      <4>4. task[j].out = "canceled" => RunOf(j) \in asked
        BY <4>2, <4>3 DEF Reasoned, Wanted
      <4> QED BY <3>2, <4>4
    <3> QED BY <2>1, <3>1, <3>2 DEF Commit
  <2>2. CASE QuarantineSelf(j) \/ Ensure(j) \/ Confirm(j)
    BY <2>2 DEF QuarantineSelf, Ensure, Confirm
  <2>3. CASE Notify(j) \/ AutoResume(j)
    BY <2>3 DEF Notify, AutoResume
  <2>4. CASE \/ Begin(j) \/ NeverBegins(j) \/ Prepare(j) \/ DriveInterrupted(j) \/ Close(j)
             \/ Final(j)
    BY <2>4 DEF Begin, NeverBegins, Prepare, DriveInterrupted, Close, Final
  <2> QED BY <1>3, <2>1, <2>2, <2>3, <2>4 DEF Proceed
<1>4. ASSUME NEW j \in Job, DriveEnds(j) \/ Heartbeat(j) \/ Clock(j) PROVE Store
  BY <1>4 DEF DriveEnds, Heartbeat, Beat, BeatCheck, BeatCancel, Clock
<1>5. ASSUME NEW r \in Run, Serve(r) \/ ServeResume(r) \/ Recover(r) PROVE Store
  BY <1>5 DEF Serve, ServeResume, Recover
<1>6. ASSUME NEW r \in Run, DeliverCancel(r) \/ ChangeConnection(r) PROVE Store
  BY <1>6 DEF DeliverCancel, ChangeConnection
<1>7. CASE UNCHANGED workerVars
  BY <1>7, StoreUnforced DEF workerVars
<1>8. Store => Unforced
  BY StoreUnforced
<1> HIDE DEF Store
<1>9. CASE WorkerNext
  BY <1>1, <1>2, <1>3, <1>4, <1>5, <1>6, <1>8, <1>9 DEF WorkerNext
<1> QED BY <1>7, <1>9

\* What is asked for stays asked for.
LEMMA AskedGrows == ASSUME [WorkerNext]_workerVars PROVE asked \subseteq asked'
BY DEF WorkerNext, workerVars, requests, Dispatch, Stop, CancelAll, StartUp, Restart, Proceed, Begin,
       NeverBegins, Prepare, DriveEnds, DriveInterrupted, Close, QuarantineSelf, Commit, Notify,
       AutoResume, Ensure, Confirm, Final, Heartbeat, Beat, BeatCheck, BeatCancel, Clock, Serve,
       ServeResume, Recover, AcceptCancel, CallCancel, DeliverCancel, ChangeConnection

\* What a cancel of the tree cancels is what it was asked to.
LEMMA CancelsAsked ==
    ASSUME ProcessInv, NEW r \in Run, RequestCancel(r), asked' = asked \cup {r} \cup Children(r)
    PROVE  /\ \A q \in Run : status'[q] = "canceled" => status[q] = "canceled" \/ q \in asked'
           /\ \A q \in Run : status'[q] # "none" => status[q] # "none"
           /\ \A j \in Job : job'[j].cancel => job[j].cancel \/ job[j].run \in asked'
<1> DEFINE tree == {r} \cup Children(r)
<1>1. CancelNow(tree) \subseteq tree
  BY DEF CancelNow
<1>2. \A q \in CancelNow(tree) : status[q] # "none"
  <2> SUFFICES ASSUME NEW q \in CancelNow(tree) PROVE status[q] # "none"
    OBVIOUS
  <2> QED BY <1>1 DEF RequestCancel, Children
<1>3. \A j \in Job : job'[j] = job[j] \/ job[j].run \in tree
  BY <1>1 DEF RequestCancel, CancelTree
<1>4. \A q \in Run : status'[q] = IF q \in CancelNow(tree) THEN "canceled" ELSE status[q]
  BY DEF RequestCancel, CancelTree
<1>5. tree \subseteq asked'
  OBVIOUS
<1> HIDE DEF tree
<1> QED BY <1>1, <1>2, <1>3, <1>4, <1>5

\* So the store's tables never say more than what was asked for.
LEMMA StepStoreAsked ==
    ASSUME ProcessInv, [WorkerNext]_workerVars
    PROVE  /\ CanceledWasAsked'
           /\ \A r \in Run : status'[r] # "none" => Parent[r] = NoRun
           /\ \A j \in Job : job'[j].cancel => job'[j].run \in asked'
<1>0. TypeOK /\ AttemptInv /\ [Next]_vars /\ asked \subseteq asked'
  BY AskedGrows, WorkerStep DEF ProcessInv, WorkerInv, Kept
<1>1. /\ \A r \in Run : status'[r] = "canceled" => status[r] = "canceled" \/ r \in asked'
      /\ \A r \in Run : status'[r] # "none" => status[r] # "none" \/ Parent[r] = NoRun
      /\ \A j \in Job : job'[j].cancel => job[j].cancel \/ job[j].run \in asked'
  <2>1. CASE \A r \in Run : ~AcceptCancel(r) /\ ~CallCancel(r)
    BY <1>0, <2>1, StepUnforced DEF Unforced
  <2>2. ASSUME NEW r \in Run, AcceptCancel(r) \/ CallCancel(r)
        PROVE  /\ \A q \in Run : status'[q] = "canceled" => status[q] = "canceled" \/ q \in asked'
               /\ \A q \in Run : status'[q] # "none" => status[q] # "none" \/ Parent[q] = NoRun
               /\ \A j \in Job : job'[j].cancel => job[j].cancel \/ job[j].run \in asked'
    BY <2>2, CancelsAsked DEF AcceptCancel, CallCancel
  <2> QED BY <2>1, <2>2
<1>2. CanceledWasAsked'
  BY <1>0, <1>1 DEF CanceledWasAsked, ProcessInv, CancelInv
<1>3. ASSUME NEW j \in Job, job'[j].cancel PROVE job'[j].run \in asked'
  <2>1. job[j].run \in asked'
    BY <1>0, <1>1, <1>3 DEF ProcessInv, CancelInv, RunOf
  <2>2. asked' \subseteq Run
    <3>1. asked' \subseteq asked \cup Run \/ asked' = asked
      BY DEF WorkerNext, workerVars, requests, Dispatch, Stop, CancelAll, StartUp, Restart, Proceed, Begin,
       NeverBegins, Prepare, DriveEnds, DriveInterrupted, Close, QuarantineSelf, Commit, Notify,
       AutoResume, Ensure, Confirm, Final, Heartbeat, Beat, BeatCheck, BeatCancel, Clock, Serve,
       ServeResume, Recover, AcceptCancel, CallCancel, DeliverCancel, ChangeConnection, Children
    <3> QED BY <3>1 DEF ProcessInv, ShapeInv
  <2>3. job[j].st # "free"
    BY <1>0, <2>1, <2>2, NullAssumption DEF TypeOK
  <2> QED BY <1>0, <2>1, <2>3, RowMoves DEF RowKept, RowAdded
<1> QED BY <1>1, <1>2, <1>3 DEF ProcessInv, CancelInv


-----------------------------------------------------------------------------
(* Every mark on a task has its reason.                                    *)

\* A step of a task that keeps its slot, or has none, and leaves it with a reason for
\* every mark if it is still alive.
Moves(j, u) ==
    /\ Set(j, u)
    /\ u.pc \in SlotFree <=> task[j].pc \in SlotFree
    /\ u.pc = "none" <=> task[j].pc = "none"
    /\ u.pc \notin Ended => Alive(j) /\ Reasoned(j, u)

\* What keeps the reasons.
LEMMA ReasonedMove ==
    ASSUME NEW j, NEW t, NEW u, Reasoned(j, t),
           u.cancel => t.cancel, t.lost => u.lost,
           u.out \in {t.out, "none", "failed", "completed", "waiting", "fenced"},
           u.beat \in {t.beat, "off", "renew", "check", "lose"}
    PROVE  Reasoned(j, u)
BY DEF Reasoned

\* Where a cancellation leads, when it had a reason.
LEMMA CancelledReasoned ==
    ASSUME NEW j \in Job, task[j] \in TaskRecord, Reasoned(j, task[j]), task[j].cancel
    PROVE  Reasoned(j, OnCancelled(Taken(j)))
<1> DEFINE t == Taken(j)
<1>1. /\ t \in TaskRecord /\ t.cancel = FALSE /\ t.lost = task[j].lost
      /\ t.out = task[j].out /\ t.beat = task[j].beat
  BY DEF Taken, TaskRecord
<1> HIDE DEF t
<1>2. CASE OnCancelled(t) = Finally(t)
  <2>1. /\ Finally(t).cancel = FALSE /\ Finally(t).out = "none" /\ Finally(t).beat = "off"
    BY DEF Finally, Rest, NoTask
  <2> QED BY <1>2, <2>1 DEF Reasoned, t
<1>3. CASE OnCancelled(t) = [t EXCEPT !.frame = "cancel", !.pc = "ensure"]
  <2> DEFINE u == [t EXCEPT !.frame = "cancel", !.pc = "ensure"]
  <2>1. u.cancel = t.cancel /\ u.lost = t.lost /\ u.out = t.out /\ u.beat = t.beat
    BY <1>1 DEF TaskRecord
  <2> HIDE DEF u
  <2>2. Reasoned(j, u)
    BY <1>1, <2>1, ReasonedMove
  <2> QED BY <1>3, <2>2 DEF u, t
<1>4. CASE ~t.lost /\ OnCancelled(t) = [t EXCEPT !.frame = "cancel", !.pc = "commit", !.out = InterruptedOutcome]
  <2> DEFINE u == [t EXCEPT !.frame = "cancel", !.pc = "commit", !.out = InterruptedOutcome]
  <2>1. u.cancel = t.cancel /\ u.lost = t.lost /\ u.out = InterruptedOutcome /\ u.beat = t.beat
    BY <1>1 DEF TaskRecord
  <2>2. Wanted(j) \/ ShuttingDown
    BY <1>1, <1>4 DEF Reasoned
  <2>3. InterruptedOutcome = "failed" \/ (InterruptedOutcome = "canceled" /\ Wanted(j))
    BY <2>2 DEF InterruptedOutcome
  <2> HIDE DEF u
  <2>4. Reasoned(j, u)
    BY <1>1, <2>1, <2>3 DEF Reasoned
  <2> QED BY <1>4, <2>4 DEF u, t
<1> QED BY <1>2, <1>3, <1>4 DEF OnCancelled, t

\* Where the end of the cleanup leads.
LEMMA ClosedReasoned ==
    ASSUME NEW j \in Job, task[j] \in TaskRecord, Reasoned(j, task[j])
    PROVE  Reasoned(j, Closed(task[j]))
<1> DEFINE t == task[j]
           c == [t EXCEPT !.res = "closed"]
           e == [c EXCEPT !.pc = "ensure"]
           i == [c EXCEPT !.pc = "commit", !.out = InterruptedOutcome]
           m == [c EXCEPT !.pc = "commit"]
<1>1. c \in TaskRecord /\ c.cancel = t.cancel /\ c.lost = t.lost /\ c.out = t.out /\ c.beat = t.beat
  BY DEF TaskRecord
<1> HIDE DEF c
<1>2. e.cancel = t.cancel /\ e.lost = t.lost /\ e.out = t.out /\ e.beat = t.beat
  BY <1>1 DEF TaskRecord
<1>3. m.cancel = t.cancel /\ m.lost = t.lost /\ m.out = t.out /\ m.beat = t.beat
  BY <1>1 DEF TaskRecord
<1>4. i.cancel = t.cancel /\ i.lost = t.lost /\ i.out = InterruptedOutcome /\ i.beat = t.beat
  BY <1>1 DEF TaskRecord
<1>5. Closed(t) \in {e, m} \/ (t.out = "interrupted" /\ ~t.lost /\ Closed(t) = i)
  BY DEF Closed, Goto, c
<1> HIDE DEF e, i, m
<1>6. Reasoned(j, e) /\ Reasoned(j, m)
  BY <1>2, <1>3, ReasonedMove
<1>7. t.out = "interrupted" /\ ~t.lost => Reasoned(j, i)
  <2>1. t.out = "interrupted" /\ ~t.lost => InterruptedOutcome = "failed"
    BY DEF Reasoned, InterruptedOutcome
  <2> QED BY <1>4, <2>1 DEF Reasoned
<1> QED BY <1>5, <1>6, <1>7

\* An attempt that only has to end.
LEMMA RestMoves ==
    ASSUME NEW j \in Job, Alive(j), NEW t, NEW pc \in {"final", "leaked"}, Set(j, Rest(t, pc))
    PROVE  Moves(j, Rest(t, pc))
<1>1. /\ Rest(t, pc).cancel = FALSE /\ Rest(t, pc).out = "none" /\ Rest(t, pc).beat = "off"
      /\ Rest(t, pc).pc = pc
  BY DEF Rest, NoTask
<1>2. task[j].pc \notin SlotFree /\ pc \notin SlotFree /\ task[j].pc # "none" /\ pc # "none"
  BY DEF Alive, Ended, SlotFree
<1> QED BY <1>1, <1>2 DEF Moves, Reasoned, Ended

\* An attempt that goes on.
LEMMA GoesOn ==
    ASSUME NEW j \in Job, Alive(j), NEW u, Set(j, u), u.pc \notin Ended, Reasoned(j, u)
    PROVE  Moves(j, u)
BY DEF Moves, Alive, Ended, SlotFree

\* A cancellation that is delivered outside the graph and its cleanup.
LEMMA HitMoves ==
    ASSUME ProcessInv, NEW j \in Job, Alive(j), task[j].cancel, Set(j, OnCancelled(Taken(j))),
           task[j].pc \notin {"drive", "close", "final"}
    PROVE  Moves(j, OnCancelled(Taken(j)))
<1>1. task[j] \in GoodTask /\ task[j] \in TaskRecord /\ Reasoned(j, task[j])
  BY DEF ProcessInv, WorkerInv, CancelInv, GoodTask
<1>2. Taken(j) \in GoodTask /\ Taken(j).pc = task[j].pc
  BY <1>1, TakenGood
<1>3. OnCancelled(Taken(j)).pc \in {"final", "ensure", "commit"}
  BY <1>2, CancelledGood DEF Alive
<1>4. Reasoned(j, OnCancelled(Taken(j)))
  BY <1>1, CancelledReasoned
<1> QED BY <1>3, <1>4, GoesOn DEF Ended

\* The step of one task, but for the release of its slot.
LEMMA TaskMoves ==
    ASSUME ProcessInv, NEW j \in Job,
           \/ Proceed(j) /\ ~(At(j, "final") /\ Release(j))
           \/ DriveEnds(j) \/ Heartbeat(j)
    PROVE  \E u : Moves(j, u)
<1> DEFINE t == task[j]
<1>0. /\ t \in GoodTask /\ t \in TaskRecord
      /\ Alive(j) => Reasoned(j, t)
  BY DEF ProcessInv, WorkerInv, CancelInv, GoodTask
<1>1. CASE Begin(j)
  <2> DEFINE u == [t EXCEPT !.pc = "prepare", !.beat = "renew"]
  <2>1. Alive(j) /\ Set(j, u)
    BY <1>1 DEF Begin, At, Alive, Ended
  <2>2. /\ u.pc = "prepare" /\ u.cancel = t.cancel /\ u.lost = t.lost /\ u.out = t.out
        /\ u.beat = "renew"
    BY <1>0 DEF TaskRecord
  <2> HIDE DEF u
  <2>3. Reasoned(j, u)
    BY <1>0, <2>1, <2>2, ReasonedMove
  <2> QED BY <2>1, <2>2, <2>3, GoesOn DEF Ended
<1>2. CASE NeverBegins(j)
  <2>1. Alive(j) /\ Set(j, Rest(t, "leaked"))
    BY <1>2 DEF NeverBegins, HitAt, Alive, Ended
  <2> QED BY <2>1, RestMoves
<1>3. CASE Prepare(j)
  <2>1. Alive(j) /\ t.pc = "prepare"
    BY <1>3 DEF Prepare, At, HitAt, Alive, Ended
  <2>2. CASE Set(j, [t EXCEPT !.pc = "drive", !.res = "open"])
    <3> DEFINE u == [t EXCEPT !.pc = "drive", !.res = "open"]
    <3>1. u.pc = "drive" /\ u.cancel = t.cancel /\ u.lost = t.lost /\ u.out = t.out /\ u.beat = t.beat
      BY <1>0 DEF TaskRecord
    <3> HIDE DEF u
    <3>2. Reasoned(j, u)
      BY <1>0, <2>1, <3>1, ReasonedMove
    <3> QED BY <2>1, <2>2, <3>1, <3>2, GoesOn DEF Ended, u
  <2>3. CASE Set(j, [t EXCEPT !.pc = "commit", !.out = "failed"])
    <3> DEFINE u == [t EXCEPT !.pc = "commit", !.out = "failed"]
    <3>1. u.pc = "commit" /\ u.cancel = t.cancel /\ u.lost = t.lost /\ u.out = "failed" /\ u.beat = t.beat
      BY <1>0 DEF TaskRecord
    <3> HIDE DEF u
    <3>2. Reasoned(j, u)
      BY <1>0, <2>1, <3>1, ReasonedMove
    <3> QED BY <2>1, <2>3, <3>1, <3>2, GoesOn DEF Ended, u
  <2>4. CASE HitAt(j, "prepare") /\ Set(j, OnCancelled(Taken(j)))
    BY <2>1, <2>4, HitMoves DEF HitAt
  <2> QED BY <1>3, <2>2, <2>3, <2>4 DEF Prepare
<1>4. CASE DriveEnds(j)
  <2>1. Alive(j) /\ \E o \in {"completed", "failed", "waiting", "fenced"} :
                      Set(j, [t EXCEPT !.pc = "close", !.out = o])
    BY <1>4 DEF DriveEnds, At, Alive, Ended
  <2>2. PICK o \in {"completed", "failed", "waiting", "fenced"} :
              Set(j, [t EXCEPT !.pc = "close", !.out = o])
    BY <2>1
  <2> DEFINE u == [t EXCEPT !.pc = "close", !.out = o]
  <2>3. u.pc = "close" /\ u.cancel = t.cancel /\ u.lost = t.lost /\ u.out = o /\ u.beat = t.beat
    BY <1>0 DEF TaskRecord
  <2> HIDE DEF u
  <2>4. Reasoned(j, u)
    BY <1>0, <2>1, <2>3, ReasonedMove
  <2> QED BY <2>1, <2>2, <2>3, <2>4, GoesOn DEF Ended, u
<1>5. CASE DriveInterrupted(j)
  <2> DEFINE o == IF ShuttingDown \/ t.lost THEN "interrupted" ELSE "canceled"
             u == [t EXCEPT !.cancel = FALSE, !.pc = "close", !.out = o]
  <2>1. Alive(j) /\ t.cancel /\ Set(j, [Taken(j) EXCEPT !.pc = "close", !.out = o])
    BY <1>5 DEF DriveInterrupted, HitAt, Alive, Ended
  <2>2. [Taken(j) EXCEPT !.pc = "close", !.out = o] = u
    BY DEF Taken
  <2>3. u.pc = "close" /\ u.cancel = FALSE /\ u.lost = t.lost /\ u.out = o /\ u.beat = t.beat
    BY <1>0 DEF TaskRecord
  <2>4. o = "interrupted" => ShuttingDown \/ t.lost
    OBVIOUS
  <2>5. o = "canceled" => Wanted(j)
    BY <1>0, <2>1 DEF Reasoned
  <2> HIDE DEF u, o
  <2>6. Reasoned(j, u)
    BY <1>0, <2>1, <2>3, <2>4, <2>5 DEF Reasoned
  <2> QED BY <2>1, <2>2, <2>3, <2>6, GoesOn DEF Ended
<1>6. CASE Close(j)
  <2> DEFINE q == [Taken(j) EXCEPT !.unproven = TRUE, !.res = "stuck", !.pc = "quarantine"]
  <2>1. Alive(j) /\ t.pc = "close" /\ (Set(j, Closed(t)) \/ Set(j, q))
    BY <1>6 DEF Close, At, HitAt, Alive, Ended
  <2>2. CASE Set(j, Closed(t))
    <3>1. Closed(t).pc \in {"ensure", "commit"}
      BY <1>0, <2>1, ClosedGood
    <3>2. Reasoned(j, Closed(t))
      BY <1>0, <2>1, ClosedReasoned
    <3> QED BY <2>1, <2>2, <3>1, <3>2, GoesOn DEF Ended
  <2>3. CASE Set(j, q)
    <3>1. q = [t EXCEPT !.cancel = FALSE, !.unproven = TRUE, !.res = "stuck", !.pc = "quarantine"]
      BY DEF Taken
    <3>2. /\ q.pc = "quarantine" /\ q.cancel = FALSE /\ q.lost = t.lost
          /\ q.out = t.out /\ q.beat = t.beat
      BY <1>0, <3>1 DEF TaskRecord
    <3> HIDE DEF q
    <3>3. Reasoned(j, q)
      BY <1>0, <2>1, <3>2, ReasonedMove
    <3> QED BY <2>1, <2>3, <3>2, <3>3, GoesOn DEF Ended
  <2> QED BY <2>1, <2>2, <2>3
<1>7. ASSUME NEW pc \in {"notify", "confirm"}, Alive(j), Set(j, Goto(t, pc)) PROVE \E u : Moves(j, u)
  <2> DEFINE u == Goto(t, pc)
  <2>1. u.pc = pc /\ u.cancel = t.cancel /\ u.lost = t.lost /\ u.out = t.out /\ u.beat = t.beat
    BY <1>0 DEF Goto, TaskRecord
  <2> HIDE DEF u
  <2>2. Reasoned(j, u)
    BY <1>0, <1>7, <2>1, ReasonedMove
  <2> QED BY <1>7, <2>1, <2>2, GoesOn DEF Ended, u
<1>8. ASSUME NEW x, Alive(j), Set(j, Finally(x)) PROVE \E u : Moves(j, u)
  BY <1>8, RestMoves DEF Finally
<1>9. CASE QuarantineSelf(j)
  <2>1. Alive(j) /\ t.pc = "quarantine"
    BY <1>9 DEF QuarantineSelf, At, HitAt, Alive, Ended
  <2>2. \/ \E x : Set(j, Finally(x))
        \/ t.cancel /\ Set(j, OnCancelled(Taken(j)))
    BY <1>9 DEF QuarantineSelf, HitAt
  <2> QED BY <1>8, <2>1, <2>2, HitMoves
<1>10. CASE Ensure(j) \/ Confirm(j)
  <2>1. Alive(j) /\ t.pc \in {"ensure", "confirm"}
    BY <1>10 DEF Ensure, Confirm, At, HitAt, Alive, Ended
  <2>2. \/ Set(j, Goto(t, "confirm")) \/ Set(j, Finally(t))
        \/ t.cancel /\ Set(j, OnCancelled(Taken(j)))
    BY <1>10 DEF Ensure, Confirm, HitAt
  <2> QED BY <1>7, <1>8, <2>1, <2>2, HitMoves
<1>11. CASE Notify(j) \/ AutoResume(j)
  <2>1. Alive(j) /\ t.pc \in {"notify", "resume"}
    BY <1>11 DEF Notify, AutoResume, At, HitAt, Alive, Ended
  <2>2. \/ \E c : Set(j, [t EXCEPT !.pc = "resume", !.cycle = c])
        \/ Set(j, Finally(t))
        \/ t.cancel /\ Set(j, OnCancelled(Taken(j)))
    BY <1>11 DEF Notify, AutoResume, HitAt
  <2>3. ASSUME NEW c, Set(j, [t EXCEPT !.pc = "resume", !.cycle = c]) PROVE \E u : Moves(j, u)
    <3> DEFINE u == [t EXCEPT !.pc = "resume", !.cycle = c]
    <3>1. u.pc = "resume" /\ u.cancel = t.cancel /\ u.lost = t.lost /\ u.out = t.out /\ u.beat = t.beat
      BY <1>0 DEF TaskRecord
    <3> HIDE DEF u
    <3>2. Reasoned(j, u)
      BY <1>0, <2>1, <3>1, ReasonedMove
    <3> QED BY <2>1, <2>3, <3>1, <3>2, GoesOn DEF Ended, u
  <2> QED BY <1>8, <2>1, <2>2, <2>3, HitMoves
<1>12. CASE Commit(j)
  <2>1. Alive(j) /\ t.pc = "commit"
    BY <1>12 DEF Commit, At, HitAt, Alive, Ended
  <2>2. \/ Set(j, Goto(t, "notify")) \/ Set(j, Finally(t)) \/ Set(j, OnFenced(t))
        \/ t.cancel /\ Set(j, OnCancelled(Taken(j)))
    BY <1>12 DEF Commit, HitAt
  <2>3. CASE Set(j, OnFenced(t))
    <3>1. CASE t.frame = "body"
      <4> DEFINE u == [t EXCEPT !.lost = TRUE, !.frame = "fence", !.pc = "ensure"]
      <4>1. Set(j, u)
        BY <2>3, <3>1 DEF OnFenced
      <4>2. u.pc = "ensure" /\ u.cancel = t.cancel /\ u.lost = TRUE /\ u.out = t.out /\ u.beat = t.beat
        BY <1>0 DEF TaskRecord
      <4> HIDE DEF u
      <4>3. Reasoned(j, u)
        BY <1>0, <2>1, <4>2, ReasonedMove
      <4> QED BY <2>1, <4>1, <4>2, <4>3, GoesOn DEF Ended
    <3>2. CASE t.frame # "body"
      <4>1. Set(j, Finally([t EXCEPT !.lost = TRUE]))
        BY <2>3, <3>2 DEF OnFenced
      <4> QED BY <1>8, <2>1, <4>1
    <3> QED BY <3>1, <3>2
  <2> QED BY <1>7, <1>8, <2>1, <2>2, <2>3, HitMoves
<1>13. CASE Final(j) /\ ~(At(j, "final") /\ Release(j))
  <2>1. Alive(j) /\ Set(j, Rest(t, "leaked"))
    BY <1>13 DEF Final, HitAt, Alive, Ended
  <2> QED BY <2>1, RestMoves
<1>14. CASE Heartbeat(j)
  <2>1. ASSUME NEW u, Set(j, u), u.pc = t.pc, Alive(j) => Reasoned(j, u) PROVE Moves(j, u)
    BY <2>1 DEF Moves, Alive
  <2>2. CASE Beat(j) \/ BeatCheck(j)
    <3>1. PICK b \in {"cancel", "renew", "check", "off", "lose"} :
             Set(j, [t EXCEPT !.beat = b]) /\ (b = "cancel" => job[j].cancel)
      BY <2>2 DEF Beat, BeatCheck
    <3> DEFINE u == [t EXCEPT !.beat = b]
    <3>2. u.pc = t.pc /\ u.cancel = t.cancel /\ u.lost = t.lost /\ u.out = t.out /\ u.beat = b
      BY <1>0 DEF TaskRecord
    <3>3. job[j].cancel => Wanted(j)
      BY DEF ProcessInv, CancelInv, Wanted
    <3> HIDE DEF u
    <3>4. Alive(j) => Reasoned(j, u)
      BY <1>0, <3>1, <3>2, <3>3 DEF Reasoned
    <3> QED BY <2>1, <3>1, <3>2, <3>4 DEF u
  <2>3. CASE BeatCancel(j)
    <3> DEFINE l == t.lost \/ t.beat = "lose"
               u == [t EXCEPT !.beat = "off", !.cancel = TRUE, !.lost = l]
    <3>1. Set(j, u) /\ t.beat \in {"cancel", "lose"}
      BY <2>3 DEF BeatCancel
    <3>2. u.pc = t.pc /\ u.cancel = TRUE /\ u.lost = l /\ u.out = t.out /\ u.beat = "off"
      BY <1>0 DEF TaskRecord
    <3> HIDE DEF u
    <3>4. Alive(j) => Reasoned(j, u)
      BY <1>0, <3>1, <3>2 DEF Reasoned
    <3> QED BY <2>1, <3>1, <3>2, <3>4
  <2> QED BY <1>14, <2>2, <2>3 DEF Heartbeat
<1> QED BY <1>1, <1>2, <1>3, <1>4, <1>5, <1>6, <1>9, <1>10, <1>11, <1>12, <1>13, <1>14 DEF Proceed


-----------------------------------------------------------------------------
(* The process's own invariant.                                            *)

\* A task whose cancellation is delivered from outside it.
LEMMA MarkMoves ==
    ASSUME ProcessInv, NEW j \in Job, Wanted(j), Set(j, [task[j] EXCEPT !.cancel = TRUE])
    PROVE  \E u : Moves(j, u)
<1> DEFINE t == task[j]
           u == [t EXCEPT !.cancel = TRUE]
<1>1. /\ t \in TaskRecord
      /\ Alive(j) => Reasoned(j, t)
  BY DEF ProcessInv, WorkerInv, CancelInv, GoodTask
<1>2. u.pc = t.pc /\ u.cancel = TRUE /\ u.lost = t.lost /\ u.out = t.out /\ u.beat = t.beat
  BY <1>1 DEF TaskRecord
<1> HIDE DEF u
<1>3. Alive(j) => Reasoned(j, u)
  BY <1>1, <1>2 DEF Reasoned
<1> QED BY <1>2, <1>3 DEF Moves, Alive, u

\* The steps of the process, by what they do to the tasks and the slots.
Kinds ==
    \/ UNCHANGED <<free, task, current>>
    \/ CancelAll \/ Restart
    \/ Dispatch /\ \E j \in Job : /\ job'[j].gen # job[j].gen /\ Set(j, NewTask)
                                  /\ current' = [current EXCEPT ![RunOf(j)] = j]
                                  /\ free' = free - 1
    \/ \E j \in Job : (\E u : Moves(j, u)) /\ UNCHANGED <<free, current>>
    \/ \E j \in Job : At(j, "final") /\ Release(j)

LEMMA StepKinds == ASSUME ProcessInv, [WorkerNext]_workerVars PROVE Kinds
<1>1. CASE Dispatch
  BY <1>1 DEF Dispatch, memory, Kinds
<1>2. ASSUME NEW j \in Job, Proceed(j) \/ DriveEnds(j) \/ Heartbeat(j) PROVE Kinds
  <2>1. CASE At(j, "final") /\ Release(j)
    BY <2>1 DEF Kinds
  <2>2. CASE ~(At(j, "final") /\ Release(j))
    <3>1. \E u : Moves(j, u)
      BY <1>2, <2>2, TaskMoves
    <3>2. UNCHANGED <<free, current>>
      BY <1>2, <2>2 DEF Proceed, Begin, NeverBegins, Prepare, DriveEnds, DriveInterrupted, Close,
         QuarantineSelf, Commit, Notify, AutoResume, Ensure, Confirm, Final, Heartbeat, Beat,
         BeatCheck, BeatCancel
    <3> QED BY <3>1, <3>2 DEF Kinds
  <2> QED BY <2>1, <2>2
<1>3. ASSUME NEW r \in Run, DeliverCancel(r) \/ ChangeConnection(r) PROVE Kinds
  <2>1. /\ UNCHANGED <<free, current>>
        /\ \/ UNCHANGED task
           \/ current[r] # 0 /\ Set(current[r], [task[current[r]] EXCEPT !.cancel = TRUE])
    BY <1>3 DEF DeliverCancel, ChangeConnection
  <2>2. CASE UNCHANGED task
    BY <2>1, <2>2 DEF Kinds
  <2>3. CASE current[r] # 0 /\ Set(current[r], [task[current[r]] EXCEPT !.cancel = TRUE])
    <3> DEFINE j == current[r]
    <3>1. j \in Job /\ RunOf(j) = r
      BY <2>3 DEF ProcessInv, WorkerInv, CancelInv
    <3>2. Wanted(j)
      <4>1. CASE DeliverCancel(r)
        BY <3>1, <4>1 DEF DeliverCancel, ProcessInv, CancelInv, Wanted
      <4>2. CASE ChangeConnection(r)
        BY <3>1, <4>2 DEF ChangeConnection, LiveJob, Wanted, Owns, RunOf
      <4> QED BY <1>3, <4>1, <4>2
    <3>3. \E u : Moves(j, u)
      BY <2>3, <3>1, <3>2, MarkMoves
    <3> QED BY <2>1, <3>1, <3>3 DEF Kinds
  <2> QED BY <2>1, <2>2, <2>3
<1>4. CASE \/ Stop \/ StartUp
           \/ \E j \in Job : Clock(j)
           \/ \E r \in Run : Serve(r) \/ ServeResume(r) \/ Recover(r) \/ AcceptCancel(r) \/ CallCancel(r)
  <2>1. UNCHANGED <<free, task, current>>
    BY <1>4 DEF Stop, StartUp, Clock, Serve, ServeResume, Recover, AcceptCancel, CallCancel, memory
  <2> QED BY <2>1 DEF Kinds
<1>5. CASE CancelAll \/ Restart \/ UNCHANGED workerVars
  BY <1>5 DEF Kinds, workerVars, memory
<1> QED BY <1>1, <1>2, <1>3, <1>4, <1>5 DEF WorkerNext

\* A job that is given a task had none.
LEMMA DispatchedFresh ==
    ASSUME ProcessInv, Dispatch, NEW j \in Job, job'[j].gen # job[j].gen
    PROVE  task[j].pc = "none" /\ RunOf(j) \in Run /\ job'[j].run = job[j].run /\ free > 0
<1>1. job[j].st = "pending" /\ job'[j].run = job[j].run
  BY ClaimRows DEF Dispatch, ProcessInv, WorkerInv
<1>2. RunOf(j) \in Run
  BY <1>1, RowRun DEF ProcessInv, WorkerInv, RunOf
<1> QED BY <1>1, <1>2 DEF ProcessInv, WorkerInv, Dispatch

\* The slots are counted.
LEMMA StepPermit == ASSUME ProcessInv, Kinds PROVE PermitInv'
<1>0. PermitInv /\ task \in [Job -> GoodTask] /\ current \in [Run -> Job \cup {0}]
  BY DEF ProcessInv, WorkerInv
<1>1. CASE UNCHANGED <<free, task, current>>
  BY <1>0, <1>1, SlotsStay
<1>2. CASE CancelAll
  <2>1. ASSUME NEW k \in Job PROVE task'[k].pc = task[k].pc
    <3>1. task[k] \in TaskRecord /\ task'[k] \in {task[k], [task[k] EXCEPT !.cancel = TRUE]}
      BY <1>0, <1>2 DEF CancelAll, GoodTask
    <3> QED BY <3>1 DEF TaskRecord
  <2> QED BY <1>0, <1>2, <2>1, SlotsStay DEF CancelAll
<1>3. CASE Restart
  <2>1. ASSUME NEW k \in Job PROVE task'[k].pc \in SlotFree
    <3>1. Rest(task[k], "dead").pc = "dead"
      BY DEF Rest, NoTask
    <3>2. task'[k] = IF Alive(k) \/ task[k].pc = "leaked" THEN Rest(task[k], "dead") ELSE task[k]
      BY <1>3 DEF Restart
    <3> QED BY <3>1, <3>2 DEF Alive, Ended, SlotFree
  <2> QED BY <1>3, <2>1, SlotsFresh DEF Restart
<1>4. ASSUME NEW j \in Job, Dispatch, job'[j].gen # job[j].gen, Set(j, NewTask), free' = free - 1
      PROVE  PermitInv'
  <2>1. task[j].pc \in SlotFree /\ free > 0
    BY <1>4, DispatchedFresh DEF SlotFree
  <2>2. /\ task'[j] = NewTask
        /\ \A k \in Job : k # j => task'[k] = task[k]
    BY <1>0, <1>4 DEF Set
  <2>3. NewTask.pc = "created"
    BY DEF NewTask, NoTask
  <2> QED BY <1>0, <1>4, <2>1, <2>2, <2>3, SlotTaken DEF SlotFree
<1>5. ASSUME NEW j \in Job, NEW u, Moves(j, u), UNCHANGED free PROVE PermitInv'
  <2>1. /\ task'[j] = u
        /\ \A k \in Job : k # j => task'[k] = task[k]
    BY <1>0, <1>5 DEF Moves, Set
  <2> QED BY <1>0, <1>5, <2>1, SlotsStay DEF Moves
<1>6. ASSUME NEW j \in Job, At(j, "final"), Release(j) PROVE PermitInv'
  <2> DEFINE u == [NoTask EXCEPT !.pc = "gone", !.res = task[j].res]
  <2>1. /\ task'[j] = u
        /\ \A k \in Job : k # j => task'[k] = task[k]
    BY <1>0, <1>6 DEF Release, Set
  <2>2. u.pc = "gone"
    BY DEF NoTask
  <2>3. task[j].pc = "final" /\ free' = free + 1
    BY <1>6 DEF At, Release
  <2> HIDE DEF u
  <2> QED BY <1>0, <2>1, <2>2, <2>3, SlotGiven DEF SlotFree
<1> QED BY <1>1, <1>2, <1>3, <1>4, <1>5, <1>6 DEF Kinds

\* The registers name tasks of their own runs.
LEMMA StepRegister ==
    ASSUME ProcessInv, Kinds, [Next]_vars
    PROVE  \A r \in Run : current'[r] # 0 => RunOf(current[r])' = r /\ task'[current'[r]].pc # "none"
<1>0. TypeOK /\ AttemptInv /\ task \in [Job -> GoodTask] /\ current \in [Run -> Job \cup {0}]
  BY DEF ProcessInv, WorkerInv
<1>1. ASSUME NEW j \in Job, task[j].pc # "none" PROVE job'[j].run = job[j].run
  <2>1. job[j].st # "free"
    BY <1>1 DEF ProcessInv, WorkerInv
  <2> QED BY <1>0, <2>1, RowMoves DEF RowKept, RowAdded
<1>2. ASSUME NEW r \in Run, current'[r] = current[r], current[r] # 0,
             task'[current[r]].pc = "none" => task[current[r]].pc = "none"
      PROVE  RunOf(current[r])' = r /\ task'[current'[r]].pc # "none"
  <2>1. current[r] \in Job /\ RunOf(current[r]) = r /\ task[current[r]].pc # "none"
    BY <1>0, <1>2 DEF ProcessInv, CancelInv
  <2> QED BY <1>1, <1>2, <2>1 DEF RunOf
<1>3. CASE UNCHANGED <<free, task, current>>
  BY <1>2, <1>3
<1>4. CASE CancelAll
  <2>1. ASSUME NEW k \in Job PROVE task'[k].pc = task[k].pc
    <3>1. task[k] \in TaskRecord /\ task'[k] \in {task[k], [task[k] EXCEPT !.cancel = TRUE]}
      BY <1>0, <1>4 DEF CancelAll, GoodTask
    <3> QED BY <3>1 DEF TaskRecord
  <2> QED BY <1>0, <1>2, <1>4, <2>1 DEF CancelAll
<1>5. CASE Restart
  BY <1>5 DEF Restart
<1>6. ASSUME NEW j \in Job, Dispatch, job'[j].gen # job[j].gen, Set(j, NewTask),
             current' = [current EXCEPT ![RunOf(j)] = j], NEW r \in Run, current'[r] # 0
      PROVE  RunOf(current[r])' = r /\ task'[current'[r]].pc # "none"
  <2>1. /\ task'[j] = NewTask
        /\ \A k \in Job : k # j => task'[k] = task[k]
    BY <1>0, <1>6 DEF Set
  <2>2. NewTask.pc = "created"
    BY DEF NewTask, NoTask
  <2>3. CASE r = RunOf(j)
    <3>1. current'[r] = j /\ job'[j].run = r
      BY <1>0, <1>6, <2>3, DispatchedFresh DEF RunOf
    <3> QED BY <2>1, <2>2, <3>1 DEF RunOf
  <2>4. CASE r # RunOf(j)
    <3>1. current'[r] = current[r]
      BY <1>0, <1>6, <2>4
    <3>2. task'[current[r]].pc = "none" => task[current[r]].pc = "none"
      BY <1>0, <1>6, <2>1, <2>2, <3>1
    <3> QED BY <1>2, <1>6, <3>1, <3>2
  <2> QED BY <2>3, <2>4
<1>7. ASSUME NEW j \in Job, NEW u, Moves(j, u), UNCHANGED current, NEW r \in Run, current'[r] # 0
      PROVE  RunOf(current[r])' = r /\ task'[current'[r]].pc # "none"
  <2>1. /\ task'[j] = u
        /\ \A k \in Job : k # j => task'[k] = task[k]
    BY <1>0, <1>7 DEF Moves, Set
  <2> QED BY <1>0, <1>2, <1>7, <2>1 DEF Moves
<1>8. ASSUME NEW j \in Job, At(j, "final"), Release(j), NEW r \in Run, current'[r] # 0
      PROVE  RunOf(current[r])' = r /\ task'[current'[r]].pc # "none"
  <2> DEFINE u == [NoTask EXCEPT !.pc = "gone", !.res = task[j].res]
  <2>1. /\ task'[j] = u
        /\ \A k \in Job : k # j => task'[k] = task[k]
    BY <1>0, <1>8 DEF Release, Set
  <2>2. u.pc = "gone"
    BY DEF NoTask
  <2>3. current'[r] = current[r]
    BY <1>0, <1>8 DEF Release
  <2> HIDE DEF u
  <2> QED BY <1>0, <1>2, <1>8, <2>1, <2>2, <2>3
<1> QED BY <1>3, <1>4, <1>5, <1>6, <1>7, <1>8 DEF Kinds

-----------------------------------------------------------------------------
(* The process's own invariant is kept.                                    *)

\* A process that stops does not come up again.
LEMMA StopLasts == ASSUME [WorkerNext]_workerVars, ~Restart, ShuttingDown PROVE ShuttingDown'
<1>1. CASE Stop \/ StartUp \/ CancelAll
  BY <1>1 DEF Stop, StartUp, CancelAll, ShuttingDown
<1>2. CASE ~(Stop \/ StartUp \/ CancelAll)
  <2>1. UNCHANGED stage
    BY <1>2 DEF WorkerNext, workerVars, process, Dispatch, Proceed, Begin, NeverBegins, Prepare, DriveEnds,
       DriveInterrupted, Close, QuarantineSelf, Commit, Notify, AutoResume, Ensure, Confirm, Final,
       Heartbeat, Beat, BeatCheck, BeatCancel, Clock, Serve, ServeResume, Recover, AcceptCancel,
       CallCancel, DeliverCancel, ChangeConnection
  <2> QED BY <2>1 DEF ShuttingDown
<1> QED BY <1>1, <1>2

\* A record that has its reasons in the state after the step.
Then(j, t) ==
    /\ t.cancel => Wanted(j)' \/ ShuttingDown' \/ t.lost
    /\ t.out = "interrupted" => ShuttingDown' \/ t.lost
    /\ t.out = "canceled" \/ t.beat = "cancel" => Wanted(j)'

\* A reason that is there stays there while the process lives: requests are not taken
\* back, and a lost lease is not regained.
LEMMA ReasonsStay ==
    ASSUME ProcessInv, [WorkerNext]_workerVars, ~Restart,
           NEW j \in Job, task[j].pc # "none", NEW t, Reasoned(j, t)
    PROVE  Then(j, t)
<1>1. Wanted(j) => Wanted(j)'
  <2>1. TypeOK /\ AttemptInv /\ [Next]_vars /\ asked \subseteq asked'
    BY AskedGrows, WorkerStep DEF ProcessInv, WorkerInv, Kept
  <2>2. job[j].st \notin {"free", "pending"}
    BY DEF ProcessInv, WorkerInv
  <2>3. RowKept(j)
    BY <2>1, <2>2, RowMoves DEF RowAdded
  <2> QED BY <2>1, <2>2, <2>3 DEF RowKept, Wanted, Owns, RunOf
<1>2. ShuttingDown => ShuttingDown'
  BY StopLasts
<1> QED BY <1>1, <1>2 DEF Reasoned, Then

\* Every mark on a task that lives has its reason after the step, too.
LEMMA StepReasoned ==
    ASSUME ProcessInv, [WorkerNext]_workerVars, NEW k \in Job, Alive(k)'
    PROVE  Reasoned(k, task[k])'
<1> SUFFICES Then(k, task'[k])
  BY DEF Then, Reasoned
<1>0. /\ task \in [Job -> GoodTask] /\ task[k] \in TaskRecord
      /\ Alive(k) => Reasoned(k, task[k])
      /\ task'[k].pc \notin Ended
  BY DEF ProcessInv, WorkerInv, CancelInv, GoodTask, Alive
<1>1. CASE Restart
  <2>1. Rest(task[k], "dead").pc = "dead"
    BY DEF Rest, NoTask
  <2>2. task'[k] = IF Alive(k) \/ task[k].pc = "leaked" THEN Rest(task[k], "dead") ELSE task[k]
    BY <1>1 DEF Restart
  <2> QED BY <1>0, <2>1, <2>2 DEF Alive, Ended
<1>2. ASSUME ~Restart, Alive(k), Reasoned(k, task'[k]) PROVE Then(k, task'[k])
  <2>1. task[k].pc # "none"
    BY <1>2 DEF Alive, Ended
  <2> QED BY <1>2, <2>1, ReasonsStay
<1>3. ASSUME ~Restart, task'[k] = task[k] PROVE Then(k, task'[k])
  BY <1>0, <1>2, <1>3 DEF Alive
<1>4. CASE UNCHANGED <<free, task, current>> /\ ~Restart
  BY <1>3, <1>4
<1>5. CASE CancelAll
  <2>1. task'[k] \in {task[k], [task[k] EXCEPT !.cancel = TRUE]} /\ ShuttingDown'
    BY <1>0, <1>5 DEF CancelAll, ShuttingDown
  <2>2. /\ task'[k].pc = task[k].pc /\ task'[k].lost = task[k].lost
        /\ task'[k].out = task[k].out /\ task'[k].beat = task[k].beat
    BY <1>0, <2>1 DEF TaskRecord
  <2>3. Alive(k) /\ ~Restart
    BY <1>0, <1>5, <2>2 DEF Alive, CancelAll, Restart
  <2>4. Then(k, task[k])
    BY <1>0, <2>3, ReasonsStay DEF Alive, Ended
  <2> QED BY <2>1, <2>2, <2>4 DEF Then
<1>6. ASSUME NEW j \in Job, Set(j, NewTask), ~Restart PROVE Then(k, task'[k])
  <2>1. CASE k = j
    <3>1. task'[k] = NewTask
      BY <1>0, <1>6, <2>1 DEF Set
    <3>2. NewTask.cancel = FALSE /\ NewTask.out = "none" /\ NewTask.beat = "off"
      BY DEF NewTask, NoTask
    <3> QED BY <3>1, <3>2 DEF Then
  <2>2. CASE k # j
    <3>1. task'[k] = task[k]
      BY <1>0, <1>6, <2>2 DEF Set
    <3> QED BY <1>3, <1>6, <3>1
  <2> QED BY <2>1, <2>2
<1>7. ASSUME NEW j \in Job, NEW u, Moves(j, u), ~Restart PROVE Then(k, task'[k])
  <2>1. task'[k] = IF k = j THEN u ELSE task[k]
    BY <1>0, <1>7 DEF Moves, Set
  <2>2. CASE k = j
    BY <1>0, <1>2, <1>7, <2>1, <2>2 DEF Moves
  <2>3. CASE k # j
    BY <1>3, <1>7, <2>1, <2>3
  <2> QED BY <2>2, <2>3
<1>8. ASSUME NEW j \in Job, Release(j), ~Restart PROVE Then(k, task'[k])
  <2> DEFINE u == [NoTask EXCEPT !.pc = "gone", !.res = task[j].res]
  <2>1. task'[k] = IF k = j THEN u ELSE task[k]
    BY <1>0, <1>8 DEF Release, Set
  <2>2. u.pc = "gone"
    BY DEF NoTask
  <2>3. k # j
    BY <1>0, <2>1, <2>2 DEF Ended
  <2> QED BY <1>3, <1>8, <2>1, <2>3
<1> QED BY StepKinds, <1>1, <1>4, <1>5, <1>6, <1>7, <1>8 DEF Kinds

\* A cancel_run call is in flight only for a run it was asked for.
LEMMA StepCalling == ASSUME ProcessInv, [WorkerNext]_workerVars PROVE (calling \subseteq asked)'
<1>0. calling \subseteq asked /\ asked \subseteq asked'
  BY AskedGrows DEF ProcessInv, CancelInv
<1>1. ASSUME NEW r \in Run, CallCancel(r) PROVE calling' \subseteq asked'
  <2>1. /\ calling' = calling \cup {q \in {r} \cup Children(r) : LiveJob(q, "leased") # {}}
        /\ asked' = asked \cup {r} \cup Children(r)
    BY <1>1 DEF CallCancel
  <2> QED BY <1>0, <2>1
<1>2. CASE \A r \in Run : ~CallCancel(r)
  <2>1. calling' \subseteq calling
    BY <1>2 DEF WorkerNext, workerVars, requests, Dispatch, Stop, CancelAll, StartUp, Restart, Proceed,
       Begin, NeverBegins, Prepare, DriveEnds, DriveInterrupted, Close, QuarantineSelf, Commit, Notify,
       AutoResume, Ensure, Confirm, Final, Heartbeat, Beat, BeatCheck, BeatCancel, Clock, Serve,
       ServeResume, Recover, AcceptCancel, DeliverCancel, ChangeConnection
  <2> QED BY <1>0, <2>1
<1> QED BY <1>1, <1>2

LEMMA StepCancel == ASSUME ProcessInv, [WorkerNext]_workerVars PROVE CancelInv'
<1>1. [Next]_vars
  BY WorkerStep DEF ProcessInv, Kept
<1>2. \A r \in Run : current'[r] # 0 => RunOf(current[r])' = r /\ task'[current'[r]].pc # "none"
  BY <1>1, StepKinds, StepRegister
<1> QED BY <1>2, StepStoreAsked, StepCalling, StepReasoned DEF CancelInv, RunOf

\* The rest of the process's tables keep their types.
LEMMA StepShape == ASSUME ProcessInv, [WorkerNext]_workerVars PROVE ShapeInv'
<1>0. ShapeInv
  BY DEF ProcessInv
<1>1. ASSUME UNCHANGED <<process, requests>>, context' \in [Run -> Job \cup {0}] PROVE ShapeInv'
  BY <1>0, <1>1 DEF ShapeInv, process, requests
<1>2. CASE Stop \/ CancelAll \/ StartUp \/ \E r \in Run : Recover(r)
  BY <1>0, <1>2 DEF Stop, CancelAll, StartUp, Recover, ShapeInv, memory, requests
<1>3. CASE Restart
  BY <1>0, <1>3 DEF Restart, ShapeInv
<1>4. ASSUME NEW r \in Run, AcceptCancel(r) \/ CallCancel(r) \/ DeliverCancel(r) PROVE ShapeInv'
  BY <1>0, <1>4 DEF AcceptCancel, CallCancel, DeliverCancel, ShapeInv, process, memory, Children
<1>5. ASSUME NEW j \in Job, Proceed(j) PROVE ShapeInv'
  <2>1. CASE Begin(j)
    BY <1>0, <1>1, <2>1 DEF Begin, ShapeInv
  <2>2. CASE Final(j)
    BY <1>0, <1>1, <2>2 DEF Final, Release, ShapeInv
  <2>3. CASE ~Begin(j) /\ ~Final(j)
    BY <1>0, <1>1, <1>5, <2>3 DEF Proceed, NeverBegins, Prepare, DriveInterrupted, Close, QuarantineSelf,
       Commit, Notify, AutoResume, Ensure, Confirm, ShapeInv
  <2> QED BY <2>1, <2>2, <2>3
<1>6. CASE \/ Dispatch \/ UNCHANGED workerVars
           \/ \E j \in Job : DriveEnds(j) \/ Heartbeat(j) \/ Clock(j)
           \/ \E r \in Run : Serve(r) \/ ServeResume(r) \/ ChangeConnection(r)
  BY <1>0, <1>1, <1>6 DEF Dispatch, workerVars, memory, DriveEnds, Heartbeat, Beat, BeatCheck, BeatCancel,
     Clock, Serve, ServeResume, ChangeConnection, ShapeInv
<1> QED BY <1>2, <1>3, <1>4, <1>5, <1>6 DEF WorkerNext

\* The process starts with all its slots, no task and no request.
LEMMA ProcessStart == ASSUME WorkerInit PROVE ProcessInv
<1>1. \A j \in Job : task[j] = NoTask
  BY DEF WorkerInit
<1>2. NoTask.pc = "none"
  BY DEF NoTask
<1>3. PermitInv
  <2>1. SlotTakers = {}
    BY <1>1, <1>2 DEF SlotTakers, SlotFree
  <2>2. Cardinality(SlotTakers) = 0
    BY <2>1, FS_EmptySet
  <2> QED BY <2>2, SlotsAssumption DEF PermitInv, WorkerInit
<1>4. ShapeInv
  BY DEF WorkerInit, ShapeInv
<1>5. \A r \in Run : status[r] = "none"
  BY DEF WorkerInit, Init
<1>6. \A j \in Job : job[j].cancel = FALSE
  BY DEF WorkerInit, Init, FreeJob, FreshJob
<1>7. CancelInv
  BY <1>1, <1>2, <1>5, <1>6 DEF CancelInv, CanceledWasAsked, WorkerInit, Alive, Ended
<1> QED BY <1>3, <1>4, <1>7, WorkerStart DEF ProcessInv

\* The permits, the tasks that hold them and the reasons of every cancellation keep
\* together through every interleaving of tasks, requests, crashes and restarts.
THEOREM ProcessInvariant == WorkerSafe => []ProcessInv
<1>1. WorkerInit => ProcessInv
  BY ProcessStart
<1>2. ProcessInv /\ [WorkerNext]_workerVars => ProcessInv'
  <2> SUFFICES ASSUME ProcessInv, [WorkerNext]_workerVars PROVE ProcessInv'
    OBVIOUS
  <2>1. WorkerInv'
    BY WorkerStep DEF ProcessInv, Kept
  <2>2. PermitInv'
    BY StepKinds, StepPermit
  <2> QED BY <2>1, <2>2, StepShape, StepCancel DEF ProcessInv
<1> QED BY <1>1, <1>2, PTL DEF WorkerSafe

\* The tables of the process have their types, and the dispatcher never has more
\* slots to give than max_concurrent_runs: none is given back twice.
THEOREM WorkerTypesHold == WorkerSafe => []WorkerTypeOK
<1>1. ProcessInv => WorkerTypeOK
  <2> SUFFICES ASSUME ProcessInv PROVE WorkerTypeOK
    OBVIOUS
  <2>1. Cardinality(SlotTakers) \in Nat
    BY TakersFinite, FS_CardinalityType
  <2>2. free \in 0..Slots
    BY <2>1, SlotsAssumption DEF ProcessInv, PermitInv
  <2>3. task \in [Job -> TaskRecord]
    BY DEF ProcessInv, WorkerInv, GoodTask
  <2> QED BY <2>2, <2>3 DEF ProcessInv, WorkerInv, ShapeInv, WorkerTypeOK
<1> QED BY <1>1, ProcessInvariant, PTL

\* A run ends as canceled only if its cancellation was requested: a shutdown, a lost
\* lease and a repeated cancel_run, which all cancel the task, are never taken for it.
THEOREM OnlyAskedIsCanceled == WorkerSafe => []CanceledWasAsked
BY ProcessInvariant, PTL DEF ProcessInv, CancelInv
=============================================================================
