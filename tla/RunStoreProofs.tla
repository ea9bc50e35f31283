--------------------------- MODULE RunStoreProofs ---------------------------
(***************************************************************************)
(* Theorems about RunStore, for every set of runs, workers, tools and      *)
(* waits and every value of the bounds: attempts and the life of a run      *)
(* first; then what the tables promise each other: receipts, model calls,  *)
(* the lifecycle events, the threads and the run tree.                     *)
(***************************************************************************)
EXTENDS RunStore, SequenceTheorems, FiniteSetTheorems, TLAPS

USE DEF Job

\* Insertion is the only way a row gets a run; it fills the first free one.
LEMMA InsertType ==
    ASSUME TypeOK, NEW r \in Run, NEW kind \in {"start", "resume"},
           NEW cycle \in Nat, NEW late \in BOOLEAN, Insert(r, kind, cycle, late)
    PROVE  /\ nJobs' \in 0..MaxJobs
           /\ job' \in [Job -> JobRecord]
           /\ \A j \in Job : /\ j <= nJobs' <=> job'[j].st # "free"
                             /\ j <= nJobs' <=> job'[j].run # NoRun
<1> USE BoundAssumption, LeaseAssumption, NullAssumption
<1>1. nJobs' \in 0..MaxJobs /\ nJobs + 1 \in Job
  BY DEF TypeOK, Insert
<1>2. FreshJob(r, kind, cycle, late) \in JobRecord
  BY DEF FreshJob, JobRecord
<1>3. job' \in [Job -> JobRecord]
  BY <1>1, <1>2 DEF TypeOK, Insert
<1>4. ASSUME NEW j \in Job
      PROVE  /\ j <= nJobs' <=> job'[j].st # "free"
             /\ j <= nJobs' <=> job'[j].run # NoRun
  <2>1. CASE j = nJobs + 1
    BY <1>1, <2>1 DEF TypeOK, Insert, FreshJob
  <2>2. CASE j # nJobs + 1
    BY <1>1, <2>2 DEF TypeOK, Insert
  <2> QED BY <2>1, <2>2
<1> QED BY <1>1, <1>3, <1>4

\* The empty tables of a new database are typed.
LEMMA InitType == Init => TypeOK
<1> SUFFICES ASSUME Init PROVE TypeOK
  OBVIOUS
<1> USE BoundAssumption, LeaseAssumption, NullAssumption DEF Init
<1>1. FreeJob \in JobRecord
  <2> DEFINE fresh == FreshJob(NoRun, "start", 0, FALSE)
  <2>1. fresh \in JobRecord
    BY DEF FreshJob, JobRecord
  <2> HIDE DEF fresh
  <2>2. [fresh EXCEPT !.st = "free"] \in JobRecord
    BY <2>1 DEF JobRecord
  <2> QED BY <2>2 DEF FreeJob, fresh
<1>2. FreshTool \in ToolRecord
  BY DEF FreshTool, ToolRecord
<1>3. status \in [Run -> RunStatus]
  BY DEF RunStatus
<1>4. \A j \in Job : /\ j <= nJobs <=> job[j].st # "free"
                     /\ j <= nJobs <=> job[j].run # NoRun
  BY DEF FreeJob, FreshJob
<1>5. ask \in [Run -> Seq(SUBSET (Ask \cup Tool))] /\ log \in [Run -> Seq(Published)]
  OBVIOUS
<1> QED BY <1>1, <1>2, <1>3, <1>4, <1>5 DEF TypeOK

\* The functions the transactions write keep their tables' types.
LEMMA PublishType ==
    ASSUME NEW lg \in [Run -> Seq(Published)], NEW rs, NEW s \in Published
    PROVE  Publish(lg, rs, s) \in [Run -> Seq(Published)]
<1>1. \A r \in Run : Append(lg[r], s) \in Seq(Published)
  BY AppendProperties
<1> QED BY <1>1 DEF Publish

\* Canceling the tools of a run that have not started keeps receipts typed.
LEMMA CancelUnstartedType ==
    ASSUME NEW tl \in [Tool -> ToolRecord], NEW rs
    PROVE  CancelUnstarted(tl, rs) \in [Tool -> ToolRecord]
BY DEF CancelUnstarted, ToolRecord, ToolOutcome

\* Marking what a lost attempt left running keeps both ledgers typed.
LEMMA MarkLostType ==
    ASSUME TypeOK, NEW js
    PROVE  /\ MarkLostTools(js) \in [Tool -> ToolRecord]
           /\ MarkLostCalls(js) \in [Job -> SUBSET {"active", "unknown"}]
BY DEF TypeOK, MarkLostTools, MarkLostCalls, ToolRecord, ToolOutcome

\* Closing the waits of runs keeps their cycles.
LEMMA CloseWaitsType ==
    ASSUME TypeOK, NEW rs
    PROVE  CloseWaits(rs) \in [Run -> Seq(SUBSET (Ask \cup Tool))]
<1>1. ASSUME NEW r \in Run
      PROVE  [c \in DOMAIN ask[r] |-> {}] \in Seq(SUBSET (Ask \cup Tool))
  <2>1. Len(ask[r]) \in Nat /\ DOMAIN ask[r] = 1..Len(ask[r])
    BY LenProperties DEF TypeOK
  <2> QED BY <2>1
<1> QED BY <1>1 DEF TypeOK, CloseWaits

\* A step that gives rows new columns, but no row a new run, keeps them typed.
LEMMA RowsType ==
    ASSUME TypeOK, job' \in [Job -> JobRecord], nJobs' = nJobs,
           \A j \in Job : /\ job'[j].run = job[j].run
                          /\ job'[j].st = "free" <=> job[j].st = "free"
    PROVE  /\ nJobs' \in 0..MaxJobs
           /\ \A j \in Job : /\ j <= nJobs' <=> job'[j].st # "free"
                             /\ j <= nJobs' <=> job'[j].run # NoRun
BY DEF TypeOK

\* The same, for a step that overwrites one row.
LEMMA RowType ==
    ASSUME TypeOK, NEW j \in Job, NEW x \in JobRecord,
           job' = [job EXCEPT ![j] = x], nJobs' = nJobs,
           x.run = job[j].run, x.st = "free" <=> job[j].st = "free"
    PROVE  /\ nJobs' \in 0..MaxJobs
           /\ job' \in [Job -> JobRecord]
           /\ \A k \in Job : /\ k <= nJobs' <=> job'[k].st # "free"
                             /\ k <= nJobs' <=> job'[k].run # NoRun
<1>1. job' \in [Job -> JobRecord]
  BY DEF TypeOK
<1>2. \A k \in Job : /\ job'[k].run = job[k].run
                     /\ job'[k].st = "free" <=> job[k].st = "free"
  BY DEF TypeOK
<1> QED BY <1>1, <1>2, RowsType

\* A row stays a row when columns are overwritten with values of their types.
LEMMA RowUpdate ==
    ASSUME NEW y \in JobRecord
    PROVE  /\ \A l \in 0..LeaseTicks :
                 /\ [y EXCEPT !.lease = l] \in JobRecord
                 /\ [y EXCEPT !.quar = TRUE, !.lease = l] \in JobRecord
           /\ \A s \in {"completed", "canceled", "dead"}, l \in 0..LeaseTicks :
                 [y EXCEPT !.st = s, !.lease = l] \in JobRecord
<1>1. ASSUME NEW l \in 0..LeaseTicks
      PROVE  /\ [y EXCEPT !.lease = l] \in JobRecord
             /\ [y EXCEPT !.quar = TRUE, !.lease = l] \in JobRecord
  BY DEF JobRecord
<1>2. ASSUME NEW s \in {"completed", "canceled", "dead"}, NEW l \in 0..LeaseTicks
      PROVE  [y EXCEPT !.st = s, !.lease = l] \in JobRecord
  BY DEF JobRecord
<1> QED BY <1>1, <1>2

\* The two values a lease is ever set to.
LEMMA LeaseRange == {0, LeaseTicks} \subseteq 0..LeaseTicks
BY LeaseAssumption

\* The row of a job that is in use names a run.
LEMMA RowRun ==
    ASSUME TypeOK, NEW j \in Job, job[j].st # "free"
    PROVE  job[j].run \in Run
BY DEF TypeOK, JobRecord

\* Claim sweeps, cancels and leases: each of the functions it composes is typed.
LEMMA SweepType ==
    ASSUME TypeOK
    PROVE  /\ SweptJob \in [Job -> JobRecord]
           /\ UnblockedJob \in [Job -> JobRecord]
           /\ \A j \in Job : /\ UnblockedJob[j].run = job[j].run
                             /\ UnblockedJob[j].st = "free" <=> job[j].st = "free"
           /\ UnblockedStatus \in [Run -> RunStatus]
<1>1. ASSUME NEW j \in Job
      PROVE  /\ SweptJob[j] \in JobRecord
             /\ SweptJob[j].run = job[j].run
             /\ SweptJob[j].st = "free" <=> job[j].st = "free"
  <2>0. job[j] \in JobRecord
    BY DEF TypeOK
  <2>1. CASE j \in Lost
    <3>1. SweptJob[j] = [job[j] EXCEPT !.quar = TRUE]
      BY <2>1 DEF SweptJob
    <3> QED BY <2>0, <3>1 DEF JobRecord
  <2>2. CASE j \in Overdue
    <3> DEFINE s == JobStatusFor(status[job[j].run])
    <3>1. s \in {"leased", "completed", "canceled", "dead"}
      BY DEF JobStatusFor
    <3>2. j \notin Lost /\ job[j].st # "free"
      BY <2>2 DEF Lost, Overdue, Expired
    <3>3. SweptJob[j] = [job[j] EXCEPT !.st = s, !.owner = NoWorker]
      BY <2>2, <3>2 DEF SweptJob
    <3> HIDE DEF s
    <3> QED BY <2>0, <3>1, <3>2, <3>3 DEF JobRecord
  <2>3. CASE j \notin Lost \cup Overdue
    BY <2>0, <2>3 DEF SweptJob
  <2> QED BY <2>1, <2>2, <2>3
<1>2. SweptJob \in [Job -> JobRecord]
  BY <1>1 DEF SweptJob
<1>3. ASSUME NEW j \in Job
      PROVE  /\ UnblockedJob[j] \in JobRecord
             /\ UnblockedJob[j].run = job[j].run
             /\ UnblockedJob[j].st = "free" <=> job[j].st = "free"
  <2>1. CASE SweptJob[j].st = "pending" /\ SweptJob[j].run \in Blocked
    <3>1. UnblockedJob[j] = [SweptJob[j] EXCEPT !.st = "canceled", !.cancel = TRUE]
      BY <2>1 DEF UnblockedJob
    <3> QED BY <1>1, <2>1, <3>1 DEF JobRecord
  <2>2. CASE ~(SweptJob[j].st = "pending" /\ SweptJob[j].run \in Blocked)
    BY <1>1, <2>2 DEF UnblockedJob
  <2> QED BY <2>1, <2>2
<1>4. UnblockedJob \in [Job -> JobRecord]
  BY <1>3 DEF UnblockedJob
<1>5. UnblockedStatus \in [Run -> RunStatus]
  BY DEF TypeOK, UnblockedStatus, SweptStatus, RunStatus, Published, Terminal
<1> QED BY <1>2, <1>3, <1>4, <1>5

\* So does the whole claim, with or without a job to lease.
LEMMA ClaimType ==
    ASSUME TypeOK, NEW w \in Worker, Claim(w)
    PROVE  TypeOK'
<1>1. /\ job' \in [Job -> JobRecord]
      /\ \A j \in Job : /\ job'[j].run = job[j].run
                        /\ job'[j].st = "free" <=> job[j].st = "free"
      /\ status' \in [Run -> RunStatus]
  <2>1. CASE \E j \in Job :
               /\ Oldest(j)
               /\ job' = [UnblockedJob EXCEPT ![j].st = "leased", ![j].owner = w,
                                              ![j].gen = @ + 1, ![j].lease = LeaseTicks]
               /\ status' = [UnblockedStatus EXCEPT ![UnblockedJob[j].run] = "running"]
    <3> PICK k \in Job :
               /\ Oldest(k)
               /\ job' = [UnblockedJob EXCEPT ![k].st = "leased", ![k].owner = w,
                                              ![k].gen = @ + 1, ![k].lease = LeaseTicks]
               /\ status' = [UnblockedStatus EXCEPT ![UnblockedJob[k].run] = "running"]
      BY <2>1
    <3>1. UnblockedJob[k].st = "pending" /\ UnblockedJob[k] \in JobRecord
      BY SweepType DEF Oldest, Claimable
    <3>2. UnblockedJob[k].gen + 1 \in Nat /\ LeaseTicks \in 0..LeaseTicks
      BY <3>1, LeaseAssumption DEF JobRecord
    <3>3. [UnblockedJob[k] EXCEPT !.st = "leased", !.owner = w,
                                  !.gen = @ + 1, !.lease = LeaseTicks] \in JobRecord
      BY <3>1, <3>2 DEF JobRecord
    <3>4. job' \in [Job -> JobRecord]
      BY <3>3, SweepType
    <3>5. \A j \in Job : /\ job'[j].run = job[j].run
                         /\ job'[j].st = "free" <=> job[j].st = "free"
      BY <3>1, SweepType DEF JobRecord
    <3>6. status' \in [Run -> RunStatus]
      BY SweepType DEF RunStatus
    <3> QED BY <3>4, <3>5, <3>6
  <2>2. CASE job' = UnblockedJob /\ status' = UnblockedStatus
    BY <2>2, SweepType
  <2> QED BY <2>1, <2>2 DEF Claim
<1>2. tool' \in [Tool -> ToolRecord]
  BY CancelUnstartedType, MarkLostType DEF Claim, SweptTool
<1>3. calls' \in [Job -> SUBSET {"active", "unknown"}]
  BY MarkLostType DEF Claim
<1>4. ask' \in [Run -> Seq(SUBSET (Ask \cup Tool))]
  BY CloseWaitsType DEF Claim
<1>5. log' \in [Run -> Seq(Published)]
  <2>1. SweptLog \in [Run -> Seq(Published)]
    BY PublishType DEF TypeOK, SweptLog, Published
  <2> QED BY <2>1, PublishType DEF Claim, Published, Terminal
<1>6. nJobs' = nJobs /\ resuming' = resuming
  BY DEF Claim
<1> QED BY <1>1, <1>2, <1>3, <1>4, <1>5, <1>6, RowsType DEF TypeOK

\* Admission inserts one typed row.
LEMMA AdmissionType ==
    ASSUME TypeOK, NEW r \in Run,
           AcceptRun(r) \/ \E j \in Job, w \in Worker : AcceptChild(r, j, w)
    PROVE  TypeOK'
<1>1. Insert(r, "start", 0, FALSE) /\ status' = [status EXCEPT ![r] = "queued"]
      /\ UNCHANGED <<tool, calls, ask, log, resuming>>
  BY DEF AcceptRun, AcceptChild
<1>2. status' \in [Run -> RunStatus]
  BY <1>1 DEF TypeOK, RunStatus
<1>3. /\ nJobs' \in 0..MaxJobs
      /\ job' \in [Job -> JobRecord]
      /\ \A j \in Job : /\ j <= nJobs' <=> job'[j].st # "free"
                        /\ j <= nJobs' <=> job'[j].run # NoRun
  BY <1>1, InsertType
<1> QED BY <1>1, <1>2, <1>3 DEF TypeOK

\* The steps that only overwrite columns of one row, and of the other tables.
LEMMA LeaseType ==
    ASSUME TypeOK, NEW j \in Job, Tick(j) \/ \E w \in Worker : Renew(j, w)
    PROVE  TypeOK'
<1>0. job[j] \in JobRecord
  BY DEF TypeOK
<1>1. \E l \in 0..LeaseTicks : job' = [job EXCEPT ![j].lease = l]
  <2>1. CASE Tick(j)
    <3>1. job[j].lease - 1 \in 0..LeaseTicks
      BY <1>0, <2>1, LeaseAssumption DEF Tick, JobRecord
    <3>2. job' = [job EXCEPT ![j].lease = job[j].lease - 1]
      BY <2>1 DEF Tick
    <3> QED BY <3>1, <3>2, Zenon
  <2>2. CASE \E w \in Worker : Renew(j, w)
    <3>1. job' = [job EXCEPT ![j].lease = LeaseTicks]
      BY <2>2 DEF Renew
    <3> QED BY <3>1, LeaseRange
  <2> QED BY <2>1, <2>2
<1>2. PICK l \in 0..LeaseTicks : job' = [job EXCEPT ![j].lease = l]
  BY <1>1
<1>3. UNCHANGED <<status, nJobs, tool, calls, ask, log, resuming>>
  BY DEF Tick, Renew
<1> DEFINE x == [job[j] EXCEPT !.lease = l]
<1>4. x \in JobRecord /\ x.run = job[j].run /\ x.st = job[j].st
  BY <1>0 DEF JobRecord
<1>5. job' = [job EXCEPT ![j] = x]
  BY <1>2
<1> HIDE DEF x
<1> QED BY <1>3, <1>4, <1>5, RowType DEF TypeOK

\* The committed status and the settled row keep their types.
LEMMA CommitType ==
    ASSUME TypeOK, NEW j \in Job, NEW w \in Worker, NEW o \in Outcome, CommitResult(j, w, o)
    PROVE  TypeOK'
<1> DEFINE r == job[j].run
           s == SettledOutcome(r, o)
           x == [job[j] EXCEPT !.st = JobStatusFor(s), !.lease = 0]
<1>0. job[j] \in JobRecord /\ job[j].st = "leased" /\ r \in Run
  BY RowRun DEF TypeOK, CommitResult, Fenced
<1>1. s \in Outcome
  BY DEF SettledOutcome, Outcome, Terminal
<1>2. /\ status' = [status EXCEPT ![r] = s]
      /\ log' = Publish(log, {r}, s)
      /\ job' = [job EXCEPT ![j] = x]
      /\ tool' \in {CancelUnstarted(tool, {r}), tool}
      /\ UNCHANGED <<nJobs, calls, ask, resuming>>
  BY DEF CommitResult
<1> HIDE DEF s
<1>3. x \in JobRecord /\ x.run = job[j].run /\ x.st # "free"
  <2>1. JobStatusFor(s) \in {"completed", "canceled", "dead"}
    BY DEF JobStatusFor
  <2>2. x \in JobRecord
    BY <1>0, <2>1, LeaseRange, RowUpdate
  <2> QED BY <1>0, <2>1, <2>2 DEF JobRecord
<1>4. status' \in [Run -> RunStatus] /\ log' \in [Run -> Seq(Published)]
  BY <1>1, <1>2, PublishType DEF TypeOK, Outcome, RunStatus, Published
<1>5. tool' \in [Tool -> ToolRecord]
  <2>1. tool \in [Tool -> ToolRecord]
    BY DEF TypeOK
  <2>2. CancelUnstarted(tool, {r}) \in [Tool -> ToolRecord]
    BY <2>1, CancelUnstartedType
  <2> QED BY <1>2, <2>1, <2>2
<1> HIDE DEF x
<1> QED BY <1>0, <1>2, <1>3, <1>4, <1>5, RowType DEF TypeOK

\* Failing an orphan overwrites one status.
LEMMA OrphanType ==
    ASSUME TypeOK, NEW r \in Run, OrphanFail(r)
    PROVE  TypeOK'
BY PublishType, CancelUnstartedType
   DEF TypeOK, OrphanFail, RunStatus, Published, Terminal

\* Quarantining an attempt keeps the tables typed.
LEMMA QuarantineType ==
    ASSUME TypeOK, NEW j \in Job, job[j].st = "leased", QuarantineJob(j)
    PROVE  TypeOK'
<1> DEFINE x == [job[j] EXCEPT !.quar = TRUE, !.lease = 0]
<1>0. job[j] \in JobRecord
  BY DEF TypeOK
<1>1. x \in JobRecord /\ x.run = job[j].run /\ x.st = job[j].st
  <2>1. x \in JobRecord
    BY <1>0, LeaseRange, RowUpdate
  <2> QED BY <1>0, <2>1 DEF JobRecord
<1>2. job' = [job EXCEPT ![j] = x] /\ UNCHANGED <<nJobs, ask, resuming>>
  BY DEF QuarantineJob
<1>3. tool' \in [Tool -> ToolRecord] /\ calls' \in [Job -> SUBSET {"active", "unknown"}]
  BY CancelUnstartedType, MarkLostType DEF QuarantineJob
<1>4. status' \in [Run -> RunStatus] /\ log' \in [Run -> Seq(Published)]
  BY PublishType DEF TypeOK, QuarantineJob, RunStatus, Published
<1> HIDE DEF x
<1> QED BY <1>1, <1>2, <1>3, <1>4, RowType DEF TypeOK

\* Confirming a cleanup keeps the tables typed.
LEMMA ConfirmType ==
    ASSUME TypeOK, NEW j \in Job, NEW w \in Worker, ConfirmCleanup(j, w)
    PROVE  TypeOK'
<1> DEFINE x == [job[j] EXCEPT !.st = "dead", !.lease = 0]
<1>0. job[j] \in JobRecord /\ job[j].st = "leased"
  BY DEF TypeOK, ConfirmCleanup
<1>1. x \in JobRecord /\ x.run = job[j].run /\ x.st # "free"
  <2>1. x \in JobRecord
    BY <1>0, LeaseRange, RowUpdate
  <2> QED BY <1>0, <2>1 DEF JobRecord
<1>2. job' = [job EXCEPT ![j] = x] /\ UNCHANGED <<nJobs, calls, ask, resuming>>
  BY DEF ConfirmCleanup
<1>3. tool' \in [Tool -> ToolRecord]
  <2>1. tool' = CancelUnstarted(tool, {job[j].run})
    BY DEF ConfirmCleanup
  <2> QED BY <2>1, CancelUnstartedType DEF TypeOK
<1>4. status' \in [Run -> RunStatus] /\ log' \in [Run -> Seq(Published)]
  BY PublishType DEF TypeOK, ConfirmCleanup, RunStatus, Published, Terminal
<1> HIDE DEF x
<1> QED BY <1>0, <1>1, <1>2, <1>3, <1>4, RowType DEF TypeOK

\* A tree cancel only drops rows that were pending.
LEMMA CancelType ==
    ASSUME TypeOK, NEW r \in Run, RequestCancel(r)
    PROVE  TypeOK'
<1>0. CancelTree(r)
  BY DEF TypeOK, RequestCancel
<1>1. /\ job' \in [Job -> JobRecord]
      /\ \A k \in Job : /\ job'[k].run = job[k].run
                        /\ job'[k].st = "free" <=> job[k].st = "free"
  <2>1. job' = [k \in Job |-> job'[k]]
    BY <1>0 DEF CancelTree
  <2>2. ASSUME NEW k \in Job
        PROVE  /\ job'[k] \in JobRecord
               /\ job'[k].run = job[k].run
               /\ job'[k].st = "free" <=> job[k].st = "free"
    <3>0. job[k] \in JobRecord
      BY DEF TypeOK
    <3>1. CASE job'[k] = [job[k] EXCEPT !.cancel = TRUE]
      BY <3>0, <3>1 DEF JobRecord
    <3>2. CASE job'[k] = [job[k] EXCEPT !.st = "canceled", !.cancel = TRUE]
               /\ job[k].st = "pending"
      BY <3>0, <3>2 DEF JobRecord
    <3>3. CASE job'[k] = job[k]
      BY <3>0, <3>3
    <3> QED BY <1>0, <3>1, <3>2, <3>3 DEF CancelTree
  <2> QED BY <2>1, <2>2
<1>2. tool' \in [Tool -> ToolRecord]
  BY <1>0, CancelUnstartedType DEF TypeOK, CancelTree
<1>3. status' \in [Run -> RunStatus] /\ log' \in [Run -> Seq(Published)]
  BY <1>0, PublishType DEF TypeOK, CancelTree, RunStatus, Published, Terminal
<1>4. ask' \in [Run -> Seq(SUBSET (Ask \cup Tool))]
  BY <1>0, CloseWaitsType DEF CancelTree
<1>5. UNCHANGED <<nJobs, calls, resuming>>
  BY <1>0 DEF CancelTree
<1> QED BY <1>0, <1>1, <1>2, <1>3, <1>4, <1>5, RowsType DEF TypeOK

\* So does a receipt.
LEMMA ReceiptUpdate ==
    ASSUME NEW y \in ToolRecord
    PROVE  /\ \A s \in {"prepared", "running"} \cup ToolOutcome, n \in Nat :
                 /\ [y EXCEPT !.st = s] \in ToolRecord
                 /\ [y EXCEPT !.st = s, !.grants = n] \in ToolRecord
           /\ \A n, m \in Nat : [y EXCEPT !.st = "running", !.job = n, !.starts = m] \in ToolRecord
<1>1. ASSUME NEW s \in {"prepared", "running"} \cup ToolOutcome, NEW n \in Nat
      PROVE  /\ [y EXCEPT !.st = s] \in ToolRecord
             /\ [y EXCEPT !.st = s, !.grants = n] \in ToolRecord
  BY DEF ToolRecord
<1>2. ASSUME NEW n \in Nat, NEW m \in Nat
      PROVE  [y EXCEPT !.st = "running", !.job = n, !.starts = m] \in ToolRecord
  BY DEF ToolRecord
<1> QED BY <1>1, <1>2

\* Opening a wait cycle appends one set of candidates.
LEMMA WaitType ==
    ASSUME TypeOK, NEW j \in Job, NEW w \in Worker,
           NEW S \in SUBSET (Ask \cup Tool), OpenWait(j, w, S)
    PROVE  TypeOK'
<1> DEFINE x == [job[j] EXCEPT !.asked = TRUE]
<1>0. job[j] \in JobRecord /\ job[j].run \in Run
  BY RowRun DEF TypeOK, OpenWait, Driving, Fenced
<1>1. x \in JobRecord /\ x.run = job[j].run /\ x.st = job[j].st
  BY <1>0 DEF JobRecord
<1>2. job' = [job EXCEPT ![j] = x] /\ nJobs' = nJobs
  BY DEF OpenWait
<1>3. ask' \in [Run -> Seq(SUBSET (Ask \cup Tool))]
  BY <1>0, AppendProperties DEF TypeOK, OpenWait
<1>4. UNCHANGED <<status, tool, calls, log, resuming>>
  BY DEF OpenWait
<1> HIDE DEF x
<1> QED BY <1>1, <1>2, <1>3, <1>4, RowType DEF TypeOK

\* Inserting a resume job, or finding that there is one already.
LEMMA ResumeInsertType ==
    ASSUME TypeOK, NEW r \in Run, NEW c \in Nat, NEW late \in BOOLEAN,
           Insert(r, "resume", c, late) \/ UNCHANGED <<job, nJobs>>
    PROVE  /\ nJobs' \in 0..MaxJobs
           /\ job' \in [Job -> JobRecord]
           /\ \A j \in Job : /\ j <= nJobs' <=> job'[j].st # "free"
                             /\ j <= nJobs' <=> job'[j].run # NoRun
BY InsertType DEF TypeOK

\* A decision takes one candidate out of one cycle.
LEMMA DecisionType ==
    ASSUME TypeOK, NEW r \in Run, NEW c \in 1..MaxCycles, NEW x \in Ask \cup Tool,
           Decide(r, c, x) \/ DecideByRoute(r, c, x)
    PROVE  TypeOK'
<1>1. c \in 1..Len(ask[r]) /\ ask' = [ask EXCEPT ![r][c] = ask[r][c] \ {x}]
  BY DEF Decide, DecideByRoute
<1>2. ask' \in [Run -> Seq(SUBSET (Ask \cup Tool))]
  <2>1. ask[r] \in Seq(SUBSET (Ask \cup Tool))
    BY DEF TypeOK
  <2>2. ask[r][c] \ {x} \in SUBSET (Ask \cup Tool)
    BY <1>1, <2>1, ElementOfSeq
  <2>3. [ask[r] EXCEPT ![c] = ask[r][c] \ {x}] \in Seq(SUBSET (Ask \cup Tool))
    BY <1>1, <2>1, <2>2, ExceptSeq
  <2> QED BY <1>1, <2>3 DEF TypeOK
<1>3. tool' \in [Tool -> ToolRecord]
  <2>1. CASE tool' = tool
    BY <2>1 DEF TypeOK
  <2>2. ASSUME x \in Tool, NEW s \in {"completed", "failed"}, tool' = [tool EXCEPT ![x].st = s]
        PROVE  tool' \in [Tool -> ToolRecord]
    <3>1. tool[x] \in ToolRecord /\ s \in ToolOutcome
      BY <2>2 DEF TypeOK, ToolOutcome
    <3>2. [tool[x] EXCEPT !.st = s] \in ToolRecord
      BY <3>1, ReceiptUpdate
    <3> QED BY <2>2, <3>2 DEF TypeOK
  <2>3. CASE x \in Tool /\ tool' = [tool EXCEPT ![x].st = "prepared", ![x].grants = @ + 1]
    <3>1. tool[x] \in ToolRecord /\ tool[x].grants + 1 \in Nat
      BY <2>3 DEF TypeOK, ToolRecord
    <3>2. [tool[x] EXCEPT !.st = "prepared", !.grants = tool[x].grants + 1] \in ToolRecord
      BY <3>1, ReceiptUpdate
    <3> QED BY <2>3, <3>2 DEF TypeOK
  <2> QED BY <2>1, <2>2, <2>3 DEF Decide, DecideByRoute
<1>4. Insert(r, "resume", c, FALSE) \/ UNCHANGED <<job, nJobs>>
  BY DEF Decide, DecideByRoute, ResumeIfResolved
<1>5. UNCHANGED <<status, calls, log, resuming>>
  BY DEF Decide, DecideByRoute
<1>6. c \in Nat
  BY BoundAssumption
<1> QED BY <1>2, <1>3, <1>4, <1>5, <1>6, ResumeInsertType DEF TypeOK

\* resume_run and a replayed decision keep the tables typed.
LEMMA ResumeType ==
    ASSUME TypeOK, NEW r \in Run, NEW c \in 1..MaxCycles,
           ReplayDecision(r, c) \/ BeginResume(r, c) \/ EnqueueResume(r, c) \/ AbandonResume(r, c)
    PROVE  TypeOK'
<1>1. c \in Nat
  BY BoundAssumption
<1>2. resuming' \in SUBSET (Run \X Nat)
  <2>1. <<r, c>> \in Run \X Nat /\ resuming \in SUBSET (Run \X Nat)
    BY <1>1 DEF TypeOK
  <2>2. resuming' \in {resuming, resuming \cup {<<r, c>>}, resuming \ {<<r, c>>}}
    BY DEF ReplayDecision, BeginResume, EnqueueResume, AbandonResume
  <2> QED BY <2>1, <2>2
<1>3. \E late \in BOOLEAN : Insert(r, "resume", c, late) \/ UNCHANGED <<job, nJobs>>
  <2>1. CASE ReplayDecision(r, c)
    BY <2>1 DEF ReplayDecision
  <2>2. CASE BeginResume(r, c) \/ AbandonResume(r, c)
    BY <2>2 DEF BeginResume, AbandonResume, tables
  <2>3. CASE EnqueueResume(r, c)
    <3>1. (status[r] \in Terminal) \in BOOLEAN
      OBVIOUS
    <3> QED BY <2>3, <3>1, Zenon DEF EnqueueResume
  <2> QED BY <2>1, <2>2, <2>3
<1>4. UNCHANGED <<status, tool, calls, ask, log>>
  BY DEF ReplayDecision, BeginResume, EnqueueResume, AbandonResume, tables
<1>5. /\ nJobs' \in 0..MaxJobs
      /\ job' \in [Job -> JobRecord]
      /\ \A j \in Job : /\ j <= nJobs' <=> job'[j].st # "free"
                        /\ j <= nJobs' <=> job'[j].run # NoRun
  BY <1>1, <1>3, ResumeInsertType
<1> QED BY <1>2, <1>4, <1>5 DEF TypeOK

\* The ledger transactions keep receipts and calls typed.
LEMMA LedgerType ==
    ASSUME TypeOK, NEW j \in Job, NEW w \in Worker,
           \/ \E t \in Tool : \/ PrepareTool(j, w, t) \/ BeginTool(j, w, t)
                              \/ RecoverTool(j, w, t)
                              \/ \E s \in ToolOutcome : SettleTool(j, w, t, s)
           \/ ReserveCall(j, w)
           \/ \E u \in BOOLEAN : EndCall(j, w, u)
    PROVE  TypeOK'
<1>1. UNCHANGED <<status, job, nJobs, ask, log, resuming>>
  BY DEF PrepareTool, BeginTool, RecoverTool, SettleTool, ReserveCall, EndCall
<1>2. tool' \in [Tool -> ToolRecord]
  <2>1. ASSUME NEW t \in Tool, NEW y \in ToolRecord, tool' = [tool EXCEPT ![t] = y]
        PROVE  tool' \in [Tool -> ToolRecord]
    BY <2>1 DEF TypeOK
  <2>2. \A t \in Tool : /\ tool[t] \in ToolRecord /\ tool[t].grants + 1 \in Nat
                        /\ tool[t].grants \in Nat /\ tool[t].starts + 1 \in Nat
    BY DEF TypeOK, ToolRecord
  <2>3. ASSUME NEW t \in Tool, PrepareTool(j, w, t)
        PROVE  \E y \in ToolRecord : tool' = [tool EXCEPT ![t] = y]
    <3>1. [tool[t] EXCEPT !.st = "prepared", !.grants = 1] \in ToolRecord
      BY <2>2, ReceiptUpdate
    <3> QED BY <2>3, <3>1 DEF PrepareTool
  <2>4. ASSUME NEW t \in Tool, BeginTool(j, w, t)
        PROVE  \E y \in ToolRecord : tool' = [tool EXCEPT ![t] = y]
    <3>1. [tool[t] EXCEPT !.st = "canceled"] \in ToolRecord
      BY <2>2, ReceiptUpdate DEF ToolOutcome
    <3>2. [tool[t] EXCEPT !.st = "running", !.job = j, !.starts = tool[t].starts + 1] \in ToolRecord
      <4>1. j \in Nat
        BY BoundAssumption
      <4> QED BY <4>1, <2>2, ReceiptUpdate
    <3> QED BY <2>4, <3>1, <3>2 DEF BeginTool
  <2>5. ASSUME NEW t \in Tool, RecoverTool(j, w, t)
        PROVE  \E y \in ToolRecord : tool' = [tool EXCEPT ![t] = y]
    <3>1. [tool[t] EXCEPT !.st = "completed"] \in ToolRecord
      BY <2>2, ReceiptUpdate DEF ToolOutcome
    <3>2. [tool[t] EXCEPT !.st = "prepared", !.grants = tool[t].grants + 1] \in ToolRecord
      BY <2>2, ReceiptUpdate
    <3> QED BY <2>5, <3>1, <3>2 DEF RecoverTool
  <2>6. ASSUME NEW t \in Tool, NEW s \in ToolOutcome, SettleTool(j, w, t, s)
        PROVE  \E y \in ToolRecord : tool' = [tool EXCEPT ![t] = y]
    <3> DEFINE n == IF s = "paused" THEN tool[t].grants + 1 ELSE tool[t].grants
    <3>1. n \in Nat
      BY <2>2
    <3>2. [tool[t] EXCEPT !.st = s, !.grants = n] \in ToolRecord
      BY <2>2, <3>1, ReceiptUpdate
    <3> QED BY <2>6, <3>2 DEF SettleTool
  <2>7. CASE tool' = tool
    BY <2>7 DEF TypeOK
  <2> QED BY <2>1, <2>3, <2>4, <2>5, <2>6, <2>7 DEF ReserveCall, EndCall
<1>3. calls' \in [Job -> SUBSET {"active", "unknown"}]
  <2>1. \/ calls' = calls
        \/ \E S \in SUBSET {"active", "unknown"} : calls' = [calls EXCEPT ![j] = S]
    <3>1. calls[j] \in SUBSET {"active", "unknown"}
      BY DEF TypeOK
    <3>2. CASE ReserveCall(j, w)
      BY <3>1, <3>2 DEF ReserveCall
    <3>3. ASSUME NEW u \in BOOLEAN, EndCall(j, w, u)
          PROVE  \E S \in SUBSET {"active", "unknown"} : calls' = [calls EXCEPT ![j] = S]
      <4> DEFINE S == IF u THEN {"unknown"} ELSE calls[j] \ {"active"}
      <4>1. S \in SUBSET {"active", "unknown"}
        BY <3>1
      <4>2. calls' = [calls EXCEPT ![j] = S]
        BY <3>3 DEF EndCall
      <4> QED BY <4>1, <4>2
    <3> QED BY <3>2, <3>3 DEF PrepareTool, BeginTool, RecoverTool, SettleTool
  <2> QED BY <2>1 DEF TypeOK
<1> QED BY <1>1, <1>2, <1>3 DEF TypeOK

\* Every step keeps the tables typed.
LEMMA StepType == TypeOK /\ [Next]_vars => TypeOK'
<1> SUFFICES ASSUME TypeOK, [Next]_vars PROVE TypeOK'
  OBVIOUS
<1>1. ASSUME NEW w \in Worker, Claim(w) PROVE TypeOK'
  BY <1>1, ClaimType
<1>2. ASSUME NEW j \in Job, Tick(j) PROVE TypeOK'
  BY <1>2, LeaseType
<1>3. ASSUME NEW j \in Job, NEW w \in Worker, AttemptStep(j, w) PROVE TypeOK'
  <2>1. CASE Renew(j, w)
    BY <2>1, LeaseType
  <2>2. CASE \E r \in Run : AcceptChild(r, j, w)
    BY <2>2, AdmissionType
  <2>3. CASE \E o \in Outcome : CommitResult(j, w, o)
    BY <2>3, CommitType
  <2>4. CASE Quarantine(j, w) \/ EnsureLostQuarantined(j, w)
    BY <2>4, QuarantineType DEF Quarantine, EnsureLostQuarantined, Fenced
  <2>5. CASE ConfirmCleanup(j, w)
    BY <2>5, ConfirmType
  <2>6. CASE \E S \in SUBSET (Ask \cup Tool) : OpenWait(j, w, S)
    BY <2>6, WaitType
  <2>7. CASE \/ \E t \in Tool : \/ PrepareTool(j, w, t) \/ BeginTool(j, w, t)
                                \/ RecoverTool(j, w, t)
                                \/ \E s \in ToolOutcome : SettleTool(j, w, t, s)
             \/ ReserveCall(j, w)
             \/ \E u \in BOOLEAN : EndCall(j, w, u)
    BY <2>7, LedgerType
  <2> QED BY <1>3, <2>1, <2>2, <2>3, <2>4, <2>5, <2>6, <2>7 DEF AttemptStep
<1>4. ASSUME NEW r \in Run, RunStep(r) PROVE TypeOK'
  <2>1. CASE AcceptRun(r)
    BY <2>1, AdmissionType
  <2>2. CASE RequestCancel(r)
    BY <2>2, CancelType
  <2>3. CASE OrphanFail(r)
    BY <2>3, OrphanType
  <2>4. CASE \E c \in 1..MaxCycles :
               \/ ReplayDecision(r, c)
               \/ BeginResume(r, c) \/ EnqueueResume(r, c) \/ AbandonResume(r, c)
    BY <2>4, ResumeType
  <2>5. CASE \E c \in 1..MaxCycles, x \in Ask \cup Tool : Decide(r, c, x) \/ DecideByRoute(r, c, x)
    BY <2>5, DecisionType
  <2> QED BY <1>4, <2>1, <2>2, <2>3, <2>4, <2>5 DEF RunStep
<1>5. ASSUME UNCHANGED vars PROVE TypeOK'
  BY <1>5 DEF TypeOK, vars
<1> QED BY <1>1, <1>2, <1>3, <1>4, <1>5 DEF Next

\* Every table keeps values of its columns' types, whatever the workers, the
\* commands and the clock do.
THEOREM TypeCorrect == Spec => []TypeOK
<1>1. Init => TypeOK
  BY InitType
<1>2. TypeOK /\ [Next]_vars => TypeOK'
  BY StepType
<1> QED BY <1>1, <1>2, PTL DEF Spec

-----------------------------------------------------------------------------
(* The inductive invariant behind the attempts' safety, AttemptInv.        *)

\* There is no attempt in a new database.
LEMMA InitAttempt == Init => AttemptInv
BY DEF Init, AttemptInv, OneActiveJob, JobMatchesStatus, NoStrandedRun, LeasedOnce,
       FreshUntilLeased, ResumingAdmitted, Active, FreeJob, FreshJob

\* Steps that leave the runs' statuses alone, and of the rows only touch columns
\* the invariant does not read.
LEMMA FrameAttempt ==
    ASSUME AttemptInv, status' = status, resuming' \subseteq resuming,
           \A j \in Job : /\ job'[j].run = job[j].run /\ job'[j].st = job[j].st
                          /\ job'[j].quar = job[j].quar /\ job'[j].kind = job[j].kind
                          /\ job'[j].late = job[j].late /\ job'[j].gen = job[j].gen
    PROVE  AttemptInv'
<1> USE DEF AttemptInv, Active
<1>1. OneActiveJob'
  BY DEF OneActiveJob
<1>2. JobMatchesStatus'
  BY DEF JobMatchesStatus
<1>3. NoStrandedRun'
  BY DEF NoStrandedRun, HasActive
<1>4. LeasedOnce' /\ FreshUntilLeased'
  BY DEF LeasedOnce, FreshUntilLeased
<1>5. ResumingAdmitted'
  BY DEF ResumingAdmitted
<1> QED BY <1>1, <1>2, <1>3, <1>4, <1>5

\* A run without an active job may get one, if the row agrees with its status.
LEMMA InsertAttempt ==
    ASSUME TypeOK, AttemptInv, NEW r \in Run, NEW kind, NEW cycle, NEW late,
           Insert(r, kind, cycle, late), ~HasActive(r), resuming' \subseteq resuming,
           status' \in [Run -> RunStatus],
           \A q \in Run : q # r => status'[q] = status[q],
           status'[r] # "none",
           \/ kind = "start" /\ status'[r] = "queued"
           \/ kind = "resume" /\ status'[r] = "waiting"
           \/ late /\ status'[r] \in Terminal
    PROVE  AttemptInv'
<1> DEFINE k == nJobs + 1
<1>0. /\ k \in Job
      /\ job' = [job EXCEPT ![k] = FreshJob(r, kind, cycle, late)]
      /\ job[k].st = "free"
  BY BoundAssumption DEF TypeOK, Insert
<1> HIDE DEF k
<1>1. /\ job'[k].run = r /\ job'[k].st = "pending" /\ job'[k].kind = kind
      /\ job'[k].late = late /\ job'[k].gen = 0 /\ job'[k].quar = FALSE
  BY <1>0 DEF TypeOK, FreshJob
<1>2. \A j \in Job : j # k => job'[j] = job[j]
  BY <1>0 DEF TypeOK
<1>3. \A j \in Job : Active(job, j) => job[j].run # r
  BY DEF HasActive
<1> USE DEF AttemptInv, Active
<1>4. OneActiveJob'
  BY <1>1, <1>2, <1>3 DEF OneActiveJob
<1>5. JobMatchesStatus'
  <2> SUFFICES ASSUME NEW j \in Job, Active(job', j)
               PROVE  /\ job'[j].st = "leased" =>
                            status'[job'[j].run] = IF job'[j].quar THEN "cleanup_required"
                                                   ELSE "running"
                      /\ job'[j].st = "pending" =>
                            \/ job'[j].kind = "start" /\ status'[job'[j].run] = "queued"
                            \/ job'[j].kind = "resume" /\ status'[job'[j].run] = "waiting"
                            \/ job'[j].late /\ status'[job'[j].run] \in Terminal
    BY DEF JobMatchesStatus
  <2>1. CASE j = k
    BY <1>1, <2>1
  <2>2. CASE j # k
    <3>1. Active(job, j) /\ job'[j] = job[j]
      BY <1>2, <2>2
    <3>2. job[j].run \in Run /\ job[j].run # r
      BY <1>3, <3>1, RowRun
    <3>3. status'[job[j].run] = status[job[j].run]
      BY <3>2
    <3> QED BY <3>1, <3>3 DEF JobMatchesStatus
  <2> QED BY <2>1, <2>2
<1>6. NoStrandedRun'
  <2> SUFFICES ASSUME NEW q \in Run, status'[q] \in {"queued", "running", "cleanup_required"}
               PROVE  \E j \in Job : job'[j].run = q /\ Active(job', j)
    BY DEF NoStrandedRun, HasActive
  <2>1. CASE q = r
    BY <1>0, <1>1, <2>1
  <2>2. CASE q # r
    <3>1. PICK j \in Job : job[j].run = q /\ Active(job, j)
      BY <2>2 DEF NoStrandedRun, HasActive
    <3>2. job'[j] = job[j]
      BY <1>0, <1>2, <3>1
    <3> QED BY <3>1, <3>2
  <2> QED BY <2>1, <2>2
<1>7. LeasedOnce' /\ FreshUntilLeased'
  BY <1>1, <1>2 DEF LeasedOnce, FreshUntilLeased
<1>8. ResumingAdmitted'
  BY DEF ResumingAdmitted, TypeOK
<1> QED BY <1>4, <1>5, <1>6, <1>7, <1>8

\* The only leased row of a run may be closed, if the run gets a result with it.
LEMMA CloseAttempt ==
    ASSUME TypeOK, AttemptInv, NEW j \in Job, job[j].st = "leased",
           NEW s \in Terminal \cup {"waiting"},
           status' = [status EXCEPT ![job[j].run] = s],
           \A i \in Job : i # j => job'[i] = job[i],
           job'[j].st \in {"completed", "canceled", "dead"},
           job'[j].run = job[j].run, job'[j].gen = job[j].gen, resuming' = resuming
    PROVE  AttemptInv'
<1> USE DEF AttemptInv, Active
<1>0. job[j].run \in Run
  BY RowRun
<1>1. \A i \in Job : Active(job', i) => i # j /\ Active(job, i) /\ job'[i] = job[i]
                                        /\ job[i].run # job[j].run
  BY DEF OneActiveJob
<1>2. \A q \in Run : q # job[j].run => status'[q] = status[q]
  BY DEF TypeOK
<1>3. status'[job[j].run] = s
  BY <1>0 DEF TypeOK
<1>4. OneActiveJob'
  BY <1>1 DEF OneActiveJob
<1>5. JobMatchesStatus'
  <2> SUFFICES ASSUME NEW i \in Job, Active(job', i)
               PROVE  /\ job'[i].st = "leased" =>
                            status'[job'[i].run] = IF job'[i].quar THEN "cleanup_required"
                                                   ELSE "running"
                      /\ job'[i].st = "pending" =>
                            \/ job'[i].kind = "start" /\ status'[job'[i].run] = "queued"
                            \/ job'[i].kind = "resume" /\ status'[job'[i].run] = "waiting"
                            \/ job'[i].late /\ status'[job'[i].run] \in Terminal
    BY DEF JobMatchesStatus
  <2>1. job[i].run \in Run /\ job[i].run # job[j].run /\ job'[i] = job[i]
    BY <1>1, RowRun
  <2>2. status'[job[i].run] = status[job[i].run]
    BY <1>2, <2>1
  <2> QED BY <2>1, <2>2 DEF JobMatchesStatus
<1>6. NoStrandedRun'
  <2> SUFFICES ASSUME NEW q \in Run, status'[q] \in {"queued", "running", "cleanup_required"}
               PROVE  \E i \in Job : job'[i].run = q /\ Active(job', i)
    BY DEF NoStrandedRun, HasActive
  <2>1. q # job[j].run
    BY <1>3 DEF Terminal
  <2>2. PICK i \in Job : job[i].run = q /\ Active(job, i)
    BY <1>2, <2>1 DEF NoStrandedRun, HasActive
  <2>3. job'[i] = job[i]
    BY <2>1, <2>2
  <2> QED BY <2>2, <2>3
<1>7. LeasedOnce' /\ FreshUntilLeased'
  BY DEF LeasedOnce, FreshUntilLeased
<1>8. ResumingAdmitted'
  BY <1>2, <1>3 DEF ResumingAdmitted, TypeOK, Terminal
<1> QED BY <1>4, <1>5, <1>6, <1>7, <1>8

\* A quarantined row stays the one active row of its run, which it fences.
LEMMA QuarantineAttempt ==
    ASSUME TypeOK, AttemptInv, NEW j \in Job, job[j].st = "leased", QuarantineJob(j)
    PROVE  AttemptInv'
<1> USE DEF AttemptInv, Active
<1>0. job[j].run \in Run
  BY RowRun
<1>1. /\ \A i \in Job : i # j => job'[i] = job[i]
      /\ job'[j].run = job[j].run /\ job'[j].st = "leased" /\ job'[j].quar = TRUE
      /\ job'[j].gen = job[j].gen
  BY DEF QuarantineJob, TypeOK, JobRecord
<1>2. /\ \A q \in Run : q # job[j].run => status'[q] = status[q]
      /\ status'[job[j].run] = "cleanup_required"
      /\ resuming' = resuming
  BY <1>0 DEF QuarantineJob, TypeOK
<1>3. OneActiveJob'
  BY <1>1 DEF OneActiveJob
<1>4. JobMatchesStatus'
  <2> SUFFICES ASSUME NEW i \in Job, Active(job', i)
               PROVE  /\ job'[i].st = "leased" =>
                            status'[job'[i].run] = IF job'[i].quar THEN "cleanup_required"
                                                   ELSE "running"
                      /\ job'[i].st = "pending" =>
                            \/ job'[i].kind = "start" /\ status'[job'[i].run] = "queued"
                            \/ job'[i].kind = "resume" /\ status'[job'[i].run] = "waiting"
                            \/ job'[i].late /\ status'[job'[i].run] \in Terminal
    BY DEF JobMatchesStatus
  <2>1. CASE i = j
    BY <1>1, <1>2, <2>1
  <2>2. CASE i # j
    <3>1. job'[i] = job[i] /\ job[i].run \in Run /\ job[i].run # job[j].run
      BY <1>1, <2>2, RowRun DEF OneActiveJob
    <3>2. status'[job[i].run] = status[job[i].run]
      BY <1>2, <3>1
    <3> QED BY <3>1, <3>2 DEF JobMatchesStatus
  <2> QED BY <2>1, <2>2
<1>5. NoStrandedRun'
  BY <1>1, <1>2 DEF NoStrandedRun, HasActive
<1>6. LeasedOnce' /\ FreshUntilLeased'
  BY <1>1 DEF LeasedOnce, FreshUntilLeased
<1>7. ResumingAdmitted'
  BY <1>2 DEF ResumingAdmitted, TypeOK
<1> QED BY <1>3, <1>4, <1>5, <1>6, <1>7

\* A tree cancel settles the runs it can settle together with their rows.
LEMMA CancelAttempt ==
    ASSUME TypeOK, AttemptInv, NEW r \in Run, CancelTree(r)
    PROVE  AttemptInv'
<1> DEFINE gone == CancelNow({r} \cup Children(r))
<1> USE DEF AttemptInv, Active
<1>1. /\ \A q \in Run : status'[q] = IF q \in gone THEN "canceled" ELSE status[q]
      /\ resuming' = resuming
  BY DEF CancelTree
<1>2. ASSUME NEW i \in Job
      PROVE  /\ job'[i].run = job[i].run /\ job'[i].quar = job[i].quar
             /\ job'[i].kind = job[i].kind /\ job'[i].late = job[i].late
             /\ job'[i].gen = job[i].gen
             /\ job'[i].st = IF job[i].run \in gone /\ job[i].st = "pending"
                             THEN "canceled" ELSE job[i].st
  <2>1. job[i] \in JobRecord
    BY DEF TypeOK
  <2>2. CASE job'[i] = [job[i] EXCEPT !.cancel = TRUE] /\ job[i].st = "leased"
    BY <2>1, <2>2 DEF JobRecord
  <2>3. CASE job'[i] = [job[i] EXCEPT !.st = "canceled", !.cancel = TRUE]
             /\ job[i].run \in gone /\ job[i].st = "pending"
    BY <2>1, <2>3 DEF JobRecord
  <2>4. CASE job'[i] = job[i] /\ ~(job[i].run \in gone /\ job[i].st = "pending")
    BY <2>1, <2>4 DEF JobRecord
  <2> QED BY <2>2, <2>3, <2>4 DEF CancelTree, LiveJob
\* A run that is canceled now had a pending job and no other, or was waiting.
<1>3. ASSUME NEW i \in Job, Active(job', i)
      PROVE  job[i].run \notin gone /\ Active(job, i)
  <2>1. Active(job, i)
    BY <1>2, <1>3
  <2>2. SUFFICES ASSUME job[i].run \in gone PROVE FALSE
    BY <2>1
  <2>3. job[i].st = "leased"
    BY <1>2, <1>3, <2>1, <2>2
  <2>4. CASE LiveJob(job[i].run, "pending") # {}
    BY <2>3, <2>4 DEF LiveJob, OneActiveJob
  <2>5. CASE LiveJob(job[i].run, "leased") = {} /\ status[job[i].run] = "waiting"
    BY <2>3, <2>5 DEF JobMatchesStatus
  <2> QED BY <2>2, <2>4, <2>5 DEF CancelNow
<1> HIDE DEF gone
<1>4. OneActiveJob'
  BY <1>2, <1>3 DEF OneActiveJob
<1>5. JobMatchesStatus'
  <2> SUFFICES ASSUME NEW i \in Job, Active(job', i)
               PROVE  /\ job'[i].st = "leased" =>
                            status'[job'[i].run] = IF job'[i].quar THEN "cleanup_required"
                                                   ELSE "running"
                      /\ job'[i].st = "pending" =>
                            \/ job'[i].kind = "start" /\ status'[job'[i].run] = "queued"
                            \/ job'[i].kind = "resume" /\ status'[job'[i].run] = "waiting"
                            \/ job'[i].late /\ status'[job'[i].run] \in Terminal
    BY DEF JobMatchesStatus
  <2>1. Active(job, i) /\ job[i].run \in Run /\ status'[job[i].run] = status[job[i].run]
    BY <1>1, <1>3, RowRun
  <2> QED BY <1>2, <1>3, <2>1 DEF JobMatchesStatus
<1>6. NoStrandedRun'
  BY <1>1, <1>2 DEF NoStrandedRun, HasActive
<1>7. LeasedOnce' /\ FreshUntilLeased'
  BY <1>2 DEF LeasedOnce, FreshUntilLeased
<1>8. ResumingAdmitted'
  BY <1>1 DEF ResumingAdmitted, TypeOK
<1> QED BY <1>4, <1>5, <1>6, <1>7, <1>8

\* What a sweep finds: a leased job's run is running, so no expired lease is
\* overdue, a lost run has no pending job and a blocked run no leased one.
LEMMA SweepFacts ==
    ASSUME TypeOK, AttemptInv
    PROVE  /\ \A j \in Job :
                /\ UnblockedJob[j].run = job[j].run /\ UnblockedJob[j].kind = job[j].kind
                /\ UnblockedJob[j].late = job[j].late /\ UnblockedJob[j].gen = job[j].gen
                /\ UnblockedJob[j].owner = job[j].owner
                /\ UnblockedJob[j].quar = (job[j].quar \/ j \in Expired)
                /\ UnblockedJob[j].st = IF job[j].st = "pending" /\ job[j].run \in Blocked
                                        THEN "canceled" ELSE job[j].st
           /\ \A r \in Run :
                UnblockedStatus[r] = IF r \in Blocked THEN "canceled"
                                     ELSE IF \E j \in Expired : job[j].run = r
                                          THEN "cleanup_required" ELSE status[r]
           /\ \A j \in Job : SweptJob[j].run = job[j].run /\ SweptJob[j].st = job[j].st
           /\ \A j \in Job : job[j].st = "leased" => job[j].run \notin Blocked
           /\ \A j \in Job : job[j].st = "pending" =>
                                \A i \in Expired : job[i].run # job[j].run
<1> USE DEF AttemptInv, Active
<1>1. Overdue = {} /\ Lost = Expired
  BY DEF Overdue, Lost, Expired, HasResult, JobMatchesStatus, Terminal
<1>2. ASSUME NEW j \in Job
      PROVE  /\ SweptJob[j].run = job[j].run /\ SweptJob[j].kind = job[j].kind
             /\ SweptJob[j].late = job[j].late /\ SweptJob[j].gen = job[j].gen
             /\ SweptJob[j].st = job[j].st
             /\ SweptJob[j].owner = job[j].owner
             /\ SweptJob[j].quar = (job[j].quar \/ j \in Expired)
  <2>1. job[j] \in JobRecord
    BY DEF TypeOK
  <2>2. CASE j \in Expired
    <3>1. SweptJob[j] = [job[j] EXCEPT !.quar = TRUE]
      BY <1>1, <2>2 DEF SweptJob
    <3> QED BY <2>1, <2>2, <3>1 DEF JobRecord
  <2>3. CASE j \notin Expired
    <3>1. SweptJob[j] = job[j]
      BY <1>1, <2>3 DEF SweptJob
    <3> QED BY <2>1, <2>3, <3>1 DEF JobRecord
  <2> QED BY <2>2, <2>3
<1>3. ASSUME NEW j \in Job
      PROVE  /\ UnblockedJob[j].run = job[j].run /\ UnblockedJob[j].kind = job[j].kind
             /\ UnblockedJob[j].late = job[j].late /\ UnblockedJob[j].gen = job[j].gen
             /\ UnblockedJob[j].owner = job[j].owner
             /\ UnblockedJob[j].quar = (job[j].quar \/ j \in Expired)
             /\ UnblockedJob[j].st = IF job[j].st = "pending" /\ job[j].run \in Blocked
                                     THEN "canceled" ELSE job[j].st
  <2>1. SweptJob[j] \in JobRecord
    BY SweepType
  <2>2. CASE job[j].st = "pending" /\ job[j].run \in Blocked
    <3>1. UnblockedJob[j] = [SweptJob[j] EXCEPT !.st = "canceled", !.cancel = TRUE]
      BY <1>2, <2>2 DEF UnblockedJob
    <3> QED BY <1>2, <2>1, <2>2, <3>1 DEF JobRecord
  <2>3. CASE ~(job[j].st = "pending" /\ job[j].run \in Blocked)
    <3>1. UnblockedJob[j] = SweptJob[j]
      BY <1>2, <2>3 DEF UnblockedJob
    <3> QED BY <1>2, <2>3, <3>1
  <2> QED BY <2>2, <2>3
<1>4. \A r \in Run :
         UnblockedStatus[r] = IF r \in Blocked THEN "canceled"
                              ELSE IF \E j \in Expired : job[j].run = r
                                   THEN "cleanup_required" ELSE status[r]
  BY <1>1 DEF UnblockedStatus, SweptStatus, LostRuns
<1>5. \A j \in Job : job[j].st = "leased" => job[j].run \notin Blocked
  BY <1>2 DEF Blocked, OneActiveJob
<1>6. \A j \in Job : job[j].st = "pending" => \A i \in Expired : job[i].run # job[j].run
  BY DEF Expired, OneActiveJob
<1> QED BY <1>2, <1>3, <1>4, <1>5, <1>6

\* A sweep alone keeps the invariant, whatever it quarantines and cancels.
LEMMA SweepAttempt ==
    ASSUME TypeOK, AttemptInv, job' = UnblockedJob, status' = UnblockedStatus,
           resuming' = resuming
    PROVE  AttemptInv'
<1> USE DEF AttemptInv, Active
<1>1. ASSUME NEW i \in Job, Active(job', i)
      PROVE  /\ Active(job, i) /\ job'[i].st = job[i].st /\ job[i].run \in Run
             /\ job[i].run \notin Blocked
  BY <1>1, SweepFacts, RowRun
<1>2. OneActiveJob'
  BY <1>1, SweepFacts DEF OneActiveJob
<1>3. JobMatchesStatus'
  <2> SUFFICES ASSUME NEW i \in Job, Active(job', i)
               PROVE  /\ job'[i].st = "leased" =>
                            status'[job'[i].run] = IF job'[i].quar THEN "cleanup_required"
                                                   ELSE "running"
                      /\ job'[i].st = "pending" =>
                            \/ job'[i].kind = "start" /\ status'[job'[i].run] = "queued"
                            \/ job'[i].kind = "resume" /\ status'[job'[i].run] = "waiting"
                            \/ job'[i].late /\ status'[job'[i].run] \in Terminal
    BY DEF JobMatchesStatus
  <2>1. status'[job[i].run] = IF \E j \in Expired : job[j].run = job[i].run
                              THEN "cleanup_required" ELSE status[job[i].run]
    BY <1>1, SweepFacts
  <2>2. CASE job[i].st = "leased"
    <3>1. (\E j \in Expired : job[j].run = job[i].run) <=> i \in Expired
      BY <2>2 DEF Expired, OneActiveJob
    <3> QED BY <1>1, <2>1, <2>2, <3>1, SweepFacts DEF JobMatchesStatus
  <2>3. CASE job[i].st = "pending"
    <3>1. status'[job[i].run] = status[job[i].run]
      BY <2>1, <2>3, SweepFacts
    <3> QED BY <1>1, <2>3, <3>1, SweepFacts DEF JobMatchesStatus
  <2> QED BY <1>1, <2>2, <2>3
<1>4. NoStrandedRun'
  <2> SUFFICES ASSUME NEW q \in Run, status'[q] \in {"queued", "running", "cleanup_required"}
               PROVE  \E i \in Job : job'[i].run = q /\ Active(job', i)
    BY DEF NoStrandedRun, HasActive
  <2>1. q \notin Blocked
    BY SweepFacts
  <2>2. CASE \E j \in Expired : job[j].run = q
    BY <2>1, <2>2, SweepFacts DEF Expired
  <2>3. CASE ~\E j \in Expired : job[j].run = q
    <3>1. status[q] \in {"queued", "running", "cleanup_required"}
      BY <2>1, <2>3, SweepFacts
    <3>2. PICK i \in Job : job[i].run = q /\ Active(job, i)
      BY <3>1 DEF NoStrandedRun, HasActive
    <3> QED BY <2>1, <3>2, SweepFacts
  <2> QED BY <2>2, <2>3
<1>5. LeasedOnce' /\ FreshUntilLeased'
  <2>1. \A i \in Job : job[i].st = "pending" => i \notin Expired
    BY DEF Expired
  <2>2. ASSUME NEW i \in Job
        PROVE  /\ job'[i].gen = job[i].gen
               /\ job'[i].st = "pending" => job[i].st = "pending" /\ (~job[i].quar => ~job'[i].quar)
    <3>1. job'[i].gen = job[i].gen /\ job'[i].quar = (job[i].quar \/ i \in Expired)
      BY SweepFacts
    <3>2. job'[i].st = "pending" => job[i].st = "pending"
      BY SweepFacts
    <3> QED BY <2>1, <3>1, <3>2
  <2>3. LeasedOnce'
    BY <2>2 DEF LeasedOnce
  <2>4. FreshUntilLeased'
    BY <2>2 DEF FreshUntilLeased
  <2> QED BY <2>3, <2>4
<1>6. ResumingAdmitted'
  <2>1. \A q \in Run : status[q] # "none" => status'[q] # "none"
    BY SweepFacts
  <2> QED BY <2>1 DEF ResumingAdmitted, TypeOK
<1> QED BY <1>2, <1>3, <1>4, <1>5, <1>6

\* A sweep followed by a lease: the row leased was pending, so its run had no other.
LEMMA ClaimAttempt ==
    ASSUME TypeOK, AttemptInv, NEW w \in Worker, Claim(w)
    PROVE  AttemptInv'
<1> USE DEF AttemptInv, Active
<1>1. resuming' = resuming
  BY DEF Claim
<1>2. CASE job' = UnblockedJob /\ status' = UnblockedStatus
  BY <1>1, <1>2, SweepAttempt
<1>3. ASSUME NEW k \in Job, Oldest(k),
             job' = [UnblockedJob EXCEPT ![k].st = "leased", ![k].owner = w,
                                         ![k].gen = @ + 1, ![k].lease = LeaseTicks],
             status' = [UnblockedStatus EXCEPT ![UnblockedJob[k].run] = "running"]
      PROVE  AttemptInv'
  <2>1. /\ job[k].st = "pending" /\ job[k].run \in Run /\ job[k].run \notin Blocked
        /\ job[k].gen = 0 /\ job[k].quar = FALSE /\ k \notin Expired
    BY <1>3, SweepFacts, RowRun DEF Oldest, Claimable, FreshUntilLeased, Expired,
                                    TypeOK, JobRecord
  <2>2. /\ \A i \in Job : i # k => job'[i] = UnblockedJob[i]
        /\ job'[k].run = job[k].run /\ job'[k].st = "leased"
        /\ job'[k].quar = FALSE /\ job'[k].gen = 1
    <3>1. UnblockedJob[k] \in JobRecord /\ UnblockedJob \in [Job -> JobRecord]
      BY SweepType
    <3> QED BY <1>3, <2>1, <3>1, SweepFacts DEF JobRecord
  <2>3. /\ status'[job[k].run] = "running"
        /\ \A q \in Run : q # job[k].run => status'[q] = UnblockedStatus[q]
    BY <1>3, <2>1, SweepFacts, SweepType
  <2>4. ASSUME NEW i \in Job, Active(job', i), i # k
        PROVE  /\ Active(job, i) /\ job'[i].st = job[i].st /\ job[i].run \in Run
               /\ job[i].run # job[k].run /\ job[i].run \notin Blocked
               /\ status'[job[i].run] = IF \E j \in Expired : job[j].run = job[i].run
                                        THEN "cleanup_required" ELSE status[job[i].run]
    <3>1. Active(job, i) /\ job'[i].st = job[i].st /\ job[i].run \in Run
          /\ job[i].run \notin Blocked
      BY <2>2, <2>4, SweepFacts, RowRun
    <3>2. job[i].run # job[k].run
      BY <2>1, <2>4, <3>1 DEF OneActiveJob
    <3> QED BY <2>3, <3>1, <3>2, SweepFacts
  <2>5. OneActiveJob'
    BY <2>1, <2>2, <2>4, SweepFacts DEF OneActiveJob
  <2>6. JobMatchesStatus'
    <3> SUFFICES ASSUME NEW i \in Job, Active(job', i)
                 PROVE  /\ job'[i].st = "leased" =>
                              status'[job'[i].run] = IF job'[i].quar THEN "cleanup_required"
                                                     ELSE "running"
                        /\ job'[i].st = "pending" =>
                              \/ job'[i].kind = "start" /\ status'[job'[i].run] = "queued"
                              \/ job'[i].kind = "resume" /\ status'[job'[i].run] = "waiting"
                              \/ job'[i].late /\ status'[job'[i].run] \in Terminal
      BY DEF JobMatchesStatus
    <3>1. CASE i = k
      BY <2>2, <2>3, <3>1
    <3>2. CASE i # k /\ job[i].st = "leased"
      <4>1. (\E j \in Expired : job[j].run = job[i].run) <=> i \in Expired
        BY <3>2 DEF Expired, OneActiveJob
      <4>2. job'[i].run = job[i].run /\ job'[i].quar = (job[i].quar \/ i \in Expired)
        BY <2>2, <3>2, SweepFacts
      <4>3. status'[job[i].run] = IF i \in Expired THEN "cleanup_required"
                                  ELSE status[job[i].run]
        BY <2>4, <3>2, <4>1
      <4>4. status[job[i].run] = IF job[i].quar THEN "cleanup_required" ELSE "running"
        BY <3>2 DEF JobMatchesStatus
      <4> QED BY <2>4, <3>2, <4>2, <4>3, <4>4
    <3>3. CASE i # k /\ job[i].st = "pending"
      <4>1. status'[job[i].run] = status[job[i].run]
        BY <2>4, <3>3, SweepFacts
      <4> QED BY <2>2, <2>4, <3>3, <4>1, SweepFacts DEF JobMatchesStatus
    <3> QED BY <2>4, <3>1, <3>2, <3>3
  <2>7. NoStrandedRun'
    <3> SUFFICES ASSUME NEW q \in Run, status'[q] \in {"queued", "running", "cleanup_required"}
                 PROVE  \E i \in Job : job'[i].run = q /\ Active(job', i)
      BY DEF NoStrandedRun, HasActive
    <3>1. CASE q = job[k].run
      BY <2>2, <3>1
    <3>2. CASE q # job[k].run /\ \E j \in Expired : job[j].run = q
      BY <2>1, <2>2, <3>2, SweepFacts DEF Expired
    <3>3. CASE q # job[k].run /\ ~\E j \in Expired : job[j].run = q
      <4>1. q \notin Blocked /\ status[q] \in {"queued", "running", "cleanup_required"}
        BY <2>3, <3>3, SweepFacts
      <4>2. PICK i \in Job : job[i].run = q /\ Active(job, i)
        BY <4>1 DEF NoStrandedRun, HasActive
      <4> QED BY <2>2, <3>3, <4>1, <4>2, SweepFacts
    <3> QED BY <3>1, <3>2, <3>3
  <2>8. LeasedOnce' /\ FreshUntilLeased'
    <3>1. \A i \in Job : job[i].st = "pending" => i \notin Expired
      BY DEF Expired
    <3>2. ASSUME NEW i \in Job, i # k
          PROVE  /\ job'[i].gen = job[i].gen
                 /\ job'[i].st = "pending" => job[i].st = "pending" /\ (~job[i].quar => ~job'[i].quar)
      <4>1. job'[i].gen = job[i].gen /\ job'[i].quar = (job[i].quar \/ i \in Expired)
        BY <2>2, <3>2, SweepFacts
      <4>2. job'[i].st = "pending" => job[i].st = "pending"
        BY <2>2, <3>2, SweepFacts
      <4> QED BY <3>1, <4>1, <4>2
    <3>3. LeasedOnce'
      BY <2>2, <3>2 DEF LeasedOnce
    <3>4. FreshUntilLeased'
      BY <2>2, <3>2 DEF FreshUntilLeased
    <3> QED BY <3>3, <3>4
  <2>9. ResumingAdmitted'
    <3>1. \A q \in Run : status[q] # "none" => status'[q] # "none"
      BY <2>3, SweepFacts
    <3> QED BY <1>1, <3>1 DEF ResumingAdmitted, TypeOK
  <2> QED BY <2>5, <2>6, <2>7, <2>8, <2>9
<1> QED BY <1>2, <1>3 DEF Claim

\* A run that was never admitted has no active job, and a run that resume_run may
\* enqueue and that has no active job waits or has ended.
LEMMA AdmissionAttempt ==
    ASSUME TypeOK, AttemptInv, NEW r \in Run,
           AcceptRun(r) \/ \E j \in Job, w \in Worker : AcceptChild(r, j, w)
    PROVE  AttemptInv'
<1>1. /\ Insert(r, "start", 0, FALSE)
      /\ status[r] = "none" /\ status' = [status EXCEPT ![r] = "queued"]
      /\ resuming' = resuming
  BY DEF AcceptRun, AcceptChild
<1>2. ~HasActive(r)
  BY <1>1 DEF AttemptInv, JobMatchesStatus, HasActive, Active, Terminal
<1>3. /\ \A q \in Run : q # r => status'[q] = status[q]
      /\ status'[r] = "queued" /\ status' \in [Run -> RunStatus]
  BY <1>1 DEF TypeOK, RunStatus
<1> QED BY <1>1, <1>2, <1>3, InsertAttempt

\* Inserting a resume job, for a run that waits or, late, has ended.
LEMMA ResumeAttempt ==
    ASSUME TypeOK, AttemptInv, NEW r \in Run, NEW c, NEW late \in BOOLEAN, status' = status,
           resuming' \subseteq resuming,
           \/ /\ Insert(r, "resume", c, late) /\ ~HasActive(r)
              /\ status[r] = "waiting" \/ (late /\ status[r] \in Terminal)
           \/ UNCHANGED <<job, nJobs>>
    PROVE  AttemptInv'
<1>1. CASE UNCHANGED <<job, nJobs>>
  BY <1>1, FrameAttempt
<1>2. CASE /\ Insert(r, "resume", c, late) /\ ~HasActive(r)
           /\ status[r] = "waiting" \/ (late /\ status[r] \in Terminal)
  <2>1. status' \in [Run -> RunStatus] /\ status'[r] # "none"
    BY <1>2 DEF TypeOK, Terminal
  <2> QED BY <1>2, <2>1, InsertAttempt
<1> QED BY <1>1, <1>2

\* Every step keeps the inductive invariant.
LEMMA StepAttempt == TypeOK /\ AttemptInv /\ [Next]_vars => AttemptInv'
<1> SUFFICES ASSUME TypeOK, AttemptInv, [Next]_vars PROVE AttemptInv'
  OBVIOUS
<1>1. ASSUME NEW w \in Worker, Claim(w) PROVE AttemptInv'
  BY <1>1, ClaimAttempt
<1>2. ASSUME NEW j \in Job, Tick(j) \/ \E w \in Worker : Renew(j, w)
      PROVE  AttemptInv'
  <2>1. /\ status' = status /\ resuming' = resuming
        /\ \E l : job' = [job EXCEPT ![j].lease = l]
    BY <1>2 DEF Tick, Renew
  <2>2. \A i \in Job : /\ job'[i].run = job[i].run /\ job'[i].st = job[i].st
                       /\ job'[i].quar = job[i].quar /\ job'[i].kind = job[i].kind
                       /\ job'[i].late = job[i].late /\ job'[i].gen = job[i].gen
    BY <2>1 DEF TypeOK, JobRecord
  <2> QED BY <2>1, <2>2, FrameAttempt
<1>3. ASSUME NEW j \in Job, NEW w \in Worker, NEW o \in Outcome, CommitResult(j, w, o)
      PROVE  AttemptInv'
  <2> DEFINE s == SettledOutcome(job[j].run, o)
  <2>1. s \in Terminal \cup {"waiting"} /\ JobStatusFor(s) \in {"completed", "canceled", "dead"}
    BY DEF SettledOutcome, Outcome, Terminal, JobStatusFor
  <2>2. /\ job[j].st = "leased" /\ status' = [status EXCEPT ![job[j].run] = s]
        /\ job' = [job EXCEPT ![j].st = JobStatusFor(s), ![j].lease = 0]
        /\ resuming' = resuming
    BY <1>3 DEF CommitResult, Fenced
  <2> HIDE DEF s
  <2>3. /\ \A i \in Job : i # j => job'[i] = job[i]
        /\ job'[j].st \in {"completed", "canceled", "dead"}
        /\ job'[j].run = job[j].run /\ job'[j].gen = job[j].gen
    BY <2>1, <2>2 DEF TypeOK, JobRecord
  <2> QED BY <2>1, <2>2, <2>3, CloseAttempt
<1>4. ASSUME NEW j \in Job, NEW w \in Worker, ConfirmCleanup(j, w) PROVE AttemptInv'
  <2>1. /\ job[j].st = "leased" /\ job[j].quar
        /\ job' = [job EXCEPT ![j].st = "dead", ![j].lease = 0]
        /\ resuming' = resuming
    BY <1>4 DEF ConfirmCleanup
  <2>2. status[job[j].run] = "cleanup_required"
    BY <2>1 DEF AttemptInv, JobMatchesStatus
  <2>3. status' = [status EXCEPT ![job[j].run] = "failed"]
    BY <1>4, <2>2 DEF ConfirmCleanup
  <2>4. /\ \A i \in Job : i # j => job'[i] = job[i]
        /\ job'[j].st = "dead" /\ job'[j].run = job[j].run /\ job'[j].gen = job[j].gen
    BY <2>1 DEF TypeOK, JobRecord
  <2> QED BY <2>1, <2>3, <2>4, CloseAttempt DEF Terminal
<1>5. ASSUME NEW j \in Job, NEW w \in Worker, Quarantine(j, w) \/ EnsureLostQuarantined(j, w)
      PROVE  AttemptInv'
  BY <1>5, QuarantineAttempt DEF Quarantine, EnsureLostQuarantined, Fenced
<1>6. ASSUME NEW j \in Job, NEW w \in Worker, AttemptStep(j, w) PROVE AttemptInv'
  <2>1. CASE Renew(j, w)
    BY <1>2, <2>1
  <2>2. CASE \E r \in Run : AcceptChild(r, j, w)
    BY <2>2, AdmissionAttempt
  <2>3. CASE \E o \in Outcome : CommitResult(j, w, o)
    BY <1>3, <2>3
  <2>4. CASE Quarantine(j, w) \/ EnsureLostQuarantined(j, w) \/ ConfirmCleanup(j, w)
    BY <1>4, <1>5, <2>4
  <2>5. CASE \E S \in SUBSET (Ask \cup Tool) : OpenWait(j, w, S)
    <3>1. job' = [job EXCEPT ![j].asked = TRUE] /\ status' = status /\ resuming' = resuming
      BY <2>5 DEF OpenWait
    <3>2. \A i \in Job : /\ job'[i].run = job[i].run /\ job'[i].st = job[i].st
                         /\ job'[i].quar = job[i].quar /\ job'[i].kind = job[i].kind
                         /\ job'[i].late = job[i].late /\ job'[i].gen = job[i].gen
      BY <3>1 DEF TypeOK, JobRecord
    <3> QED BY <3>1, <3>2, FrameAttempt
  <2>6. CASE \/ \E t \in Tool : \/ PrepareTool(j, w, t) \/ BeginTool(j, w, t)
                                \/ RecoverTool(j, w, t)
                                \/ \E s \in ToolOutcome : SettleTool(j, w, t, s)
             \/ ReserveCall(j, w)
             \/ \E u \in BOOLEAN : EndCall(j, w, u)
    <3>1. UNCHANGED <<status, job, resuming>>
      BY <2>6 DEF PrepareTool, BeginTool, RecoverTool, SettleTool, ReserveCall, EndCall
    <3> QED BY <3>1, FrameAttempt
  <2> QED BY <1>6, <2>1, <2>2, <2>3, <2>4, <2>5, <2>6 DEF AttemptStep
<1>7. ASSUME NEW r \in Run, OrphanFail(r) PROVE AttemptInv'
  <2>1. /\ ~HasActive(r) /\ status' = [status EXCEPT ![r] = "failed"]
        /\ UNCHANGED <<job, resuming>>
    BY <1>7 DEF OrphanFail
  <2>2. \A q \in Run : status'[q] = IF q = r THEN "failed" ELSE status[q]
    BY <2>1 DEF TypeOK
  <2>3. \A j \in Job : Active(job, j) => job[j].run \in Run /\ job[j].run # r
    BY <2>1, RowRun DEF HasActive, Active
  <2>4. JobMatchesStatus'
    BY <2>1, <2>2, <2>3 DEF AttemptInv, JobMatchesStatus, Active
  <2>5. NoStrandedRun'
    BY <2>1, <2>2 DEF AttemptInv, NoStrandedRun, HasActive, Active
  <2>6. OneActiveJob' /\ LeasedOnce' /\ FreshUntilLeased' /\ ResumingAdmitted'
    BY <2>1, <2>2 DEF AttemptInv, OneActiveJob, LeasedOnce, FreshUntilLeased,
                      ResumingAdmitted, Active, TypeOK
  <2> QED BY <2>4, <2>5, <2>6 DEF AttemptInv
<1>8. ASSUME NEW r \in Run, NEW c \in 1..MaxCycles, EnqueueResume(r, c) PROVE AttemptInv'
  <2>1. <<r, c>> \in resuming /\ resuming' \subseteq resuming /\ status' = status
    BY <1>8 DEF EnqueueResume
  <2>2. CASE HasActive(r)
    BY <1>8, <2>1, <2>2, FrameAttempt DEF EnqueueResume
  <2>3. CASE ~HasActive(r)
    <3>1. status[r] \in {"waiting"} \cup Terminal
      <4>1. status[r] \in RunStatus /\ status[r] # "none"
        BY <2>1 DEF AttemptInv, ResumingAdmitted, TypeOK
      <4>2. status[r] \notin {"queued", "running", "cleanup_required"}
        BY <2>3 DEF AttemptInv, NoStrandedRun, HasActive
      <4> QED BY <4>1, <4>2 DEF RunStatus, Published
    <3>2. Insert(r, "resume", c, status[r] \in Terminal)
      BY <1>8, <2>3 DEF EnqueueResume
    <3> DEFINE late == status[r] \in Terminal
    <3>3. late \in BOOLEAN /\ (status[r] = "waiting" \/ (late /\ status[r] \in Terminal))
      BY <3>1
    <3> HIDE DEF late
    <3> QED BY <2>1, <2>3, <3>2, <3>3, ResumeAttempt DEF late
  <2> QED BY <2>2, <2>3
<1>9. ASSUME NEW r \in Run, RunStep(r) PROVE AttemptInv'
  <2>1. CASE AcceptRun(r)
    BY <2>1, AdmissionAttempt
  <2>2. CASE RequestCancel(r)
    BY <2>2, CancelAttempt DEF RequestCancel
  <2>3. CASE OrphanFail(r)
    BY <1>7, <2>3
  <2>4. ASSUME NEW c \in 1..MaxCycles, ReplayDecision(r, c) PROVE AttemptInv'
    BY <2>4, ResumeAttempt DEF ReplayDecision
  <2>5. ASSUME NEW c \in 1..MaxCycles, BeginResume(r, c) PROVE AttemptInv'
    <3>1. /\ UNCHANGED <<status, job>> /\ status[r] = "waiting"
          /\ resuming' = resuming \cup {<<r, c>>}
      BY <2>5 DEF BeginResume, tables
    <3> QED BY <3>1 DEF AttemptInv, OneActiveJob, JobMatchesStatus, NoStrandedRun, HasActive,
                        LeasedOnce, FreshUntilLeased, ResumingAdmitted, Active
  <2>6. ASSUME NEW c \in 1..MaxCycles, AbandonResume(r, c) PROVE AttemptInv'
    BY <2>6, FrameAttempt DEF AbandonResume, tables
  <2>7. ASSUME NEW c \in 1..MaxCycles, NEW x \in Ask \cup Tool, Decide(r, c, x)
        PROVE  AttemptInv'
    BY <2>7, ResumeAttempt DEF Decide, ResumeIfResolved
  <2>8. ASSUME NEW c \in 1..MaxCycles, NEW x \in Ask \cup Tool, DecideByRoute(r, c, x)
        PROVE  AttemptInv'
    BY <2>8, FrameAttempt DEF DecideByRoute
  <2> QED BY <1>8, <1>9, <2>1, <2>2, <2>3, <2>4, <2>5, <2>6, <2>7, <2>8 DEF RunStep
<1>10. CASE UNCHANGED vars
  BY <1>10, FrameAttempt DEF vars
<1> QED BY <1>1, <1>2, <1>6, <1>9, <1>10 DEF Next

\* The invariant holds in every reachable state of every instance.
THEOREM AttemptInvariant == Spec => [](TypeOK /\ AttemptInv)
<1>1. Init => TypeOK /\ AttemptInv
  BY InitType, InitAttempt
<1>2. TypeOK /\ AttemptInv /\ [Next]_vars => (TypeOK /\ AttemptInv)'
  BY StepType, StepAttempt
<1> QED BY <1>1, <1>2, PTL DEF Spec

\* No interleaving of commands, decisions, resume calls, sweeps and lost leases
\* gives a run a second pending or leased job.
THEOREM AttemptIsUnique == Spec => []OneActiveJob
BY AttemptInvariant, PTL DEF AttemptInv

\* A run's status and its live job tell the same story in every reachable state.
THEOREM StatusAgrees == Spec => []JobMatchesStatus
BY AttemptInvariant, PTL DEF AttemptInv

\* A run that has not ended and does not wait always has the job that will move it.
THEOREM NothingStranded == Spec => []NoStrandedRun
BY AttemptInvariant, PTL DEF AttemptInv

\* A job is leased at most once: a lost attempt is never executed again.
THEOREM AttemptRunsOnce == Spec => []LeasedOnce
BY AttemptInvariant, PTL DEF AttemptInv

-----------------------------------------------------------------------------
(* An end is final, but for a resume job that was enqueued too late.       *)

\* The only active job of a run that has ended is a late resume job.
LEMMA EndedPending ==
    ASSUME AttemptInv, NEW j \in Job, status[job[j].run] \in Terminal, Active(job, j)
    PROVE  job[j].st = "pending" /\ job[j].late
BY DEF AttemptInv, JobMatchesStatus, Active, Terminal

\* The only way out of a terminal status is a resume job enqueued too late.
THEOREM EndedStaysEnded == Spec => OnlyLateJobRevives
<1> DEFINE Revival(r) == \E j \in Job : job[j].run = r /\ job[j].late /\ job[j].st = "pending"
           A == \A r \in Run : status[r] \in Terminal /\ status'[r] # status[r] => Revival(r)
<1>1. TypeOK /\ AttemptInv /\ [Next]_vars => [A]_vars
  <2> SUFFICES ASSUME TypeOK, AttemptInv, Next,
                      NEW r \in Run, status[r] \in Terminal, status'[r] # status[r]
               PROVE  Revival(r)
    BY DEF vars
\* Whatever a run's active job is, once the run has ended it is the late one.
  <2>1. ASSUME NEW j \in Job, job[j].run = r, Active(job, j) PROVE Revival(r)
    BY <2>1, EndedPending
  <2>2. ASSUME NEW w \in Worker, Claim(w) PROVE Revival(r)
    <3>1. CASE r \in Blocked
      <4>1. PICK j \in Job : SweptJob[j].run = r /\ SweptJob[j].st = "pending"
        BY <3>1 DEF Blocked
      <4>2. job[j].run = r /\ job[j].st = "pending"
        BY <4>1, SweepFacts
      <4> QED BY <2>1, <4>2 DEF Active
    <3>2. CASE \E j \in Expired : job[j].run = r
      BY <2>1, <3>2 DEF Expired, Active
    <3>3. ASSUME r \notin Blocked, ~\E j \in Expired : job[j].run = r, NEW k \in Job, Oldest(k),
                 status' = [UnblockedStatus EXCEPT ![UnblockedJob[k].run] = "running"]
          PROVE  Revival(r)
      <4>1. job[k].run = r
        BY <3>3, SweepFacts, SweepType
      <4>2. job[k].st = "pending"
        BY <3>3, SweepFacts DEF Oldest, Claimable
      <4> QED BY <2>1, <4>1, <4>2 DEF Active
    <3>4. CASE r \notin Blocked /\ (~\E j \in Expired : job[j].run = r) /\ status' = UnblockedStatus
      BY <3>4, SweepFacts
    <3> QED BY <2>2, <3>1, <3>2, <3>3, <3>4 DEF Claim
  <2>3. ASSUME NEW j \in Job, job[j].st = "leased", job[j].run = r PROVE Revival(r)
    BY <2>1, <2>3 DEF Active
  <2>4. ASSUME NEW j \in Job, NEW w \in Worker, AttemptStep(j, w) PROVE Revival(r)
    <3>1. ASSUME NEW q \in Run, AcceptChild(q, j, w) PROVE Revival(r)
      BY <3>1 DEF AcceptChild, TypeOK, Terminal
    <3>2. ASSUME NEW o \in Outcome, CommitResult(j, w, o) PROVE Revival(r)
      BY <2>3, <3>2 DEF CommitResult, Fenced, TypeOK
    <3>3. CASE Quarantine(j, w) \/ EnsureLostQuarantined(j, w)
      BY <2>3, <3>3 DEF Quarantine, EnsureLostQuarantined, QuarantineJob, Fenced, TypeOK
    <3>4. CASE ConfirmCleanup(j, w)
      BY <2>3, <3>4 DEF ConfirmCleanup, TypeOK
    <3>5. CASE status' = status
      BY <3>5
    <3> QED BY <2>4, <3>1, <3>2, <3>3, <3>4, <3>5
            DEF AttemptStep, Renew, OpenWait, PrepareTool, BeginTool, RecoverTool, SettleTool,
                ReserveCall, EndCall
  <2>5. ASSUME NEW q \in Run, RunStep(q) PROVE Revival(r)
    <3>1. CASE AcceptRun(q)
      BY <3>1 DEF AcceptRun, TypeOK, Terminal
    <3>2. CASE OrphanFail(q)
      BY <3>2 DEF OrphanFail, TypeOK, Terminal
    <3>3. CASE CancelTree(q)
      <4>1. r \in CancelNow({q} \cup Children(q))
        BY <3>3 DEF CancelTree
      <4>2. LiveJob(r, "pending") # {}
        BY <4>1 DEF CancelNow, Terminal
      <4> QED BY <2>1, <4>2 DEF LiveJob, Active
    <3>4. CASE status' = status
      BY <3>4
    <3> QED BY <2>5, <3>1, <3>2, <3>3, <3>4
            DEF RunStep, RequestCancel, ReplayDecision, BeginResume, EnqueueResume,
                AbandonResume, Decide, DecideByRoute, tables
  <2>6. ASSUME NEW j \in Job, Tick(j) PROVE Revival(r)
    BY <2>6 DEF Tick
  <2> QED BY <2>2, <2>4, <2>5, <2>6 DEF Next
<1> QED BY <1>1, AttemptInvariant, PTL DEF Spec, OnlyLateJobRevives

-----------------------------------------------------------------------------
(* The tables implement the lifecycle of module RunLifecycle.              *)

\* Reading the refinement mapping: the holder of a run with a leased row is that
\* row's owner, there being only one.
LEMMA HolderOf ==
    OneActiveJob => \A j \in Job : job[j].run \in Run /\ job[j].st = "leased" =>
                        RunHolder[job[j].run] = job[j].owner
<1> SUFFICES ASSUME OneActiveJob, NEW j \in Job, job[j].run \in Run, job[j].st = "leased"
             PROVE  RunHolder[job[j].run] = job[j].owner
  OBVIOUS
<1>1. \A i \in LeasedJobs(job[j].run) : i = j
  BY DEF LeasedJobs, OneActiveJob, Active
<1>2. j \in LeasedJobs(job[j].run)
  BY DEF LeasedJobs
<1>3. (CHOOSE i \in LeasedJobs(job[j].run) : TRUE) = j
  BY <1>1, <1>2
<1> QED BY <1>2, <1>3 DEF RunHolder

\* The same after a step.
LEMMA HolderNext ==
    ASSUME OneActiveJob', NEW r \in Run, NEW j \in Job, job'[j].run = r, job'[j].st = "leased"
    PROVE  RunHolder'[r] = job'[j].owner
<1>1. LeasedJobs(r)' = {j}
  BY DEF LeasedJobs, OneActiveJob, Active
<1>2. (CHOOSE i \in {j} : TRUE) = j
  OBVIOUS
<1> QED BY <1>1, <1>2 DEF RunHolder

\* The mapped state after a step is one of the lifecycle.
LEMMA MappedNext ==
    ASSUME TypeOK'
    PROVE  /\ RunPhase' \in [Run -> Lifecycle!Phase]
           /\ RunHolder' \in [Run -> Worker \cup {NoWorker}]
           /\ RunOwed' \in [Run -> BOOLEAN]
<1>1. \A r \in Run : PhaseOf(status[r])' \in Lifecycle!Phase
  BY DEF TypeOK, PhaseOf, RunStatus, Published, Terminal, Lifecycle!Phase
<1>2. ASSUME NEW r \in Run, LeasedJobs(r)' # {}
      PROVE  job'[CHOOSE j \in LeasedJobs(r)' : TRUE].owner \in Worker \cup {NoWorker}
  <2>1. (CHOOSE j \in LeasedJobs(r)' : TRUE) \in Job
    BY <1>2 DEF LeasedJobs
  <2> QED BY <2>1 DEF TypeOK, JobRecord
<1>3. RunPhase' \in [Run -> Lifecycle!Phase]
  BY <1>1 DEF RunPhase
<1>4. RunHolder' \in [Run -> Worker \cup {NoWorker}]
  BY <1>2 DEF RunHolder
<1>5. RunOwed' \in [Run -> BOOLEAN]
  BY DEF RunOwed
<1> QED BY <1>3, <1>4, <1>5

\* Where a step leaves a run: idle, owed an execution by a pending row, or held
\* by the owner of a leased row.
LEMMA ToIdle ==
    ASSUME NEW r \in Run, \A j \in Job : job'[j].run = r => ~Active(job', j)
    PROVE  Lifecycle!To(r, PhaseOf(status'[r]), NoWorker, FALSE)
<1>1. RunOwed'[r] = FALSE /\ RunPhase'[r] = PhaseOf(status'[r])
  BY DEF RunOwed, RunPhase, Active, PhaseOf
<1>2. RunHolder'[r] = NoWorker
  <2>1. LeasedJobs(r)' = {}
    BY DEF LeasedJobs, Active
  <2> QED BY <2>1 DEF RunHolder
<1> QED BY <1>1, <1>2 DEF Lifecycle!To

\* The run is owed an execution: it has a pending row, so no leased one.
LEMMA ToOwed ==
    ASSUME OneActiveJob', NEW r \in Run, NEW j \in Job, job'[j].run = r, job'[j].st = "pending"
    PROVE  Lifecycle!To(r, PhaseOf(status'[r]), NoWorker, TRUE)
<1>1. RunOwed'[r] = TRUE /\ RunPhase'[r] = PhaseOf(status'[r])
  BY DEF RunOwed, RunPhase, PhaseOf
<1>2. RunHolder'[r] = NoWorker
  <2>1. LeasedJobs(r)' = {}
    BY DEF LeasedJobs, OneActiveJob, Active
  <2> QED BY <2>1 DEF RunHolder
<1> QED BY <1>1, <1>2 DEF Lifecycle!To

\* The run is held: it has a leased row, so no pending one.
LEMMA ToHeld ==
    ASSUME OneActiveJob', NEW r \in Run, NEW j \in Job, job'[j].run = r, job'[j].st = "leased"
    PROVE  Lifecycle!To(r, PhaseOf(status'[r]), job'[j].owner, FALSE)
<1>1. RunOwed'[r] = FALSE /\ RunPhase'[r] = PhaseOf(status'[r])
  BY DEF RunOwed, RunPhase, PhaseOf, OneActiveJob, Active
<1>2. RunHolder'[r] = job'[j].owner
  BY HolderNext
<1> QED BY <1>1, <1>2 DEF Lifecycle!To

\* Where it finds one.
LEMMA FromState ==
    ASSUME TypeOK, AttemptInv, NEW r \in Run
    PROVE  /\ RunPhase[r] = PhaseOf(status[r])
           /\ RunOwed[r] = \E j \in Job : job[j].run = r /\ job[j].st = "pending"
           /\ \A j \in Job : job[j].run = r /\ job[j].st = "leased" =>
                                RunHolder[r] = job[j].owner /\ RunOwed[r] = FALSE
           /\ (\A j \in Job : job[j].run = r => job[j].st # "leased") =>
                                RunHolder[r] = NoWorker
<1>1. RunPhase[r] = PhaseOf(status[r])
  BY DEF RunPhase
<1>2. RunOwed[r] = \E j \in Job : job[j].run = r /\ job[j].st = "pending"
  BY DEF RunOwed
<1>3. ASSUME NEW j \in Job, job[j].run = r, job[j].st = "leased"
      PROVE  RunHolder[r] = job[j].owner /\ RunOwed[r] = FALSE
  BY <1>3, HolderOf DEF AttemptInv, RunOwed, OneActiveJob, Active
<1>4. ASSUME \A j \in Job : job[j].run = r => job[j].st # "leased"
      PROVE  RunHolder[r] = NoWorker
  BY <1>4 DEF RunHolder, LeasedJobs
<1> QED BY <1>1, <1>2, <1>3, <1>4

\* A run stays where it is if its status does and its rows keep their state and
\* their owner.
LEMMA StillStep ==
    ASSUME TypeOK, AttemptInv, AttemptInv', NEW r \in Run, status'[r] = status[r],
           \A j \in Job : /\ job'[j].run = r <=> job[j].run = r
                          /\ job[j].run = r => job'[j].st = job[j].st
                          /\ job[j].run = r /\ job[j].st = "leased" => job'[j].owner = job[j].owner
    PROVE  Lifecycle!Still(r)
<1>0. OneActiveJob'
  BY DEF AttemptInv
<1>1. CASE \E j \in Job : job[j].run = r /\ job[j].st = "leased"
  <2> PICK j \in Job : job[j].run = r /\ job[j].st = "leased"
    BY <1>1
  <2>1. job'[j].run = r /\ job'[j].st = "leased" /\ job'[j].owner = job[j].owner
    OBVIOUS
  <2>2. Lifecycle!To(r, PhaseOf(status'[r]), job'[j].owner, FALSE)
    BY <1>0, <2>1, ToHeld
  <2>3. RunPhase[r] = PhaseOf(status[r]) /\ RunHolder[r] = job[j].owner /\ RunOwed[r] = FALSE
    BY FromState
  <2> QED BY <2>1, <2>2, <2>3 DEF Lifecycle!Still
<1>2. CASE \E j \in Job : job[j].run = r /\ job[j].st = "pending"
  <2> PICK j \in Job : job[j].run = r /\ job[j].st = "pending"
    BY <1>2
  <2>1. job'[j].run = r /\ job'[j].st = "pending"
    OBVIOUS
  <2>2. \A i \in Job : job[i].run = r => job[i].st # "leased"
    BY DEF AttemptInv, OneActiveJob, Active
  <2>3. Lifecycle!To(r, PhaseOf(status'[r]), NoWorker, TRUE)
    BY <1>0, <2>1, ToOwed
  <2>4. RunPhase[r] = PhaseOf(status[r]) /\ RunHolder[r] = NoWorker
    BY <2>2, FromState
  <2>5. RunOwed[r] = TRUE
    BY DEF RunOwed
  <2> QED BY <2>3, <2>4, <2>5 DEF Lifecycle!Still
<1>3. CASE \A j \in Job : job[j].run = r => ~Active(job, j)
  <2>1. \A j \in Job : job'[j].run = r => ~Active(job', j)
    BY <1>3 DEF Active
  <2>2. /\ \A j \in Job : job[j].run = r => job[j].st # "leased"
        /\ ~\E j \in Job : job[j].run = r /\ job[j].st = "pending"
    BY <1>3 DEF Active
  <2>3. RunHolder[r] = NoWorker /\ RunOwed[r] = FALSE
    BY <2>2, FromState
  <2> QED BY <2>1, <2>3, ToIdle, FromState DEF Lifecycle!Still
<1> QED BY <1>1, <1>2, <1>3 DEF Active

\* A step after which a run is running only if it was before grants nothing.
LEMMA NoGrant ==
    ASSUME TypeOK, AttemptInv,
           \A q \in Run : status'[q] = "running" => status[q] = "running"
    PROVE  \A q \in Run : ~Lifecycle!Granted(q)
<1> SUFFICES ASSUME NEW q \in Run, Lifecycle!Granted(q) PROVE FALSE
  OBVIOUS
<1>1. PICK j \in Job : job[j].run = q /\ job[j].st = "pending"
  BY FromState DEF Lifecycle!Granted
<1>2. RunPhase'[q] = PhaseOf(status'[q]) /\ RunPhase'[q] = "running"
  BY DEF Lifecycle!Granted, RunPhase, PhaseOf
<1>3. status'[q] = "running"
  BY <1>2 DEF PhaseOf
<1> QED BY <1>1, <1>3 DEF AttemptInv, JobMatchesStatus, Terminal

\* A run whose rows a step does not touch stays where it is.
LEMMA UntouchedStep ==
    ASSUME TypeOK, AttemptInv, AttemptInv', NEW r \in Run, status'[r] = status[r],
           \A j \in Job : job'[j] = job[j] \/ (job[j].run # r /\ job'[j].run # r)
    PROVE  Lifecycle!Still(r)
<1>1. \A j \in Job : /\ job'[j].run = r <=> job[j].run = r
                     /\ job[j].run = r => job'[j] = job[j]
  OBVIOUS
<1> QED BY <1>1, StillStep

\* A sweep drops and fences runs; only the run whose job is leased is granted.
LEMMA ClaimMoves ==
    ASSUME TypeOK, AttemptInv, AttemptInv', NEW w \in Worker, Claim(w)
    PROVE  /\ \A r \in Run : Lifecycle!Move(r)
           /\ \A q, r \in Run : Lifecycle!Granted(q) /\ Lifecycle!Granted(r) => q = r
<1>0. OneActiveJob'
  BY DEF AttemptInv
\* What a sweep does to a run, if no row of it is claimed as well.
<1>1. ASSUME NEW r \in Run, status'[r] = UnblockedStatus[r],
             \A j \in Job : job[j].run = r => job'[j] = UnblockedJob[j],
             \A j \in Job : job'[j].run = job[j].run
      PROVE  Lifecycle!Move(r)
  <2>1. CASE r \in Blocked
    <3>1. PICK j \in Job : SweptJob[j].run = r /\ SweptJob[j].st = "pending"
      BY <2>1 DEF Blocked
    <3>2. RunOwed[r]
      <4>1. job[j].run = r /\ job[j].st = "pending"
        BY <3>1, SweepFacts
      <4> QED BY <4>1, FromState
    <3>3. \A i \in Job : job'[i].run = r => ~Active(job', i)
      BY <1>1, <2>1, SweepFacts DEF Active
    <3>4. PhaseOf(status'[r]) = "ended"
      BY <1>1, <2>1, SweepFacts DEF PhaseOf, Terminal
    <3> QED BY <3>2, <3>3, <3>4, ToIdle DEF Lifecycle!Move, Lifecycle!Drop
  <2>2. CASE r \notin Blocked /\ \E j \in Expired : job[j].run = r
    <3> PICK j \in Expired : job[j].run = r
      BY <2>2
    <3>1. j \in Job /\ job[j].st = "leased" /\ ~job[j].quar
      BY DEF Expired
    <3>2. job'[j].run = r /\ job'[j].st = "leased" /\ job'[j].owner = job[j].owner
      BY <1>1, <3>1, SweepFacts
    <3>3. PhaseOf(status[r]) = "running" /\ PhaseOf(status'[r]) = "fenced"
      BY <1>1, <2>2, <3>1, SweepFacts DEF PhaseOf, Terminal, AttemptInv, JobMatchesStatus
    <3> QED BY <1>0, <3>1, <3>2, <3>3, ToHeld, FromState DEF Lifecycle!Move, Lifecycle!Fence
  <2>3. CASE r \notin Blocked /\ ~\E j \in Expired : job[j].run = r
    <3>1. status'[r] = status[r]
      BY <1>1, <2>3, SweepFacts
    <3>2. \A j \in Job : /\ job'[j].run = r <=> job[j].run = r
                         /\ job[j].run = r => job'[j].st = job[j].st
                         /\ job[j].run = r /\ job[j].st = "leased" => job'[j].owner = job[j].owner
      BY <1>1, <2>3, SweepFacts
    <3> QED BY <3>1, <3>2, StillStep DEF Lifecycle!Move
  <2> QED BY <2>1, <2>2, <2>3
<1>2. CASE job' = UnblockedJob /\ status' = UnblockedStatus
  <2>1. \A r \in Run : Lifecycle!Move(r)
    BY <1>1, <1>2, SweepFacts
  <2>2. \A q \in Run : status'[q] = "running" => status[q] = "running"
    BY <1>2, SweepFacts
  <2> QED BY <2>1, <2>2, NoGrant
<1>3. ASSUME NEW k \in Job, Oldest(k),
             job' = [UnblockedJob EXCEPT ![k].st = "leased", ![k].owner = w,
                                         ![k].gen = @ + 1, ![k].lease = LeaseTicks],
             status' = [UnblockedStatus EXCEPT ![UnblockedJob[k].run] = "running"]
      PROVE  /\ \A r \in Run : Lifecycle!Move(r)
             /\ \A q, r \in Run : Lifecycle!Granted(q) /\ Lifecycle!Granted(r) => q = r
  <2>1. /\ job[k].st = "pending" /\ UnblockedJob[k].run = job[k].run /\ job[k].run \in Run
    BY <1>3, SweepFacts, RowRun DEF Oldest, Claimable
  <2>2. UnblockedJob \in [Job -> JobRecord] /\ UnblockedStatus \in [Run -> RunStatus]
    BY SweepType
  <2>3. /\ \A i \in Job : i # k => job'[i] = UnblockedJob[i]
        /\ job'[k].run = job[k].run /\ job'[k].st = "leased" /\ job'[k].owner = w
    BY <1>3, <2>1, <2>2 DEF JobRecord
  <2>4. /\ status'[job[k].run] = "running"
        /\ \A q \in Run : q # job[k].run => status'[q] = UnblockedStatus[q]
    BY <1>3, <2>1, <2>2
  <2>5. Lifecycle!Move(job[k].run)
    <3>1. RunOwed[job[k].run]
      BY <2>1, FromState
    <3>2. PhaseOf(status'[job[k].run]) = "running"
      BY <2>4 DEF PhaseOf, Terminal
    <3> QED BY <1>0, <2>1, <2>3, <3>1, <3>2, ToHeld DEF Lifecycle!Move, Lifecycle!Grant
  <2>6. ASSUME NEW r \in Run, r # job[k].run PROVE Lifecycle!Move(r)
    <3>1. \A j \in Job : job'[j].run = job[j].run
      BY <2>3, SweepFacts
    <3>2. \A j \in Job : job[j].run = r => job'[j] = UnblockedJob[j]
      BY <2>3, <2>6
    <3> QED BY <1>1, <2>4, <2>6, <3>1, <3>2
  <2>7. ASSUME NEW q \in Run, Lifecycle!Granted(q) PROVE q = job[k].run
    <3> SUFFICES ASSUME q # job[k].run PROVE FALSE
      OBVIOUS
    <3>1. PICK j \in Job : job[j].run = q /\ job[j].st = "pending"
      BY <2>7, FromState DEF Lifecycle!Granted
    <3>2. RunPhase'[q] = PhaseOf(status'[q]) /\ RunPhase'[q] = "running"
      BY <2>7 DEF Lifecycle!Granted, RunPhase, PhaseOf
    <3>3. status'[q] = "running"
      BY <3>2 DEF PhaseOf
    <3>4. status[q] = "running"
      BY <2>4, <3>3, SweepFacts
    <3> QED BY <3>1, <3>4 DEF AttemptInv, JobMatchesStatus, Terminal
  <2> QED BY <2>5, <2>6, <2>7
<1> QED BY <1>2, <1>3 DEF Claim

\* A step that inserts a row for a run without an active one, or nothing.
LEMMA InsertMoves ==
    ASSUME TypeOK, AttemptInv, AttemptInv', NEW q \in Run, NEW kind, NEW cycle, NEW late,
           Insert(q, kind, cycle, late), ~HasActive(q), NEW r \in Run,
           \A p \in Run : p # q => status'[p] = status[p],
           \/ status[q] = "none" /\ status'[q] = "queued"
           \/ status[q] \in Terminal \cup {"waiting"} /\ status'[q] = status[q]
    PROVE  Lifecycle!Move(r)
<1>0. OneActiveJob'
  BY DEF AttemptInv
<1> DEFINE k == nJobs + 1
<1>1. /\ k \in Job
      /\ job' = [job EXCEPT ![k] = FreshJob(q, kind, cycle, late)]
      /\ job[k].run = NoRun
  BY BoundAssumption DEF TypeOK, Insert
<1> HIDE DEF k
<1>2. /\ job'[k].run = q /\ job'[k].st = "pending"
      /\ \A j \in Job : j # k => job'[j] = job[j]
  BY <1>1 DEF TypeOK, FreshJob
<1>3. CASE r = q
  <2>1. Lifecycle!To(q, PhaseOf(status'[q]), NoWorker, TRUE)
    BY <1>0, <1>1, <1>2, ToOwed
  <2>2. /\ ~\E j \in Job : job[j].run = q /\ job[j].st = "pending"
    BY DEF HasActive, Active
  <2>3. RunPhase[q] = PhaseOf(status[q]) /\ ~RunOwed[q]
    BY <2>2, FromState
  <2>4. CASE status[q] = "none" /\ status'[q] = "queued"
    <3>1. PhaseOf(status[q]) = "none" /\ PhaseOf(status'[q]) = "queued"
      BY <2>4 DEF PhaseOf, Terminal
    <3> QED BY <1>3, <2>1, <2>3, <3>1 DEF Lifecycle!Move, Lifecycle!Admit
  <2>5. CASE status[q] \in Terminal \cup {"waiting"} /\ status'[q] = status[q]
    <3>1. PhaseOf(status[q]) \in {"waiting", "ended"}
      BY <2>5 DEF PhaseOf, Terminal
    <3> QED BY <1>3, <2>1, <2>3, <2>5, <3>1 DEF Lifecycle!Move, Lifecycle!Owe
  <2> QED BY <2>4, <2>5
<1>4. CASE r # q
  <2>1. \A j \in Job : job'[j] = job[j] \/ (job[j].run # r /\ job'[j].run # r)
    BY <1>1, <1>2, <1>4, NullAssumption
  <2> QED BY <1>4, <2>1, UntouchedStep DEF Lifecycle!Move
<1> QED BY <1>3, <1>4

\* An admitted run is queued, all others stay.
LEMMA AdmissionMoves ==
    ASSUME TypeOK, AttemptInv, AttemptInv', NEW q \in Run, NEW r \in Run,
           AcceptRun(q) \/ \E j \in Job, w \in Worker : AcceptChild(q, j, w)
    PROVE  Lifecycle!Move(r)
<1>1. /\ Insert(q, "start", 0, FALSE)
      /\ status[q] = "none" /\ status' = [status EXCEPT ![q] = "queued"]
  BY DEF AcceptRun, AcceptChild
<1>2. ~HasActive(q)
  BY <1>1 DEF AttemptInv, JobMatchesStatus, HasActive, Active, Terminal
<1>3. status'[q] = "queued" /\ \A p \in Run : p # q => status'[p] = status[p]
  BY <1>1 DEF TypeOK
<1> QED BY <1>1, <1>2, <1>3, InsertMoves

\* An attempt that is settled, released or fenced moves its own run only.
LEMMA AttemptMoves ==
    ASSUME TypeOK, AttemptInv, AttemptInv', NEW j \in Job, NEW w \in Worker,
           NEW r \in Run, AttemptStep(j, w)
    PROVE  Lifecycle!Move(r)
<1>0. OneActiveJob'
  BY DEF AttemptInv
<1>1. ASSUME NEW c \in Run, AcceptChild(c, j, w) PROVE Lifecycle!Move(r)
  BY <1>1, AdmissionMoves
<1>2. ASSUME NEW o \in Outcome, CommitResult(j, w, o) PROVE Lifecycle!Move(r)
  <2> DEFINE s == SettledOutcome(job[j].run, o)
  <2>1. s \in Terminal \cup {"waiting"} /\ JobStatusFor(s) \in {"completed", "canceled", "dead"}
    BY DEF SettledOutcome, Outcome, Terminal, JobStatusFor
  <2>2. /\ job[j].st = "leased" /\ status' = [status EXCEPT ![job[j].run] = s]
        /\ job' = [job EXCEPT ![j].st = JobStatusFor(s), ![j].lease = 0]
        /\ ~job[j].quar
    BY <1>2 DEF CommitResult, Fenced
  <2> HIDE DEF s
  <2>3. /\ \A i \in Job : i # j => job'[i] = job[i]
        /\ job'[j].st \in {"completed", "canceled", "dead"} /\ job'[j].run = job[j].run
    BY <2>1, <2>2 DEF TypeOK, JobRecord
  <2>4. CASE r = job[j].run
    <3>1. PhaseOf(status[r]) = "running" /\ PhaseOf(status'[r]) \in {"waiting", "ended"}
      BY <2>1, <2>2, <2>4 DEF AttemptInv, JobMatchesStatus, PhaseOf, Terminal, TypeOK
    <3>2. \A i \in Job : job'[i].run = r => ~Active(job', i)
      BY <2>2, <2>3, <2>4 DEF AttemptInv, OneActiveJob, Active
    <3> QED BY <3>1, <3>2, ToIdle, FromState DEF Lifecycle!Move, Lifecycle!Settle
  <2>5. CASE r # job[j].run
    <3>1. status'[r] = status[r]
      BY <2>2, <2>5 DEF TypeOK
    <3> QED BY <2>3, <2>5, <3>1, UntouchedStep DEF Lifecycle!Move
  <2> QED BY <2>4, <2>5
<1>3. CASE Quarantine(j, w) \/ EnsureLostQuarantined(j, w)
  <2>1. job[j].st = "leased" /\ ~job[j].quar /\ QuarantineJob(j)
    BY <1>3 DEF Quarantine, EnsureLostQuarantined, Fenced
  <2>2. /\ \A i \in Job : i # j => job'[i] = job[i]
        /\ job'[j].st = "leased" /\ job'[j].run = job[j].run /\ job'[j].owner = job[j].owner
        /\ status' = [status EXCEPT ![job[j].run] = "cleanup_required"]
    BY <2>1 DEF QuarantineJob, TypeOK, JobRecord
  <2>3. CASE r = job[j].run
    <3>1. PhaseOf(status[r]) = "running" /\ PhaseOf(status'[r]) = "fenced"
      BY <2>1, <2>2, <2>3 DEF AttemptInv, JobMatchesStatus, PhaseOf, Terminal, TypeOK
    <3>2. Lifecycle!To(r, "fenced", job[j].owner, FALSE)
      BY <1>0, <2>2, <2>3, <3>1, ToHeld
    <3>3. RunPhase[r] = "running" /\ RunHolder[r] = job[j].owner
      BY <2>1, <2>3, <3>1, FromState
    <3> QED BY <3>2, <3>3 DEF Lifecycle!Move, Lifecycle!Fence
  <2>4. CASE r # job[j].run
    <3>1. status'[r] = status[r]
      BY <2>2, <2>4 DEF TypeOK
    <3> QED BY <2>2, <2>4, <3>1, UntouchedStep DEF Lifecycle!Move
  <2> QED BY <2>3, <2>4
<1>4. CASE ConfirmCleanup(j, w)
  <2>1. /\ job[j].st = "leased" /\ job[j].quar
        /\ job' = [job EXCEPT ![j].st = "dead", ![j].lease = 0]
        /\ status[job[j].run] = "cleanup_required"
    BY <1>4 DEF ConfirmCleanup, AttemptInv, JobMatchesStatus
  <2>2. status' = [status EXCEPT ![job[j].run] = "failed"]
    BY <1>4, <2>1 DEF ConfirmCleanup
  <2>3. /\ \A i \in Job : i # j => job'[i] = job[i]
        /\ job'[j].st = "dead" /\ job'[j].run = job[j].run
    BY <2>1 DEF TypeOK, JobRecord
  <2>4. CASE r = job[j].run
    <3>1. PhaseOf(status[r]) = "fenced" /\ PhaseOf(status'[r]) = "ended"
      BY <2>1, <2>2, <2>4 DEF PhaseOf, Terminal, TypeOK
    <3>2. \A i \in Job : job'[i].run = r => ~Active(job', i)
      BY <2>1, <2>3, <2>4 DEF AttemptInv, OneActiveJob, Active
    <3> QED BY <3>1, <3>2, ToIdle, FromState DEF Lifecycle!Move, Lifecycle!Release
  <2>5. CASE r # job[j].run
    <3>1. status'[r] = status[r]
      BY <2>2, <2>5 DEF TypeOK
    <3> QED BY <2>3, <2>5, <3>1, UntouchedStep DEF Lifecycle!Move
  <2> QED BY <2>4, <2>5
<1>5. CASE status' = status /\ \/ job' = job
                               \/ \E l : job' = [job EXCEPT ![j].lease = l]
                               \/ job' = [job EXCEPT ![j].asked = TRUE]
  <2>1. ASSUME NEW i \in Job
        PROVE  job'[i].run = job[i].run /\ job'[i].st = job[i].st /\ job'[i].owner = job[i].owner
    <3>1. job[i] \in JobRecord
      BY DEF TypeOK
    <3>2. CASE job' = job
      BY <3>2
    <3>3. ASSUME NEW l, job' = [job EXCEPT ![j].lease = l]
          PROVE  job'[i].run = job[i].run /\ job'[i].st = job[i].st /\ job'[i].owner = job[i].owner
      BY <3>1, <3>3 DEF TypeOK, JobRecord
    <3>4. CASE job' = [job EXCEPT ![j].asked = TRUE]
      BY <3>1, <3>4 DEF TypeOK, JobRecord
    <3> QED BY <1>5, <3>2, <3>3, <3>4
  <2> QED BY <1>5, <2>1, StillStep DEF Lifecycle!Move
<1> QED BY <1>1, <1>2, <1>3, <1>4, <1>5
        DEF AttemptStep, Renew, OpenWait, PrepareTool, BeginTool, RecoverTool, SettleTool,
            ReserveCall, EndCall

\* A tree cancel drops the runs that were owed an execution or waited.
LEMMA CancelMoves ==
    ASSUME TypeOK, AttemptInv, AttemptInv', NEW q \in Run, CancelTree(q), NEW r \in Run
    PROVE  Lifecycle!Move(r)
<1> DEFINE gone == CancelNow({q} \cup Children(q))
<1>1. ASSUME NEW i \in Job
      PROVE  /\ job'[i].run = job[i].run /\ job'[i].owner = job[i].owner
             /\ job'[i].st = IF job[i].run \in gone /\ job[i].st = "pending"
                             THEN "canceled" ELSE job[i].st
  <2>1. job[i] \in JobRecord
    BY DEF TypeOK
  <2>2. CASE job'[i] = [job[i] EXCEPT !.cancel = TRUE] /\ job[i].st = "leased"
    BY <2>1, <2>2 DEF JobRecord
  <2>3. CASE job'[i] = [job[i] EXCEPT !.st = "canceled", !.cancel = TRUE]
             /\ job[i].run \in gone /\ job[i].st = "pending"
    BY <2>1, <2>3 DEF JobRecord
  <2>4. CASE job'[i] = job[i] /\ ~(job[i].run \in gone /\ job[i].st = "pending")
    BY <2>1, <2>4 DEF JobRecord
  <2> QED BY <2>2, <2>3, <2>4 DEF CancelTree, LiveJob
<1>2. status'[r] = IF r \in gone THEN "canceled" ELSE status[r]
  BY DEF CancelTree
<1>3. CASE r \in gone
  <2>1. (\E i \in Job : job[i].run = r /\ job[i].st = "pending") \/ status[r] = "waiting"
    BY <1>3 DEF CancelNow, LiveJob
  <2>2. RunOwed[r] \/ RunPhase[r] = "waiting"
    BY <2>1, FromState DEF PhaseOf, Terminal
  <2>3. \A i \in Job : job[i].run = r => job[i].st # "leased"
    <3>1. CASE \E i \in Job : job[i].run = r /\ job[i].st = "pending"
      BY <3>1 DEF AttemptInv, OneActiveJob, Active
    <3>2. CASE status[r] = "waiting"
      BY <3>2 DEF AttemptInv, JobMatchesStatus
    <3> QED BY <2>1, <3>1, <3>2
  <2>4. \A i \in Job : job'[i].run = r => ~Active(job', i)
    BY <1>1, <1>3, <2>3 DEF Active
  <2>5. PhaseOf(status'[r]) = "ended"
    BY <1>2, <1>3 DEF PhaseOf, Terminal
  <2> QED BY <2>2, <2>4, <2>5, ToIdle DEF Lifecycle!Move, Lifecycle!Drop
<1>4. CASE r \notin gone
  BY <1>1, <1>2, <1>4, StillStep DEF Lifecycle!Move
<1> QED BY <1>3, <1>4

\* A run that fails as an orphan was waiting: had it been queued or running, it
\* would have had a job.
LEMMA OrphanMoves ==
    ASSUME TypeOK, AttemptInv, AttemptInv', NEW q \in Run, OrphanFail(q), NEW r \in Run
    PROVE  Lifecycle!Move(r)
<1>1. /\ status[q] = "waiting" /\ ~HasActive(q) /\ job' = job
      /\ status' = [status EXCEPT ![q] = "failed"]
  BY DEF OrphanFail, AttemptInv, NoStrandedRun, HasActive
<1>2. CASE r = q
  <2>1. PhaseOf(status[q]) = "waiting" /\ PhaseOf(status'[q]) = "ended"
    BY <1>1 DEF PhaseOf, Terminal, TypeOK
  <2>2. \A i \in Job : job'[i].run = q => ~Active(job', i)
    BY <1>1 DEF HasActive, Active
  <2> QED BY <1>2, <2>1, <2>2, ToIdle, FromState DEF Lifecycle!Move, Lifecycle!Drop
<1>3. CASE r # q
  BY <1>1, <1>3, UntouchedStep DEF Lifecycle!Move, TypeOK
<1> QED BY <1>2, <1>3

\* What arrives from outside an attempt moves runs as the lifecycle allows.
LEMMA RunMoves ==
    ASSUME TypeOK, AttemptInv, AttemptInv', NEW q \in Run, RunStep(q), NEW r \in Run
    PROVE  Lifecycle!Move(r)
\* A call of resume_run finds the run waiting, or it has ended since.
<1>1. ASSUME NEW c \in 1..MaxCycles, EnqueueResume(q, c) PROVE Lifecycle!Move(r)
  <2>1. <<q, c>> \in resuming /\ status' = status
    BY <1>1 DEF EnqueueResume
  <2>2. CASE HasActive(q)
    BY <1>1, <2>1, <2>2, UntouchedStep DEF EnqueueResume, Lifecycle!Move
  <2>3. CASE ~HasActive(q)
    <3>1. status[q] \in RunStatus /\ status[q] # "none"
      BY <2>1 DEF AttemptInv, ResumingAdmitted, TypeOK
    <3>2. status[q] \notin {"queued", "running", "cleanup_required"}
      BY <2>3 DEF AttemptInv, NoStrandedRun, HasActive
    <3>3. status[q] \in Terminal \cup {"waiting"}
      BY <3>1, <3>2 DEF RunStatus, Published
    <3>4. Insert(q, "resume", c, status[q] \in Terminal)
      BY <1>1, <2>3 DEF EnqueueResume
    <3> QED BY <2>1, <2>3, <3>3, <3>4, InsertMoves
  <2> QED BY <2>2, <2>3
<1>2. ASSUME NEW c \in 1..MaxCycles,
             ReplayDecision(q, c) \/ \E x \in Ask \cup Tool : Decide(q, c, x)
      PROVE  Lifecycle!Move(r)
  <2>1. status' = status /\ status[q] = "waiting"
    BY <1>2 DEF ReplayDecision, Decide
  <2>2. CASE Insert(q, "resume", c, FALSE) /\ ~HasActive(q)
    BY <2>1, <2>2, InsertMoves
  <2>3. CASE job' = job
    BY <2>1, <2>3, UntouchedStep DEF Lifecycle!Move
  <2> QED BY <1>2, <2>2, <2>3 DEF ReplayDecision, Decide, ResumeIfResolved
<1>3. ASSUME UNCHANGED <<status, job>> PROVE Lifecycle!Move(r)
  BY <1>3, UntouchedStep DEF Lifecycle!Move
<1>4. CASE AcceptRun(q)
  BY <1>4, AdmissionMoves
<1>5. CASE RequestCancel(q)
  BY <1>5, CancelMoves DEF RequestCancel
<1>6. CASE OrphanFail(q)
  BY <1>6, OrphanMoves
<1> QED BY <1>1, <1>2, <1>3, <1>4, <1>5, <1>6
        DEF RunStep, BeginResume, AbandonResume, DecideByRoute, tables

\* Only a claim makes a run running.
LEMMA OnlyClaimGrants ==
    ASSUME TypeOK, AttemptInv, NEW q \in Run, status'[q] = "running",
           \/ \E j \in Job, w \in Worker : AttemptStep(j, w)
           \/ \E r \in Run : RunStep(r)
           \/ \E j \in Job : Tick(j)
    PROVE  status[q] = "running"
<1>1. ASSUME NEW j \in Job, NEW w \in Worker, AttemptStep(j, w) PROVE status[q] = "running"
  <2>1. ASSUME NEW o \in Outcome, CommitResult(j, w, o) PROVE status[q] = "running"
    <3> DEFINE s == SettledOutcome(job[j].run, o)
    <3>1. s # "running"
      BY DEF SettledOutcome, Outcome, Terminal
    <3>2. status' = [status EXCEPT ![job[j].run] = s]
      BY <2>1 DEF CommitResult
    <3> HIDE DEF s
    <3> QED BY <3>1, <3>2 DEF TypeOK
  <2>2. ASSUME NEW r \in Run, AcceptChild(r, j, w) PROVE status[q] = "running"
    BY <2>2 DEF AcceptChild, TypeOK
  <2>3. CASE Quarantine(j, w) \/ EnsureLostQuarantined(j, w) \/ ConfirmCleanup(j, w)
    BY <2>3 DEF Quarantine, EnsureLostQuarantined, QuarantineJob, ConfirmCleanup, TypeOK
  <2>4. CASE status' = status
    BY <2>4
  <2> QED BY <1>1, <2>1, <2>2, <2>3, <2>4
          DEF AttemptStep, Renew, OpenWait, PrepareTool, BeginTool, RecoverTool, SettleTool,
              ReserveCall, EndCall
<1>2. ASSUME NEW r \in Run, RunStep(r) PROVE status[q] = "running"
  <2>1. CASE AcceptRun(r) \/ OrphanFail(r)
    BY <2>1 DEF AcceptRun, OrphanFail, TypeOK
  <2>2. CASE CancelTree(r)
    BY <2>2 DEF CancelTree
  <2>3. CASE status' = status
    BY <2>3
  <2> QED BY <1>2, <2>1, <2>2, <2>3
          DEF RunStep, RequestCancel, ReplayDecision, BeginResume, EnqueueResume,
              AbandonResume, Decide, DecideByRoute, tables
<1>3. ASSUME NEW j \in Job, Tick(j) PROVE status[q] = "running"
  BY <1>3 DEF Tick
<1> QED BY <1>1, <1>2, <1>3

\* Every step of the store is a step of the lifecycle.
LEMMA StepMoves ==
    ASSUME TypeOK, TypeOK', AttemptInv, AttemptInv', Next
    PROVE  Lifecycle!Next
<1>1. CASE \E w \in Worker : Claim(w)
  BY <1>1, MappedNext, ClaimMoves DEF Lifecycle!Next
<1>2. CASE \/ \E j \in Job, w \in Worker : AttemptStep(j, w)
           \/ \E r \in Run : RunStep(r)
           \/ \E j \in Job : Tick(j)
  <2>1. \A q \in Run : ~Lifecycle!Granted(q)
    BY <1>2, OnlyClaimGrants, NoGrant
  <2>2. ASSUME NEW j \in Job, Tick(j), NEW r \in Run PROVE Lifecycle!Move(r)
    <3>1. status' = status /\ \E l : job' = [job EXCEPT ![j].lease = l]
      BY <2>2 DEF Tick
    <3>2. ASSUME NEW i \in Job
          PROVE  /\ job'[i].run = job[i].run /\ job'[i].st = job[i].st
                 /\ job'[i].owner = job[i].owner
      <4>1. job[i] \in JobRecord
        BY DEF TypeOK
      <4>2. PICK l : job' = [job EXCEPT ![j].lease = l]
        BY <3>1
      <4>3. job'[i] = job[i] \/ job'[i] = [job[i] EXCEPT !.lease = l]
        BY <4>2 DEF TypeOK
      <4> QED BY <4>1, <4>3 DEF JobRecord
    <3> QED BY <3>1, <3>2, StillStep DEF Lifecycle!Move
  <2>3. \A r \in Run : Lifecycle!Move(r)
    BY <1>2, <2>2, AttemptMoves, RunMoves
  <2> QED BY <2>1, <2>3, MappedNext DEF Lifecycle!Next
<1> QED BY <1>1, <1>2 DEF Next

\* The tables implement the lifecycle, for every set of runs, workers and waits:
\* the initial state maps to the initial state, every step to a step or a stutter.
THEOREM StoreImplementsLifecycle == Spec => ImplementsLifecycle
<1>1. Init => Lifecycle!Init
  <2> SUFFICES ASSUME Init PROVE Lifecycle!Init
    OBVIOUS
  <2>1. \A r \in Run : LeasedJobs(r) = {}
    BY DEF Init, LeasedJobs, FreeJob, FreshJob
  <2>2. RunPhase = [r \in Run |-> "none"]
    BY DEF Init, RunPhase, PhaseOf, Terminal
  <2>3. RunHolder = [r \in Run |-> NoWorker]
    BY <2>1 DEF RunHolder
  <2>4. RunOwed = [r \in Run |-> FALSE]
    BY DEF Init, RunOwed, FreeJob, FreshJob
  <2> QED BY <2>2, <2>3, <2>4 DEF Lifecycle!Init
<1>2. TypeOK /\ AttemptInv /\ TypeOK' /\ AttemptInv' /\ [Next]_vars
          => [Lifecycle!Next]_(Lifecycle!lifecycle)
  <2> SUFFICES ASSUME TypeOK, AttemptInv, TypeOK', AttemptInv', [Next]_vars
               PROVE  [Lifecycle!Next]_(Lifecycle!lifecycle)
    OBVIOUS
  <2>1. CASE Next
    BY <2>1, StepMoves
  <2>2. CASE UNCHANGED vars
    <3>1. RunPhase' = RunPhase /\ RunHolder' = RunHolder /\ RunOwed' = RunOwed
      BY <2>2 DEF vars, RunPhase, RunHolder, RunOwed, LeasedJobs, PhaseOf
    <3> QED BY <3>1 DEF Lifecycle!lifecycle
  <2> QED BY <2>1, <2>2
<1> QED BY <1>1, <1>2, AttemptInvariant, PTL DEF Spec, ImplementsLifecycle, Lifecycle!Spec

-----------------------------------------------------------------------------
(* The tool receipts: what one step can do to a receipt.                   *)

Startable == {"prepared", "paused"}

\* Dropped, because its run is over or fenced.
DroppedStart(t) == tool[t].st \in Startable /\ tool'[t] = [tool[t] EXCEPT !.st = "canceled"]
\* In doubt, because the attempt that executes it has lost its lease.
InDoubt(t) == tool[t].st = "running" /\ tool'[t] = [tool[t] EXCEPT !.st = "unknown"]
\* Made startable, by an attempt or a decision.
MadeStartable(t) ==
    /\ tool'[t].st \in Startable /\ tool'[t].starts = tool[t].starts
    /\ tool'[t].grants = IF tool[t].st = "none" THEN 1 ELSE tool[t].grants + 1
StartedUnder(t) ==
    /\ tool[t].st \in Startable /\ tool'[t].st = "running"
    /\ tool'[t].starts = tool[t].starts + 1 /\ tool'[t].grants = tool[t].grants
    /\ \E j \in Job : tool'[t].job = j /\ job[j].run = ToolRun[t] /\ job[j].st = "leased" /\ ~job[j].quar
                    /\ job'[j] = job[j]
Finished(t) ==
    /\ tool[t].st # "none" /\ tool'[t].st \in ToolOutcome \ Startable
    /\ tool'[t].starts = tool[t].starts /\ tool'[t].grants = tool[t].grants

WrittenTo(t) == MadeStartable(t) \/ StartedUnder(t) \/ Finished(t)

\* A receipt is written only while its run is executed, or waits for a decision about it.
WorkedOn(t) ==
    /\ WrittenTo(t) /\ status' = status /\ log' = log
    /\ status[ToolRun[t]] \in {"running", "waiting"}
    /\ ~Finished(t) => tool[t].st # "running" \/ status[ToolRun[t]] = "running"
ReceiptMove(t) == tool'[t] = tool[t] \/ DroppedStart(t) \/ InDoubt(t) \/ WorkedOn(t)

\* A wait asks only about its own run's tools.
AsksItsOwn == \A r \in Run : \A c \in 1..Len(ask[r]) : ask[r][c] \cap Tool \subseteq ToolsOf(r)

\* The tables a sweep and a quarantine write, receipt by receipt.
LEMMA LostReceipt ==
    ASSUME TypeOK, NEW js, NEW rs, NEW t \in Tool
    PROVE  LET u == CancelUnstarted(MarkLostTools(js), rs)[t]
           IN  \/ u = tool[t] /\ ~(ToolRun[t] \in rs /\ tool[t].st \in Startable)
               \/ /\ tool[t].st \in Startable /\ ToolRun[t] \in rs
                  /\ u = [tool[t] EXCEPT !.st = "canceled"]
               \/ tool[t].st = "running" /\ tool[t].job \in js /\ u = [tool[t] EXCEPT !.st = "unknown"]
<1>1. tool[t] \in ToolRecord
  BY DEF TypeOK
<1>2. CASE tool[t].st = "running" /\ tool[t].job \in js
  <2>1. MarkLostTools(js)[t] = [tool[t] EXCEPT !.st = "unknown"]
    BY <1>2 DEF MarkLostTools
  <2>2. MarkLostTools(js)[t].st = "unknown"
    BY <1>1, <2>1 DEF ToolRecord
  <2> QED BY <1>2, <2>1, <2>2 DEF CancelUnstarted, Startable
<1>3. CASE ~(tool[t].st = "running" /\ tool[t].job \in js)
  <2>1. MarkLostTools(js)[t] = tool[t]
    BY <1>3 DEF MarkLostTools
  <2> QED BY <2>1 DEF CancelUnstarted, Startable
<1> QED BY <1>2, <1>3

\* Canceling the receipts of runs that have not started.
LEMMA DroppedReceipt ==
    ASSUME TypeOK, NEW rs, NEW t \in Tool
    PROVE  LET u == CancelUnstarted(tool, rs)[t]
           IN  \/ u = tool[t] /\ ~(ToolRun[t] \in rs /\ tool[t].st \in Startable)
               \/ /\ tool[t].st \in Startable /\ ToolRun[t] \in rs
                  /\ u = [tool[t] EXCEPT !.st = "canceled"]
BY DEF CancelUnstarted, Startable

\* The sweep of a claim drops what blocked runs have not started either.
LEMMA ClaimReceipt ==
    ASSUME TypeOK, AttemptInv, NEW t \in Tool
    PROVE  LET u == CancelUnstarted(SweptTool, Blocked)[t]
               over == Blocked \cup {job[j].run : j \in Expired}
           IN  \/ u = tool[t] /\ ~(ToolRun[t] \in over /\ tool[t].st \in Startable)
               \/ /\ tool[t].st \in Startable /\ ToolRun[t] \in over
                  /\ u = [tool[t] EXCEPT !.st = "canceled"]
               \/ /\ tool[t].st = "running" /\ tool[t].job \in Expired
                  /\ u = [tool[t] EXCEPT !.st = "unknown"]
<1>1. Overdue = {} /\ Lost = Expired
  BY DEF Overdue, Lost, Expired, HasResult, AttemptInv, JobMatchesStatus, Terminal
<1>2. SweptTool = CancelUnstarted(MarkLostTools(Expired), {job[j].run : j \in Expired})
  <2>1. OverdueRuns = {} /\ LostRuns = {job[j].run : j \in Expired}
    BY <1>1 DEF OverdueRuns, LostRuns
  <2>2. LostRuns \cup {r \in OverdueRuns : status[r] \in Terminal} = {job[j].run : j \in Expired}
    BY <2>1
  <2> QED BY <2>2 DEF SweptTool
<1> DEFINE lost == {job[j].run : j \in Expired}
           v == CancelUnstarted(MarkLostTools(Expired), lost)[t]
<1>3. CancelUnstarted(SweptTool, Blocked)[t] =
         IF ToolRun[t] \in Blocked /\ v.st \in Startable THEN [v EXCEPT !.st = "canceled"] ELSE v
  BY <1>2 DEF CancelUnstarted, Startable
<1> HIDE DEF lost
<1>4. \/ v = tool[t] /\ ~(ToolRun[t] \in lost /\ tool[t].st \in Startable)
      \/ tool[t].st \in Startable /\ ToolRun[t] \in lost /\ v = [tool[t] EXCEPT !.st = "canceled"]
      \/ tool[t].st = "running" /\ tool[t].job \in Expired /\ v = [tool[t] EXCEPT !.st = "unknown"]
  BY LostReceipt
<1>5. tool[t] \in ToolRecord
  BY DEF TypeOK
<1> HIDE DEF v
<1>6. CASE v = tool[t]
  BY <1>3, <1>4, <1>6 DEF lost
<1>7. CASE v = [tool[t] EXCEPT !.st = "canceled"] \/ v = [tool[t] EXCEPT !.st = "unknown"]
  <2>1. v.st \notin Startable
    BY <1>5, <1>7 DEF ToolRecord, Startable
  <2> QED BY <1>3, <1>4, <2>1 DEF lost
<1> QED BY <1>4, <1>6, <1>7

\* The steps of an attempt and of a decision that write one receipt.
LEMMA WorkWrites ==
    ASSUME TypeOK, NEW t \in Tool,
           \/ \E j \in Job, w \in Worker :
                \/ PrepareTool(j, w, t) \/ BeginTool(j, w, t) \/ RecoverTool(j, w, t)
                \/ \E s \in ToolOutcome : SettleTool(j, w, t, s)
           \/ \E r \in Run, c \in 1..MaxCycles : Decide(r, c, t)
    PROVE  WrittenTo(t) /\ \A x \in Tool \ {t} : tool'[x] = tool[x]
<1>0. tool[t] \in ToolRecord /\ tool \in [Tool -> ToolRecord]
  BY DEF TypeOK
<1> USE DEF Startable, ToolRecord, ToolOutcome, WrittenTo
<1>1. ASSUME NEW j \in Job, NEW w \in Worker, PrepareTool(j, w, t)
      PROVE  MadeStartable(t) /\ \A x \in Tool \ {t} : tool'[x] = tool[x]
  BY <1>0, <1>1 DEF PrepareTool, MadeStartable
<1>2. ASSUME NEW j \in Job, NEW w \in Worker, BeginTool(j, w, t)
      PROVE  WrittenTo(t) /\ \A x \in Tool \ {t} : tool'[x] = tool[x]
  <2>1. CASE job[j].cancel
    BY <1>0, <1>2, <2>1 DEF BeginTool, Finished
  <2>2. CASE ~job[j].cancel
    BY <1>0, <1>2, <2>2 DEF BeginTool, StartedUnder, Driving, Fenced
  <2> QED BY <2>1, <2>2
<1>3. ASSUME NEW j \in Job, NEW w \in Worker, RecoverTool(j, w, t)
      PROVE  (Finished(t) \/ MadeStartable(t)) /\ \A x \in Tool \ {t} : tool'[x] = tool[x]
  BY <1>0, <1>3 DEF RecoverTool, MadeStartable, Finished
<1>4. ASSUME NEW j \in Job, NEW w \in Worker, NEW s \in ToolOutcome, SettleTool(j, w, t, s)
      PROVE  (Finished(t) \/ MadeStartable(t)) /\ \A x \in Tool \ {t} : tool'[x] = tool[x]
  <2>1. CASE s = "paused"
    BY <1>0, <1>4, <2>1 DEF SettleTool, MadeStartable
  <2>2. CASE s # "paused"
    BY <1>0, <1>4, <2>2 DEF SettleTool, Finished
  <2> QED BY <2>1, <2>2
<1>5. ASSUME NEW r \in Run, NEW c \in 1..MaxCycles, Decide(r, c, t)
      PROVE  (Finished(t) \/ MadeStartable(t)) /\ \A x \in Tool \ {t} : tool'[x] = tool[x]
  BY <1>0, <1>5 DEF Decide, MadeStartable, Finished
<1> QED BY <1>1, <1>2, <1>3, <1>4, <1>5

\* They write it while its run is executed, or waits.
LEMMA WorkMoves ==
    ASSUME TypeOK, AttemptInv, AsksItsOwn, NEW x \in Tool, NEW t \in Tool,
           \/ \E j \in Job, w \in Worker :
                \/ PrepareTool(j, w, x) \/ BeginTool(j, w, x) \/ RecoverTool(j, w, x)
                \/ \E s \in ToolOutcome : SettleTool(j, w, x, s)
           \/ \E r \in Run, c \in 1..MaxCycles : Decide(r, c, x)
    PROVE  tool'[t] = tool[t] \/ WorkedOn(t)
<1>1. CASE t # x
  BY <1>1, WorkWrites
<1>2. CASE t = x
  <2>1. WrittenTo(t)
    BY <1>2, WorkWrites
  <2>2. ASSUME NEW j \in Job, NEW w \in Worker,
               \/ PrepareTool(j, w, t) \/ BeginTool(j, w, t) \/ RecoverTool(j, w, t)
               \/ \E s \in ToolOutcome : SettleTool(j, w, t, s)
        PROVE  status[ToolRun[t]] = "running" /\ status' = status /\ log' = log
    <3>1. Fenced(j, w) /\ ToolRun[t] = job[j].run /\ status' = status /\ log' = log
      BY <2>2 DEF PrepareTool, BeginTool, RecoverTool, SettleTool, Driving
    <3> QED BY <3>1 DEF Fenced, AttemptInv, JobMatchesStatus
  <2>3. ASSUME NEW r \in Run, NEW c \in 1..MaxCycles, Decide(r, c, t)
        PROVE  /\ status[ToolRun[t]] = "waiting" /\ status' = status /\ log' = log
               /\ tool[t].st = "unknown"
    BY <2>3 DEF Decide, AsksItsOwn, ToolsOf
  <2> QED BY <1>2, <2>1, <2>2, <2>3 DEF WorkedOn
<1> QED BY <1>1, <1>2

\* What any step does to a receipt.
LEMMA ReceiptMoves ==
    ASSUME TypeOK, AttemptInv, AsksItsOwn, [Next]_vars, NEW t \in Tool
    PROVE  ReceiptMove(t)
<1>1. CASE UNCHANGED tool
  BY <1>1 DEF ReceiptMove
<1>2. ASSUME NEW rs, tool' = CancelUnstarted(tool, rs) PROVE ReceiptMove(t)
  BY <1>2, DroppedReceipt DEF ReceiptMove, DroppedStart
<1>3. ASSUME NEW w \in Worker, Claim(w) PROVE ReceiptMove(t)
  BY <1>3, ClaimReceipt DEF Claim, ReceiptMove, DroppedStart, InDoubt
<1>4. ASSUME NEW j \in Job, NEW w \in Worker, AttemptStep(j, w) PROVE ReceiptMove(t)
  <2>1. CASE \E o \in Outcome : CommitResult(j, w, o)
    BY <1>1, <1>2, <2>1 DEF CommitResult
  <2>2. CASE QuarantineJob(j)
    <3>1. PICK js, rs : tool' = CancelUnstarted(MarkLostTools(js), rs)
      BY <2>2 DEF QuarantineJob
    <3> QED BY <3>1, LostReceipt DEF ReceiptMove, DroppedStart, InDoubt
  <2>3. CASE ConfirmCleanup(j, w)
    BY <1>2, <2>3 DEF ConfirmCleanup
  <2>4. CASE \E x \in Tool : \/ PrepareTool(j, w, x) \/ BeginTool(j, w, x) \/ RecoverTool(j, w, x)
                             \/ \E s \in ToolOutcome : SettleTool(j, w, x, s)
    BY <2>4, WorkMoves DEF ReceiptMove
  <2>5. CASE UNCHANGED tool
    BY <1>1, <2>5
  <2> QED BY <1>4, <2>1, <2>2, <2>3, <2>4, <2>5
          DEF AttemptStep, Renew, AcceptChild, OpenWait, ReserveCall, EndCall, Quarantine,
              EnsureLostQuarantined
<1>5. ASSUME NEW r \in Run, RunStep(r) PROVE ReceiptMove(t)
  <2>1. CASE OrphanFail(r)
    BY <1>2, <2>1 DEF OrphanFail
  <2>2. CASE CancelTree(r)
    BY <1>2, <2>2 DEF CancelTree
  <2>3. ASSUME NEW c \in 1..MaxCycles, NEW x \in Ask \cup Tool, Decide(r, c, x)
        PROVE  ReceiptMove(t)
    <3>1. CASE x \in Tool
      BY <2>3, <3>1, WorkMoves DEF ReceiptMove
    <3>2. CASE x \notin Tool
      BY <1>1, <2>3, <3>2 DEF Decide
    <3> QED BY <3>1, <3>2
  <2>4. CASE UNCHANGED tool
    BY <1>1, <2>4
  <2> QED BY <1>5, <2>1, <2>2, <2>3, <2>4
          DEF RunStep, AcceptRun, RequestCancel, ReplayDecision, BeginResume, EnqueueResume,
              AbandonResume, DecideByRoute, tables
<1>6. ASSUME NEW j \in Job, Tick(j) PROVE ReceiptMove(t)
  BY <1>1, <1>6 DEF Tick
<1>7. CASE UNCHANGED vars
  BY <1>1, <1>7 DEF vars
<1> QED BY <1>3, <1>4, <1>5, <1>6, <1>7 DEF Next

\* Closing the waits of runs leaves nothing to decide in them.
LEMMA ClosedWaits ==
    ASSUME TypeOK, NEW rs, ask' = CloseWaits(rs), NEW r \in Run
    PROVE  /\ Len(ask'[r]) = Len(ask[r])
           /\ \A c \in 1..Len(ask[r]) : ask'[r][c] \subseteq ask[r][c]
<1>1. CASE r \in rs
  <2>1. ask[r] \in Seq(SUBSET (Ask \cup Tool)) /\ DOMAIN ask[r] = 1..Len(ask[r]) /\ Len(ask[r]) \in Nat
    BY LenProperties DEF TypeOK
  <2>2. ask'[r] = [c \in 1..Len(ask[r]) |-> {}]
    BY <1>1, <2>1 DEF CloseWaits
  <2>3. ask'[r] \in Seq({{}})
    BY <2>1, <2>2
  <2>4. Len(ask'[r]) \in Nat /\ DOMAIN ask'[r] = 1..Len(ask'[r])
    BY <2>3, LenProperties
  <2>5. Len(ask'[r]) = Len(ask[r])
    BY <2>1, <2>2, <2>4
  <2> QED BY <2>2, <2>5
<1>2. CASE r \notin rs
  BY <1>2 DEF CloseWaits
<1> QED BY <1>1, <1>2

\* Candidates are the tools of the run whose attempt opened the wait.
LEMMA StepAsks ==
    ASSUME TypeOK, AsksItsOwn, [Next]_vars
    PROVE  AsksItsOwn'
<1>1. CASE UNCHANGED ask
  BY <1>1 DEF AsksItsOwn, ToolsOf
<1>2. ASSUME NEW rs, ask' = CloseWaits(rs) PROVE AsksItsOwn'
  BY <1>2, ClosedWaits DEF AsksItsOwn, ToolsOf
<1>3. ASSUME NEW q \in Run, NEW c \in 1..Len(ask[q]), NEW S, S \subseteq ask[q][c],
             ask' = [ask EXCEPT ![q][c] = S]
      PROVE  AsksItsOwn'
  <2>1. ask[q] \in Seq(SUBSET (Ask \cup Tool)) /\ DOMAIN ask[q] = 1..Len(ask[q]) /\ Len(ask[q]) \in Nat
    BY LenProperties DEF TypeOK
  <2>2. S \in SUBSET (Ask \cup Tool)
    BY <1>3, <2>1
  <2>3. [ask[q] EXCEPT ![c] = S] \in Seq(SUBSET (Ask \cup Tool))
        /\ Len([ask[q] EXCEPT ![c] = S]) = Len(ask[q])
    BY <2>1, <2>2, ExceptSeq
  <2>4. \A r \in Run : ask'[r] = IF r = q THEN [ask[q] EXCEPT ![c] = S] ELSE ask[r]
    BY <1>3 DEF TypeOK
  <2> QED BY <1>3, <2>1, <2>3, <2>4 DEF AsksItsOwn, ToolsOf
<1>4. ASSUME NEW j \in Job, NEW w \in Worker, NEW S \in SUBSET (Ask \cup Tool), OpenWait(j, w, S)
      PROVE  AsksItsOwn'
  <2> DEFINE q == job[j].run
  <2>1. q \in Run
    BY <1>4, RowRun DEF OpenWait, Driving, Fenced
  <2>2. ask[q] \in Seq(SUBSET (Ask \cup Tool)) /\ Len(ask[q]) \in Nat
    BY <2>1, LenProperties DEF TypeOK
  <2>3. /\ Len(Append(ask[q], S)) = Len(ask[q]) + 1
        /\ Append(ask[q], S)[Len(ask[q]) + 1] = S
        /\ \A c \in 1..Len(ask[q]) : Append(ask[q], S)[c] = ask[q][c]
    BY <2>2, AppendProperties
  <2>4. S \cap Tool \subseteq ToolsOf(q)
    BY <1>4, SubsetAssumption DEF OpenWait
  <2>5. \A r \in Run : ask'[r] = IF r = q THEN Append(ask[q], S) ELSE ask[r]
    BY <1>4, <2>1 DEF OpenWait, TypeOK
  <2> HIDE DEF q
  <2>6. ASSUME NEW r \in Run, NEW c \in 1..Len(ask'[r])
        PROVE  ask'[r][c] \cap Tool \subseteq ToolsOf(r)
    <3>1. CASE r = q /\ c = Len(ask[q]) + 1
      BY <2>3, <2>4, <2>5, <3>1
    <3>2. CASE r = q /\ c # Len(ask[q]) + 1
      <4>0. Len(ask'[r]) = Len(ask[q]) + 1
        BY <2>3, <2>5, <3>2
      <4>1. c \in 1..Len(ask[q])
        BY <2>2, <3>2, <4>0
      <4>2. ask'[r][c] = ask[q][c]
        BY <2>3, <2>5, <3>2, <4>1
      <4> QED BY <2>1, <3>2, <4>1, <4>2 DEF AsksItsOwn
    <3>3. CASE r # q
      BY <2>5, <3>3 DEF AsksItsOwn
    <3> QED BY <3>1, <3>2, <3>3
  <2> QED BY <2>6 DEF AsksItsOwn, ToolsOf
<1>5. ASSUME NEW w \in Worker, Claim(w) PROVE AsksItsOwn'
  BY <1>2, <1>5 DEF Claim
<1>6. ASSUME NEW j \in Job, NEW w \in Worker, AttemptStep(j, w) PROVE AsksItsOwn'
  <2>1. CASE \E S \in SUBSET (Ask \cup Tool) : OpenWait(j, w, S)
    BY <1>4, <2>1
  <2>2. CASE UNCHANGED ask
    BY <1>1, <2>2
  <2> QED BY <1>6, <2>1, <2>2
          DEF AttemptStep, Renew, AcceptChild, CommitResult, Quarantine, EnsureLostQuarantined,
              QuarantineJob, ConfirmCleanup, PrepareTool, BeginTool, RecoverTool, SettleTool,
              ReserveCall, EndCall
<1>7. ASSUME NEW r \in Run, RunStep(r) PROVE AsksItsOwn'
  <2>1. CASE CancelTree(r)
    BY <1>2, <2>1 DEF CancelTree
  <2>2. ASSUME NEW c \in 1..MaxCycles, NEW x \in Ask \cup Tool, Decide(r, c, x) \/ DecideByRoute(r, c, x)
        PROVE  AsksItsOwn'
    <3>1. c \in 1..Len(ask[r]) /\ ask' = [ask EXCEPT ![r][c] = ask[r][c] \ {x}]
      BY <2>2 DEF Decide, DecideByRoute
    <3>2. ask[r][c] \ {x} \subseteq ask[r][c]
      OBVIOUS
    <3> QED BY <1>3, <3>1, <3>2
  <2>3. CASE UNCHANGED ask
    BY <1>1, <2>3
  <2> QED BY <1>7, <2>1, <2>2, <2>3
          DEF RunStep, AcceptRun, RequestCancel, OrphanFail, ReplayDecision, BeginResume,
              EnqueueResume, AbandonResume, tables
<1> QED BY <1>1, <1>5, <1>6, <1>7 DEF Next, Tick, vars

-----------------------------------------------------------------------------
(* A side effect is started only where somebody made it startable.         *)

RestartInv ==
    \A t \in Tool : /\ tool[t].starts <= tool[t].grants
                    /\ tool[t].st \in Startable => tool[t].starts < tool[t].grants
                    /\ tool[t].st = "none" => tool[t].starts = 0

\* No transaction makes a receipt startable without granting it one start.
LEMMA StepRestart ==
    ASSUME TypeOK, AttemptInv, AsksItsOwn, RestartInv, [Next]_vars
    PROVE  RestartInv'
<1> SUFFICES ASSUME NEW t \in Tool
             PROVE  /\ tool'[t].starts <= tool'[t].grants
                    /\ tool'[t].st \in Startable => tool'[t].starts < tool'[t].grants
                    /\ tool'[t].st = "none" => tool'[t].starts = 0
  BY DEF RestartInv
<1>0. tool[t] \in ToolRecord
  BY DEF TypeOK
<1> USE DEF Startable, ToolRecord, ToolOutcome
<1>1. CASE tool'[t] = tool[t]
  BY <1>1 DEF RestartInv
<1>2. CASE DroppedStart(t) \/ InDoubt(t)
  BY <1>0, <1>2 DEF RestartInv, DroppedStart, InDoubt
<1>3. CASE MadeStartable(t)
  BY <1>0, <1>3 DEF RestartInv, MadeStartable
<1>4. CASE StartedUnder(t)
  BY <1>0, <1>4 DEF RestartInv, StartedUnder
<1>5. CASE Finished(t)
  BY <1>0, <1>5 DEF RestartInv, Finished
<1> QED BY <1>1, <1>2, <1>3, <1>4, <1>5, ReceiptMoves DEF ReceiptMove, WorkedOn, WrittenTo

-----------------------------------------------------------------------------
(* Nothing is started once a run is over.                                  *)

Over(s) == s \in Terminal \cup {"cleanup_required"}

\* The step that ends or fences a run drops what it has not started.
LEMMA EndDrops ==
    ASSUME TypeOK, AttemptInv, Next, NEW t \in Tool,
           Over(status'[ToolRun[t]]), status'[ToolRun[t]] # status[ToolRun[t]]
    PROVE  tool'[t].st \notin Startable
<1> DEFINE r == ToolRun[t]
<1>0. r \in Run /\ tool[t] \in ToolRecord
  BY TopologyAssumption DEF TypeOK
<1> USE DEF Startable
<1>1. ASSUME NEW rs, r \in rs, tool' = CancelUnstarted(tool, rs) PROVE tool'[t].st \notin Startable
  <2>1. \/ tool'[t] = tool[t] /\ ~(ToolRun[t] \in rs /\ tool[t].st \in Startable)
        \/ tool'[t] = [tool[t] EXCEPT !.st = "canceled"]
    BY <1>1, DroppedReceipt
  <2> QED BY <1>0, <1>1, <2>1 DEF ToolRecord
<1>2. ASSUME NEW w \in Worker, Claim(w) PROVE tool'[t].st \notin Startable
  <2>1. r \in Blocked \/ \E j \in Expired : job[j].run = r
    <3>1. CASE status' = UnblockedStatus
      BY <1>0, <3>1, SweepFacts
    <3>2. ASSUME NEW k \in Job, status' = [UnblockedStatus EXCEPT ![UnblockedJob[k].run] = "running"]
          PROVE  r \in Blocked \/ \E j \in Expired : job[j].run = r
      <4>1. status'[r] = UnblockedStatus[r]
        BY <1>0, <3>2, SweepType DEF Over, Terminal
      <4> QED BY <1>0, <4>1, SweepFacts
    <3> QED BY <1>2, <3>1, <3>2 DEF Claim
  <2>2. tool'[t] = CancelUnstarted(SweptTool, Blocked)[t]
    BY <1>2 DEF Claim
  <2> QED BY <1>0, <2>1, <2>2, ClaimReceipt DEF ToolRecord
<1>3. ASSUME NEW j \in Job, NEW w \in Worker, AttemptStep(j, w) PROVE tool'[t].st \notin Startable
  <2>1. ASSUME NEW o \in Outcome, CommitResult(j, w, o) PROVE tool'[t].st \notin Startable
    <3> DEFINE s == SettledOutcome(job[j].run, o)
    <3>1. status' = [status EXCEPT ![job[j].run] = s]
          /\ (s \in Terminal => tool' = CancelUnstarted(tool, {job[j].run}))
      BY <2>1 DEF CommitResult
    <3>2. s \in Terminal \cup {"waiting"}
      BY DEF SettledOutcome, Outcome, Terminal
    <3> HIDE DEF s
    <3>3. r = job[j].run /\ s \in Terminal
      BY <1>0, <3>1, <3>2 DEF TypeOK, Over, Terminal
    <3> QED BY <1>1, <3>1, <3>3
  <2>2. CASE QuarantineJob(j)
    <3>1. r = job[j].run
      BY <1>0, <2>2 DEF QuarantineJob, TypeOK
    <3>2. PICK js, rs : r \in rs /\ tool' = CancelUnstarted(MarkLostTools(js), rs)
      BY <2>2, <3>1 DEF QuarantineJob
    <3> DEFINE u == CancelUnstarted(MarkLostTools(js), rs)[t]
    <3>3. \/ u = tool[t] /\ ~(ToolRun[t] \in rs /\ tool[t].st \in Startable)
          \/ /\ tool[t].st \in Startable /\ ToolRun[t] \in rs
             /\ u = [tool[t] EXCEPT !.st = "canceled"]
          \/ tool[t].st = "running" /\ tool[t].job \in js /\ u = [tool[t] EXCEPT !.st = "unknown"]
      BY LostReceipt
    <3>4. tool'[t] = u
      BY <3>2
    <3> HIDE DEF u
    <3> QED BY <1>0, <3>2, <3>3, <3>4 DEF ToolRecord
  <2>3. CASE ConfirmCleanup(j, w)
    <3>1. r = job[j].run
      BY <1>0, <2>3 DEF ConfirmCleanup, TypeOK
    <3> QED BY <1>1, <2>3, <3>1 DEF ConfirmCleanup
  <2>4. ASSUME NEW q \in Run, AcceptChild(q, j, w) PROVE FALSE
    BY <1>0, <2>4 DEF AcceptChild, TypeOK, Over, Terminal
  <2>5. CASE UNCHANGED status
    BY <2>5
  <2> QED BY <1>3, <2>1, <2>2, <2>3, <2>4, <2>5
          DEF AttemptStep, Renew, OpenWait, PrepareTool, BeginTool, RecoverTool, SettleTool,
              ReserveCall, EndCall, Quarantine, EnsureLostQuarantined
<1>4. ASSUME NEW q \in Run, RunStep(q) PROVE tool'[t].st \notin Startable
  <2>1. CASE AcceptRun(q)
    BY <1>0, <2>1 DEF AcceptRun, TypeOK, Over, Terminal
  <2>2. CASE OrphanFail(q)
    <3>1. r = q
      BY <1>0, <2>2 DEF OrphanFail, TypeOK
    <3> QED BY <1>1, <2>2, <3>1 DEF OrphanFail
  <2>3. CASE CancelTree(q)
    BY <1>0, <1>1, <2>3 DEF CancelTree
  <2>4. CASE UNCHANGED status
    BY <2>4
  <2> QED BY <1>4, <2>1, <2>2, <2>3, <2>4
          DEF RunStep, RequestCancel, ReplayDecision, BeginResume, EnqueueResume, AbandonResume,
              Decide, DecideByRoute, tables
<1>5. ASSUME NEW j \in Job, Tick(j) PROVE FALSE
  BY <1>5 DEF Tick
<1> QED BY <1>2, <1>3, <1>4, <1>5 DEF Next

\* Whatever ends or fences a run drops its receipts that have not started.
LEMMA StepNoStart ==
    ASSUME TypeOK, AttemptInv, AsksItsOwn, NoStartAfterEnd, [Next]_vars
    PROVE  NoStartAfterEnd'
<1> SUFFICES ASSUME NEW t \in Tool, Over(status'[ToolRun[t]]), tool'[t].st \in Startable
             PROVE  FALSE
  BY DEF NoStartAfterEnd, Over, Startable
<1>1. CASE status'[ToolRun[t]] # status[ToolRun[t]]
  <2>1. Next
    BY <1>1 DEF vars
  <2> QED BY <1>1, <2>1, EndDrops
<1>2. CASE status'[ToolRun[t]] = status[ToolRun[t]]
  <2>1. tool[t].st \notin Startable /\ status[ToolRun[t]] \notin {"running", "waiting"}
    BY <1>2 DEF NoStartAfterEnd, Over, Startable, Terminal
  <2>2. tool[t] \in ToolRecord
    BY DEF TypeOK
  <2> QED BY <2>1, <2>2, ReceiptMoves
          DEF ReceiptMove, WorkedOn, DroppedStart, InDoubt, ToolRecord, Startable
<1> QED BY <1>1, <1>2

-----------------------------------------------------------------------------
(* The runs and the job rows: what one step can do to each.                *)

Untouched(r) == status'[r] = status[r] /\ log'[r] = log[r]
Admits(r) ==
    /\ status[r] = "none" /\ status' = [status EXCEPT ![r] = "queued"] /\ log' = log
    /\ IF Parent[r] # NoRun
       THEN status[Parent[r]] = "running"
       ELSE \A q \in Run : Thread[q] = Thread[r] /\ Parent[q] = NoRun =>
                              status[q] \in Terminal \cup {"none"}
Executes(r) ==
    /\ status'[r] = "running" /\ log'[r] = log[r]
    /\ status[r] \in {"queued", "waiting"} \cup Terminal
    /\ status[r] \in Terminal => Revivable(r)
Tells(r) ==
    /\ status'[r] \in Published /\ log'[r] = Append(log[r], status'[r])
    /\ status[r] # "none"
    /\ status[r] \in Terminal => Revivable(r)
    /\ status[r] = "cleanup_required" => status'[r] = "failed"
StatusMove(r) == Untouched(r) \/ Admits(r) \/ Executes(r) \/ Tells(r)

\* A row that exists keeps its run, its kind and its requests, and a lease that is
\* lost is never regained; a row that is leased by the step was pending, with
\* everything it depends on completed.
RowKept(j) ==
    /\ job'[j].run = job[j].run /\ job'[j].kind = job[j].kind /\ job'[j].late = job[j].late
    /\ job[j].cancel => job'[j].cancel
    /\ job[j].st = "free" <=> job'[j].st = "free"
    /\ job'[j].st = "leased" /\ ~job'[j].quar =>
          \/ job[j].st = "pending"
          \/ job[j].st = "leased" /\ ~job[j].quar
    /\ \/ job'[j].gen = job[j].gen
       \/ /\ job[j].st = "pending"
          /\ \A d \in Deps[job[j].run] : status'[d] = "completed" \/ Revivable(d)
RowAdded(j) == job[j].st = "free" /\ job'[j].gen = 0

\* Whatever the active job of a run that has ended is, it is a late one.
LEMMA EndedActive ==
    ASSUME AttemptInv, NEW j \in Job, status[job[j].run] \in Terminal, Active(job, j)
    PROVE  Revivable(job[j].run)
BY EndedPending DEF Revivable

\* What a claim does to a run: it may fence it, drop it or execute it, and tells so.
LEMMA ClaimStatus ==
    ASSUME TypeOK, AttemptInv, NEW w \in Worker, Claim(w), NEW r \in Run
    PROVE  StatusMove(r)
<1> USE DEF AttemptInv
<1>0. status' = UnblockedStatus
      \/ \E k \in Job : /\ job[k].st = "pending" /\ job[k].run \notin Blocked
                        /\ status' = [UnblockedStatus EXCEPT ![job[k].run] = "running"]
  <2>1. ASSUME NEW k \in Job, Oldest(k),
               status' = [UnblockedStatus EXCEPT ![UnblockedJob[k].run] = "running"]
        PROVE  /\ job[k].st = "pending" /\ job[k].run \notin Blocked
               /\ status' = [UnblockedStatus EXCEPT ![job[k].run] = "running"]
    <3>1. UnblockedJob[k].st = "pending" /\ UnblockedJob[k].run = job[k].run
      BY <2>1, SweepFacts DEF Oldest, Claimable
    <3>2. job[k].st = "pending" /\ job[k].run \notin Blocked
      BY <3>1, SweepFacts
    <3> QED BY <2>1, <3>1, <3>2
  <2> QED BY <2>1 DEF Claim
<1>1. log' = Publish(Publish(log, LostRuns, "cleanup_required"), Blocked, "canceled")
  BY DEF Claim, SweptLog
<1>2. LostRuns = {job[j].run : j \in Expired}
  BY DEF LostRuns, Lost, Overdue, Expired, HasResult, JobMatchesStatus, Terminal
<1>3. CASE r \in Blocked
  <2>1. PICK j \in Job : job[j].run = r /\ job[j].st = "pending"
    BY <1>3, SweepFacts DEF Blocked
  <2>2. r \notin LostRuns
    BY <1>2, <2>1, SweepFacts
  <2>3. log'[r] = Append(log[r], "canceled")
    BY <1>1, <1>3, <2>2 DEF Publish
  <2>4. status'[r] = "canceled"
    BY <1>0, <1>3, SweepFacts, SweepType
  <2>5. status[r] \in {"queued", "waiting"} \/ status[r] \in Terminal
    BY <2>1 DEF JobMatchesStatus
  <2>6. status[r] \in Terminal => Revivable(r)
    BY <2>1, EndedActive DEF Active
  <2> QED BY <2>3, <2>4, <2>5, <2>6 DEF StatusMove, Tells, Published, Terminal
<1>4. CASE r \in LostRuns /\ r \notin Blocked
  <2>1. PICK j \in Expired : job[j].run = r
    BY <1>2, <1>4
  <2>2. status[r] = "running"
    BY <2>1 DEF Expired, JobMatchesStatus
  <2>3. log'[r] = Append(log[r], "cleanup_required")
    BY <1>1, <1>4 DEF Publish
  <2>4. UnblockedStatus[r] = "cleanup_required"
    BY <1>4, <2>1, SweepFacts
  <2>5. \A k \in Job : job[k].st = "pending" => job[k].run # r
    BY <2>1, SweepFacts
  <2>6. status'[r] = "cleanup_required"
    BY <1>0, <2>4, <2>5, SweepType
  <2> QED BY <2>2, <2>3, <2>6 DEF StatusMove, Tells, Published, Terminal
<1>5. CASE r \notin LostRuns /\ r \notin Blocked
  <2>1. log'[r] = log[r]
    BY <1>1, <1>5 DEF Publish
  <2>2. UnblockedStatus[r] = status[r]
    BY <1>2, <1>5, SweepFacts
  <2>3. CASE status'[r] = status[r]
    BY <2>1, <2>3 DEF StatusMove, Untouched
  <2>4. CASE status'[r] # status[r]
    <3>1. PICK k \in Job : /\ job[k].st = "pending"
                           /\ status' = [UnblockedStatus EXCEPT ![job[k].run] = "running"]
      BY <1>0, <2>2, <2>4
    <3>2. job[k].run = r /\ status'[r] = "running"
      BY <2>2, <2>4, <3>1, SweepType
    <3>3. status[r] \in {"queued", "waiting"} \/ status[r] \in Terminal
      BY <3>1, <3>2 DEF JobMatchesStatus
    <3>4. status[r] \in Terminal => Revivable(r)
      BY <3>1, <3>2, EndedActive DEF Active
    <3> QED BY <2>1, <3>2, <3>3, <3>4 DEF StatusMove, Executes
  <2> QED BY <2>3, <2>4
<1> QED BY <1>3, <1>4, <1>5

\* What any step does to a run.
LEMMA StatusMoves ==
    ASSUME TypeOK, AttemptInv, [Next]_vars, NEW r \in Run
    PROVE  StatusMove(r)
<1>1. CASE UNCHANGED <<status, log>>
  BY <1>1 DEF StatusMove, Untouched
<1>2. ASSUME NEW q \in Run, NEW s \in Published,
             status' = [status EXCEPT ![q] = s], log' = Publish(log, {q}, s),
             status[q] \notin Terminal \cup {"none"}, status[q] = "cleanup_required" => s = "failed"
      PROVE  StatusMove(r)
  <2>1. CASE r = q
    <3>1. status'[r] = s /\ log'[r] = Append(log[r], s)
      BY <1>2, <2>1 DEF TypeOK, Publish
    <3> QED BY <1>2, <2>1, <3>1 DEF StatusMove, Tells
  <2>2. CASE r # q
    BY <1>2, <2>2 DEF TypeOK, Publish, StatusMove, Untouched
  <2> QED BY <2>1, <2>2
<1>3. ASSUME NEW w \in Worker, Claim(w) PROVE StatusMove(r)
  BY <1>3, ClaimStatus
<1>4. ASSUME NEW j \in Job, NEW w \in Worker, AttemptStep(j, w) PROVE StatusMove(r)
  <2>1. ASSUME NEW q \in Run, AcceptChild(q, j, w) PROVE StatusMove(r)
    <3>1. Admits(q)
      BY <2>1 DEF AcceptChild, Admits
    <3> QED BY <3>1 DEF TypeOK, StatusMove, Admits, Untouched
  <2>2. ASSUME job[j].st = "leased", ~job[j].quar
        PROVE  job[j].run \in Run /\ status[job[j].run] = "running"
    BY <2>2, RowRun DEF AttemptInv, JobMatchesStatus
  <2>3. ASSUME NEW o \in Outcome, CommitResult(j, w, o) PROVE StatusMove(r)
    <3> DEFINE s == SettledOutcome(job[j].run, o)
    <3>1. s \in Published
      BY DEF SettledOutcome, Outcome, Terminal, Published
    <3>2. status' = [status EXCEPT ![job[j].run] = s] /\ log' = Publish(log, {job[j].run}, s)
      BY <2>3 DEF CommitResult
    <3> HIDE DEF s
    <3>3. job[j].run \in Run /\ status[job[j].run] = "running"
      BY <2>2, <2>3 DEF CommitResult, Fenced
    <3> QED BY <1>2, <3>1, <3>2, <3>3 DEF Terminal
  <2>4. CASE Quarantine(j, w) \/ EnsureLostQuarantined(j, w)
    <3>1. job[j].run \in Run /\ status[job[j].run] = "running"
      BY <2>2, <2>4 DEF Quarantine, EnsureLostQuarantined, Fenced
    <3>2. /\ status' = [status EXCEPT ![job[j].run] = "cleanup_required"]
          /\ log' = Publish(log, {job[j].run}, "cleanup_required")
      BY <2>4 DEF Quarantine, EnsureLostQuarantined, QuarantineJob
    <3> QED BY <1>2, <3>1, <3>2 DEF Terminal, Published
  <2>5. CASE ConfirmCleanup(j, w)
    <3>1. job[j].run \in Run /\ status[job[j].run] = "cleanup_required"
      BY <2>5, RowRun DEF ConfirmCleanup, AttemptInv, JobMatchesStatus
    <3>2. /\ status' = [status EXCEPT ![job[j].run] = "failed"]
          /\ log' = Publish(log, {job[j].run}, "failed")
      BY <2>5, <3>1 DEF ConfirmCleanup
    <3> QED BY <1>2, <3>1, <3>2 DEF Terminal, Published
  <2>6. CASE UNCHANGED <<status, log>>
    BY <1>1, <2>6
  <2> QED BY <1>4, <2>1, <2>3, <2>4, <2>5, <2>6
          DEF AttemptStep, Renew, OpenWait, PrepareTool, BeginTool, RecoverTool, SettleTool,
              ReserveCall, EndCall
<1>5. ASSUME NEW q \in Run, RunStep(q) PROVE StatusMove(r)
  <2>1. CASE AcceptRun(q)
    <3>1. Admits(q)
      BY <2>1 DEF AcceptRun, Admits
    <3> QED BY <3>1 DEF TypeOK, StatusMove, Admits, Untouched
  <2>2. CASE OrphanFail(q)
    BY <1>2, <2>2 DEF OrphanFail, Terminal, Published
  <2>3. CASE CancelTree(q)
    <3> DEFINE gone == CancelNow({q} \cup Children(q))
    <3>1. /\ status'[r] = IF r \in gone THEN "canceled" ELSE status[r]
          /\ log'[r] = IF r \in gone THEN Append(log[r], "canceled") ELSE log[r]
      BY <2>3 DEF CancelTree, Publish
    <3>2. CASE r \in gone
      <4>1. status[r] = "waiting" \/ \E j \in Job : job[j].run = r /\ job[j].st = "pending"
        BY <3>2 DEF CancelNow, LiveJob
      <4>2. status[r] \in {"queued", "waiting"} \/ status[r] \in Terminal
        BY <4>1 DEF AttemptInv, JobMatchesStatus
      <4>3. status[r] \in Terminal => Revivable(r)
        BY <4>1, EndedActive DEF Active, Terminal
      <4> QED BY <3>1, <3>2, <4>2, <4>3 DEF StatusMove, Tells, Published, Terminal
    <3>3. CASE r \notin gone
      BY <3>1, <3>3 DEF StatusMove, Untouched
    <3> QED BY <3>2, <3>3
  <2>4. CASE UNCHANGED <<status, log>>
    BY <1>1, <2>4
  <2> QED BY <1>5, <2>1, <2>2, <2>3, <2>4
          DEF RunStep, RequestCancel, ReplayDecision, BeginResume, EnqueueResume, AbandonResume,
              Decide, DecideByRoute, tables
<1>6. ASSUME NEW j \in Job, Tick(j) PROVE StatusMove(r)
  BY <1>1, <1>6 DEF Tick
<1>7. CASE UNCHANGED vars
  BY <1>1, <1>7 DEF vars
<1> QED BY <1>3, <1>4, <1>5, <1>6, <1>7 DEF Next

\* What any step does to a job row.
LEMMA ClaimRow ==
    ASSUME TypeOK, AttemptInv, NEW w \in Worker, Claim(w), NEW j \in Job
    PROVE  RowKept(j)
<1>0. UnblockedJob[j] \in JobRecord /\ UnblockedJob \in [Job -> JobRecord]
  BY SweepType
<1>1. /\ UnblockedJob[j].run = job[j].run /\ UnblockedJob[j].kind = job[j].kind
      /\ UnblockedJob[j].late = job[j].late /\ UnblockedJob[j].gen = job[j].gen
      /\ (job[j].st = "free" <=> UnblockedJob[j].st = "free")
      /\ (UnblockedJob[j].st = "leased" /\ ~UnblockedJob[j].quar =>
            job[j].st = "leased" /\ ~job[j].quar)
  BY SweepFacts
<1>2. job[j].cancel => UnblockedJob[j].cancel
  <2>1. SweptJob[j].cancel = job[j].cancel
    BY DEF SweptJob, TypeOK, JobRecord
  <2>2. SweptJob[j] \in JobRecord
    BY SweepType
  <2> QED BY <2>1, <2>2 DEF UnblockedJob, JobRecord
<1>3. CASE job' = UnblockedJob
  BY <1>1, <1>2, <1>3 DEF RowKept
<1>4. ASSUME NEW k \in Job, Oldest(k),
             job' = [UnblockedJob EXCEPT ![k].st = "leased", ![k].owner = w,
                                         ![k].gen = @ + 1, ![k].lease = LeaseTicks],
             status' = [UnblockedStatus EXCEPT ![UnblockedJob[k].run] = "running"]
      PROVE  RowKept(j)
  <2>1. CASE j # k
    <3>1. job'[j] = UnblockedJob[j]
      BY <1>0, <1>4, <2>1
    <3> QED BY <1>1, <1>2, <3>1 DEF RowKept
  <2>2. CASE j = k
    <3>1. /\ job'[j].run = UnblockedJob[j].run /\ job'[j].kind = UnblockedJob[j].kind
          /\ job'[j].late = UnblockedJob[j].late /\ job'[j].cancel = UnblockedJob[j].cancel
          /\ job'[j].st = "leased"
      BY <1>0, <1>4, <2>2 DEF JobRecord
    <3>2. UnblockedJob[j].st = "pending" /\ \A d \in Deps[job[j].run] : UnblockedStatus[d] = "completed"
      BY <1>1, <1>4, <2>2 DEF Oldest, Claimable
    <3>3. job[j].st = "pending" /\ job[j].run \notin Blocked
      BY <1>1, <3>2, SweepFacts
    <3>4. job[j].run \in Run
      BY <3>3, RowRun
    <3>5. ASSUME NEW d \in Deps[job[j].run] PROVE status'[d] = "completed" \/ Revivable(d)
      <4>1. d \in Run /\ UnblockedStatus[d] = "completed"
        BY <3>2, <3>4, TopologyAssumption
      <4>2. CASE d # job[j].run
        BY <1>1, <1>4, <2>2, <4>1, <4>2, SweepType
      <4>3. CASE d = job[j].run
        <5>1. status[d] \in Terminal
          BY <4>1, SweepFacts DEF Terminal
        <5> QED BY <3>3, <4>3, <5>1, EndedActive DEF Active
      <4> QED BY <4>2, <4>3
    <3> QED BY <1>1, <1>2, <3>1, <3>3, <3>5 DEF RowKept
  <2> QED BY <2>1, <2>2
<1> QED BY <1>3, <1>4 DEF Claim

\* What any transaction can do to one job row.
LEMMA RowMoves ==
    ASSUME TypeOK, AttemptInv, [Next]_vars, NEW j \in Job
    PROVE  RowKept(j) \/ RowAdded(j)
<1>0. job[j] \in JobRecord
  BY DEF TypeOK
<1>1. CASE UNCHANGED job
  BY <1>1 DEF RowKept
<1>2. ASSUME NEW r, NEW kind, NEW cycle, NEW late, Insert(r, kind, cycle, late)
      PROVE  RowKept(j) \/ RowAdded(j)
  <2>1. job' = [job EXCEPT ![nJobs + 1] = FreshJob(r, kind, cycle, late)]
    BY <1>2 DEF Insert
  <2>2. CASE j = nJobs + 1
    <3>1. job[j].st = "free" /\ job'[j] = FreshJob(r, kind, cycle, late)
      BY <2>1, <2>2 DEF TypeOK
    <3> QED BY <3>1 DEF RowAdded, FreshJob
  <2>3. CASE j # nJobs + 1
    BY <1>1, <2>1, <2>3 DEF TypeOK, RowKept
  <2> QED BY <2>2, <2>3
<1>3. ASSUME NEW i \in Job, \A k \in Job : k # i => job'[k] = job[k],
             /\ job'[i].run = job[i].run /\ job'[i].kind = job[i].kind
             /\ job'[i].late = job[i].late /\ job'[i].gen = job[i].gen
             /\ job'[i].cancel = job[i].cancel /\ job[i].st # "free" /\ job'[i].st # "free"
             /\ job'[i].st = "leased" /\ ~job'[i].quar => job[i].st = "leased" /\ ~job[i].quar
      PROVE  RowKept(j)
  <2>1. CASE j = i
    BY <1>3, <2>1 DEF RowKept
  <2>2. CASE j # i
    BY <1>3, <2>2 DEF RowKept
  <2> QED BY <2>1, <2>2
<1>4. ASSUME NEW i \in Job, NEW w \in Worker, AttemptStep(i, w) PROVE RowKept(j) \/ RowAdded(j)
  <2>0. job[i] \in JobRecord
    BY DEF TypeOK
  <2> USE DEF JobRecord, TypeOK
  <2>1. CASE Renew(i, w)
    BY <1>3, <2>0, <2>1 DEF Renew, Fenced
  <2>2. ASSUME NEW o \in Outcome, CommitResult(i, w, o) PROVE RowKept(j)
    <3>1. JobStatusFor(SettledOutcome(job[i].run, o)) \in {"completed", "canceled", "dead"}
      BY DEF JobStatusFor
    <3> QED BY <1>3, <2>0, <2>2, <3>1 DEF CommitResult, Fenced
  <2>3. CASE Quarantine(i, w) \/ EnsureLostQuarantined(i, w)
    <3>1. job[i].st = "leased" /\ job' = [job EXCEPT ![i].quar = TRUE, ![i].lease = 0]
      BY <2>3 DEF Quarantine, EnsureLostQuarantined, QuarantineJob, Fenced
    <3> QED BY <1>3, <2>0, <3>1
  <2>4. CASE ConfirmCleanup(i, w)
    BY <1>3, <2>0, <2>4 DEF ConfirmCleanup
  <2>5. CASE \E S \in SUBSET (Ask \cup Tool) : OpenWait(i, w, S)
    BY <1>3, <2>0, <2>5 DEF OpenWait, Driving, Fenced
  <2>6. CASE \E r \in Run : AcceptChild(r, i, w)
    BY <1>2, <2>6 DEF AcceptChild
  <2>7. CASE UNCHANGED job
    BY <1>1, <2>7
  <2> QED BY <1>4, <2>1, <2>2, <2>3, <2>4, <2>5, <2>6, <2>7
          DEF AttemptStep, PrepareTool, BeginTool, RecoverTool, SettleTool, ReserveCall, EndCall
<1>5. ASSUME NEW r \in Run, RunStep(r) PROVE RowKept(j) \/ RowAdded(j)
  <2>1. CASE CancelTree(r)
    <3>1. \/ job'[j] = job[j] \/ job'[j] = [job[j] EXCEPT !.cancel = TRUE]
          \/ job[j].st = "pending" /\ job'[j] = [job[j] EXCEPT !.st = "canceled", !.cancel = TRUE]
      BY <2>1 DEF CancelTree
    <3> QED BY <1>0, <3>1 DEF JobRecord, RowKept
  <2>2. ASSUME NEW c \in 1..MaxCycles, NEW x \in Ask \cup Tool, Decide(r, c, x)
        PROVE  RowKept(j) \/ RowAdded(j)
    BY <1>1, <1>2, <2>2 DEF Decide, ResumeIfResolved
  <2>3. ASSUME NEW c \in 1..MaxCycles, EnqueueResume(r, c) PROVE RowKept(j) \/ RowAdded(j)
    BY <1>1, <1>2, <2>3 DEF EnqueueResume
  <2>4. ASSUME NEW c \in 1..MaxCycles, ReplayDecision(r, c) PROVE RowKept(j) \/ RowAdded(j)
    BY <1>2, <2>4 DEF ReplayDecision
  <2>5. CASE AcceptRun(r)
    BY <1>2, <2>5 DEF AcceptRun
  <2>6. CASE UNCHANGED job
    BY <1>1, <2>6
  <2> QED BY <1>5, <2>1, <2>2, <2>3, <2>4, <2>5, <2>6
          DEF RunStep, RequestCancel, OrphanFail, BeginResume, AbandonResume, DecideByRoute, tables
<1>6. ASSUME NEW i \in Job, Tick(i) PROVE RowKept(j)
  <2>0. job[i] \in JobRecord
    BY DEF TypeOK
  <2> QED BY <1>3, <1>6, <2>0 DEF Tick, JobRecord, TypeOK
<1>7. ASSUME NEW w \in Worker, Claim(w) PROVE RowKept(j)
  BY <1>7, ClaimRow
<1>8. CASE UNCHANGED vars
  BY <1>1, <1>8 DEF vars
<1> QED BY <1>4, <1>5, <1>6, <1>7, <1>8 DEF Next

\* A late row is never taken back.
LEMMA LateStays ==
    ASSUME TypeOK, AttemptInv, [Next]_vars, NEW r \in Run, Revivable(r)
    PROVE  Revivable(r)'
<1>1. PICK j \in Job : job[j].run = r /\ job[j].late
  BY DEF Revivable
<1>2. job[j].st # "free"
  BY <1>1, NullAssumption DEF TypeOK
<1> QED BY <1>1, <1>2, RowMoves DEF RowKept, RowAdded, Revivable

-----------------------------------------------------------------------------
(* One verdict, one turn per thread, dependencies first.                   *)

\* A log that is told one more event.
LEMMA Told ==
    ASSUME TypeOK, NEW r \in Run, NEW s \in Published, log'[r] = Append(log[r], s)
    PROVE  /\ Len(log[r]) \in Nat /\ Len(log'[r]) = Len(log[r]) + 1
           /\ log'[r][Len(log[r]) + 1] = s
           /\ \A k \in 1..Len(log[r]) : log'[r][k] = log[r][k]
<1>1. log[r] \in Seq(Published) /\ Len(log[r]) \in Nat
  BY LenProperties DEF TypeOK
<1> QED BY <1>1, AppendProperties

\* What OneVerdict needs before the end: an unended run has told no end, and a run
\* that last told cleanup_required is in it.
NoEarlyVerdict ==
    \A r \in Run :
        /\ ~Revivable(r) /\ status[r] \notin Terminal =>
              \A k \in 1..Len(log[r]) : log[r][k] \notin Terminal
        /\ Len(log[r]) > 0 /\ log[r][Len(log[r])] = "cleanup_required" =>
              status[r] = "cleanup_required"

\* A run is told its end once, and cleanup_required only before a failure.
LEMMA StepVerdict ==
    ASSUME TypeOK, AttemptInv, OneVerdict, NoEarlyVerdict, [Next]_vars
    PROVE  (OneVerdict /\ NoEarlyVerdict)'
<1> SUFFICES ASSUME NEW r \in Run
             PROVE  LET n == Len(log'[r])
                    IN  /\ status'[r] \in Published => n > 0 /\ log'[r][n] = status'[r]
                        /\ ~Revivable(r)' => \A k \in 1..n - 1 : log'[r][k] \notin Terminal
                        /\ \A k \in 1..n - 1 :
                              log'[r][k] = "cleanup_required" => log'[r][k + 1] = "failed"
                        /\ ~Revivable(r)' /\ status'[r] \notin Terminal =>
                              \A k \in 1..n : log'[r][k] \notin Terminal
                        /\ n > 0 /\ log'[r][n] = "cleanup_required" =>
                              status'[r] = "cleanup_required"
  BY DEF OneVerdict, NoEarlyVerdict, Terminal, Published
<1>0. Revivable(r) => Revivable(r)'
  BY LateStays
<1>1. CASE Untouched(r)
  BY <1>0, <1>1 DEF Untouched, OneVerdict, NoEarlyVerdict
<1>2. CASE Admits(r) \/ Executes(r)
  <2>1. /\ log'[r] = log[r] /\ status'[r] \in {"queued", "running"}
        /\ status[r] # "cleanup_required" /\ (status[r] \in Terminal => Revivable(r))
    BY <1>2 DEF Admits, Executes, Terminal, TypeOK
  <2> QED BY <1>0, <2>1 DEF OneVerdict, NoEarlyVerdict, Published, Terminal
<1>3. CASE Tells(r)
  <2> DEFINE n == Len(log[r])
  <2>1. /\ n \in Nat /\ Len(log'[r]) = n + 1 /\ log'[r][n + 1] = status'[r]
        /\ \A k \in 1..n : log'[r][k] = log[r][k]
    BY <1>3, Told DEF Tells
  <2>2. ~Revivable(r)' => \A k \in 1..n : log'[r][k] \notin Terminal
    BY <1>0, <1>3, <2>1 DEF Tells, NoEarlyVerdict
  <2>3. \A k \in 1..n : log'[r][k] = "cleanup_required" => log'[r][k + 1] = "failed"
    <3> SUFFICES ASSUME NEW k \in 1..n, log[r][k] = "cleanup_required"
                 PROVE  log'[r][k + 1] = "failed"
      BY <2>1
    <3>1. CASE k = n
      BY <1>3, <2>1, <3>1 DEF Tells, NoEarlyVerdict
    <3>2. CASE k # n
      <4>1. k \in 1..n - 1 /\ k + 1 \in 1..n
        BY <2>1, <3>2
      <4> QED BY <2>1, <4>1 DEF OneVerdict
    <3> QED BY <3>1, <3>2
  <2> HIDE DEF n
  <2>4. \A k \in 1..(n + 1) : k \in 1..n \/ k = n + 1
    BY <2>1
  <2> QED BY <1>0, <2>1, <2>2, <2>3, <2>4 DEF Terminal
<1> QED BY <1>1, <1>2, <1>3, StatusMoves DEF StatusMove

\* No two admissions and no resume make a second turn.
LEMMA StepTurn ==
    ASSUME TypeOK, AttemptInv, OneTurnPerThread, [Next]_vars
    PROVE  OneTurnPerThread'
<1> DEFINE Settled(s) == s \in Terminal \cup {"none"}
<1> SUFFICES ASSUME NEW q \in Run, NEW r \in Run,
                    Parent[q] = NoRun, Parent[r] = NoRun, Thread[q] = Thread[r],
                    ~Revivable(q)', ~Revivable(r)', ~Settled(status'[q]), ~Settled(status'[r]), q # r
             PROVE  FALSE
  BY DEF OneTurnPerThread
<1>0. ~Revivable(q) /\ ~Revivable(r)
  BY LateStays
<1>1. Settled(status[q]) \/ Settled(status[r])
  BY <1>0 DEF OneTurnPerThread
<1>2. ASSUME NEW a \in Run, NEW b \in Run, a # b, Parent[a] = NoRun, Parent[b] = NoRun,
             Thread[a] = Thread[b], ~Revivable(a), Settled(status[a]), ~Settled(status'[a]),
             ~Settled(status'[b])
      PROVE  FALSE
  <2>1. Admits(a)
    BY <1>2, StatusMoves DEF StatusMove, Untouched, Executes, Tells, Terminal
  <2>2. status'[b] = status[b] /\ Settled(status[b])
    BY <1>2, <2>1 DEF Admits, TypeOK
  <2> QED BY <1>2, <2>2
<1> QED BY <1>0, <1>1, <1>2

\* A row that was never inserted has been neither leased nor written for.
FreeRows == \A j \in Job : job[j].st = "free" => job[j].gen = 0 /\ calls[j] = {}

\* A dependency that is completed when its dependent starts stays completed.
LEMMA StepDependencies ==
    ASSUME TypeOK, AttemptInv, FreeRows, DependenciesFirst, [Next]_vars
    PROVE  DependenciesFirst'
<1> SUFFICES ASSUME NEW j \in Job, job'[j].gen > 0, job'[j].kind = "start", NEW d \in Deps[job'[j].run]
             PROVE  status'[d] = "completed" \/ Revivable(d)'
  BY DEF DependenciesFirst
<1>1. RowKept(j)
  BY RowMoves DEF RowAdded
<1>2. job'[j].run = job[j].run /\ job'[j].kind = job[j].kind
  BY <1>1 DEF RowKept
<1>3. job[j].run \in Run
  <2>1. CASE job[j].st = "free"
    BY <1>1, <2>1 DEF RowKept, FreeRows
  <2>2. CASE job[j].st # "free"
    BY <2>2 DEF TypeOK, JobRecord
  <2> QED BY <2>1, <2>2
<1>4. d \in Run
  BY <1>2, <1>3, TopologyAssumption
<1>5. CASE status[d] = "completed" \/ Revivable(d)
  <2>1. Revivable(d) => Revivable(d)'
    BY <1>4, LateStays
  <2>2. status[d] = "completed" => status'[d] = "completed" \/ Revivable(d)
    BY <1>4, StatusMoves DEF StatusMove, Untouched, Admits, Executes, Tells, Terminal, TypeOK
  <2> QED BY <1>5, <2>1, <2>2
<1>6. CASE ~(status[d] = "completed" \/ Revivable(d))
  <2>1. job'[j].gen # job[j].gen
    BY <1>2, <1>6 DEF DependenciesFirst
  <2> QED BY <1>1, <1>2, <1>4, <2>1, LateStays DEF RowKept
<1> QED BY <1>5, <1>6

\* What a parent's end asks of a child.
Asked(c) == Revivable(c) \/ \E j \in Job : job[j].run = c /\ job[j].cancel

\* A request to stop is never taken back.
LEMMA AskedStays ==
    ASSUME TypeOK, AttemptInv, [Next]_vars, NEW c \in Run, Asked(c)
    PROVE  Asked(c)'
<1>1. CASE Revivable(c)
  BY <1>1, LateStays DEF Asked
<1>2. CASE \E j \in Job : job[j].run = c /\ job[j].cancel
  <2>1. PICK j \in Job : job[j].run = c /\ job[j].cancel
    BY <1>2
  <2>2. job[j].st # "free"
    BY <2>1, NullAssumption DEF TypeOK
  <2> QED BY <2>1, <2>2, RowMoves DEF RowKept, RowAdded, Asked
<1> QED BY <1>1, <1>2 DEF Asked

\* Or the child is left over: its parent completed by a quorum reached without it.
Surplus(c) ==
    /\ status[Parent[c]] = "completed"
    /\ CompletionMode[c] = "quorum" /\ QuorumReached(Parent[c])

\* What a settlement has seen of a child it goes on seeing.
LEMMA SeenStays ==
    ASSUME TypeOK, AttemptInv, [Next]_vars, NEW c \in Run, Seen(c, {"completed"})
    PROVE  Seen(c, {"completed"})'
<1>1. Revivable(c) => Revivable(c)'
  BY LateStays
<1>2. status[c] = "completed" => status'[c] = "completed" \/ Revivable(c)
  BY StatusMoves DEF StatusMove, Untouched, Admits, Executes, Tells, Terminal, TypeOK
<1> QED BY <1>1, <1>2 DEF Seen

\* A quorum that was reached stays reached.
LEMMA QuorumStays ==
    ASSUME TypeOK, AttemptInv, [Next]_vars, NEW r \in Run, QuorumReached(r)
    PROVE  QuorumReached(r)'
<1> DEFINE S == {c \in QuorumMembers(r) : Seen(c, {"completed"})}
           T == {c \in Run : /\ Parent[c] = r /\ status'[c] # "none"
                             /\ CompletionMode[c] = "quorum" /\ Seen(c, {"completed"})'}
<1>1. ASSUME NEW c \in S PROVE c \in T
  <2>1. c \in Run /\ Parent[c] = r /\ status[c] # "none" /\ CompletionMode[c] = "quorum"
        /\ Seen(c, {"completed"})
    BY DEF QuorumMembers, Children
  <2>2. Seen(c, {"completed"})'
    BY <2>1, SeenStays
  <2>3. status'[c] # "none"
    BY <2>1, StatusMoves
       DEF StatusMove, Untouched, Admits, Executes, Tells, Published, Terminal, TypeOK
  <2> QED BY <2>1, <2>2, <2>3
<1>2. IsFiniteSet(T)
  BY TopologyAssumption, FS_Subset
<1>3. IsFiniteSet(S) /\ Cardinality(S) <= Cardinality(T)
  BY <1>1, <1>2, FS_Subset
<1>4. Cardinality(S) \in Nat /\ Cardinality(T) \in Nat
  BY <1>2, <1>3, FS_CardinalityType
<1>5. Cardinality(S) >= QuorumRequired
  BY DEF QuorumReached
<1>6. QuorumReached(r)' <=> Cardinality(T) >= QuorumRequired
  <2>1. {c \in QuorumMembers(r) : Seen(c, {"completed"})}' = T
    BY DEF QuorumMembers, Children
  <2> QED BY <2>1 DEF QuorumReached
<1> HIDE DEF S, T
<1> QED BY <1>3, <1>4, <1>5, <1>6, TopologyAssumption

\* A parent that completes leaves only what is left over; one that is canceled asks all.
LEMMA EndAsks ==
    ASSUME TypeOK, AttemptInv, Next, NEW c \in Run, Parent[c] # NoRun,
           status'[Parent[c]] \in {"completed", "canceled"},
           status'[Parent[c]] # status[Parent[c]],
           status'[c] \notin ChildSettled \cup {"none"}
    PROVE  Asked(c)' \/ Surplus(c)'
<1> DEFINE p == Parent[c]
<1>0. p \in Run /\ Parent[p] = NoRun /\ Deps[p] = {} /\ p # c
  BY TopologyAssumption
<1> HIDE DEF p
<1>1. ASSUME NEW w \in Worker, Claim(w) PROVE FALSE
  <2>1. p \notin Blocked
    BY <1>0 DEF Blocked
  <2>2. UnblockedStatus[p] \notin {"completed", "canceled"} \/ UnblockedStatus[p] = status[p]
    BY <1>0, <2>1, SweepFacts
  <2>3. status'[p] = UnblockedStatus[p] \/ status'[p] = "running"
    BY <1>0, <1>1, SweepType DEF Claim
  <2> QED BY <2>2, <2>3 DEF p
<1>2. ASSUME NEW j \in Job, NEW w \in Worker, AttemptStep(j, w) PROVE Asked(c)' \/ Surplus(c)'
  <2>1. ASSUME NEW o \in Outcome, CommitResult(j, w, o) PROVE Asked(c)' \/ Surplus(c)'
    <3> DEFINE s == SettledOutcome(job[j].run, o)
    <3>1. status' = [status EXCEPT ![job[j].run] = s] /\ Coordinated(job[j].run, o)
      BY <2>1 DEF CommitResult
    <3>2. s = o \/ s = "failed"
      BY DEF SettledOutcome
    <3> HIDE DEF s
    <3>3. p = job[j].run /\ s \in {"completed", "canceled"}
      BY <1>0, <3>1 DEF TypeOK, p
    <3>4. status'[c] = status[c] /\ status'[p] = s
      BY <1>0, <3>1, <3>3 DEF TypeOK
    <3>5. c \in Children(p) /\ status[c] \notin ChildSettled
      BY <3>4 DEF Children, p
    <3>6. CASE Revivable(c)
      BY <3>6, LateStays DEF Asked
    <3>7. CASE ~Revivable(c)
      <4>1. ~Seen(c, ChildSettled) /\ ~Seen(c, {"completed"})
        BY <3>5, <3>7 DEF Seen, ChildSettled, Terminal
      <4>2. s = "completed" /\ o = "completed"
        BY <3>1, <3>2, <3>3, <3>5, <4>1 DEF Coordinated, ChildrenSettled
      <4>3. PolicySatisfied(p)
        BY <3>1, <3>3, <4>2 DEF Coordinated
      <4>4. CompletionMode[c] = "quorum"
        BY <3>5, <4>1, <4>3, TopologyAssumption DEF PolicySatisfied
      <4>5. QuorumReached(p)
        BY <3>5, <4>3, <4>4 DEF PolicySatisfied, QuorumMembers
      <4>6. QuorumReached(p)'
        BY <1>0, <4>5, QuorumStays
      <4> QED BY <3>4, <4>2, <4>4, <4>6 DEF Surplus, p
    <3> QED BY <3>6, <3>7
  <2>2. ASSUME NEW q \in Run, AcceptChild(q, j, w) PROVE FALSE
    BY <1>0, <2>2 DEF AcceptChild, TypeOK, p
  <2>3. CASE QuarantineJob(j)
    BY <1>0, <2>3 DEF QuarantineJob, TypeOK, p
  <2>4. CASE ConfirmCleanup(j, w)
    BY <1>0, <2>4 DEF ConfirmCleanup, TypeOK, p
  <2>5. CASE UNCHANGED status
    BY <2>5
  <2> QED BY <1>2, <2>1, <2>2, <2>3, <2>4, <2>5
          DEF AttemptStep, Renew, OpenWait, PrepareTool, BeginTool, RecoverTool, SettleTool,
              ReserveCall, EndCall, Quarantine, EnsureLostQuarantined
<1>3. ASSUME NEW q \in Run, RunStep(q) PROVE Asked(c)'
  <2>1. CASE AcceptRun(q)
    BY <1>0, <2>1 DEF AcceptRun, TypeOK, p
  <2>2. CASE OrphanFail(q)
    BY <1>0, <2>2 DEF OrphanFail, TypeOK, p
  <2>3. CASE CancelTree(q)
    <3> DEFINE tree == {q} \cup Children(q)
    <3>1. p \in CancelNow(tree)
      BY <1>0, <2>3 DEF CancelTree, p
    <3>2. p = q
      BY <1>0, <3>1, NullAssumption DEF CancelNow, Children
    <3>3. status'[c] = status[c] /\ c \notin CancelNow(tree)
      BY <2>3 DEF CancelTree, ChildSettled, Terminal
    <3>4. c \in tree
      BY <3>2, <3>3 DEF Children, p
    <3>5. LiveJob(c, "pending") = {} /\ ~(LiveJob(c, "leased") = {} /\ status[c] = "waiting")
      BY <3>3, <3>4 DEF CancelNow
    <3>6. status[c] \in {"queued", "running", "waiting"}
      BY <3>3 DEF TypeOK, RunStatus, Published, ChildSettled, Terminal
    <3>7. \E j \in Job : job[j].run = c /\ Active(job, j) /\ job[j].st = "leased"
      <4>1. CASE status[c] = "waiting"
        BY <3>5, <4>1 DEF LiveJob, Active
      <4>2. CASE status[c] # "waiting"
        <5>1. PICK j \in Job : job[j].run = c /\ Active(job, j)
          BY <3>6, <4>2 DEF AttemptInv, NoStrandedRun
        <5>2. job[j].st = "pending" => ~job[j].quar
          BY DEF AttemptInv, FreshUntilLeased
        <5> QED BY <3>5, <5>1, <5>2 DEF LiveJob, Active
      <4> QED BY <4>1, <4>2
    <3>8. PICK j \in Job : job[j].run = c /\ job[j].st = "leased"
      BY <3>7
    <3>9. ~job[j].quar
      BY <3>6, <3>8 DEF AttemptInv, JobMatchesStatus
    <3>10. job'[j] = [job[j] EXCEPT !.cancel = TRUE]
      BY <2>3, <3>4, <3>8, <3>9 DEF CancelTree, LiveJob
    <3>11. job[j] \in JobRecord
      BY DEF TypeOK
    <3> QED BY <3>8, <3>10, <3>11 DEF Asked, JobRecord
  <2>4. CASE UNCHANGED status
    BY <2>4
  <2> QED BY <1>3, <2>1, <2>2, <2>3, <2>4
          DEF RunStep, RequestCancel, ReplayDecision, BeginResume, EnqueueResume, AbandonResume,
              Decide, DecideByRoute, tables
<1>4. ASSUME NEW j \in Job, Tick(j) PROVE FALSE
  BY <1>4 DEF Tick
<1> QED BY <1>1, <1>2, <1>3, <1>4 DEF Next

\* A parent that completes or is canceled leaves no other live child unasked.
LEMMA StepUnaware ==
    ASSUME TypeOK, AttemptInv, NoUnawareChild, [Next]_vars
    PROVE  NoUnawareChild'
<1> SUFFICES ASSUME NEW c \in Run, Parent[c] # NoRun, status'[c] \notin ChildSettled \cup {"none"},
                    status'[Parent[c]] \in {"completed", "canceled"}, ~Revivable(Parent[c])'
             PROVE  Asked(c)' \/ Surplus(c)'
  BY DEF NoUnawareChild, Asked, Surplus
<1>0. Parent[c] \in Run
  BY TopologyAssumption
<1>1. CASE status'[Parent[c]] # status[Parent[c]]
  BY <1>1, EndAsks DEF vars
<1>2. CASE status'[Parent[c]] = status[Parent[c]]
  <2>1. ~Revivable(Parent[c])
    BY <1>0, LateStays
  <2>2. CASE status[c] \notin ChildSettled \cup {"none"}
    <3>1. Asked(c) \/ Surplus(c)
      BY <1>2, <2>1, <2>2 DEF NoUnawareChild, Asked, Surplus
    <3>2. Surplus(c) => Surplus(c)'
      BY <1>0, <1>2, QuorumStays DEF Surplus
    <3> QED BY <3>1, <3>2, AskedStays
  <2>3. CASE status[c] \in ChildSettled \cup {"none"}
    <3>1. ~Admits(c)
      BY <1>2 DEF Admits
    <3>2. Revivable(c)
      BY <2>3, <3>1, StatusMoves
         DEF StatusMove, Untouched, Executes, Tells, ChildSettled, Terminal
    <3> QED BY <3>2, LateStays DEF Asked
  <2> QED BY <2>2, <2>3
<1> QED BY <1>1, <1>2

-----------------------------------------------------------------------------
(* The ledgers: what is written under a lease is settled with it.          *)

Owns(j) == job[j].st = "leased" /\ ~job[j].quar

\* What any step does to the model calls of an attempt: nothing, or it puts an
\* active one in doubt, or the attempt writes them itself.
CallMove(j) ==
    \/ calls'[j] = calls[j]
    \/ "active" \in calls[j] /\ calls'[j] = {"unknown"}
    \/ Owns(j) /\ UNCHANGED <<status, job, log>>

\* What any transaction can do to the model calls of one attempt.
LEMMA CallMoves ==
    ASSUME TypeOK, AttemptInv, [Next]_vars, NEW j \in Job
    PROVE  CallMove(j)
<1>1. CASE UNCHANGED calls
  BY <1>1 DEF CallMove
<1>2. ASSUME NEW js, calls' = MarkLostCalls(js) PROVE CallMove(j)
  BY <1>2 DEF MarkLostCalls, CallMove
<1>3. ASSUME NEW i \in Job, NEW w \in Worker,
             ReserveCall(i, w) \/ \E u \in BOOLEAN : EndCall(i, w, u)
      PROVE  CallMove(j)
  BY <1>3 DEF ReserveCall, EndCall, Driving, Fenced, Owns, CallMove, TypeOK
<1>4. ASSUME NEW i \in Job, NEW w \in Worker, AttemptStep(i, w) PROVE CallMove(j)
  BY <1>1, <1>2, <1>3, <1>4
     DEF AttemptStep, Renew, AcceptChild, CommitResult, Quarantine, EnsureLostQuarantined,
         QuarantineJob, ConfirmCleanup, OpenWait, PrepareTool, BeginTool, RecoverTool, SettleTool
<1>5. ASSUME NEW r \in Run, RunStep(r) PROVE CallMove(j)
  BY <1>1, <1>5
     DEF RunStep, AcceptRun, RequestCancel, CancelTree, OrphanFail, ReplayDecision, BeginResume,
         EnqueueResume, AbandonResume, Decide, DecideByRoute, tables
<1> QED BY <1>1, <1>2, <1>4, <1>5 DEF Next, Claim, Tick, vars

\* Only the claim leases, and only a leased attempt reserves model calls.
LEMMA StepFreeRows ==
    ASSUME TypeOK, AttemptInv, FreeRows, [Next]_vars
    PROVE  FreeRows'
<1> SUFFICES ASSUME NEW j \in Job, job'[j].st = "free" PROVE job'[j].gen = 0 /\ calls'[j] = {}
  BY DEF FreeRows
<1>1. job[j].st = "free" /\ job'[j].gen = 0
  BY RowMoves DEF RowKept, RowAdded, FreeRows
<1>2. calls[j] = {} /\ ~Owns(j)
  BY <1>1 DEF FreeRows, Owns
<1> QED BY <1>1, <1>2, CallMoves DEF CallMove

\* A run completes, or comes to wait, only by the result its attempt commits.
LEMMA OnlyCommits ==
    ASSUME TypeOK, AttemptInv, Next, NEW r \in Run,
           status'[r] \in {"completed", "waiting"}, status'[r] # status[r]
    PROVE  \E j \in Job, w \in Worker, o \in Outcome : CommitResult(j, w, o) /\ job[j].run = r
<1>1. ASSUME NEW w \in Worker, Claim(w) PROVE FALSE
  <2>1. UnblockedStatus[r] \in {"canceled", "cleanup_required", status[r]}
    BY SweepFacts
  <2>2. status'[r] = UnblockedStatus[r] \/ status'[r] = "running"
    BY <1>1, SweepType DEF Claim
  <2> QED BY <2>1, <2>2
<1>2. ASSUME NEW j \in Job, NEW w \in Worker, AttemptStep(j, w)
      PROVE  \E o \in Outcome : CommitResult(j, w, o) /\ job[j].run = r
  <2>1. ASSUME NEW o \in Outcome, CommitResult(j, w, o)
        PROVE  \E x \in Outcome : CommitResult(j, w, x) /\ job[j].run = r
    <3>1. status' = [status EXCEPT ![job[j].run] = SettledOutcome(job[j].run, o)]
      BY <2>1 DEF CommitResult
    <3>2. job[j].run = r
      BY <3>1 DEF TypeOK
    <3> QED BY <2>1, <3>2
  <2>2. ASSUME NEW q \in Run, AcceptChild(q, j, w) PROVE FALSE
    BY <2>2 DEF AcceptChild, TypeOK
  <2>3. CASE QuarantineJob(j)
    BY <2>3 DEF QuarantineJob, TypeOK
  <2>4. CASE ConfirmCleanup(j, w)
    BY <2>4 DEF ConfirmCleanup, TypeOK
  <2>5. CASE UNCHANGED status
    BY <2>5
  <2> QED BY <1>2, <2>1, <2>2, <2>3, <2>4, <2>5
          DEF AttemptStep, Renew, OpenWait, PrepareTool, BeginTool, RecoverTool, SettleTool,
              ReserveCall, EndCall, Quarantine, EnsureLostQuarantined
<1>3. ASSUME NEW q \in Run, RunStep(q) PROVE FALSE
  <2>1. CASE AcceptRun(q)
    BY <2>1 DEF AcceptRun, TypeOK
  <2>2. CASE OrphanFail(q)
    BY <2>2 DEF OrphanFail, TypeOK
  <2>3. CASE CancelTree(q)
    BY <2>3 DEF CancelTree
  <2>4. CASE UNCHANGED status
    BY <2>4
  <2> QED BY <1>3, <2>1, <2>2, <2>3, <2>4
          DEF RunStep, RequestCancel, ReplayDecision, BeginResume, EnqueueResume, AbandonResume,
              Decide, DecideByRoute, tables
<1>4. ASSUME NEW j \in Job, Tick(j) PROVE FALSE
  BY <1>4 DEF Tick
<1> QED BY <1>1, <1>2, <1>3, <1>4 DEF Next

\* A completed run keeps its settled ledgers, and a waiting one executes nothing.
LEMMA StepSettled ==
    ASSUME TypeOK, AttemptInv, AsksItsOwn, FreeRows, LedgersSettled, [Next]_vars
    PROVE  LedgersSettled'
<1> DEFINE Idle(r) == (\A t \in ToolsOf(r) : tool[t].st # "running")
                      /\ \A j \in Job : job[j].run = r => "active" \notin calls[j]
           Clean(r) == (\A t \in ToolsOf(r) : tool[t].st \notin {"prepared", "paused", "unknown"})
                       /\ \A j \in Job : job[j].run = r => "unknown" \notin calls[j]
<1>1. \A r \in Run : StillActive(r) <=> ~Idle(r)
  BY DEF StillActive
<1>2. \A r \in Run : Unsettled(r) \/ UnknownCall(r) <=> ~Clean(r)
  BY DEF Unsettled, UnknownCall
<1>3. ASSUME NEW r \in Run, \/ status'[r] = "completed" /\ status[r] = "completed"
                            \/ status'[r] = "waiting" /\ status[r] = "waiting"
      PROVE  Idle(r)' /\ (status'[r] = "completed" => Clean(r)')
  <2>1. Idle(r) /\ (status[r] = "completed" => Clean(r))
    BY <1>1, <1>2, <1>3 DEF LedgersSettled
  <2>2. ASSUME NEW t \in Tool, ToolRun[t] = r
        PROVE  /\ tool'[t].st # "running"
               /\ status[r] = "completed" => tool'[t].st \notin {"prepared", "paused", "unknown"}
    <3>1. tool[t].st # "running"
          /\ (status[r] = "completed" => tool[t].st \notin {"prepared", "paused", "unknown"})
      BY <2>1, <2>2 DEF ToolsOf
    <3>2. CASE tool'[t] = tool[t]
      BY <3>1, <3>2
    <3>3. CASE DroppedStart(t) \/ InDoubt(t)
      BY <3>1, <3>3 DEF DroppedStart, InDoubt, Startable, TypeOK, ToolRecord
    <3>4. CASE WorkedOn(t)
      <4>1. status[r] = "waiting"
        BY <1>3, <2>2, <3>4 DEF WorkedOn
      <4>2. ~StartedUnder(t)
        BY <2>2, <4>1 DEF StartedUnder, AttemptInv, JobMatchesStatus
      <4> QED BY <3>4, <4>1, <4>2
              DEF WorkedOn, WrittenTo, MadeStartable, Finished, Startable, ToolOutcome
    <3> QED BY <3>2, <3>3, <3>4, ReceiptMoves DEF ReceiptMove
  <2>3. ASSUME NEW j \in Job, job'[j].run = r
        PROVE  /\ "active" \notin calls'[j]
               /\ status[r] = "completed" => "unknown" \notin calls'[j]
    <3>1. CASE job[j].run = r
      <4>1. "active" \notin calls[j] /\ (status[r] = "completed" => "unknown" \notin calls[j])
        BY <2>1, <3>1
      <4>2. ~Owns(j)
        BY <1>3, <3>1 DEF Owns, AttemptInv, JobMatchesStatus
      <4> QED BY <4>1, <4>2, CallMoves DEF CallMove
    <3>2. CASE job[j].run # r
      <4>1. job[j].st = "free"
        BY <2>3, <3>2, RowMoves DEF RowKept, RowAdded
      <4>2. calls[j] = {} /\ ~Owns(j)
        BY <4>1 DEF FreeRows, Owns
      <4> QED BY <4>2, CallMoves DEF CallMove
    <3> QED BY <3>1, <3>2
  <2> QED BY <1>3, <2>2, <2>3 DEF ToolsOf
<1>4. ASSUME NEW r \in Run, status'[r] \in {"completed", "waiting"}, status'[r] # status[r]
      PROVE  Idle(r)' /\ (status'[r] = "completed" => Clean(r)')
  <2>1. PICK j \in Job, w \in Worker, o \in Outcome : CommitResult(j, w, o) /\ job[j].run = r
    BY <1>4, OnlyCommits DEF vars
  <2> DEFINE s == SettledOutcome(r, o)
  <2>2. status'[r] = s
    BY <2>1 DEF CommitResult, TypeOK
  <2>3. Idle(r) /\ (s = "completed" => Clean(r))
    BY <1>1, <1>2, <1>4, <2>2 DEF SettledOutcome
  <2>4. calls' = calls /\ \A i \in Job : job'[i].run = job[i].run
    BY <2>1 DEF CommitResult, TypeOK, JobRecord
  <2>5. tool' = tool \/ tool' = CancelUnstarted(tool, {r})
    BY <2>1 DEF CommitResult
  <2>6. ASSUME NEW t \in Tool PROVE tool'[t] = tool[t] \/ tool'[t] = [tool[t] EXCEPT !.st = "canceled"]
    BY <2>5 DEF CancelUnstarted
  <2>7. \A t \in Tool : tool'[t].st = tool[t].st \/ tool'[t].st = "canceled"
    BY <2>6 DEF TypeOK, ToolRecord
  <2> QED BY <2>2, <2>3, <2>4, <2>7 DEF ToolsOf
<1>5. ASSUME NEW r \in Run
      PROVE  /\ status'[r] = "completed" => ~Unsettled(r)' /\ ~StillActive(r)' /\ ~UnknownCall(r)'
             /\ status'[r] = "waiting" => ~StillActive(r)'
  <2>1. StillActive(r)' => ~Idle(r)'
    BY DEF StillActive
  <2>2. Unsettled(r)' \/ UnknownCall(r)' => ~Clean(r)'
    BY DEF Unsettled, UnknownCall
  <2>3. status'[r] \in {"completed", "waiting"} => Idle(r)' /\ (status'[r] = "completed" => Clean(r)')
    BY <1>3, <1>4
  <2> HIDE DEF Idle, Clean
  <2> QED BY <2>1, <2>2, <2>3
<1> QED BY <1>5 DEF LedgersSettled

\* An executing receipt names the attempt of its own run.
OwnReceipts ==
    \A t \in Tool : tool[t].st = "running" =>
        tool[t].job \in Job /\ job[tool[t].job].run = ToolRun[t]

\* A receipt is started by an attempt of its own run, and rows keep their run.
LEMMA StepOwnReceipts ==
    ASSUME TypeOK, AttemptInv, AsksItsOwn, OwnReceipts, [Next]_vars
    PROVE  OwnReceipts'
<1> SUFFICES ASSUME NEW t \in Tool, tool'[t].st = "running"
             PROVE  tool'[t].job \in Job /\ job'[tool'[t].job].run = ToolRun[t]
  BY DEF OwnReceipts
<1>1. CASE tool'[t] = tool[t]
  <2>1. tool[t].job \in Job /\ job[tool[t].job].run = ToolRun[t]
    BY <1>1 DEF OwnReceipts
  <2>2. job[tool[t].job].st # "free"
    BY <2>1, TopologyAssumption, NullAssumption DEF TypeOK
  <2> QED BY <1>1, <2>1, <2>2, RowMoves DEF RowKept, RowAdded
<1>2. CASE StartedUnder(t)
  BY <1>2 DEF StartedUnder
<1>3. CASE tool'[t] # tool[t] /\ ~StartedUnder(t)
  BY <1>3, ReceiptMoves
     DEF ReceiptMove, DroppedStart, InDoubt, WorkedOn, WrittenTo, MadeStartable, Finished,
         Startable, ToolOutcome, TypeOK, ToolRecord
<1> QED BY <1>1, <1>2, <1>3

\* Told that it failed, a run has been told so ever after.
ToldFailed(r) == \E n \in 1..Len(log[r]) : log[r][n] = "failed"

\* What was told stays told.
LEMMA FailedStays ==
    ASSUME TypeOK, AttemptInv, [Next]_vars, NEW r \in Run, ToldFailed(r)
    PROVE  ToldFailed(r)'
<1>1. CASE log'[r] = log[r]
  BY <1>1 DEF ToldFailed
<1>2. CASE Tells(r)
  <2>1. Len(log[r]) \in Nat /\ Len(log'[r]) = Len(log[r]) + 1
        /\ \A k \in 1..Len(log[r]) : log'[r][k] = log[r][k]
    BY <1>2, Told DEF Tells
  <2>2. PICK n \in 1..Len(log[r]) : log[r][n] = "failed"
    BY DEF ToldFailed
  <2>3. n \in 1..Len(log'[r]) /\ log'[r][n] = "failed"
    BY <2>1, <2>2
  <2> QED BY <2>3 DEF ToldFailed
<1> QED BY <1>1, <1>2, StatusMoves DEF StatusMove, Untouched, Admits, Executes

\* An attempt leaves its lease with nothing that looks live, or with a failure.
LEMMA OwnerMoves ==
    ASSUME TypeOK, AttemptInv, OwnReceipts, [Next]_vars, NEW j \in Job, Owns(j)
    PROVE  \/ Owns(j)'
           \/ ToldFailed(job[j].run)'
           \/ /\ \A t \in Tool : tool[t].st = "running" /\ tool[t].job = j => tool'[t].st # "running"
              /\ "active" \notin calls'[j]
<1> DEFINE Gone == /\ \A t \in Tool : tool[t].st = "running" /\ tool[t].job = j => tool'[t].st # "running"
                   /\ "active" \notin calls'[j]
<1>0. job[j].run \in Run /\ job[j] \in JobRecord
  BY RowRun DEF Owns, TypeOK
<1>1. ASSUME UNCHANGED job PROVE Owns(j)'
  BY <1>1 DEF Owns
<1>2. ASSUME NEW js, j \in js, NEW rs, tool' = CancelUnstarted(MarkLostTools(js), rs),
             calls' = MarkLostCalls(js)
      PROVE  Gone
  <2>1. ASSUME NEW t \in Tool, tool[t].st = "running", tool[t].job = j PROVE tool'[t].st # "running"
    <3>1. MarkLostTools(js)[t] = [tool[t] EXCEPT !.st = "unknown"]
      BY <1>2, <2>1 DEF MarkLostTools
    <3>2. tool[t] \in ToolRecord
      BY DEF TypeOK
    <3> QED BY <1>2, <3>1, <3>2 DEF CancelUnstarted, ToolRecord
  <2>2. "active" \notin calls'[j]
    BY <1>2 DEF MarkLostCalls
  <2> QED BY <2>1, <2>2
<1>3. ASSUME NEW i, i # j, NEW f, job' = [job EXCEPT ![i] = f] PROVE Owns(j)'
  BY <1>3 DEF Owns, TypeOK
<1>4. ASSUME NEW r, NEW kind, NEW cycle, NEW late, Insert(r, kind, cycle, late) PROVE Owns(j)'
  <2>1. nJobs + 1 # j
    BY <1>0, <1>4 DEF Insert, TypeOK, Owns
  <2> QED BY <1>3, <1>4, <2>1 DEF Insert
<1>5. ASSUME NEW w \in Worker, Claim(w) PROVE Owns(j)' \/ Gone
  <2>1. CASE j \in Expired
    <3>1. "active" \notin calls'[j]
      BY <1>5, <2>1 DEF Claim, MarkLostCalls
    <3>2. ASSUME NEW t \in Tool, tool[t].st = "running", tool[t].job = j PROVE tool'[t].st # "running"
      <4>1. MarkLostTools(Expired)[t] = [tool[t] EXCEPT !.st = "unknown"]
        BY <2>1, <3>2 DEF MarkLostTools
      <4>2. MarkLostTools(Expired)[t].st = "unknown"
        BY <4>1 DEF TypeOK, ToolRecord
      <4>3. SweptTool[t] = MarkLostTools(Expired)[t]
        BY <4>2 DEF SweptTool, CancelUnstarted
      <4> QED BY <1>5, <4>2, <4>3 DEF Claim, CancelUnstarted
    <3> QED BY <3>1, <3>2
  <2>2. CASE j \notin Expired
    <3>1. UnblockedJob[j].st = "leased" /\ ~UnblockedJob[j].quar
      BY <2>2, SweepFacts DEF Owns
    <3>2. ASSUME NEW k \in Job, Oldest(k) PROVE k # j
      BY <3>1, <3>2 DEF Oldest, Claimable
    <3>3. job'[j] = UnblockedJob[j]
      BY <1>5, <3>2, SweepType DEF Claim
    <3> QED BY <3>1, <3>3 DEF Owns
  <2> QED BY <2>1, <2>2
<1>6. ASSUME NEW i \in Job, NEW w \in Worker, AttemptStep(i, w)
      PROVE  Owns(j)' \/ ToldFailed(job[j].run)' \/ Gone
  <2>1. ASSUME NEW o \in Outcome, CommitResult(i, w, o)
        PROVE  Owns(j)' \/ ToldFailed(job[j].run)' \/ Gone
    <3>1. CASE i # j
      BY <2>1, <3>1 DEF CommitResult, TypeOK, Owns
    <3>2. CASE i = j
      <4> DEFINE r == job[j].run
                 s == SettledOutcome(r, o)
      <4>1. log'[r] = Append(log[r], s) /\ calls' = calls
        BY <1>0, <2>1, <3>2 DEF CommitResult, Publish
      <4>2. CASE s = "failed"
        <5>1. Len(log[r]) \in Nat /\ Len(log'[r]) = Len(log[r]) + 1 /\ log'[r][Len(log[r]) + 1] = "failed"
          BY <1>0, <4>1, <4>2, Told DEF Published, Terminal
        <5>2. Len(log[r]) + 1 \in 1..Len(log'[r])
          BY <5>1
        <5>3. ToldFailed(job[j].run)'
          <6>1. job'[j].run = job[j].run
            BY <1>0, <2>1, <3>2 DEF CommitResult, TypeOK, JobRecord
          <6> QED BY <5>1, <5>2, <6>1 DEF ToldFailed
        <5> QED BY <5>3
      <4>3. CASE s # "failed"
        <5>1. ~StillActive(r)
          BY <4>3 DEF SettledOutcome
        <5>2. \A t \in Tool : ~(tool[t].st = "running" /\ tool[t].job = j)
          BY <5>1 DEF StillActive, ToolsOf, OwnReceipts
        <5>3. "active" \notin calls[j]
          BY <5>1 DEF StillActive
        <5> QED BY <4>1, <5>2, <5>3
      <4> QED BY <4>2, <4>3
    <3> QED BY <3>1, <3>2
  <2>2. CASE Quarantine(i, w) \/ EnsureLostQuarantined(i, w)
    <3>1. QuarantineJob(i)
      BY <2>2 DEF Quarantine, EnsureLostQuarantined
    <3>2. CASE i = j
      BY <1>2, <3>1, <3>2 DEF QuarantineJob
    <3>3. CASE i # j
      BY <3>1, <3>3 DEF QuarantineJob, Owns, TypeOK
    <3> QED BY <3>2, <3>3
  <2>3. CASE ConfirmCleanup(i, w)
    BY <2>3 DEF ConfirmCleanup, Owns, TypeOK
  <2>4. CASE Renew(i, w)
    BY <1>0, <2>4 DEF Renew, Fenced, Owns, TypeOK, JobRecord
  <2>5. CASE \E S \in SUBSET (Ask \cup Tool) : OpenWait(i, w, S)
    BY <1>0, <2>5 DEF OpenWait, Owns, TypeOK, JobRecord
  <2>6. CASE \E r \in Run : AcceptChild(r, i, w)
    BY <1>4, <2>6 DEF AcceptChild
  <2>7. CASE UNCHANGED job
    BY <1>1, <2>7
  <2> QED BY <1>6, <2>1, <2>2, <2>3, <2>4, <2>5, <2>6, <2>7
          DEF AttemptStep, PrepareTool, BeginTool, RecoverTool, SettleTool, ReserveCall, EndCall
<1>7. ASSUME NEW r \in Run, RunStep(r) PROVE Owns(j)'
  <2>1. CASE CancelTree(r)
    <3>1. job'[j] = job[j] \/ job'[j] = [job[j] EXCEPT !.cancel = TRUE]
      BY <2>1 DEF CancelTree, Owns
    <3> QED BY <1>0, <3>1 DEF Owns, JobRecord
  <2>2. ASSUME NEW c \in 1..MaxCycles, NEW x \in Ask \cup Tool, Decide(r, c, x) PROVE Owns(j)'
    BY <1>1, <1>4, <2>2 DEF Decide, ResumeIfResolved
  <2>3. ASSUME NEW c \in 1..MaxCycles, EnqueueResume(r, c) PROVE Owns(j)'
    BY <1>1, <1>4, <2>3 DEF EnqueueResume
  <2>4. ASSUME NEW c \in 1..MaxCycles, ReplayDecision(r, c) PROVE Owns(j)'
    BY <1>4, <2>4 DEF ReplayDecision
  <2>5. CASE AcceptRun(r)
    BY <1>4, <2>5 DEF AcceptRun
  <2>6. CASE UNCHANGED job
    BY <1>1, <2>6
  <2> QED BY <1>7, <2>1, <2>2, <2>3, <2>4, <2>5, <2>6
          DEF RunStep, RequestCancel, OrphanFail, BeginResume, AbandonResume, DecideByRoute, tables
<1>8. ASSUME NEW i \in Job, Tick(i) PROVE Owns(j)'
  BY <1>0, <1>8 DEF Tick, Owns, TypeOK, JobRecord
<1>9. CASE UNCHANGED vars
  BY <1>1, <1>9 DEF vars
<1> QED BY <1>5, <1>6, <1>7, <1>8, <1>9 DEF Next

\* Work that looks live belongs to an attempt that holds its lease.
LEMMA StepLiveWork ==
    ASSUME TypeOK, AttemptInv, AsksItsOwn, FreeRows, OwnReceipts, LiveWorkIsOwned, [Next]_vars
    PROVE  LiveWorkIsOwned'
<1>1. ASSUME NEW j \in Job, job[j].st # "free", Owns(j) \/ ToldFailed(job[j].run)
      PROVE  \/ Owns(j)' \/ ToldFailed(job[j].run)'
             \/ /\ \A t \in Tool : tool[t].st = "running" /\ tool[t].job = j => tool'[t].st # "running"
                /\ "active" \notin calls'[j]
  <2>1. job[j].run \in Run /\ job'[j].run = job[j].run
    BY <1>1, RowMoves DEF RowKept, RowAdded, TypeOK, JobRecord
  <2>2. ToldFailed(job[j].run) => ToldFailed(job[j].run)'
    BY <2>1, FailedStays DEF ToldFailed
  <2> QED BY <1>1, <2>2, OwnerMoves
<1>2. \A j \in Job : job[j].st # "free" /\ (\/ \E t \in Tool : tool[t].st = "running" /\ tool[t].job = j
                                            \/ "active" \in calls[j]) =>
                        Owns(j) \/ ToldFailed(job[j].run)
  BY DEF LiveWorkIsOwned, Owns, ToldFailed
<1>3. ASSUME NEW t \in Tool, NEW j, tool'[t].st = "running", tool'[t].job = j
      PROVE  Owns(j)' \/ ToldFailed(job[j].run)'
  <2>1. CASE StartedUnder(t)
    BY <1>3, <2>1 DEF StartedUnder, Owns
  <2>2. CASE tool'[t] = tool[t]
    <3>1. tool[t].st = "running" /\ tool[t].job = j
      BY <1>3, <2>2
    <3>2. j \in Job /\ job[j].run \in Run
      BY <3>1, TopologyAssumption DEF OwnReceipts
    <3>3. job[j].st # "free"
      BY <3>2, NullAssumption DEF TypeOK
    <3>4. Owns(j) \/ ToldFailed(job[j].run)
      BY <1>2, <3>1, <3>2, <3>3
    <3>5. ~(tool[t].st = "running" /\ tool[t].job = j => tool'[t].st # "running")
      BY <1>3, <3>1
    <3> QED BY <1>1, <3>2, <3>3, <3>4, <3>5
  <2>3. tool'[t] = tool[t] \/ StartedUnder(t)
    BY <1>3, ReceiptMoves
       DEF ReceiptMove, DroppedStart, InDoubt, WorkedOn, WrittenTo, MadeStartable, Finished,
           Startable, ToolOutcome, TypeOK, ToolRecord
  <2> QED BY <2>1, <2>2, <2>3
<1>4. ASSUME NEW j \in Job, "active" \in calls'[j] PROVE Owns(j)' \/ ToldFailed(job[j].run)'
  <2>1. CASE calls'[j] = calls[j]
    <3>1. job[j].st # "free" /\ (Owns(j) \/ ToldFailed(job[j].run))
      BY <1>2, <1>4, <2>1 DEF FreeRows
    <3> QED BY <1>1, <1>4, <3>1
  <2>2. CASE Owns(j) /\ job' = job
    BY <2>2 DEF Owns
  <2> QED BY <1>4, <2>1, <2>2, CallMoves DEF CallMove
<1>5. \A t \in Tool : tool'[t].st = "running" =>
                        Owns(tool[t].job)' \/ ToldFailed(job[tool[t].job].run)'
  BY <1>3
<1> QED BY <1>4, <1>5 DEF LiveWorkIsOwned, Owns, ToldFailed

-----------------------------------------------------------------------------
(* The invariant of the ledgers, and what follows from it.                 *)

LedgerInv ==
    /\ AsksItsOwn /\ FreeRows /\ OwnReceipts
    /\ RestartInv /\ NoStartAfterEnd
    /\ LedgersSettled /\ LiveWorkIsOwned
    /\ OneVerdict /\ NoEarlyVerdict
    /\ OneTurnPerThread /\ DependenciesFirst /\ NoUnawareChild

\* A new database owes nothing.
LEMMA InitLedgers == Init => LedgerInv
<1> SUFFICES ASSUME Init PROVE LedgerInv
  OBVIOUS
<1>0. /\ \A j \in Job : job[j] = FreeJob /\ calls[j] = {}
      /\ \A t \in Tool : tool[t] = FreshTool /\ ToolRun[t] \in Run
      /\ \A r \in Run : status[r] = "none" /\ log[r] = << >> /\ ask[r] = << >>
      /\ \A r \in Run : Parent[r] # NoRun => Parent[r] \in Run
  BY TopologyAssumption DEF Init
<1>1. \A j \in Job : job[j].run = NoRun /\ job[j].st = "free" /\ job[j].gen = 0
  BY <1>0 DEF FreeJob, FreshJob
<1>2. \A t \in Tool : tool[t].st = "none" /\ tool[t].starts = 0 /\ tool[t].grants = 0
  BY <1>0 DEF FreshTool
<1>3. \A r \in Run : Len(log[r]) = 0 /\ Len(ask[r]) = 0
  BY <1>0
<1>4. AsksItsOwn /\ FreeRows /\ OwnReceipts
  BY <1>0, <1>1, <1>2, <1>3 DEF AsksItsOwn, FreeRows, OwnReceipts
<1>5. RestartInv /\ NoStartAfterEnd
  BY <1>2 DEF RestartInv, NoStartAfterEnd, Startable
<1>6. LedgersSettled /\ LiveWorkIsOwned
  BY <1>0, <1>2 DEF LedgersSettled, LiveWorkIsOwned
<1>7. OneVerdict /\ NoEarlyVerdict
  BY <1>0, <1>3 DEF OneVerdict, NoEarlyVerdict, Published, Terminal
<1>8. OneTurnPerThread /\ DependenciesFirst /\ NoUnawareChild
  BY <1>0, <1>1 DEF OneTurnPerThread, DependenciesFirst, NoUnawareChild
<1> QED BY <1>4, <1>5, <1>6, <1>7, <1>8 DEF LedgerInv

\* The ledgers' invariant holds together with the attempts' one.
THEOREM LedgerInvariant == Spec => [](TypeOK /\ AttemptInv /\ LedgerInv)
<1>1. Init => TypeOK /\ AttemptInv /\ LedgerInv
  BY InitType, InitAttempt, InitLedgers
<1>2. TypeOK /\ AttemptInv /\ LedgerInv /\ [Next]_vars => (TypeOK /\ AttemptInv /\ LedgerInv)'
  <2> SUFFICES ASSUME TypeOK, AttemptInv, LedgerInv, [Next]_vars
               PROVE  TypeOK' /\ AttemptInv' /\ LedgerInv'
    OBVIOUS
  <2>1. TypeOK' /\ AttemptInv'
    BY StepType, StepAttempt
  <2>2. AsksItsOwn' /\ FreeRows' /\ OwnReceipts'
    BY StepAsks, StepFreeRows, StepOwnReceipts DEF LedgerInv
  <2>3. RestartInv' /\ NoStartAfterEnd'
    BY StepRestart, StepNoStart DEF LedgerInv
  <2>4. LedgersSettled' /\ LiveWorkIsOwned'
    BY StepSettled, StepLiveWork DEF LedgerInv
  <2>5. OneVerdict' /\ NoEarlyVerdict'
    BY StepVerdict DEF LedgerInv
  <2>6. OneTurnPerThread' /\ DependenciesFirst' /\ NoUnawareChild'
    BY StepTurn, StepDependencies, StepUnaware DEF LedgerInv
  <2> QED BY <2>1, <2>2, <2>3, <2>4, <2>5, <2>6 DEF LedgerInv
<1> QED BY <1>1, <1>2, PTL DEF Spec

\* begin_tool_receipt starts a tool only from a receipt that is prepared or paused,
\* and no crash, sweep or quarantine makes a receipt so: a side effect is never
\* repeated by itself.
THEOREM NoRestartByItself == Spec => []NoBlindRestart
<1>1. LedgerInv => NoBlindRestart
  BY DEF LedgerInv, RestartInv, NoBlindRestart
<1> QED BY <1>1, LedgerInvariant, PTL

\* Whatever ends or fences a run also drops its receipts that have not started,
\* and no late attempt or decision makes one startable again.
THEOREM NothingStartsAfterEnd == Spec => []NoStartAfterEnd
<1>1. LedgerInv => NoStartAfterEnd
  BY DEF LedgerInv
<1> QED BY <1>1, LedgerInvariant, PTL

\* The result that completes a run, or lets it wait, is checked against the ledgers
\* when it is committed (_settle_execution_outcome), and no later transaction undoes
\* that check.
THEOREM CompletedIsSettled == Spec => []LedgersSettled
<1>1. LedgerInv => LedgersSettled
  BY DEF LedgerInv
<1> QED BY <1>1, LedgerInvariant, PTL

\* No sweep, quarantine or result leaves a receipt or a model call executing for an
\* attempt that is gone, unless the run was failed for it.
THEOREM NoOrphanedWork == Spec => []LiveWorkIsOwned
<1>1. LedgerInv => LiveWorkIsOwned
  BY DEF LedgerInv
<1> QED BY <1>1, LedgerInvariant, PTL

\* The lifecycle events of a run that was not revived end in one verdict, and
\* cleanup_required is followed by its failure or by nothing.
THEOREM VerdictIsOne == Spec => []OneVerdict
<1>1. LedgerInv => OneVerdict
  BY DEF LedgerInv
<1> QED BY <1>1, LedgerInvariant, PTL

\* Admission looks at the thread only once, and that is enough: no later transaction
\* of another run gives the thread a second unsettled turn.
THEOREM ThreadHasOneTurn == Spec => []OneTurnPerThread
<1>1. LedgerInv => OneTurnPerThread
  BY DEF LedgerInv
<1> QED BY <1>1, LedgerInvariant, PTL

\* The claim looks at the dependencies only once, and they stay completed.
THEOREM DependenciesComeFirst == Spec => []DependenciesFirst
<1>1. LedgerInv => DependenciesFirst
  BY DEF LedgerInv
<1> QED BY <1>1, LedgerInvariant, PTL

\* A completed parent leaves only members of a quorum it reached without them, and a
\* cancelled one asks every child: a cancel reaches it in whatever state it is.
THEOREM NoChildUnaware == Spec => []NoUnawareChild
<1>1. LedgerInv => NoUnawareChild
  BY DEF LedgerInv
<1> QED BY <1>1, LedgerInvariant, PTL
=============================================================================
