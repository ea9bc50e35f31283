----------------------- MODULE DurableServicesProofs -----------------------
(***************************************************************************)
(* Theorems about the two services that go on from their tables after a    *)
(* restart: scheduled runs, for every number of schedules and of stops of   *)
(* the process (one run for a schedule, and its outcome told), and the push *)
(* outbox, for every number of configurations, events, attempts and stops   *)
(* of the gateway (a deleted configuration owes nothing, and only its       *)
(* snapshot skips an event).                                               *)
(***************************************************************************)
EXTENDS Schedules, PushOutbox, TLAPS

-----------------------------------------------------------------------------
(* Scheduled runs.                                                         *)

SchedRecord == [status : {"none", "scheduled", "running"} \cup Final, due : BOOLEAN, run : Nat,
                notified : BOOLEAN, why : {"none", "run", "workspace", "error", "paused"}]
RunRecord == [status : {"queued", "running", "waiting", "cleanup_required"} \cup Final, pauses : Nat]
ErrandRecord == [pc : {"off", "check", "admit", "bind", "follow", "read", "report"}, run : Nat,
                 status : {"none"} \cup Final, why : {"none", "run", "workspace", "error", "paused"}]

SchedShape ==
    /\ sched \in [Schedule -> SchedRecord]
    /\ receipt \in [Schedule -> Nat]
    /\ runs \in [Schedule -> Seq(RunRecord)]
    /\ errand \in [Schedule -> ErrandRecord]
    /\ todo \subseteq Schedule /\ (server = "up" => todo = {})

\* The receipt names the only run there can be.
OneReceipt(s) == receipt[s] = Len(runs[s]) /\ Len(runs[s]) <= 1

\* Nothing is begun for a row that is not claimed, an errand knows the run of its row, and
\* what it is about to report is true of that run, which has ended.
ErrandKnows(s) ==
    /\ sched[s].status \in {"none", "scheduled"} => Len(runs[s]) = 0
    /\ ~At(s, "off") => sched[s].status = "running" /\ s \notin todo
    /\ s \in todo => sched[s].status = "running"
    /\ server = "down" => At(s, "off")
    /\ At(s, "check") \/ At(s, "admit") => errand[s].run = 0 /\ sched[s].run = 0
    /\ errand[s].pc \in {"bind", "follow", "read"} => errand[s].run = 1 /\ Len(runs[s]) = 1
    /\ At(s, "follow") \/ At(s, "read") => sched[s].run = 1
    /\ sched[s].run \in 0..Len(runs[s])
    /\ At(s, "report") /\ errand[s].status = "completed" =>
          sched[s].run = 1 /\ Len(runs[s]) = 1 /\ runs[s][1].status = "completed"
    /\ At(s, "report") /\ errand[s].status = "canceled" =>
          Len(runs[s]) = 1 /\ runs[s][1].status = "canceled"
    /\ At(s, "report") => errand[s].status # "none"

OutcomeOf(s) ==
    /\ sched[s].status = "completed" => sched[s].run = 1 /\ Len(runs[s]) = 1 /\ runs[s][1].status = "completed"
    /\ sched[s].status = "canceled" => \A n \in DOMAIN runs[s] : runs[s][n].status = "canceled"

RowInv(s) == OneReceipt(s) /\ ErrandKnows(s) /\ OutcomeOf(s)

SchedInv == SchedShape /\ \A s \in Schedule : RowInv(s)

-----------------------------------------------------------------------------
LEMMA OnlyOne == ASSUME NEW l \in Nat, l <= 1, NEW k \in 0..l, k # 0 PROVE k = 1 /\ l = 1
OBVIOUS

LEMMA SchedStart == SchedInit => SchedInv
<1> SUFFICES ASSUME SchedInit PROVE SchedInv
  OBVIOUS
<1> USE DEF SchedInit, NoErrand
<1>1. SchedShape
  BY DEF SchedShape, SchedRecord, ErrandRecord, RunRecord
<1>2. ASSUME NEW s \in Schedule
      PROVE  RowInv(s)
  BY DEF RowInv, OneReceipt, ErrandKnows, OutcomeOf, At
<1> QED BY <1>1, <1>2 DEF SchedInv

\* A step about one row says nothing of the others.
LEMMA OneRow ==
    ASSUME SchedInv, NEW s \in Schedule, SchedShape',
           \A u \in Schedule \ {s} : /\ sched'[u] = sched[u] /\ receipt'[u] = receipt[u]
                                    /\ runs'[u] = runs[u] /\ errand'[u] = errand[u],
           todo' \subseteq todo, server' = server,
           RowInv(s)'
    PROVE  SchedInv'
<1>1. ASSUME NEW u \in Schedule \ {s}
      PROVE  RowInv(u)'
  BY <1>1 DEF SchedInv, RowInv, OneReceipt, ErrandKnows, OutcomeOf, At
<1> QED BY <1>1 DEF SchedInv

\* The requests about a row, and its time.
LEMMA RequestsKeep ==
    ASSUME SchedInv, NEW s \in Schedule, Create(s) \/ TimeComes(s) \/ CancelSchedule(s) \/ Notify(s)
    PROVE  SchedInv'
<1>0. sched[s] \in SchedRecord /\ sched \in [Schedule -> SchedRecord] /\ RowInv(s)
  BY DEF SchedInv, SchedShape
<1>1. /\ UNCHANGED <<receipt, runs, errand, todo>>
      /\ \A u \in Schedule \ {s} : sched'[u] = sched[u]
      /\ server' = server
      /\ sched' \in [Schedule -> SchedRecord]
  <2>1. PICK row \in SchedRecord : sched' = [sched EXCEPT ![s] = row]
    <3>1. CASE Create(s)
      <4>1. [sched[s] EXCEPT !.status = "scheduled"] \in SchedRecord
        BY <1>0 DEF SchedRecord
      <4> QED BY <3>1, <4>1 DEF Create
    <3>2. CASE TimeComes(s)
      <4>1. [sched[s] EXCEPT !.due = TRUE] \in SchedRecord
        BY <1>0 DEF SchedRecord
      <4> QED BY <3>2, <4>1 DEF TimeComes
    <3>3. CASE CancelSchedule(s)
      <4>1. [sched[s] EXCEPT !.status = "canceled"] \in SchedRecord
        BY <1>0 DEF SchedRecord, Final
      <4> QED BY <3>3, <4>1 DEF CancelSchedule
    <3>4. CASE Notify(s)
      <4>1. [sched[s] EXCEPT !.notified = TRUE] \in SchedRecord
        BY <1>0 DEF SchedRecord
      <4> QED BY <3>4, <4>1 DEF Notify
    <3> QED BY <3>1, <3>2, <3>3, <3>4
  <2>2. UNCHANGED <<receipt, runs, errand, todo, server>>
    BY DEF Create, TimeComes, CancelSchedule, Notify
  <2> QED BY <1>0, <2>1, <2>2
<1>2. /\ sched'[s].run = sched[s].run
      /\ \/ sched'[s].status = sched[s].status
         \/ sched[s].status = "none" /\ sched'[s].status = "scheduled"
         \/ sched[s].status = "scheduled" /\ sched'[s].status = "canceled"
  BY <1>0 DEF Create, TimeComes, CancelSchedule, Notify, SchedRecord
<1>3. SchedShape'
  BY <1>1 DEF SchedInv, SchedShape
<1>4. RowInv(s)'
  <2>1. OneReceipt(s)' /\ ErrandKnows(s)'
    BY <1>0, <1>1, <1>2 DEF RowInv, OneReceipt, ErrandKnows, At
  <2>2. sched[s].status \in {"none", "scheduled"} => Len(runs[s]) = 0
    BY <1>0 DEF RowInv, ErrandKnows
  <2>3. runs[s] \in Seq(RunRecord)
    BY DEF SchedInv, SchedShape
  <2>4. OutcomeOf(s)'
    BY <1>0, <1>1, <1>2, <2>2, <2>3 DEF RowInv, OutcomeOf
  <2> QED BY <2>1, <2>4 DEF RowInv
<1> QED BY <1>1, <1>3, <1>4, OneRow

LEMMA TickKeeps ==
    ASSUME SchedInv, NEW batch \in SUBSET Schedule, Tick(batch)
    PROVE  SchedInv'
<1>0. /\ sched \in [Schedule -> SchedRecord] /\ errand \in [Schedule -> ErrandRecord]
      /\ UNCHANGED <<receipt, runs, todo, server>> /\ todo = {}
  BY DEF SchedInv, SchedShape, Tick
<1>1. \A u \in Schedule :
         IF u \in batch
         THEN /\ sched[u].status = "scheduled" /\ sched'[u] = [sched[u] EXCEPT !.status = "running"]
              /\ errand'[u] = [pc |-> "check", run |-> 0, status |-> "none", why |-> "none"]
         ELSE sched'[u] = sched[u] /\ errand'[u] = errand[u]
  BY DEF Tick, Due, NoErrand
<1>2. SchedShape'
  <2>1. sched' \in [Schedule -> SchedRecord]
    BY <1>0 DEF Tick, SchedRecord
  <2>2. errand' \in [Schedule -> ErrandRecord]
    BY <1>0 DEF Tick, ErrandRecord, NoErrand
  <2> QED BY <1>0, <2>1, <2>2 DEF SchedInv, SchedShape
<1>3. ASSUME NEW u \in Schedule
      PROVE  RowInv(u)'
  <2>1. RowInv(u)
    BY DEF SchedInv
  <2>2. CASE u \in batch
    <3>1. /\ sched[u].status = "scheduled" /\ sched'[u].status = "running" /\ sched'[u].run = sched[u].run
          /\ errand'[u] = [pc |-> "check", run |-> 0, status |-> "none", why |-> "none"]
      BY <1>0, <1>1, <2>2 DEF SchedRecord
    <3>2. Len(runs[u]) = 0 /\ sched[u].run = 0 /\ server' # "down"
      BY <2>1, <3>1, <1>0 DEF RowInv, ErrandKnows, Tick
    <3> QED BY <1>0, <2>1, <3>1, <3>2 DEF RowInv, OneReceipt, ErrandKnows, OutcomeOf, At
  <2>3. CASE u \notin batch
    BY <1>0, <1>1, <2>1, <2>3 DEF RowInv, OneReceipt, ErrandKnows, OutcomeOf, At
  <2> QED BY <2>2, <2>3
<1> QED BY <1>2, <1>3 DEF SchedInv

-----------------------------------------------------------------------------
(* The errand of a row.                                                     *)

\* What every step of an errand leaves alone.
LEMMA ErrandSteps ==
    ASSUME SchedInv, NEW s \in Schedule, Step(s) \/ Raise(s)
    PROVE  /\ \A u \in Schedule \ {s} : /\ sched'[u] = sched[u] /\ receipt'[u] = receipt[u]
                                        /\ runs'[u] = runs[u] /\ errand'[u] = errand[u]
           /\ todo' = todo /\ server' = server
           /\ sched[s] \in SchedRecord /\ errand[s] \in ErrandRecord /\ runs[s] \in Seq(RunRecord)
           /\ receipt[s] \in Nat
           /\ RowInv(s) /\ sched[s].status = "running" /\ s \notin todo /\ server # "down"
<1>1. /\ sched \in [Schedule -> SchedRecord] /\ errand \in [Schedule -> ErrandRecord]
      /\ runs \in [Schedule -> Seq(RunRecord)] /\ receipt \in [Schedule -> Nat] /\ RowInv(s)
  BY DEF SchedInv, SchedShape
<1>2. ~At(s, "off")
  BY DEF Step, Raise, CheckWorkspace, AdmitRun, Bind, Follow, Read, Complete, At
<1>3. sched[s].status = "running" /\ s \notin todo /\ server # "down"
  BY <1>1, <1>2 DEF RowInv, ErrandKnows
<1>4. \A u \in Schedule \ {s} : /\ sched'[u] = sched[u] /\ receipt'[u] = receipt[u]
                               /\ runs'[u] = runs[u] /\ errand'[u] = errand[u]
  BY <1>1 DEF Step, Raise, CheckWorkspace, AdmitRun, Bind, Follow, Read, Complete, Proceed, Report
<1>5. todo' = todo /\ server' = server
  BY DEF Step, Raise, CheckWorkspace, AdmitRun, Bind, Follow, Read, Complete, Proceed, Report
<1> QED BY <1>1, <1>3, <1>4, <1>5

\* The errand goes on, or is about to report, while the tables stay as they are.
LEMMA Proceeds ==
    ASSUME SchedInv, NEW s \in Schedule, NEW pc \in {"off", "check", "admit", "bind", "follow", "read", "report"},
           NEW run \in Nat, Proceed(s, pc, run)
    PROVE  /\ errand' \in [Schedule -> ErrandRecord]
           /\ errand'[s] = [pc |-> pc, run |-> run, status |-> "none", why |-> "none"]
BY DEF Proceed, SchedInv, SchedShape, NoErrand, ErrandRecord

LEMMA Reports ==
    ASSUME SchedInv, NEW s \in Schedule, NEW end \in Final, NEW why \in {"run", "workspace", "error", "paused"},
           Report(s, end, why), Step(s) \/ Raise(s),
           end = "completed" => sched[s].run = 1 /\ Len(runs[s]) = 1 /\ runs[s][1].status = "completed",
           end = "canceled" => Len(runs[s]) = 1 /\ runs[s][1].status = "canceled"
    PROVE  SchedInv'
<1>0. /\ \A u \in Schedule \ {s} : /\ sched'[u] = sched[u] /\ receipt'[u] = receipt[u]
                                   /\ runs'[u] = runs[u] /\ errand'[u] = errand[u]
      /\ RowInv(s) /\ sched[s].status = "running" /\ s \notin todo /\ server # "down"
      /\ errand[s] \in ErrandRecord
  BY ErrandSteps
<1>1. UNCHANGED <<sched, receipt, runs, todo, server>>
  BY DEF Report
<1>2. errand' \in [Schedule -> ErrandRecord] /\ errand'[s].pc = "report" /\ errand'[s].status = end
  BY <1>0 DEF Report, SchedInv, SchedShape, ErrandRecord
<1>3. SchedShape'
  BY <1>1, <1>2 DEF SchedInv, SchedShape
<1>4. RowInv(s)'
  <2>1. OneReceipt(s)'
    BY <1>0, <1>1, <1>2 DEF RowInv, OneReceipt, Final
  <2>2. ErrandKnows(s)'
    BY <1>0, <1>1, <1>2 DEF RowInv, ErrandKnows, At, Final
  <2>3. OutcomeOf(s)'
    BY <1>0, <1>1, <1>2 DEF RowInv, OutcomeOf, Final
  <2> QED BY <2>1, <2>2, <2>3 DEF RowInv
<1> QED BY <1>0, <1>1, <1>3, <1>4, OneRow

LEMMA ErrandKeeps ==
    ASSUME SchedInv, NEW s \in Schedule, Step(s) \/ Raise(s)
    PROVE  SchedInv'
<1>0. /\ \A u \in Schedule \ {s} : /\ sched'[u] = sched[u] /\ receipt'[u] = receipt[u]
                                   /\ runs'[u] = runs[u] /\ errand'[u] = errand[u]
      /\ todo' = todo /\ server' = server
      /\ sched[s] \in SchedRecord /\ errand[s] \in ErrandRecord /\ runs[s] \in Seq(RunRecord)
      /\ receipt[s] \in Nat
      /\ RowInv(s) /\ sched[s].status = "running" /\ s \notin todo /\ server # "down"
  BY ErrandSteps
<1>a. /\ sched \in [Schedule -> SchedRecord] /\ errand \in [Schedule -> ErrandRecord]
      /\ runs \in [Schedule -> Seq(RunRecord)] /\ receipt \in [Schedule -> Nat] /\ todo \subseteq Schedule
      /\ (server = "up" => todo = {})
  BY DEF SchedInv, SchedShape
<1>1. CASE CheckWorkspace(s)
  <2>1. CASE Proceed(s, "admit", 0) /\ UNCHANGED <<sched, receipt, runs>>
    <3>1. errand' \in [Schedule -> ErrandRecord]
          /\ errand'[s] = [pc |-> "admit", run |-> 0, status |-> "none", why |-> "none"]
      BY <2>1, Proceeds
    <3>2. SchedShape'
      BY <2>1, <3>1, <1>0, <1>a DEF SchedShape
    <3>3. sched[s].run = 0
      BY <1>0, <1>1 DEF CheckWorkspace, RowInv, ErrandKnows
    <3>4. RowInv(s)'
      <4>1. OneReceipt(s)'
        BY <2>1, <3>1, <3>3, <1>0 DEF RowInv, OneReceipt, Final
      <4>2. ErrandKnows(s)'
        BY <2>1, <3>1, <3>3, <1>0 DEF RowInv, ErrandKnows, At, Final
      <4>3. OutcomeOf(s)'
        BY <2>1, <3>1, <3>3, <1>0 DEF RowInv, OutcomeOf, Final
      <4> QED BY <4>1, <4>2, <4>3 DEF RowInv
    <3> QED BY <1>0, <3>2, <3>4, OneRow
  <2>2. CASE Report(s, "failed", "workspace")
    BY <2>2, Reports DEF Final
  <2> QED BY <1>1, <2>1, <2>2 DEF CheckWorkspace
<1>2. CASE AdmitRun(s)
  <2>0. /\ sched' = sched /\ At(s, "admit") /\ sched[s].run = 0
        /\ receipt[s] = Len(runs[s]) /\ Len(runs[s]) <= 1
    BY <1>0, <1>2 DEF AdmitRun, RowInv, ErrandKnows, OneReceipt
  <2>1. CASE receipt[s] # 0
    <3>1. Proceed(s, "bind", receipt[s]) /\ UNCHANGED <<receipt, runs>>
      BY <1>2, <2>1 DEF AdmitRun, AcceptedRun
    <3>2. errand' \in [Schedule -> ErrandRecord]
          /\ errand'[s] = [pc |-> "bind", run |-> receipt[s], status |-> "none", why |-> "none"]
      BY <3>1, <1>0, Proceeds
    <3>3. SchedShape'
      BY <2>0, <3>1, <3>2, <1>0, <1>a DEF SchedShape
    <3>4. receipt[s] = 1
      <4>1. receipt[s] \in Nat /\ receipt[s] <= 1
        BY <2>0, <1>0
      <4> QED BY <2>1, <4>1
    <3>5. RowInv(s)'
      <4>1. OneReceipt(s)'
        BY <2>0, <3>1, <3>2, <3>4, <1>0 DEF RowInv, OneReceipt, Final
      <4>2. ErrandKnows(s)'
        BY <2>0, <3>1, <3>2, <3>4, <1>0 DEF RowInv, ErrandKnows, At, Final
      <4>3. OutcomeOf(s)'
        BY <2>0, <3>1, <3>2, <3>4, <1>0 DEF RowInv, OutcomeOf, Final
      <4> QED BY <4>1, <4>2, <4>3 DEF RowInv
    <3> QED BY <1>0, <3>3, <3>5, OneRow
  <2>2. CASE receipt[s] = 0
    <3> DEFINE new == [status |-> "queued", pauses |-> 0]
    <3>1. /\ runs' = [runs EXCEPT ![s] = Append(@, new)]
          /\ receipt' = [receipt EXCEPT ![s] = Len(runs'[s])]
          /\ Proceed(s, "bind", receipt'[s])
      BY <1>2, <2>2 DEF AdmitRun, AcceptedRun
    <3>2. new \in RunRecord
      BY DEF RunRecord
    <3> HIDE DEF new
    <3>3. Len(runs'[s]) = 1 /\ runs' \in [Schedule -> Seq(RunRecord)]
      <4>1. Append(runs[s], new) \in Seq(RunRecord) /\ Len(Append(runs[s], new)) = 1
        <5>1. Len(runs[s]) = 0
          BY <2>0, <2>2
        <5>2. \A q \in Seq(RunRecord) : Len(q) = 0 =>
                 Append(q, new) \in Seq(RunRecord) /\ Len(Append(q, new)) = 1
          BY <3>2
        <5> QED BY <1>0, <5>1, <5>2
      <4>2. runs' = [runs EXCEPT ![s] = Append(runs[s], new)]
        BY <3>1
      <4> QED BY <1>a, <4>1, <4>2
    <3>4. receipt'[s] = 1 /\ receipt' \in [Schedule -> Nat]
      BY <1>a, <3>1, <3>3
    <3>5. errand' \in [Schedule -> ErrandRecord]
          /\ errand'[s] = [pc |-> "bind", run |-> 1, status |-> "none", why |-> "none"]
      BY <3>1, <3>4, Proceeds
    <3>6. SchedShape'
      BY <2>0, <3>3, <3>4, <3>5, <1>0, <1>a DEF SchedShape
    <3>7. RowInv(s)'
      <4>1. OneReceipt(s)'
        BY <2>0, <3>3, <3>4, <3>5, <1>0 DEF RowInv, OneReceipt, Final
      <4>2. ErrandKnows(s)'
        BY <2>0, <3>3, <3>4, <3>5, <1>0 DEF RowInv, ErrandKnows, At, Final
      <4>3. OutcomeOf(s)'
        BY <2>0, <3>3, <3>4, <3>5, <1>0 DEF RowInv, OutcomeOf, Final
      <4> QED BY <4>1, <4>2, <4>3 DEF RowInv
    <3> QED BY <1>0, <3>6, <3>7, OneRow
  <2> QED BY <2>1, <2>2
<1>3. CASE Bind(s)
  <2> DEFINE mine == sched[s].run \in {0, errand[s].run}
  <2>0. /\ UNCHANGED <<receipt, runs>> /\ errand[s].run = 1 /\ Len(runs[s]) = 1 /\ sched[s].run \in 0..1
    BY <1>0, <1>3 DEF Bind, RowInv, ErrandKnows, At
  <2>1. sched' = [sched EXCEPT ![s].run = 1] /\ Proceed(s, "follow", 1)
    BY <1>0, <1>3, <2>0 DEF Bind
  <2>2. errand' \in [Schedule -> ErrandRecord]
        /\ errand'[s] = [pc |-> "follow", run |-> 1, status |-> "none", why |-> "none"]
    BY <2>1, Proceeds
  <2>3. sched' \in [Schedule -> SchedRecord] /\ sched'[s].run = 1 /\ sched'[s].status = "running"
    BY <2>1, <1>0, <1>a DEF SchedRecord
  <2>4. SchedShape'
    BY <2>0, <2>2, <2>3, <1>0, <1>a DEF SchedShape
  <2>5. RowInv(s)'
    <3>1. OneReceipt(s)'
      BY <2>0, <2>2, <2>3, <1>0 DEF RowInv, OneReceipt, Final
    <3>2. ErrandKnows(s)'
      BY <2>0, <2>2, <2>3, <1>0 DEF RowInv, ErrandKnows, At, Final
    <3>3. OutcomeOf(s)'
      BY <2>0, <2>2, <2>3, <1>0 DEF RowInv, OutcomeOf, Final
    <3> QED BY <3>1, <3>2, <3>3 DEF RowInv
  <2> QED BY <1>0, <2>4, <2>5, OneRow
<1>4. CASE Follow(s)
  <2>0. /\ UNCHANGED <<sched, receipt, runs>> /\ errand[s].run = 1 /\ Len(runs[s]) = 1 /\ sched[s].run = 1
        /\ Proceed(s, "read", errand[s].run)
    BY <1>0, <1>4 DEF Follow, RowInv, ErrandKnows, At
  <2>1. errand' \in [Schedule -> ErrandRecord]
        /\ errand'[s] = [pc |-> "read", run |-> 1, status |-> "none", why |-> "none"]
    BY <2>0, Proceeds
  <2>2. SchedShape'
    BY <2>0, <2>1, <1>0, <1>a DEF SchedShape
  <2>3. RowInv(s)'
    <3>1. OneReceipt(s)'
      BY <2>0, <2>1, <1>0 DEF RowInv, OneReceipt, Final
    <3>2. ErrandKnows(s)'
      BY <2>0, <2>1, <1>0 DEF RowInv, ErrandKnows, At, Final
    <3>3. OutcomeOf(s)'
      BY <2>0, <2>1, <1>0 DEF RowInv, OutcomeOf, Final
    <3> QED BY <3>1, <3>2, <3>3 DEF RowInv
  <2> QED BY <1>0, <2>2, <2>3, OneRow
<1>5. CASE Read(s)
  <2>0. errand[s].run = 1 /\ Len(runs[s]) = 1 /\ sched[s].run = 1
    BY <1>0, <1>5 DEF Read, RowInv, ErrandKnows, At
  <2>1. CASE RunOf(s).status \in Final
    BY <1>5, <2>0, <2>1, Reports DEF Read, RunOf, Final
  <2>2. CASE RunOf(s).status \notin Final
    BY <1>5, <2>2, Reports DEF Read, Final
  <2> QED BY <2>1, <2>2
<1>6. CASE Raise(s)
  BY <1>6, Reports DEF Raise, Final
<1>7. CASE Complete(s)
  <2>0. /\ UNCHANGED <<receipt, runs>> /\ Proceed(s, "off", 0) /\ At(s, "report")
        /\ sched' = [sched EXCEPT ![s].status = errand[s].status, ![s].why = errand[s].why]
    BY <1>0, <1>7 DEF Complete
  <2>1. errand[s].status \in Final
    BY <1>0, <2>0 DEF RowInv, ErrandKnows, ErrandRecord
  <2>2. errand' \in [Schedule -> ErrandRecord]
        /\ errand'[s] = [pc |-> "off", run |-> 0, status |-> "none", why |-> "none"]
    BY <2>0, Proceeds
  <2>3. sched' \in [Schedule -> SchedRecord] /\ sched'[s].run = sched[s].run
        /\ sched'[s].status = errand[s].status
    BY <2>0, <2>1, <1>0, <1>a DEF SchedRecord, ErrandRecord
  <2>4. SchedShape'
    BY <2>0, <2>2, <2>3, <1>0, <1>a DEF SchedShape
  <2>5. Len(runs[s]) = 1 => DOMAIN runs[s] = {1}
    BY <1>0
  <2>6. RowInv(s)'
    <3>1. OneReceipt(s)'
      BY <2>0, <2>1, <2>2, <2>3, <2>5, <1>0 DEF RowInv, OneReceipt, Final
    <3>2. ErrandKnows(s)'
      BY <2>0, <2>1, <2>2, <2>3, <2>5, <1>0 DEF RowInv, ErrandKnows, At, Final
    <3>3. OutcomeOf(s)'
      BY <2>0, <2>1, <2>2, <2>3, <2>5, <1>0 DEF RowInv, ErrandKnows, OutcomeOf, At, Final
    <3> QED BY <3>1, <3>2, <3>3 DEF RowInv
  <2> QED BY <1>0, <2>4, <2>6, OneRow
<1> QED BY <1>1, <1>2, <1>3, <1>4, <1>5, <1>6, <1>7 DEF Step

-----------------------------------------------------------------------------
(* The process and the runs.                                               *)

LEMMA RecoverKeeps ==
    ASSUME SchedInv, NEW s \in Schedule, Recover(s)
    PROVE  SchedInv'
<1>0. /\ sched[s] \in SchedRecord /\ errand[s] \in ErrandRecord /\ RowInv(s)
      /\ errand \in [Schedule -> ErrandRecord]
      /\ s \in todo /\ sched[s].status = "running" /\ todo' = todo \ {s}
      /\ UNCHANGED <<sched, receipt, runs, server, restarts>>
  BY DEF SchedInv, SchedShape, Recover, RowInv, ErrandKnows
<1> DEFINE pc == IF sched[s].run = 0 THEN "check" ELSE "read"
<1>1. /\ errand' = [errand EXCEPT ![s].pc = pc, ![s].run = sched[s].run]
      /\ pc \in {"check", "read"}
  BY DEF Recover
<1>2. sched[s].run \in Nat
  BY <1>0 DEF SchedRecord
<1>3. errand' \in [Schedule -> ErrandRecord] /\ errand'[s].pc = pc /\ errand'[s].run = sched[s].run
  <2> HIDE DEF pc
  <2> QED BY <1>0, <1>1, <1>2 DEF ErrandRecord
<1>4. SchedShape'
  BY <1>0, <1>3 DEF SchedInv, SchedShape
<1>5. \A u \in Schedule \ {s} : errand'[u] = errand[u]
  BY <1>0, <1>1
<1>6. RowInv(s)'
  <2>1. OneReceipt(s)' /\ OutcomeOf(s)'
    BY <1>0 DEF RowInv, OneReceipt, OutcomeOf
  <2>2. receipt[s] \in Nat
    BY DEF SchedInv, SchedShape
  <2>3. sched[s].run # 0 => sched[s].run = 1 /\ Len(runs[s]) = 1
    <3>1. sched[s].run \in 0..Len(runs[s]) /\ Len(runs[s]) <= 1 /\ Len(runs[s]) \in Nat
      BY <1>0, <2>2 DEF RowInv, OneReceipt, ErrandKnows
    <3> QED BY <3>1, OnlyOne
  <2>4. ErrandKnows(s)'
    BY <1>0, <1>3, <2>3 DEF RowInv, ErrandKnows, At, Recover
  <2> QED BY <2>1, <2>4 DEF RowInv
<1> QED BY <1>0, <1>4, <1>5, <1>6, OneRow

LEMMA ProcessKeeps ==
    ASSUME SchedInv, Down \/ Boot \/ Serve
    PROVE  SchedInv'
<1>0. UNCHANGED <<sched, receipt, runs>>
  BY DEF Down, Boot, Serve
<1>1. CASE Down
  <2>1. \A u \in Schedule : errand'[u] = NoErrand
    BY <1>1 DEF Down
  <2>2. todo' = {} /\ errand' \in [Schedule -> ErrandRecord]
    BY <1>1 DEF Down, NoErrand, ErrandRecord
  <2>3. SchedShape'
    BY <1>0, <2>2 DEF SchedInv, SchedShape
  <2>4. \A u \in Schedule : RowInv(u)'
    BY <1>0, <2>1, <2>2 DEF SchedInv, RowInv, OneReceipt, ErrandKnows, OutcomeOf, At, NoErrand
  <2> QED BY <2>3, <2>4 DEF SchedInv
<1>2. CASE Boot
  <2>1. todo' = Claimed /\ errand' = errand /\ server' = "boot" /\ server = "down"
    BY <1>2 DEF Boot
  <2>2. SchedShape'
    BY <1>0, <2>1 DEF SchedInv, SchedShape, Claimed
  <2>3. ASSUME NEW u \in Schedule
        PROVE  RowInv(u)'
    <3>1. At(u, "off")
      BY <2>1 DEF SchedInv, RowInv, ErrandKnows
    <3>2. RowInv(u)
      BY DEF SchedInv
    <3> QED BY <1>0, <2>1, <3>1, <3>2 DEF RowInv, OneReceipt, ErrandKnows, OutcomeOf, At, Claimed
  <2> QED BY <2>2, <2>3 DEF SchedInv
<1>3. CASE Serve
  <2>1. todo' = todo /\ errand' = errand /\ todo = {} /\ server' = "up"
    BY <1>3 DEF Serve
  <2>2. SchedShape'
    BY <1>0, <2>1 DEF SchedInv, SchedShape
  <2>3. \A u \in Schedule : RowInv(u)'
    BY <1>0, <2>1 DEF SchedInv, RowInv, OneReceipt, ErrandKnows, OutcomeOf, At
  <2> QED BY <2>2, <2>3 DEF SchedInv
<1> QED BY <1>1, <1>2, <1>3

\* A run moves: it is one of the row's, it had not ended, and a completed one is of no row
\* that says otherwise.
LEMMA MovesKeep ==
    ASSUME SchedInv, NEW s \in Schedule, NEW n \in Nat,
           NEW from \in SUBSET {"queued", "running", "waiting", "cleanup_required"},
           NEW to \in {"queued", "running", "waiting", "cleanup_required"} \cup Final,
           MoveRun(s, n, from, to)
    PROVE  SchedInv'
<1>0. /\ runs \in [Schedule -> Seq(RunRecord)] /\ runs[s] \in Seq(RunRecord) /\ RowInv(s)
      /\ UNCHANGED <<sched, receipt, errand, todo, server, restarts>>
      /\ n \in DOMAIN runs[s] /\ runs[s][n].status \in from
  BY DEF SchedInv, SchedShape, MoveRun
<1> DEFINE p == IF to = "waiting" THEN runs[s][n].pauses + 1 ELSE runs[s][n].pauses
<1> DEFINE rec == [runs[s][n] EXCEPT !.status = to, !.pauses = p]
<1>1. runs[s][n] \in RunRecord
  BY <1>0
<1>2. rec \in RunRecord /\ rec.status = to
  <2>1. p \in Nat
    BY <1>1 DEF RunRecord
  <2> HIDE DEF p
  <2> QED BY <1>1, <2>1 DEF RunRecord
<1>3. runs' = [runs EXCEPT ![s] = [runs[s] EXCEPT ![n] = rec]]
  BY <1>0 DEF MoveRun
<1> HIDE DEF rec
<1>4. [runs[s] EXCEPT ![n] = rec] \in Seq(RunRecord) /\ Len([runs[s] EXCEPT ![n] = rec]) = Len(runs[s])
  BY <1>0, <1>2
<1>5. runs' \in [Schedule -> Seq(RunRecord)] /\ Len(runs'[s]) = Len(runs[s])
      /\ \A u \in Schedule \ {s} : runs'[u] = runs[u]
  BY <1>0, <1>3, <1>4
<1>6. SchedShape'
  BY <1>0, <1>5 DEF SchedInv, SchedShape
<1>7. RowInv(s)'
  <2>1. OneReceipt(s)'
    BY <1>0, <1>5 DEF RowInv, OneReceipt
  <2>2. n = 1 /\ Len(runs[s]) = 1 /\ DOMAIN runs[s] = {1}
    <3>1. Len(runs[s]) \in Nat /\ Len(runs[s]) <= 1 /\ n \in 1..Len(runs[s])
      BY <1>0 DEF RowInv, OneReceipt
    <3>2. Len(runs[s]) = 1 /\ n = 1
      <4>1. n \in 0..Len(runs[s]) /\ n # 0
        BY <3>1
      <4> QED BY <3>1, <4>1, OnlyOne
    <3> QED BY <1>0, <3>2
  <2>3. runs[s][1].status \notin Final
    BY <1>0, <2>2 DEF Final
  <2>4. ErrandKnows(s)'
    BY <1>0, <1>5, <2>2, <2>3 DEF RowInv, ErrandKnows, At, Final
  <2>5. OutcomeOf(s)'
    BY <1>0, <2>2, <2>3 DEF RowInv, OutcomeOf, Final
  <2> QED BY <2>1, <2>4, <2>5 DEF RowInv
<1> QED BY <1>0, <1>5, <1>6, <1>7, OneRow

LEMMA RunsKeep ==
    ASSUME SchedInv, NEW s \in Schedule, RunStep(s)
    PROVE  SchedInv'
<1> PICK n \in 1..2 : Execute(s, n) \/ Resume(s, n) \/ CancelRun(s, n) \/ Release(s, n)
  BY DEF RunStep
<1>1. CASE Execute(s, n)
  BY <1>1, MovesKeep DEF Execute, Final
<1>2. CASE Resume(s, n)
  BY <1>2, MovesKeep DEF Resume
<1>3. CASE CancelRun(s, n)
  BY <1>3, MovesKeep DEF CancelRun, Final
<1>4. CASE Release(s, n)
  BY <1>4, MovesKeep DEF Release, Final
<1> QED BY <1>1, <1>2, <1>3, <1>4

-----------------------------------------------------------------------------
LEMMA SchedStep == SchedInv /\ [SchedNext]_schedVars => SchedInv'
<1> SUFFICES ASSUME SchedInv, [SchedNext]_schedVars PROVE SchedInv'
  OBVIOUS
<1>1. CASE UNCHANGED schedVars
  BY <1>1 DEF schedVars, SchedInv, SchedShape, RowInv, OneReceipt, ErrandKnows, OutcomeOf, At
<1>2. CASE SchedNext
  <2>1. ASSUME NEW s \in Schedule,
               \/ Create(s) \/ TimeComes(s) \/ CancelSchedule(s) \/ Notify(s)
               \/ Step(s) \/ Raise(s) \/ Recover(s) \/ RunStep(s)
        PROVE  SchedInv'
    BY <2>1, RequestsKeep, ErrandKeeps, RecoverKeeps, RunsKeep
  <2> QED BY <1>2, <2>1, TickKeeps, ProcessKeeps DEF SchedNext
<1> QED BY <1>1, <1>2

\* The inductive invariant of the scheduler: what a row says, what the admission table holds,
\* and what the errand that carries a run to its end knows of both (scheduler.py).
THEOREM SchedInvariant == SchedSpec => []SchedInv
BY SchedStart, SchedStep, PTL DEF SchedSpec

-----------------------------------------------------------------------------
(* What follows.                                                           *)

\* However often the process stops between the admission of a run, its binding and its
\* end, the row's command id leads it back to the run it has.
THEOREM ScheduleRunsOnce == SchedSpec => []OneRunPerSchedule
<1>1. SchedInv => OneRunPerSchedule
  BY DEF SchedInv, RowInv, OneReceipt, OneRunPerSchedule
<1> QED BY <1>1, SchedInvariant, PTL

\* A completed or canceled row tells what became of its run, also when it was reconciled
\* after a restart.
THEOREM ScheduleTellsOutcome == SchedSpec => []OutcomeIsTheRuns
<1>1. SchedInv => OutcomeIsTheRuns
  BY DEF SchedInv, RowInv, OutcomeOf, OutcomeIsTheRuns
<1> QED BY <1>1, SchedInvariant, PTL

\* How often the process stops and a run pauses stays within the bounds of the model.
SchedBounds ==
    /\ restarts \in 0..MaxRestarts /\ server \in {"down", "boot", "up"}
    /\ \A s \in Schedule : \A n \in DOMAIN runs[s] : runs[s][n].pauses <= MaxPauses

\* What becomes of the runs of a row.
RowRunsMove(s) ==
    \/ runs'[s] = runs[s]
    \/ runs'[s] = Append(runs[s], [status |-> "queued", pauses |-> 0])
    \/ \E n \in DOMAIN runs[s] : \E to :
          LET p == IF to = "waiting" THEN runs[s][n].pauses + 1 ELSE runs[s][n].pauses
          IN /\ to = "waiting" => runs[s][n].pauses < MaxPauses
             /\ runs'[s] = [runs[s] EXCEPT ![n] = [runs[s][n] EXCEPT !.status = to, !.pauses = p]]

LEMMA MovesOne ==
    ASSUME SchedInv, NEW s \in Schedule, NEW n \in Nat, NEW from, NEW to, MoveRun(s, n, from, to),
           to = "waiting" => runs[s][n].pauses < MaxPauses
    PROVE  \A u \in Schedule : RowRunsMove(u)
<1> DEFINE p == IF to = "waiting" THEN runs[s][n].pauses + 1 ELSE runs[s][n].pauses
<1> DEFINE rec == [runs[s][n] EXCEPT !.status = to, !.pauses = p]
<1>1. runs \in [Schedule -> Seq(RunRecord)] /\ n \in DOMAIN runs[s]
  BY DEF SchedInv, SchedShape, MoveRun
<1>2. runs' = [runs EXCEPT ![s] = [runs[s] EXCEPT ![n] = rec]]
  BY DEF MoveRun
<1>3. RowRunsMove(s)
  BY <1>1, <1>2 DEF RowRunsMove
<1> HIDE DEF rec
<1>4. \A u \in Schedule \ {s} : runs'[u] = runs[u]
  BY <1>1, <1>2
<1> QED BY <1>3, <1>4 DEF RowRunsMove

LEMMA RunsMove ==
    ASSUME SchedInv, SchedNext
    PROVE  \A s \in Schedule : RowRunsMove(s)
<1>1. ASSUME NEW s \in Schedule, RunStep(s) PROVE \A u \in Schedule : RowRunsMove(u)
  <2>1. PICK n \in 1..2 : Execute(s, n) \/ Resume(s, n) \/ CancelRun(s, n) \/ Release(s, n)
    BY <1>1 DEF RunStep
  <2>2. PICK from, to : MoveRun(s, n, from, to) /\ (to = "waiting" => runs[s][n].pauses < MaxPauses)
    <3>1. CASE Execute(s, n)
      BY <3>1 DEF Execute
    <3>2. CASE Resume(s, n) \/ CancelRun(s, n) \/ Release(s, n)
      BY <3>2 DEF Resume, CancelRun, Release
    <3> QED BY <2>1, <3>1, <3>2
  <2> QED BY <2>2, MovesOne
<1>2. ASSUME NEW s \in Schedule, AdmitRun(s) PROVE \A u \in Schedule : RowRunsMove(u)
  <2>1. runs' = runs \/ runs' = [runs EXCEPT ![s] = Append(@, [status |-> "queued", pauses |-> 0])]
    BY <1>2 DEF AdmitRun
  <2> QED BY <2>1 DEF RowRunsMove, SchedInv, SchedShape
<1>3. ASSUME UNCHANGED runs PROVE \A u \in Schedule : RowRunsMove(u)
  BY <1>3 DEF RowRunsMove
<1>4. ASSUME NEW s \in Schedule,
             \/ Create(s) \/ TimeComes(s) \/ CancelSchedule(s) \/ Notify(s) \/ CheckWorkspace(s)
             \/ Bind(s) \/ Follow(s) \/ Read(s) \/ Complete(s) \/ Raise(s) \/ Recover(s)
      PROVE  UNCHANGED runs
  BY <1>4 DEF Create, TimeComes, CancelSchedule, Notify, CheckWorkspace, Bind, Follow, Read,
     Complete, Raise, Recover, Report
<1>5. ASSUME (\E batch \in SUBSET Schedule : Tick(batch)) \/ Down \/ Boot \/ Serve
      PROVE  UNCHANGED runs
  BY <1>5 DEF Tick, Down, Boot, Serve
<1> QED BY <1>1, <1>2, <1>3, <1>4, <1>5 DEF SchedNext, Step

\* Every value the scheduler holds is one the code can hold, and an errand that binds, follows
\* or reads a run has one to bind, follow or read (scheduler.py:108-196).
THEOREM SchedTypesHold == SchedSpec => []SchedTypeOK
<1>1. SchedInit => SchedBounds
  BY ScheduleAssumption DEF SchedInit, SchedBounds
<1>2. SchedInv /\ SchedBounds /\ SchedInv' /\ [SchedNext]_schedVars => SchedBounds'
  <2> SUFFICES ASSUME SchedInv, SchedBounds, SchedInv', [SchedNext]_schedVars PROVE SchedBounds'
    OBVIOUS
  <2>1. CASE UNCHANGED schedVars
    BY <2>1 DEF schedVars, SchedBounds
  <2>2. CASE SchedNext
    <3>1. restarts' \in 0..MaxRestarts /\ server' \in {"down", "boot", "up"}
      <4>1. \/ restarts' = restarts /\ server' = server
            \/ restarts < MaxRestarts /\ restarts' = restarts + 1 /\ server' = "down"
            \/ restarts' = restarts /\ server' \in {"boot", "up"}
        <5>1. CASE Down \/ Boot \/ Serve
          BY <5>1 DEF Down, Boot, Serve
        <5>2. CASE \E batch \in SUBSET Schedule : Tick(batch)
          BY <5>2 DEF Tick
        <5>3. ASSUME NEW s \in Schedule,
                     \/ Create(s) \/ TimeComes(s) \/ CancelSchedule(s) \/ Notify(s)
                     \/ Step(s) \/ Raise(s) \/ Recover(s) \/ RunStep(s)
              PROVE  restarts' = restarts /\ server' = server
          <6>1. CASE Create(s) \/ TimeComes(s) \/ CancelSchedule(s) \/ Notify(s) \/ Recover(s) \/ Raise(s)
            BY <6>1 DEF Create, TimeComes, CancelSchedule, Notify, Recover, Raise, Report
          <6>2. CASE Step(s)
            BY <6>2 DEF Step, CheckWorkspace, AdmitRun, Bind, Follow, Read, Complete, Report, Proceed
          <6>3. CASE RunStep(s)
            BY <6>3 DEF RunStep, Execute, Resume, CancelRun, Release, MoveRun
          <6> QED BY <5>3, <6>1, <6>2, <6>3
        <5> QED BY <2>2, <5>1, <5>2, <5>3 DEF SchedNext
      <4> QED BY <4>1, ScheduleAssumption DEF SchedBounds
    <3>2. ASSUME NEW s \in Schedule, NEW m \in DOMAIN runs'[s] PROVE runs'[s][m].pauses <= MaxPauses
      <4>1. RowRunsMove(s)
        BY <2>2, RunsMove
      <4>2. /\ runs[s] \in Seq(RunRecord) /\ MaxPauses \in Nat
            /\ \A n \in DOMAIN runs[s] : runs[s][n] \in RunRecord /\ runs[s][n].pauses <= MaxPauses
        BY ScheduleAssumption DEF SchedInv, SchedShape, SchedBounds
      <4>3. CASE runs'[s] = runs[s]
        BY <3>2, <4>2, <4>3
      <4>4. CASE runs'[s] = Append(runs[s], [status |-> "queued", pauses |-> 0])
        <5>1. m \in DOMAIN runs[s] \/ m = Len(runs[s]) + 1
          BY <3>2, <4>2, <4>4
        <5>2. m \in DOMAIN runs[s] => runs'[s][m] = runs[s][m]
          BY <4>2, <4>4
        <5>3. m = Len(runs[s]) + 1 => runs'[s][m] = [status |-> "queued", pauses |-> 0]
          BY <4>2, <4>4
        <5> QED BY <4>2, <5>1, <5>2, <5>3
      <4>5. ASSUME NEW n \in DOMAIN runs[s], NEW to, NEW p,
                   p = IF to = "waiting" THEN runs[s][n].pauses + 1 ELSE runs[s][n].pauses,
                   to = "waiting" => runs[s][n].pauses < MaxPauses,
                   runs'[s] = [runs[s] EXCEPT ![n] = [runs[s][n] EXCEPT !.status = to, !.pauses = p]]
            PROVE  runs'[s][m].pauses <= MaxPauses
        <5>1. runs[s][n] \in RunRecord /\ runs[s][n].pauses \in Nat /\ runs[s][n].pauses <= MaxPauses
          BY <4>2 DEF RunRecord
        <5>2. p <= MaxPauses
          BY <4>2, <4>5, <5>1
        <5>3. m = n => runs'[s][m].pauses = p
          BY <4>2, <4>5, <5>1 DEF RunRecord
        <5>4. m # n => m \in DOMAIN runs[s] /\ runs'[s][m] = runs[s][m]
          BY <3>2, <4>2, <4>5
        <5> QED BY <4>2, <5>2, <5>3, <5>4
      <4> QED BY <4>1, <4>3, <4>4, <4>5 DEF RowRunsMove
    <3> QED BY <3>1, <3>2 DEF SchedBounds
  <2> QED BY <2>1, <2>2
<1>3. SchedInv /\ SchedBounds => SchedTypeOK
  <2> SUFFICES ASSUME SchedInv, SchedBounds PROVE SchedTypeOK
    OBVIOUS
  <2>1. ASSUME NEW s \in Schedule
        PROVE  /\ receipt[s] \in 0..Len(runs[s]) /\ sched[s].run \in 0..Len(runs[s])
               /\ errand[s].pc \in {"off", "check", "admit", "bind", "follow", "read", "report"}
               /\ errand[s].pc \in {"bind", "follow", "read"} => errand[s].run \in 1..Len(runs[s])
    <3>1. errand[s] \in ErrandRecord /\ Len(runs[s]) \in Nat
      BY DEF SchedInv, SchedShape
    <3>2. /\ receipt[s] = Len(runs[s]) /\ sched[s].run \in 0..Len(runs[s])
          /\ errand[s].pc \in {"bind", "follow", "read"} => errand[s].run = 1 /\ Len(runs[s]) = 1
      BY DEF SchedInv, RowInv, OneReceipt, ErrandKnows
    <3>3. receipt[s] \in 0..Len(runs[s])
      BY <3>1, <3>2
    <3>4. errand[s].pc \in {"bind", "follow", "read"} => errand[s].run \in 1..Len(runs[s])
      BY <3>2
    <3>5. errand[s].pc \in {"off", "check", "admit", "bind", "follow", "read", "report"}
      BY <3>1 DEF ErrandRecord
    <3> QED BY <3>2, <3>3, <3>4, <3>5
  <2>2. ASSUME NEW s \in Schedule, NEW n \in DOMAIN runs[s]
        PROVE  runs[s][n] \in [status : {"queued", "running", "waiting", "cleanup_required"} \cup Final,
                               pauses : 0..MaxPauses]
    <3>1. runs[s][n] \in RunRecord /\ runs[s][n].pauses <= MaxPauses /\ MaxPauses \in Nat
      BY ScheduleAssumption DEF SchedInv, SchedShape, SchedBounds
    <3> QED BY <3>1 DEF RunRecord
  <2> QED BY <2>1, <2>2 DEF SchedTypeOK, SchedInv, SchedShape, SchedBounds, SchedRecord
<1> QED BY <1>1, <1>2, <1>3, SchedInvariant, PTL DEF SchedSpec

-----------------------------------------------------------------------------
(* The push outbox.                                                        *)

Status == {"none"} \cup Unsettled \cup Settled

\* A round reads the cursor before the events it records, and only this coordinator moves
\* the cursor event by event: what it has read is never ahead of the cursor.
RoundInv ==
    /\ Pumping("poll") => pump.after <= cursor
    /\ Pumping("record") => pump.after <= cursor /\ pump.upto <= lastEvent
    /\ Pumping("send") => pump.job \in Pushes

PushShape ==
    /\ lastEvent \in Nat /\ cursor \in Nat /\ cursor <= lastEvent
    /\ config \in [Config -> [state : {"none", "creating", "live", "deleted"},
                              start : Nat, since : Nat]]
    /\ \A c \in Config : config[c].start <= lastEvent
    /\ outbox \in [Pushes -> [status : Status, attempts : Nat]]
    /\ pump \in [pc : {"list", "poll", "record", "deliver", "send"}, after : Nat, upto : Nat,
                 job : Pushes \cup {<<>>}]

PushInv == PushShape /\ RoundInv /\ DeletedOwesNothing /\ OnlySnapshotsSkip

-----------------------------------------------------------------------------
LEMMA PushStart == PushInit => PushInv
<1> SUFFICES ASSUME PushInit PROVE PushInv
  OBVIOUS
<1>1. PushShape
  BY DEF PushInit, PushShape, PumpAt, NoPush, Status
<1>2. RoundInv
  BY DEF PushInit, RoundInv, PumpAt, Pumping
<1>3. DeletedOwesNothing /\ OnlySnapshotsSkip
  BY DEF PushInit, DeletedOwesNothing, OnlySnapshotsSkip, Pushes
<1> QED BY <1>1, <1>2, <1>3 DEF PushInv

\* Steps that leave the configurations, the cursor and the outbox alone.
LEMMA PumpMoves ==
    ASSUME PushInv, UNCHANGED <<config, cursor, jumped, outbox>>,
           lastEvent' \in Nat, lastEvent <= lastEvent',
           pump' \in [pc : {"list", "poll", "record", "deliver", "send"}, after : Nat, upto : Nat,
                     job : Pushes \cup {<<>>}],
           RoundInv'
    PROVE  PushInv'
<1>1. PushShape'
  BY DEF PushInv, PushShape
<1>2. DeletedOwesNothing' /\ OnlySnapshotsSkip'
  BY DEF PushInv, DeletedOwesNothing, OnlySnapshotsSkip
<1> QED BY <1>1, <1>2 DEF PushInv

\* Steps that write rows that are there, and only rows of live configurations or rows that
\* are leased, which a deleted configuration does not have.
LEMMA RowsChange ==
    ASSUME PushInv, UNCHANGED <<config, cursor, jumped, lastEvent>>,
           outbox' \in [Pushes -> [status : Status, attempts : Nat]],
           \A k \in Pushes : outbox[k].status # "none" => outbox'[k].status # "none",
           \A k \in Pushes : config[k[1]].state = "deleted" => outbox'[k] = outbox[k],
           pump' \in [pc : {"list", "poll", "record", "deliver", "send"}, after : Nat, upto : Nat,
                     job : Pushes \cup {<<>>}],
           RoundInv'
    PROVE  PushInv'
<1>1. PushShape'
  BY DEF PushInv, PushShape
<1>2. DeletedOwesNothing'
  BY DEF PushInv, DeletedOwesNothing
<1>3. OnlySnapshotsSkip'
  BY DEF PushInv, OnlySnapshotsSkip
<1> QED BY <1>1, <1>2, <1>3 DEF PushInv

LEMMA RoundsMove ==
    ASSUME PushInv, Publish \/ ListTasks \/ PollRun \/ PollFails \/ ProjectionFails \/ BatchDone \/ Rest
    PROVE  PushInv'
<1> USE DEF PushInv, PushShape, PumpAt, Pumping
<1>1. /\ UNCHANGED <<config, cursor, jumped, outbox>>
      /\ lastEvent' \in Nat /\ lastEvent <= lastEvent'
  BY DEF Publish, ListTasks, PollRun, PollFails, ProjectionFails, BatchDone, Rest
<1>2. pump' \in [pc : {"list", "poll", "record", "deliver", "send"}, after : Nat, upto : Nat,
                job : Pushes \cup {<<>>}]
  <2>1. CASE Publish
    BY <2>1 DEF Publish
  <2>2. CASE ListTasks
    BY <2>2 DEF ListTasks
  <2>3. CASE PollRun
    BY <2>3 DEF PollRun
  <2>4. CASE PollFails \/ BatchDone \/ ProjectionFails \/ Rest
    BY <2>4 DEF PollFails, ProjectionFails, BatchDone, Rest, PumpGoesTo
  <2> QED BY <2>1, <2>2, <2>3, <2>4
<1>3. RoundInv'
  <2>1. CASE Publish
    BY <2>1 DEF Publish, RoundInv
  <2>2. CASE ListTasks
    BY <2>2 DEF ListTasks, RoundInv
  <2>3. CASE PollRun
    BY <2>3 DEF PollRun, RoundInv
  <2>4. CASE PollFails \/ ProjectionFails \/ BatchDone \/ Rest
    BY <2>4 DEF PollFails, ProjectionFails, BatchDone, Rest, PumpGoesTo, RoundInv
  <2> QED BY <2>1, <2>2, <2>3, <2>4
<1> QED BY <1>1, <1>2, <1>3, PumpMoves

\* The recorder: the next event is the cursor's successor, or one it has already passed.
LEMMA RecordKeeps ==
    ASSUME PushInv, RecordEvent
    PROVE  PushInv'
<1> USE DEF PushInv, PushShape
<1>1. /\ Pumping("record") /\ NextEvent \in Nat /\ NextEvent <= lastEvent
      /\ NextEvent <= cursor + 1 /\ UNCHANGED <<lastEvent, config, jumped>>
      /\ pump' = [pump EXCEPT !.after = NextEvent]
  BY DEF RecordEvent, Batched, NextEvent, RoundInv, Pumping
<1>2. /\ cursor' \in Nat /\ NextEvent <= cursor' /\ cursor' <= lastEvent
      /\ cursor' = cursor \/ (cursor' = cursor + 1 /\ NextEvent = cursor + 1)
  BY <1>1 DEF RecordEvent
<1>3. \A k \in Pushes : outbox'[k] = outbox[k]
                       \/ (outbox'[k] = NewPush /\ k[1] \in LiveConfigs /\ k[2] = NextEvent)
  BY DEF RecordEvent
<1>4. outbox' \in [Pushes -> [status : Status, attempts : Nat]]
  <2>1. NewPush \in [status : Status, attempts : Nat]
    BY DEF NewPush, Status, Unsettled
  <2> QED BY <2>1 DEF RecordEvent
<1>5. PushShape'
  BY <1>1, <1>2, <1>4
<1>6. RoundInv'
  BY <1>1, <1>2 DEF RoundInv, Pumping
<1>7. DeletedOwesNothing'
  BY <1>1, <1>3 DEF DeletedOwesNothing, LiveConfigs
<1>8. OnlySnapshotsSkip'
  <2> SUFFICES ASSUME NEW k \in Pushes, config[k[1]].state = "live", config[k[1]].since < k[2],
                      k[2] <= cursor', k[2] \notin jumped
               PROVE  outbox'[k].status # "none"
    BY <1>1 DEF OnlySnapshotsSkip
  <2>0. k[1] \in Config /\ k[2] \in Nat
    BY DEF Pushes
  <2>1. CASE k[2] <= cursor
    <3>1. outbox[k].status # "none"
      BY <2>1 DEF OnlySnapshotsSkip
    <3>2. outbox'[k] = outbox[k] \/ outbox'[k] = NewPush
      BY <1>3
    <3>3. NewPush.status # "none"
      BY DEF NewPush
    <3> HIDE DEF PushInv, PushShape
    <3> QED BY <3>1, <3>2, <3>3
  <2>2. CASE ~(k[2] <= cursor)
    <3>1. k[2] = NextEvent /\ ~(NextEvent <= cursor) /\ k[1] \in LiveConfigs
      BY <2>0, <2>2, <1>1, <1>2 DEF LiveConfigs
    <3>2. outbox'[k].status = IF outbox[k].status = "none" THEN "pending" ELSE outbox[k].status
      BY <3>1 DEF RecordEvent, NewPush
    <3> QED BY <3>2
  <2> QED BY <2>1, <2>2
<1> QED BY <1>5, <1>6, <1>7, <1>8

\* An answer is written only to a row that is still leased.
LEMMA DeliveryKeeps ==
    ASSUME PushInv, (\E k \in Pushes : Claim(k)) \/ Deliver2xx \/ \E retryable \in BOOLEAN : Fail(retryable)
    PROVE  PushInv'
<1> USE DEF PushInv, PushShape
<1>1. ASSUME NEW k \in Pushes, Claim(k)
      PROVE  PushInv'
  <2>1. /\ UNCHANGED <<lastEvent, config, cursor, jumped>> /\ config[k[1]].state = "live"
        /\ outbox' = [outbox EXCEPT ![k] = [status |-> "leased", attempts |-> @.attempts + 1]]
        /\ pump' = [pc |-> "send", after |-> 0, upto |-> 0, job |-> k]
    BY <1>1 DEF Claim, Claimable, LiveConfigs, PumpAt
  <2>2. [status |-> "leased", attempts |-> outbox[k].attempts + 1] \in [status : Status, attempts : Nat]
    BY DEF Status, Unsettled
  <2>3. RoundInv'
    BY <2>1 DEF RoundInv, Pumping
  <2> QED BY <2>1, <2>2, <2>3, RowsChange
<1>2. ASSUME Pumping("send"), NEW status \in {"pending", "delivered", "dead"},
             Close(pump.job, status), PumpGoesTo("deliver"), UNCHANGED <<lastEvent, config, cursor, jumped>>
      PROVE  PushInv'
  <2>1. pump.job \in Pushes
    BY <1>2 DEF RoundInv
  <2>2. RoundInv'
    BY <1>2 DEF RoundInv, Pumping, PumpGoesTo, PumpAt
  <2>3. pump' \in [pc : {"list", "poll", "record", "deliver", "send"}, after : Nat, upto : Nat,
                  job : Pushes \cup {<<>>}]
    BY <1>2 DEF PumpGoesTo, PumpAt
  <2>4. CASE outbox[pump.job].status = "leased"
    <3>1. outbox' = Written(pump.job, status)
      BY <1>2, <2>4 DEF Close
    <3>2. config[pump.job[1]].state # "deleted"
      BY <2>1, <2>4 DEF DeletedOwesNothing, Unsettled
    <3>3. PICK row \in [status : Status, attempts : Nat] :
             row.status # "none" /\ outbox' = [outbox EXCEPT ![pump.job] = row]
      <4>1. CASE status = "pending"
        <5>1. [outbox[pump.job] EXCEPT !.status = status] \in [status : Status, attempts : Nat]
          BY <4>1, <2>1 DEF Status, Unsettled
        <5>2. [outbox[pump.job] EXCEPT !.status = status].status # "none"
          BY <4>1, <2>1
        <5> QED BY <5>1, <5>2, <4>1, <3>1 DEF Written
      <4>2. CASE status # "pending"
        <5>1. SettledAs(status) \in [status : Status, attempts : Nat] /\ SettledAs(status).status # "none"
          BY <4>2 DEF SettledAs, Status, Settled
        <5> QED BY <5>1, <4>2, <3>1 DEF Written
      <4> QED BY <4>1, <4>2
    <3> QED BY <1>2, <2>1, <2>2, <2>3, <3>2, <3>3, RowsChange
  <2>5. CASE outbox[pump.job].status # "leased"
    <3>1. outbox' = outbox
      BY <1>2, <2>5 DEF Close
    <3> QED BY <1>2, <2>2, <2>3, <3>1, RowsChange
  <2> QED BY <2>4, <2>5
<1>3. CASE Deliver2xx
  BY <1>2, <1>3 DEF Deliver2xx
<1>4. ASSUME NEW retryable \in BOOLEAN, Fail(retryable)
      PROVE  PushInv'
  BY <1>2, <1>4 DEF Fail
<1> QED BY <1>1, <1>3, <1>4

\* A configuration begins at the run's last event, so it has nothing to be told yet; the
\* events the others miss are those its snapshot has jumped over.
LEMMA ConfigInsertKeeps ==
    ASSUME PushInv, NEW c \in Config, InsertConfig(c)
    PROVE  PushInv'
<1> USE DEF PushInv, PushShape
<1> DEFINE start == config[c].start
<1>1. /\ config[c].state = "creating" /\ UNCHANGED <<lastEvent, pump>>
      /\ config' = [config EXCEPT ![c].state = "live", ![c].since = lastEvent]
      /\ cursor' = CursorWith(start) /\ jumped' = jumped \cup Passed(start)
      /\ outbox' = [outbox EXCEPT ![<<c, 0>>] = NewPush]
  BY DEF InsertConfig
<1>2. start \in Nat /\ start <= lastEvent
  OBVIOUS
<1>3. cursor' \in Nat /\ cursor <= cursor' /\ cursor' <= lastEvent
  BY <1>1, <1>2 DEF CursorWith
<1>4. /\ \A d \in Config : config'[d].state = (IF d = c THEN "live" ELSE config[d].state)
      /\ \A d \in Config \ {c} : config'[d] = config[d]
      /\ config'[c].since = lastEvent /\ config'[c].start = start
      /\ config' \in [Config -> [state : {"none", "creating", "live", "deleted"},
                                 start : Nat, since : Nat]]
  BY <1>1
<1>5. \A k \in Pushes : outbox'[k] = outbox[k] \/ (outbox'[k] = NewPush /\ k[1] = c)
  BY <1>1
<1>6. PushShape'
  <2>1. NewPush \in [status : Status, attempts : Nat]
    BY DEF NewPush, Status, Unsettled
  <2>2. outbox' \in [Pushes -> [status : Status, attempts : Nat]]
    BY <1>1, <2>1
  <2>3. \A d \in Config : config'[d].start <= lastEvent
    BY <1>2, <1>4
  <2> QED BY <1>1, <1>3, <1>4, <2>2, <2>3
<1>7. RoundInv'
  BY <1>1, <1>3 DEF RoundInv, Pumping
<1>8. DeletedOwesNothing'
  BY <1>4, <1>5 DEF DeletedOwesNothing, Pushes
<1>9. OnlySnapshotsSkip'
  <2> SUFFICES ASSUME NEW k \in Pushes, config'[k[1]].state = "live", config'[k[1]].since < k[2],
                      k[2] <= cursor', k[2] \notin jumped'
               PROVE  outbox'[k].status # "none"
    BY DEF OnlySnapshotsSkip
  <2>0. k[1] \in Config /\ k[2] \in Nat
    BY DEF Pushes
  <2>1. k[1] # c
    BY <2>0, <1>3, <1>4
  <2>2. k[2] <= cursor
    BY <2>0, <1>1, <1>2 DEF CursorWith, Passed
  <2>3. outbox[k].status # "none"
    BY <2>0, <2>1, <2>2, <1>1, <1>4 DEF OnlySnapshotsSkip
  <2>4. outbox'[k] = outbox[k]
    BY <2>1, <1>5
  <2> QED BY <2>3, <2>4
<1> QED BY <1>6, <1>7, <1>8, <1>9

LEMMA ConfigsKeep ==
    ASSUME PushInv,
           Restart \/ \E c \in Config : ReadSnapshot(c) \/ DeleteConfig(c)
    PROVE  PushInv'
<1> USE DEF PushInv, PushShape
<1>1. CASE Restart
  <2>1. /\ UNCHANGED <<lastEvent, cursor, jumped, outbox>>
        /\ \A c \in Config : config'[c] = config[c]
                            \/ (config[c].state = "creating" /\ config'[c].state = "none" /\ config'[c].start = 0)
        /\ pump' = PumpAt("list")
    BY <1>1 DEF Restart, PumpGoesTo
  <2>2. PushShape'
    BY <1>1, <2>1 DEF Restart, PumpAt
  <2>3. RoundInv'
    BY <2>1 DEF RoundInv, Pumping, PumpAt
  <2>4. DeletedOwesNothing'
    BY <2>1 DEF DeletedOwesNothing, Pushes
  <2>5. OnlySnapshotsSkip'
    <3>1. \A c \in Config : config'[c].state = "live" => config'[c] = config[c]
      BY <2>1
    <3> QED BY <2>1, <3>1 DEF OnlySnapshotsSkip, Pushes
  <2> QED BY <2>2, <2>3, <2>4, <2>5
<1>2. ASSUME NEW c \in Config, ReadSnapshot(c)
      PROVE  PushInv'
  <2>1. /\ UNCHANGED <<lastEvent, cursor, jumped, outbox, pump>>
        /\ config' = [config EXCEPT ![c] = [state |-> "creating", start |-> lastEvent, since |-> 0]]
    BY <1>2 DEF ReadSnapshot
  <2>2. PushShape'
    BY <2>1
  <2>3. RoundInv'
    BY <2>1 DEF RoundInv, Pumping
  <2>4. DeletedOwesNothing'
    BY <2>1 DEF DeletedOwesNothing, Pushes
  <2>5. OnlySnapshotsSkip'
    BY <2>1 DEF OnlySnapshotsSkip, Pushes
  <2> QED BY <2>2, <2>3, <2>4, <2>5
<1>3. ASSUME NEW c \in Config, DeleteConfig(c)
      PROVE  PushInv'
  <2>1. /\ UNCHANGED <<lastEvent, cursor, jumped, pump>>
        /\ config' = [config EXCEPT ![c] = [state |-> "deleted", start |-> 0, since |-> 0]]
    BY <1>3 DEF DeleteConfig
  <2>2. \A k \in Pushes : outbox'[k] = IF k[1] = c /\ outbox[k].status \in Unsettled
                                      THEN SettledAs("canceled") ELSE outbox[k]
    BY <1>3 DEF DeleteConfig
  <2>3. SettledAs("canceled") \in [status : Status, attempts : Nat] /\ SettledAs("canceled").status = "canceled"
    BY DEF SettledAs, Status, Settled
  <2>4. PushShape'
    <3>1. outbox' \in [Pushes -> [status : Status, attempts : Nat]]
      BY <1>3, <2>3 DEF DeleteConfig
    <3> QED BY <2>1, <3>1
  <2>5. RoundInv'
    BY <2>1 DEF RoundInv, Pumping
  <2>6. DeletedOwesNothing'
    <3> SUFFICES ASSUME NEW k \in Pushes, config'[k[1]].state = "deleted"
                 PROVE  outbox'[k].status \notin Unsettled
      BY DEF DeletedOwesNothing
    <3>1. CASE k[1] = c
      BY <3>1, <2>2, <2>3 DEF Unsettled
    <3>2. CASE k[1] # c
      BY <3>2, <2>1, <2>2 DEF DeletedOwesNothing, Pushes
    <3> QED BY <3>1, <3>2
  <2>7. OnlySnapshotsSkip'
    <3> SUFFICES ASSUME NEW k \in Pushes, config'[k[1]].state = "live", config'[k[1]].since < k[2],
                        k[2] <= cursor, k[2] \notin jumped
                 PROVE  outbox'[k].status # "none"
      BY <2>1 DEF OnlySnapshotsSkip
    <3>1. k[1] # c /\ config'[k[1]] = config[k[1]]
      BY <2>1 DEF Pushes
    <3>2. outbox'[k] = outbox[k]
      BY <3>1, <2>2
    <3>3. outbox[k].status # "none"
      BY <3>1 DEF OnlySnapshotsSkip
    <3> QED BY <3>2, <3>3
  <2> QED BY <2>4, <2>5, <2>6, <2>7
<1> QED BY <1>1, <1>2, <1>3

LEMMA PushStep == PushInv /\ [PushNext]_pushVars => PushInv'
<1> SUFFICES ASSUME PushInv, [PushNext]_pushVars PROVE PushInv'
  OBVIOUS
<1>1. CASE UNCHANGED pushVars
  BY <1>1 DEF pushVars, PushInv, PushShape, RoundInv, Pumping, DeletedOwesNothing, OnlySnapshotsSkip
<1>2. CASE PushNext
  BY <1>2, RoundsMove, RecordKeeps, DeliveryKeeps, ConfigInsertKeeps, ConfigsKeep DEF PushNext, Produce, DeliverOnce
<1> QED BY <1>1, <1>2

\* The inductive invariant of the outbox: its rows and cursor agree with the events of the run,
\* whatever a round of the coordinator has read before it is interrupted (a2a_gateway/push.py).
THEOREM PushInvariant == PushSpec => []PushInv
BY PushStart, PushStep, PTL DEF PushSpec

-----------------------------------------------------------------------------
(* What follows.                                                           *)

\* A deleted configuration owes nothing: no recorder, claim, answer or restart that
\* crosses its deletion brings one of its rows back.
THEOREM DeletedStaysSettled == PushSpec => []DeletedOwesNothing
BY PushInvariant, PTL DEF PushInv

\* No stop, failed poll or failed projection loses an event: one that a live configuration
\* has no row for was jumped over by another configuration's snapshot.
THEOREM NothingElseSkips == PushSpec => []OnlySnapshotsSkip
BY PushInvariant, PTL DEF PushInv

\* How often a row was sent: the send that is underway counts, and each fault of the gateway
\* may have lost the answer to one.
InFlight(k) == Pumping("send") /\ pump.job = k
Tried(k) ==
    /\ outbox[k].attempts <= (IF InFlight(k) THEN MaxAttempts ELSE MaxAttempts - 1) + faults
    /\ InFlight(k) /\ outbox[k].status # "leased" => outbox[k].attempts = 0

PushBounds ==
    /\ lastEvent <= MaxEvents /\ faults \in 0..MaxFaults /\ jumped \subseteq 1..cursor
    /\ \A c \in Config : config[c].since <= lastEvent
    /\ \A k \in Pushes : Tried(k)

\* A row that is not sent by this step, or begins anew.
LEMMA TriedKeeps ==
  ASSUME PushInv, PushBounds, faults' \in Nat, faults <= faults', NEW k \in Pushes,
         \/ outbox'[k] = outbox[k] /\ (InFlight(k)' <=> InFlight(k))
         \/ outbox'[k].attempts = 0
  PROVE  Tried(k)'
<1>1. outbox[k].attempts \in Nat /\ faults \in Nat /\ MaxAttempts \in Nat \ {0}
  BY PushAssumption DEF PushInv, PushShape, PushBounds
<1>2. Tried(k)
  BY DEF PushBounds
<1>3. CASE outbox'[k].attempts = 0
  <2>1. 0 <= MaxAttempts + faults' /\ 0 <= (MaxAttempts - 1) + faults'
    BY <1>1
  <2> QED BY <1>3, <2>1 DEF Tried
<1>4. CASE outbox'[k] = outbox[k] /\ (InFlight(k)' <=> InFlight(k))
  <2>1. outbox'[k].attempts = outbox[k].attempts /\ outbox'[k].status = outbox[k].status
    BY <1>4
  <2>2. CASE InFlight(k)
    <3>1. outbox[k].attempts <= MaxAttempts + faults
      BY <1>2, <2>2 DEF Tried
    <3>2. outbox[k].attempts <= MaxAttempts + faults'
      BY <1>1, <3>1
    <3> QED BY <1>2, <1>4, <2>1, <2>2, <3>2 DEF Tried
  <2>3. CASE ~InFlight(k)
    <3>1. outbox[k].attempts <= (MaxAttempts - 1) + faults
      BY <1>2, <2>3 DEF Tried
    <3>2. outbox[k].attempts <= (MaxAttempts - 1) + faults'
      BY <1>1, <3>1
    <3> QED BY <1>2, <1>4, <2>1, <2>3, <3>2 DEF Tried
  <2> QED BY <2>2, <2>3
<1> QED BY <1>3, <1>4

LEMMA PushBoundsStart == PushInit => PushBounds
<1> SUFFICES ASSUME PushInit PROVE PushBounds
  OBVIOUS
<1>1. \A k \in Pushes : outbox[k].attempts = 0
  BY DEF PushInit, NoPush
<1>2. ~Pumping("send")
  BY DEF PushInit, PumpAt, Pumping
<1> QED BY <1>1, <1>2, PushAssumption DEF PushInit, PushBounds, Tried, InFlight

\* The recorder and the requests.
LEMMA RecordBounds ==
  ASSUME PushInv, PushBounds, PushInv', Publish \/ Produce \/ Rest
  PROVE  PushBounds'
<1>1. (~Pumping("send")' /\ ~Pumping("send")) \/ pump' = pump
  <2>1. CASE Publish
    BY <2>1 DEF Publish
  <2>2. CASE ListTasks \/ PollFails \/ ProjectionFails \/ BatchDone \/ Rest
    BY <2>2 DEF ListTasks, PollFails, ProjectionFails, BatchDone, Rest, Pumping, PumpAt, PumpGoesTo, Batched
  <2>3. CASE PollRun \/ RecordEvent
    <3>1. pump.pc \in {"poll", "record"} /\ pump'.pc \in {"poll", "record"}
      BY <2>3 DEF PollRun, RecordEvent, Pumping, Batched, PushInv, PushShape
    <3> QED BY <3>1 DEF Pumping
  <2> QED BY <2>1, <2>2, <2>3 DEF Produce
<1>2. \A k \in Pushes : InFlight(k)' <=> InFlight(k)
  BY <1>1 DEF InFlight, Pumping
<1>3. /\ faults' \in 0..MaxFaults /\ faults <= faults'
      /\ config' = config /\ jumped' = jumped /\ lastEvent <= lastEvent' /\ lastEvent' <= MaxEvents
      /\ cursor <= cursor'
  <2>0. /\ lastEvent \in Nat /\ cursor \in Nat /\ pump.after \in Nat /\ faults \in 0..MaxFaults
        /\ lastEvent <= MaxEvents /\ MaxEvents \in Nat /\ MaxFaults \in Nat
    BY PushAssumption DEF PushInv, PushShape, PushBounds
  <2>1. CASE Publish
    BY <2>0, <2>1 DEF Publish
  <2>2. CASE ListTasks \/ PollRun \/ PollFails \/ ProjectionFails \/ BatchDone \/ Rest
    BY <2>0, <2>2 DEF ListTasks, PollRun, PollFails, ProjectionFails, BatchDone, Rest
  <2>3. CASE RecordEvent
    BY <2>0, <2>3 DEF RecordEvent, NextEvent
  <2> QED BY <2>1, <2>2, <2>3 DEF Produce
<1>4. ASSUME NEW k \in Pushes PROVE outbox'[k] = outbox[k] \/ outbox'[k].attempts = 0
  <2>1. NewPush.attempts = 0
    BY DEF NewPush
  <2> QED BY <1>4, <2>1 DEF Publish, Produce, Rest, ListTasks, PollRun, PollFails, RecordEvent,
     ProjectionFails, BatchDone
<1>5. \A k \in Pushes : Tried(k)'
  BY <1>2, <1>3, <1>4, TriedKeeps
<1>6. jumped' \subseteq 1..cursor'
  BY <1>3 DEF PushInv, PushShape, PushBounds
<1>7. \A c \in Config : config'[c].since <= lastEvent'
  BY <1>3 DEF PushInv, PushShape, PushBounds
<1> QED BY <1>3, <1>5, <1>6, <1>7 DEF PushBounds

LEMMA ConfigBounds ==
  ASSUME PushInv, PushBounds, PushInv', NEW c \in Config,
         ReadSnapshot(c) \/ InsertConfig(c) \/ DeleteConfig(c)
  PROVE  PushBounds'
<1>1. pump' = pump /\ faults' = faults /\ lastEvent' = lastEvent
  BY DEF ReadSnapshot, InsertConfig, DeleteConfig
<1>2. \A k \in Pushes : outbox'[k] = outbox[k] \/ outbox'[k].attempts = 0
  <2>1. NewPush.attempts = 0 /\ SettledAs("canceled").attempts = 0
    BY DEF NewPush, SettledAs
  <2> QED BY <2>1 DEF ReadSnapshot, InsertConfig, DeleteConfig, PushInv, PushShape
<1>3. \A k \in Pushes : Tried(k)'
  <2>1. faults' \in Nat /\ faults <= faults' /\ \A k \in Pushes : InFlight(k)' <=> InFlight(k)
    BY <1>1 DEF PushBounds, InFlight, Pumping
  <2> QED BY <1>2, <2>1, TriedKeeps
<1>4. \A d \in Config : config'[d].since <= lastEvent'
  <2>1. ASSUME NEW d \in Config PROVE config'[d] = config[d] \/ config'[d].since \in {0, lastEvent}
    <3>1. config \in [Config -> [state : {"none", "creating", "live", "deleted"},
                                 start : Nat, since : Nat]]
      BY DEF PushInv, PushShape
    <3>2. CASE d # c
      BY <3>1, <3>2 DEF ReadSnapshot, InsertConfig, DeleteConfig
    <3>3. CASE d = c
      BY <3>1, <3>3 DEF ReadSnapshot, InsertConfig, DeleteConfig
    <3> QED BY <3>2, <3>3
  <2>2. lastEvent \in Nat /\ \A d \in Config : config[d].since <= lastEvent
    BY DEF PushInv, PushShape, PushBounds
  <2>3. 0 <= lastEvent /\ lastEvent <= lastEvent
    BY <2>2
  <2> QED BY <1>1, <2>1, <2>2, <2>3
<1>5. jumped' \subseteq 1..cursor'
  <2>1. CASE ~InsertConfig(c)
    BY <2>1 DEF ReadSnapshot, DeleteConfig, PushBounds
  <2>2. CASE InsertConfig(c)
    <3>1. cursor' = CursorWith(config[c].start) /\ jumped' = jumped \cup Passed(config[c].start)
      BY <2>2 DEF InsertConfig
    <3>2. config[c].start \in Nat /\ cursor \in Nat
      BY DEF PushInv, PushShape
    <3>3. cursor' \in Nat /\ cursor <= cursor' /\ config[c].start <= cursor'
      BY <3>1, <3>2 DEF CursorWith
    <3>4. ASSUME NEW n \in Passed(config[c].start) PROVE n \in 1..cursor'
      <4>1. n \in 1..config[c].start
        BY <3>2 DEF Passed
      <4> QED BY <3>2, <3>3, <4>1
    <3>5. ASSUME NEW n \in jumped PROVE n \in 1..cursor'
      <4>1. n \in 1..cursor
        BY DEF PushBounds
      <4> QED BY <3>2, <3>3, <4>1
    <3> QED BY <3>1, <3>4, <3>5
  <2> QED BY <2>1, <2>2
<1> QED BY <1>1, <1>3, <1>4, <1>5 DEF PushBounds

\* A stop may lose the answer to the send that is underway.
LEMMA RestartBounds ==
  ASSUME PushInv, PushBounds, Restart
  PROVE  PushBounds'
<1>1. /\ faults < MaxFaults /\ faults' = faults + 1 /\ ~Pumping("send")'
      /\ UNCHANGED <<lastEvent, cursor, jumped, outbox>>
  BY DEF Restart, PumpGoesTo, PumpAt, Pumping
<1>2. ASSUME NEW k \in Pushes PROVE Tried(k)'
  <2>1. outbox[k].attempts \in Nat /\ faults \in Nat /\ MaxAttempts \in Nat \ {0}
    BY PushAssumption DEF PushInv, PushShape, PushBounds
  <2>2. outbox[k].attempts <= MaxAttempts + faults
    BY <2>1 DEF PushBounds, Tried
  <2>3. outbox[k].attempts <= (MaxAttempts - 1) + (faults + 1)
    BY <2>1, <2>2
  <2> QED BY <1>1, <2>3 DEF Tried, InFlight
<1>3. \A c \in Config : config'[c].since <= lastEvent
  <2>1. \A c \in Config : config'[c] = config[c] \/ config'[c].since = 0
    BY DEF Restart
  <2>2. 0 <= lastEvent /\ \A c \in Config : config[c].since <= lastEvent
    BY DEF PushInv, PushShape, PushBounds
  <2> QED BY <2>1, <2>2
<1> QED BY <1>1, <1>2, <1>3, PushAssumption DEF PushBounds

LEMMA ClaimBounds ==
  ASSUME PushInv, PushBounds, NEW k \in Pushes, Claim(k)
  PROVE  PushBounds'
<1>1. /\ outbox' = [outbox EXCEPT ![k] = [status |-> "leased", attempts |-> @.attempts + 1]]
      /\ pump' = [PumpAt("send") EXCEPT !.job = k] /\ ~Pumping("send")
      /\ UNCHANGED <<lastEvent, config, cursor, jumped, faults>>
  BY DEF Claim, Pumping
<1>2. /\ outbox'[k].status = "leased" /\ outbox'[k].attempts = outbox[k].attempts + 1
      /\ \A l \in Pushes \ {k} : outbox'[l] = outbox[l]
  BY <1>1 DEF PushInv, PushShape
<1>3. \A l \in Pushes : InFlight(l)' <=> l = k
  BY <1>1 DEF InFlight, Pumping, PumpAt
<1>4. Tried(k)'
  <2>1. outbox[k].attempts \in Nat /\ faults \in Nat /\ MaxAttempts \in Nat
    BY PushAssumption DEF PushInv, PushShape, PushBounds
  <2>2. outbox[k].attempts <= (MaxAttempts - 1) + faults
    BY <1>1 DEF PushBounds, Tried, InFlight
  <2>3. outbox[k].attempts + 1 <= MaxAttempts + faults
    BY <2>1, <2>2
  <2> QED BY <1>1, <1>2, <1>3, <2>3 DEF Tried
<1>5. \A l \in Pushes \ {k} : Tried(l)'
  <2>1. faults' \in Nat /\ faults <= faults'
    BY <1>1 DEF PushBounds
  <2> QED BY <1>1, <1>2, <1>3, <2>1, TriedKeeps DEF InFlight
<1> QED BY <1>1, <1>4, <1>5 DEF PushBounds

\* A row goes back to the outbox only when it has attempts left.
LEMMA AnswerBounds ==
  ASSUME PushInv, PushBounds, Deliver2xx \/ \E retryable \in BOOLEAN : Fail(retryable)
  PROVE  PushBounds'
<1>0. PICK k \in Pushes : k = pump.job
  BY DEF Deliver2xx, Fail, PushInv, RoundInv
<1>1. /\ InFlight(k) /\ k \in Pushes /\ pump' = PumpAt("deliver")
      /\ UNCHANGED <<lastEvent, config, cursor, jumped, faults>>
  BY <1>0 DEF Deliver2xx, Fail, InFlight, PumpGoesTo
<1>2. PICK status \in {"delivered", "dead", "pending"} :
         Close(k, status) /\ (status = "pending" => ~(outbox[k].attempts >= MaxAttempts))
  BY <1>0 DEF Deliver2xx, Fail
<1>3. \A l \in Pushes : ~InFlight(l)'
  BY <1>1 DEF InFlight, Pumping, PumpAt
<1>4. faults' \in Nat /\ faults <= faults' /\ outbox[k].attempts \in Nat /\ MaxAttempts \in Nat \ {0}
      /\ outbox \in [Pushes -> [status : Status, attempts : Nat]] /\ faults \in Nat
  BY <1>1, PushAssumption DEF PushInv, PushShape, PushBounds
<1>5. \A l \in Pushes \ {k} : outbox'[l] = outbox[l]
  BY <1>1, <1>2, <1>4 DEF Close, Written
<1>6. ASSUME NEW l \in Pushes \ {k} PROVE Tried(l)'
  <2>1. ~InFlight(l)
    BY <1>0, <1>1 DEF InFlight
  <2> QED BY <1>3, <1>4, <1>5, <2>1, TriedKeeps
<1>7. Tried(k)'
  <2>1. CASE outbox[k].status # "leased"
    <3>1. outbox' = outbox
      BY <1>2, <2>1 DEF Close
    <3>2. outbox[k].attempts = 0
      BY <1>1, <2>1 DEF PushBounds, Tried
    <3> QED BY <1>1, <1>4, <3>1, <3>2, TriedKeeps
  <2>2. CASE outbox[k].status = "leased" /\ status # "pending"
    <3>1. outbox' = [outbox EXCEPT ![k] = SettledAs(status)]
      BY <1>2, <2>2 DEF Close, Written
    <3>2. outbox'[k].attempts = 0
      BY <1>1, <1>4, <3>1 DEF SettledAs
    <3> QED BY <1>1, <1>4, <3>2, TriedKeeps
  <2>3. CASE outbox[k].status = "leased" /\ status = "pending"
    <3>1. outbox' = [outbox EXCEPT ![k] = [outbox[k] EXCEPT !.status = status]]
      BY <1>2, <2>3 DEF Close, Written
    <3>2. outbox'[k].attempts = outbox[k].attempts
      BY <1>1, <1>4, <3>1
    <3>3. outbox[k].attempts <= (MaxAttempts - 1) + faults
      BY <1>2, <1>4, <2>3
    <3> QED BY <1>1, <1>3, <3>2, <3>3 DEF Tried
  <2> QED BY <2>1, <2>2, <2>3
<1> QED BY <1>1, <1>6, <1>7 DEF PushBounds

\* A delivery is attempted at most MaxAttempts times, and once more for each stop that lost an
\* answer (push.py:378-389, push_store.py:229-270).
THEOREM PushTypesHold == PushSpec => []PushTypeOK
<1>1. PushInv /\ PushBounds /\ PushInv' /\ [PushNext]_pushVars => PushBounds'
  <2> SUFFICES ASSUME PushInv, PushBounds, PushInv', [PushNext]_pushVars PROVE PushBounds'
    OBVIOUS
  <2>1. CASE UNCHANGED pushVars
    BY <2>1 DEF pushVars, PushBounds, Tried, InFlight, Pumping
  <2>2. CASE PushNext
    BY <2>2, RecordBounds, ConfigBounds, RestartBounds, ClaimBounds, AnswerBounds
       DEF PushNext, DeliverOnce
  <2> QED BY <2>1, <2>2
<1>2. PushInv /\ PushBounds => PushTypeOK
  <2> SUFFICES ASSUME PushInv, PushBounds PROVE PushTypeOK
    OBVIOUS
  <2>1. ASSUME NEW k \in Pushes PROVE outbox[k].attempts \in 0..(MaxAttempts + MaxFaults)
    <3>1. /\ outbox[k].attempts \in Nat /\ faults \in Nat /\ MaxAttempts \in Nat \ {0}
          /\ MaxFaults \in Nat /\ faults <= MaxFaults
      BY PushAssumption DEF PushInv, PushShape, PushBounds
    <3>2. outbox[k].attempts <= MaxAttempts + faults
      BY <3>1 DEF PushBounds, Tried
    <3> QED BY <3>1, <3>2
  <2>2. outbox \in [Pushes -> [status : Status, attempts : 0..(MaxAttempts + MaxFaults)]]
    BY <2>1 DEF PushInv, PushShape
  <2>3. config \in [Config -> [state : {"none", "creating", "live", "deleted"},
                               start : 0..lastEvent, since : 0..lastEvent]]
    BY DEF PushInv, PushShape, PushBounds
  <2>4. lastEvent \in 0..MaxEvents /\ cursor \in 0..lastEvent
    BY PushAssumption DEF PushInv, PushShape, PushBounds
  <2> QED BY <2>2, <2>3, <2>4 DEF PushInv, PushShape, PushBounds, RoundInv, PushTypeOK, Status
<1> QED BY <1>1, <1>2, PushInvariant, PushBoundsStart, PTL DEF PushSpec

=============================================================================
