------------------------------ MODULE AgentProofs -----------------------------
(***************************************************************************)
(* Theorems about the agent of a run, for every number of subagents,       *)
(* budget and number of retries of its model and tool loop, and of runs,   *)
(* messages, hops and lost attempts of its mailbox: the first answer a      *)
(* model is forced to give has the calls that are kept for it, no attempt that *)
(* somebody may have seen is made again, the model sees what was delivered *)
(* to it, and the messages of a conversation are numbered without gaps.    *)
(***************************************************************************)
EXTENDS AgentLoop, Mailbox, FiniteSetTheorems, TLAPS

-----------------------------------------------------------------------------
(* The model and tool loop.                                                *)

TurnRecord == [pc : {"off", "idle", "reserve", "call", "judge", "delegated", "ended", "refused"},
               mode : {"normal", "delegate_closed", "converge"},
               try : 0..Retries, row : {"none", "reserved", "streaming"},
               seen : BOOLEAN, base : Nat, turns : 0..SubTurns]

\* Where the budget begins to be kept for the final answer.
Threshold == limit - Reserve

-----------------------------------------------------------------------------
(* The reserve.                                                            *)

LEMMA MinOfTwo ==
    ASSUME NEW a \in Int, NEW b \in Int
    PROVE  Min({a, b}) = IF a <= b THEN a ELSE b
<1> DEFINE m == IF a <= b THEN a ELSE b
<1>1. m \in {a, b} /\ \A y \in {a, b} : m <= y
  OBVIOUS
<1>2. \A x \in {a, b} : (\A y \in {a, b} : x <= y) => x = m
  OBVIOUS
<1> QED BY <1>1, <1>2 DEF Min

LEMMA MaxOfTwo ==
    ASSUME NEW a \in Int, NEW b \in Int
    PROVE  Max({a, b}) = IF a >= b THEN a ELSE b
<1> DEFINE m == IF a >= b THEN a ELSE b
<1>1. m \in {a, b} /\ \A y \in {a, b} : m >= y
  OBVIOUS
<1>2. \A x \in {a, b} : (\A y \in {a, b} : x >= y) => x = m
  OBVIOUS
<1> QED BY <1>1, <1>2 DEF Max

LEMMA ReserveGrows ==
    ASSUME NEW f \in Nat, NEW k \in Nat, f >= k
    PROVE  f * (Retries + 1) \in Nat /\ f * (Retries + 1) >= k * (Retries + 1)
<1>1. PICK d \in Nat : f = k + d
  <2>1. f - k \in Nat /\ f = k + (f - k)
    OBVIOUS
  <2> QED BY <2>1
<1>2. Retries + 1 \in Nat
  BY LoopAssumption
<1>3. \A n \in Nat : (k + d) * n = k * n + d * n /\ k * n \in Nat /\ d * n \in Nat
  OBVIOUS
<1> QED BY <1>1, <1>2, <1>3

\* The reserve is never all of a budget, unless that is a single call.
LEMMA ReserveBounds ==
    ASSUME limit \in Limits
    PROVE  /\ limit \in Nat \ {0} /\ Reserve \in 1..limit
           /\ Threshold \in 0..(limit - 1)
           /\ \A a \in Agent : CallLimit(a) \in 1..limit /\ ForceThreshold(a) \in 0..Threshold
<1> USE LoopAssumption
<1>0. limit \in Nat \ {0}
  OBVIOUS
<1>1. FinalTurns * (Retries + 1) \in Nat /\ FinalTurns * (Retries + 1) >= 1
  <2>1. FinalTurns \in Nat /\ FinalTurns >= 1 /\ 1 * (Retries + 1) >= 1
    OBVIOUS
  <2> QED BY <2>1, ReserveGrows
<1>2. Reserve = IF FinalTurns * (Retries + 1) <= (IF limit = 1 THEN 1 ELSE limit - 1)
                THEN FinalTurns * (Retries + 1) ELSE (IF limit = 1 THEN 1 ELSE limit - 1)
  BY <1>0, <1>1, MinOfTwo DEF Reserve
<1>3. Reserve \in 1..limit /\ Threshold \in 0..(limit - 1)
  BY <1>0, <1>1, <1>2 DEF Threshold
<1>4. ASSUME NEW a \in Agent
      PROVE  CallLimit(a) \in 1..limit /\ ForceThreshold(a) \in 0..Threshold
  <2>1. Max({1, limit - Reserve}) \in 1..limit
    BY <1>0, <1>3, MaxOfTwo DEF Threshold
  <2> QED BY <1>0, <2>1, <1>3 DEF CallLimit, ForceThreshold, Threshold
<1> QED BY <1>0, <1>3, <1>4

\* Where the calls kept for the answer begin does not move: the limit is frozen with the run.
LEMMA LimitIsFrozen ==
    ASSUME limit' = limit
    PROVE  Reserve' = Reserve /\ Threshold' = Threshold
BY DEF Reserve, Threshold

-----------------------------------------------------------------------------
(* Types, and retries that nobody can notice.                               *)

\* Output is shown only while the call streams it.
Silent == \A a \in Agent : turn[a].seen => turn[a].pc = "call" /\ turn[a].row = "streaming"

LoopBase == LoopTypeOK /\ Silent

LEMMA LoopTypes ==
    LoopTypeOK <=> /\ limit \in Limits /\ used \in 0..limit /\ finals \in 0..(FinalTurns + 1)
                   /\ turn \in [Agent -> TurnRecord]
                   /\ route \in Reason \cup {"none"} /\ repaired \subseteq Counted
BY DEF LoopTypeOK, TurnRecord

LEMMA NoTurnTypes == NoTurn \in TurnRecord
BY LoopAssumption DEF NoTurn, TurnRecord

LEMMA LoopStart == LoopInit => LoopBase
<1> SUFFICES ASSUME LoopInit PROVE LoopBase
  OBVIOUS
<1> USE LoopAssumption DEF LoopInit
<1>1. turn \in [Agent -> TurnRecord]
  BY NoTurnTypes DEF NoTurn, TurnRecord
<1>2. Silent
  BY DEF Silent, NoTurn
<1> QED BY <1>1, <1>2, LoopTypes DEF LoopBase

\* One agent's turn changes, and is a turn again that shows nothing it will repeat.
LEMMA OneTurnChanges ==
    ASSUME LoopBase, NEW a \in Agent, NEW t \in TurnRecord,
           turn' = [turn EXCEPT ![a] = t],
           t.seen => t.pc = "call" /\ t.row = "streaming"
    PROVE  turn' \in [Agent -> TurnRecord] /\ Silent'
BY LoopTypes DEF LoopBase, Silent

LEMMA LoopStep ==
    ASSUME LoopBase, [LoopNext]_loopVars
    PROVE  LoopBase'
<1> USE LoopAssumption
<1> USE DEF routerVars
<1>0. /\ limit \in Limits /\ used \in 0..limit /\ finals \in 0..(FinalTurns + 1)
      /\ turn \in [Agent -> TurnRecord]
      /\ route \in Reason \cup {"none"} /\ repaired \subseteq Counted
  BY LoopTypes DEF LoopBase
<1>f. limit' = limit
  BY DEF LoopNext, loopVars
<1>a. Root \in Agent /\ Sub \subseteq Agent
  BY DEF Agent
<1>b. ASSUME NEW a \in Agent, NEW t \in TurnRecord, turn' = [turn EXCEPT ![a] = t],
             t.seen => t.pc = "call" /\ t.row = "streaming",
             used' \in 0..limit, finals' \in 0..(FinalTurns + 1),
             route' \in Reason \cup {"none"}, repaired' \subseteq Counted
      PROVE  LoopBase'
  <2>1. turn' \in [Agent -> TurnRecord] /\ Silent'
    BY <1>b, OneTurnChanges
  <2> QED BY <2>1, <1>b, <1>0, <1>f DEF LoopBase, LoopTypeOK, TurnRecord
<1>c. ASSUME NEW a \in Agent, End(a), UNCHANGED <<used, routerVars, finals>>
      PROVE  LoopBase'
  <2>1. [NoTurn EXCEPT !.pc = "ended"] \in TurnRecord
    BY NoTurnTypes DEF TurnRecord
  <2>2. ~[NoTurn EXCEPT !.pc = "ended"].seen
    BY DEF NoTurn
  <2> QED BY <1>b, <1>c, <1>0, <2>1, <2>2 DEF End
<1>1. ASSUME NEW a \in Agent, NEW repeated \in BOOLEAN, BeginTurn(a, repeated)
      PROVE  LoopBase'
  <2> DEFINE m == Decide(a, repeated)
  <2> DEFINE n == IF a = Root THEN 0 ELSE turn[a].turns + 1
  <2> DEFINE t == [turn[a] EXCEPT !.pc = "reserve", !.mode = m, !.base = used,
                                  !.try = 0, !.seen = FALSE, !.turns = n]
  <2>1. Decide(a, repeated) \in {"normal", "delegate_closed", "converge"}
    BY DEF Decide
  <2>2. t \in TurnRecord
    <3>1. a # Root => turn[a].turns + 1 \in 0..SubTurns
      BY <1>0, <1>1 DEF BeginTurn, TurnRecord, Agent
    <3>2. n \in 0..SubTurns
      BY <3>1
    <3>3. turn[a] \in TurnRecord /\ m \in {"normal", "delegate_closed", "converge"}
      BY <1>0, <2>1
    <3> HIDE DEF n, m
    <3> DEFINE x == [turn[a] EXCEPT !.pc = "reserve", !.mode = m, !.base = used]
    <3>4. x \in TurnRecord
      <4>1. limit \in Nat /\ used \in Nat
        BY <1>0, LoopAssumption
      <4>2. \A y \in TurnRecord, k \in Nat : [y EXCEPT !.base = k] \in TurnRecord
        BY DEF TurnRecord
      <4>3. [turn[a] EXCEPT !.pc = "reserve", !.mode = m] \in TurnRecord
        BY <3>3 DEF TurnRecord
      <4> QED BY <4>1, <4>2, <4>3
    <3>5. t = [x EXCEPT !.try = 0, !.seen = FALSE, !.turns = n]
      OBVIOUS
    <3> HIDE DEF x, t
    <3>a. \A y \in TurnRecord : [y EXCEPT !.seen = FALSE] \in TurnRecord
      BY DEF TurnRecord
    <3>b. \A y \in TurnRecord, k \in 0..Retries : [y EXCEPT !.try = k] \in TurnRecord
      BY DEF TurnRecord
    <3>c. 0 \in 0..Retries
      OBVIOUS
    <3>6. \A y \in TurnRecord : [y EXCEPT !.try = 0, !.seen = FALSE] \in TurnRecord
      BY <3>a, <3>b, <3>c
    <3>7. \A y \in TurnRecord, k \in 0..SubTurns : [y EXCEPT !.turns = k] \in TurnRecord
      BY DEF TurnRecord
    <3>8. t = [[x EXCEPT !.try = 0, !.seen = FALSE] EXCEPT !.turns = n]
      BY <3>5
    <3> QED BY <3>2, <3>4, <3>6, <3>7, <3>8
  <2>3. turn' = [turn EXCEPT ![a] = t]
    BY <1>1, <1>0 DEF BeginTurn
  <2>4. finals' \in 0..(FinalTurns + 1)
    <3>1. Min({finals + 1, FinalTurns + 1}) \in 0..(FinalTurns + 1)
      BY <1>0, MinOfTwo
    <3> QED BY <1>1, <1>0, <3>1 DEF BeginTurn
  <2>5. ~t.seen
    BY <1>0 DEF TurnRecord
  <2>6. used' = used /\ route' = route /\ repaired' = repaired
    BY <1>1 DEF BeginTurn
  <2> HIDE DEF t
  <2> QED BY <1>0, <1>b, <2>2, <2>3, <2>4, <2>5, <2>6
<1>2. ASSUME NEW a \in Agent, StopBefore(a)
      PROVE  LoopBase'
  BY <1>2, <1>c DEF StopBefore
<1>3. ASSUME NEW a \in Agent, CallStep(a)
      PROVE  LoopBase'
  <2>0. turn[a] \in TurnRecord /\ (turn[a].seen => turn[a].pc = "call" /\ turn[a].row = "streaming")
    BY <1>0 DEF LoopBase, Silent
  <2>1. CASE ReserveCall(a)
    <3> DEFINE t == [turn[a] EXCEPT !.pc = "call", !.row = "reserved"]
    <3>1. t \in TurnRecord /\ ~t.seen
      BY <2>0, <2>1 DEF TurnRecord, ReserveCall, TurnAt
    <3>2. turn' = [turn EXCEPT ![a] = t]
      BY <2>1 DEF ReserveCall
    <3>3. used' \in 0..limit
      BY <2>1, <1>0, ReserveBounds DEF ReserveCall
    <3>4. finals' = finals /\ route' = route /\ repaired' = repaired
      BY <2>1 DEF ReserveCall
    <3> HIDE DEF t
    <3> QED BY <1>0, <1>b, <3>1, <3>2, <3>3, <3>4
  <2>2. CASE RefuseCall(a)
    <3> DEFINE t == [turn[a] EXCEPT !.pc = "refused"]
    <3>1. CASE a = Root
      <4>1. t \in TurnRecord /\ ~t.seen
        BY <2>0, <2>2 DEF TurnRecord, RefuseCall, TurnAt
      <4>2. turn' = [turn EXCEPT ![a] = t]
        BY <2>2, <3>1 DEF RefuseCall
      <4>3. used' = used /\ finals' = finals /\ route' = route /\ repaired' = repaired
        BY <2>2 DEF RefuseCall
      <4> HIDE DEF t
      <4> QED BY <1>0, <1>b, <4>1, <4>2, <4>3
    <3>2. CASE a # Root
      BY <2>2, <3>2, <1>c DEF RefuseCall
    <3> QED BY <3>1, <3>2
  <2>3. CASE MarkOutput(a)
    <3> DEFINE t == [turn[a] EXCEPT !.row = "streaming"]
    <3>1. t \in TurnRecord /\ (t.seen => t.pc = "call" /\ t.row = "streaming")
      BY <2>0, <2>3 DEF TurnRecord, MarkOutput, TurnAt
    <3>2. turn' = [turn EXCEPT ![a] = t]
      BY <2>3 DEF MarkOutput
    <3>3. used' = used /\ finals' = finals /\ route' = route /\ repaired' = repaired
      BY <2>3 DEF MarkOutput
    <3> HIDE DEF t
    <3> QED BY <1>0, <1>b, <3>1, <3>2, <3>3
  <2>4. CASE ShowOutput(a)
    <3> DEFINE t == [turn[a] EXCEPT !.seen = TRUE]
    <3>1. t \in TurnRecord /\ (t.seen => t.pc = "call" /\ t.row = "streaming")
      BY <2>0, <2>4 DEF TurnRecord, ShowOutput, TurnAt
    <3>2. turn' = [turn EXCEPT ![a] = t]
      BY <2>4 DEF ShowOutput
    <3>3. used' = used /\ finals' = finals /\ route' = route /\ repaired' = repaired
      BY <2>4 DEF ShowOutput
    <3> HIDE DEF t
    <3> QED BY <1>0, <1>b, <3>1, <3>2, <3>3
  <2>5. CASE SettleCall(a)
    <3> DEFINE t == [turn[a] EXCEPT !.pc = "judge", !.row = "none", !.seen = FALSE]
    <3>1. t \in TurnRecord /\ ~t.seen
      BY <2>0 DEF TurnRecord
    <3>2. turn' = [turn EXCEPT ![a] = t]
      BY <2>5 DEF SettleCall
    <3>3. used' = used /\ finals' = finals /\ route' = route /\ repaired' = repaired
      BY <2>5 DEF SettleCall
    <3> HIDE DEF t
    <3> QED BY <1>0, <1>b, <3>1, <3>2, <3>3
  <2>6. ASSUME NEW fault \in Fault, FailCall(a, fault)
        PROVE  LoopBase'
    <3> DEFINE t == [turn[a] EXCEPT !.pc = "reserve", !.row = "none", !.try = @ + 1,
                                    !.seen = @ \/ fault = "lost"]
    <3>0. used' = used /\ finals' = finals /\ route' = route /\ repaired' = repaired
      BY <2>6 DEF FailCall
    <3>1. CASE RetriesCall(a, fault)
      <4>0. ~turn[a].seen /\ fault # "lost"
        BY <2>0, <3>1 DEF RetriesCall
      <4>1. turn[a].try + 1 \in 0..Retries
        BY <2>0, <3>1 DEF RetriesCall, TurnRecord
      <4>2. t \in TurnRecord /\ ~t.seen
        BY <2>0, <4>0, <4>1 DEF TurnRecord
      <4>3. turn' = [turn EXCEPT ![a] = t]
        BY <2>6, <3>1 DEF FailCall
      <4> HIDE DEF t
      <4> QED BY <1>0, <1>b, <4>2, <4>3, <3>0
    <3>2. CASE ~RetriesCall(a, fault)
      BY <2>6, <3>2, <1>c DEF FailCall
    <3> QED BY <3>1, <3>2
  <2> QED BY <1>3, <2>1, <2>2, <2>3, <2>4, <2>5, <2>6 DEF CallStep
<1>4. ASSUME NEW a \in Agent, NEW pc \in {"idle", "delegated"},
             turn[a].pc = "judge", turn' = [turn EXCEPT ![a].pc = pc],
             used' = used, finals' = finals,
             route' \in Reason \cup {"none"}, repaired' \subseteq Counted
      PROVE  LoopBase'
  <2> DEFINE t == [turn[a] EXCEPT !.pc = pc]
  <2>1. t \in TurnRecord /\ ~t.seen
    BY <1>0, <1>4 DEF TurnRecord, LoopBase, Silent
  <2>2. turn' = [turn EXCEPT ![a] = t]
    BY <1>4
  <2> HIDE DEF t
  <2> QED BY <1>0, <1>b, <1>4, <2>1, <2>2
<1>5. ASSUME NEW a \in Agent, SubTurn(a)
      PROVE  LoopBase'
  <2>1. CASE turn' = [turn EXCEPT ![a].pc = "idle"]
    BY <1>0, <1>5, <2>1, <1>4 DEF SubTurn, TurnAt
  <2> QED BY <1>5, <2>1, <1>c DEF SubTurn
<1>6. CASE ToolTurn
  BY <1>0, <1>6, <1>a, <1>4 DEF ToolTurn, TurnAt
<1>7. ASSUME NEW r \in Reason, TurnAt(Root, {"judge"}), Repair(r)
      PROVE  LoopBase'
  <2>1. route' \in Reason \cup {"none"} /\ repaired' \subseteq Counted
    BY <1>0, <1>7 DEF Repair
  <2> QED BY <1>7, <2>1, <1>a, <1>4 DEF Repair, TurnAt
<1>8. CASE RepairTools
  <2>1. PICK r \in Reason : Repair(r)
    BY <1>8 DEF RepairTools, Reason, Counted
  <2> QED BY <2>1, <1>7, <1>8 DEF RepairTools
<1>9. CASE RepairCandidate
  <2>1. PICK r \in Reason : Repair(r)
    BY <1>9 DEF RepairCandidate, Reason, Counted
  <2> QED BY <2>1, <1>7, <1>9 DEF RepairCandidate
<1>10. CASE Accept
  BY <1>10, <1>a, <1>c DEF Accept
<1>11. ASSUME turn' \in [Agent -> TurnRecord], \A a \in Agent : ~turn'[a].seen,
              UNCHANGED <<used, routerVars, finals>>
       PROVE  LoopBase'
  BY <1>0, <1>f, <1>11 DEF LoopBase, LoopTypeOK, TurnRecord, Silent
<1>12. CASE CancelLoop
  <2>1. [NoTurn EXCEPT !.pc = "ended"] \in TurnRecord /\ ~[NoTurn EXCEPT !.pc = "ended"].seen
    BY NoTurnTypes DEF TurnRecord, NoTurn
  <2> QED BY <1>11, <1>12, <2>1 DEF CancelLoop
<1>13. ASSUME NEW pc \in {"idle", "delegated"}, TurnAt(Root, {"judge", "delegated"})
       PROVE  [turn[Root] EXCEPT !.pc = pc] \in TurnRecord /\ ~[turn[Root] EXCEPT !.pc = pc].seen
  BY <1>0, <1>13, <1>a DEF TurnRecord, LoopBase, Silent, TurnAt
<1>14. ASSUME NEW subs \in SUBSET Sub, Delegate(subs)
       PROVE  LoopBase'
  <2>1. [NoTurn EXCEPT !.pc = "idle"] \in TurnRecord /\ ~[NoTurn EXCEPT !.pc = "idle"].seen /\ ~NoTurn.seen
    BY NoTurnTypes DEF TurnRecord, NoTurn
  <2> QED BY <1>11, <1>13, <1>14, <2>1, NoTurnTypes DEF Delegate, TurnAt
<1>15. CASE Joined
  <2>1. ~NoTurn.seen
    BY DEF NoTurn
  <2> QED BY <1>11, <1>13, <1>15, <2>1, NoTurnTypes DEF Joined, TurnAt
<1>16. CASE UNCHANGED loopVars
  BY <1>16 DEF LoopBase, LoopTypeOK, Silent, loopVars
<1> QED BY <1>1, <1>2, <1>3, <1>5, <1>6, <1>8, <1>9, <1>10, <1>12, <1>14, <1>15, <1>16
        DEF LoopNext

\* The loop's state has its types, and an attempt whose output was shown or that may have been
\* served is the last of its turn (llm/ledger.py), in every reachable state.
THEOREM LoopTypesHold == LoopSpec => []LoopBase
<1>1. LoopInit => LoopBase
  BY LoopStart
<1>2. LoopBase /\ [LoopNext]_loopVars => LoopBase'
  BY LoopStep
<1> QED BY <1>1, <1>2, PTL DEF LoopSpec

\* No attempt is made again after its output was shown or when it may have been served.
THEOREM RetriesStaySilent == LoopSpec => []RetriesAreSilent
<1>1. LoopBase => RetriesAreSilent
  BY DEF LoopBase, Silent, RetriesAreSilent, TurnAt
<1> QED BY <1>1, LoopTypesHold, PTL

-----------------------------------------------------------------------------
(* The final answer.                                                       *)

\* What the root's turn t, with u calls drawn and f final turns begun, leaves of the budget:
\* an ordinary turn began below the threshold, and it and its retries overrun it by no more
\* than Retries calls, which is where the first converging turn begins at the latest.
RoomFor(t, u, f) ==
    /\ t.pc \in {"reserve", "call", "judge", "delegated"} =>
          IF t.mode = "converge" THEN f > 0 /\ (f = 1 => t.base <= Threshold + Retries)
                                 ELSE t.base < Threshold
    /\ t.pc = "reserve" => u <= t.base + t.try
    /\ t.pc \in {"call", "judge"} => u <= t.base + t.try + 1
    /\ t.pc = "delegated" => t.mode # "converge" /\ u <= Threshold + Retries
    /\ t.pc = "idle" /\ f = 0 => u <= Threshold + Retries
    /\ t.pc = "refused" => f > 1 \/ t.try + Retries >= Reserve

\* Subagents run only while the root waits for them.
Room ==
    /\ RoomFor(turn[Root], used, finals)
    /\ turn[Root].pc # "delegated" => \A a \in Sub : turn[a].pc \in {"off", "ended"}

LEMMA RootMoves ==
    ASSUME LoopBase, Room, limit' = limit, turn[Root].pc # "delegated", NEW t, t.pc # "delegated",
           turn' = [turn EXCEPT ![Root] = t], RoomFor(t, used', finals')
    PROVE  Room'
<1>1. turn'[Root] = t /\ \A a \in Sub : turn'[a] = turn[a]
  BY LoopTypes, LoopAssumption DEF LoopBase, Agent
<1> QED BY <1>1, LimitIsFrozen DEF Room, RoomFor

LEMMA SubMoves ==
    ASSUME LoopBase, Room, limit' = limit, NEW a \in Sub, turn[a].pc \notin {"off", "ended"},
           turn'[Root] = turn[Root], finals' = finals, used' = used \/ used' <= Threshold,
           used' \in Nat
    PROVE  Room'
<1>1. turn[Root].pc = "delegated"
  BY DEF Room
<1>2. Threshold \in Nat /\ Retries \in Nat
  BY ReserveBounds, LoopTypes, LoopAssumption DEF LoopBase
<1>3. used' <= Threshold + Retries
  BY <1>1, <1>2 DEF Room, RoomFor
<1> QED BY <1>1, <1>3, LimitIsFrozen DEF Room, RoomFor

LEMMA RoomStart == LoopInit => Room
<1> SUFFICES ASSUME LoopInit PROVE Room
  OBVIOUS
<1>1. turn[Root].pc = "idle" /\ \A a \in Sub : turn[a].pc = "off"
  BY LoopAssumption DEF LoopInit, NoTurn, Agent
<1>2. used = 0 /\ 0 <= Threshold + Retries
  BY ReserveBounds, LoopAssumption DEF LoopInit
<1> QED BY <1>1, <1>2 DEF Room, RoomFor

\* A subagent's steps leave the reserve alone.
LEMMA RoomSub ==
    ASSUME LoopBase, Room, limit' = limit, NEW a \in Sub,
           \/ StopBefore(a) \/ CallStep(a) \/ SubTurn(a)
           \/ \E repeated \in BOOLEAN : BeginTurn(a, repeated)
    PROVE  Room'
<1> USE LoopAssumption
<1>1. a # Root /\ Root \in Agent /\ a \in Agent
  BY DEF Agent
<1>2. turn \in [Agent -> TurnRecord] /\ used \in Nat
  BY LoopTypes DEF LoopBase
<1>3. turn[a].pc \notin {"off", "ended"}
  BY DEF StopBefore, CallStep, SubTurn, BeginTurn, ReserveCall, RefuseCall, MarkOutput,
         ShowOutput, SettleCall, FailCall, TurnAt
<1>4. turn'[Root] = turn[Root] /\ finals' = finals
  BY <1>1, <1>2 DEF StopBefore, CallStep, SubTurn, BeginTurn, ReserveCall, RefuseCall, MarkOutput,
         ShowOutput, SettleCall, FailCall, TurnAt, End
<1>5. used' = used \/ (used' = used + 1 /\ used + 1 <= CallLimit(a))
  BY DEF StopBefore, CallStep, SubTurn, BeginTurn, ReserveCall, RefuseCall, MarkOutput,
         ShowOutput, SettleCall, FailCall
<1>6. CallLimit(a) = Threshold
  <2>1. /\ turn[Root] \in TurnRecord /\ turn[Root].pc = "delegated"
        /\ limit \in Nat /\ Reserve \in Nat /\ Threshold \in Nat
    BY <1>1, <1>2, <1>3, ReserveBounds, LoopTypes DEF LoopBase, Room
  <2>2. turn[Root].base \in Nat /\ turn[Root].base < Threshold
    BY <2>1 DEF Room, RoomFor, TurnRecord
  <2>3. Threshold >= 1
    BY <2>1, <2>2
  <2> QED BY <1>1, <2>1, <2>3, MaxOfTwo DEF CallLimit, Threshold
<1>7. used' \in Nat /\ (used' = used \/ used' <= Threshold)
  BY <1>2, <1>5, <1>6
<1> QED BY <1>3, <1>4, <1>7, SubMoves

\* The root's own calls.
LEMMA RoomCall ==
    ASSUME LoopBase, Room, limit' = limit, CallStep(Root)
    PROVE  Room'
<1> USE LoopAssumption
<1> DEFINE t == turn'[Root]
<1>1. /\ turn[Root] \in TurnRecord /\ used \in Nat /\ finals \in Nat
      /\ Threshold \in Nat /\ Reserve \in Nat /\ limit = Threshold + Reserve
  BY LoopTypes, ReserveBounds DEF LoopBase, Agent, Threshold
<1>2. turn[Root].pc \in {"reserve", "call"}
  BY DEF CallStep, ReserveCall, RefuseCall, MarkOutput, ShowOutput, SettleCall, FailCall, TurnAt
<1>3. turn \in [Agent -> TurnRecord] /\ Root \in Agent
  BY LoopTypes DEF LoopBase, Agent
<1>4. turn' = [turn EXCEPT ![Root] = t] /\ finals' = finals
  BY <1>3 DEF CallStep, ReserveCall, RefuseCall, MarkOutput, ShowOutput, SettleCall, FailCall, End
<1>5. t.pc # "delegated" /\ RoomFor(t, used', finals')
  <2>0. RoomFor(turn[Root], used, finals)
    BY DEF Room
  <2>1. CASE ReserveCall(Root)
    <3>1. t.pc = "call" /\ t.mode = turn[Root].mode /\ t.base = turn[Root].base /\ t.try = turn[Root].try
      BY <1>3, <1>1, <2>1 DEF ReserveCall, TurnRecord
    <3>2. turn[Root].pc = "reserve" /\ used' = used + 1
      BY <2>1 DEF ReserveCall, TurnAt
    <3>3. turn[Root].base \in Nat /\ turn[Root].try \in Nat
      BY <1>1 DEF TurnRecord
    <3> HIDE DEF t
    <3> QED BY <1>1, <1>4, <2>0, <3>1, <3>2, <3>3 DEF RoomFor
  <2>2. CASE RefuseCall(Root)
    <3>1. t.pc = "refused" /\ turn[Root].pc = "reserve" /\ used + 1 > limit
      <4>1. turn' = [turn EXCEPT ![Root].pc = "refused"]
        BY <2>2 DEF RefuseCall
      <4>2. used + 1 > limit /\ turn[Root].pc = "reserve"
        BY <2>2 DEF RefuseCall, CallLimit, TurnAt
      <4> QED BY <1>1, <1>3, <4>1, <4>2 DEF TurnRecord
    <3>2. turn[Root].base \in Nat /\ turn[Root].try \in 0..Retries
      BY <1>1 DEF TurnRecord
    <3>3. used <= turn[Root].base + turn[Root].try
      BY <2>0, <3>1 DEF RoomFor
    <3>4. turn[Root].base <= Threshold + Retries => turn[Root].try + Retries >= Reserve
      BY <1>1, <3>1, <3>2, <3>3
    <3>5. turn[Root].base < Threshold => turn[Root].base <= Threshold + Retries
      BY <1>1, <3>2
    <3>6. finals > 1 \/ turn[Root].try + Retries >= Reserve
      BY <1>1, <2>0, <3>1, <3>4, <3>5 DEF RoomFor
    <3>7. t.try = turn[Root].try
      BY <1>1, <1>3, <2>2 DEF RefuseCall, TurnRecord
    <3> HIDE DEF t
    <3> QED BY <1>1, <1>4, <3>1, <3>6, <3>7 DEF RoomFor
  <2>3. CASE MarkOutput(Root) \/ ShowOutput(Root) \/ SettleCall(Root)
    <3>1. /\ t.pc \in {"call", "judge"} /\ t.mode = turn[Root].mode
          /\ t.base = turn[Root].base /\ t.try = turn[Root].try
      BY <1>3, <1>1, <2>3 DEF MarkOutput, ShowOutput, SettleCall, TurnAt, TurnRecord
    <3>2. turn[Root].pc = "call" /\ used' = used
      BY <2>3 DEF MarkOutput, ShowOutput, SettleCall, TurnAt
    <3> HIDE DEF t
    <3> QED BY <1>4, <2>0, <3>1, <3>2 DEF RoomFor
  <2>4. ASSUME NEW fault \in Fault, FailCall(Root, fault)
        PROVE  t.pc # "delegated" /\ RoomFor(t, used', finals')
    <3>1. CASE RetriesCall(Root, fault)
      <4>1. /\ t.pc = "reserve" /\ t.mode = turn[Root].mode
            /\ t.base = turn[Root].base /\ t.try = turn[Root].try + 1
        BY <1>3, <1>1, <2>4, <3>1 DEF FailCall, TurnRecord
      <4>2. turn[Root].pc = "call" /\ used' = used
        BY <2>4 DEF FailCall, TurnAt
      <4>3. turn[Root].base \in Nat /\ turn[Root].try \in Nat
        BY <1>1 DEF TurnRecord
      <4> HIDE DEF t
      <4> QED BY <1>1, <1>4, <2>0, <4>1, <4>2, <4>3 DEF RoomFor
    <3>2. CASE ~RetriesCall(Root, fault)
      <4>1. t.pc = "ended"
        BY <1>3, <2>4, <3>2 DEF FailCall, End, NoTurn
      <4> QED BY <4>1 DEF RoomFor
    <3> QED BY <3>1, <3>2
  <2> QED BY <2>1, <2>2, <2>3, <2>4 DEF CallStep
<1> HIDE DEF t
<1> QED BY <1>2, <1>4, <1>5, RootMoves

\* The other steps of the root.
LEMMA RoomRoot ==
    ASSUME LoopBase, Room, limit' = limit,
           \/ StopBefore(Root) \/ \E repeated \in BOOLEAN : BeginTurn(Root, repeated)
           \/ ToolTurn \/ RepairTools \/ RepairCandidate \/ Accept
    PROVE  Room'
<1> USE LoopAssumption
<1> DEFINE t == turn'[Root]
<1>1. /\ turn[Root] \in TurnRecord /\ used \in Nat /\ finals \in Nat
      /\ Threshold \in Nat /\ turn \in [Agent -> TurnRecord] /\ Root \in Agent
  BY LoopTypes, ReserveBounds DEF LoopBase, Agent
<1>2. turn[Root].pc \in {"idle", "judge"}
  BY DEF StopBefore, BeginTurn, ToolTurn, RepairTools, RepairCandidate, Accept, TurnAt
<1>3. turn' = [turn EXCEPT ![Root] = t]
  BY <1>1 DEF StopBefore, BeginTurn, ToolTurn, RepairTools, RepairCandidate, Accept, Repair, End
<1>4. t.pc # "delegated" /\ RoomFor(t, used', finals')
  <2>0. RoomFor(turn[Root], used, finals)
    BY DEF Room
  <2>1. CASE StopBefore(Root) \/ Accept
    <3>1. t.pc = "ended"
      BY <1>1, <2>1 DEF StopBefore, Accept, End, NoTurn
    <3> QED BY <3>1 DEF RoomFor
  <2>2. ASSUME NEW repeated \in BOOLEAN, BeginTurn(Root, repeated)
        PROVE  t.pc # "delegated" /\ RoomFor(t, used', finals')
    <3>1. /\ t.pc = "reserve" /\ t.mode = Decide(Root, repeated) /\ t.base = used /\ t.try = 0
          /\ turn[Root].pc = "idle" /\ used' = used
      BY <1>1, <2>2 DEF BeginTurn, TurnAt, TurnRecord
    <3>2. Decide(Root, repeated) # "converge" => used < Threshold
      <4>1. ForceThreshold(Root) = Threshold
        BY ReserveBounds, LoopTypes DEF LoopBase, Agent, ForceThreshold, Threshold
      <4> QED BY <4>1, <1>1 DEF Decide
    <3>3. t.mode = "converge" => finals' = Min({finals + 1, FinalTurns + 1})
      BY <2>2 DEF BeginTurn
    <3>4. t.mode = "converge" => finals' > 0 /\ (finals' = 1 => finals = 0)
      <4>1. Min({finals + 1, FinalTurns + 1})
            = IF finals + 1 <= FinalTurns + 1 THEN finals + 1 ELSE FinalTurns + 1
        BY <1>1, MinOfTwo
      <4> QED BY <3>3, <4>1, <1>1, LoopAssumption
    <3> HIDE DEF t
    <3> QED BY <1>1, <2>0, <3>1, <3>2, <3>4 DEF RoomFor
  <2>3. CASE ToolTurn \/ RepairTools \/ RepairCandidate
    <3>1. t.pc = "idle" /\ turn[Root].pc = "judge" /\ used' = used /\ finals' = finals
      <4>1. turn' = [turn EXCEPT ![Root].pc = "idle"]
        BY <2>3 DEF ToolTurn, RepairTools, RepairCandidate, Repair
      <4>2. turn[Root].pc = "judge" /\ used' = used /\ finals' = finals
        BY <2>3 DEF ToolTurn, RepairTools, RepairCandidate, Repair, TurnAt
      <4> QED BY <1>1, <4>1, <4>2 DEF TurnRecord
    <3>2. turn[Root].base \in Nat /\ turn[Root].try \in 0..Retries
      BY <1>1 DEF TurnRecord
    <3>3. used <= turn[Root].base + turn[Root].try + 1
      BY <2>0, <3>1 DEF RoomFor
    <3>4. finals = 0 => turn[Root].base < Threshold
      BY <2>0, <3>1 DEF RoomFor
    <3>5. finals = 0 => used <= Threshold + Retries
      BY <1>1, <3>2, <3>3, <3>4
    <3> HIDE DEF t
    <3> QED BY <3>1, <3>5 DEF RoomFor
  <2> QED BY <2>1, <2>2, <2>3
<1> HIDE DEF t
<1> QED BY <1>2, <1>3, <1>4, RootMoves

\* The steps that move several agents at once.
LEMMA RoomMany ==
    ASSUME LoopBase, Room, limit' = limit,
           Joined \/ CancelLoop \/ (\E subs \in SUBSET Sub : Delegate(subs)) \/ UNCHANGED loopVars
    PROVE  Room'
<1> USE LoopAssumption
<1>1. /\ turn[Root] \in TurnRecord /\ used \in Nat /\ Threshold \in Nat
      /\ turn \in [Agent -> TurnRecord] /\ Root \in Agent /\ Sub \subseteq Agent
  BY LoopTypes, ReserveBounds DEF LoopBase, Agent
<1>2. CASE Joined
  <2>1. turn'[Root].pc = "idle" /\ \A a \in Sub : turn'[a].pc = "off"
    BY <1>1, <1>2 DEF Joined, NoTurn, TurnRecord
  <2>2. turn[Root].pc = "delegated" /\ used' = used
    BY <1>2 DEF Joined, TurnAt
  <2> QED BY <2>1, <2>2, LimitIsFrozen DEF Room, RoomFor
<1>3. CASE CancelLoop
  <2>1. \A a \in Agent : turn'[a].pc = "ended"
    BY <1>3 DEF CancelLoop, NoTurn
  <2> QED BY <1>1, <2>1 DEF Room, RoomFor
<1>4. ASSUME NEW subs \in SUBSET Sub, Delegate(subs)
      PROVE  Room'
  <2>1. /\ turn'[Root].pc = "delegated" /\ turn'[Root].mode = "normal"
        /\ turn'[Root].base = turn[Root].base
    BY <1>1, <1>4 DEF Delegate, TurnRecord
  <2>2. turn[Root].pc = "judge" /\ turn[Root].mode = "normal" /\ used' = used
    BY <1>4 DEF Delegate, TurnAt
  <2>3. turn[Root].base \in Nat /\ turn[Root].try \in 0..Retries
    BY <1>1 DEF TurnRecord
  <2>4. turn[Root].base < Threshold /\ used <= turn[Root].base + turn[Root].try + 1
    BY <2>2 DEF Room, RoomFor
  <2>5. used <= Threshold + Retries
    BY <1>1, <2>3, <2>4
  <2> QED BY <2>1, <2>2, <2>4, <2>5, LimitIsFrozen DEF Room, RoomFor
<1>5. CASE UNCHANGED loopVars
  BY <1>5, LimitIsFrozen DEF loopVars, Room, RoomFor
<1> QED BY <1>2, <1>3, <1>4, <1>5

\* The first turn in which the model must answer has all of the reserve but Retries calls of
\* it, whatever the turns before and the subagents drew, at every limit a run is admitted with
\* (middleware/budget_control.py:24-28, llm/ledger.py).
THEOREM FinalAnswerAlwaysFits == LoopSpec => []FinalAnswerFits
<1>1. LoopInit => LoopBase /\ Room
  BY LoopStart, RoomStart
<1>2. LoopBase /\ Room /\ [LoopNext]_loopVars => (LoopBase /\ Room)'
  <2> SUFFICES ASSUME LoopBase, Room, [LoopNext]_loopVars PROVE LoopBase' /\ Room'
    OBVIOUS
  <2>0. limit' = limit
    BY DEF LoopNext, loopVars
  <2>1. LoopBase'
    BY LoopStep
  <2>2. ASSUME NEW a \in Agent,
               \/ StopBefore(a) \/ CallStep(a) \/ SubTurn(a)
               \/ \E repeated \in BOOLEAN : BeginTurn(a, repeated)
        PROVE  Room'
    <3>1. CASE a \in Sub
      BY <2>0, <2>2, <3>1, RoomSub
    <3>2. CASE a = Root
      <4>1. ~SubTurn(Root)
        BY LoopAssumption DEF SubTurn
      <4> QED BY <2>0, <2>2, <3>2, <4>1, RoomCall, RoomRoot
    <3> QED BY <3>1, <3>2 DEF Agent
  <2>3. CASE ToolTurn \/ RepairTools \/ RepairCandidate \/ Accept
    BY <2>0, <2>1, <2>3, RoomRoot
  <2>4. CASE Joined \/ CancelLoop \/ (\E subs \in SUBSET Sub : Delegate(subs)) \/ UNCHANGED loopVars
    BY <2>0, <2>1, <2>4, RoomMany
  <2> QED BY <2>1, <2>2, <2>3, <2>4 DEF LoopNext
<1>3. Room => FinalAnswerFits
  BY DEF Room, RoomFor, FinalAnswerFits, TurnAt
<1> QED BY <1>1, <1>2, <1>3, PTL DEF LoopSpec

\* A limit whose reserve is more than twice the retries is large enough: the first converging
\* turn of such a run is never refused its call, nor any retry of it.
THEOREM LargeReserveIsEnough ==
    LoopSpec => [](Reserve > 2 * Retries /\ TurnAt(Root, {"refused"}) => finals > 1)
<1>1. LoopBase /\ FinalAnswerFits =>
          (Reserve > 2 * Retries /\ TurnAt(Root, {"refused"}) => finals > 1)
  <2> SUFFICES ASSUME LoopBase, FinalAnswerFits, Reserve > 2 * Retries, TurnAt(Root, {"refused"})
               PROVE  finals > 1
    OBVIOUS
  <2>1. turn[Root].try \in 0..Retries /\ Reserve \in Nat /\ Retries \in Nat
    BY LoopTypes, ReserveBounds, LoopAssumption DEF LoopBase, Agent, TurnRecord
  <2>2. ~(turn[Root].try + Retries >= Reserve)
    BY <2>1
  <2> QED BY <2>2 DEF FinalAnswerFits
<1> QED BY <1>1, LoopTypesHold, FinalAnswerAlwaysFits, PTL

-----------------------------------------------------------------------------
(* The mailbox.                                                            *)

Letter == [from : Peer, to : Peer, corr : Nat, seq : Nat,
           status : Open \cup {"acknowledged", "expired"}]
ToolCall == [what : {"none", "send", "reply", "ack"}, arg : Nat, to : Peer \cup {"none"},
             receipt : {"none", "running", "answered", "unknown"}, made : Nat]

MailShape ==
    /\ mail \in Seq(Letter)
    /\ head \in [Peer -> {"before", "model", "tools", "ended"}]
    /\ fetched \in [Peer -> [done : BOOLEAN, ids : SUBSET Nat]]
    /\ shown \in [Peer -> SUBSET Nat]
    /\ call \in [Peer -> ToolCall]

\* A run has a tool call between its model and its tools node only, and answers messages it
\* has been shown.
CallsOf(r) ==
    /\ shown[r] \subseteq Ids /\ fetched[r].ids \subseteq Ids
    /\ head[r] # "tools" => call[r].what = "none" /\ call[r].receipt = "none"
    /\ call[r].what = "send" => call[r].to \in Peer
    /\ call[r].what \in {"reply", "ack"} => call[r].arg \in Ids

\* What is delivered and open was fetched by this attempt, which is still before the model,
\* or is saved already.
ReadsOf(r) ==
    /\ fetched[r].done =>
          /\ head[r] = "before"
          /\ \A m \in Addressed(r) : mail[m].status = "delivered" => m \in fetched[r].ids
    /\ head[r] = "model" =>
          \A m \in Addressed(r) : mail[m].status = "delivered" => m \in shown[r]

Dense(c) ==
    /\ {mail[m].seq : m \in Conversation(c)} = 1..Cardinality(Conversation(c))
    /\ Cardinality(Conversation(c)) <= MaxHops + 1

Numbered == /\ \A m \in Ids : mail[m].corr \in Ids
            /\ \A c \in Ids : Dense(c)

MailInv == MailShape /\ Numbered /\ \A r \in Peer : CallsOf(r) /\ ReadsOf(r)

-----------------------------------------------------------------------------
(* The table of messages.                                                  *)

LEMMA MailStart == MailInit => MailInv
<1> SUFFICES ASSUME MailInit PROVE MailInv
  OBVIOUS
<1> USE DEF MailInit, NotFetched, NoCall, Ids
<1>1. MailShape
  BY DEF MailShape, ToolCall
<1>2. Ids = {}
  OBVIOUS
<1>3. Numbered
  BY <1>2 DEF Numbered
<1>4. \A r \in Peer : CallsOf(r) /\ ReadsOf(r)
  BY <1>2 DEF CallsOf, ReadsOf
<1> QED BY <1>1, <1>3, <1>4 DEF MailInv

\* A step that only changes what has become of the messages.
SameLetters == /\ mail' \in Seq(Letter) /\ Ids' = Ids
               /\ \A m \in Ids : /\ mail'[m].to = mail[m].to /\ mail'[m].corr = mail[m].corr
                                 /\ mail'[m].seq = mail[m].seq

LEMMA TableIsMail ==
    ASSUME mail \in Seq(Letter), NEW t, DOMAIN t = Ids, t = [m \in Ids |-> t[m]],
           \A m \in Ids : t[m] \in Letter
    PROVE  t \in Seq(Letter) /\ Len(t) = Len(mail)
<1>1. Ids = 1..Len(mail) /\ Len(mail) \in Nat
  BY DEF Ids
<1>2. t \in [1..Len(mail) -> Letter]
  BY <1>1
<1> QED BY <1>1, <1>2

LEMMA StaysNumbered ==
    ASSUME Numbered, SameLetters
    PROVE  Numbered'
<1>1. \A c : Conversation(c)' = Conversation(c)
  BY DEF SameLetters, Conversation
<1>2. \A c : {mail'[m].seq : m \in Conversation(c)} = {mail[m].seq : m \in Conversation(c)}
  BY DEF SameLetters, Conversation
<1> QED BY <1>1, <1>2 DEF Numbered, Dense, SameLetters

\* What expires.
LEMMA ExpiredTable ==
    ASSUME mail \in Seq(Letter), NEW late
    PROVE  /\ Expired(late) \in Seq(Letter) /\ DOMAIN Expired(late) = Ids
           /\ Len(Expired(late)) = Len(mail)
           /\ \A m \in Ids : /\ Expired(late)[m].to = mail[m].to /\ Expired(late)[m].corr = mail[m].corr
                             /\ Expired(late)[m].seq = mail[m].seq /\ Expired(late)[m] \in Letter
                             /\ Expired(late)[m].status = IF m \in late THEN "expired" ELSE mail[m].status
<1> DEFINE t == Expired(late)
<1>1. \A m \in Ids : mail[m] \in Letter
  BY DEF Ids
<1>2. DOMAIN t = Ids /\ t = [m \in Ids |-> t[m]]
  BY DEF Expired
<1>3. ASSUME NEW m \in Ids
      PROVE  /\ t[m].to = mail[m].to /\ t[m].corr = mail[m].corr /\ t[m].seq = mail[m].seq /\ t[m] \in Letter
             /\ t[m].status = IF m \in late THEN "expired" ELSE mail[m].status
  <2>1. t[m] = IF m \in late THEN [mail[m] EXCEPT !.status = "expired"] ELSE mail[m]
    BY DEF Expired
  <2>2. mail[m] \in Letter
    BY <1>1
  <2> HIDE DEF t
  <2> QED BY <2>1, <2>2 DEF Letter
<1>4. t \in Seq(Letter) /\ Len(t) = Len(mail)
  <2> HIDE DEF t
  <2> QED BY <1>2, <1>3, TableIsMail
<1> QED BY <1>2, <1>3, <1>4

\* The number of a message that is inserted follows those of its conversation.
LEMMA NextNumber ==
    ASSUME mail \in Seq(Letter), Numbered, NEW m \in Ids
    PROVE  /\ NextInConversation(m) = Cardinality(Conversation(mail[m].corr)) + 1
           /\ Cardinality(Conversation(mail[m].corr)) \in Nat
<1> DEFINE c == mail[m].corr
<1> DEFINE k == Cardinality(Conversation(c))
<1>1. c \in Ids /\ m \in Conversation(c) /\ {mail[i].seq : i \in Conversation(c)} = 1..k
  BY DEF Numbered, Dense, Conversation
<1>2. IsFiniteSet(Conversation(c)) /\ k \in Nat
  <2>1. IsFiniteSet(1..Len(mail)) /\ Conversation(c) \subseteq 1..Len(mail)
    BY FS_Interval DEF Conversation, Ids
  <2>2. IsFiniteSet(Conversation(c))
    BY <2>1, FS_Subset
  <2> QED BY <2>2, FS_CardinalityType
<1>3. 1..k # {}
  BY <1>1
<1> HIDE DEF k
<1>4. k >= 1
  BY <1>2, <1>3
<1>5. Max(1..k) = k
  <2>1. k \in 1..k /\ \A y \in 1..k : k >= y
    BY <1>2, <1>4
  <2>2. \A x \in 1..k : (\A y \in 1..k : x >= y) => x = k
    BY <1>2, <1>4
  <2> QED BY <2>1, <2>2 DEF Max
<1>6. NextInConversation(m) = Max(1..k) + 1
  BY <1>1 DEF NextInConversation
<1> QED BY <1>2, <1>5, <1>6 DEF k

\* One more message, which opens a conversation or follows the others of one.
LEMMA GrowsNumbered ==
    ASSUME mail \in Seq(Letter), Numbered, NEW n, n \notin Ids, n \in Nat, Ids' = Ids \cup {n},
           NEW corr, NEW seq, mail'[n].corr = corr, mail'[n].seq = seq,
           \A m \in Ids : mail'[m].corr = mail[m].corr /\ mail'[m].seq = mail[m].seq,
           \/ corr = n /\ seq = 1
           \/ \E m \in Ids : /\ corr = mail[m].corr /\ seq = NextInConversation(m)
                             /\ NextInConversation(m) - 1 <= MaxHops
    PROVE  Numbered'
<1>1. \A c : Conversation(c)' = IF corr = c THEN Conversation(c) \cup {n} ELSE Conversation(c)
  BY DEF Conversation
<1>2. \A c : n \notin Conversation(c) /\ IsFiniteSet(Conversation(c))
  <2>1. IsFiniteSet(Ids)
    BY FS_Interval DEF Ids
  <2>2. \A c : Conversation(c) \subseteq Ids
    BY DEF Conversation
  <2> QED BY <2>1, <2>2, FS_Subset
<1>3. ASSUME NEW c, corr # c, Dense(c)
      PROVE  Dense(c)'
  <2>1. Conversation(c)' = Conversation(c)
    BY <1>1, <1>3
  <2>2. {mail'[m].seq : m \in Conversation(c)} = {mail[m].seq : m \in Conversation(c)}
    BY DEF Conversation
  <2> QED BY <1>3, <2>1, <2>2 DEF Dense
<1>4. Conversation(n) = {}
  BY DEF Conversation, Numbered
<1>5. CASE corr = n /\ seq = 1
  <2>1. Conversation(n)' = {n}
    BY <1>1, <1>4, <1>5
  <2>2. {mail'[m].seq : m \in {n}} = {1} /\ Cardinality({n}) = 1 /\ {1} = 1..1 /\ 1 <= MaxHops + 1
    <3>1. {mail'[m].seq : m \in {n}} = {1}
      BY <1>5
    <3>2. Cardinality({n}) = 1
      BY FS_Singleton
    <3>3. {1} = 1..1 /\ 1 <= MaxHops + 1
      BY MailAssumption
    <3> QED BY <3>1, <3>2, <3>3
  <2>3. Dense(n)'
    BY <2>1, <2>2 DEF Dense
  <2>4. \A c \in Ids : Dense(c)'
    BY <1>3, <1>5 DEF Numbered
  <2>5. \A m \in Ids' : mail'[m].corr \in Ids'
    BY <1>5 DEF Numbered
  <2> QED BY <2>3, <2>4, <2>5 DEF Numbered
<1>6. ASSUME NEW m \in Ids, corr = mail[m].corr, seq = NextInConversation(m),
             NextInConversation(m) - 1 <= MaxHops
      PROVE  Numbered'
  <2> DEFINE k == Cardinality(Conversation(corr))
  <2>1. corr \in Ids /\ Dense(corr)
    BY <1>6 DEF Numbered
  <2>2. k \in Nat /\ seq = k + 1
    BY <1>6, NextNumber
  <2>3. Conversation(corr)' = Conversation(corr) \cup {n}
    BY <1>1
  <2>4. Cardinality(Conversation(corr) \cup {n}) = k + 1
    BY <1>2, FS_AddElement
  <2>5. {mail'[i].seq : i \in Conversation(corr)} = {mail[i].seq : i \in Conversation(corr)}
    BY DEF Conversation
  <2>6. {mail[i].seq : i \in Conversation(corr)} = 1..k
    BY <2>1 DEF Dense
  <2>7. {mail'[i].seq : i \in Conversation(corr) \cup {n}} = 1..k \cup {k + 1}
    <3>1. {mail'[i].seq : i \in Conversation(corr) \cup {n}}
              = {mail'[i].seq : i \in Conversation(corr)} \cup {mail'[n].seq}
      OBVIOUS
    <3> QED BY <2>2, <2>5, <2>6, <3>1
  <2>8. Dense(corr)'
    <3>1. seq = k + 1 /\ k \in Nat /\ seq = NextInConversation(m)
      BY <1>6, <2>2
    <3> HIDE DEF k
    <3>2. 1..k \cup {k + 1} = 1..(k + 1)
      BY <2>2
    <3>3. k + 1 <= MaxHops + 1
      BY <1>6, <3>1, MailAssumption
    <3> QED BY <2>3, <2>4, <2>7, <3>2, <3>3 DEF Dense
  <2>9. \A c \in Ids : Dense(c)'
    BY <1>3, <2>8 DEF Numbered
  <2>10. Dense(n)'
    <3>1. corr # n
      BY <2>1
    <3>2. Conversation(n)' = {}
      BY <1>1, <1>4, <3>1
    <3>3. Cardinality({}) = 0 /\ 1..0 = {} /\ {mail'[i].seq : i \in {}} = {} /\ 0 <= MaxHops + 1
      BY FS_EmptySet, MailAssumption
    <3> QED BY <3>2, <3>3 DEF Dense
  <2>11. \A i \in Ids' : mail'[i].corr \in Ids'
    BY <1>6, <2>1 DEF Numbered
  <2> QED BY <2>9, <2>10, <2>11 DEF Numbered
<1> QED BY <1>5, <1>6

\* The row goes to the end of the table, in which messages to the recipient have expired.
LEMMA InsertedTable ==
    ASSUME mail \in Seq(Letter), NEW late, NEW row \in Letter, mail' = Append(Expired(late), row)
    PROVE  /\ mail' \in Seq(Letter) /\ Ids' = Ids \cup {Len(mail) + 1}
           /\ Len(mail) + 1 \notin Ids /\ Len(mail) + 1 \in Nat
           /\ mail'[Len(mail) + 1] = row
           /\ \A m \in Ids : mail'[m] = Expired(late)[m]
<1> DEFINE e == Expired(late)
<1>1. e \in Seq(Letter) /\ Len(e) = Len(mail) /\ Len(mail) \in Nat /\ Ids = 1..Len(mail)
  BY ExpiredTable DEF Ids
<1>2. mail' = Append(e, row)
  OBVIOUS
<1> HIDE DEF e
<1>3. /\ mail' \in Seq(Letter) /\ DOMAIN mail' = 1..(Len(mail) + 1)
      /\ mail'[Len(mail) + 1] = row
      /\ \A m \in 1..Len(mail) : mail'[m] = e[m]
  BY <1>1, <1>2
<1>4. Ids' = Ids \cup {Len(mail) + 1}
  BY <1>1, <1>3 DEF Ids
<1> QED BY <1>1, <1>3, <1>4 DEF e

-----------------------------------------------------------------------------
(* What each run has read.                                                 *)

\* A step that shows nothing new to a run, nor delivers anything to it.
LEMMA ReadsStay ==
    ASSUME NEW r \in Peer, ReadsOf(r),
           \A m \in Ids' : mail'[m].to = r /\ mail'[m].status = "delivered"
              => m \in Ids /\ mail[m].to = r /\ mail[m].status = "delivered",
           fetched'[r] = fetched[r] \/ ~fetched'[r].done,
           shown'[r] = shown[r],
           fetched[r].done /\ fetched'[r].done => head'[r] = head[r],
           head'[r] = "model" => head[r] = "model"
    PROVE  ReadsOf(r)'
<1>1. ASSUME NEW m \in Addressed(r)', mail'[m].status = "delivered"
      PROVE  m \in Addressed(r) /\ mail[m].status = "delivered"
  BY <1>1 DEF Addressed
<1> QED BY <1>1 DEF ReadsOf

\* A step that leaves the table alone.
LEMMA UnchangedMail ==
    ASSUME MailInv, UNCHANGED mail
    PROVE  /\ mail' \in Seq(Letter) /\ Ids' = Ids /\ Numbered'
           /\ \A m \in Ids' : m \in Ids /\ mail'[m] = mail[m]
<1>1. mail' \in Seq(Letter) /\ Ids' = Ids
  BY DEF MailInv, MailShape, Ids
<1>2. Numbered'
  <2>1. \A c : Conversation(c)' = Conversation(c)
    BY <1>1 DEF Conversation
  <2> QED BY <1>1, <2>1 DEF MailInv, Numbered, Dense
<1> QED BY <1>1, <1>2

LEMMA LoseKeeps ==
    ASSUME MailInv, NEW r \in Peer, Lose(r)
    PROVE  MailInv'
<1> USE DEF Lose, NotFetched
<1>1. mail' \in Seq(Letter) /\ Ids' = Ids /\ Numbered' /\ \A m \in Ids' : m \in Ids /\ mail'[m] = mail[m]
  BY UnchangedMail
<1>2. /\ fetched' = [fetched EXCEPT ![r] = [done |-> FALSE, ids |-> {}]]
      /\ \A q \in Peer : fetched'[q] = fetched[q] \/ ~fetched'[q].done
      /\ fetched' \in [Peer -> [done : BOOLEAN, ids : SUBSET Nat]]
  BY DEF MailInv, MailShape
<1>3. /\ call' \in [Peer -> ToolCall]
      /\ \A q \in Peer : /\ call'[q].what = call[q].what /\ call'[q].to = call[q].to
                         /\ call'[q].arg = call[q].arg
                         /\ call[q].receipt = "none" => call'[q].receipt = "none"
  <2>1. call \in [Peer -> ToolCall] /\ call[r] \in ToolCall
    BY DEF MailInv, MailShape
  <2>2. PICK receipt \in {"none", "running", "answered", "unknown"} :
          /\ call' = [call EXCEPT ![r] = [call[r] EXCEPT !.receipt = receipt]]
          /\ call[r].receipt = "none" => receipt = "none"
    BY <2>1 DEF ToolCall
  <2>3. [call[r] EXCEPT !.receipt = receipt] \in ToolCall
    BY <2>1, <2>2 DEF ToolCall
  <2>4. /\ call' \in [Peer -> ToolCall] /\ \A q \in Peer \ {r} : call'[q] = call[q]
        /\ call'[r] = [call[r] EXCEPT !.receipt = receipt]
    BY <2>1, <2>2, <2>3
  <2> QED BY <2>1, <2>2, <2>4 DEF ToolCall
<1>4. MailShape'
  BY <1>1, <1>2, <1>3 DEF MailInv, MailShape
<1>5. ASSUME NEW q \in Peer PROVE CallsOf(q)' /\ ReadsOf(q)'
  <2>1. CallsOf(q) /\ ReadsOf(q)
    BY DEF MailInv
  <2>2. fetched'[q].ids \subseteq Ids
    BY <1>2, <2>1 DEF CallsOf, MailInv, MailShape
  <2>3. CallsOf(q)'
    BY <1>1, <1>3, <2>1, <2>2 DEF CallsOf
  <2>4. ReadsOf(q)'
    BY <1>1, <1>2, <2>1, ReadsStay
  <2> QED BY <2>3, <2>4
<1> QED BY <1>1, <1>4, <1>5 DEF MailInv

LEMMA SaveKeeps ==
    ASSUME MailInv, NEW r \in Peer, Save(r)
    PROVE  MailInv'
<1> USE DEF Save, NotFetched
<1>1. mail' \in Seq(Letter) /\ Ids' = Ids /\ Numbered' /\ \A m \in Ids' : m \in Ids /\ mail'[m] = mail[m]
  BY UnchangedMail
<1>2. CallsOf(r) /\ ReadsOf(r) /\ head[r] = "before" /\ fetched[r].ids \subseteq Nat
  BY DEF MailInv, ReadsOf, MailShape
<1>3. MailShape'
  BY <1>1, <1>2 DEF MailInv, MailShape
<1>4. ASSUME NEW q \in Peer PROVE CallsOf(q)' /\ ReadsOf(q)'
  <2>1. CallsOf(q) /\ ReadsOf(q)
    BY DEF MailInv
  <2>2. CASE q # r
    <3>1. fetched'[q] = fetched[q] /\ shown'[q] = shown[q] /\ head'[q] = head[q] /\ call'[q] = call[q]
      BY <2>2 DEF MailInv, MailShape
    <3>2. CallsOf(q)'
      BY <1>1, <2>1, <3>1 DEF CallsOf
    <3>3. ReadsOf(q)'
      BY <1>1, <2>1, <3>1, ReadsStay
    <3> QED BY <3>2, <3>3
  <2>3. CASE q = r
    <3>1. /\ ~fetched'[r].done /\ fetched'[r].ids = {} /\ head'[r] = "model" /\ call'[r] = call[r]
          /\ shown'[r] = shown[r] \cup fetched[r].ids
      BY DEF MailInv, MailShape
    <3>2. CallsOf(r)'
      BY <1>1, <1>2, <3>1 DEF CallsOf
    <3>3. ASSUME NEW m \in Addressed(r)', mail'[m].status = "delivered"
          PROVE  m \in shown'[r]
      BY <1>1, <1>2, <3>1, <3>3 DEF Addressed, ReadsOf
    <3>4. ReadsOf(r)'
      BY <3>1, <3>3 DEF ReadsOf
    <3> QED BY <2>3, <3>2, <3>4
  <2> QED BY <2>2, <2>3
<1> QED BY <1>1, <1>3, <1>4 DEF MailInv

\* A tool call is made.
LEMMA CallingKeeps ==
    ASSUME MailInv, NEW r \in Peer, NEW c \in ToolCall, Calling(r, c), c.receipt = "none",
           c.what = "send" => c.to \in Peer,
           c.what \in {"reply", "ack"} => c.arg \in Ids
    PROVE  MailInv'
<1> USE DEF Calling
<1>1. mail' \in Seq(Letter) /\ Ids' = Ids /\ Numbered' /\ \A m \in Ids' : m \in Ids /\ mail'[m] = mail[m]
  BY UnchangedMail
<1>2. MailShape'
  BY <1>1 DEF MailInv, MailShape
<1>3. ASSUME NEW q \in Peer PROVE CallsOf(q)' /\ ReadsOf(q)'
  <2>1. CallsOf(q) /\ ReadsOf(q)
    BY DEF MailInv
  <2>2. /\ q # r => head'[q] = head[q] /\ call'[q] = call[q]
        /\ head'[r] = "tools" /\ head[r] = "model" /\ call'[r] = c
        /\ shown'[q] = shown[q] /\ fetched'[q] = fetched[q]
    BY DEF MailInv, MailShape
  <2>3. CallsOf(q)'
    BY <1>1, <2>1, <2>2 DEF CallsOf
  <2>4. ReadsOf(q)'
    <3>1. fetched[q].done => head[q] = "before"
      BY <2>1 DEF ReadsOf
    <3> QED BY <1>1, <2>1, <2>2, <3>1, ReadsStay
  <2> QED BY <2>3, <2>4
<1> QED BY <1>1, <1>2, <1>3 DEF MailInv

LEMMA AskKeeps ==
    ASSUME MailInv, NEW r \in Peer, AskStep(r)
    PROVE  MailInv'
<1>1. NoCall \in ToolCall /\ NoCall.receipt = "none"
  BY DEF NoCall, ToolCall
<1> HIDE DEF NoCall
<1>2. ASSUME NEW to \in Peer, AskSend(r, to) PROVE MailInv'
  <2> DEFINE c == [NoCall EXCEPT !.what = "send", !.to = to]
  <2>1. c \in ToolCall /\ c.what = "send" /\ c.to = to /\ c.receipt = "none"
    BY <1>1 DEF ToolCall
  <2>2. Calling(r, c)
    BY <1>2 DEF AskSend
  <2> HIDE DEF c
  <2> QED BY <2>1, <2>2, CallingKeeps
<1>3. ASSUME NEW m \in Ids, NEW what \in {"reply", "ack"},
             Calling(r, [NoCall EXCEPT !.what = what, !.arg = m])
      PROVE MailInv'
  <2> DEFINE c == [NoCall EXCEPT !.what = what, !.arg = m]
  <2>1. m \in Nat
    BY DEF Ids, MailInv, MailShape
  <2>2. c \in ToolCall /\ c.what # "send" /\ c.arg = m /\ c.receipt = "none"
    BY <1>1, <2>1 DEF ToolCall
  <2>3. Calling(r, c)
    BY <1>3
  <2> HIDE DEF c
  <2> QED BY <2>2, <2>3, CallingKeeps
<1>4. ASSUME NEW m \in Ids, AskReply(r, m) PROVE MailInv'
  BY <1>3, <1>4 DEF AskReply
<1>5. ASSUME NEW m \in Ids, AskAck(r, m) PROVE MailInv'
  BY <1>3, <1>5 DEF AskAck
<1> QED BY <1>2, <1>4, <1>5 DEF AskStep

\* Steps of a run that change only its head or its call.
LEMMA OwnStepKeeps ==
    ASSUME MailInv, NEW r \in Peer, UNCHANGED <<mail, shown, fetched>>,
           head' \in [Peer -> {"before", "model", "tools", "ended"}], call' \in [Peer -> ToolCall],
           \A q \in Peer : q # r => head'[q] = head[q] /\ call'[q] = call[q],
           head'[r] # head[r] => head[r] # "before" /\ head'[r] # "model",
           call'[r].what # "none" => head'[r] = "tools" /\ call'[r].what = call[r].what
                                     /\ call'[r].to = call[r].to /\ call'[r].arg = call[r].arg,
           call'[r].what = "none" => call'[r].receipt = "none"
    PROVE  MailInv'
<1>1. mail' \in Seq(Letter) /\ Ids' = Ids /\ Numbered' /\ \A m \in Ids' : m \in Ids /\ mail'[m] = mail[m]
  BY UnchangedMail
<1>2. MailShape'
  BY <1>1 DEF MailInv, MailShape
<1>3. ASSUME NEW q \in Peer PROVE CallsOf(q)' /\ ReadsOf(q)'
  <2>1. CallsOf(q) /\ ReadsOf(q)
    BY DEF MailInv
  <2>2. CallsOf(q)'
    <3>1. CASE q # r
      <4>1. head'[q] = head[q] /\ call'[q] = call[q]
        BY <3>1
      <4> QED BY <1>1, <2>1, <4>1 DEF CallsOf
    <3>2. CASE q = r
      BY <1>1, <2>1, <3>2 DEF CallsOf
    <3> QED BY <3>1, <3>2
  <2>3. ReadsOf(q)'
    <3>1. fetched[q].done => head[q] = "before"
      BY <2>1 DEF ReadsOf
    <3>2. fetched'[q] = fetched[q] /\ shown'[q] = shown[q]
      OBVIOUS
    <3>3. fetched[q].done => head'[q] = head[q]
      BY <3>1
    <3>4. head'[q] = "model" => head[q] = "model"
      OBVIOUS
    <3> QED BY <1>1, <2>1, <3>2, <3>3, <3>4, ReadsStay
  <2> QED BY <2>2, <2>3
<1> QED BY <1>1, <1>2, <1>3 DEF MailInv

LEMMA EndRunKeeps ==
    ASSUME MailInv, NEW r \in Peer, EndRun(r)
    PROVE  MailInv'
<1>1. CallsOf(r) /\ head[r] = "model"
  BY DEF MailInv, EndRun
<1>2. /\ head' \in [Peer -> {"before", "model", "tools", "ended"}] /\ head'[r] = "ended"
      /\ \A q \in Peer : q # r => head'[q] = head[q]
  BY DEF MailInv, MailShape, EndRun
<1>3. call' = call /\ call \in [Peer -> ToolCall] /\ call[r].what = "none" /\ call[r].receipt = "none"
  BY <1>1 DEF MailInv, MailShape, CallsOf, EndRun
<1> QED BY <1>1, <1>2, <1>3, OwnStepKeeps DEF EndRun

LEMMA BeginKeeps ==
    ASSUME MailInv, NEW r \in Peer, Begin(r)
    PROVE  MailInv'
<1>1. CallsOf(r) /\ call[r].what # "none" /\ call \in [Peer -> ToolCall] /\ head' = head
  BY DEF MailInv, Begin, MailShape
<1>2. head[r] = "tools" /\ head \in [Peer -> {"before", "model", "tools", "ended"}]
  BY <1>1 DEF CallsOf, MailInv, MailShape
<1>3. /\ call' = [call EXCEPT ![r].receipt = "running"] /\ call[r] \in ToolCall
  BY <1>1 DEF Begin
<1>4. /\ \A q \in Peer : q # r => call'[q] = call[q]
      /\ call'[r] = [call[r] EXCEPT !.receipt = "running"]
  BY <1>1, <1>3
<1>5. /\ call'[r].what = call[r].what /\ call'[r].to = call[r].to /\ call'[r].arg = call[r].arg
      /\ call'[r] \in ToolCall
  BY <1>3, <1>4 DEF ToolCall
<1>6. call' \in [Peer -> ToolCall]
  BY <1>1, <1>3, <1>4, <1>5
<1> QED BY <1>1, <1>2, <1>4, <1>5, <1>6, OwnStepKeeps DEF Begin

LEMMA ReturnKeeps ==
    ASSUME MailInv, NEW r \in Peer, Return(r)
    PROVE  MailInv'
<1>1. CallsOf(r) /\ call[r].receipt = "answered" /\ call \in [Peer -> ToolCall]
  BY DEF MailInv, Return, MailShape
<1>2. head[r] = "tools"
  BY <1>1 DEF CallsOf
<1>3. /\ head' \in [Peer -> {"before", "model", "tools", "ended"}] /\ head'[r] = "before"
      /\ \A q \in Peer : q # r => head'[q] = head[q]
  BY DEF MailInv, MailShape, Return
<1>4. NoCall \in ToolCall /\ NoCall.what = "none" /\ NoCall.receipt = "none"
  BY DEF NoCall, ToolCall
<1>5. /\ call' \in [Peer -> ToolCall] /\ call'[r] = NoCall
      /\ \A q \in Peer : q # r => call'[q] = call[q]
  BY <1>1, <1>4 DEF Return
<1> QED BY <1>2, <1>3, <1>4, <1>5, OwnStepKeeps DEF Return

-----------------------------------------------------------------------------
(* The steps that change the table.                                        *)

\* MailShape and the calls of a run, when it alone has its call answered.
LEMMA AnswerFacts ==
    ASSUME MailInv, NEW r \in Peer, NEW made \in Nat, Answer(r, made), call[r].receipt = "running",
           mail' \in Seq(Letter), Ids \subseteq Ids', UNCHANGED <<head, shown, fetched>>
    PROVE  /\ MailShape'
           /\ \A q \in Peer : CallsOf(q)'
<1>1. call \in [Peer -> ToolCall] /\ call[r] \in ToolCall
  BY DEF MailInv, MailShape
<1>2. /\ \A q \in Peer : q # r => call'[q] = call[q]
      /\ call'[r] = [call[r] EXCEPT !.receipt = "answered", !.made = made]
      /\ DOMAIN call' = Peer /\ call' = [q \in Peer |-> call'[q]]
  BY <1>1 DEF Answer
<1>3. /\ call'[r].what = call[r].what /\ call'[r].to = call[r].to /\ call'[r].arg = call[r].arg
      /\ call'[r] \in ToolCall
  BY <1>1, <1>2 DEF ToolCall
<1>4. call' \in [Peer -> ToolCall]
  BY <1>1, <1>2, <1>3
<1>5. MailShape'
  BY <1>4 DEF MailInv, MailShape
<1>6. ASSUME NEW q \in Peer PROVE CallsOf(q)'
  <2>1. CallsOf(q)
    BY DEF MailInv
  <2>2. CASE q # r
    BY <1>2, <2>1, <2>2 DEF CallsOf
  <2>3. CASE q = r
    BY <1>3, <2>1, <2>3 DEF CallsOf
  <2> QED BY <2>2, <2>3
<1> QED BY <1>5, <1>6

\* No message that was not delivered before is delivered now.
NoNewDelivery ==
    \A m \in Ids' : mail'[m].status = "delivered"
        => m \in Ids /\ mail'[m].to = mail[m].to /\ mail[m].status = "delivered"

LEMMA AnswerKeeps ==
    ASSUME MailInv, NEW r \in Peer, NEW made \in Nat, Answer(r, made), call[r].receipt = "running",
           mail' \in Seq(Letter), Ids \subseteq Ids', Numbered', NoNewDelivery,
           UNCHANGED <<head, shown, fetched>>
    PROVE  MailInv'
<1>1. ASSUME NEW q \in Peer PROVE ReadsOf(q)'
  <2>1. ReadsOf(q)
    BY DEF MailInv
  <2> QED BY <2>1, ReadsStay DEF NoNewDelivery
<1> QED BY <1>1, AnswerFacts DEF MailInv

LEMMA RefuseKeeps ==
    ASSUME MailInv, NEW r \in Peer, Refuse(r), call[r].receipt = "running",
           UNCHANGED <<head, shown, fetched>>
    PROVE  MailInv'
<1>1. mail' = mail /\ Answer(r, 0)
  BY DEF Refuse
<1>2. mail' \in Seq(Letter) /\ Ids' = Ids /\ Numbered' /\ \A m \in Ids' : m \in Ids /\ mail'[m] = mail[m]
  BY <1>1, UnchangedMail
<1> QED BY <1>1, <1>2, AnswerKeeps DEF NoNewDelivery

\* A message is inserted, unless its operation has inserted it before.
LEMMA InsertKeeps ==
    ASSUME MailInv, NEW r \in Peer, NEW to \in Peer, NEW corr \in Nat, NEW seq \in Nat,
           Insert(r, to, corr, seq), call[r].receipt = "running",
           UNCHANGED <<head, shown, fetched>>,
           call[r].made = 0 =>
              \/ corr = 0 /\ seq = 1
              \/ corr # 0 /\ \E m \in Ids : /\ corr = mail[m].corr /\ seq = NextInConversation(m)
                                            /\ NextInConversation(m) - 1 <= MaxHops
    PROVE  MailInv'
<1> DEFINE n == Len(mail) + 1
<1> DEFINE row == [from |-> r, to |-> to, corr |-> IF corr = 0 THEN n ELSE corr, seq |-> seq,
                   status |-> "queued"]
<1>1. mail \in Seq(Letter) /\ n \in Nat /\ n # 0 /\ Numbered /\ call[r].made \in Nat
  BY DEF MailInv, MailShape, ToolCall
<1>2. CASE call[r].made # 0
  <2>1. mail' = mail /\ Answer(r, call[r].made)
    BY <1>2 DEF Insert
  <2>2. mail' \in Seq(Letter) /\ Ids' = Ids /\ Numbered' /\ \A m \in Ids' : m \in Ids /\ mail'[m] = mail[m]
    BY <2>1, UnchangedMail
  <2> QED BY <1>1, <2>1, <2>2, AnswerKeeps DEF NoNewDelivery
<1>3. CASE call[r].made = 0
  <2>1. PICK late \in SUBSET OpenMail(to) :
             \/ mail' = Append(Expired(late), row) /\ Answer(r, n)
             \/ Refuse(r)
    BY <1>3 DEF Insert
  <2>2. CASE mail' = Append(Expired(late), row) /\ Answer(r, n)
    <3>1. /\ row \in Letter /\ row.status = "queued" /\ row.seq = seq
          /\ row.corr = IF corr = 0 THEN n ELSE corr
      BY <1>1 DEF Letter, Open
    <3> HIDE DEF row
    <3>2. /\ mail' \in Seq(Letter) /\ Ids' = Ids \cup {n} /\ n \notin Ids /\ mail'[n] = row
          /\ \A m \in Ids : mail'[m] = Expired(late)[m]
      BY <1>1, <2>2, <3>1, InsertedTable
    <3>3. \A m \in Ids : /\ mail'[m].to = mail[m].to /\ mail'[m].corr = mail[m].corr
                         /\ mail'[m].seq = mail[m].seq
                         /\ mail'[m].status = IF m \in late THEN "expired" ELSE mail[m].status
      BY <1>1, <3>2, ExpiredTable
    <3>4. \/ row.corr = n /\ row.seq = 1
          \/ \E m \in Ids : /\ row.corr = mail[m].corr /\ row.seq = NextInConversation(m)
                            /\ NextInConversation(m) - 1 <= MaxHops
      BY <1>3, <3>1
    <3> HIDE DEF n
    <3>5. Numbered'
      BY <1>1, <3>2, <3>3, <3>4, GrowsNumbered
    <3>6. NoNewDelivery
      BY <3>1, <3>2, <3>3 DEF NoNewDelivery
    <3>7. Ids \subseteq Ids'
      BY <3>2
    <3> QED BY <1>1, <2>2, <3>2, <3>5, <3>6, <3>7, AnswerKeeps
  <2>3. CASE Refuse(r)
    BY <2>3, RefuseKeeps
  <2> QED BY <2>1, <2>2, <2>3
<1> QED BY <1>2, <1>3

LEMMA SendKeeps ==
    ASSUME MailInv, NEW r \in Peer, Send(r)
    PROVE  MailInv'
<1>1. call[r].what = "send" /\ call[r].receipt = "running" /\ CallsOf(r)
  BY DEF Send, Underway, MailInv
<1>2. call[r].to \in Peer
  BY <1>1 DEF CallsOf
<1> QED BY <1>1, <1>2, InsertKeeps DEF Send

LEMMA ReplyKeeps ==
    ASSUME MailInv, NEW r \in Peer, Reply(r)
    PROVE  MailInv'
<1> DEFINE m == call[r].arg
<1>1. call[r].what = "reply" /\ call[r].receipt = "running" /\ CallsOf(r)
  BY DEF Reply, Underway, MailInv
<1>2. m \in Ids
  BY <1>1 DEF CallsOf
<1>3. mail \in Seq(Letter) /\ Numbered
  BY DEF MailInv, MailShape
<1>4. mail[m] \in Letter /\ mail[m].from \in Peer /\ mail[m].corr \in Nat
  <2>1. \A i \in Ids : mail[i] \in Letter
    BY <1>3 DEF Ids
  <2>2. mail[m] \in Letter
    BY <1>2, <2>1
  <2> HIDE DEF m
  <2> QED BY <2>2 DEF Letter
<1>5. mail[m].corr # 0
  <2>1. mail[m].corr \in Ids
    BY <1>2, <1>3 DEF Numbered
  <2>2. 0 \notin Ids
    BY <1>3 DEF Ids
  <2> QED BY <2>1, <2>2
<1>6. NextInConversation(m) \in Nat
  <2>1. /\ NextInConversation(m) = Cardinality(Conversation(mail[m].corr)) + 1
        /\ Cardinality(Conversation(mail[m].corr)) \in Nat
    BY <1>2, <1>3, NextNumber
  <2> QED BY <2>1
<1>7. CASE /\ call[r].made # 0 \/ NextInConversation(m) - 1 <= MaxHops
           /\ Insert(r, mail[m].from, mail[m].corr, NextInConversation(m))
  <2> DEFINE to == mail[m].from
  <2> DEFINE corr == mail[m].corr
  <2> DEFINE seq == NextInConversation(m)
  <2>1. to \in Peer /\ corr \in Nat /\ seq \in Nat /\ corr # 0 /\ UNCHANGED <<head, shown, fetched>>
    BY <1>4, <1>5, <1>6 DEF Reply
  <2>2. Insert(r, to, corr, seq)
    BY <1>7
  <2>3. call[r].made = 0 =>
           \E i \in Ids : /\ corr = mail[i].corr /\ seq = NextInConversation(i)
                          /\ NextInConversation(i) - 1 <= MaxHops
    BY <1>2, <1>7
  <2> HIDE DEF to, corr, seq
  <2> QED BY <1>1, <2>1, <2>2, <2>3, InsertKeeps
<1>8. CASE Refuse(r)
  BY <1>1, <1>8, RefuseKeeps DEF Reply
<1> QED BY <1>7, <1>8 DEF Reply

LEMMA AckKeeps ==
    ASSUME MailInv, NEW r \in Peer, Ack(r)
    PROVE  MailInv'
<1> DEFINE m == call[r].arg
<1>1. call[r].what = "ack" /\ call[r].receipt = "running" /\ CallsOf(r)
  BY DEF Ack, Underway, MailInv
<1>2. m \in Ids /\ mail \in Seq(Letter) /\ Numbered
  BY <1>1 DEF CallsOf, MailInv, MailShape
<1>3. Answer(r, 0)
  BY DEF Ack
<1>4. CASE mail[m].status = "delivered"
  <2>1. mail' = [mail EXCEPT ![m].status = "acknowledged"]
    BY <1>4 DEF Ack
  <2>2. \A i \in Ids : mail[i] \in Letter
    BY <1>2 DEF Ids
  <2>3. DOMAIN mail' = Ids /\ mail' = [i \in Ids |-> mail'[i]]
    BY <1>2, <2>1 DEF Ids
  <2>4. ASSUME NEW i \in Ids
        PROVE  /\ mail'[i] \in Letter /\ mail'[i].to = mail[i].to /\ mail'[i].corr = mail[i].corr
               /\ mail'[i].seq = mail[i].seq
               /\ mail'[i].status = IF i = m THEN "acknowledged" ELSE mail[i].status
    <3>1. mail'[i] = IF i = m THEN [mail[i] EXCEPT !.status = "acknowledged"] ELSE mail[i]
      BY <1>2, <2>1 DEF Ids
    <3> QED BY <2>2, <3>1 DEF Letter
  <2>5. mail' \in Seq(Letter) /\ Ids' = Ids
    BY <1>2, <2>3, <2>4, TableIsMail DEF Ids
  <2>6. Numbered'
    BY <1>2, <2>4, <2>5, StaysNumbered DEF SameLetters
  <2>7. NoNewDelivery
    BY <2>4, <2>5 DEF NoNewDelivery
  <2> QED BY <1>1, <1>3, <2>5, <2>6, <2>7, AnswerKeeps DEF Ack
<1>5. CASE mail[m].status # "delivered"
  <2>1. mail' = mail
    BY <1>5 DEF Ack
  <2>2. mail' \in Seq(Letter) /\ Ids' = Ids /\ Numbered' /\ \A i \in Ids' : i \in Ids /\ mail'[i] = mail[i]
    BY <2>1, UnchangedMail
  <2> QED BY <1>1, <1>3, <2>1, <2>2, AnswerKeeps DEF Ack, NoNewDelivery
<1> QED BY <1>4, <1>5

LEMMA DeliverKeeps ==
    ASSUME MailInv, NEW r \in Peer, NEW late, Deliver(r, late)
    PROVE  MailInv'
<1> DEFINE e == Expired(late)
<1>1. mail \in Seq(Letter) /\ Numbered /\ head[r] = "before" /\ UNCHANGED <<head, shown, call>>
  BY DEF MailInv, MailShape, Deliver
<1>2. /\ DOMAIN e = Ids
      /\ \A m \in Ids : /\ e[m].to = mail[m].to /\ e[m].corr = mail[m].corr
                        /\ e[m].seq = mail[m].seq /\ e[m] \in Letter
                        /\ e[m].status = IF m \in late THEN "expired" ELSE mail[m].status
  BY <1>1, ExpiredTable
<1>3. /\ mail' = [m \in Ids |-> IF mail[m].to = r /\ e[m].status = "queued"
                               THEN [e[m] EXCEPT !.status = "delivered"] ELSE e[m]]
      /\ fetched' = [fetched EXCEPT ![r] = [done |-> TRUE, ids |-> Returned(r, mail')]]
  BY DEF Deliver
<1> HIDE DEF e
<1>4. ASSUME NEW m \in Ids
      PROVE  /\ mail'[m] \in Letter /\ mail'[m].to = mail[m].to /\ mail'[m].corr = mail[m].corr
             /\ mail'[m].seq = mail[m].seq
             /\ mail'[m].status = "delivered" /\ mail[m].to # r => mail[m].status = "delivered"
  <2>1. mail'[m] = IF mail[m].to = r /\ e[m].status = "queued"
                   THEN [e[m] EXCEPT !.status = "delivered"] ELSE e[m]
    BY <1>3
  <2>2. e[m] \in Letter
    BY <1>2
  <2>3. [e[m] EXCEPT !.status = "delivered"] \in Letter
    BY <2>2 DEF Letter, Open
  <2>4. mail'[m] \in Letter
    BY <2>1, <2>2, <2>3
  <2>5. /\ mail'[m].to = e[m].to /\ mail'[m].corr = e[m].corr /\ mail'[m].seq = e[m].seq
        /\ mail[m].to # r => mail'[m].status = e[m].status
    BY <2>1, <2>2 DEF Letter
  <2> QED BY <1>2, <2>4, <2>5
<1>5. mail' \in Seq(Letter) /\ Ids' = Ids
  <2>1. DOMAIN mail' = Ids /\ mail' = [m \in Ids |-> mail'[m]]
    BY <1>3
  <2> QED BY <1>1, <1>4, <2>1, TableIsMail DEF Ids
<1>6. Numbered'
  BY <1>1, <1>4, <1>5, StaysNumbered DEF SameLetters
<1>7. Returned(r, mail') \subseteq Ids /\ Ids \subseteq Nat
  BY <1>1 DEF Returned, Addressed, Ids
<1>8. /\ fetched \in [Peer -> [done : BOOLEAN, ids : SUBSET Nat]]
      /\ fetched'[r] = [done |-> TRUE, ids |-> Returned(r, mail')]
      /\ \A q \in Peer : q # r => fetched'[q] = fetched[q]
      /\ fetched' \in [Peer -> [done : BOOLEAN, ids : SUBSET Nat]]
  BY <1>3, <1>7 DEF MailInv, MailShape
<1>9. MailShape'
  BY <1>1, <1>5, <1>8 DEF MailInv, MailShape
<1>10. ASSUME NEW q \in Peer PROVE CallsOf(q)' /\ ReadsOf(q)'
  <2>1. CallsOf(q) /\ ReadsOf(q)
    BY DEF MailInv
  <2>2. CASE q # r
    <3>1. fetched'[q] = fetched[q]
      BY <1>8, <2>2
    <3>2. CallsOf(q)'
      BY <1>1, <1>5, <2>1, <3>1 DEF CallsOf
    <3>3. \A m \in Ids' : mail'[m].to = q /\ mail'[m].status = "delivered"
             => m \in Ids /\ mail[m].to = q /\ mail[m].status = "delivered"
      BY <1>4, <1>5, <2>2
    <3>4. ReadsOf(q)'
      BY <1>1, <2>1, <3>1, <3>3, ReadsStay
    <3> QED BY <3>2, <3>4
  <2>3. CASE q = r
    <3>1. CallsOf(r)'
      BY <1>1, <1>5, <1>7, <1>8, <2>1, <2>3 DEF CallsOf
    <3>2. ASSUME NEW m \in Addressed(r)', mail'[m].status = "delivered"
          PROVE  m \in Returned(r, mail')
      BY <1>4, <1>5, <3>2 DEF Addressed, Returned
    <3>3. ReadsOf(r)'
      BY <1>1, <1>8, <3>2 DEF ReadsOf
    <3> QED BY <2>3, <3>1, <3>3
  <2> QED BY <2>2, <2>3
<1> QED BY <1>5, <1>6, <1>9, <1>10 DEF MailInv

-----------------------------------------------------------------------------
(* The theorems.                                                           *)

LEMMA MailStep ==
    ASSUME MailInv, [MailNext]_mailVars
    PROVE  MailInv'
<1>1. CASE MailNext
  <2>1. PICK r \in Peer :
          \/ Lose(r) \/ Save(r) \/ AskStep(r) \/ EndRun(r)
          \/ \E late \in SUBSET OpenMail(r) : Deliver(r, late)
          \/ Begin(r) \/ Send(r) \/ Reply(r) \/ Ack(r) \/ Return(r)
    BY <1>1 DEF MailNext
  <2>2. CASE Lose(r)
    BY <2>2, LoseKeeps
  <2>3. CASE Save(r)
    BY <2>3, SaveKeeps
  <2>4. CASE AskStep(r)
    BY <2>4, AskKeeps
  <2>5. CASE EndRun(r)
    BY <2>5, EndRunKeeps
  <2>6. CASE \E late \in SUBSET OpenMail(r) : Deliver(r, late)
    BY <2>6, DeliverKeeps
  <2>7. CASE Begin(r)
    BY <2>7, BeginKeeps
  <2>8. CASE Send(r)
    BY <2>8, SendKeeps
  <2>9. CASE Reply(r)
    BY <2>9, ReplyKeeps
  <2>10. CASE Ack(r)
    BY <2>10, AckKeeps
  <2>11. CASE Return(r)
    BY <2>11, ReturnKeeps
  <2> QED BY <2>1, <2>2, <2>3, <2>4, <2>5, <2>6, <2>7, <2>8, <2>9, <2>10, <2>11
<1>2. CASE UNCHANGED mailVars
  <2>1. UNCHANGED <<mail, head, shown, fetched, call, losses>>
    BY <1>2 DEF mailVars
  <2>2. mail' \in Seq(Letter) /\ Ids' = Ids /\ Numbered' /\ \A m \in Ids' : m \in Ids /\ mail'[m] = mail[m]
    BY <2>1, UnchangedMail
  <2>3. MailShape'
    BY <2>1 DEF MailInv, MailShape
  <2>4. ASSUME NEW r \in Peer PROVE CallsOf(r)' /\ ReadsOf(r)'
    BY <2>1, <2>2 DEF MailInv, CallsOf, ReadsOf, Addressed
  <2> QED BY <2>2, <2>3, <2>4 DEF MailInv
<1> QED BY <1>1, <1>2

\* The inductive invariant of the mailbox: the table, the calls of the runs, and what each
\* attempt has fetched of the letters that agent_messages.py has marked delivered.
THEOREM MailInvariant == MailSpec => []MailInv
<1> QED BY MailStart, MailStep, PTL DEF MailSpec

\* A message that was delivered and is not acknowledged is before the model whenever it is
\* called, however many attempts were lost between its delivery and its saving
\* (agent_mailbox.py, deliver_agent_messages).
THEOREM MailIsSeen == MailSpec => []ModelSeesItsMail
<1>1. MailInv => ModelSeesItsMail
  BY DEF MailInv, ReadsOf, ModelSeesItsMail
<1> QED BY <1>1, MailInvariant, PTL

\* The messages of a conversation carry the numbers 1..n, and no more than the hop limit
\* allows, with any number of answers under way at once (_insert_agent_message_uncommitted).
THEOREM ConversationsStayDense == MailSpec => []ConversationsAreDense
<1>1. MailInv => ConversationsAreDense
  BY DEF MailInv, Numbered, Dense, ConversationsAreDense
<1> QED BY <1>1, MailInvariant, PTL

-----------------------------------------------------------------------------
(* The table stays within its bound.                                       *)

MailBounds ==
    /\ Len(mail) <= MaxPerRoot /\ losses \in 0..MaxLosses
    /\ \A r \in Peer : head[r] = "tools" => call[r].what # "none"

LEMMA SameLength ==
  ASSUME mail \in Seq(Letter), mail' \in Seq(Letter), Ids' = Ids
  PROVE  Len(mail') = Len(mail)
<1> DEFINE a == Len(mail)
           b == Len(mail')
<1>1. a \in Nat /\ b \in Nat /\ 1..a = 1..b
  BY DEF Ids
<1> HIDE DEF a, b
<1>2. a <= b
  <2>1. CASE a = 0
    BY <1>1, <2>1
  <2>2. CASE a # 0
    BY <1>1, <2>2
  <2> QED BY <2>1, <2>2
<1>3. b <= a
  <2>1. CASE b = 0
    BY <1>1, <2>1
  <2>2. CASE b # 0
    BY <1>1, <2>2
  <2> QED BY <2>1, <2>2
<1>4. a = b
  BY <1>1, <1>2, <1>3
<1> QED BY <1>4 DEF a, b

\* A row is inserted only while the table of the collaboration has room.
LEMMA TableBounds ==
  ASSUME MailInv, MailInv', Len(mail) <= MaxPerRoot, MailNext
  PROVE  Len(mail') <= MaxPerRoot
<1>1. mail \in Seq(Letter) /\ mail' \in Seq(Letter)
  BY DEF MailInv, MailShape
<1>2. PICK r \in Peer :
         \/ Lose(r) \/ Save(r) \/ AskStep(r) \/ EndRun(r) \/ Begin(r) \/ Return(r)
         \/ \E late : Deliver(r, late)
         \/ Send(r) \/ Reply(r) \/ Ack(r)
  BY DEF MailNext
<1>3. CASE Lose(r) \/ Save(r) \/ AskStep(r) \/ EndRun(r) \/ Begin(r) \/ Return(r)
  <2>1. mail' = mail
    BY <1>3 DEF Lose, Save, AskStep, AskSend, AskReply, AskAck, Calling, EndRun, Begin, Return
  <2> QED BY <2>1
<1>4. CASE \E late : Deliver(r, late)
  <2>1. Ids' = Ids
    BY <1>4 DEF Deliver, Ids
  <2> QED BY <1>1, <2>1, SameLength
<1>5. ASSUME NEW to \in Peer, NEW corr, NEW seq, Insert(r, to, corr, seq)
      PROVE  Len(mail') <= MaxPerRoot
  <2>1. CASE mail' = mail
    BY <2>1
  <2>2. CASE mail' # mail
    <3>1. PICK late, row : Len(mail) < MaxPerRoot /\ mail' = Append(Expired(late), row)
      BY <1>5, <2>2 DEF Insert, Refuse, Insertable
    <3>2. Expired(late) \in Seq(Letter) /\ Len(Expired(late)) = Len(mail)
      BY <1>1, ExpiredTable
    <3>3. Len(mail') = Len(mail) + 1
      BY <3>1, <3>2
    <3> QED BY <1>1, <3>1, <3>3, MailAssumption
  <2> QED BY <2>1, <2>2
<1>6. CASE Send(r)
  <2>1. call[r].to \in Peer
    BY <1>6 DEF Send, Underway, MailInv, CallsOf
  <2> QED BY <1>5, <1>6, <2>1 DEF Send
<1>7. CASE Reply(r)
  <2>1. mail' = mail \/ Insert(r, mail[call[r].arg].from, mail[call[r].arg].corr,
                               NextInConversation(call[r].arg))
    BY <1>7 DEF Reply, Refuse
  <2>2. mail[call[r].arg].from \in Peer
    <3>1. call[r].arg \in Ids
      BY <1>7 DEF Reply, Underway, MailInv, CallsOf
    <3>2. mail[call[r].arg] \in Letter
      BY <1>1, <3>1 DEF Ids
    <3> QED BY <3>2 DEF Letter
  <2> QED BY <1>5, <2>1, <2>2
<1>8. CASE Ack(r)
  <2>1. Ids' = Ids
    BY <1>8 DEF Ack, Ids
  <2> QED BY <1>1, <2>1, SameLength
<1> QED BY <1>2, <1>3, <1>4, <1>6, <1>7, <1>8

\* Every value the mailbox holds is one the code can hold: the table has MaxPerRoot rows at
\* most, whatever is sent, answered and repeated, and a run is between its model and its tools
\* node exactly while it has a tool call (agent_messages.py:440-470).
THEOREM MailTypesHold == MailSpec => []MailTypeOK
<1>1. MailInit => MailBounds
  BY MailAssumption DEF MailInit, MailBounds
<1>2. MailInv /\ MailBounds /\ MailInv' /\ [MailNext]_mailVars => MailBounds'
  <2> SUFFICES ASSUME MailInv, MailBounds, MailInv', [MailNext]_mailVars PROVE MailBounds'
    OBVIOUS
  <2>1. CASE UNCHANGED mailVars
    BY <2>1 DEF mailVars, MailBounds
  <2>2. CASE MailNext
    <3>1. Len(mail') <= MaxPerRoot
      BY <2>2, TableBounds DEF MailBounds
    <3>2. losses' \in 0..MaxLosses
      <4>1. losses' = losses \/ (losses < MaxLosses /\ losses' = losses + 1)
        BY <2>2 DEF MailNext, Lose, Save, AskStep, AskSend, AskReply, AskAck, Calling, EndRun,
           Begin, Return, Deliver, Send, Reply, Ack
      <4> QED BY <4>1, MailAssumption DEF MailBounds
    <3>3. ASSUME NEW r \in Peer, head'[r] = "tools" PROVE call'[r].what # "none"
      <4>1. PICK q \in Peer :
               \/ Lose(q) \/ Save(q) \/ AskStep(q) \/ EndRun(q) \/ Begin(q) \/ Return(q)
               \/ \E late : Deliver(q, late)
               \/ Send(q) \/ Reply(q) \/ Ack(q)
        BY <2>2 DEF MailNext
      <4>2. /\ head \in [Peer -> {"before", "model", "tools", "ended"}]
            /\ call \in [Peer -> ToolCall]
        BY DEF MailInv, MailShape
      <4>3. CASE Lose(q) \/ Begin(q) \/ Send(q) \/ Reply(q) \/ Ack(q) \/ \E late : Deliver(q, late)
        <5>0. head' = head
          BY <4>3 DEF Lose, Begin, Send, Reply, Ack, Deliver
        <5>1. \/ call' = call
              \/ \E to : call' = [call EXCEPT ![q].receipt = to]
              \/ \E made : Answer(q, made)
          <6>1. CASE Lose(q) \/ Begin(q) \/ \E late : Deliver(q, late)
            BY <6>1 DEF Lose, Begin, Deliver
          <6>2. CASE Send(q)
            BY <6>2 DEF Send, Insert, Refuse
          <6>3. CASE Reply(q)
            BY <6>3 DEF Reply, Insert, Refuse
          <6>4. CASE Ack(q)
            BY <6>4 DEF Ack
          <6> QED BY <4>3, <6>1, <6>2, <6>3, <6>4
        <5>2. call'[r].what = call[r].what
          BY <4>2, <5>1 DEF ToolCall, Answer
        <5>3. head[r] = "tools"
          BY <3>3, <5>0
        <5>4. call[r].what # "none"
          BY <5>3 DEF MailBounds
        <5> QED BY <5>2, <5>4
      <4>4. CASE Save(q) \/ EndRun(q) \/ Return(q)
        <5>1. q # r /\ head'[r] = head[r] /\ call'[r] = call[r]
          BY <3>3, <4>2, <4>4 DEF Save, EndRun, Return
        <5> QED BY <3>3, <5>1 DEF MailBounds
      <4>5. CASE AskStep(q)
        <5>1. PICK c \in ToolCall : c.what # "none" /\ Calling(q, c)
          <6>1. Ids \subseteq Nat
            BY DEF MailInv, MailShape, Ids
          <6>2. \A to \in Peer : [NoCall EXCEPT !.what = "send", !.to = to] \in ToolCall
            BY DEF NoCall, ToolCall
          <6>3. \A m \in Ids : /\ [NoCall EXCEPT !.what = "reply", !.arg = m] \in ToolCall
                               /\ [NoCall EXCEPT !.what = "ack", !.arg = m] \in ToolCall
            BY <6>1 DEF NoCall, ToolCall
          <6>4. CASE \E to \in Peer : AskSend(q, to)
            BY <6>2, <6>4 DEF AskSend, NoCall
          <6>5. CASE \E m \in Ids : AskReply(q, m)
            BY <6>3, <6>5 DEF AskReply, NoCall
          <6>6. CASE \E m \in Ids : AskAck(q, m)
            BY <6>3, <6>6 DEF AskAck, NoCall
          <6> QED BY <4>5, <6>4, <6>5, <6>6 DEF AskStep
        <5>2. /\ r = q => call'[r] = c
              /\ r # q => head'[r] = head[r] /\ call'[r] = call[r]
          BY <4>2, <5>1 DEF Calling
        <5> QED BY <3>3, <5>1, <5>2 DEF MailBounds
      <4> QED BY <4>1, <4>3, <4>4, <4>5
    <3> QED BY <3>1, <3>2, <3>3 DEF MailBounds
  <2> QED BY <2>1, <2>2
<1>3. MailInv /\ MailBounds => MailTypeOK
  <2> SUFFICES ASSUME MailInv, MailBounds PROVE MailTypeOK
    OBVIOUS
  <2>1. ASSUME NEW m \in Ids
        PROVE  mail[m] \in [from : Peer, to : Peer, corr : Ids, seq : Ids,
                            status : Open \cup {"acknowledged", "expired"}]
    <3>1. mail[m] \in Letter /\ mail[m].corr \in Ids
      BY DEF MailInv, MailShape, Numbered, Ids
    <3>2. mail[m].seq \in Ids
      <4> DEFINE c == mail[m].corr
                 k == Cardinality(Conversation(c))
      <4>1. mail[m].seq \in 1..k
        <5>1. Dense(c) /\ m \in Conversation(c)
          BY <3>1 DEF MailInv, Numbered, Conversation
        <5> QED BY <5>1 DEF Dense
      <4>2. k <= Len(mail) /\ k \in Nat /\ Len(mail) \in Nat /\ Ids = 1..Len(mail)
        <5>1. Ids = 1..Len(mail) /\ Len(mail) \in Nat
          BY DEF MailInv, MailShape, Ids
        <5>2. IsFiniteSet(Ids) /\ Cardinality(Ids) = Len(mail)
          <6>1. ASSUME NEW n \in Nat PROVE IsFiniteSet(1..n) /\ Cardinality(1..n) = n
            BY FS_Interval
          <6> QED BY <5>1, <6>1
        <5>3. Conversation(c) \subseteq Ids
          BY DEF Conversation
        <5>4. IsFiniteSet(Conversation(c)) /\ k <= Cardinality(Ids)
          BY <5>2, <5>3, FS_Subset
        <5>5. k \in Nat
          BY <5>4, FS_CardinalityType
        <5> QED BY <5>1, <5>2, <5>4, <5>5
      <4> HIDE DEF k
      <4> QED BY <4>1, <4>2
    <3> QED BY <3>1, <3>2 DEF Letter
  <2>2. ASSUME NEW r \in Peer
        PROVE  /\ shown[r] \subseteq Ids /\ fetched[r].ids \subseteq Ids
               /\ call[r].receipt \in {"none", "running", "answered", "unknown"}
               /\ (call[r].what # "none") <=> head[r] = "tools"
    BY DEF MailInv, MailShape, MailBounds, CallsOf, ToolCall
  <2> QED BY <2>1, <2>2 DEF MailTypeOK, MailInv, MailShape, MailBounds
<1> QED BY <1>1, <1>2, <1>3, MailInvariant, PTL DEF MailSpec
=============================================================================
