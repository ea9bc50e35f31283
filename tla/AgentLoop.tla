------------------------------ MODULE AgentLoop ------------------------------
(***************************************************************************)
(* The model and tool loop of one run: the durable ledger of its model      *)
(* calls (llm/ledger.py, store/model_calls.py), the budget that makes it    *)
(* converge (middleware/budget_control.py), the synchronous subagents that  *)
(* draw on the same budget, and the router that accepts a final answer or   *)
(* asks the model to repair it (middleware/completion_*.py).  What a model  *)
(* produces is a free choice.  Reviews and titles have budgets of their own *)
(* and are left out.                                                       *)
(***************************************************************************)
EXTENDS Naturals, FiniteSets, FiniteSetsExt

CONSTANTS
    Root, Sub,      \* the agent of the run, the subagents it may start
    Limits,         \* the values of max_model_calls a run may be admitted with
    SoftCalls,      \* SIMPLE_MODEL_CALL_LIMIT, COMPLEX_MODEL_CALL_SOFT_LIMIT
    FinalTurns,     \* final_model_call_reserve
    Retries,        \* MODEL_RETRY_ATTEMPTS
    SubTurns,       \* SUBAGENT_MODEL_CALL_LIMIT
    MaxParallel     \* max_concurrent_subagent_tasks

ASSUME LoopAssumption ==
    /\ Root \notin Sub /\ IsFiniteSet(Sub)
    /\ Limits \subseteq Nat \ {0} /\ SoftCalls \in Nat /\ FinalTurns \in Nat \ {0}
    /\ Retries \in Nat /\ SubTurns \in Nat /\ MaxParallel \in Nat

VARIABLES
    limit,      \* max_model_calls, frozen with the run
    used,       \* rows of local_model_calls, which are never given back
    turn,       \* of an agent: its current turn
    route,      \* the reason in the state's completion_route
    repaired,   \* the counters of repairs that have a state of their own
    finals      \* converging turns the root has begun

loopVars == <<limit, used, turn, route, repaired, finals>>
routerVars == <<route, repaired>>

Agent == {Root} \cup Sub
NoTurn == [pc |-> "off", mode |-> "normal", try |-> 0, row |-> "none", seen |-> FALSE,
           base |-> 0, turns |-> 0]
TurnAt(a, pcs) == turn[a].pc \in pcs

LoopInit ==
    /\ limit \in Limits
    /\ used = 0
    /\ turn = [a \in Agent |-> IF a = Root THEN [NoTurn EXCEPT !.pc = "idle"] ELSE NoTurn]
    /\ route = "none" /\ repaired = {}
    /\ finals = 0

-----------------------------------------------------------------------------
(* The budget.                                                             *)

\* finalization_attempt_reserve.
Reserve == Min({FinalTurns * (Retries + 1), IF limit = 1 THEN 1 ELSE limit - 1})

\* _agent_soft_model_call_limit.
SoftLimit == Min({limit, SoftCalls})

\* MUTANT of CallLimit: subagents draw on the whole budget.
CallLimitForAll(a) == limit

\* max_calls: the proxy of the subagents leaves the reserve alone.
CallLimit(a) == IF a = Root THEN limit ELSE Max({1, limit - Reserve})

\* A subagent converges one call earlier.
ForceThreshold(a) ==
    LET lead == IF a = Root THEN 0 ELSE 1
    IN IF limit - Reserve >= lead THEN limit - Reserve - lead ELSE 0

\* _budget_decision: repeated is that a read-only call was made three times.
Decide(a, repeated) ==
    CASE used >= ForceThreshold(a) \/ repeated -> "converge"
      [] ~(used >= ForceThreshold(a) \/ repeated)
            /\ (used >= SoftLimit \/ used + 1 >= ForceThreshold(a)) -> "delegate_closed"
      [] OTHER -> "normal"

\* before_model: the budget is read here and used by this turn's calls and tools.
BeginTurn(a, repeated) ==
    /\ TurnAt(a, {"idle"})
    /\ a \in Sub => turn[a].turns < SubTurns
    /\ turn' = [turn EXCEPT ![a].pc = "reserve", ![a].mode = Decide(a, repeated),
                            ![a].base = used, ![a].try = 0, ![a].seen = FALSE,
                            ![a].turns = IF a = Root THEN 0 ELSE @ + 1]
    /\ finals' = IF a = Root /\ turn'[a].mode = "converge"
                 THEN Min({finals + 1, FinalTurns + 1}) ELSE finals
    /\ UNCHANGED <<used, routerVars>>

End(a) == turn' = [turn EXCEPT ![a] = [NoTurn EXCEPT !.pc = "ended"]]

\* A repeated deterministic tool failure, or a subagent at its limit of turns.
StopBefore(a) ==
    /\ TurnAt(a, {"idle"})
    /\ End(a)
    /\ UNCHANGED <<used, routerVars, finals>>

-----------------------------------------------------------------------------
(* One provider attempt: LedgerChatModel._astream.                          *)

\* reserve_model_call: the rows are counted and the new one inserted at once.
ReserveCall(a) ==
    /\ TurnAt(a, {"reserve"})
    /\ used + 1 <= CallLimit(a)
    /\ used' = used + 1
    /\ turn' = [turn EXCEPT ![a].pc = "call", ![a].row = "reserved"]
    /\ UNCHANGED <<routerVars, finals>>

\* ModelCallBudgetExceeded ends the run; of a subagent it ends the tool.
RefuseCall(a) ==
    /\ TurnAt(a, {"reserve"})
    /\ used + 1 > CallLimit(a)
    /\ IF a = Root THEN turn' = [turn EXCEPT ![a].pc = "refused"] ELSE End(a)
    /\ UNCHANGED <<used, routerVars, finals>>

\* mark_model_call_output, and then the chunk goes to the reader.
MarkOutput(a) ==
    /\ TurnAt(a, {"call"}) /\ turn[a].row = "reserved"
    /\ turn' = [turn EXCEPT ![a].row = "streaming"]
    /\ UNCHANGED <<used, routerVars, finals>>
ShowOutput(a) ==
    /\ TurnAt(a, {"call"}) /\ turn[a].row = "streaming"
    /\ turn' = [turn EXCEPT ![a].seen = TRUE]
    /\ UNCHANGED <<used, routerVars, finals>>

\* settle_model_call.
SettleCall(a) ==
    /\ TurnAt(a, {"call"})
    /\ turn' = [turn EXCEPT ![a].pc = "judge", ![a].row = "none", ![a].seen = FALSE]
    /\ UNCHANGED <<used, routerVars, finals>>

\* A timeout, a broken connection or a cancel may have been served by the provider.
Fault == {"transient", "fatal", "lost"}

\* MUTANT of RetriesCall: a lost connection is a transient error.
RetriesLost(a, fault) ==
    fault \in {"transient", "lost"} /\ turn[a].row # "streaming" /\ turn[a].try < Retries

\* _model_retry_decision.
RetriesCall(a, fault) ==
    fault = "transient" /\ turn[a].row # "streaming" /\ turn[a].try < Retries

\* fail_model_call, and the retry of an attempt that nobody can have seen.
FailCall(a, fault) ==
    /\ TurnAt(a, {"call"})
    /\ IF RetriesCall(a, fault)
       THEN turn' = [turn EXCEPT ![a].pc = "reserve", ![a].row = "none", ![a].try = @ + 1,
                                 ![a].seen = @ \/ fault = "lost"]
       ELSE End(a)
    /\ UNCHANGED <<used, routerVars, finals>>

-----------------------------------------------------------------------------
(* Tools and subagents.                                                    *)

\* Neither a tool in a converging turn nor a delegation in a closing one.
ToolTurn ==
    /\ TurnAt(Root, {"judge"}) /\ turn[Root].mode # "converge"
    /\ turn' = [turn EXCEPT ![Root].pc = "idle"]
    /\ UNCHANGED <<used, routerVars, finals>>

\* _blocked_tool_result: how many members of a batch the guard lets start.
Capacity ==
    LET lent == limit - Reserve
    IN Min({MaxParallel, IF lent > turn[Root].base + 1 THEN lent - turn[Root].base - 1 ELSE 0})

Delegate(subs) ==
    /\ TurnAt(Root, {"judge"}) /\ turn[Root].mode = "normal"
    /\ subs # {} /\ Cardinality(subs) <= Capacity
    /\ turn' = [a \in Agent |-> IF a \in subs THEN [NoTurn EXCEPT !.pc = "idle"]
                                ELSE IF a = Root THEN [turn[Root] EXCEPT !.pc = "delegated"]
                                ELSE NoTurn]
    /\ UNCHANGED <<used, routerVars, finals>>

\* A subagent's tools, answer and errors; the blocked tools of a converging one too.
SubTurn(a) ==
    /\ TurnAt(a, {"judge"}) /\ a \in Sub
    /\ turn' = [turn EXCEPT ![a].pc = "idle"] \/ End(a)
    /\ UNCHANGED <<used, routerVars, finals>>

Joined ==
    /\ TurnAt(Root, {"delegated"})
    /\ \A a \in Sub : TurnAt(a, {"off", "ended"})
    /\ turn' = [a \in Agent |-> IF a = Root THEN [turn[Root] EXCEPT !.pc = "idle"] ELSE NoTurn]
    /\ UNCHANGED <<used, routerVars, finals>>

-----------------------------------------------------------------------------
(* CompletionRouterMiddleware.                                              *)

\* A request that the model asks its question with the tool, calls a tool the user
\* named, keeps its plan, verifies, answers what was asked, or does not ask what it
\* knows.  The last four are counted in state of their own, the others by the route.
Counted == {"plan", "verify", "review", "clarify"}
Reason == Counted \cup {"prose", "required_tool", "budget_tool"}

\* attempts >= max: _route_attempts_for_run looks at the last route only.
Spent(r) == IF r \in Counted THEN r \in repaired ELSE route = r

\* jump_to model.
Repair(r) ==
    /\ ~Spent(r)
    /\ route' = r
    /\ repaired' = repaired \cup ({r} \cap Counted)
    /\ turn' = [turn EXCEPT ![Root].pc = "idle"]
    /\ UNCHANGED <<used, finals>>

Converging == turn[Root].mode = "converge"

\* A tool call while converging, a plan that the calls do not keep, a needless question.
RepairTools ==
    /\ TurnAt(Root, {"judge"})
    /\ \E r \in IF Converging THEN {"budget_tool"} ELSE {"plan", "clarify"} : Repair(r)

\* A candidate that fails a check; in a converging turn only a reviewer asks again.
RepairCandidate ==
    /\ TurnAt(Root, {"judge"})
    /\ \E r \in IF Converging THEN {"review"}
                ELSE {"prose", "plan", "required_tool", "verify", "review"} : Repair(r)

\* Accepted, or blocked, or a response that cannot be used.
Accept ==
    /\ TurnAt(Root, {"judge"})
    /\ End(Root)
    /\ UNCHANGED <<used, routerVars, finals>>

-----------------------------------------------------------------------------
\* The attempt is cancelled: active calls become outcome_unknown.
CancelLoop ==
    /\ ~TurnAt(Root, {"ended", "refused"})
    /\ turn' = [a \in Agent |-> [NoTurn EXCEPT !.pc = "ended"]]
    /\ UNCHANGED <<used, routerVars, finals>>

CallStep(a) ==
    \/ ReserveCall(a) \/ RefuseCall(a) \/ MarkOutput(a) \/ ShowOutput(a) \/ SettleCall(a)
    \/ \E fault \in Fault : FailCall(a, fault)

LoopNext ==
    /\ UNCHANGED limit
    /\ \/ \E a \in Agent :
             \/ StopBefore(a) \/ CallStep(a) \/ SubTurn(a)
             \/ \E repeated \in BOOLEAN : BeginTurn(a, repeated)
       \/ ToolTurn \/ Joined \/ RepairTools \/ RepairCandidate \/ Accept \/ CancelLoop
       \/ \E subs \in SUBSET Sub : Delegate(subs)

LoopSpec == LoopInit /\ [][LoopNext]_loopVars

-----------------------------------------------------------------------------
(* Properties.                                                             *)

LoopTypeOK ==
    /\ limit \in Limits /\ used \in 0..limit /\ finals \in 0..(FinalTurns + 1)
    /\ turn \in [Agent -> [pc : {"off", "idle", "reserve", "call", "judge", "delegated",
                                 "ended", "refused"},
                           mode : {"normal", "delegate_closed", "converge"},
                           try : 0..Retries, row : {"none", "reserved", "streaming"},
                           seen : BOOLEAN, base : Nat, turns : 0..SubTurns]]
    /\ route \in Reason \cup {"none"} /\ repaired \subseteq Counted

\* Whatever the last ordinary turn and the subagents have drawn, the first turn in which
\* the model must answer has all of the reserve but the Retries calls that turn may have
\* overrun it by (budget_control.py:24-28, model_runtime.py:328-334).  A reserve of more
\* than 2 * Retries is enough for its call with every retry; at the smallest limits
\* (config.py:16 admits 1) it is less, and the answer itself may be refused.
FinalAnswerFits ==
    TurnAt(Root, {"refused"}) => finals > 1 \/ turn[Root].try + Retries >= Reserve

\* No attempt is made again after its output was shown, or when the provider may have
\* carried it out (ledger.py:328-355, 568-576).
RetriesAreSilent ==
    \A a \in Agent : turn[a].seen => turn[a].row # "reserved" /\ ~TurnAt(a, {"reserve"})
=============================================================================
