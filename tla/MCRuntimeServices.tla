-------------------------- MODULE MCRuntimeServices --------------------------
(***************************************************************************)
(* Small instances of the services around the run: its event stream, the    *)
(* coordination of its children, its model and tool loop, the mailbox, the  *)
(* schedules, the push outbox and the MCP catalogue.  They share no         *)
(* variable, so what holds of each by itself holds of all of them together, *)
(* and an interleaving of two shows nothing new.  A behaviour therefore     *)
(* moves one of them: focus.                                                *)
(***************************************************************************)
EXTENDS EventStream, ChildCoordination, AgentLoop, Mailbox, Schedules, PushOutbox,
        McpCatalog, TLC

CONSTANTS Focus, c1, c2, c3

VARIABLE focus

\* What a run's two or three children are admitted with; not all of them need to be spawned.
Required == [mode |-> "required", group |-> 0, need |-> 0]
BestEffort == [mode |-> "best_effort", group |-> 0, need |-> 0]
Quorum(n) == [mode |-> "quorum", group |-> 1, need |-> n]
Admit(p, q, r) == [c \in Child |-> CASE c = c1 -> p [] c = c2 -> q [] c = c3 -> r]
AllPolicies ==
    {Admit(Required, Required, BestEffort), Admit(BestEffort, Quorum(1), Quorum(1)),
     Admit(Required, Quorum(2), Quorum(2))}
TwoPolicies == {Admit(Required, BestEffort, BestEffort), Admit(Quorum(1), Quorum(1), Quorum(1))}

\* The rare things that do not meet in a behaviour of the instance: of an edit, a broken session
\* and a release cut short all three, or two and a third entry; a lost attempt and an expired
\* message, or a third one; a transient event and a reconnection; a second cancel and a third
\* child; a second restart and a pause.
TwoMishaps ==
    /\ edits + breaks + leaks <= 2
    /\ edits + breaks + leaks <= 1 \/ \A s \in Server : made[s] <= 2
LossOrExpiry == losses = 0 \/ (Len(mail) <= 2 /\ \A m \in Ids : mail[m].status # "expired")
TransientOrReconnect == transients = 0 \/ \A s \in Subscriber : connects[s] <= 1
CutsOrChildren == cuts <= 1 \/ \E c \in Child : kid[c] = "none"
RestartsOrPauses ==
    restarts <= 1 \/ \A s \in Schedule : \A n \in DOMAIN runs[s] : runs[s][n].pauses = 0
Apart == TwoMishaps /\ LossOrExpiry /\ TransientOrReconnect /\ CutsOrChildren /\ RestartsOrPauses

servicesVars == <<streamVars, coordVars, loopVars, mailVars, schedVars, pushVars, catalogVars, focus>>

ServicesInit ==
    /\ focus \in Focus
    /\ StreamInit /\ CoordInit /\ LoopInit /\ MailInit /\ SchedInit /\ PushInit /\ CatalogInit
    /\ focus # "coordination" => policy = CHOOSE p \in Policies : TRUE
    /\ focus # "loop" => limit = CHOOSE l \in Limits : TRUE
    /\ focus # "mcp" => \A s \in Server : declared[s] = 0

ServicesNext ==
    /\ UNCHANGED focus
    /\ \/ /\ focus = "stream" /\ StreamNext
          /\ UNCHANGED <<coordVars, loopVars, mailVars, schedVars, pushVars, catalogVars>>
       \/ /\ focus = "coordination" /\ CoordNext
          /\ UNCHANGED <<streamVars, loopVars, mailVars, schedVars, pushVars, catalogVars>>
       \/ /\ focus = "loop" /\ LoopNext
          /\ UNCHANGED <<streamVars, coordVars, mailVars, schedVars, pushVars, catalogVars>>
       \/ /\ focus = "mail" /\ MailNext
          /\ UNCHANGED <<streamVars, coordVars, loopVars, schedVars, pushVars, catalogVars>>
       \/ /\ focus = "schedule" /\ SchedNext
          /\ UNCHANGED <<streamVars, coordVars, loopVars, mailVars, pushVars, catalogVars>>
       \/ /\ focus = "push" /\ PushNext
          /\ UNCHANGED <<streamVars, coordVars, loopVars, mailVars, schedVars, catalogVars>>
       \/ /\ focus = "mcp" /\ CatalogNext
          /\ UNCHANGED <<streamVars, coordVars, loopVars, mailVars, schedVars, pushVars>>

ServicesSafe == ServicesInit /\ [][ServicesNext]_servicesVars

\* Each service is scheduled as its module says.  In its initial state a service has no fair
\* step to take, so those out of focus may stand still.
ServicesSpec ==
    ServicesSafe /\ StreamFairness /\ CoordFairness /\ SchedFairness /\ PushFairness

\* Every value is one the code can hold, in each service.
ServicesTypeOK ==
    StreamTypeOK /\ CoordTypeOK /\ LoopTypeOK /\ MailTypeOK /\ SchedTypeOK /\ PushTypeOK
    /\ CatalogTypeOK
=============================================================================
