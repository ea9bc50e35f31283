------------------------ MODULE RuntimeServicesProofs ------------------------
(***************************************************************************)
(* The services of one Runtime do beside the others what each does by       *)
(* itself, so what their own theorems say holds of all of them together.    *)
(***************************************************************************)
EXTENDS MCRuntimeServices, EventStreamProofs, ChildCoordinationProofs, AgentProofs,
        DurableServicesProofs, McpCatalogProofs

\* A step of the Runtime is, for each of its services, a step of that service or none.
LEMMA ServicesStepApart ==
  ASSUME [ServicesNext]_servicesVars
  PROVE  /\ [StreamNext]_streamVars /\ [CoordNext]_coordVars /\ [LoopNext]_loopVars
         /\ [MailNext]_mailVars /\ [SchedNext]_schedVars /\ [PushNext]_pushVars
         /\ [CatalogNext]_catalogVars
<1>1. CASE ServicesNext
  BY <1>1 DEF ServicesNext
<1>2. CASE UNCHANGED servicesVars
  BY <1>2 DEF servicesVars
<1> QED BY <1>1, <1>2

\* The Runtime implements each of its services: none is disturbed by what another does
\* (the tables and the tasks of a service are its own).
THEOREM ServicesKeepApart ==
  ServicesSafe => /\ StreamSpec /\ CoordSpec /\ LoopSpec /\ MailSpec /\ SchedSpec /\ PushSpec
                  /\ CatalogSpec
<1>1. ServicesInit => /\ StreamInit /\ CoordInit /\ LoopInit /\ MailInit /\ SchedInit /\ PushInit
                      /\ CatalogInit
  BY DEF ServicesInit
<1>2. [ServicesNext]_servicesVars =>
         /\ [StreamNext]_streamVars /\ [CoordNext]_coordVars /\ [LoopNext]_loopVars
         /\ [MailNext]_mailVars /\ [SchedNext]_schedVars /\ [PushNext]_pushVars
         /\ [CatalogNext]_catalogVars
  BY ServicesStepApart
<1> QED BY <1>1, <1>2, PTL DEF ServicesSafe, StreamSpec, CoordSpec, LoopSpec, MailSpec, SchedSpec,
   PushSpec, CatalogSpec

\* Every value the services hold is one the code can hold, whatever the others do meanwhile.
THEOREM ServicesTypesHold == ServicesSafe => []ServicesTypeOK
<1>1. LoopBase => LoopTypeOK
  BY DEF LoopBase
<1>2. CatalogInv => CatalogTypeOK
  BY DEF CatalogInv
<1>3. StreamTypeOK /\ CoordTypeOK /\ LoopTypeOK /\ MailTypeOK /\ SchedTypeOK /\ PushTypeOK
      /\ CatalogTypeOK => ServicesTypeOK
  BY DEF ServicesTypeOK
<1> QED BY <1>1, <1>2, <1>3, ServicesKeepApart, StreamTypesHold, CoordTypesHold, LoopTypesHold,
   MailTypesHold, SchedTypesHold, PushTypesHold, CatalogInvariant, PTL

===============================================================================
