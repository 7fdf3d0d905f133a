--------------------------- MODULE TurnSetupProofs ---------------------------
(***************************************************************************)
(* Proofs about TurnSetup, for every number of requests, accounts, session *)
(* ids, contacts, tools and faults: whose session and contact a ready turn *)
(* has, which tools, what a retry recovers; that no setup is stuck or goes *)
(* round; and that its connection does what SetupConnection promises.      *)
(***************************************************************************)
EXTENDS TurnSetup, TLAPS

USE DEF scopeVars, pipelineVars, toolVars, faultVars, sharedVars, Stages, Ends

-------------------------------------------------------------------------------
(* Types. *)

PipelineOK ==
  /\ req \in [Requests -> RequestSpace]
  /\ stage \in [Requests -> Stages]
  /\ end \in [Requests -> Ends \cup {"none"}]
  /\ attempt \in [Requests -> {1, 2}]

ScopeOK ==
  /\ orm \in [Requests -> {"none", "loaded", "detached"}]
  /\ contact \in [Requests -> Contacts \cup {None}]
  /\ backing \in [Requests -> {"none", "stored", "deleted"}]

QueryOK ==
  /\ tx \in [Requests -> {"none", "held", "broken"}]
  /\ struck \in [Requests -> SUBSET FaultRecords]
  /\ faults \in 0 .. MaxFaults

ToolsOK ==
  /\ todo \in [Requests -> SUBSET Tools]
  /\ threads \in [Requests -> SUBSET Tools]
  /\ allowed \in [Requests -> SUBSET Tools]
  /\ built \in [Requests -> SUBSET Tools]
  /\ misfit \in [Requests -> SUBSET Tools]

SharedOK ==
  /\ sessions \in [Uuids -> SessionRows \cup {None}]
  /\ deleted \in SUBSET Contacts
  /\ drops \in 0 .. MaxDrops

LEMMA TypeParts == TypeOK <=> PipelineOK /\ ScopeOK /\ QueryOK /\ ToolsOK /\ SharedOK
  BY DEF TypeOK, PipelineOK, ScopeOK, QueryOK, ToolsOK, SharedOK

LEMMA RequestTyped ==
  ASSUME PipelineOK, NEW r \in Requests
  PROVE  /\ req[r].account \in Accounts
         /\ req[r].uuid \in Uuids
         /\ req[r].tools \in SUBSET Tools
  BY DEF PipelineOK, RequestSpace

LEMMA FaultTyped ==
  ASSUME PipelineOK, QueryOK, NEW r \in Requests, NEW kind \in {"transient", "other"},
         NEW left, Fault(r, kind, left)
  PROVE  /\ struck' \in [Requests -> SUBSET FaultRecords]
         /\ faults' \in 0 .. MaxFaults
  <1> DEFINE f == [stage |-> stage[r], attempt |-> attempt[r], kind |-> kind]
  <1>1. f \in FaultRecords
    BY DEF PipelineOK, FaultRecords
  <1>2. struck' = [struck EXCEPT ![r] = @ \cup {f}]
    BY DEF Fault
  <1>3. struck' \in [Requests -> SUBSET FaultRecords]
    BY <1>1, <1>2 DEF QueryOK
  <1>4. faults' \in 0 .. MaxFaults
    BY SetupAssumption DEF Fault, QueryOK
  <1> QED
    BY <1>3, <1>4

\* A query leaves the session and the fault count well typed, answered or not.
LEMMA QueryTyped ==
  ASSUME PipelineOK, QueryOK, NEW r \in Requests
  PROVE  /\ Answered(r) => QueryOK'
         /\ Raises(r) => QueryOK'
         /\ Unusable(r) => QueryOK'
         /\ \A kind \in {"transient", "other"}, left \in {"none", "broken"} :
              /\ Fault(r, kind, left) /\ Released(r) => QueryOK'
              /\ Fault(r, kind, left) /\ tx' = [tx EXCEPT ![r] = left] => QueryOK'
  <1>1. Answered(r) => QueryOK'
    BY DEF Answered, QueryOK
  <1>2. Unusable(r) => QueryOK'
    BY DEF Unusable, QueryOK
  <1>3. ASSUME NEW kind \in {"transient", "other"}, NEW left \in {"none", "broken"},
               Fault(r, kind, left)
        PROVE  /\ Released(r) => QueryOK'
               /\ tx' = [tx EXCEPT ![r] = left] => QueryOK'
    BY <1>3, FaultTyped DEF Released, QueryOK
  <1>4. Raises(r) => QueryOK'
    BY <1>2, <1>3 DEF Raises
  <1> QED
    BY <1>1, <1>2, <1>3, <1>4

LEMMA MoveTyped ==
  ASSUME PipelineOK, NEW r \in Requests
  PROVE  /\ \A s \in Stages : MoveTo(r, s) => PipelineOK'
         /\ \A how \in Ends : EndsAs(r, how) => PipelineOK'
  BY DEF PipelineOK, MoveTo, EndsAs

LEMMA RowTyped ==
  ASSUME SharedOK, NEW u \in Uuids
  PROVE  /\ sessions[u] = None \/ sessions[u] \in SessionRows
         /\ sessions[u] \in SessionRows => sessions[u].contact \in Contacts \cup {None}
  BY DEF SharedOK, SessionRows

LEMMA InsertTyped ==
  ASSUME PipelineOK, SharedOK, NEW r \in Requests, Inserts(r), UNCHANGED <<deleted, drops>>
  PROVE  SharedOK'
  <1>1. [account |-> req[r].account, contact |-> None] \in SessionRows
    BY RequestTyped DEF SessionRows
  <1> QED
    BY <1>1 DEF Inserts, SharedOK

LEMMA OwnRowTyped ==
  ASSUME PipelineOK, SharedOK, NEW r \in Requests, OwnRow(r)
  PROVE  sessions[req[r].uuid].contact \in Contacts \cup {None}
  <1>1. req[r].uuid \in Uuids
    BY RequestTyped
  <1>2. sessions[req[r].uuid] \in SessionRows
    BY <1>1, RowTyped DEF OwnRow
  <1> QED
    BY <1>2 DEF SessionRows

LEMMA PermittedSubset ==
  ASSUME NEW S \in SUBSET Tools, NEW granted PROVE Permitted(S, granted) \in SUBSET S
  BY DEF Permitted

-------------------------------------------------------------------------------
(* The strengthened invariant. *)

\* From the creation or the lookup on, the request has a session, and while it is stored
\* it is the request's own.
Bounded == {"refresh", "gate", "history", "entitlement", "tools", "attachment"}

SessionBound == \A r \in Requests : backing[r] = "stored" => OwnRow(r)

LEMMA SetupTypes == ASSUME NEW r \in Requests, TypeOK, SessionBound
                    PROVE  Pipeline(r) => TypeOK'
  <1> SUFFICES ASSUME Pipeline(r) PROVE TypeOK'
    OBVIOUS
  <1>a. PipelineOK /\ ScopeOK /\ QueryOK /\ ToolsOK /\ SharedOK
    BY TypeParts
  <1>b. /\ \A s \in Stages : MoveTo(r, s) => PipelineOK'
        /\ \A how \in Ends : EndsAs(r, how) => PipelineOK'
    BY <1>a, MoveTyped
  <1>c. /\ Answered(r) => QueryOK'
        /\ Raises(r) => QueryOK'
        /\ Unusable(r) => QueryOK'
        /\ \A kind \in {"transient", "other"}, left \in {"none", "broken"} :
             /\ Fault(r, kind, left) /\ Released(r) => QueryOK'
             /\ Fault(r, kind, left) /\ tx' = [tx EXCEPT ![r] = left] => QueryOK'
    BY <1>a, QueryTyped
  <1>d. SUFFICES PipelineOK' /\ ScopeOK' /\ QueryOK' /\ ToolsOK' /\ SharedOK'
    BY DEF TypeOK, PipelineOK, ScopeOK, QueryOK, ToolsOK, SharedOK
  <1> USE <1>a, <1>b, <1>c DEF At
  <1>1. CASE LoadAgent(r)
    BY <1>1 DEF LoadAgent, ScopeOK, ToolsOK, SharedOK
  <1>2. CASE ResolveOrgScope(r)
    BY <1>2 DEF ResolveOrgScope, ScopeOK, ToolsOK, SharedOK
  <1>3. CASE LoadCredential(r)
    BY <1>3 DEF LoadCredential, ScopeOK, ToolsOK, SharedOK, QueryOK
  <1>3a. CASE CreateLlm(r)
    BY <1>3a DEF CreateLlm, ScopeOK, ToolsOK, SharedOK, QueryOK
  <1>4. CASE LoadSession(r)
    <2>1. OwnRow(r) => sessions[req[r].uuid].contact \in Contacts \cup {None}
      BY OwnRowTyped
    <2> QED
      BY <1>4, <2>1 DEF LoadSession, ScopeOK, ToolsOK, SharedOK
  <1>5. CASE CreateSession(r)
    BY <1>5, InsertTyped DEF CreateSession, ScopeOK, ToolsOK, QueryOK, Released
  <1>6. CASE CreateConflicts(r)
    BY <1>6 DEF CreateConflicts, ScopeOK, ToolsOK, SharedOK, QueryOK, Released
  <1>7. CASE CreateFails(r)
    <2>1. SharedOK'
      BY <1>7, InsertTyped DEF CreateFails, SharedOK
    <2> QED
      BY <1>7, <2>1 DEF CreateFails, ScopeOK, ToolsOK
  <1>8. CASE RefreshSession(r)
    <2>1. backing[r] = "stored"
      BY <1>8 DEF RefreshSession
    <2>2. sessions[req[r].uuid].contact \in Contacts \cup {None}
      BY <2>1, OwnRowTyped DEF SessionBound
    <2> QED
      BY <1>8, <2>2 DEF RefreshSession, ScopeOK, ToolsOK, SharedOK
  <1>9. CASE RefreshFails(r)
    BY <1>9 DEF RefreshFails, ScopeOK, ToolsOK, SharedOK
  <1>9a. CASE RefreshFindsNothing(r)
    BY <1>9a DEF RefreshFindsNothing, ScopeOK, ToolsOK, SharedOK, QueryOK, Released
  <1>10. CASE ContactGate(r)
    BY <1>10 DEF ContactGate, ScopeOK, ToolsOK, SharedOK, QueryOK
  <1>11. CASE LoadHistory(r)
    BY <1>11 DEF LoadHistory, ScopeOK, ToolsOK, SharedOK
  <1>12. CASE HistoryDetached(r)
    BY <1>12 DEF HistoryDetached, ScopeOK, ToolsOK, SharedOK, QueryOK
  <1>13. CASE RetriedQueryFails(r)
    <2>1. CASE db_retry_once(r)
      BY <2>1 DEF db_retry_once, Detached, PipelineOK, ScopeOK, ToolsOK, SharedOK
    <2>2. CASE RetryGivesUp(r)
      BY <2>2 DEF RetryGivesUp, ScopeOK, ToolsOK, SharedOK
    <2> QED
      BY <1>13, <2>1, <2>2 DEF RetriedQueryFails
  <1>14. CASE CheckEntitlement(r)
    <2>1. \A granted : Permitted(req[r].tools, granted) \in SUBSET Tools
      BY PermittedSubset, RequestTyped
    <2> QED
      BY <1>14, <2>1 DEF CheckEntitlement, ScopeOK, ToolsOK, SharedOK
  <1>15. CASE EntitlementRaises(r)
    BY <1>15 DEF EntitlementRaises, ScopeOK, ToolsOK, SharedOK
  <1>16. CASE \E t \in Tools : BuildContactTool(r, t) \/ BuildMisconfigured(r, t)
    BY <1>16 DEF BuildContactTool, BuildMisconfigured, BuilderRuns, PipelineOK, ScopeOK,
                 ToolsOK, SharedOK, QueryOK
  <1>17. CASE \E t \in Tools : BuildWithCredential(r, t)
    BY <1>17 DEF BuildWithCredential, BuilderRuns, PipelineOK, ScopeOK, ToolsOK, SharedOK
  <1>18. CASE \E t \in Tools : BuilderRaises(r, t)
    BY <1>18 DEF BuilderRaises, BuilderRuns, PipelineOK, ScopeOK, ToolsOK, SharedOK
  <1>19. CASE \E t \in Tools : CatalogueFails(r, t)
    BY <1>19 DEF CatalogueFails, BuilderRuns, PipelineOK, ScopeOK, ToolsOK, SharedOK
  <1>20. CASE \E t \in Tools : ThreadEnds(r, t)
    BY <1>20 DEF ThreadEnds, PipelineOK, ScopeOK, ToolsOK, SharedOK, QueryOK
  <1>21. CASE ToolsGathered(r)
    BY <1>21 DEF ToolsGathered, ScopeOK, ToolsOK, SharedOK, QueryOK
  <1>22. CASE FinishSetup(r)
    BY <1>22 DEF FinishSetup, Detached, Released, ScopeOK, ToolsOK, SharedOK, QueryOK
  <1>23. CASE AttachmentRaises(r)
    BY <1>23 DEF AttachmentRaises, ScopeOK, ToolsOK, SharedOK, QueryOK
  <1> QED
    BY <1>1, <1>2, <1>3, <1>3a, <1>4, <1>5, <1>6, <1>7, <1>8, <1>9, <1>9a, <1>10, <1>11, <1>12, <1>13,
       <1>14, <1>15, <1>16, <1>17, <1>18, <1>19, <1>20, <1>21, <1>22, <1>23 DEF Pipeline

LEMMA EnvironmentTypes ==
  ASSUME TypeOK
  PROVE  /\ Environment => TypeOK'
         /\ \A r \in Requests : SessionCollected(r) => TypeOK'
  <1>a. PipelineOK /\ ScopeOK /\ QueryOK /\ ToolsOK /\ SharedOK
    BY TypeParts
  <1>b. PipelineOK' /\ ScopeOK' /\ QueryOK' /\ ToolsOK' /\ SharedOK' => TypeOK'
    BY DEF TypeOK, PipelineOK, ScopeOK, QueryOK, ToolsOK, SharedOK
  <1>c. \A r \in Requests, how \in Ends : EndsAs(r, how) => PipelineOK'
    BY <1>a, MoveTyped
  <1>1. ASSUME NEW r \in Requests, Cancelled(r) \/ InstanceStops(r)
        PROVE  TypeOK'
    BY <1>1, <1>a, <1>b, <1>c
       DEF Cancelled, InstanceStops, Released, ScopeOK, QueryOK, ToolsOK, SharedOK
  <1>2. ASSUME NEW r \in Requests, SessionCollected(r)
        PROVE  TypeOK'
    BY <1>2, <1>a, <1>b
       DEF SessionCollected, Released, PipelineOK, ScopeOK, QueryOK, ToolsOK, SharedOK
  <1>3. ASSUME NEW u \in Uuids, NEW row \in SessionRows, ServiceCreatesSession(u, row)
        PROVE  TypeOK'
    BY <1>3, <1>a, <1>b
       DEF ServiceCreatesSession, PipelineOK, ScopeOK, QueryOK, ToolsOK, SharedOK
  <1>4. ASSUME NEW c \in Contacts, ContactDeleted(c)
        PROVE  TypeOK'
    <2>1. ASSUME NEW u \in Uuids, sessions[u] # None
          PROVE  [sessions[u] EXCEPT !.contact = None] \in SessionRows
      BY <2>1, <1>a, RowTyped DEF SessionRows
    <2>2. SharedOK'
      BY <1>4, <2>1, <1>a DEF ContactDeleted, SharedOK
    <2> QED
      BY <1>4, <2>2, <1>a, <1>b DEF ContactDeleted, PipelineOK, ScopeOK, QueryOK, ToolsOK
  <1>5. ASSUME NEW S \in SUBSET Uuids, SessionsDropped(S)
        PROVE  TypeOK'
    <2>1. drops' \in 0 .. MaxDrops
      BY <1>5, <1>a, SetupAssumption DEF SessionsDropped, SharedOK
    <2>2. SharedOK'
      BY <1>5, <2>1, <1>a DEF SessionsDropped, SharedOK
    <2>3. ScopeOK'
      BY <1>5, <1>a DEF SessionsDropped, ScopeOK
    <2> QED
      BY <1>5, <2>2, <2>3, <1>a, <1>b DEF SessionsDropped, PipelineOK, QueryOK, ToolsOK
  <1> QED
    BY <1>1, <1>2, <1>3, <1>4, <1>5 DEF Environment

-------------------------------------------------------------------------------
(* What a step leaves alone. *)

\* A session row stays, with its account, and is rebound only when its contact is deleted.
RowKept(u) ==
  sessions[u] # None =>
    /\ sessions'[u] # None
    /\ sessions'[u].account = sessions[u].account
    /\ sessions'[u].contact # sessions[u].contact =>
         sessions'[u].contact = None /\ sessions[u].contact \in deleted'

\* No step takes a session row away, gives it to another account or rebinds it.
RowsKept == \A u \in Uuids : RowKept(u)

\* The part of the state that belongs to request q.
Same(q) ==
  /\ stage'[q] = stage[q]
  /\ end'[q] = end[q]
  /\ contact'[q] = contact[q]
  /\ backing'[q] = backing[q]
  /\ struck'[q] = struck[q]
  /\ tx'[q] = tx[q]

SameTools(q) ==
  /\ todo'[q] = todo[q]
  /\ threads'[q] = threads[q]
  /\ allowed'[q] = allowed[q]
  /\ built'[q] = built[q]
  /\ misfit'[q] = misfit[q]

\* The steps that build the tools of r.
Builds(r) ==
  \E t \in Tools :
    BuildContactTool(r, t) \/ BuildMisconfigured(r, t) \/ BuildWithCredential(r, t)
    \/ BuilderRaises(r, t) \/ CatalogueFails(r, t) \/ ThreadEnds(r, t)

\* A query touches only the session and the faults of its own request.
LEMMA QueryKeepsOthers ==
  ASSUME TypeOK, NEW r \in Requests, NEW q \in Requests \ {r}
  PROVE  /\ Answered(r) => tx'[q] = tx[q] /\ struck'[q] = struck[q]
         /\ Unusable(r) => tx'[q] = tx[q] /\ struck'[q] = struck[q]
         /\ Raises(r) => tx'[q] = tx[q] /\ struck'[q] = struck[q]
         /\ \A kind, left : Fault(r, kind, left) => struck'[q] = struck[q]
         /\ Released(r) => tx'[q] = tx[q]
         /\ \A left : tx' = [tx EXCEPT ![r] = left] => tx'[q] = tx[q]
  BY DEF TypeOK, Answered, Unusable, Raises, Fault, Released

LEMMA MoveKeepsOthers ==
  ASSUME TypeOK, NEW r \in Requests, NEW q \in Requests \ {r}
  PROVE  /\ \A s : MoveTo(r, s) => req' = req /\ stage'[q] = stage[q] /\ end'[q] = end[q]
         /\ \A how : EndsAs(r, how) => req' = req /\ stage'[q] = stage[q] /\ end'[q] = end[q]
  BY DEF TypeOK, MoveTo, EndsAs

LEMMA OthersKept ==
  ASSUME TypeOK, NEW r \in Requests, NEW q \in Requests \ {r}
  PROVE  Pipeline(r) => req' = req /\ Same(q) /\ SameTools(q)
  <1> SUFFICES ASSUME Pipeline(r) PROVE req' = req /\ Same(q) /\ SameTools(q)
    OBVIOUS
  <1>a. /\ Answered(r) => tx'[q] = tx[q] /\ struck'[q] = struck[q]
        /\ Unusable(r) => tx'[q] = tx[q] /\ struck'[q] = struck[q]
        /\ Raises(r) => tx'[q] = tx[q] /\ struck'[q] = struck[q]
        /\ \A kind, left : Fault(r, kind, left) => struck'[q] = struck[q]
        /\ Released(r) => tx'[q] = tx[q]
        /\ \A left : tx' = [tx EXCEPT ![r] = left] => tx'[q] = tx[q]
    BY QueryKeepsOthers
  <1>b. /\ \A s : MoveTo(r, s) => req' = req /\ stage'[q] = stage[q] /\ end'[q] = end[q]
        /\ \A how : EndsAs(r, how) => req' = req /\ stage'[q] = stage[q] /\ end'[q] = end[q]
    BY MoveKeepsOthers
  <1>c. /\ contact \in [Requests -> Contacts \cup {None}]
        /\ backing \in [Requests -> {"none", "stored", "deleted"}]
    BY DEF TypeOK
  <1> USE <1>a, <1>b, <1>c DEF Same, SameTools
  <1>1. CASE LoadAgent(r) \/ ResolveOrgScope(r)
    BY <1>1 DEF LoadAgent, ResolveOrgScope
  <1>2. CASE LoadCredential(r) \/ CreateLlm(r)
    BY <1>2 DEF LoadCredential, CreateLlm
  <1>3. CASE LoadSession(r)
    BY <1>3 DEF LoadSession
  <1>4. CASE CreateSession(r) \/ CreateConflicts(r) \/ CreateFails(r)
    BY <1>4 DEF CreateSession, CreateConflicts, CreateFails
  <1>5. CASE RefreshSession(r) \/ RefreshFindsNothing(r) \/ RefreshFails(r)
    BY <1>5 DEF RefreshSession, RefreshFindsNothing, RefreshFails
  <1>6. CASE ContactGate(r) \/ LoadHistory(r) \/ HistoryDetached(r)
    BY <1>6 DEF ContactGate, LoadHistory, HistoryDetached
  <1>7. CASE RetriedQueryFails(r)
    BY <1>7 DEF RetriedQueryFails, db_retry_once, RetryGivesUp
  <1>8. CASE CheckEntitlement(r)
    BY <1>8 DEF CheckEntitlement, TypeOK
  <1>9. CASE EntitlementRaises(r)
    BY <1>9 DEF EntitlementRaises
  <1>10. CASE Builds(r)
    BY <1>10 DEF Builds, BuildContactTool, BuildMisconfigured, BuildWithCredential, BuilderRaises,
                 CatalogueFails, BuilderRuns, ThreadEnds, TypeOK
  <1>11. CASE ToolsGathered(r) \/ FinishSetup(r) \/ AttachmentRaises(r)
    BY <1>11 DEF ToolsGathered, FinishSetup, AttachmentRaises
  <1> QED
    BY <1>1, <1>2, <1>3, <1>4, <1>5, <1>6, <1>7, <1>8, <1>9, <1>10, <1>11 DEF Pipeline, Builds

LEMMA InsertKeepsRows ==
  ASSUME TypeOK, NEW r \in Requests, Inserts(r) PROVE RowsKept
  BY DEF Inserts, RowsKept, RowKept, TypeOK

\* The deletion of an agent or account leaves the rows alone that it does not take.
LEMMA DropKeepsRows ==
  ASSUME TypeOK, NEW S \in SUBSET Uuids, SessionsDropped(S)
  PROVE  /\ \A u \in Uuids : RowKept(u) \/ (u \in S /\ sessions'[u] = None)
         /\ drops' > drops
  <1>1. drops' > drops
    BY SetupAssumption DEF SessionsDropped, TypeOK
  <1> QED
    BY <1>1 DEF SessionsDropped, RowKept, TypeOK

LEMMA StepKeepsRows ==
  ASSUME TypeOK, Next, drops' = drops PROVE RowsKept
  <1>a. UNCHANGED sessions => RowsKept
    BY DEF RowsKept, RowKept
  <1>1. ASSUME NEW r \in Requests, Pipeline(r) PROVE RowsKept
    <2>1. CASE CreateSession(r) \/ CreateFails(r)
      BY <2>1, <1>a, InsertKeepsRows DEF CreateSession, CreateFails
    <2>2. CASE LoadAgent(r) \/ ResolveOrgScope(r) \/ LoadCredential(r) \/ CreateLlm(r)
               \/ LoadSession(r) \/ CreateConflicts(r) \/ RefreshSession(r)
               \/ RefreshFindsNothing(r) \/ RefreshFails(r) \/ ContactGate(r)
      BY <2>2, <1>a DEF LoadAgent, ResolveOrgScope, LoadCredential, CreateLlm, LoadSession,
                        CreateConflicts, RefreshSession, RefreshFindsNothing, RefreshFails,
                        ContactGate
    <2>3. CASE LoadHistory(r) \/ HistoryDetached(r) \/ RetriedQueryFails(r)
               \/ CheckEntitlement(r) \/ EntitlementRaises(r)
      BY <2>3, <1>a DEF LoadHistory, HistoryDetached, RetriedQueryFails, db_retry_once,
                        RetryGivesUp, CheckEntitlement, EntitlementRaises
    <2>4. CASE Builds(r)
      BY <2>4, <1>a DEF Builds, BuildContactTool, BuildMisconfigured, BuildWithCredential,
                        BuilderRaises, CatalogueFails, BuilderRuns, ThreadEnds
    <2>5. CASE ToolsGathered(r) \/ FinishSetup(r) \/ AttachmentRaises(r)
      BY <2>5, <1>a DEF ToolsGathered, FinishSetup, AttachmentRaises
    <2> QED
      BY <1>1, <2>1, <2>2, <2>3, <2>4, <2>5 DEF Pipeline, Builds
  <1>2. CASE \E r \in Requests : SessionCollected(r) \/ Cancelled(r) \/ InstanceStops(r)
    BY <1>2, <1>a DEF SessionCollected, Cancelled, InstanceStops
  <1>3. CASE \E u \in Uuids, row \in SessionRows : ServiceCreatesSession(u, row)
    BY <1>3 DEF ServiceCreatesSession, RowsKept, RowKept, TypeOK
  <1>4. ASSUME NEW c \in Contacts, ContactDeleted(c) PROVE RowsKept
    <2>1. ASSUME NEW u \in Uuids, sessions[u] # None
          PROVE  /\ sessions'[u] # None
                 /\ sessions'[u].account = sessions[u].account
                 /\ sessions'[u].contact # sessions[u].contact =>
                      sessions'[u].contact = None /\ sessions[u].contact \in deleted'
      <3>1. sessions[u] \in SessionRows
        BY <2>1 DEF TypeOK
      <3>2. CASE sessions[u].contact = c
        <4>1. sessions'[u] = [sessions[u] EXCEPT !.contact = None]
          BY <1>4, <2>1, <3>2 DEF ContactDeleted, TypeOK
        <4>2. c \in deleted'
          BY <1>4 DEF ContactDeleted
        <4>3. sessions'[u] # None
          <5>1. sessions'[u] \in SessionRows
            BY <3>1, <4>1 DEF SessionRows
          <5> QED
            BY <5>1, SetupAssumption
        <4> QED
          BY <3>1, <3>2, <4>1, <4>2, <4>3 DEF SessionRows
      <3>3. CASE sessions[u].contact # c
        BY <1>4, <2>1, <3>3 DEF ContactDeleted, TypeOK
      <3> QED
        BY <3>2, <3>3
    <2> QED
      BY <2>1 DEF RowsKept, RowKept
  <1>5. ~\E S \in SUBSET Uuids : SessionsDropped(S)
    BY DropKeepsRows DEF TypeOK
  <1> QED
    BY <1>1, <1>2, <1>3, <1>4, <1>5 DEF Next, Environment

LEMMA PipelineKeepsDeletions ==
  ASSUME NEW r \in Requests, Pipeline(r) PROVE UNCHANGED <<deleted, drops>>
  <1>1. CASE LoadAgent(r) \/ ResolveOrgScope(r) \/ LoadCredential(r) \/ CreateLlm(r)
             \/ LoadSession(r) \/ CreateSession(r) \/ CreateConflicts(r) \/ CreateFails(r)
             \/ RefreshSession(r) \/ RefreshFindsNothing(r) \/ RefreshFails(r) \/ ContactGate(r)
    BY <1>1 DEF LoadAgent, ResolveOrgScope, LoadCredential, CreateLlm, LoadSession, CreateSession,
                CreateConflicts, CreateFails, RefreshSession, RefreshFindsNothing, RefreshFails,
                ContactGate
  <1>2. CASE LoadHistory(r) \/ HistoryDetached(r) \/ RetriedQueryFails(r)
             \/ CheckEntitlement(r) \/ EntitlementRaises(r)
    BY <1>2 DEF LoadHistory, HistoryDetached, RetriedQueryFails, db_retry_once, RetryGivesUp,
                CheckEntitlement, EntitlementRaises
  <1>3. CASE Builds(r)
    BY <1>3 DEF Builds, BuildContactTool, BuildMisconfigured, BuildWithCredential,
                BuilderRaises, CatalogueFails, BuilderRuns, ThreadEnds
  <1>4. CASE ToolsGathered(r) \/ FinishSetup(r) \/ AttachmentRaises(r)
    BY <1>4 DEF ToolsGathered, FinishSetup, AttachmentRaises
  <1> QED
    BY <1>1, <1>2, <1>3, <1>4 DEF Pipeline, Builds

-------------------------------------------------------------------------------
(* The session and the contact of a request. *)

Gated == Bounded \ {"refresh", "gate"}

\* The session of r is its own while it is stored, its contact is the session's or one of
\* the two was deleted since, and past the gate there is one if the tools need one.
Binding(r) ==
  /\ stage[r] \in Bounded <=> backing[r] # "none"
  /\ backing[r] = "stored" => OwnRow(r)
  /\ contact[r] # None =>
       /\ stage[r] \in Bounded
       /\ \/ backing[r] = "deleted"
          \/ contact[r] = sessions[req[r].uuid].contact
          \/ contact[r] \in deleted
  /\ stage[r] \in Gated /\ contact_session_required(r) => contact[r] # None

LEMMA MoveMoves ==
  ASSUME TypeOK, NEW r \in Requests
  PROVE  /\ \A s : MoveTo(r, s) => stage'[r] = s /\ end'[r] = end[r] /\ req' = req
         /\ \A how : EndsAs(r, how) => stage'[r] = stage[r] /\ end'[r] = how /\ req' = req
  BY DEF TypeOK, MoveTo, EndsAs

\* A row that is kept and a request that does not move keep the binding.
LEMMA RowBindingKept ==
  ASSUME TypeOK, NEW q \in Requests, Binding(q), RowKept(req[q].uuid), deleted \subseteq deleted',
         req' = req, stage'[q] = stage[q], contact'[q] = contact[q], backing'[q] = backing[q]
  PROVE  Binding(q)'
  <1>1. req[q].uuid \in Uuids
    BY TypeParts, RequestTyped
  <1>2. OwnRow(q) => OwnRow(q)'
    BY <1>1 DEF OwnRow, RowKept
  <1>3. contact_session_required(q)' = contact_session_required(q)
    BY DEF contact_session_required
  <1>4. contact[q] # None /\ contact[q] = sessions[req[q].uuid].contact =>
          \/ backing[q] = "deleted"
          \/ contact[q] = sessions'[req[q].uuid].contact
          \/ contact[q] \in deleted'
    BY <1>1 DEF RowKept, Binding, OwnRow, TypeOK
  <1> QED
    BY <1>2, <1>3, <1>4 DEF Binding

LEMMA BindingKept ==
  ASSUME TypeOK, NEW q \in Requests, Binding(q), RowsKept, deleted \subseteq deleted',
         req' = req, stage'[q] = stage[q], contact'[q] = contact[q], backing'[q] = backing[q]
  PROVE  Binding(q)'
  <1>1. req[q].uuid \in Uuids
    BY TypeParts, RequestTyped
  <1> QED
    BY <1>1, RowBindingKept DEF RowsKept

\* So does a move that enters none of the stages the binding is about.
LEMMA BindingMoves ==
  ASSUME TypeOK, NEW r \in Requests, Binding(r), UNCHANGED <<req, contact, backing, sessions, deleted>>,
         stage'[r] \in Bounded <=> stage[r] \in Bounded,
         stage'[r] \in Gated => stage[r] \in Gated
  PROVE  Binding(r)'
  BY DEF Binding, OwnRow, contact_session_required

LEMMA PipelineBinds ==
  ASSUME TypeOK, NEW r \in Requests, Binding(r), Pipeline(r)
  PROVE  Binding(r)'
  <1>a. /\ \A s : MoveTo(r, s) => stage'[r] = s /\ end'[r] = end[r] /\ req' = req
        /\ \A how : EndsAs(r, how) => stage'[r] = stage[r] /\ end'[r] = how /\ req' = req
    BY MoveMoves
  <1>b. req[r].uuid \in Uuids /\ req[r].account \in Accounts
    BY TypeParts, RequestTyped
  <1>c. ASSUME UNCHANGED <<req, contact, backing, sessions, deleted>>, stage'[r] = stage[r]
        PROVE  Binding(r)'
    BY <1>c, BindingMoves
  <1> USE <1>a DEF At
  <1>1. CASE LoadAgent(r) \/ ResolveOrgScope(r)
    BY <1>1, BindingMoves DEF LoadAgent, ResolveOrgScope, Bounded, Gated
  <1>2. CASE LoadCredential(r) \/ CreateLlm(r)
    BY <1>2, BindingMoves DEF LoadCredential, CreateLlm, Bounded, Gated
  <1>3. CASE LoadSession(r)
    <2>1. CASE OwnRow(r)
      <3>1. /\ stage'[r] = "gate" /\ req' = req
            /\ contact'[r] = sessions[req[r].uuid].contact
            /\ backing'[r] = "stored"
            /\ UNCHANGED <<sessions, deleted>>
        BY <1>3, <2>1 DEF LoadSession, TypeOK
      <3> QED
        BY <2>1, <3>1 DEF Binding, OwnRow, Bounded, Gated
    <2>2. CASE ~OwnRow(r)
      BY <1>3, <2>2, BindingMoves DEF LoadSession, Bounded, Gated
    <2> QED
      BY <2>1, <2>2
  <1>4. CASE CreateSession(r)
    <2>1. /\ stage'[r] = "refresh" /\ UNCHANGED <<req, contact>> /\ contact[r] = None
          /\ backing'[r] = "stored"
      BY <1>4 DEF CreateSession, Binding, Bounded, TypeOK
    <2>2. OwnRow(r)'
      <3>1. sessions'[req[r].uuid] = [account |-> req[r].account, contact |-> None]
        BY <1>4, <1>b DEF CreateSession, Inserts, TypeOK
      <3>2. sessions'[req[r].uuid] \in SessionRows
        BY <3>1, <1>b DEF SessionRows
      <3> QED
        BY <2>1, <3>1, <3>2, SetupAssumption DEF OwnRow
    <2> QED
      BY <2>1, <2>2 DEF Binding, Gated, Bounded
  <1>5. CASE CreateConflicts(r)
    BY <1>5, <1>c DEF CreateConflicts
  <1>6. CASE CreateFails(r)
    <2>1. stage'[r] = "create" /\ UNCHANGED <<req, contact, backing>>
      BY <1>6 DEF CreateFails
    <2>2. backing[r] = "none" /\ contact[r] = None
      BY <1>6 DEF CreateFails, Binding, Bounded
    <2> QED
      BY <2>1, <2>2 DEF Binding, Bounded, Gated
  <1>7. CASE RefreshSession(r)
    <2>1. /\ stage[r] = "refresh" /\ stage'[r] = "gate" /\ req' = req
          /\ contact'[r] = sessions[req[r].uuid].contact
          /\ backing[r] = "stored" /\ UNCHANGED <<backing, sessions, deleted>>
      BY <1>7 DEF RefreshSession, TypeOK
    <2> QED
      BY <2>1 DEF Binding, OwnRow, Bounded, Gated
  <1>8. CASE RefreshFindsNothing(r) \/ RefreshFails(r)
    BY <1>8, <1>c DEF RefreshFindsNothing, RefreshFails
  <1>9. CASE ContactGate(r)
    <2>1. UNCHANGED <<req, contact, backing, sessions, deleted>> /\ stage[r] = "gate"
      BY <1>9 DEF ContactGate
    <2>2. CASE contact_session_required(r) /\ contact[r] = None
      BY <1>9, <2>1, <2>2, <1>c DEF ContactGate
    <2>3. CASE ~(contact_session_required(r) /\ contact[r] = None)
      BY <1>9, <2>1, <2>3 DEF ContactGate, Binding, OwnRow, contact_session_required, Bounded,
                              Gated
    <2> QED
      BY <2>2, <2>3
  <1>10. CASE LoadHistory(r) \/ CheckEntitlement(r)
    BY <1>10, BindingMoves DEF LoadHistory, CheckEntitlement, Bounded, Gated
  <1>11. CASE HistoryDetached(r) \/ EntitlementRaises(r) \/ AttachmentRaises(r) \/ FinishSetup(r)
    BY <1>11, <1>c DEF HistoryDetached, EntitlementRaises, AttachmentRaises, FinishSetup
  <1>12. CASE RetriedQueryFails(r)
    BY <1>12, <1>c DEF RetriedQueryFails, db_retry_once, RetryGivesUp
  <1>13. CASE Builds(r)
    BY <1>13, <1>c DEF Builds, BuildContactTool, BuildMisconfigured, BuildWithCredential,
                       BuilderRaises, CatalogueFails, BuilderRuns, ThreadEnds
  <1>14. CASE ToolsGathered(r)
    BY <1>14, BindingMoves DEF ToolsGathered, Bounded, Gated
  <1> QED
    BY <1>1, <1>2, <1>3, <1>4, <1>5, <1>6, <1>7, <1>8, <1>9, <1>10, <1>11, <1>12, <1>13, <1>14
       DEF Pipeline, Builds

-------------------------------------------------------------------------------
(* The tools of a request. *)

StruckBuilding(r) == \E f \in struck[r] : f.stage = "tools"

Building == {"tools", "attachment"}

\* Before the entitlement check there are no tools.  From then on a permitted tool
\* is to do, in a thread, built, skipped for itself, or lost to a fault; contact
\* tools are never lost.  The session breaks only by a fault of a builder.
ToolAccount(r) ==
  /\ stage[r] \notin Building =>
       todo[r] = {} /\ threads[r] = {} /\ allowed[r] = {} /\ built[r] = {} /\ misfit[r] = {}
  /\ allowed[r] \subseteq req[r].tools
  /\ built[r] \subseteq allowed[r]
  /\ todo[r] \cap (threads[r] \cup built[r] \cup misfit[r]) = {}
  /\ threads[r] \cap (built[r] \cup misfit[r]) = {}
  /\ built[r] \cap misfit[r] = {}
  /\ todo[r] \cup threads[r] \subseteq allowed[r]
  /\ threads[r] \cap ContactTools = {}
  /\ allowed[r] \cap ContactTools \subseteq todo[r] \cup built[r]
  /\ ~StruckBuilding(r) =>
       allowed[r] \subseteq todo[r] \cup threads[r] \cup built[r] \cup misfit[r]
  /\ stage[r] = "attachment" => todo[r] = {} /\ threads[r] = {}
  /\ end[r] = "ready" => stage[r] = "attachment"
  /\ end[r] = "none" /\ tx[r] = "broken" => stage[r] \in Building /\ StruckBuilding(r)

LEMMA ToolsKept ==
  ASSUME NEW q \in Requests, ToolAccount(q), req' = req, SameTools(q),
         struck'[q] = struck[q], stage'[q] = stage[q],
         \/ end'[q] = end[q] /\ tx'[q] = tx[q]
         \/ end'[q] \in Ends \ {"ready"}
         \/ end[q] \in Ends /\ end'[q] = end[q]
  PROVE  ToolAccount(q)'
  BY DEF ToolAccount, StruckBuilding, SameTools

\* A step before the tools are built keeps them empty.
LEMMA ToolsEmpty ==
  ASSUME NEW r \in Requests, ToolAccount(r), req' = req, UNCHANGED toolVars,
         stage[r] \notin Building, stage'[r] \notin Building, end'[r] # "ready",
         end'[r] = "none" => tx'[r] # "broken"
  PROVE  ToolAccount(r)'
  BY DEF ToolAccount, StruckBuilding, Building

LEMMA QueryEffect ==
  ASSUME TypeOK, NEW r \in Requests
  PROVE  /\ Answered(r) => tx'[r] = "held" /\ tx[r] # "broken" /\ struck' = struck
         /\ Released(r) => tx'[r] = "none"
         /\ \A kind, left : Fault(r, kind, left) =>
              \E f : /\ struck'[r] = struck[r] \cup {f}
                     /\ f.stage = stage[r] /\ f.attempt = attempt[r] /\ f.kind = kind
  <1>1. Answered(r) => tx'[r] = "held" /\ tx[r] # "broken" /\ struck' = struck
    BY DEF TypeOK, Answered
  <1>2. Released(r) => tx'[r] = "none"
    BY DEF TypeOK, Released
  <1>3. ASSUME NEW kind, NEW left, Fault(r, kind, left)
        PROVE  \E f : /\ struck'[r] = struck[r] \cup {f}
                      /\ f.stage = stage[r] /\ f.attempt = attempt[r] /\ f.kind = kind
    <2> DEFINE f == [stage |-> stage[r], attempt |-> attempt[r], kind |-> kind]
    <2>1. struck'[r] = struck[r] \cup {f}
      BY <1>3 DEF Fault, TypeOK
    <2>2. f.stage = stage[r] /\ f.attempt = attempt[r] /\ f.kind = kind
      OBVIOUS
    <2> QED
      BY <2>1, <2>2
  <1> QED
    BY <1>1, <1>2, <1>3

\* A builder that raises leaves a fault of this stage behind, its own or an earlier one.
LEMMA BuilderFault ==
  ASSUME TypeOK, NEW r \in Requests, ToolAccount(r), At(r, "tools")
  PROVE  /\ Raises(r) => StruckBuilding(r)'
         /\ \A kind, left : Fault(r, kind, left) => StruckBuilding(r)'
  <1>1. ASSUME NEW kind, NEW left, Fault(r, kind, left) PROVE StruckBuilding(r)'
    <2>1. PICK f : struck'[r] = struck[r] \cup {f} /\ f.stage = stage[r]
      BY <1>1, QueryEffect
    <2> QED
      BY <2>1 DEF StruckBuilding, At
  <1>2. Unusable(r) => StruckBuilding(r)'
    BY DEF Unusable, ToolAccount, StruckBuilding, At
  <1> QED
    BY <1>1, <1>2 DEF Raises

\* A tool in progress settles, goes on in a thread, or is lost to a fault that struck.
LEMMA ToolSettles ==
  ASSUME NEW r \in Requests, ToolAccount(r), stage[r] = "tools", end[r] = "none",
         NEW t, t \in todo[r] \cup threads[r],
         req' = req, stage'[r] = stage[r], end'[r] = end[r], allowed'[r] = allowed[r],
         todo'[r] = todo[r] \ {t},
         StruckBuilding(r) \/ tx'[r] = "broken" => StruckBuilding(r)',
         \/ /\ t \in todo[r] \ ContactTools /\ threads'[r] = threads[r] \cup {t}
            /\ built'[r] = built[r] /\ misfit'[r] = misfit[r]
         \/ /\ threads'[r] = threads[r] \ {t}
            /\ built'[r] = built[r] \cup {t} /\ misfit'[r] = misfit[r]
         \/ /\ t \notin ContactTools /\ threads'[r] = threads[r] \ {t}
            /\ built'[r] = built[r] /\ misfit'[r] = misfit[r] \cup {t}
         \/ /\ t \notin ContactTools /\ threads'[r] = threads[r] \ {t}
            /\ built'[r] = built[r] /\ misfit'[r] = misfit[r] /\ StruckBuilding(r)'
  PROVE  ToolAccount(r)'
  <1>1. /\ stage'[r] = "tools" /\ end'[r] = "none"
        /\ tx'[r] = "broken" => StruckBuilding(r)'
    OBVIOUS
  <1>2. /\ (allowed[r] \subseteq req[r].tools)'
        /\ (built[r] \subseteq allowed[r])'
        /\ (todo[r] \cup threads[r] \subseteq allowed[r])'
    BY DEF ToolAccount
  <1>3. (todo[r] \cap (threads[r] \cup built[r] \cup misfit[r]) = {})'
    BY DEF ToolAccount
  <1>4. (threads[r] \cap (built[r] \cup misfit[r]) = {} /\ built[r] \cap misfit[r] = {})'
    BY DEF ToolAccount
  <1>5. /\ (threads[r] \cap ContactTools = {})'
        /\ (allowed[r] \cap ContactTools \subseteq todo[r] \cup built[r])'
    BY DEF ToolAccount
  <1>6. ~StruckBuilding(r)' =>
          (allowed[r] \subseteq todo[r] \cup threads[r] \cup built[r] \cup misfit[r])'
    BY DEF ToolAccount
  <1> QED
    BY <1>1, <1>2, <1>3, <1>4, <1>5, <1>6 DEF ToolAccount, Building

LEMMA BuildsAccount ==
  ASSUME TypeOK, NEW r \in Requests, ToolAccount(r), Builds(r)
  PROVE  ToolAccount(r)'
  <1> PICK t \in Tools :
        BuildContactTool(r, t) \/ BuildMisconfigured(r, t) \/ BuildWithCredential(r, t)
        \/ BuilderRaises(r, t) \/ CatalogueFails(r, t) \/ ThreadEnds(r, t)
    BY DEF Builds
  <1>0. At(r, "tools") => StruckBuilding(r) \/ tx[r] # "broken"
    BY DEF At, ToolAccount
  <1>a. ASSUME NEW isBuilt \in BOOLEAN, NEW isMisfit \in BOOLEAN, BuilderRuns(r, t, isBuilt, isMisfit)
        PROVE  /\ At(r, "tools") /\ t \in todo[r]
               /\ req' = req /\ stage'[r] = stage[r] /\ end'[r] = end[r]
               /\ allowed'[r] = allowed[r]
               /\ todo'[r] = todo[r] \ {t}
               /\ built'[r] = IF isBuilt THEN built[r] \cup {t} ELSE built[r]
               /\ misfit'[r] = IF isMisfit THEN misfit[r] \cup {t} ELSE misfit[r]
    BY <1>a DEF BuilderRuns, TypeOK
  <1>b. t \in todo[r] => threads[r] \ {t} = threads[r]
    BY DEF ToolAccount
  <1>s. struck' = struck => StruckBuilding(r)' = StruckBuilding(r)
    BY DEF StruckBuilding
  <1>1. CASE BuildContactTool(r, t)
    <2>1. BuilderRuns(r, t, TRUE, FALSE) /\ UNCHANGED <<tx, threads, struck>>
      BY <1>1 DEF BuildContactTool
    <2> QED
      BY <2>1, <1>0, <1>a, <1>b, <1>s, ToolSettles DEF At
  <1>2. CASE BuildMisconfigured(r, t)
    <2>1. BuilderRuns(r, t, FALSE, TRUE) /\ UNCHANGED <<tx, threads, struck>> /\ t \notin ContactTools
      BY <1>2 DEF BuildMisconfigured
    <2> QED
      BY <2>1, <1>0, <1>a, <1>b, <1>s, ToolSettles DEF At
  <1>3. CASE BuildWithCredential(r, t)
    <2>1. t \notin ContactTools /\ tx'[r] = "held" /\ struck' = struck
      BY <1>3, QueryEffect DEF BuildWithCredential
    <2>2. CASE BuilderRuns(r, t, TRUE, FALSE) /\ UNCHANGED threads
      BY <2>1, <2>2, <1>a, <1>b, <1>s, ToolSettles DEF At
    <2>3. CASE BuilderRuns(r, t, FALSE, TRUE) /\ UNCHANGED threads
      BY <2>1, <2>3, <1>a, <1>b, <1>s, ToolSettles DEF At
    <2>4. CASE BuilderRuns(r, t, FALSE, FALSE) /\ threads' = [threads EXCEPT ![r] = @ \cup {t}]
      <3>1. threads'[r] = threads[r] \cup {t}
        BY <2>4 DEF TypeOK
      <3> QED
        BY <2>1, <2>4, <3>1, <1>a, <1>s, ToolSettles DEF At
    <2> QED
      BY <1>3, <2>2, <2>3, <2>4 DEF BuildWithCredential
  <1>4. CASE BuilderRaises(r, t) \/ CatalogueFails(r, t)
    <2>1. PICK isBuilt \in BOOLEAN :
            BuilderRuns(r, t, isBuilt, FALSE) /\ UNCHANGED threads /\ (isBuilt \/ t \notin ContactTools)
      BY <1>4 DEF BuilderRaises, CatalogueFails
    <2>2. StruckBuilding(r)'
      BY <1>4, <2>1, <1>a, BuilderFault DEF BuilderRaises, CatalogueFails
    <2> QED
      BY <2>1, <2>2, <1>a, <1>b, ToolSettles DEF At
  <1>5. CASE ThreadEnds(r, t)
    <2>1. /\ At(r, "tools") /\ t \in threads[r] /\ threads'[r] = threads[r] \ {t}
          /\ UNCHANGED <<req, stage, end, tx, todo, allowed, struck>>
          /\ \/ built'[r] = built[r] \cup {t} /\ misfit'[r] = misfit[r]
             \/ misfit'[r] = misfit[r] \cup {t} /\ built'[r] = built[r]
      BY <1>5 DEF ThreadEnds, TypeOK
    <2>2. t \notin ContactTools /\ todo[r] \ {t} = todo[r]
      BY <2>1 DEF ToolAccount
    <2> QED
      BY <2>1, <2>2, <1>0, <1>s, ToolSettles DEF At
  <1> QED
    BY <1>1, <1>2, <1>3, <1>4, <1>5

LEMMA PipelineAccounts ==
  ASSUME TypeOK, NEW r \in Requests, ToolAccount(r), Pipeline(r)
  PROVE  ToolAccount(r)'
  <1>a. /\ \A s : MoveTo(r, s) => stage'[r] = s /\ end'[r] = end[r] /\ req' = req
        /\ \A how : EndsAs(r, how) => stage'[r] = stage[r] /\ end'[r] = how /\ req' = req
    BY MoveMoves
  <1>b. /\ Answered(r) => tx'[r] = "held" /\ tx[r] # "broken" /\ struck' = struck
        /\ Released(r) => tx'[r] = "none"
    BY QueryEffect
  <1>c. stage[r] \notin Building /\ end[r] = "none" => tx[r] # "broken"
    BY DEF ToolAccount
  <1> USE <1>a, <1>b, <1>c DEF At
  <1>1. CASE LoadAgent(r) \/ ResolveOrgScope(r)
    BY <1>1, ToolsEmpty DEF LoadAgent, ResolveOrgScope, Building
  <1>2. CASE LoadCredential(r) \/ CreateLlm(r)
    BY <1>2, ToolsEmpty DEF LoadCredential, CreateLlm, Building
  <1>3. CASE LoadSession(r)
    BY <1>3, ToolsEmpty DEF LoadSession, Building
  <1>4. CASE CreateSession(r) \/ CreateConflicts(r) \/ CreateFails(r)
    BY <1>4, ToolsEmpty DEF CreateSession, CreateConflicts, CreateFails, Building
  <1>5. CASE RefreshSession(r) \/ RefreshFindsNothing(r) \/ RefreshFails(r)
    BY <1>5, ToolsEmpty DEF RefreshSession, RefreshFindsNothing, RefreshFails, Building
  <1>6. CASE ContactGate(r) \/ LoadHistory(r) \/ HistoryDetached(r)
    BY <1>6, ToolsEmpty DEF ContactGate, LoadHistory, HistoryDetached, Building
  <1>7. CASE RetriedQueryFails(r)
    BY <1>7, ToolsEmpty DEF RetriedQueryFails, db_retry_once, RetryGivesUp, Retried, Building
  <1>8. CASE CheckEntitlement(r)
    <2>1. PICK granted : /\ allowed'[r] = Permitted(req[r].tools, granted)
                         /\ todo'[r] = allowed'[r]
                         /\ UNCHANGED <<threads, built, misfit>>
                         /\ stage'[r] = "tools" /\ end'[r] = "none" /\ req' = req
                         /\ tx'[r] = "held"
      BY <1>8 DEF CheckEntitlement, TypeOK
    <2>2. allowed'[r] \subseteq req[r].tools
      BY <2>1 DEF Permitted
    <2>3. threads[r] = {} /\ built[r] = {} /\ misfit[r] = {}
      BY <1>8 DEF CheckEntitlement, ToolAccount, Building
    <2> QED
      BY <2>1, <2>2, <2>3 DEF ToolAccount, StruckBuilding, Building
  <1>9. CASE EntitlementRaises(r)
    BY <1>9, ToolsEmpty DEF EntitlementRaises, Building
  <1>10. CASE Builds(r)
    BY <1>10, BuildsAccount
  <1>11. CASE ToolsGathered(r)
    BY <1>11 DEF ToolsGathered, ToolAccount, StruckBuilding, Building
  <1>12. CASE FinishSetup(r)
    BY <1>12 DEF FinishSetup, ToolAccount, StruckBuilding, Building
  <1>13. CASE AttachmentRaises(r)
    BY <1>13 DEF AttachmentRaises, ToolAccount, StruckBuilding, Building
  <1> QED
    BY <1>1, <1>2, <1>3, <1>4, <1>5, <1>6, <1>7, <1>8, <1>9, <1>10, <1>11, <1>12, <1>13
       DEF Pipeline, Builds

-------------------------------------------------------------------------------
(* The retried queries. *)

\* What RetryRecovers says of one request.
Recovers(r) ==
  \A s \in Retried \ {"history"} : end[r] = "escaped" /\ stage[r] = s =>
    \E f \in struck[r] : f.stage = s /\ (f.attempt = 2 \/ f.kind = "other")

LEMMA PipelineRecovers ==
  ASSUME TypeOK, NEW r \in Requests, ToolAccount(r), Pipeline(r)
  PROVE  Recovers(r)'
  <1>a. /\ \A s : MoveTo(r, s) => stage'[r] = s /\ end'[r] = end[r] /\ req' = req
        /\ \A how : EndsAs(r, how) => stage'[r] = stage[r] /\ end'[r] = how /\ req' = req
    BY MoveMoves
  <1>b. /\ end'[r] # "escaped" => Recovers(r)'
        /\ stage'[r] \notin {"agent", "credential", "session"} => Recovers(r)'
    BY DEF Recovers, Retried
  <1> USE <1>a, <1>b DEF At
  <1>1. CASE LoadAgent(r) \/ ResolveOrgScope(r)
    BY <1>1 DEF LoadAgent, ResolveOrgScope
  <1>2. CASE LoadCredential(r) \/ CreateLlm(r)
    BY <1>2 DEF LoadCredential, CreateLlm
  <1>3. CASE LoadSession(r)
    BY <1>3 DEF LoadSession
  <1>4. CASE CreateSession(r) \/ CreateConflicts(r) \/ CreateFails(r)
    BY <1>4 DEF CreateSession, CreateConflicts, CreateFails
  <1>5. CASE RefreshSession(r) \/ RefreshFindsNothing(r) \/ RefreshFails(r)
    BY <1>5 DEF RefreshSession, RefreshFindsNothing, RefreshFails
  <1>6. CASE ContactGate(r) \/ LoadHistory(r) \/ HistoryDetached(r)
    BY <1>6 DEF ContactGate, LoadHistory, HistoryDetached
  <1>7. CASE RetriedQueryFails(r)
    <2>1. end[r] = "none"
      BY <1>7 DEF RetriedQueryFails
    <2>2. CASE db_retry_once(r)
      BY <2>1, <2>2 DEF db_retry_once
    <2>3. CASE RetryGivesUp(r)
      <3>1. stage'[r] = stage[r]
        BY <2>3 DEF RetryGivesUp
      <3>2. CASE stage[r] \in {"agent", "credential", "session"}
        <4>1. tx[r] # "broken"
          BY <2>1, <3>2 DEF ToolAccount, Building
        <4>2. PICK kind \in {"transient", "other"}, left \in {"none", "broken"} :
                (kind = "transient" => attempt[r] = 2) /\ Fault(r, kind, left)
          BY <2>3, <4>1 DEF RetryGivesUp, Unusable
        <4>3. PICK f : /\ struck'[r] = struck[r] \cup {f}
                       /\ f.stage = stage[r] /\ f.attempt = attempt[r] /\ f.kind = kind
          BY <4>2, QueryEffect
        <4> QED
          BY <3>1, <4>2, <4>3 DEF Recovers
      <3>3. CASE stage[r] \notin {"agent", "credential", "session"}
        BY <3>1, <3>3
      <3> QED
        BY <3>2, <3>3
    <2> QED
      BY <1>7, <2>2, <2>3 DEF RetriedQueryFails
  <1>8. CASE CheckEntitlement(r) \/ EntitlementRaises(r)
    BY <1>8 DEF CheckEntitlement, EntitlementRaises
  <1>9. CASE Builds(r)
    BY <1>9 DEF Builds, BuildContactTool, BuildMisconfigured, BuildWithCredential, BuilderRaises,
                CatalogueFails, BuilderRuns, ThreadEnds
  <1>10. CASE ToolsGathered(r) \/ FinishSetup(r) \/ AttachmentRaises(r)
    BY <1>10 DEF ToolsGathered, FinishSetup, AttachmentRaises
  <1> QED
    BY <1>1, <1>2, <1>3, <1>4, <1>5, <1>6, <1>7, <1>8, <1>9, <1>10 DEF Pipeline, Builds

-------------------------------------------------------------------------------
(* The invariant. *)

SetupInv ==
  /\ TypeOK
  /\ \A r \in Requests : Binding(r) /\ ToolAccount(r) /\ Recovers(r)

LEMMA SetupInit == Init => SetupInv
  <1> SUFFICES ASSUME Init PROVE SetupInv
    OBVIOUS
  <1>1. TypeOK
    BY SetupAssumption DEF Init, TypeOK
  <1>2. ASSUME NEW r \in Requests PROVE Binding(r) /\ ToolAccount(r) /\ Recovers(r)
    BY DEF Init, Binding, ToolAccount, Recovers, StruckBuilding, Bounded, Gated, Building
  <1> QED
    BY <1>1, <1>2 DEF SetupInv

\* A step of somebody else, or none, that leaves q as it is.
LEMMA BystanderKept ==
  ASSUME SetupInv, NEW q \in Requests, RowsKept, deleted \subseteq deleted', req' = req,
         Same(q), SameTools(q)
  PROVE  Binding(q)' /\ ToolAccount(q)' /\ Recovers(q)'
  <1>a. TypeOK /\ Binding(q) /\ ToolAccount(q) /\ Recovers(q)
    BY DEF SetupInv
  <1>1. Binding(q)'
    BY <1>a, BindingKept DEF Same
  <1>2. ToolAccount(q)'
    BY <1>a, ToolsKept DEF Same
  <1>3. Recovers(q)'
    BY <1>a DEF Same, Recovers
  <1> QED
    BY <1>1, <1>2, <1>3

\* A request that is cancelled, stopped or collected.
LEMMA StoppedKept ==
  ASSUME SetupInv, NEW r \in Requests, RowsKept,
         Cancelled(r) \/ InstanceStops(r) \/ SessionCollected(r), NEW q \in Requests
  PROVE  Binding(q)' /\ ToolAccount(q)' /\ Recovers(q)'
  <1>a. TypeOK
    BY DEF SetupInv
  <1>1. /\ UNCHANGED <<req, stage, contact, backing, toolVars, struck, deleted>>
        /\ q # r => end'[q] = end[q] /\ tx'[q] = tx[q]
        /\ \/ end'[r] = "cancelled"
           \/ end[r] \in Ends /\ end'[r] = end[r]
    BY <1>a DEF Cancelled, InstanceStops, SessionCollected, EndsAs, Released, TypeOK
  <1>2. Binding(q)'
    BY <1>1, BindingKept DEF SetupInv
  <1>3. ToolAccount(q)'
    BY <1>1, ToolsKept DEF SetupInv, SameTools
  <1>b. Recovers(q)
    BY DEF SetupInv
  <1>4. Recovers(q)'
    BY <1>1, <1>b DEF Recovers
  <1> QED
    BY <1>2, <1>3, <1>4

\* An agent or an account is deleted: a request whose session goes with it keeps what is
\* known of its contact and its tools, any other one its session.
LEMMA DroppedKept ==
  ASSUME SetupInv, NEW S \in SUBSET Uuids, SessionsDropped(S), NEW q \in Requests
  PROVE  Binding(q)' /\ ToolAccount(q)' /\ Recovers(q)'
  <1>a. TypeOK /\ Binding(q) /\ ToolAccount(q) /\ Recovers(q) /\ req[q].uuid \in Uuids
    BY TypeParts, RequestTyped DEF SetupInv
  <1>b. /\ UNCHANGED <<req, stage, end, contact, tx, toolVars, struck, deleted>>
        /\ backing'[q] = IF backing[q] = "stored" /\ req[q].uuid \in S THEN "deleted" ELSE backing[q]
    BY <1>a DEF SessionsDropped, TypeOK
  <1>1. Binding(q)'
    <2>1. CASE RowKept(req[q].uuid) /\ backing'[q] = backing[q]
      BY <1>a, <1>b, <2>1, RowBindingKept
    <2>2. CASE backing[q] = "stored" /\ backing'[q] = "deleted"
      BY <1>a, <1>b, <2>2 DEF Binding, contact_session_required
    <2>3. CASE backing[q] # "stored" /\ backing'[q] = backing[q]
      <3>1. contact[q] = None \/ backing[q] = "deleted"
        BY <1>a, <2>3 DEF Binding, TypeOK
      <3> QED
        BY <1>a, <1>b, <2>3, <3>1 DEF Binding, contact_session_required
    <2>4. backing[q] = "stored" => RowKept(req[q].uuid) \/ req[q].uuid \in S
      BY <1>a, DropKeepsRows
    <2> QED
      BY <1>b, <2>1, <2>2, <2>3, <2>4
  <1>2. ToolAccount(q)'
    BY <1>a, <1>b, ToolsKept DEF SameTools
  <1>3. Recovers(q)'
    BY <1>a, <1>b DEF Recovers
  <1> QED
    BY <1>1, <1>2, <1>3

LEMMA SetupStep == SetupInv /\ [Next]_vars => SetupInv'
  <1> SUFFICES ASSUME SetupInv, [Next]_vars PROVE SetupInv'
    OBVIOUS
  <1>a. TypeOK /\ SessionBound
    BY DEF SetupInv, Binding, SessionBound
  <1>b. Next /\ drops' = drops => RowsKept
    BY <1>a, StepKeepsRows
  <1>1. ASSUME NEW r \in Requests, Pipeline(r) PROVE SetupInv'
    <2>1. TypeOK'
      BY <1>1, <1>a, SetupTypes
    <2>2. RowsKept
      BY <1>1, <1>b, PipelineKeepsDeletions DEF Next
    <2>3. Binding(r)' /\ ToolAccount(r)' /\ Recovers(r)'
      BY <1>1, <1>a, PipelineBinds, PipelineAccounts, PipelineRecovers DEF SetupInv
    <2>4. deleted' = deleted
      BY <1>1, <1>a, PipelineKeepsDeletions
    <2>5. ASSUME NEW q \in Requests \ {r} PROVE Binding(q)' /\ ToolAccount(q)' /\ Recovers(q)'
      BY <1>1, <1>a, <2>2, <2>4, OthersKept, BystanderKept
    <2> QED
      BY <2>1, <2>3, <2>5 DEF SetupInv
  <1>2. ASSUME NEW r \in Requests, Cancelled(r) \/ InstanceStops(r) \/ SessionCollected(r)
        PROVE  SetupInv'
    <2>1. drops' = drops
      BY <1>2 DEF Cancelled, InstanceStops, SessionCollected
    <2> QED
      BY <1>2, <2>1, <1>a, <1>b, EnvironmentTypes, StoppedKept DEF SetupInv, Next, Environment
  <1>3. ASSUME NEW u \in Uuids, NEW row \in SessionRows, ServiceCreatesSession(u, row)
        PROVE  SetupInv'
    <2>1. \A q \in Requests : req' = req /\ Same(q) /\ SameTools(q)
      BY <1>3 DEF ServiceCreatesSession, Same, SameTools
    <2>2. TypeOK' /\ RowsKept /\ deleted \subseteq deleted'
      BY <1>3, <1>a, <1>b, EnvironmentTypes DEF Next, Environment, ServiceCreatesSession
    <2> QED
      BY <2>1, <2>2, BystanderKept DEF SetupInv
  <1>4. ASSUME NEW c \in Contacts, ContactDeleted(c)
        PROVE  SetupInv'
    <2>1. \A q \in Requests : req' = req /\ Same(q) /\ SameTools(q)
      BY <1>4 DEF ContactDeleted, Same, SameTools
    <2>2. TypeOK' /\ RowsKept /\ deleted \subseteq deleted'
      BY <1>4, <1>a, <1>b, EnvironmentTypes DEF Next, Environment, ContactDeleted
    <2> QED
      BY <2>1, <2>2, BystanderKept DEF SetupInv
  <1>5. ASSUME NEW S \in SUBSET Uuids, SessionsDropped(S)
        PROVE  SetupInv'
    <2>1. TypeOK'
      BY <1>5, <1>a, EnvironmentTypes DEF Environment
    <2>2. ASSUME NEW q \in Requests PROVE Binding(q)' /\ ToolAccount(q)' /\ Recovers(q)'
      BY <1>5, DroppedKept DEF SetupInv
    <2> QED
      BY <2>1, <2>2 DEF SetupInv
  <1>6. CASE UNCHANGED vars
    BY <1>6 DEF SetupInv, vars, TypeOK, Binding, ToolAccount, Recovers, OwnRow,
                contact_session_required, StruckBuilding
  <1> QED
    BY <1>1, <1>2, <1>3, <1>4, <1>5, <1>6 DEF Next, Environment

LEMMA SetupInvariant == Spec => []SetupInv
  BY SetupInit, SetupStep, PTL DEF Spec

-------------------------------------------------------------------------------
(* Theorems. *)

\* Every variable of setup keeps its type.
THEOREM SetupTypeCorrect == Spec => []TypeOK
  <1>1. SetupInv => TypeOK
    BY DEF SetupInv
  <1> QED
    BY <1>1, SetupInvariant, PTL

\* Whatever ids clients choose and whoever creates sessions meanwhile, a turn that
\* prepare_agent_context lets stream is on a committed session of its account, which
\* nothing but the deletion of an agent or account takes away.
THEOREM ReadyIsOwn == Spec => []ReadyOnOwnSession
  <1>1. SetupInv => ReadyOnOwnSession
    BY DEF SetupInv, TypeOK, ReadyOnOwnSession, Ready, Binding, ToolAccount, Bounded, OwnRow
  <1> QED
    BY <1>1, SetupInvariant, PTL

\* The contact gate fails closed, and the scope of the contact tools is the contact
\* the session is bound to, although sessions are created, and contacts deleted, and
\* sessions with an agent or account, while setup runs.
THEOREM ContactToolsAreScoped == Spec => []ContactToolsScoped
  <1>1. ASSUME SetupInv PROVE ContactToolsScoped
    <2>1. ASSUME NEW r \in Requests, Ready(r), built[r] \cap ContactTools # {}
          PROVE  /\ contact[r] # None
                 /\ \/ backing[r] = "deleted"
                    \/ contact[r] = sessions[req[r].uuid].contact
                    \/ contact[r] \in deleted
      <3>1. stage[r] \in Gated
        BY <1>1, <2>1 DEF SetupInv, ToolAccount, Ready, Gated, Bounded
      <3>2. contact_session_required(r)
        BY <1>1, <2>1 DEF SetupInv, ToolAccount, contact_session_required
      <3> QED
        BY <1>1, <3>1, <3>2 DEF SetupInv, Binding
    <2> QED
      BY <2>1 DEF ContactToolsScoped
  <1> QED
    BY <1>1, SetupInvariant, PTL

\* One transient fault at the agent, the credential or the session lookup is
\* survived by db_retry_once.
THEOREM RetriesRecover == Spec => []RetryRecovers
  <1>1. SetupInv => RetryRecovers
    BY DEF SetupInv, RetryRecovers, RecoversAt, Recovers
  <1> QED
    BY <1>1, SetupInvariant, PTL

\* A permitted contact tool is built whatever happens to the other builders; and without a
\* fault while the tools are built, a turn has every permitted tool but those whose own
\* configuration, credential or reflection was bad.
THEOREM ToolsAreExplained == Spec => []BuiltToolsAreExplained
  <1>1. SetupInv => ContactToolsSurvive
    BY DEF SetupInv, ContactToolsSurvive, ToolAccount, Ready
  <1>2. ASSUME SetupInv PROVE SkippedToolsHaveCause
    <2>1. ASSUME NEW r \in Requests, Ready(r), \A f \in struck[r] : f.stage # "tools"
          PROVE  built[r] = allowed[r] \ misfit[r]
      <3>1. ToolAccount(r) /\ ~StruckBuilding(r)
        BY <1>2, <2>1 DEF SetupInv, StruckBuilding
      <3>2. todo[r] = {} /\ threads[r] = {}
        BY <2>1, <3>1 DEF ToolAccount, Ready
      <3> QED
        BY <3>1, <3>2 DEF ToolAccount
    <2> QED
      BY <2>1 DEF SkippedToolsHaveCause
  <1>3. SetupInv => BuiltToolsAreExplained
    BY <1>1, <1>2 DEF BuiltToolsAreExplained
  <1> QED
    BY <1>3, SetupInvariant, PTL

\* No setup takes over, rebinds or removes a session somebody else created, and nothing
\* but the deletion of an agent or account removes one.
THEOREM SessionsAreKept == Spec => SessionsNeverRebound
  <1> DEFINE Kept == \A u \in Uuids : RowKept(u) \/ (sessions'[u] = None /\ drops' > drops)
  <1>1. ASSUME SetupInv, Next PROVE Kept
    <2>1. CASE drops' = drops
      BY <1>1, <2>1, StepKeepsRows DEF SetupInv, RowsKept
    <2>2. CASE \E S \in SUBSET Uuids : SessionsDropped(S)
      BY <1>1, <2>2, DropKeepsRows DEF SetupInv
    <2>3. drops' = drops \/ \E S \in SUBSET Uuids : SessionsDropped(S)
      BY <1>1, PipelineKeepsDeletions
         DEF Next, Environment, SessionCollected, Cancelled, InstanceStops, ServiceCreatesSession,
             ContactDeleted
    <2> QED
      BY <2>1, <2>2, <2>3
  <1>2. Kept <=> \A u \in Uuids : sessions[u] # None =>
          \/ sessions'[u] = None /\ drops' > drops
          \/ /\ sessions'[u] # None
             /\ sessions'[u].account = sessions[u].account
             /\ sessions'[u].contact # sessions[u].contact =>
                  sessions'[u].contact = None /\ sessions[u].contact \in deleted'
    BY DEF RowKept
  <1> HIDE DEF Kept
  <1> QED
    BY <1>1, <1>2, SetupInvariant, PTL DEF Spec, SessionsNeverRebound

-------------------------------------------------------------------------------
(* No setup is stuck, and none goes round. *)

\* What the next operation of a setup relies on is there: a session that can be used, up
\* to the tools; a row to refresh, its own unless deleted since; an instance that was loaded, whose id is read once
\* more at the end, outside of every retry.  A ready turn holds no connection, and of the
\* instance only what was read before.
Prepared(r) ==
  /\ end[r] = "none" =>
       /\ stage[r] \notin Building => tx[r] # "broken"
       /\ stage[r] = "refresh" => backing[r] # "none" /\ (backing[r] = "stored" => OwnRow(r))
       /\ stage[r] = "history" => orm[r] # "none"
       /\ stage[r] \in {"gate", "entitlement", "tools", "attachment"} => orm[r] = "loaded"
  /\ Ready(r) => tx[r] = "none" /\ orm[r] = "detached"

Instance(r) ==
  /\ end[r] = "none" =>
       /\ stage[r] = "history" => orm[r] # "none"
       /\ stage[r] \in {"gate", "entitlement", "tools", "attachment"} => orm[r] = "loaded"
  /\ Ready(r) => tx[r] = "none" /\ orm[r] = "detached"

LEMMA DetachedEffect ==
  ASSUME TypeOK, NEW r \in Requests, Detached(r)
  PROVE  /\ orm'[r] = IF orm[r] = "loaded" THEN "detached" ELSE orm[r]
         /\ \A q \in Requests \ {r} : orm'[q] = orm[q]
  BY DEF TypeOK, Detached

LEMMA OthersKeepInstance ==
  ASSUME TypeOK, NEW r \in Requests, NEW q \in Requests \ {r}, Pipeline(r)
  PROVE  orm'[q] = orm[q]
  <1>1. CASE LoadSession(r) \/ RefreshSession(r)
    BY <1>1 DEF LoadSession, RefreshSession, TypeOK
  <1>2. CASE RetriedQueryFails(r) \/ FinishSetup(r)
    BY <1>2, DetachedEffect DEF RetriedQueryFails, db_retry_once, RetryGivesUp, FinishSetup
  <1>3. CASE UNCHANGED orm
    BY <1>3
  <1> QED
    BY <1>1, <1>2, <1>3 DEF Pipeline, LoadAgent, ResolveOrgScope, LoadCredential, CreateLlm,
       CreateSession, CreateConflicts, CreateFails, RefreshFindsNothing, RefreshFails, ContactGate, LoadHistory, HistoryDetached,
       CheckEntitlement, EntitlementRaises, BuildContactTool, BuildMisconfigured,
       BuildWithCredential, BuilderRaises, CatalogueFails, BuilderRuns, ThreadEnds, ToolsGathered,
       AttachmentRaises, pipelineVars

LEMMA PipelineKeepsInstance ==
  ASSUME TypeOK, NEW r \in Requests, Instance(r), Pipeline(r)
  PROVE  Instance(r)'
  <1>a. /\ \A s : MoveTo(r, s) => stage'[r] = s /\ end'[r] = end[r] /\ req' = req
        /\ \A how : EndsAs(r, how) => stage'[r] = stage[r] /\ end'[r] = how /\ req' = req
    BY MoveMoves
  <1>b. /\ end'[r] \in {"refused", "escaped"} => Instance(r)'
        /\ end'[r] = "none" /\ stage'[r] \in {"scope", "credential", "llm", "session", "create", "refresh"}
             => Instance(r)'
    BY DEF Instance, Ready
  <1> USE <1>a, <1>b DEF At
  <1>1. CASE LoadAgent(r) \/ ResolveOrgScope(r) \/ LoadCredential(r) \/ CreateLlm(r)
    BY <1>1 DEF LoadAgent, ResolveOrgScope, LoadCredential, CreateLlm
  <1>2. CASE LoadSession(r)
    BY <1>2 DEF LoadSession, Instance, Ready, TypeOK
  <1>3. CASE \/ CreateSession(r) \/ CreateConflicts(r) \/ CreateFails(r)
             \/ RefreshFindsNothing(r) \/ RefreshFails(r)
    BY <1>3 DEF CreateSession, CreateConflicts, CreateFails, RefreshFindsNothing, RefreshFails
  <1>4. CASE RefreshSession(r)
    BY <1>4 DEF RefreshSession, Instance, Ready, TypeOK
  <1>5. CASE ContactGate(r) \/ LoadHistory(r) \/ HistoryDetached(r)
    BY <1>5 DEF ContactGate, LoadHistory, HistoryDetached, Instance, Ready
  <1>6. CASE RetriedQueryFails(r)
    <2>1. CASE db_retry_once(r)
      <3>1. stage'[r] = stage[r] /\ end'[r] = "none" /\ stage[r] \in Retried
        BY <1>6, <2>1 DEF RetriedQueryFails, db_retry_once
      <3>2. orm'[r] # "none" \/ orm[r] = "none"
        BY <2>1, DetachedEffect DEF db_retry_once
      <3> QED
        BY <1>6, <3>1, <3>2 DEF RetriedQueryFails, Instance, Ready, Retried
    <2> QED
      BY <1>6, <2>1 DEF RetriedQueryFails, RetryGivesUp
  <1>7. CASE CheckEntitlement(r) \/ EntitlementRaises(r)
    BY <1>7 DEF CheckEntitlement, EntitlementRaises, Instance, Ready
  <1>8. CASE Builds(r)
    BY <1>8 DEF Builds, BuildContactTool, BuildMisconfigured, BuildWithCredential, BuilderRaises,
                CatalogueFails, BuilderRuns, ThreadEnds, pipelineVars, Instance, Ready
  <1>9. CASE ToolsGathered(r) \/ AttachmentRaises(r)
    BY <1>9 DEF ToolsGathered, AttachmentRaises, Instance, Ready
  <1>10. CASE FinishSetup(r)
    <2>1. end'[r] = "ready" /\ tx'[r] = "none" /\ orm'[r] = "detached"
      BY <1>10, DetachedEffect, QueryEffect DEF FinishSetup
    <2> QED
      BY <2>1 DEF Instance
  <1> QED
    BY <1>1, <1>2, <1>3, <1>4, <1>5, <1>6, <1>7, <1>8, <1>9, <1>10 DEF Pipeline, Builds

LEMMA InstanceStep ==
  ASSUME TypeOK, \A r \in Requests : Instance(r), [Next]_vars, NEW q \in Requests
  PROVE  Instance(q)'
  <1>1. ASSUME NEW r \in Requests, Pipeline(r) PROVE Instance(q)'
    <2>1. CASE r = q
      BY <1>1, <2>1, PipelineKeepsInstance
    <2>2. CASE r # q
      <3>1. orm'[q] = orm[q] /\ Same(q)
        BY <1>1, <2>2, OthersKept, OthersKeepInstance
      <3> QED
        BY <3>1 DEF Same, Instance, Ready
    <2> QED
      BY <2>1, <2>2
  <1>2. ASSUME NEW r \in Requests, Cancelled(r) \/ InstanceStops(r) \/ SessionCollected(r)
        PROVE  Instance(q)'
    <2>1. /\ UNCHANGED <<stage, orm>>
          /\ q # r => end'[q] = end[q] /\ tx'[q] = tx[q]
          /\ \/ end'[r] = "cancelled"
             \/ end[r] \in Ends \ {"ready"} /\ end'[r] = end[r]
      BY <1>2 DEF Cancelled, InstanceStops, SessionCollected, EndsAs, Released, pipelineVars, TypeOK
    <2> QED
      BY <2>1 DEF Instance, Ready, Ends
  <1>3. CASE \/ \E u \in Uuids, row \in SessionRows : ServiceCreatesSession(u, row)
             \/ \E c \in Contacts : ContactDeleted(c)
             \/ \E S \in SUBSET Uuids : SessionsDropped(S)
             \/ UNCHANGED vars
    BY <1>3 DEF ServiceCreatesSession, ContactDeleted, SessionsDropped, vars, pipelineVars, Instance, Ready
  <1> QED
    BY <1>1, <1>2, <1>3 DEF Next, Environment

\* No setup gets stuck or fails for what an earlier step or a retry left behind: the guards
\* of the model that have no other case are met.
THEOREM SetupIsPrepared == Spec => [](\A r \in Requests : Prepared(r))
  <1>1. Init => \A r \in Requests : Instance(r)
    BY DEF Init, Instance, Ready
  <1>2. SetupInv /\ (\A r \in Requests : Instance(r)) /\ [Next]_vars => (\A r \in Requests : Instance(r))'
    BY InstanceStep DEF SetupInv
  <1>3. SetupInv /\ (\A r \in Requests : Instance(r)) => \A r \in Requests : Prepared(r)
    BY DEF SetupInv, Binding, ToolAccount, Bounded, Instance, Prepared
  <1> QED
    BY <1>1, <1>2, <1>3, SetupInvariant, PTL DEF Spec

-------------------------------------------------------------------------------
(* No setup goes round. *)

\* The stages in the order of prepare_agent_context.
Rank == [agent |-> 0, scope |-> 1, credential |-> 2, llm |-> 3, session |-> 4, create |-> 5,
         refresh |-> 6, gate |-> 7, history |-> 8, entitlement |-> 9, tools |-> 10,
         attachment |-> 11]

\* What makes a setup shorter: it ends, reaches a later stage, begins the one second attempt
\* of a query, has run one more builder, or has got back one more worker thread.
Advances(r) ==
  /\ end[r] = "none"
  /\ \/ end'[r] # "none"
     \/ end'[r] = "none" /\ Rank[stage[r]] < Rank[stage'[r]]
     \/ /\ end'[r] = "none" /\ stage'[r] = stage[r]
        /\ \/ attempt[r] = 1 /\ attempt'[r] = 2
           \/ attempt'[r] = attempt[r] /\ todo'[r] \subseteq todo[r] /\ todo'[r] # todo[r]
           \/ /\ attempt'[r] = attempt[r] /\ todo'[r] = todo[r]
              /\ threads'[r] \subseteq threads[r] /\ threads'[r] # threads[r]

Stays(r) ==
  /\ stage'[r] = stage[r] /\ end'[r] = end[r] /\ attempt'[r] = attempt[r]
  /\ todo'[r] = todo[r] /\ threads'[r] = threads[r]

\* A step advances one setup at most and leaves the others where they are; it leaves all of
\* them there only if it collects a session, or is another service's.
SetupsAdvance ==
  [][/\ \A r \in Requests : Stays(r) \/ Advances(r)
     /\ (\A r \in Requests : Stays(r)) =>
          \/ \E r \in Requests : tx[r] # "none" /\ tx'[r] = "none"
          \/ sessions' # sessions
          \/ deleted' # deleted
          \/ drops' # drops]_vars

LEMMA MoveAdvances ==
  ASSUME TypeOK, NEW r \in Requests, end[r] = "none"
  PROVE  /\ \A s \in Stages : MoveTo(r, s) /\ Rank[stage[r]] < Rank[s] => Advances(r)
         /\ \A how \in Ends : EndsAs(r, how) => Advances(r)
  BY DEF TypeOK, MoveTo, EndsAs, Advances

LEMMA BuilderAdvances ==
  ASSUME TypeOK, NEW r \in Requests
  PROVE  Builds(r) => Advances(r)
  <1>1. ASSUME NEW t \in Tools, NEW b, NEW m, BuilderRuns(r, t, b, m)
        PROVE  Advances(r)
    BY <1>1 DEF BuilderRuns, At, TypeOK, pipelineVars, Advances
  <1>2. ASSUME NEW t \in Tools, ThreadEnds(r, t)
        PROVE  Advances(r)
    BY <1>2 DEF ThreadEnds, At, TypeOK, pipelineVars, Advances
  <1> QED
    BY <1>1, <1>2
       DEF Builds, BuildContactTool, BuildMisconfigured, BuildWithCredential, BuilderRaises,
           CatalogueFails

LEMMA PipelineAdvances ==
  ASSUME TypeOK, NEW r \in Requests, Pipeline(r)
  PROVE  Advances(r)
  <1>a. end[r] = "none" => /\ \A s \in Stages : MoveTo(r, s) /\ Rank[stage[r]] < Rank[s] => Advances(r)
                           /\ \A how \in Ends : EndsAs(r, how) => Advances(r)
    BY MoveAdvances
  <1>1. CASE LoadAgent(r) \/ ResolveOrgScope(r) \/ LoadCredential(r) \/ CreateLlm(r)
             \/ LoadSession(r)
    BY <1>1, <1>a DEF LoadAgent, ResolveOrgScope, LoadCredential, CreateLlm, LoadSession, At, Rank
  <1>2. CASE \/ CreateSession(r) \/ CreateConflicts(r) \/ CreateFails(r)
             \/ RefreshSession(r) \/ RefreshFindsNothing(r) \/ RefreshFails(r)
    BY <1>2, <1>a
       DEF CreateSession, CreateConflicts, CreateFails, RefreshSession, RefreshFindsNothing,
           RefreshFails, At, Rank
  <1>3. CASE ContactGate(r) \/ LoadHistory(r) \/ HistoryDetached(r)
    BY <1>3, <1>a DEF ContactGate, LoadHistory, HistoryDetached, At, Rank
  <1>4. CASE RetriedQueryFails(r)
    <2>1. CASE db_retry_once(r)
      BY <1>4, <2>1 DEF RetriedQueryFails, db_retry_once, At, TypeOK, Advances
    <2> QED
      BY <1>4, <2>1, <1>a DEF RetriedQueryFails, RetryGivesUp, At
  <1>5. CASE CheckEntitlement(r) \/ EntitlementRaises(r)
    BY <1>5, <1>a DEF CheckEntitlement, EntitlementRaises, At, Rank
  <1>6. CASE Builds(r)
    BY <1>6, BuilderAdvances
  <1>7. CASE ToolsGathered(r) \/ FinishSetup(r) \/ AttachmentRaises(r)
    BY <1>7, <1>a DEF ToolsGathered, FinishSetup, AttachmentRaises, At, Rank
  <1> QED
    BY <1>1, <1>2, <1>3, <1>4, <1>5, <1>6, <1>7 DEF Pipeline, Builds

LEMMA AttemptKept ==
  ASSUME TypeOK, NEW r \in Requests, NEW q \in Requests \ {r}, Pipeline(r)
  PROVE  attempt'[q] = attempt[q]
  <1>1. /\ \A s : MoveTo(r, s) => attempt'[q] = attempt[q]
        /\ \A how : EndsAs(r, how) => attempt'[q] = attempt[q]
    BY DEF TypeOK, MoveTo, EndsAs
  <1>2. CASE RetriedQueryFails(r)
    BY <1>1, <1>2 DEF RetriedQueryFails, db_retry_once, RetryGivesUp, TypeOK
  <1>3. CASE UNCHANGED attempt
    BY <1>3
  <1> QED
    BY <1>1, <1>2, <1>3
       DEF Pipeline, LoadAgent, ResolveOrgScope, LoadCredential, CreateLlm, LoadSession,
           CreateSession, CreateConflicts, CreateFails, RefreshSession, RefreshFindsNothing,
           RefreshFails, ContactGate, LoadHistory,
           HistoryDetached, CheckEntitlement, EntitlementRaises, BuildContactTool,
           BuildMisconfigured, BuildWithCredential, BuilderRaises, CatalogueFails, BuilderRuns,
           ThreadEnds, ToolsGathered, FinishSetup, AttachmentRaises, pipelineVars

LEMMA SetupStepAdvances ==
  ASSUME TypeOK, Next
  PROVE  /\ \A r \in Requests : Stays(r) \/ Advances(r)
         /\ (\A r \in Requests : Stays(r)) =>
              \/ \E r \in Requests : tx[r] # "none" /\ tx'[r] = "none"
              \/ sessions' # sessions
              \/ deleted' # deleted
              \/ drops' # drops
  <1>r. \A s \in Stages : ~(Rank[s] < Rank[s])
    BY DEF Rank
  <1>a. ASSUME NEW r \in Requests, Advances(r) PROVE ~Stays(r)
    <2>1. stage[r] \in Stages /\ todo[r] \in SUBSET Tools /\ attempt[r] \in {1, 2}
      BY DEF TypeOK
    <2> QED
      BY <1>a, <1>r, <2>1 DEF Advances, Stays
  <1>1. ASSUME NEW r \in Requests, Pipeline(r)
        PROVE  Advances(r) /\ \A q \in Requests \ {r} : Stays(q)
    <2>1. ASSUME NEW q \in Requests \ {r} PROVE Stays(q)
      BY <1>1, OthersKept, AttemptKept DEF Same, SameTools, Stays
    <2> QED
      BY <1>1, <2>1, PipelineAdvances
  <1>2. ASSUME NEW r \in Requests, Cancelled(r) \/ InstanceStops(r)
        PROVE  Advances(r) /\ \A q \in Requests \ {r} : Stays(q)
    BY <1>2 DEF Cancelled, InstanceStops, EndsAs, At, TypeOK, Advances, Stays
  <1>3. ASSUME NEW r \in Requests, SessionCollected(r)
        PROVE  /\ \A q \in Requests : Stays(q)
               /\ tx[r] # "none" /\ tx'[r] = "none"
    BY <1>3 DEF SessionCollected, Released, TypeOK, pipelineVars, Stays
  <1>4. ASSUME NEW u \in Uuids, NEW row \in SessionRows, ServiceCreatesSession(u, row)
        PROVE  (\A q \in Requests : Stays(q)) /\ sessions' # sessions
    <2>1. row # None
      BY SetupAssumption DEF SessionRows
    <2> QED
      BY <1>4, <2>1 DEF ServiceCreatesSession, TypeOK, pipelineVars, Stays
  <1>5. ASSUME NEW c \in Contacts, ContactDeleted(c)
        PROVE  (\A q \in Requests : Stays(q)) /\ deleted' # deleted
    BY <1>5 DEF ContactDeleted, pipelineVars, Stays
  <1>6. ASSUME NEW S \in SUBSET Uuids, SessionsDropped(S)
        PROVE  (\A q \in Requests : Stays(q)) /\ drops' # drops
    BY <1>6 DEF SessionsDropped, TypeOK, Stays
  <1> QED
    BY <1>a, <1>1, <1>2, <1>3, <1>4, <1>5, <1>6 DEF Next, Environment

\* Setup is a path: every step of a turn's pipeline makes what is left of it shorter, the
\* retry included, whatever other requests and the API service do meanwhile.
THEOREM SetupOnlyAdvances == Spec => SetupsAdvance
  <1>1. TypeOK /\ [Next]_vars =>
          [/\ \A r \in Requests : Stays(r) \/ Advances(r)
           /\ (\A r \in Requests : Stays(r)) =>
                \/ \E r \in Requests : tx[r] # "none" /\ tx'[r] = "none"
                \/ sessions' # sessions
                \/ deleted' # deleted
                \/ drops' # drops]_vars
    BY SetupStepAdvances
  <1> QED
    BY <1>1, SetupTypeCorrect, PTL DEF Spec, SetupsAdvance
-------------------------------------------------------------------------------
(* What a setup does with its connection is what other turns are promised. *)

LEMMA ConnectionInit ==
  ASSUME Init, NEW r \in Requests
  PROVE  Connection(r)!Init
  <1>1. end[r] = "none" /\ tx[r] = "none"
    BY DEF Init
  <1> QED
    BY <1>1 DEF Connection!Init, Course

\* A step of a setup that runs queries, and perhaps ends it; one that leaves its connection
\* alone; or the collection of its session.
LEMMA ConnectionMoves ==
  ASSUME NEW r \in Requests,
         \/ /\ end[r] = "none"
            /\ end'[r] \in Ends \cup {"none"}
            /\ end'[r] = "ready" => tx'[r] = "none"
         \/ end'[r] = end[r] /\ tx'[r] = tx[r]
         \/ end[r] \in Ends \ {"ready"} /\ end'[r] = end[r] /\ tx[r] # "none" /\ tx'[r] = "none"
  PROVE  [Connection(r)!Next]_(Connection(r)!connectionVars)
  <1> USE DEF Course
  <1>1. CASE end'[r] = end[r] /\ tx'[r] = tx[r]
    BY <1>1 DEF Connection!connectionVars
  <1>2. CASE end[r] = "none" /\ end'[r] = "none"
    BY <1>2 DEF Connection!Next, Connection!Queries
  <1>3. CASE end[r] = "none" /\ end'[r] = "ready" /\ tx'[r] = "none"
    BY <1>3 DEF Connection!Next, Connection!Streams
  <1>4. CASE end[r] = "none" /\ end'[r] \in Ends \ {"ready"}
    BY <1>4 DEF Connection!Next, Connection!Ends
  <1>5. CASE end[r] \in Ends \ {"ready"} /\ end'[r] = end[r] /\ tx[r] # "none" /\ tx'[r] = "none"
    BY <1>5 DEF Connection!Next, Connection!Collected
  <1> QED
    BY <1>1, <1>2, <1>3, <1>4, <1>5

\* A setup that ended takes no connection any more.
LEMMA EndedConnection ==
  ASSUME TypeOK, [Next]_vars, NEW r \in Requests, end[r] # "none"
  PROVE  /\ end'[r] = end[r]
         /\ tx'[r] = tx[r] \/ (end[r] # "ready" /\ tx[r] # "none" /\ tx'[r] = "none")
  <1>1. ASSUME NEW q \in Requests, Pipeline(q) PROVE end'[r] = end[r] /\ tx'[r] = tx[r]
    <2>1. q # r
      BY <1>1, PipelineAdvances DEF Advances
    <2> QED
      BY <1>1, <2>1, OthersKept DEF Same
  <1>2. ASSUME NEW q \in Requests, Cancelled(q) \/ InstanceStops(q)
        PROVE  end'[r] = end[r] /\ tx'[r] = tx[r]
    BY <1>2 DEF Cancelled, InstanceStops, EndsAs, At, Released, TypeOK
  <1>3. ASSUME NEW q \in Requests, SessionCollected(q)
        PROVE  /\ end'[r] = end[r]
               /\ tx'[r] = tx[r] \/ (end[r] # "ready" /\ tx[r] # "none" /\ tx'[r] = "none")
    BY <1>3 DEF SessionCollected, Released, TypeOK, pipelineVars
  <1>4. CASE \/ \E u \in Uuids, row \in SessionRows : ServiceCreatesSession(u, row)
             \/ \E c \in Contacts : ContactDeleted(c)
             \/ \E S \in SUBSET Uuids : SessionsDropped(S)
             \/ UNCHANGED vars
    BY <1>4 DEF ServiceCreatesSession, ContactDeleted, SessionsDropped, vars, pipelineVars
  <1> QED
    BY <1>1, <1>2, <1>3, <1>4 DEF Next, Environment

LEMMA ConnectionStep ==
  ASSUME TypeOK, TypeOK', [Next]_vars, NEW r \in Requests, Prepared(r), Prepared(r)'
  PROVE  [Connection(r)!Next]_(Connection(r)!connectionVars)
  <1>1. CASE end[r] = "none"
    BY <1>1, ConnectionMoves DEF TypeOK, Prepared, Ready
  <1>2. CASE end[r] # "none"
    BY <1>2, EndedConnection, ConnectionMoves DEF TypeOK
  <1> QED
    BY <1>1, <1>2

\* Setup implements SetupConnection: what the model of the pool assumes of it, a turn that
\* streams without the connection of its setup among it, the pipeline keeps with all its
\* retries, races and ends.
THEOREM SetupKeepsItsConnection == Spec => ConnectionSpec
  <1>1. Init => \A r \in Requests : Connection(r)!Init
    BY ConnectionInit
  <1> DEFINE AllPrepared == \A r \in Requests : Prepared(r)
  <1>2. TypeOK /\ TypeOK' /\ AllPrepared /\ AllPrepared' /\ [Next]_vars =>
          [\A r \in Requests : [Connection(r)!Next]_(Connection(r)!connectionVars)]_vars
    BY ConnectionStep
  <1>3. Spec => []AllPrepared
    BY SetupIsPrepared
  <1> HIDE DEF AllPrepared
  <1> QED
    BY <1>1, <1>2, <1>3, SetupTypeCorrect, PTL DEF Spec, ConnectionSpec
==============================================================================
