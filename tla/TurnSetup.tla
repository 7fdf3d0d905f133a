------------------------------- MODULE TurnSetup ------------------------------
(***************************************************************************)
(* What happens before a turn streams: prepare_agent_context of            *)
(* src/src/routers/agents/context.py, the retry helper it wraps around     *)
(* some of its queries and the construction of the tools.                  *)
(*                                                                         *)
(* Every request runs the same pipeline of queries over the one SQLAlchemy *)
(* session FastAPI gave it.  The requests of this module run on different  *)
(* instances of the service, so any two queries of theirs interleave; the  *)
(* rows of chat_sessions are shared with them and with the service that    *)
(* creates contact-bound sessions and deletes agents and accounts.         *)
(*                                                                         *)
(* A session is followed in three respects: whether it holds a connection  *)
(* and whether that connection's transaction is still usable (tx), and     *)
(* whether the ChatSession instance it loaded can still be read (orm).     *)
(* The outcome of an access decision or of a credential lookup is free.    *)
(***************************************************************************)
EXTENDS Naturals, FiniteSets

CONSTANTS
  Requests,        \* requests, one turn each
  Accounts,        \* callers
  Uuids,           \* session ids chosen by clients
  Contacts,        \* CRM contacts
  KnowledgeTools,  \* configured tools by kind: vector search,
  DbTools,         \*   read and write of customer databases,
  EmailTools,      \*   emails queued for approval,
  HtmlTools,       \*   those of them with a catalogue of templates,
  ContactTools,    \*   contact-scoped tools (CONTACT_SCOPED_TOOL_TYPES)
  None,            \* "no contact", "no row"
  MaxFaults,       \* bound: database faults of one behaviour
  MaxDrops         \* bound: deletions that take sessions with them

Tools == KnowledgeTools \cup DbTools \cup EmailTools \cup ContactTools

\* A row of chat_sessions, as far as setup reads it.
SessionRows == [account : Accounts, contact : Contacts \cup {None}]

ASSUME SetupAssumption ==
  /\ None \notin Contacts
  /\ None \notin SessionRows
  /\ ContactTools \cap (KnowledgeTools \cup DbTools \cup EmailTools) = {}
  /\ HtmlTools \subseteq EmailTools
  /\ MaxFaults \in Nat
  /\ MaxDrops \in Nat

VARIABLES
  req,       \* what each request asks for: account, uuid, configured tools, path
  stage,     \* the step of prepare_agent_context a request is in or ended in
  end,       \* how setup ended, "none" while it runs
  attempt,   \* 1, or 2 once db_retry_once has rolled back and closed
  tx,        \* the request session: "none", "held" a connection, "broken"
  orm,       \* the ChatSession instance: "none", "loaded", "detached"
  contact,   \* contact_id as it was when the instance was loaded
  backing,   \* the row that instance was loaded from: "none", "stored", "deleted" since
  todo,      \* tools whose builder has not run
  threads,   \* tools whose builder reflects a schema in a worker thread
  allowed,   \* tools the entitlement check kept
  built,     \* tools built
  misfit,    \* history: tools whose own configuration or credential was bad
  struck,    \* history: the database faults each request met
  faults,    \* faults so far
  sessions,  \* the chat_sessions row of each uuid (unique key)
  deleted,   \* contacts deleted so far
  drops      \* deletions of agents and accounts so far

scopeVars    == <<orm, contact, backing>>
pipelineVars == <<stage, end, attempt, scopeVars>>
toolVars     == <<todo, threads, allowed, built, misfit>>
faultVars    == <<struck, faults>>
sharedVars   == <<sessions, deleted, drops>>
vars == <<req, pipelineVars, tx, toolVars, faultVars, sharedVars>>

Stages == {"agent", "scope", "credential", "llm", "session", "create", "refresh", "gate",
           "history", "entitlement", "tools", "attachment"}
Ends   == {"ready", "refused", "escaped", "cancelled"}

\* The stages whose query runs inside db_retry_once.
Retried == {"agent", "credential", "session", "history"}

\* override: the code-defined contact agent, which declares the contact tools.
RequestSpace ==
  {q \in [account : Accounts, uuid : Uuids, tools : SUBSET Tools, override : BOOLEAN] :
     q.override => q.tools = ContactTools}

Init ==
  /\ req \in [Requests -> RequestSpace]
  /\ stage = [r \in Requests |-> IF req[r].override THEN "scope" ELSE "agent"]
  /\ end = [r \in Requests |-> "none"]
  /\ attempt = [r \in Requests |-> 1]
  /\ tx = [r \in Requests |-> "none"]
  /\ orm = [r \in Requests |-> "none"]
  /\ contact = [r \in Requests |-> None]
  /\ backing = [r \in Requests |-> "none"]
  /\ todo = [r \in Requests |-> {}]
  /\ threads = [r \in Requests |-> {}]
  /\ allowed = [r \in Requests |-> {}]
  /\ built = [r \in Requests |-> {}]
  /\ misfit = [r \in Requests |-> {}]
  /\ struck = [r \in Requests |-> {}]
  /\ faults = 0
  /\ sessions = [u \in Uuids |-> None]
  /\ deleted = {}
  /\ drops = 0

-------------------------------------------------------------------------------
(* Queries on the request session. *)

At(r, s) == end[r] = "none" /\ stage[r] = s

\* A query is answered: the session holds a connection from then on.
Answered(r) ==
  /\ tx[r] # "broken"
  /\ tx' = [tx EXCEPT ![r] = "held"]
  /\ UNCHANGED faultVars

\* A database fault of a kind: "transient" when its text matches the patterns of
\* retry.py.  Whether the connection broke or could not be had, left says what the
\* session is left with.
Fault(r, kind, left) ==
  /\ tx[r] # "broken"
  /\ faults < MaxFaults
  /\ faults' = faults + 1
  /\ struck' = [struck EXCEPT ![r] =
       @ \cup {[stage |-> stage[r], attempt |-> attempt[r], kind |-> kind]}]
  /\ left = "none" => tx[r] = "none"
  /\ left \in {"none", "broken"}

\* A query on a session nobody rolled back after a fault: PendingRollbackError,
\* which is no OperationalError and is never retried.
Unusable(r) ==
  /\ tx[r] = "broken"
  /\ UNCHANGED <<tx, faultVars>>

\* A query that raises and is not retried.
Raises(r) ==
  \/ Unusable(r)
  \/ \E kind \in {"transient", "other"}, left \in {"none", "broken"} :
       Fault(r, kind, left) /\ tx' = [tx EXCEPT ![r] = left]

MoveTo(r, s) ==
  /\ stage' = [stage EXCEPT ![r] = s]
  /\ attempt' = [attempt EXCEPT ![r] = 1]
  /\ UNCHANGED <<req, end>>

EndsAs(r, how) ==
  /\ end' = [end EXCEPT ![r] = how]
  /\ UNCHANGED <<req, stage, attempt>>

\* Session.rollback and Session.close: the connection goes back to the pool, the
\* instances are expired and detached.
Released(r) == tx' = [tx EXCEPT ![r] = "none"]
Detached(r) == orm' = [orm EXCEPT ![r] = IF @ = "loaded" THEN "detached" ELSE @]

\* Mutant: the session is not rolled back and closed between the attempts.
Mut_db_retry_once(r) ==
  /\ attempt[r] = 1
  /\ \E left \in {"none", "broken"} :
       Fault(r, "transient", left) /\ tx' = [tx EXCEPT ![r] = left]
  /\ attempt' = [attempt EXCEPT ![r] = 2]
  /\ UNCHANGED <<req, stage, end, scopeVars, toolVars, sharedVars>>

\* Mutant: nothing counts the attempts.
Mut_Unbounded(r) ==
  /\ \E left \in {"none", "broken"} : Fault(r, "transient", left)
  /\ Released(r)
  /\ Detached(r)
  /\ attempt' = [attempt EXCEPT ![r] = @ + 1]
  /\ UNCHANGED <<req, stage, end, contact, backing, toolVars, sharedVars>>

\* The first attempt meets a transient fault: roll back, close, sleep, try again.
db_retry_once(r) ==
  /\ attempt[r] = 1
  /\ \E left \in {"none", "broken"} : Fault(r, "transient", left)
  /\ Released(r)
  /\ Detached(r)
  /\ attempt' = [attempt EXCEPT ![r] = 2]
  /\ UNCHANGED <<req, stage, end, contact, backing, toolVars, sharedVars>>

\* The first attempt meets another fault, or the second one any: it propagates.
RetryGivesUp(r) ==
  /\ \/ Unusable(r)
     \/ \E kind \in {"transient", "other"}, left \in {"none", "broken"} :
          /\ kind = "transient" => attempt[r] = 2
          /\ Fault(r, kind, left)
          /\ tx' = [tx EXCEPT ![r] = left]
  /\ EndsAs(r, "escaped")
  /\ UNCHANGED <<scopeVars, toolVars, sharedVars>>

-------------------------------------------------------------------------------
(* The pipeline. *)

\* load_agent_with_access_check finds an agent with a config the caller may use.
LoadAgent(r) ==
  /\ At(r, "agent")
  /\ Answered(r)
  /\ \/ MoveTo(r, "scope")
     \/ EndsAs(r, "refused")
  /\ UNCHANGED <<scopeVars, toolVars, sharedVars>>

\* _resolve_org_scope, two queries without a retry: the organization of the agent,
\* or the caller's default one, and the caller's membership in it.
ResolveOrgScope(r) ==
  /\ At(r, "scope")
  /\ \/ /\ Answered(r)
        /\ MoveTo(r, "credential") \/ EndsAs(r, "refused")
     \/ Raises(r) /\ EndsAs(r, "escaped")
  /\ UNCHANGED <<scopeVars, toolVars, sharedVars>>

\* The credential of the funding account and its decryption.  A provider without a key
\* needs no query.
LoadCredential(r) ==
  /\ At(r, "credential")
  /\ Answered(r) \/ UNCHANGED <<tx, faultVars>>
  /\ MoveTo(r, "llm") \/ EndsAs(r, "refused")
  /\ UNCHANGED <<scopeVars, toolVars, sharedVars>>

\* The client for the model and the parsing of the session id: a ValueError of either is
\* a refusal, anything else the client's constructor raises escapes.
CreateLlm(r) ==
  /\ At(r, "llm")
  /\ MoveTo(r, "session") \/ EndsAs(r, "refused") \/ EndsAs(r, "escaped")
  /\ UNCHANGED <<scopeVars, tx, toolVars, faultVars, sharedVars>>

\* Mutant: the lookup of the session does not filter by account.
Mut_OwnRow(r) == sessions[req[r].uuid] # None

\* The lookup filters by session id and by account.
OwnRow(r) ==
  sessions[req[r].uuid] # None /\ sessions[req[r].uuid].account = req[r].account

LoadSession(r) ==
  /\ At(r, "session")
  /\ Answered(r)
  /\ \/ /\ OwnRow(r)
        /\ orm' = [orm EXCEPT ![r] = "loaded"]
        /\ contact' = [contact EXCEPT ![r] = sessions[req[r].uuid].contact]
        /\ backing' = [backing EXCEPT ![r] = "stored"]
        /\ MoveTo(r, "gate")
     \/ /\ ~OwnRow(r)
        /\ MoveTo(r, "create")
        /\ UNCHANGED scopeVars
  /\ UNCHANGED <<toolVars, sharedVars>>

\* Mutant: INSERT ... ON CONFLICT DO UPDATE.
Mut_Inserts(r) ==
  sessions' = [sessions EXCEPT ![req[r].uuid] = [account |-> req[r].account, contact |-> None]]

\* The new row is bound to no contact; another row with this uuid refuses it.
Inserts(r) ==
  /\ sessions[req[r].uuid] = None
  /\ sessions' = [sessions EXCEPT ![req[r].uuid] =
                    [account |-> req[r].account, contact |-> None]]

\* add and commit; the commit ends the transaction and expires the instance.
CreateSession(r) ==
  /\ At(r, "create")
  /\ tx[r] # "broken"
  /\ Inserts(r)
  /\ backing' = [backing EXCEPT ![r] = "stored"]
  /\ Released(r)
  /\ MoveTo(r, "refresh")
  /\ UNCHANGED <<orm, contact, toolVars, faultVars, deleted, drops>>

\* The row exists by now, whoever created it, or the account or agent it refers to is
\* gone: rollback and refusal.
CreateConflicts(r) ==
  /\ At(r, "create")
  /\ sessions[req[r].uuid] # None \/ drops > 0
  /\ Released(r)
  /\ EndsAs(r, "refused")
  /\ UNCHANGED <<scopeVars, toolVars, faultVars, sharedVars>>

\* A fault at the commit, which may have happened all the same.
CreateFails(r) ==
  /\ At(r, "create")
  /\ \E kind \in {"transient", "other"} : Fault(r, kind, "broken")
  /\ Inserts(r) \/ UNCHANGED sessions
  /\ Released(r)
  /\ EndsAs(r, "refused")
  /\ UNCHANGED <<scopeVars, toolVars, deleted, drops>>

\* db.refresh reads the committed row back.
RefreshSession(r) ==
  /\ At(r, "refresh")
  /\ backing[r] = "stored"
  /\ Answered(r)
  /\ orm' = [orm EXCEPT ![r] = "loaded"]
  /\ contact' = [contact EXCEPT ![r] = sessions[req[r].uuid].contact]
  /\ MoveTo(r, "gate")
  /\ UNCHANGED <<backing, toolVars, sharedVars>>

\* The row was deleted since the commit: the refresh finds none with its key, although
\* another one may have the same uuid by now.
RefreshFindsNothing(r) ==
  /\ At(r, "refresh")
  /\ backing[r] # "stored"
  /\ tx[r] # "broken"
  /\ Released(r)
  /\ EndsAs(r, "refused")
  /\ UNCHANGED <<scopeVars, toolVars, faultVars, sharedVars>>

\* A failing refresh is refused like a failing creation; the row stays.
RefreshFails(r) ==
  /\ At(r, "refresh")
  /\ \E kind \in {"transient", "other"}, left \in {"none", "broken"} : Fault(r, kind, left)
  /\ Released(r)
  /\ EndsAs(r, "refused")
  /\ UNCHANGED <<scopeVars, toolVars, sharedVars>>

contact_session_required(r) == req[r].tools \cap ContactTools # {}

\* Mutant: the guard looks at the override only, not at the tools of the config.
Mut_ContactGate(r) ==
  /\ At(r, "gate")
  /\ IF req[r].override /\ contact[r] = None
     THEN EndsAs(r, "refused")
     ELSE MoveTo(r, "history")
  /\ UNCHANGED <<scopeVars, tx, toolVars, faultVars, sharedVars>>

\* Contact-scoped tools and no bound contact: refused.
ContactGate(r) ==
  /\ At(r, "gate")
  /\ IF contact_session_required(r) /\ contact[r] = None
     THEN EndsAs(r, "refused")
     ELSE MoveTo(r, "history")
  /\ UNCHANGED <<scopeVars, tx, toolVars, faultVars, sharedVars>>

\* The retried function reads session.id before it queries.
LoadHistory(r) ==
  /\ At(r, "history")
  /\ orm[r] = "loaded"
  /\ Answered(r)
  /\ MoveTo(r, "entitlement")
  /\ UNCHANGED <<scopeVars, toolVars, sharedVars>>

\* DetachedInstanceError: the instance was expired and detached by the retry.
HistoryDetached(r) ==
  /\ At(r, "history")
  /\ orm[r] = "detached"
  /\ EndsAs(r, "escaped")
  /\ UNCHANGED <<scopeVars, tx, toolVars, faultVars, sharedVars>>

RetriedQueryFails(r) ==
  /\ \E s \in Retried : At(r, s)
  /\ stage[r] = "history" => orm[r] = "loaded"
  /\ db_retry_once(r) \/ RetryGivesUp(r)

-------------------------------------------------------------------------------
(* Tools. *)

Modules == {"knowledge_bases", "email_campaigns", "contacts"}

\* TOOL_MODULES: the tools a set of granted modules leaves.
Permitted(S, granted) ==
  {t \in S : /\ t \in KnowledgeTools => "knowledge_bases" \in granted
             /\ t \in EmailTools => "email_campaigns" \in granted
             /\ t \in ContactTools => "contacts" \in granted}

\* effective_modules, without a retry, and allowed_tool_configs.
CheckEntitlement(r) ==
  /\ At(r, "entitlement")
  /\ Answered(r)
  /\ \E granted \in SUBSET Modules :
       /\ allowed' = [allowed EXCEPT ![r] = Permitted(req[r].tools, granted)]
       /\ todo' = [todo EXCEPT ![r] = Permitted(req[r].tools, granted)]
  /\ MoveTo(r, "tools")
  /\ UNCHANGED <<scopeVars, threads, built, misfit, sharedVars>>

EntitlementRaises(r) ==
  /\ At(r, "entitlement")
  /\ Raises(r)
  /\ EndsAs(r, "escaped")
  /\ UNCHANGED <<scopeVars, toolVars, sharedVars>>

\* The builder of t runs: built, skipped for its own configuration, or neither.
BuilderRuns(r, t, isBuilt, isMisfit) ==
  /\ At(r, "tools")
  /\ t \in todo[r]
  /\ todo' = [todo EXCEPT ![r] = @ \ {t}]
  /\ built' = [built EXCEPT ![r] = IF isBuilt THEN @ \cup {t} ELSE @]
  /\ misfit' = [misfit EXCEPT ![r] = IF isMisfit THEN @ \cup {t} ELSE @]
  /\ UNCHANGED <<req, pipelineVars, allowed, sharedVars>>

\* A contact tool only closes over its scope.
BuildContactTool(r, t) ==
  /\ t \in ContactTools
  /\ BuilderRuns(r, t, TRUE, FALSE)
  /\ UNCHANGED <<tx, threads, faultVars>>

\* A builder that finds its configuration incomplete raises before any query.
BuildMisconfigured(r, t) ==
  /\ t \notin ContactTools
  /\ BuilderRuns(r, t, FALSE, TRUE)
  /\ UNCHANGED <<tx, threads, faultVars>>

\* The credential of the tool is looked up on the request session.  A database tool
\* may then go on in a worker thread (a read without a list of columns does).
BuildWithCredential(r, t) ==
  /\ t \notin ContactTools
  /\ Answered(r)
  /\ \/ BuilderRuns(r, t, TRUE, FALSE) /\ UNCHANGED threads
     \/ BuilderRuns(r, t, FALSE, TRUE) /\ UNCHANGED threads
     \/ /\ t \in DbTools
        /\ threads' = [threads EXCEPT ![r] = @ \cup {t}]
        /\ BuilderRuns(r, t, FALSE, FALSE)

\* _build_tool logs whatever a builder raises and skips the tool.
BuilderRaises(r, t) ==
  /\ t \notin ContactTools
  /\ BuilderRuns(r, t, FALSE, FALSE)
  /\ Raises(r)
  /\ UNCHANGED threads

\* The HTML email builder swallows a fault of its catalogue query itself.
CatalogueFails(r, t) ==
  /\ t \in HtmlTools
  /\ BuilderRuns(r, t, TRUE, FALSE)
  /\ \E kind \in {"transient", "other"} : Fault(r, kind, "broken")
  /\ tx' = [tx EXCEPT ![r] = "broken"]
  /\ UNCHANGED threads

\* connect and reflect in a worker thread, on an engine of its own.
ThreadEnds(r, t) ==
  /\ At(r, "tools")
  /\ t \in threads[r]
  /\ threads' = [threads EXCEPT ![r] = @ \ {t}]
  /\ \/ built' = [built EXCEPT ![r] = @ \cup {t}] /\ UNCHANGED misfit
     \/ misfit' = [misfit EXCEPT ![r] = @ \cup {t}] /\ UNCHANGED built
  /\ UNCHANGED <<req, pipelineVars, tx, todo, allowed, faultVars, sharedVars>>

\* Mutant: nobody waits for the worker threads.
Mut_ThreadsNotAwaited(r) ==
  /\ At(r, "tools")
  /\ todo[r] = {}
  /\ MoveTo(r, "attachment")
  /\ UNCHANGED <<scopeVars, tx, toolVars, faultVars, sharedVars>>

ToolsGathered(r) ==
  /\ At(r, "tools")
  /\ todo[r] = {}
  /\ threads[r] = {}
  /\ MoveTo(r, "attachment")
  /\ UNCHANGED <<scopeVars, tx, toolVars, faultVars, sharedVars>>

\* Mutant: the session is left to the request's own clean-up.
Mut_FinishSetup(r) ==
  /\ At(r, "attachment")
  /\ EndsAs(r, "ready")
  /\ UNCHANGED <<scopeVars, tx, toolVars, faultVars, sharedVars>>

\* session.id is read and the session closed: the context is ready.
FinishSetup(r) ==
  /\ At(r, "attachment")
  /\ orm[r] = "loaded"
  /\ EndsAs(r, "ready")
  /\ Released(r)
  /\ Detached(r)
  /\ UNCHANGED <<contact, backing, toolVars, faultVars, sharedVars>>

\* An attachment that is no PDF makes the conversion raise.
AttachmentRaises(r) ==
  /\ At(r, "attachment")
  /\ EndsAs(r, "escaped")
  /\ UNCHANGED <<scopeVars, tx, toolVars, faultVars, sharedVars>>

-------------------------------------------------------------------------------
(* The client, the instance and the other service. *)

\* The client leaves while setup awaits the tools or the conversion.  Nobody closes
\* the session.
Cancelled(r) ==
  /\ At(r, "tools") \/ At(r, "attachment")
  /\ EndsAs(r, "cancelled")
  /\ UNCHANGED <<scopeVars, tx, toolVars, faultVars, sharedVars>>

\* The instance stops between any two steps; the server drops its connections.
InstanceStops(r) ==
  /\ end[r] = "none"
  /\ EndsAs(r, "cancelled")
  /\ Released(r)
  /\ UNCHANGED <<scopeVars, toolVars, faultVars, sharedVars>>

\* A session that was never closed is collected with the generator's frame, which
\* a ready turn keeps for as long as it streams (external).
SessionCollected(r) ==
  /\ end[r] \in Ends \ {"ready"}
  /\ tx[r] # "none"
  /\ Released(r)
  /\ UNCHANGED <<req, pipelineVars, toolVars, faultVars, sharedVars>>

\* The API service creates a session, bound to a contact or not (external).
ServiceCreatesSession(u, row) ==
  /\ sessions[u] = None
  /\ row.contact \notin deleted
  /\ sessions' = [sessions EXCEPT ![u] = row]
  /\ UNCHANGED <<req, pipelineVars, tx, toolVars, faultVars, deleted, drops>>

\* ON DELETE SET NULL clears the binding of every session (external).
ContactDeleted(c) ==
  /\ c \notin deleted
  /\ deleted' = deleted \cup {c}
  /\ sessions' = [u \in Uuids |->
       IF sessions[u] # None /\ sessions[u].contact = c
       THEN [sessions[u] EXCEPT !.contact = None] ELSE sessions[u]]
  /\ UNCHANGED <<req, pipelineVars, tx, toolVars, faultVars, drops>>

\* An agent or an account is deleted, and its sessions with it: ON DELETE CASCADE
\* (external).  It may have none.
SessionsDropped(S) ==
  /\ drops < MaxDrops
  /\ drops' = drops + 1
  /\ sessions' = [u \in Uuids |-> IF u \in S THEN None ELSE sessions[u]]
  /\ backing' = [r \in Requests |->
       IF backing[r] = "stored" /\ req[r].uuid \in S THEN "deleted" ELSE backing[r]]
  /\ UNCHANGED <<req, stage, end, attempt, orm, contact, tx, toolVars, faultVars, deleted>>

Pipeline(r) ==
  \/ LoadAgent(r)
  \/ ResolveOrgScope(r)
  \/ LoadCredential(r)
  \/ CreateLlm(r)
  \/ LoadSession(r)
  \/ CreateSession(r)
  \/ CreateConflicts(r)
  \/ CreateFails(r)
  \/ RefreshSession(r)
  \/ RefreshFindsNothing(r)
  \/ RefreshFails(r)
  \/ ContactGate(r)
  \/ LoadHistory(r)
  \/ HistoryDetached(r)
  \/ RetriedQueryFails(r)
  \/ CheckEntitlement(r)
  \/ EntitlementRaises(r)
  \/ \E t \in Tools : BuildContactTool(r, t)
  \/ \E t \in Tools : BuildMisconfigured(r, t)
  \/ \E t \in Tools : BuildWithCredential(r, t)
  \/ \E t \in Tools : BuilderRaises(r, t)
  \/ \E t \in Tools : CatalogueFails(r, t)
  \/ \E t \in Tools : ThreadEnds(r, t)
  \/ ToolsGathered(r)
  \/ FinishSetup(r)
  \/ AttachmentRaises(r)

Environment ==
  \/ \E r \in Requests : Cancelled(r)
  \/ \E r \in Requests : InstanceStops(r)
  \/ \E u \in Uuids, row \in SessionRows : ServiceCreatesSession(u, row)
  \/ \E c \in Contacts : ContactDeleted(c)
  \/ \E S \in SUBSET Uuids : SessionsDropped(S)

Next ==
  \/ \E r \in Requests : Pipeline(r)
  \/ \E r \in Requests : SessionCollected(r)
  \/ Environment

Spec == Init /\ [][Next]_vars

\* Queries, threads and conversions answer or raise; frames are collected.
Fairness ==
  /\ \A r \in Requests : WF_vars(Pipeline(r))
  /\ \A r \in Requests : WF_vars(SessionCollected(r))

FairSpec == Spec /\ Fairness

-------------------------------------------------------------------------------
(* Properties. *)

FaultRecords ==
  [stage : Stages, attempt : {1, 2}, kind : {"transient", "other"}]

TypeOK ==
  /\ req \in [Requests -> RequestSpace]
  /\ stage \in [Requests -> Stages]
  /\ end \in [Requests -> Ends \cup {"none"}]
  /\ attempt \in [Requests -> {1, 2}]
  /\ tx \in [Requests -> {"none", "held", "broken"}]
  /\ orm \in [Requests -> {"none", "loaded", "detached"}]
  /\ contact \in [Requests -> Contacts \cup {None}]
  /\ backing \in [Requests -> {"none", "stored", "deleted"}]
  /\ todo \in [Requests -> SUBSET Tools]
  /\ threads \in [Requests -> SUBSET Tools]
  /\ allowed \in [Requests -> SUBSET Tools]
  /\ built \in [Requests -> SUBSET Tools]
  /\ misfit \in [Requests -> SUBSET Tools]
  /\ struck \in [Requests -> SUBSET FaultRecords]
  /\ faults \in 0 .. MaxFaults
  /\ sessions \in [Uuids -> SessionRows \cup {None}]
  /\ deleted \in SUBSET Contacts
  /\ drops \in 0 .. MaxDrops

Ready(r) == end[r] = "ready"

\* A turn streams on a committed session of its own account, although the client
\* chooses the id and other requests and another service create rows meanwhile.  Only
\* the deletion of an agent or account can have taken that session away since.
ReadyOnOwnSession ==
  \A r \in Requests : Ready(r) =>
    \/ backing[r] = "deleted"
    \/ /\ backing[r] = "stored"
       /\ sessions[req[r].uuid] # None
       /\ sessions[req[r].uuid].account = req[r].account

\* Contact tools exist only in a turn that has a contact, and that contact is the
\* one its session is bound to or one that was deleted since, unless the session itself
\* was deleted.
ContactToolsScoped ==
  \A r \in Requests : Ready(r) /\ built[r] \cap ContactTools # {} =>
    /\ contact[r] # None
    /\ \/ backing[r] = "deleted"
       \/ contact[r] = sessions[req[r].uuid].contact
       \/ contact[r] \in deleted

RecoversAt(s) ==
  \A r \in Requests : end[r] = "escaped" /\ stage[r] = s =>
    \E f \in struck[r] : f.stage = s /\ (f.attempt = 2 \/ f.kind = "other")

\* One dropped connection at the first three retried queries does not fail a turn.
RetryRecovers == \A s \in Retried \ {"history"} : RecoversAt(s)

\* Whatever happens to the builders before it, a permitted contact tool is built.
ContactToolsSurvive ==
  \A r \in Requests : Ready(r) => allowed[r] \cap ContactTools \subseteq built[r]

\* A tool is missing from a turn only for its own configuration, or because a fault
\* struck while the tools were built.
SkippedToolsHaveCause ==
  \A r \in Requests : Ready(r) /\ (\A f \in struck[r] : f.stage # "tools") =>
    built[r] = allowed[r] \ misfit[r]

\* Setup creates sessions and neither changes nor removes any: until its agent or account
\* is deleted, an existing row keeps its account, and its contact until that is deleted.
SessionsNeverRebound ==
  [][\A u \in Uuids : sessions[u] # None =>
       \/ sessions'[u] = None /\ drops' > drops
       \/ /\ sessions'[u] # None
          /\ sessions'[u].account = sessions[u].account
          /\ sessions'[u].contact # sessions[u].contact =>
               sessions'[u].contact = None /\ sessions[u].contact \in deleted']_vars

\* Every setup ends and gives its connection back: a ready one before the stream
\* begins, the others, which nobody closes, when their frame is collected.
SetupEnds == \A r \in Requests : <>(end[r] \in Ends /\ tx[r] = "none")

\* Which tools a turn has is known from its configuration and the faults of its setup.
BuiltToolsAreExplained == ContactToolsSurvive /\ SkippedToolsHaveCause

-------------------------------------------------------------------------------
(* The connection of a setup implements SetupConnection. *)

Course(r) ==
  IF end[r] = "none" THEN "setup" ELSE IF end[r] = "ready" THEN "streaming" ELSE "over"

Connection(r) == INSTANCE SetupConnection WITH stage <- Course(r), held <- tx[r] # "none"

\* Through retries, rollbacks, broken transactions and cancellations, what the session of
\* a request does to the pool is what other turns are promised.
ConnectionSpec ==
  /\ \A r \in Requests : Connection(r)!Init
  /\ [][\A r \in Requests : [Connection(r)!Next]_(Connection(r)!connectionVars)]_vars

-------------------------------------------------------------------------------
(* What the documents say and the code does not do. *)

\* db/retry.py:29: on a transient error, rollback, close, and retry once.
HistoryRetryRecovers == RecoversAt("history")

\* docs/AGENT_API.md:190: an error of the setup is a terminal error event, which
\* the generator sends for AgentSetupError only.
SetupErrorsReported == \A r \in Requests : end[r] # "escaped"
===============================================================================
