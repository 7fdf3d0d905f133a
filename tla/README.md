# TLA+ models of the agent API

The agent API (`src/`, a FastAPI service) streams the answer of a configured LLM
agent as server-sent events, lets the agent call tools, and keeps the chat in a
PostgreSQL database it shares with a second service, the main AI API. This directory
models that behaviour in TLA+, checks it with TLC on small instances and proves its
safety properties with TLAPS for every instance.

Paths below are relative to the application package (`src/src/` in `PROJECT.json`)
unless they start with `docs/` or `tests/`.

    tlc -config AgentStream.cfg MCAgentStream        # a run, see the table of runs
    tlapm AgentStreamProofs.tla                      # the proofs of a component

## 1. The system

One request is one turn. The endpoint (`routers/agents/stream.py` or
`routers/agents/contact_chat.py`) authenticates, gets one SQLAlchemy session from
`deps.get_db` and returns a `StreamingResponse` over `generator`. The generator first
awaits `prepare_agent_context` (setup), which closes the session on its last line, and
then consumes the events of a LangChain executor (agents with tools) or of the bare
chat model (agents without). Messages, approvals and tools use short-lived sessions
of their own after that. Many instances of the service run at once; each has one event
loop and one connection pool.

| Component | State | Operations | Interacts with | What is hard | What makes it correct | Module |
|---|---|---|---|---|---|---|
| Agent stream generator (`stream.py`, `helpers/sse_events.py`) | accumulated tool calls, "question stored" flag, text of the simple path, the open response | one branch per LangChain event, two except clauses, the end of the stream | runner task (event queue), message stores, client | the runner is ahead of the generator, tools of a round overlap, the client may leave at every yield | well-formed stream, one terminal event, tool runs paired, transcript and stream agree | `AgentStream`, `StreamContract` |
| Chat message persistence (`helpers/message_history.py`) | rows of `chat_messages` | store question, store answer, rebuild the history | generator, setup of the next turn | failures are swallowed; order is by `created_at` | at most one question and answer per turn, success is durable, a history is the past of its turn | `TurnRecord`, `AgentStream`, `Conversation` |
| Approval queueing (`tools/hitl_email_base.py`) | rows of `pending_tool_approvals` | commit a pending row, report it by a sentinel | tool run, generator, approval service | failure after the commit, siblings that fail | announced implies committed, reported failure implies nothing queued | `AgentStream` |
| Tool call formatting (`helpers/tool_calls.py`) | none | accept, reject or raise | generator | raises in the middle of a round | see generator | `AgentStream` |
| Turn setup (`context.py`, `db/retry.py`) | pipeline stage, request session, `ChatSession` instance | load agent, scope, credential, session, contact, history, entitlement, tools, attachment; retry | database rows shared with other instances and the AI API, tool builders | races on the session row, expired instances after a retry, failing queries at every stage, cancelled awaits | a ready turn is on its own session and contact; faults are recovered or reported; the connection comes back | `TurnSetup` |
| Tool construction (`tools/factory.py` and builders) | tools built, worker threads | entitlement filter, one builder per tool | the request session, customer databases | a builder that breaks the shared session, builders in threads | a missing tool has a cause | `TurnSetup` |
| Tool calls (`tools/contact_crm.py`, `db_read.py`, `db_write.py`, `vector_search.py`) | scope closed over at build time, rows of contact events and of a customer table | read contact, list events, write event, insert, query, search and rerank | AI API, CRM rows, customer databases, Pinecone, reranker | a commit that is lost after it took effect, a scope older than its rows, a reply that ranks nothing | reports and rows agree; what was written is read again | `ToolCalls` |
| Connection pool and event loop (`db/database.py`) | connections checked out, the call the loop is in | checkout, return, timeout | every session of an instance | checkouts block the event loop that would return connections | no turn waits for itself, every turn ends | `Conversation` |
| Module entitlement (`services/tool_entitlement.py`, `config/*_registry.py`) | plan, grace window, role | effective modules, filter of tools | setup | plan, role, owner and clock are read at different moments | no tool beyond plan and role, none missing that was sold | `Entitlement` |
| Access grants and organization scope (`services/access.py`, `agent_access.py`, `org_scope.py`) | grants, memberships | decide access, resolve the scope, audit | setup, detail endpoint, the AI API's changes | several queries while grants change; grants outlive what they name | access implies a right that existed; who had it throughout gets it | `AgentAccess`, `CredentialResolution` |
| Authentication (`deps.py`, `utils/api_key_utils.py`) | `last_used_at` of a key | token, key lookup, account lookup | every endpoint | the key lookup commits and rereads while keys and accounts go | no request of an account that was gone is admitted | `AgentAccess` |
| Agent detail endpoint (`get.py`) | none | one read behind access | client | see access | see access | `AgentAccess` |
| Credential resolution (`services/credential_access.py`, `vector_store_credentials.py`) | credentials, defaults, shares | pinned, default, fallback, prune | setup, builders | check and load are two queries | the loaded credential is usable by its principal | `CredentialResolution` |
| Credential encryption, PDF to FAQ, CORS, rate limiting, LLM construction, attachment conversion, load test scripts | none, or third-party counters | stateless | | | | section 7 |

The list of what is hard to test in this code is `hazards` in `PROJECT.json`, each at
its line and with the properties that cover it.

## 2. Modules and their correspondence to the code

| Module | Models | Proofs |
|---|---|---|
| `KeptPlaces` | the loops that append what passes a test (the tool calls of a turn, the results of a reranked search), as a recursive function of places | `KeptPlacesProofs` |
| `StreamContract` | what a client may rely on for one stream: `phase`, `begun`, `ended`, `owed`; an action per kind of event that changes them, and `IsCut` for a stream without a terminal event | |
| `SetupConnection` | what setup promises about its connection: taken and returned while it runs, returned before the turn streams, collected at last | |
| `TurnRecord` | what one turn may leave in the transcript: `Asks` and `Ends`, each storing the row that is due or losing it | |
| `AgentStream` | `generator`, `_stream_agent_executor`, `_stream_simple_chat`, the stores, `queue_tool_approval`; the runner and the client as environment | `AgentStreamProofs` |
| `TurnSetup` | `prepare_agent_context`, `db_retry_once`, `create_tools_from_agent_config` and the builders | `TurnSetupProofs` |
| `AgentAccess` | authentication, `load_agent_with_access_check`, `can_access`, `_resolve_org_scope`, `get_agent`, `effective_accounts` | `AgentAccessProofs` |
| `CredentialResolution` | `can_access` for credentials, `resolve_default_credential`, `load_credential_for_use`, the prune and their callers | `CredentialResolutionProofs` |
| `Entitlement` | `effective_modules`, `allowed_tool_configs` and the registries of plans, roles and modules | `EntitlementProofs` |
| `ToolCalls` | what the contact, table and search tools do when they are called | `ToolCallsProofs` |
| `Conversation` | the turns of several instances over connection pools, event loops and the transcript | `ConversationProofs` |

`MCAgentStream`, `MCTurnSetup`, `MCAgentAccess`, `MCCredentialResolution`, `MCEntitlement`, `MCToolCalls` and
`MCConversation` give the constants their values for TLC: model values, symmetry where it is sound (`MCTurnSetup`), the types of
credentials, the tools of an agent, the workloads of a conversation.

The modules fit together by what each leaves free. `Conversation` is the whole of a turn in little: setup, question,
answer. What it takes a turn to write is `TurnRecord`, a question and then an answer, each stored or lost, and `AgentStream` implements the same
record with its events, flags and except clauses: the histories of `Conversation` rest on what streams really store. In both, `Record` is
the refinement mapping (`Stage`, and the rows of the turn with their place in time) and `RecordSpec` the property. `SetupConnection` is the same for the other thing
turns share, the pool: `TurnSetup` implements it query by query, and the three steps that `Conversation` makes of setup implement it too (`Connection`, `ConnectionSpec`). `pc = "setup"` of `AgentStream` is `TurnSetup` as one step: `SetupSucceeds` is the end
"ready", `SetupRefuses` "refused" (an `AgentSetupError`), `SetupEscapes` "escaped". The decisions that `TurnSetup` leaves
free are made, query by query, in `AgentAccess` (the agent and the organization), `CredentialResolution` (the completion key and the keys
of indexes) and `Entitlement` (which configured tools are built at all). A tool run of `AgentStream` is a call of `ToolCalls`, or an approval.

**AgentStream.** One turn. The generator's local variables (`toolCalls`, `userStored`,
`fullResponse`) keep their meaning, `pc` says which loop it is in or how it ended
("returned", "escaped" with an exception nobody catches, "cancelled"). The runner is a
task of its own that appends to the queue `evq`; `HandleX` is the branch of
`_stream_agent_executor` for event X, whole: the store it makes, the list it appends to
and the yield. Two yields in one branch (approval) are two actions, because the client may
leave in between. `FormattingRaises` is `format_tool_call` raising inside the loop. A
stored message is a commit or a swallowed failure (`persist_user_message`,
`persist_ai_message`). The runner is external: its actions produce exactly the orders of
events LangChain's executor can produce, with the tools of one round concurrent, failing
while siblings run, and an iteration limit. Text is the sequence of rounds it was
streamed in, a formatted call is its run id.

**TurnSetup.** Several requests on different instances, so every two queries interleave.
`stage` is the step of `prepare_agent_context`. `tx` says whether the request session
holds a connection and whether its transaction is usable: a query that loses its
connection leaves the session *broken* until a rollback, and further queries raise an
error that is never retried. `orm` says whether the `ChatSession` instance can be read:
rollback and close expire and detach it. `backing` says what became of the row that instance was loaded from. One action per stage and outcome:
`LoadAgent`, `ResolveOrgScope`, `LoadCredential`, `CreateLlm`, `LoadSession`, `CreateSession` /
`CreateConflicts` / `CreateFails`, `RefreshSession` / `RefreshFindsNothing` / `RefreshFails`, `ContactGate`,
`LoadHistory` / `HistoryDetached`, `CheckEntitlement` / `EntitlementRaises`, the builder
actions, `ThreadEnds`, `ToolsGathered`, `FinishSetup` / `AttachmentRaises`. Around a
retried query a fault is `db_retry_once` (first attempt, transient: roll back, close, try
again) or `RetryGivesUp`. Tools are named by how their builder behaves: contact tools query nothing,
database readers may go on in a worker thread, HTML emails query a template catalogue
whose failure they swallow. The AI API creates sessions and deletes contacts between any
two steps, and agents and accounts with their sessions (`SessionsDropped`); a session id may then be used anew. `struck` and `misfit` are history variables for the properties.

**CredentialResolution.** One resolution, or one prune, for one account. `stage` names the next query and
an action is one query with the code up to the next one: `CheckOwner` and `CheckGrant` are the two
queries of `can_access`, `Granted` and `Denied` what its caller does with the answer, `LoadRow`, `FetchRow`,
`ReadDefault`, `ReadOwned`, `ReadShared`, `ReadSharedRow` the queries of `load_credential_for_use` and
`resolve_default_credential`. `kind` is the caller: the completion key of a turn (with `Retry` for `db_retry_once`), the
key of an index, a credential named by a tool, a caller without a binding, a prune. "The most recently updated" is any of
the candidates, because updates happen between queries too. The tables belong to the main AI API:
`ServiceCommits` creates, deletes, shares, unshares and chooses credentials between any two queries, with grants that
may outlive their credential. `ever`, `always`, `lost` and `chosen` are history variables: what
could be used at some or at every moment since the start, what was lost, and the default if it never changed.
One outcome is worth
knowing: a default that is deleted between its check and its load ends in a refusal, not in a fallback to another
credential; `NothingFoundIsExplained` admits it as a credential that was lost under the resolution.

**AgentAccess.** One request of one account about one agent, or one audit of the agent; again `stage` is the next query.
`Start` is the token (no query), the key, or neither; `FindKey`, `TouchKey` (the commit of `last_used_at`), `RereadKey` (the instance
that the commit expired) and `KeyAccount` are the lookup behind a key. `LoadAgent`, `CheckOwner` and `CheckGrant` are
`load_agent_with_access_check` with `can_access`, `Retry` is `db_retry_once` around them, `ReadDefault` and `CheckMember` are
`_resolve_org_scope`, `DetailAccount` is the account lookup of `get_agent`, `AuditOwner` and `AuditGrants` are `effective_accounts`.
`ServiceCommits` changes grants, memberships, defaults and keys and deletes agents and accounts between any two queries; what has a
foreign key goes with what it names (`Referenced`), grants have none. `couldUse` / `canUse` and `belonged` / `belongs` are history: what was true at some and at
every moment of the request. `existed` and `sound` say whether the account was there at the start, and whether it, its key and its default stayed.

**Entitlement.** One decision. `ReadOrganization` is the query that joins organization and membership, `ReadOwner` the one for the owner's
billing facts, `Decide` the plan with the clock of that moment and what the role opens of it, `FilterTools` is `allowed_tool_configs`. The registries are
translated as they stand, except that plans hold sets. Subscriptions lapse and renew as the webhook records them, organizations change plan and owner,
roles change and accounts are deleted between the reads, and `Tick` moves the clock. `bought` is history: the plan *as it was read* was
paid for at some moment. `steady` says that nothing which was read changed before it was used (`Fresh` is this for the owner's facts), `open`
holds the modules that the caller could open at every moment.

**ToolCalls.** Several turns on several instances, with their tools built. A contact or table tool makes synchronous database calls, so the calls of
one turn follow each other, and its statements are steps between which only others act: `add_contact_event`, `CommitEvent` or
`CommitEventLost`, `RefreshEvent` or `RefreshLost`; `insert_impl`, `CommitRecord` or `CommitRecordLost`; `list_contact_events`, `get_contact`,
`query_impl`; `generate_embedding`, `retrieval_impl`, `Rerank`. `StatementFails` is a connection that is lost with the first statement. A lost commit may have taken effect.
The scope that a tool closes over is a constant of the turn; turns may have a tenant that is not the one of their contact, as `context.py` does not
compare them. Others delete contacts with their events, delete events and records, and log events that may be dated back. A page of `query_impl` is any set of matching rows of the right size, because no ORDER BY
puts them in an order. `reported` and `removed` are history: what each call told the agent, and rows that were deleted.

**Conversation.** Requests spread over instances and sessions by `load`. A database call runs with a connection if the pool has one
(`CallsDatabase`); otherwise it blocks the loop of its instance (`Blocks`) until a worker thread returns one (`Obtains`) or the checkout times out (`TimesOut`), and
no other turn of the instance moves meanwhile. Connections outlive a call in three places only: the dependency of a request by key until its exit runs in a thread (`DependencyExits`),
setup while it awaits tools and attachments (`SetupEnds`), and a failed setup until its session is collected (`SessionCollected`). `Inserts` begins the
transaction of a store and takes `created_at` from the clock of the database; `Commits`, `CommitLost` or `InstanceStops` end it, and in the last two the row may be there or not.
`Reads` is the one read of the history. The database calls of tools during a stream take and return a connection within one call, as a store does, and are left out,
as is `NullPool`, which bounds nothing. `before` is history: the turns of the session that had ended when a request arrived.

## 3. Runs

| Run | Bounds | What it shows |
|---|---|---|
| `stream_safety` | 2 tool runs, 2 rounds, 2 chunks | stream well-formed (`StreamsEndWithTerminal`, `ApprovalsAnnouncedWhole`), it implements `StreamContract`, rows and stream agree (`OneQuestionOneAnswer`, `OutcomeIsStored`, `ReplayMatchesStream`, `EndIsFinal`) and are what `TurnRecord` allows (`RecordSpec`), `StreamEnds` under fairness |
| `setup_safety` | 2 requests, 2 accounts, 1 session id, 1 contact, contact tools, 1 fault, 1 deletion of sessions | `ReadyOnOwnSession`, `ContactToolsScoped`, `SessionsNeverRebound` |
| `setup_tools` | 1 request, one tool of every kind, 2 faults, 1 deletion of sessions | `RetryRecovers`, `BuiltToolsAreExplained`, it implements `SetupConnection` (`ConnectionSpec`), `SetupEnds` under fairness |
| `credential_resolution` | 3 credentials of 2 types, own and foreign, one resolution | `ResolvedWasUsable`, `ExplicitChoiceWins`, `NothingFoundIsExplained`, `PruneLeavesUsable` |
| `agent_access` | 2 accounts (the owner and a member), 2 organizations, 3 commits under a request | `AdmittedCouldUse`, `TurnActsInOwnOrganization`, `EntitledIsAdmitted`, `AuditMissesNobody` |
| `entitlement` | 2 accounts, a grace period of 1 day, days 0 to 2, an agent with every tool or with those of one module | `GatedToolsArePaidFor`, `OpenToolsAreBuilt` |
| `tool_calls` | 2 turns, 2 accounts, 2 organizations, 1 contact, 3 calls that write or list, 1 event of others, 1 lost connection, lists of at most 2, 2 documents, replies of at most 3 items | `StoredAsReported`, `ReadsShowWrites`, `SearchKeepsMatches` |
| `conversation` | 3 requests on 2 instances with pools of 1, 1 fault | `OnlySetupsExhaustThePool`, `HistoryIsThePast`, `RecordSpec` (the record of every turn), `TurnsEnd` under fairness |
| `stream_complete_calls`, `stream_reported_failure`, `setup_history_retry`, `setup_errors_reported` | small | the disagreements of section 6 |

Every passing run but `setup_safety` also checks the `TypeOK` of its module.

Why the bounds are enough. *Stream*: two tool runs can overlap in one round or follow each other
in two, with every order of their starts, ends, approvals and failures; two rounds are the
least in which a flag or a list has to survive a round, and in which the iteration limit
can follow tools (`MaxRounds` is 25 in the code; nothing but the limit depends on it). Two chunks tell
concatenation from replacement. The queue is bounded by what the runner can emit. *Setup*: one
session id is the contended one and two requests are the least that race; two accounts
tell "a row" from "an own row", and one fault there leaves a row whose creation was reported as failed to the other;
one deletion (`MaxDrops`) takes the row away at any step, or only what it refers to, and leaves its id to whoever comes next. With one request,
a fault at each of two attempts is the least that a
single retry does not recover, and one fault plus one later query shows a broken session. *Credentials*: three suffice for a
binding, a default and a fallback that differ, and two types for a selection of another type; ids are never used twice, so the
number of ids is the only bound. *Access*: a request reads at most eight times, and three commits (`MaxCommits`) are
enough to take a right away, give it back and take another in between. *Entitlement*: two accounts tell the owner from
the caller, and three days hold a lapse, its last day of grace and the day after, at every step of the decision. *Tools*: two turns of one tenant
or of two, three calls for two writes and a read of a list that holds two, one event of others to fill it,
one lost connection at any statement (`MaxCalls`, `MaxOthers`, `MaxFaults`); a reply of the reranker has up to one item more than
there are documents (`MaxReply`), each of them a place from either end, a place past the last, or one that raises, and `top_n` goes past both ends. Tools of different kinds share no table, so each kind has initial states of its own. *Conversation*:
with a pool of one a single holder exhausts it, three requests are a holder, a waiter that blocks the loop and one
that the blocked loop keeps from its connection; two instances are two clients of one clock; three turns of a session are two that
overlap and one behind them. `MaxFaults` caps lost commits and stops.

`CHECK_DEADLOCK FALSE` is set because turns, requests and decisions end: a state in which
nothing can happen is the normal end. Liveness (`StreamEnds`, `SetupEnds`, `TurnsEnd`) is what shows that nothing stops before.

Every property of a passing run has a mutant in `PROJECT.json`: an operator of the
module with a plausible mistake, for which the run finds the property violated.

## 4. Fairness

*Stream*: weak fairness of the runner's step, the generator's step and the delivery of a
cancellation. asyncio runs every runnable task, and the provider clients, tools and
database drivers answer or time out. Nothing obliges a client to leave.

*Setup*: weak fairness of each request's pipeline (queries, worker threads and conversions
answer or raise) and of the collection of a session whose frame is gone. The generator's
frame refers to the session as long as a ready turn streams, so collection is not assumed
for it: a ready setup has to close its session itself, which is what `SetupEnds` checks
about the last lines of `prepare_agent_context` (and what
`tests/test_event_loop_hygiene.py` checks for the ordinary path).

*Conversation*: weak fairness of each request's `Progress`: a free loop serves whoever is next, a checkout that finds nothing times
out, worker threads and the collector run, providers and tools answer, and a store commits or fails. Arrivals, faults and clients that leave are not
fair. The fairness is weak on purpose: a request whose loop is taken is not enabled, and the end of every turn rests on the loop being given back by each of the others.

*AgentAccess, CredentialResolution, Entitlement, ToolCalls*: none; their properties are about safety, and none of them has a loop that could go on.

## 5. Proofs

Assumptions are the `ASSUME` of each module only: distinguished values are
not members of the sets they are distinguished from, bounds are naturals, contact tools
are of no other kind, the type of a credential is fixed, a pool has room for one connection, requests are finitely
many, configurations of a table passed the checks of its builder. Every theorem holds for all values of the constants that satisfy them, whatever the bounds of the runs are.

**AgentStreamProofs.** `TypeCorrect` proves `TypeOK` for every number of tool runs, rounds and
chunks. The other safety properties are proved from one inductive invariant, `SafetyInv`:
types, the properties themselves, and what makes them inductive. `SetupIdle` and `SimplePath`
say what cannot have happened yet; `QuestionFirst` ties the rows written so far to the
`userStored` flag while the generator runs; `ModelFirst` says the question is stored
or an `on_chat_model_start` precedes the answer *in the queue*, the fact
behind `OneQuestionOneAnswer` (the generator stores the question on the first of these
events and must have seen one before the answer); `FinishedLast` says the
runner has nothing left to do once it emitted its answer, the fact behind the first half of
`EndIsFinal`. The second half, about errors that were shown while the runner goes on, needs `ToolInv` (below) and `ShownHaveEnded`: a run
whose end was shown has committed what it commits. The preservation proof first reduces each step to what it does to
the rows (`WritersAskOrAnswer`, `StepIsBystander`) and treats each conjunct in a lemma of its own.
Theorems: `TerminalEndsStream`, `TurnIsOnePair`, `OutcomesAreStored`,
`EndsAreFinal`.

`StreamImplementsContract` is `Spec => ContractSpec`: initial states map to initial states, and every step to
a step of `StreamContract` or a stutter. What the contract forbids is a second start or end of a tool run, an end without a start, and an
answer while tools run; the generator checks none of it and relies on the runner and the queue. `ToolInv` follows the two events
of a run on their way: `Emitted` (what is queued or shown of a run is what its status says), `OnceOnly`, `StartsFirst`, `RoundsEnd`
(a round is over when its tools are, the answer is the last event), `ToolsNeedExecutor`, and `OwedNow` (an announced approval is owed
its end exactly between the two yields). It holds while the generator runs for a client that listens (`Live`); nothing is sent otherwise. `ApprovalInv` adds that an
announced approval was committed, which gives `ApprovalsAreWhole`.

`ReplayIsShown` relates two loops: the generator appends a call to `toolCalls` at each end it formats, and `ReplayMatchesStream` recomputes the list from
the whole stream (`Kept`). A step that sends no formatted end leaves both alone, one that does appends the same run to both (`KeptNext`).
`TurnKeepsItsRecord` is `Spec => RecordSpec`: a step asks, ends, or stutters. `NoTurnHangs` is the part of `StreamEnds` that is no matter of fairness: while the generator is
not over it has something to start, an event at the head of the queue that its loop handles, or a runner with work to do (`WaitsForSomebody`). `WaitInv` says
which events can be in the queue of each path (`PathEvents`), that a runner which is through has left its last event behind (`LastIsQueued`), and that a
round of tools has one to wait for (`RoundHasTools`).

**KeptPlacesProofs.** What `Kept` computes, by induction on the number of turns of the loop. The library's induction theorems are about operators, which the
provers cannot instantiate; induction over a *set* of numbers follows from a statement of the library about sets, that `<` is well-founded on the naturals
(`LeastNumber`, `Induction`). That the recursive definition has a function to choose is proved first (`LoopExists`, `LoopUnique`, `KeptFunction`). `KeptIsTheLoop`: the list holds
exactly the places that pass, in order.

**TurnSetupProofs.** `SetupInv` is `TypeOK` and, for every request, `Binding` (from the moment the
session is known, and as long as its row is there, it is the request's own; a known contact is the session's, unless
one of them was deleted; past the gate there is one if the tools need one), `ToolAccount` (the five sets of tools partition
what entitlement allowed, except for what a fault explains; a broken session implies a
fault during construction) and `Recovers`. Steps of others are handled once:
`OthersKept` (a request's step changes nothing of another), `StepKeepsRows` (no step loses or
rebinds a row, but a deletion of agents or accounts, `DropKeepsRows`), `BystanderKept` (the invariant of a request survives any such step) and `DroppedKept` (and such a deletion). Theorems: `SetupTypeCorrect`,
`ReadyIsOwn`, `ContactToolsAreScoped`, `RetriesRecover`, `ToolsAreExplained`, `SessionsAreKept`, and `SetupIsPrepared`: when an operation runs, what it relies on is there (`Prepared`): a session that is not broken, a row to refresh or one that is known to be deleted,
an instance that is loaded where its attributes are read outside a retry, so that no setup is stuck where the model has no case for it.
`SetupOnlyAdvances` is what `SetupEnds` needs besides fairness: a step of a setup ends the request, takes it to a later stage (`Rank`), begins its one retry, runs a
builder or gets a thread back, and none takes it back. `SetupKeepsItsConnection` is the refinement of `SetupConnection`: it follows from `Prepared`, and from
an ended setup taking no connection.

**CredentialResolutionProofs.** `ResolutionInv` says what is known between two queries.
`Bracketed` relates the history to the present: what was usable throughout is usable now, what is usable now is in `ever`,
and what was usable is usable or lost. `CheckedCand` carries the result of a check to the query that uses it, the
fact behind `ResolvedWasUsable`; it needs `RowsKnown`, that grants name rows that once existed, since `ReadShared`
does not look at rows. `BindingFollowed`, `DefaultFollowed` and `NothingPassed` say which stages can be reached
while a binding, a default or an own credential stays usable; `PruneCovers` says that a selection still to be checked
is loaded, being checked, or marked. `ServiceEffect` sums up what a commit of the API service can change, `CheckEffect` what
an answer of `can_access` means, and each kind of step has one lemma. Theorems: `ResolutionTypeCorrect`,
`ResolvedIsUsable`, `NoDrift`, `RefusalIsExplained`, `PruneLeavesOnlyUsable`, and `OwnCredentialsFirst`: shared
credentials are asked for only without an own one (`OwnBeforeShared`, which no run checks: the resolution has it by its order of queries).

**AgentAccessProofs.** `AccessInv` is the type invariant with the foreign keys (`Referenced`) and what a request knows between two queries: `HistoryHolds` (the history
brackets the present), `StagesOfKinds` (which stages a kind of request can reach, and with what scope), `Found` (what the queries so far
leave true of the history: past the owner's check the agent existed, past the account's lookup the account did), `Listed` for the audit, and
`Answered`, the properties of an answer that was given. `CommitKeepsTables` is the one lemma about the API service. `AdmittedCouldUse` also says that the account existed, on every path, though
only two of them look it up: on the others it follows from the foreign keys, because a membership or an own agent cannot outlive its account. Theorems:
`AccessTypeCorrect`, `AdmittedIsEntitled`, `TurnsKeepToTheirOrganization`, `EntitledAreAdmitted`, `AuditsAreComplete`.

**EntitlementProofs.** `PremiumIsPaid` relates the arithmetic of the grace window to `PaysFor`. `GatedToolsArePaidFor` is not inductive because the clock is read after the
billing facts; `PaidInv` adds `PaidWhenRead`, that a plan which would be found paid *now* from the facts that were read was bought at some
moment: time can only end a window, never open it. `BuiltInv` adds `ReadsHold`, that what was read is still true
while `steady` holds. Theorems: `EntitlementTypeCorrect`, `BuiltToolsArePaidFor`, `WhatIsPaidForIsBuilt`.

**ToolCallsProofs.** Steps are put into classes by what they do to one call: it begins, goes on, concludes, or nothing of it changes (`Quiet`). `CallInv` is the
type invariant, for which rows are finite sets of events or records, and `ReportInv`: the row of a call in progress is not stored before
its commit, is the one the call works on, and has the columns that were forced. `ReportsMatchRows` follows. `WritesAreFound` is an action property: a list that leaves out
an acknowledged row of its scope is as long as its limit and holds only rows that are at least as recent; the step from "a subset of that size" to "all of them" is the
cardinality of finite sets (`FS_Subset`). `SearchLosesNothing` follows the loop over a reply of any length and content: what it appends are
places of the reply, each once and in order (`KeptIsTheLoop`, `KeptType`), each naming a match from one end or the other (`SelectedMatch`), and all of them when each names a match
(`KeptAll`); a reply that cannot be read is none that ranks the matches (`UnreadableKeepsMatches`). Theorems: `ToolCallsTypeCorrect`, `ReportsMatchRows`, `WritesAreFound`, `SearchLosesNothing`.

**ConversationProofs.** `PoolInv` adds `Discipline`: who is in the middle of a store has the loop of its instance, and only stores and requests that are being
authenticated or set up hold connections. So while a loop is free, or in a checkout, an exhausted pool counts only the latter, whatever its size (`PoolIsLeftToSetups`). `HistoryInv` is what makes histories the past: a turn that
ended writes no more (`PastIsOver`), a row in the making is younger than every row it must follow (`WrittenIsLast`), rows belong to turns that wrote them (`RowsBelong`); then what a turn
read contains all that was there when it arrived. Theorems: `ConversationTypeCorrect`, `PoolIsLeftToSetups`, `HistoriesAreThePast`.

`EveryTurnKeepsItsRecord` is the refinement of `TurnRecord`, once per request, and `EveryTurnIsOnePair` what follows from it for the shared transcript. Two theorems are what `TurnsEnd` needs besides
fairness: `LoopsServeCalls`, that a loop which is taken is taken by a call of its own instance that can go on or time out, and `TurnsOnlyAdvance`, that every step takes
a turn to a later phase, or begins a wait for a connection, and none takes it back (`Rank`).
`SetupsKeepTheirConnections` shows that the coarser setups of this module keep the same contract, `SetupConnection`, that those of `TurnSetup` do; its `ConnectionSpec` is
proved only, no run lists it.

**Model-checked only.** Liveness (`StreamEnds`, `SetupEnds`, `TurnsEnd`), which needs fairness and ENABLED; the safety half of the argument is proved (`NoTurnHangs`, `SetupIsPrepared`,
`SetupOnlyAdvances`, `LoopsServeCalls`, `TurnsOnlyAdvance`). Every other property of a passing run is stated by a theorem.

## 6. Where code and documentation disagree

Each of these is a run that finds one statement of the documentation violated.

* `CompleteToolCalls`: `docs/AGENT_API.md:184` promises the complete `toolCalls` in
  `on_chain_end`; calls queued for approval or rejected by the formatter are missing.
* `ReportedFailureQueuedNothing`: `hitl_email_base.py:42` says a database failure returns an error; a
  refresh that fails after the commit reports failure although the approval is pending.
* `HistoryRetryRecovers`: `db/retry.py:29` retries once after rollback and close; the history query
  reads `session.id` of an instance that close detached, so its retry always raises.
* `SetupErrorsReported`: `docs/AGENT_API.md:190` lists setup errors as terminal error events; only
  `AgentSetupError` becomes one, other exceptions of setup break the response off. Besides queries and attachments, `create_llm` can raise one: only `ValueError` is caught
  (`context.py:281`), and the ollama branch imports `langchain_ollama` (`llm_factory.py:195`), which neither `pyproject.toml` nor `uv.lock` names.

Five more were met on the way and have no run.

* `config/plans_registry.py:52` keeps paid modules in grace for reads only, and `tool_entitlement.py:73` takes an agent tool for a
  read; `contactEventWrite` is gated by the module `contacts` alone, so it is built in grace and writes.
* `docs/AGENT_API.md:154` tells clients to concatenate the chunks to build the reply; on the agent path the text
  streamed before a tool call is in the chunks, and neither in `on_chain_end` nor in the stored answer.
* `contact_crm.py:234` stores the organization of the turn, which need not be the one of the contact. Reads of the same turn find
  the event all the same (`ReadsShowWrites`); a member of the contact's organization does not.
* `access.py:152` says of `org_id` that every caller with a request context must pass it, and `agent_access.py:12-19` calls the access
  rule "entirely org-confined"; `get.py:53` does not pass it (nor does `context.py:189`, but `_resolve_org_scope` asks for the membership afterwards). An owner, or the holder of a grant, who is
  no member of the agent's organization therefore gets its details. The model admits them as the code does: `AdmittedCouldUse` speaks of owner and grants only, and
  `EntitledIsAdmitted` demands admission of members only, so neither settles the matter.
* `vector_search.py:118` says reranking degrades to the most similar matches on failure. It does when the call fails or its reply has no results; a reply
  that cannot be read (no list, an item without `get`, a place before the first) raises in the loop, and line 78 answers an error (`Rerank`, "unreadable"). Negative places count from the end.

## 7. Not modelled

* Credential encryption: functions of keys that a process reads from its environment once. Rotation is a procedure of operators with
  restarts; nothing in the repository has its steps.
* LLM client construction: a table from provider to client class; setup sees success, refusal or an error that escapes (`CreateLlm`). PDF to FAQ: one model call.
* CORS headers and the third-party rate limiter, whose counters are in memory and per instance. Attachment and prompt conversion: pure; setup sees that it
  finishes or raises. Load test scripts: clients of a deployed service.
* Schema declarations: the keys, cascades and columns a module relies on are in that module; the rest has no behaviour.
* The deletion of a session under a turn that streams: a message stored then fails its foreign key, and `AgentStream` and `Conversation` have stores that fail
  already; `TurnSetup` has the deletion itself.
* Of modelled components: the rendering of email templates and the expiry of approvals (another service), the field by field mapping of
  `format_tool_call`, the serialization of values, the offset of a page of `query_impl` (without an ORDER BY nothing is promised of two
  pages), the listings and revocations of `services/access.py` that nothing here calls, wording of prompts and messages.

## 8. What is left

The components with state are modelled and their safety properties proved. What could be added:

* `NullPool` as a second configuration of `Conversation`: checkouts never wait, so only `HistoryIsThePast` remains, which does not depend on the pool.
* Several pages of one query, should the code get an ORDER BY.
