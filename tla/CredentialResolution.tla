-------------------------- MODULE CredentialResolution -------------------------
(***************************************************************************)
(* Which stored credential an account gets: can_access of                  *)
(* src/src/services/access.py for credentials, the resolution and pruning  *)
(* of credential_access.py, the index bindings of                          *)
(* vector_store_credentials.py and the callers of setup and tool building. *)
(*                                                                         *)
(* A resolution is several queries under READ COMMITTED; between any two   *)
(* of them credentials are created and deleted, shared and unshared and    *)
(* defaults chosen by the API service that owns these tables.  The module  *)
(* follows one resolution, or one pruning, on behalf of one account.       *)
(***************************************************************************)
EXTENDS FiniteSets

CONSTANTS
  Credentials,  \* credential ids, never used twice
  Own,          \* those the account owns
  Types,        \* credential types (ServiceName)
  TypeOf,       \* the type of each credential, fixed at its creation
  None          \* "no credential"

ASSUME ResolutionAssumption ==
  /\ Own \subseteq Credentials
  /\ TypeOf \in [Credentials -> Types]
  /\ None \notin Credentials

VARIABLES
  row,       \* a credential's row: "unused" so far, "live" or "deleted"
  role,      \* role of the account's grant on each credential, "none" without one
  default,   \* credential_defaults of the account: its choice per type, or None
  kind,      \* who resolves, see Kinds
  want,      \* the type asked for
  bound,     \* the credential a configuration names, or None
  retried,   \* db_retry_once has started the resolution a second time
  stage,     \* the query that is next
  check,     \* the query of can_access that is next: "owner" or "grant"
  cand,      \* the credential being checked or fetched
  ids,       \* shared_ids
  todo,      \* prune: the credentials of the loaded selections not yet checked
  removed,   \* prune: types whose selection will be deleted
  result,    \* the credential returned, or None
  ever,      \* history: usable at some moment since the start
  always,    \* history: usable at every moment since the start
  lost,      \* history: usable and then no longer, since the start
  chosen     \* history: the default for want if it never changed since the start

tables  == <<row, role, default>>
request == <<kind, want, bound>>
local   == <<stage, check, cand, ids, todo, removed, result>>
history == <<ever, always, lost, chosen>>
vars == <<tables, request, retried, local, history>>

\* completion: the model's key of a turn; index: a knowledge base's key;
\* tool: a credential named by a tool; plain: PDF to FAQ, which has no binding;
\* prune: prune_unusable_defaults_for_account.
Kinds == {"completion", "index", "tool", "plain", "prune"}

\* Stages in which can_access runs, on cand.
Checking == {"binding", "reload", "selected", "pruned"}
Stages == Checking \cup
  {"idle", "load", "fetch", "default", "owned", "shared", "sharedFetch", "prune", "done"}

\* write is no different from read here.
Roles == {"none", "read", "use"}

Live == {c \in Credentials : row[c] = "live"}
Typed(t) == {c \in Credentials : TypeOf[c] = t}

\* Mutant: any grant will do.
Mut_role_satisfies(granted, required) == granted # "none"

\* For credentials 'use' is matched exactly.
role_satisfies(granted, required) == granted = required

Usable == {c \in Live : c \in Own \/ role[c] = "use"}

Init ==
  /\ row = [c \in Credentials |-> "unused"]
  /\ role = [c \in Credentials |-> "none"]
  /\ default = [t \in Types |-> None]
  /\ kind = "plain"
  /\ want \in Types
  /\ bound = None
  /\ retried = FALSE
  /\ stage = "idle"
  /\ check = "owner"
  /\ cand = None
  /\ ids = {}
  /\ todo = {}
  /\ removed = {}
  /\ result = None
  /\ ever = {}
  /\ always = {}
  /\ lost = {}
  /\ chosen = None

-------------------------------------------------------------------------------
(* The resolution. *)

\* Mutant: the binding of an index is not looked at.
Mut_Entry(k, b) ==
  CASE k = "tool" -> "load"
    [] k = "prune" -> "prune"
    [] k = "completion" /\ b # None -> "binding"
    [] OTHER -> "default"

\* The first query of each kind.
Entry(k, b) ==
  CASE k = "tool" -> "load"
    [] k = "prune" -> "prune"
    [] k \in {"completion", "index"} /\ b # None -> "binding"
    [] OTHER -> "default"

\* The row of an index loses its binding with the credential (ON DELETE SET NULL); a
\* configuration keeps the id of a deleted one.
MayName(k, b) ==
  \/ k \in {"plain", "prune"} /\ b = None
  \/ k = "completion" /\ b \in Credentials \cup {None}
  \/ k = "index" /\ b \in Live \cup {None}
  \/ k = "tool" /\ b \in Credentials

Begins(k, b) ==
  /\ stage' = Entry(k, b)
  /\ check' = "owner"
  /\ cand' = b
  /\ ids' = {}
  /\ todo' = {default[t] : t \in {u \in Types : k = "prune" /\ default[u] # None}}
  /\ removed' = {}
  /\ result' = None

\* A prune loads the account's selections in its first query, here with the start.
Start(k, t, b) ==
  /\ stage = "idle"
  /\ MayName(k, b)
  /\ kind' = k
  /\ want' = t
  /\ bound' = b
  /\ Begins(k, b)
  /\ ever' = Usable
  /\ always' = Usable
  /\ lost' = {}
  /\ chosen' = default[t]
  /\ UNCHANGED <<tables, retried>>

\* One transient fault: db_retry_once runs the function again.
Retry ==
  /\ kind = "completion"
  /\ stage \notin {"idle", "done"}
  /\ ~retried
  /\ retried' = TRUE
  /\ Begins(kind, bound)
  /\ UNCHANGED <<tables, request, history>>

GoTo(s) ==
  /\ stage' = s
  /\ check' = "owner"
  /\ UNCHANGED <<ids, todo, removed, result>>

Returns(c) ==
  /\ stage' = "done"
  /\ result' = c
  /\ UNCHANGED <<check, cand, ids, todo, removed>>

Elsewhere == UNCHANGED <<tables, request, retried, history>>

\* can_access said yes.
Granted ==
  \/ stage = "binding" /\ kind = "completion" /\ GoTo("load") /\ UNCHANGED cand
  \/ stage = "binding" /\ kind = "index" /\ GoTo("fetch") /\ UNCHANGED cand
  \/ stage = "selected" /\ GoTo("fetch") /\ UNCHANGED cand
  \/ stage = "reload" /\ Returns(cand)
  \/ stage = "pruned" /\ GoTo("prune") /\ UNCHANGED cand

\* Mutant: a binding that cannot be used ends the resolution.
Mut_Denied ==
  \/ stage \in {"binding", "reload"} /\ Returns(None)
  \/ stage = "selected" /\ GoTo("owned") /\ UNCHANGED cand
  \/ /\ stage = "pruned"
     /\ removed' = removed \cup {TypeOf[cand]}
     /\ stage' = "prune"
     /\ check' = "owner"
     /\ UNCHANGED <<cand, ids, todo, result>>

\* can_access said no.  A binding falls back to the default, a default to the owned
\* credentials; load_credential_for_use returns None; a prune deletes the selection.
Denied ==
  \/ stage = "binding" /\ GoTo("default") /\ UNCHANGED cand
  \/ stage = "selected" /\ GoTo("owned") /\ UNCHANGED cand
  \/ stage = "reload" /\ Returns(None)
  \/ /\ stage = "pruned"
     /\ removed' = removed \cup {TypeOf[cand]}
     /\ stage' = "prune"
     /\ check' = "owner"
     /\ UNCHANGED <<cand, ids, todo, result>>

\* _resource_owner: no row is a no, the owner a yes.
CheckOwner ==
  /\ stage \in Checking
  /\ check = "owner"
  /\ \/ cand \notin Live /\ Denied
     \/ cand \in Live \cap Own /\ Granted
     \/ /\ cand \in Live \ Own
        /\ check' = "grant"
        /\ UNCHANGED <<stage, cand, ids, todo, removed, result>>
  /\ Elsewhere

\* The grants of the account on it, without looking at its row again.
CheckGrant ==
  /\ stage \in Checking
  /\ check = "grant"
  /\ IF role_satisfies(role[cand], "use") THEN Granted ELSE Denied
  /\ Elsewhere

\* load_credential_for_use: the row is returned to its owner without more ado.
LoadRow ==
  /\ stage = "load"
  /\ \/ cand \notin Live /\ Returns(None)
     \/ cand \in Live \cap Own /\ Returns(cand)
     \/ cand \in Live \ Own /\ GoTo("reload") /\ UNCHANGED cand
  /\ Elsewhere

\* The row of a checked credential, which may be gone by now.
FetchRow ==
  /\ stage = "fetch"
  /\ Returns(IF cand \in Live THEN cand ELSE None)
  /\ Elsewhere

\* Mutant: the default is trusted without a check.
Mut_ReadDefault ==
  /\ stage = "default"
  /\ cand' = default[want]
  /\ GoTo(IF default[want] = None THEN "owned" ELSE "fetch")
  /\ Elsewhere

\* resolve_default_credential, first the account's choice for the type,
ReadDefault ==
  /\ stage = "default"
  /\ cand' = default[want]
  /\ GoTo(IF default[want] = None THEN "owned" ELSE "selected")
  /\ Elsewhere

\* then the most recently updated of its own, whichever that is,
ReadOwned ==
  /\ stage = "owned"
  /\ \/ \E c \in Live \cap Own \cap Typed(want) : Returns(c)
     \/ Live \cap Own \cap Typed(want) = {} /\ GoTo("shared") /\ UNCHANGED cand
  /\ Elsewhere

\* Mutant: the rows of the query are taken for ids.
Mut_ReadShared ==
  /\ stage = "shared"
  /\ ids' = {<<c, role[c]>> : c \in {d \in Credentials : role[d] = "use"}}
  /\ stage' = "sharedFetch"
  /\ UNCHANGED <<check, cand, todo, removed, result>>
  /\ Elsewhere

\* then the ids shared with it: accessible_resource_ids asks the grants only,
ReadShared ==
  /\ stage = "shared"
  /\ LET shared == {c \in Credentials : role_satisfies(role[c], "use")}
     IN  IF shared = {} THEN Returns(None)
         ELSE /\ ids' = shared
              /\ stage' = "sharedFetch"
              /\ UNCHANGED <<check, cand, todo, removed, result>>
  /\ Elsewhere

\* and the most recently updated row of the type among them.
ReadSharedRow ==
  /\ stage = "sharedFetch"
  /\ \/ \E c \in ids \cap Live \cap Typed(want) : Returns(c)
     \/ ids \cap Live \cap Typed(want) = {} /\ Returns(None)
  /\ Elsewhere

\* A prune takes the next loaded selection.
PruneChecks(c) ==
  /\ stage = "prune"
  /\ c \in todo
  /\ todo' = todo \ {c}
  /\ cand' = c
  /\ stage' = "pruned"
  /\ check' = "owner"
  /\ UNCHANGED <<ids, removed, result>>
  /\ Elsewhere

\* The caller commits.  The rows are deleted by their keys, whatever they select by now.
PruneCommits ==
  /\ stage = "prune"
  /\ todo = {}
  /\ default' = [t \in Types |-> IF t \in removed THEN None ELSE default[t]]
  /\ Returns(None)
  /\ UNCHANGED <<row, role, request, retried, history>>

-------------------------------------------------------------------------------
(* The API service (external): what it commits between two queries. *)

Observed ==
  IF stage = "idle" THEN UNCHANGED history
  ELSE /\ ever' = ever \cup Usable'
       /\ always' = always \cap Usable'
       /\ lost' = lost \cup (Usable \ Usable')
       /\ chosen' = IF default'[want] = chosen THEN chosen ELSE None

CredentialCreated(c) ==
  /\ row[c] = "unused"
  /\ row' = [row EXCEPT ![c] = "live"]
  /\ UNCHANGED <<role, default>>

\* Deleting a credential cascades to the selections of it; its grants are removed by
\* the application, with it or later.
CredentialDeleted(c) ==
  /\ row[c] = "live"
  /\ row' = [row EXCEPT ![c] = "deleted"]
  /\ default' = [t \in Types |-> IF default[t] = c THEN None ELSE default[t]]
  /\ UNCHANGED role \/ role' = [role EXCEPT ![c] = "none"]

\* Somebody else's credential is shared, shared with another role, or unshared.
GrantChanges(c, r) ==
  /\ r # role[c]
  /\ r # "none" => c \in Live \ Own
  /\ role' = [role EXCEPT ![c] = r]
  /\ UNCHANGED <<row, default>>

\* The account chooses among what it can use, or chooses nothing.
DefaultChanges(t, c) ==
  /\ c # default[t]
  /\ c \in (Usable \cap Typed(t)) \cup {None}
  /\ default' = [default EXCEPT ![t] = c]
  /\ UNCHANGED <<row, role>>

\* What happens after the end is of no concern to this resolution.
ServiceCommits ==
  /\ stage # "done"
  /\ \/ \E c \in Credentials : CredentialCreated(c)
     \/ \E c \in Credentials : CredentialDeleted(c)
     \/ \E c \in Credentials, r \in Roles : GrantChanges(c, r)
     \/ \E t \in Types, c \in Credentials \cup {None} : DefaultChanges(t, c)
  /\ Observed
  /\ UNCHANGED <<request, retried, local>>

Resolve ==
  \/ CheckOwner
  \/ CheckGrant
  \/ LoadRow
  \/ FetchRow
  \/ ReadDefault
  \/ ReadOwned
  \/ ReadShared
  \/ ReadSharedRow

Next ==
  \/ \E k \in Kinds, t \in Types, b \in Credentials \cup {None} : Start(k, t, b)
  \/ Retry
  \/ Resolve
  \/ \E c \in Credentials : PruneChecks(c)
  \/ PruneCommits
  \/ ServiceCommits

Spec == Init /\ [][Next]_vars

-------------------------------------------------------------------------------
(* Properties. *)

TypeOK ==
  /\ row \in [Credentials -> {"unused", "live", "deleted"}]
  /\ role \in [Credentials -> Roles]
  /\ default \in [Types -> Credentials \cup {None}]
  /\ kind \in Kinds
  /\ want \in Types
  /\ bound \in Credentials \cup {None}
  /\ retried \in BOOLEAN
  /\ stage \in Stages
  /\ check \in {"owner", "grant"}
  /\ cand \in Credentials \cup {None}
  /\ ids \in SUBSET Credentials
  /\ todo \in SUBSET Credentials
  /\ removed \in SUBSET Types
  /\ result \in Credentials \cup {None}
  /\ ever \in SUBSET Credentials
  /\ always \in SUBSET Credentials
  /\ lost \in SUBSET Credentials
  /\ chosen \in Credentials \cup {None}

Resolved == stage = "done" /\ kind # "prune"

\* The checks and the loads are different queries, and grants outlive the rows they
\* name: a credential that is returned could be used at some moment of the resolution.
ResolvedWasUsable == Resolved => result \in ever \cup {None}

\* No drift: a binding, or else a default, that could be used throughout is what the
\* resolution returns, whatever else is created, shared or updated meanwhile.
ExplicitChoiceWins ==
  Resolved =>
    /\ bound \in always => result = bound
    /\ kind # "tool" /\ bound \notin ever /\ chosen \in always => result = chosen

\* An account that could use a credential of the type throughout is refused only if
\* some credential was deleted or unshared under the resolution.
NothingFoundIsExplained ==
  Resolved /\ kind # "tool" /\ result = None =>
    always \cap Typed(want) = {} \/ lost # {}

\* Shared credentials are asked for only by an account that has none of its own.
OwnBeforeShared == ids # {} => always \cap Own \cap Typed(want) = {}

\* A prune leaves no selection that could not be used at some moment since its start.
PruneLeavesUsable ==
  [][stage = "prune" /\ stage' = "done" =>
       \A t \in Types : default'[t] \in ever \cup {None}]_vars
===============================================================================
