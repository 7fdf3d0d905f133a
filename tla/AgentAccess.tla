------------------------------ MODULE AgentAccess ------------------------------
(***************************************************************************)
(* Who may run an agent, and in which organization: the authentication of  *)
(* src/src/deps.py, load_agent_with_access_check and can_access of         *)
(* src/src/services, _resolve_org_scope of routers/agents/context.py, the  *)
(* detail endpoint of routers/agents/get.py and the audit of access.py.    *)
(*                                                                         *)
(* One request of one account about one agent, or one audit of the agent.  *)
(* Every step is a query under READ COMMITTED; between two of them the API *)
(* service commits changes to the tables, which are its own.               *)
(***************************************************************************)
EXTENDS Naturals

CONSTANTS
  Accounts,
  Orgs,
  None,        \* no organization
  AgentOwner,  \* the agent's account_id
  AgentOrg,    \* the agent's org_id
  MaxCommits   \* bound of the commits under one request

ASSUME AccessAssumption ==
  /\ AgentOwner \in Accounts
  /\ AgentOrg \in Orgs
  /\ None \notin Orgs
  /\ MaxCommits \in Nat

VARIABLES
  accounts,    \* the accounts that exist
  agent,       \* whether the agent exists
  grant,       \* role of each account's grant on the agent, "none" without one
  memberOf,    \* the organizations who is a member of
  defaultOrg,  \* default_org_id of who
  key,         \* status of the API key of who, "none" without a row
  kind,        \* what is asked for, see Kinds
  who,         \* the account that asks
  proof,       \* how it authenticates: by "token", by "key", or not, "neither"
  retried,     \* db_retry_once has started to load the agent a second time
  stage,       \* the query that is next
  scope,       \* the organization the turn acts in
  result,      \* "none", "admitted", "refused", or "failed" with status 500
  best,        \* audit: the role listed for each account
  commits,     \* counts the commits under the request
  couldUse,    \* history: accounts that could use the agent at some moment
  canUse,      \* history: accounts that could use it at every moment
  belonged,    \* history: organizations who belonged to at some moment
  belongs,     \* history: organizations who belonged to at every moment
  existed,     \* history: the account existed when the request began
  sound        \* history: account, credential and default as they were, and valid

tables  == <<accounts, agent, grant, memberOf, defaultOrg, key>>
request == <<kind, who, proof>>
local   == <<retried, stage, scope, result, best>>
history == <<couldUse, canUse, belonged, belongs, existed, sound>>
vars == <<tables, request, local, commits, history>>

\* stream: a turn of an agent; contact: a turn of the contact chat, which has no agent;
\* detail: the agent's configuration; audit: effective_accounts.
Kinds == {"stream", "contact", "detail", "audit"}

Stages == {"idle", "key", "touch", "reread", "keyAccount", "account", "agent", "owner",
           "grant", "default", "member", "auditOwner", "auditGrants", "done"}

\* For an agent write is no different from read.
Roles == {"none", "read", "use"}

role_satisfies(role, required) == role = required

Users == {a \in Accounts : agent /\ (a = AgentOwner \/ grant[a] = "use")}

\* The foreign keys: an agent's owner exists, and what belongs to an account goes with
\* it.  Grants have none and may outlive both.
Referenced ==
  /\ agent => AgentOwner \in accounts
  /\ who \notin accounts => memberOf = {} /\ defaultOrg = None /\ key = "none"

Init ==
  /\ accounts \in SUBSET Accounts
  /\ agent \in BOOLEAN
  /\ grant \in [Accounts -> Roles]
  /\ who \in Accounts
  /\ memberOf \in SUBSET Orgs
  /\ defaultOrg \in Orgs \cup {None}
  /\ key \in {"none", "active", "revoked"}
  /\ Referenced
  /\ kind = "stream"
  /\ proof = "neither"
  /\ retried = FALSE
  /\ stage = "idle"
  /\ scope = None
  /\ result = "none"
  /\ best = [a \in Accounts |-> "none"]
  /\ commits = 0
  /\ couldUse = {}
  /\ canUse = {}
  /\ belonged = {}
  /\ belongs = {}
  /\ existed = FALSE
  /\ sound = FALSE

-------------------------------------------------------------------------------
(* Authentication. *)

GoTo(s) == stage' = s /\ UNCHANGED <<retried, scope, result, best>>

Answers(r) ==
  /\ stage' = "done"
  /\ result' = r
  /\ UNCHANGED <<retried, scope, best>>

Elsewhere == UNCHANGED <<tables, request, commits, history>>

\* The first query behind the authentication.
Entry(k) ==
  CASE k = "stream" -> "agent"
    [] k = "contact" -> "default"
    [] k = "detail" -> "account"
    [] OTHER -> "auditOwner"

\* A valid token names its account without a query.  Without one the API key is looked
\* up, and without either the request is refused.  An audit has no caller.
Start(k, p) ==
  /\ stage = "idle"
  /\ kind' = k
  /\ proof' = p
  /\ IF k = "audit" \/ p = "token" THEN GoTo(Entry(k))
     ELSE IF p = "key" THEN GoTo("key")
     ELSE Answers("refused")
  /\ couldUse' = Users
  /\ canUse' = Users
  /\ belonged' = memberOf
  /\ belongs' = memberOf
  /\ existed' = (who \in accounts)
  /\ sound' = (/\ who \in accounts
               /\ p = "token" \/ (p = "key" /\ key = "active"))
  /\ UNCHANGED <<tables, who, commits>>

\* Only active keys are found.
FindKey ==
  /\ stage = "key"
  /\ IF key = "active" THEN GoTo("touch") ELSE Answers("refused")
  /\ Elsewhere

\* last_used_at is written to whatever row is left and committed.
TouchKey ==
  /\ stage = "touch"
  /\ IF key # "none" THEN GoTo("reread") ELSE Answers("failed")
  /\ Elsewhere

\* The commit expired the instance, its account_id is read again.
RereadKey ==
  /\ stage = "reread"
  /\ IF key # "none" THEN GoTo("keyAccount") ELSE Answers("failed")
  /\ Elsewhere

KeyAccount ==
  /\ stage = "keyAccount"
  /\ IF who \in accounts THEN GoTo(Entry(kind)) ELSE Answers("refused")
  /\ Elsewhere

-------------------------------------------------------------------------------
(* Access to the agent, and the organization of the turn. *)

\* get_agent looks up the account first.
DetailAccount ==
  /\ stage = "account"
  /\ IF who \in accounts THEN GoTo("agent") ELSE Answers("refused")
  /\ Elsewhere

\* The agent's row.
LoadAgent ==
  /\ stage = "agent"
  /\ IF agent THEN GoTo("owner") ELSE Answers("refused")
  /\ Elsewhere

\* Mutant: who created the agent is taken for its tenant.
Mut_Granted ==
  IF kind = "detail" THEN Answers("admitted")
  ELSE /\ scope' = AgentOwner
       /\ stage' = "member"
       /\ UNCHANGED <<retried, result, best>>

\* can_access said yes: the detail is answered, a turn goes on in the agent's
\* organization.
Granted ==
  IF kind = "detail" THEN Answers("admitted")
  ELSE /\ scope' = AgentOrg
       /\ stage' = "member"
       /\ UNCHANGED <<retried, result, best>>

\* Mutant: the owner needs a grant like everybody else.
Mut_CheckOwner ==
  /\ stage = "owner"
  /\ IF ~agent THEN Answers("refused") ELSE GoTo("grant")
  /\ Elsewhere

\* _resource_owner reads the row again.
CheckOwner ==
  /\ stage = "owner"
  /\ IF ~agent THEN Answers("refused")
     ELSE IF who = AgentOwner THEN Granted ELSE GoTo("grant")
  /\ Elsewhere

\* Mutant: a grant of any role will do.
Mut_CheckGrant ==
  /\ stage = "grant"
  /\ IF grant[who] # "none" THEN Granted ELSE Answers("refused")
  /\ Elsewhere

\* The grants of the account, without looking at the agent again.
CheckGrant ==
  /\ stage = "grant"
  /\ IF role_satisfies(grant[who], "use") THEN Granted ELSE Answers("refused")
  /\ Elsewhere

\* One transient fault while a turn loads its agent: the whole check runs again.
Retry ==
  /\ kind = "stream"
  /\ stage \in {"agent", "owner", "grant"}
  /\ ~retried
  /\ retried' = TRUE
  /\ stage' = "agent"
  /\ UNCHANGED <<scope, result, best>>
  /\ Elsewhere

\* Mutant: the default is taken for a membership.
Mut_ReadDefault ==
  /\ stage = "default"
  /\ scope' = defaultOrg
  /\ stage' = "done"
  /\ result' = IF defaultOrg = None THEN "refused" ELSE "admitted"
  /\ UNCHANGED <<retried, best>>
  /\ Elsewhere

\* Without an agent the turn acts in the default organization of its account.
ReadDefault ==
  /\ stage = "default"
  /\ IF defaultOrg = None THEN Answers("refused")
     ELSE /\ scope' = defaultOrg
          /\ stage' = "member"
          /\ UNCHANGED <<retried, result, best>>
  /\ Elsewhere

\* Whichever organization it is, the account has to be a member of it.
CheckMember ==
  /\ stage = "member"
  /\ Answers(IF scope \in memberOf THEN "admitted" ELSE "refused")
  /\ Elsewhere

-------------------------------------------------------------------------------
(* The audit: effective_accounts. *)

AuditOwner ==
  /\ stage = "auditOwner"
  /\ best' = IF agent THEN [best EXCEPT ![AgentOwner] = "owner"] ELSE best
  /\ stage' = "auditGrants"
  /\ UNCHANGED <<retried, scope, result>>
  /\ Elsewhere

\* Mutant: roles without a rank are left out.
Mut_AuditGrants ==
  /\ stage = "auditGrants"
  /\ best' = [a \in Accounts |->
       IF best[a] = "none" /\ grant[a] # "use" THEN grant[a] ELSE best[a]]
  /\ stage' = "done"
  /\ UNCHANGED <<retried, scope, result>>
  /\ Elsewhere

\* An account has one grant on an agent, and ownership outranks it.
AuditGrants ==
  /\ stage = "auditGrants"
  /\ best' = [a \in Accounts |-> IF best[a] = "none" THEN grant[a] ELSE best[a]]
  /\ stage' = "done"
  /\ UNCHANGED <<retried, scope, result>>
  /\ Elsewhere

-------------------------------------------------------------------------------
(* The API service (external): what it commits between two queries. *)

\* assert_same_org: a grant joins an agent and a member of its organization.
assert_same_org(a) == a = who => AgentOrg \in memberOf

GrantChanges(a, r) ==
  /\ r # grant[a]
  /\ r # "none" => agent /\ a \in accounts /\ assert_same_org(a)
  /\ grant' = [grant EXCEPT ![a] = r]
  /\ UNCHANGED <<accounts, agent, memberOf, defaultOrg, key>>

\* Its grants are revoked by the application, with the agent or later.
AgentDeleted ==
  /\ agent
  /\ agent' = FALSE
  /\ UNCHANGED grant \/ grant' = [a \in Accounts |-> "none"]
  /\ UNCHANGED <<accounts, memberOf, defaultOrg, key>>

\* Joining and leaving; an organization that is deleted is left by everybody and is
\* nobody's default.
MembershipChanges(o) ==
  /\ who \in accounts
  /\ \/ o \notin memberOf /\ memberOf' = memberOf \cup {o} /\ UNCHANGED defaultOrg
     \/ o \in memberOf /\ memberOf' = memberOf \ {o} /\ UNCHANGED defaultOrg
     \/ /\ o \in memberOf
        /\ memberOf' = memberOf \ {o}
        /\ defaultOrg' = IF defaultOrg = o THEN None ELSE defaultOrg
  /\ UNCHANGED <<accounts, agent, grant, key>>

DefaultChanges(o) ==
  /\ who \in accounts
  /\ o # defaultOrg
  /\ defaultOrg' = o
  /\ UNCHANGED <<accounts, agent, grant, memberOf, key>>

KeyChanges(s) ==
  /\ key # "none"
  /\ s \in {"revoked", "none"} \ {key}
  /\ key' = s
  /\ UNCHANGED <<accounts, agent, grant, memberOf, defaultOrg>>

\* An account goes with its memberships and keys, and with the agent if it owns it.
AccountDeleted(a) ==
  /\ a \in accounts
  /\ accounts' = accounts \ {a}
  /\ agent' = (agent /\ a # AgentOwner)
  /\ grant' \in {grant, [grant EXCEPT ![a] = "none"]}
  /\ memberOf' = IF a = who THEN {} ELSE memberOf
  /\ defaultOrg' = IF a = who THEN None ELSE defaultOrg
  /\ key' = IF a = who THEN "none" ELSE key

ServiceCommits ==
  /\ stage \notin {"idle", "done"}
  /\ commits < MaxCommits
  /\ commits' = commits + 1
  /\ \/ \E a \in Accounts, r \in Roles : GrantChanges(a, r)
     \/ AgentDeleted
     \/ \E o \in Orgs : MembershipChanges(o)
     \/ \E o \in Orgs \cup {None} : DefaultChanges(o)
     \/ \E s \in {"revoked", "none"} : KeyChanges(s)
     \/ \E a \in Accounts : AccountDeleted(a)
  /\ couldUse' = couldUse \cup Users'
  /\ canUse' = canUse \cap Users'
  /\ belonged' = belonged \cup memberOf'
  /\ belongs' = belongs \cap memberOf'
  /\ sound' = (/\ sound
               /\ who \in accounts'
               /\ kind = "contact" => defaultOrg' = defaultOrg
               /\ proof = "key" => key' = "active")
  /\ UNCHANGED <<request, local, existed>>

Authenticate == FindKey \/ TouchKey \/ RereadKey \/ KeyAccount

Authorize ==
  \/ DetailAccount
  \/ LoadAgent
  \/ CheckOwner
  \/ CheckGrant
  \/ Retry
  \/ ReadDefault
  \/ CheckMember

Next ==
  \/ \E k \in Kinds, p \in {"token", "key", "neither"} : Start(k, p)
  \/ Authenticate
  \/ Authorize
  \/ AuditOwner
  \/ AuditGrants
  \/ ServiceCommits

Spec == Init /\ [][Next]_vars

-------------------------------------------------------------------------------
(* Properties. *)

TypeOK ==
  /\ accounts \subseteq Accounts
  /\ agent \in BOOLEAN
  /\ grant \in [Accounts -> Roles]
  /\ memberOf \subseteq Orgs
  /\ defaultOrg \in Orgs \cup {None}
  /\ key \in {"none", "active", "revoked"}
  /\ kind \in Kinds
  /\ who \in Accounts
  /\ proof \in {"token", "key", "neither"}
  /\ retried \in BOOLEAN
  /\ stage \in Stages
  /\ scope \in Orgs \cup {None}
  /\ result \in {"none", "admitted", "refused", "failed"}
  /\ best \in [Accounts -> Roles \cup {"owner"}]
  /\ commits \in 0 .. MaxCommits
  /\ couldUse \subseteq Accounts
  /\ canUse \subseteq Accounts
  /\ belonged \subseteq Orgs
  /\ belongs \subseteq Orgs
  /\ existed \in BOOLEAN
  /\ sound \in BOOLEAN

\* load_agent_with_access_check, can_access: the row, its owner and the grants are
\* three queries, grants and tokens outlive the account, and only two paths look it up.
\* Who is admitted, on any path, had an account when the request began, and nobody gets
\* an agent it could not use at some moment of the request.
AdmittedCouldUse ==
  result = "admitted" =>
    existed /\ (kind \in {"stream", "detail"} => who \in couldUse)

\* _resolve_org_scope: a turn acts in the agent's organization, or without an agent in
\* some other, and only if its account was a member of it during the request, however
\* access, default and membership changed meanwhile.
TurnActsInOwnOrganization ==
  result = "admitted" /\ kind \in {"stream", "contact"} =>
    scope \in belonged /\ (kind = "stream" => scope = AgentOrg)

\* Who had all a request needs at every moment is not turned away, whatever else is
\* committed between the queries.  An agent is needed in its organization only: access.py
\* confines every caller to one, and that the detail does not ask is no promise of it.
EntitledIsAdmitted ==
  result \in {"refused", "failed"} /\ sound =>
    CASE kind \in {"stream", "detail"} -> who \notin canUse \/ AgentOrg \notin belongs
      [] kind = "contact" -> defaultOrg \notin belongs
      [] OTHER -> FALSE

\* effective_accounts: an audit of two queries lists everybody who could use the agent
\* throughout, and its owner as such.
AuditMissesNobody ==
  stage = "done" /\ kind = "audit" =>
    \A a \in canUse : best[a] = IF a = AgentOwner THEN "owner" ELSE "use"
===============================================================================
