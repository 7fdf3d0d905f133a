--------------------------- MODULE AgentAccessProofs ---------------------------
(***************************************************************************)
(* Proofs about AgentAccess: its type invariant and every property of its  *)
(* run, for any accounts, organizations and number of commits.             *)
(*                                                                         *)
(* The invariant says what each query that has been answered leaves true   *)
(* of the history while the tables go on changing under the next one.      *)
(***************************************************************************)
EXTENDS AgentAccess, TLAPS

\* What the API service can do to the tables in one commit.
Committed ==
  \/ \E a \in Accounts, r \in Roles : GrantChanges(a, r)
  \/ AgentDeleted
  \/ \E o \in Orgs : MembershipChanges(o)
  \/ \E o \in Orgs \cup {None} : DefaultChanges(o)
  \/ \E s \in {"revoked", "none"} : KeyChanges(s)
  \/ \E a \in Accounts : AccountDeleted(a)

TablesOK ==
  /\ accounts \subseteq Accounts
  /\ agent \in BOOLEAN
  /\ grant \in [Accounts -> Roles]
  /\ memberOf \subseteq Orgs
  /\ defaultOrg \in Orgs \cup {None}
  /\ key \in {"none", "active", "revoked"}
  /\ Referenced

\* A commit keeps the foreign keys, brings no account back, and grants the use of an
\* agent only while it exists.
LEMMA CommitKeepsTables ==
  ASSUME TablesOK, who \in Accounts, who' = who, Committed
  PROVE  /\ TablesOK'
         /\ accounts' \subseteq accounts
         /\ grant'[who] = "use" => grant[who] = "use" \/ who \in Users'
  <1> USE DEF TablesOK, Referenced, Roles
  <1>1. ASSUME NEW a \in Accounts, NEW r \in Roles, GrantChanges(a, r)
        PROVE  /\ TablesOK' /\ accounts' \subseteq accounts
               /\ grant'[who] = "use" => grant[who] = "use" \/ who \in Users'
    BY <1>1 DEF GrantChanges, Users
  <1>2. CASE AgentDeleted
    <2>1. grant' \in [Accounts -> Roles] /\ (grant'[who] = "use" => grant[who] = "use")
      BY <1>2 DEF AgentDeleted
    <2> QED
      BY <1>2, <2>1 DEF AgentDeleted
  <1>3. ASSUME NEW o \in Orgs, MembershipChanges(o)
        PROVE  TablesOK' /\ accounts' \subseteq accounts /\ grant' = grant
    BY <1>3 DEF MembershipChanges
  <1>4. ASSUME NEW o \in Orgs \cup {None}, DefaultChanges(o)
        PROVE  TablesOK' /\ accounts' \subseteq accounts /\ grant' = grant
    BY <1>4 DEF DefaultChanges
  <1>5. ASSUME NEW s \in {"revoked", "none"}, KeyChanges(s)
        PROVE  TablesOK' /\ accounts' \subseteq accounts /\ grant' = grant
    BY <1>5 DEF KeyChanges
  <1>6. ASSUME NEW a \in Accounts, AccountDeleted(a)
        PROVE  /\ TablesOK' /\ accounts' \subseteq accounts
               /\ grant'[who] = "use" => grant[who] = "use"
    <2>1. grant' \in [Accounts -> Roles] /\ (grant'[who] = "use" => grant[who] = "use")
      BY <1>6 DEF AccountDeleted
    <2>2. memberOf' \subseteq memberOf /\ defaultOrg' \in {defaultOrg, None}
          /\ key' \in {key, "none"}
      BY <1>6 DEF AccountDeleted
    <2>3. Referenced'
      BY <1>6 DEF AccountDeleted
    <2> QED
      BY <1>6, <2>1, <2>2, <2>3 DEF AccountDeleted
  <1> QED
    BY <1>1, <1>2, <1>3, <1>4, <1>5, <1>6 DEF Committed

-------------------------------------------------------------------------------
(* Type correctness. *)

TypeInv == TypeOK /\ Referenced

LEMMA TypeInit == Init => TypeInv
  <1> SUFFICES ASSUME Init PROVE TypeInv
    OBVIOUS
  <1>1. commits \in 0 .. MaxCommits
    BY AccessAssumption DEF Init
  <1> QED
    BY <1>1 DEF Init, TypeInv, TypeOK, Kinds, Stages, Roles

\* The steps of a request leave the tables alone and keep the rest well formed.
LEMMA StepType ==
  ASSUME TypeInv, Elsewhere, stage' \in Stages, retried' \in BOOLEAN, scope' \in Orgs \cup {None},
         result' \in {"none", "admitted", "refused", "failed"},
         best' \in [Accounts -> Roles \cup {"owner"}]
  PROVE  TypeInv'
  BY DEF TypeInv, TypeOK, Referenced, Elsewhere, tables, request, history

LEMMA GrantedType ==
  ASSUME TypeInv, Granted
  PROVE  /\ stage' \in Stages /\ retried' \in BOOLEAN /\ scope' \in Orgs \cup {None}
         /\ result' \in {"none", "admitted", "refused", "failed"}
         /\ best' \in [Accounts -> Roles \cup {"owner"}]
  BY AccessAssumption DEF TypeInv, TypeOK, Granted, Answers, Stages

LEMMA EntryType == ASSUME NEW k \in Kinds PROVE Entry(k) \in Stages
  BY DEF Entry, Kinds, Stages

LEMMA TypeStep == TypeInv /\ [Next]_vars => TypeInv'
  <1> SUFFICES ASSUME TypeInv, [Next]_vars PROVE TypeInv'
    OBVIOUS
  <1>1. ASSUME NEW k \in Kinds, NEW p \in {"token", "key", "neither"}, Start(k, p) PROVE TypeInv'
    <2>1. UNCHANGED <<tables, who, commits>> /\ Users \subseteq Accounts
      BY <1>1 DEF Start, Users
    <2>2. /\ stage' \in Stages /\ result' \in {"none", "refused"} \cup {result}
          /\ UNCHANGED <<retried, scope, best>>
      BY <1>1, EntryType DEF Start, GoTo, Answers, Stages
    <2> QED
      BY <1>1, <2>1, <2>2 DEF Start, TypeInv, TypeOK, Referenced, tables
  <1>2. CASE Authenticate
    <2>1. Entry(kind) \in Stages
      BY EntryType DEF TypeInv, TypeOK
    <2> QED
      BY <1>2, <2>1, StepType DEF Authenticate, FindKey, TouchKey, RereadKey, KeyAccount, GoTo,
         Answers, TypeInv, TypeOK, Stages
  <1>3. CASE DetailAccount \/ LoadAgent \/ Retry \/ ReadDefault \/ CheckMember
    BY <1>3, StepType DEF DetailAccount, LoadAgent, Retry, ReadDefault, CheckMember, GoTo,
       Answers, TypeInv, TypeOK, Stages
  <1>4. CASE CheckOwner \/ CheckGrant
    BY <1>4, StepType, GrantedType DEF CheckOwner, CheckGrant, GoTo, Answers, TypeInv, TypeOK, Stages
  <1>5. CASE AuditOwner \/ AuditGrants
    <2>1. best' \in [Accounts -> Roles \cup {"owner"}]
      BY <1>5, AccessAssumption DEF AuditOwner, AuditGrants, TypeInv, TypeOK
    <2> QED
      BY <1>5, <2>1, StepType DEF AuditOwner, AuditGrants, TypeInv, TypeOK, Stages
  <1>6. CASE ServiceCommits
    <2>1. Committed /\ UNCHANGED <<request, local, existed>>
      BY <1>6 DEF ServiceCommits, Committed
    <2>2. TablesOK'
      BY <2>1, CommitKeepsTables DEF TablesOK, TypeInv, TypeOK, request
    <2>3. commits' \in 0 .. MaxCommits
      BY <1>6, AccessAssumption DEF ServiceCommits, TypeInv, TypeOK
    <2>4. Users' \subseteq Accounts
      BY DEF Users
    <2>5. couldUse' \subseteq Accounts /\ canUse' \subseteq Accounts /\ belonged' \subseteq Orgs
          /\ belongs' \subseteq Orgs /\ sound' \in BOOLEAN
      BY <1>6, <2>2, <2>4 DEF ServiceCommits, TypeInv, TypeOK, TablesOK
    <2> QED
      BY <2>1, <2>2, <2>3, <2>5 DEF TablesOK, TypeInv, TypeOK, request, local
  <1>7. CASE UNCHANGED vars
    BY <1>7 DEF vars, tables, request, local, history, TypeInv, TypeOK, Referenced
  <1> QED
    BY <1>1, <1>2, <1>3, <1>4, <1>5, <1>6, <1>7 DEF Next, Authorize

LEMMA TypeInvariant == Spec => []TypeInv
  BY TypeInit, TypeStep, PTL DEF Spec

\* Every variable keeps its type.
THEOREM AccessTypeCorrect == Spec => []TypeOK
  <1>1. TypeInv => TypeOK
    BY DEF TypeInv
  <1> QED
    BY <1>1, TypeInvariant, PTL

-------------------------------------------------------------------------------
(* What the queries leave true. *)

Under == stage \notin {"idle", "done"}

\* Under a request the history encloses the present.
HistoryHolds ==
  Under =>
    /\ Users \subseteq couldUse /\ canUse \subseteq Users
    /\ memberOf \subseteq belonged /\ belongs \subseteq memberOf
    /\ who \in accounts => existed
    /\ sound => who \in accounts /\ (proof = "key" => key = "active")

\* Which request is where, and that none is answered before its last query.
StagesOfKinds ==
  /\ stage \in {"key", "touch", "reread", "keyAccount"} => kind # "audit" /\ proof = "key"
  /\ stage = "account" => kind = "detail"
  /\ stage \in {"agent", "owner", "grant"} => kind \in {"stream", "detail"}
  /\ stage = "default" => kind = "contact"
  /\ stage = "member" => kind \in {"stream", "contact"}
  /\ stage \in {"auditOwner", "auditGrants"} => kind = "audit"
  /\ stage # "done" \/ kind = "audit" => result = "none"

\* What was found of the account, the agent, its grants and the organization.
Found ==
  /\ stage \in {"agent", "owner", "grant"} /\ kind = "detail" => existed
  /\ stage = "grant" => who # AgentOwner /\ (grant[who] = "use" => who \in couldUse)
  /\ stage = "member" => scope \in Orgs
  /\ stage = "member" /\ kind = "stream" => who \in couldUse /\ scope = AgentOrg
  /\ stage = "member" /\ kind = "contact" /\ sound => scope = defaultOrg

\* What the audit has listed so far.
Listed ==
  /\ stage \in {"idle", "auditOwner"} => \A a \in Accounts : best[a] = "none"
  /\ stage = "auditGrants" =>
       /\ \A a \in Accounts : a # AgentOwner => best[a] = "none"
       /\ canUse # {} => best[AgentOwner] = "owner"

Answered ==
  /\ AdmittedCouldUse
  /\ TurnActsInOwnOrganization
  /\ EntitledIsAdmitted
  /\ AuditMissesNobody

AccessInv == TypeInv /\ HistoryHolds /\ StagesOfKinds /\ Found /\ Listed /\ Answered

LEMMA Unanswered ==
  ASSUME result = "none", stage = "done" => kind # "audit"
  PROVE  Answered
  BY DEF Answered, AdmittedCouldUse, TurnActsInOwnOrganization,
     EntitledIsAdmitted, AuditMissesNobody

LEMMA UnansweredNext ==
  ASSUME result' = "none", stage' # "done"
  PROVE  Answered'
  BY DEF Answered, AdmittedCouldUse, TurnActsInOwnOrganization,
     EntitledIsAdmitted, AuditMissesNobody

LEMMA AccessInit == Init => AccessInv
  <1> SUFFICES ASSUME Init PROVE AccessInv
    OBVIOUS
  <1>1. stage = "idle" /\ result = "none" /\ best = [a \in Accounts |-> "none"] /\ kind = "stream"
    BY DEF Init
  <1>2. HistoryHolds /\ StagesOfKinds /\ Found /\ Listed
    BY <1>1 DEF HistoryHolds, Under, StagesOfKinds, Found, Listed
  <1> QED
    BY <1>1, <1>2, TypeInit, Unanswered DEF AccessInv

LEMMA HistoryStays ==
  ASSUME HistoryHolds, Under, Elsewhere
  PROVE  HistoryHolds'
  BY DEF HistoryHolds, Under, Elsewhere, tables, request, history, Users

LEMMA StartKeeps ==
  ASSUME AccessInv, NEW k \in Kinds, NEW p \in {"token", "key", "neither"}, Start(k, p)
  PROVE  HistoryHolds' /\ StagesOfKinds' /\ Found' /\ Listed' /\ Answered'
  <1>1. /\ stage = "idle" /\ kind' = k /\ proof' = p /\ result = "none"
        /\ UNCHANGED <<tables, who, retried, scope, best>>
    BY DEF Start, GoTo, Answers, AccessInv, StagesOfKinds
  <1>2. Users' = Users
    BY <1>1 DEF Users, tables
  <1>3. HistoryHolds'
    BY <1>1, <1>2 DEF Start, HistoryHolds, tables
  <1>4. \/ stage' = Entry(k) /\ result' = "none"
        \/ stage' = "key" /\ result' = "none" /\ k # "audit" /\ p = "key"
        \/ stage' = "done" /\ result' = "refused" /\ k # "audit" /\ p = "neither"
    BY <1>1 DEF Start, GoTo, Answers
  <1>5. StagesOfKinds'
    BY <1>1, <1>4 DEF StagesOfKinds, Entry, Kinds
  <1>6. Found' /\ Listed'
    BY <1>1, <1>4 DEF Found, Listed, Entry, Kinds, AccessInv
  <1>7. Answered'
    <2>1. CASE result' = "none"
      BY <1>4, <2>1, UnansweredNext DEF Entry, Kinds
    <2>2. CASE result' = "refused"
      <3>1. stage' = "done" /\ ~sound' /\ k # "audit"
        BY <1>4, <2>2 DEF Start
      <3> QED
        BY <1>1, <2>2, <3>1 DEF Answered, AdmittedCouldUse, TurnActsInOwnOrganization, EntitledIsAdmitted, AuditMissesNobody
    <2> QED
      BY <1>4, <2>1, <2>2
  <1> QED
    BY <1>3, <1>5, <1>6, <1>7

\* A refusal that soundness contradicts, or an audit cannot get.
LEMMA Refusal ==
  ASSUME result' \in {"refused", "failed"}, kind' # "audit",
         sound' => CASE kind' \in {"stream", "detail"} ->
                          who' \notin canUse' \/ AgentOrg \notin belongs'
                     [] kind' = "contact" -> defaultOrg' \notin belongs'
                     [] OTHER -> FALSE
  PROVE  Answered'
  BY DEF Answered, AdmittedCouldUse, TurnActsInOwnOrganization,
     EntitledIsAdmitted, AuditMissesNobody

LEMMA AuthenticateKeeps ==
  ASSUME AccessInv, Authenticate
  PROVE  HistoryHolds' /\ StagesOfKinds' /\ Found' /\ Listed' /\ Answered'
  <1>1. /\ stage \in {"key", "touch", "reread", "keyAccount"} /\ Elsewhere
        /\ UNCHANGED <<retried, scope, best>> /\ Under
    BY DEF Authenticate, FindKey, TouchKey, RereadKey, KeyAccount, GoTo, Answers, Under
  <1>2. kind' = kind /\ kind # "audit" /\ proof = "key" /\ result = "none" /\ kind \in Kinds
        /\ proof' = proof /\ sound' = sound /\ tables' = tables
    BY <1>1 DEF AccessInv, StagesOfKinds, Elsewhere, request, history, TypeInv, TypeOK
  <1>3. HistoryHolds'
    BY <1>1, HistoryStays DEF AccessInv
  <1>4. \/ stage' \in {"touch", "reread", "keyAccount"} /\ result' = "none"
        \/ stage' = Entry(kind) /\ result' = "none" /\ who \in accounts
        \/ stage' = "done" /\ result' \in {"refused", "failed"} /\ ~sound
    BY <1>1, <1>2 DEF Authenticate, FindKey, TouchKey, RereadKey, KeyAccount, GoTo, Answers,
       AccessInv, HistoryHolds
  <1>5. StagesOfKinds'
    BY <1>2, <1>4 DEF StagesOfKinds, Entry, Kinds
  <1>6. Found' /\ Listed'
    BY <1>1, <1>2, <1>4 DEF Found, Listed, Entry, Kinds
  <1>7. Answered'
    BY <1>2, <1>4, UnansweredNext, Refusal DEF Entry, Kinds
  <1> QED
    BY <1>3, <1>5, <1>6, <1>7

\* The step that can_access ends with: the account could use the agent.
LEMMA GrantedKeeps ==
  ASSUME AccessInv, Elsewhere, stage \in {"owner", "grant"}, Granted, who \in couldUse
  PROVE  StagesOfKinds' /\ Found' /\ Listed' /\ Answered'
  <1>1. /\ kind' = kind /\ kind \in {"stream", "detail"} /\ result = "none"
        /\ UNCHANGED <<who, existed, couldUse>>
        /\ kind = "detail" => existed
    BY DEF AccessInv, StagesOfKinds, Found, Elsewhere, request, history
  <1>2. CASE kind = "detail"
    <2>1. stage' = "done" /\ result' = "admitted"
      BY <1>2 DEF Granted, Answers
    <2> QED
      BY <1>1, <1>2, <2>1 DEF StagesOfKinds, Found, Listed, Answered, AdmittedCouldUse,
         TurnActsInOwnOrganization, EntitledIsAdmitted, AuditMissesNobody
  <1>3. CASE kind = "stream"
    <2>1. stage' = "member" /\ scope' = AgentOrg /\ result' = "none"
      BY <1>1, <1>3 DEF Granted
    <2> QED
      BY <1>1, <1>3, <2>1, AccessAssumption, UnansweredNext DEF StagesOfKinds, Found, Listed
  <1> QED
    BY <1>1, <1>2, <1>3

LEMMA AgentStepsKeep ==
  ASSUME AccessInv, DetailAccount \/ LoadAgent \/ CheckOwner \/ CheckGrant \/ Retry
  PROVE  HistoryHolds' /\ StagesOfKinds' /\ Found' /\ Listed' /\ Answered'
  <1>1. stage \in {"account", "agent", "owner", "grant"} /\ Elsewhere /\ Under
    BY DEF DetailAccount, LoadAgent, CheckOwner, CheckGrant, Retry, Under
  <1>2. /\ UNCHANGED <<tables, request, history>> /\ result = "none"
        /\ kind \in {"stream", "detail"} /\ kind' = kind /\ who' = who
        /\ canUse' = canUse /\ couldUse' = couldUse /\ sound' = sound /\ existed' = existed
        /\ accounts' = accounts /\ agent' = agent /\ grant' = grant
    BY <1>1 DEF AccessInv, StagesOfKinds, Elsewhere, tables, request, history
  <1>3. /\ Users \subseteq couldUse /\ canUse \subseteq Users
        /\ who \in accounts => existed
        /\ sound => who \in accounts
        /\ who \in Accounts
    BY <1>1 DEF AccessInv, HistoryHolds, TypeInv, TypeOK
  <1>4. HistoryHolds'
    BY <1>1, HistoryStays DEF AccessInv
  <1>5. CASE DetailAccount
    <2>1. \/ stage' = "agent" /\ result' = "none" /\ who \in accounts
          \/ stage' = "done" /\ result' = "refused" /\ ~sound
      BY <1>2, <1>3, <1>5 DEF DetailAccount, GoTo, Answers
    <2>2. kind = "detail"
      BY <1>5 DEF DetailAccount, AccessInv, StagesOfKinds
    <2>3. StagesOfKinds' /\ Found' /\ Listed'
      BY <1>2, <1>3, <2>1, <2>2 DEF StagesOfKinds, Found, Listed
    <2> QED
      BY <1>2, <1>4, <2>1, <2>3, UnansweredNext, Refusal
  <1>6. CASE LoadAgent
    <2>1. \/ stage' = "owner" /\ result' = "none"
          \/ stage' = "done" /\ result' = "refused" /\ canUse = {}
      BY <1>2, <1>3, <1>6 DEF LoadAgent, GoTo, Answers, Users
    <2>2. StagesOfKinds' /\ Found' /\ Listed'
      BY <1>2, <1>6, <2>1 DEF LoadAgent, AccessInv, StagesOfKinds, Found, Listed
    <2> QED
      BY <1>2, <1>4, <2>1, <2>2, UnansweredNext, Refusal
  <1>7. CASE CheckOwner
    <2>1. CASE ~agent
      <3>1. stage' = "done" /\ result' = "refused" /\ canUse = {}
        BY <1>3, <1>7, <2>1 DEF CheckOwner, Answers, Users
      <3>2. StagesOfKinds' /\ Found' /\ Listed'
        BY <1>2, <3>1 DEF StagesOfKinds, Found, Listed
      <3> QED
        BY <1>2, <1>4, <3>1, <3>2, Refusal
    <2>2. CASE agent /\ who = AgentOwner
      <3>1. who \in couldUse /\ Granted
        BY <1>3, <1>7, <2>2 DEF CheckOwner, Users
      <3> QED
        BY <1>1, <1>4, <1>7, <3>1, GrantedKeeps DEF CheckOwner
    <2>3. CASE agent /\ who # AgentOwner
      <3>1. stage' = "grant" /\ result' = "none"
        BY <1>2, <1>7, <2>3 DEF CheckOwner, GoTo
      <3>2. grant[who] = "use" => who \in couldUse
        BY <1>3, <2>3 DEF Users
      <3>3. StagesOfKinds' /\ Found' /\ Listed'
        BY <1>2, <1>7, <2>3, <3>1, <3>2 DEF CheckOwner, AccessInv, StagesOfKinds, Found, Listed
      <3> QED
        BY <1>4, <3>1, <3>3, UnansweredNext
    <2> QED
      BY <1>3, <2>1, <2>2, <2>3 DEF AccessInv, TypeInv, TypeOK
  <1>8. CASE CheckGrant
    <2>1. CASE grant[who] = "use"
      <3>1. who \in couldUse /\ Granted
        BY <1>8, <2>1 DEF CheckGrant, role_satisfies, AccessInv, Found
      <3> QED
        BY <1>1, <1>4, <1>8, <3>1, GrantedKeeps DEF CheckGrant
    <2>2. CASE grant[who] # "use"
      <3>1. stage' = "done" /\ result' = "refused" /\ who \notin canUse
        BY <1>3, <1>8, <2>2 DEF CheckGrant, role_satisfies, Answers, Users, AccessInv, Found
      <3>2. StagesOfKinds' /\ Found' /\ Listed'
        BY <1>2, <3>1 DEF StagesOfKinds, Found, Listed
      <3> QED
        BY <1>2, <1>4, <3>1, <3>2, Refusal
    <2> QED
      BY <2>1, <2>2
  <1>9. CASE Retry
    <2>1. stage' = "agent" /\ result' = "none" /\ kind = "stream"
      BY <1>2, <1>9 DEF Retry
    <2>2. StagesOfKinds' /\ Found' /\ Listed'
      BY <1>2, <2>1 DEF StagesOfKinds, Found, Listed
    <2> QED
      BY <1>4, <2>1, <2>2, UnansweredNext
  <1> QED
    BY <1>5, <1>6, <1>7, <1>8, <1>9

LEMMA OrganizationStepsKeep ==
  ASSUME AccessInv, ReadDefault \/ CheckMember
  PROVE  HistoryHolds' /\ StagesOfKinds' /\ Found' /\ Listed' /\ Answered'
  <1>1. stage \in {"default", "member"} /\ Elsewhere /\ Under
    BY DEF ReadDefault, CheckMember, Under
  <1>2. /\ UNCHANGED <<tables, request, history>> /\ result = "none"
        /\ kind \in {"stream", "contact"} /\ kind' = kind /\ who' = who
        /\ canUse' = canUse /\ couldUse' = couldUse /\ sound' = sound /\ existed' = existed
        /\ belongs' = belongs /\ belonged' = belonged /\ defaultOrg' = defaultOrg
    BY <1>1 DEF AccessInv, StagesOfKinds, Elsewhere, tables, request, history
  <1>3. /\ memberOf \subseteq belonged /\ belongs \subseteq memberOf /\ memberOf \subseteq Orgs
        /\ memberOf # {} => existed
    BY <1>1 DEF AccessInv, HistoryHolds, TypeInv, TypeOK, Referenced
  <1>4. HistoryHolds'
    BY <1>1, HistoryStays DEF AccessInv
  <1>5. CASE ReadDefault
    <2>1. kind = "contact"
      BY <1>5 DEF ReadDefault, AccessInv, StagesOfKinds
    <2>2. \/ stage' = "member" /\ result' = "none" /\ scope' = defaultOrg /\ scope' \in Orgs
          \/ stage' = "done" /\ result' = "refused" /\ defaultOrg \notin belongs
      BY <1>2, <1>3, <1>5, AccessAssumption DEF ReadDefault, Answers, AccessInv, TypeInv, TypeOK
    <2>3. StagesOfKinds' /\ Found' /\ Listed'
      BY <1>2, <2>1, <2>2 DEF StagesOfKinds, Found, Listed
    <2> QED
      BY <1>2, <1>4, <2>1, <2>2, <2>3, UnansweredNext, Refusal
  <1>6. CASE CheckMember
    <2>1. stage' = "done" /\ scope' = scope
      BY <1>6 DEF CheckMember, Answers
    <2>2. /\ kind = "stream" => who \in couldUse /\ scope = AgentOrg
          /\ kind = "contact" /\ sound => scope = defaultOrg
      BY <1>6 DEF CheckMember, AccessInv, Found
    <2>3. StagesOfKinds' /\ Found' /\ Listed'
      BY <1>2, <2>1 DEF StagesOfKinds, Found, Listed
    <2>4. CASE scope \in memberOf
      <3>1. result' = "admitted" /\ scope \in belonged /\ existed
        BY <1>3, <1>6, <2>4 DEF CheckMember, Answers
      <3>2. Answered'
        BY <1>2, <2>1, <2>2, <3>1 DEF Answered, AdmittedCouldUse, TurnActsInOwnOrganization, EntitledIsAdmitted, AuditMissesNobody
      <3> QED
        BY <1>4, <2>3, <3>2
    <2>5. CASE scope \notin memberOf
      <3>1. result' = "refused" /\ scope \notin belongs
        BY <1>3, <1>6, <2>5 DEF CheckMember, Answers
      <3> QED
        BY <1>2, <1>4, <2>2, <2>3, <3>1, Refusal
    <2> QED
      BY <2>4, <2>5
  <1> QED
    BY <1>5, <1>6

LEMMA AuditKeeps ==
  ASSUME AccessInv, AuditOwner \/ AuditGrants
  PROVE  HistoryHolds' /\ StagesOfKinds' /\ Found' /\ Listed' /\ Answered'
  <1>1. /\ stage \in {"auditOwner", "auditGrants"} /\ Elsewhere /\ Under
        /\ stage' \in {"auditGrants", "done"} /\ UNCHANGED result
    BY DEF AuditOwner, AuditGrants, Under
  <1>2. kind' = kind /\ kind = "audit" /\ result = "none" /\ canUse' = canUse
    BY <1>1 DEF AccessInv, StagesOfKinds, Elsewhere, request, history
  <1>3. canUse \subseteq Users /\ best \in [Accounts -> Roles \cup {"owner"}]
    BY <1>1 DEF AccessInv, HistoryHolds, TypeInv, TypeOK
  <1>4. HistoryHolds' /\ StagesOfKinds' /\ Found'
    BY <1>1, <1>2, HistoryStays DEF AccessInv, StagesOfKinds, Found
  <1>5. CASE AuditOwner
    <2>1. Listed'
      BY <1>2, <1>3, <1>5, AccessAssumption DEF AuditOwner, AccessInv, Listed, Users
    <2> QED
      BY <1>1, <1>2, <1>4, <1>5, <2>1, UnansweredNext DEF AuditOwner
  <1>6. CASE AuditGrants
    <2>1. \A a \in canUse : best'[a] = IF a = AgentOwner THEN "owner" ELSE "use"
      BY <1>3, <1>6 DEF AuditGrants, AccessInv, Listed, Users
    <2>2. Answered'
      BY <1>1, <1>2, <2>1 DEF Answered, AdmittedCouldUse, TurnActsInOwnOrganization, EntitledIsAdmitted, AuditMissesNobody
    <2>3. Listed'
      BY <1>6 DEF AuditGrants, Listed
    <2> QED
      BY <1>4, <2>2, <2>3
  <1> QED
    BY <1>5, <1>6

LEMMA CommitsKeep ==
  ASSUME AccessInv, ServiceCommits
  PROVE  HistoryHolds' /\ StagesOfKinds' /\ Found' /\ Listed' /\ Answered'
  <1>1. /\ Committed /\ Under /\ UNCHANGED <<request, local, existed>>
        /\ couldUse' = couldUse \cup Users' /\ canUse' = canUse \cap Users'
        /\ belonged' = belonged \cup memberOf' /\ belongs' = belongs \cap memberOf'
        /\ sound' = (/\ sound
                     /\ who \in accounts'
                     /\ kind = "contact" => defaultOrg' = defaultOrg
                     /\ proof = "key" => key' = "active")
    BY DEF ServiceCommits, Committed, Under
  <1>2. /\ UNCHANGED <<kind, who, proof, retried, stage, scope, result, best>>
    BY <1>1 DEF request, local
  <1>3. /\ accounts' \subseteq accounts
        /\ grant'[who] = "use" => grant[who] = "use" \/ who \in Users'
    BY <1>1, <1>2, CommitKeepsTables DEF AccessInv, TypeInv, TypeOK, TablesOK
  <1>4. HistoryHolds'
    BY <1>1, <1>2, <1>3 DEF AccessInv, HistoryHolds, Under
  <1>5. StagesOfKinds'
    BY <1>2 DEF AccessInv, StagesOfKinds
  <1>6. Found'
    BY <1>1, <1>2, <1>3 DEF AccessInv, Found
  <1>7. Listed'
    BY <1>1, <1>2 DEF AccessInv, Listed
  <1>8. Answered'
    BY <1>1, <1>2, UnansweredNext DEF AccessInv, StagesOfKinds, Under
  <1> QED
    BY <1>4, <1>5, <1>6, <1>7, <1>8

LEMMA AccessStep == AccessInv /\ [Next]_vars => AccessInv'
  <1> SUFFICES ASSUME AccessInv, [Next]_vars PROVE AccessInv'
    OBVIOUS
  <1>1. TypeInv'
    BY TypeStep DEF AccessInv
  <1>2. CASE UNCHANGED vars
    BY <1>2 DEF vars, tables, request, local, history, AccessInv, TypeInv, TypeOK, Referenced,
       HistoryHolds, Under, Users, StagesOfKinds, Found, Listed, Answered, AdmittedCouldUse,
       TurnActsInOwnOrganization, EntitledIsAdmitted, AuditMissesNobody
  <1>3. CASE Next
    <2>1. HistoryHolds' /\ StagesOfKinds' /\ Found' /\ Listed' /\ Answered'
      BY <1>3, StartKeeps, AuthenticateKeeps, AgentStepsKeep, OrganizationStepsKeep, AuditKeeps,
         CommitsKeep DEF Next, Authorize
    <2> QED
      BY <1>1, <2>1 DEF AccessInv
  <1> QED
    BY <1>2, <1>3

LEMMA AccessInvariant == Spec => []AccessInv
  BY AccessInit, AccessStep, PTL DEF Spec

-------------------------------------------------------------------------------
(* The properties. *)

\* Nobody is given an agent that it could not use at some moment of the request.
THEOREM AdmittedIsEntitled == Spec => []AdmittedCouldUse
  <1>1. AccessInv => AdmittedCouldUse
    BY DEF AccessInv, Answered
  <1> QED
    BY <1>1, AccessInvariant, PTL

\* A turn acts in the agent's organization, or in the default one without an agent, and
\* only if its account was a member of it during the request.
THEOREM TurnsKeepToTheirOrganization == Spec => []TurnActsInOwnOrganization
  <1>1. AccessInv => TurnActsInOwnOrganization
    BY DEF AccessInv, Answered
  <1> QED
    BY <1>1, AccessInvariant, PTL

\* Who had all a request needs throughout, membership in the agent's organization
\* included, is not turned away.
THEOREM EntitledAreAdmitted == Spec => []EntitledIsAdmitted
  <1>1. AccessInv => EntitledIsAdmitted
    BY DEF AccessInv, Answered
  <1> QED
    BY <1>1, AccessInvariant, PTL

\* The audit lists everybody who could use the agent throughout.
THEOREM AuditsAreComplete == Spec => []AuditMissesNobody
  <1>1. AccessInv => AuditMissesNobody
    BY DEF AccessInv, Answered
  <1> QED
    BY <1>1, AccessInvariant, PTL
===============================================================================
