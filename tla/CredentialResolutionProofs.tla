---------------------- MODULE CredentialResolutionProofs ----------------------
(***************************************************************************)
(* Proofs about CredentialResolution, for every set of credentials, own    *)
(* credentials and types.                                                  *)
(***************************************************************************)
EXTENDS CredentialResolution, TLAPS

USE DEF tables, request, local, history, Kinds, Stages, Checking, Roles

-------------------------------------------------------------------------------
(* Types. *)

LEMMA UsableTyped == Usable \in SUBSET Credentials /\ Live \in SUBSET Credentials
  BY DEF Usable, Live

LEMMA StartTypes ==
  ASSUME TypeOK, NEW k \in Kinds, NEW t \in Types, NEW b \in Credentials \cup {None},
         Start(k, t, b)
  PROVE  TypeOK'
  <1>1. Entry(k, b) \in Stages
    BY DEF Entry
  <1>2. {default[u] : u \in {v \in Types : k = "prune" /\ default[v] # None}} \in SUBSET Credentials
    BY DEF TypeOK
  <1>3. default[t] \in Credentials \cup {None}
    BY DEF TypeOK
  <1> QED
    BY <1>1, <1>2, <1>3, UsableTyped DEF TypeOK, Start, Begins

LEMMA RetryTypes == ASSUME TypeOK, Retry PROVE TypeOK'
  <1>1. Entry(kind, bound) \in Stages
    BY DEF Entry, TypeOK
  <1>2. {default[u] : u \in {v \in Types : kind = "prune" /\ default[v] # None}} \in SUBSET Credentials
    BY DEF TypeOK
  <1> QED
    BY <1>1, <1>2 DEF TypeOK, Retry, Begins

LEMMA AnswerTypes ==
  ASSUME TypeOK, Elsewhere, Granted \/ Denied, stage \in Checking, cand \in Credentials
  PROVE  TypeOK'
  <1>1. TypeOf[cand] \in Types
    BY ResolutionAssumption
  <1>2. CASE Granted
    BY <1>2 DEF TypeOK, Elsewhere, Granted, GoTo, Returns
  <1>3. CASE Denied
    BY <1>1, <1>3 DEF TypeOK, Elsewhere, Denied, GoTo, Returns
  <1> QED
    BY <1>2, <1>3

LEMMA ServiceTypes == ASSUME TypeOK, ServiceCommits PROVE TypeOK'
  <1>1. row' \in [Credentials -> {"unused", "live", "deleted"}] /\ role' \in [Credentials -> Roles]
    BY DEF TypeOK, ServiceCommits, CredentialCreated, CredentialDeleted, GrantChanges, DefaultChanges
  <1>2. default' \in [Types -> Credentials \cup {None}]
    BY UsableTyped DEF TypeOK, ServiceCommits, CredentialCreated, CredentialDeleted, GrantChanges,
                       DefaultChanges
  <1>3. Usable' \in SUBSET Credentials
    BY DEF Usable, Live
  <1>4. ever' \in SUBSET Credentials /\ always' \in SUBSET Credentials /\ lost' \in SUBSET Credentials
        /\ chosen' \in Credentials \cup {None}
    BY <1>3, UsableTyped DEF TypeOK, ServiceCommits, Observed
  <1> QED
    BY <1>1, <1>2, <1>4 DEF TypeOK, ServiceCommits

\* What is checked or fetched is a credential.
CandNamed == stage \in Checking \cup {"load", "fetch"} => cand \in Credentials

TypeInv == TypeOK /\ CandNamed

LEMMA CheckTypes == ASSUME TypeInv, CheckOwner \/ CheckGrant PROVE TypeOK'
  <1>1. cand \in Credentials /\ stage \in Checking
    BY DEF TypeInv, CandNamed, CheckOwner, CheckGrant
  <1>2. CASE Elsewhere /\ (Granted \/ Denied)
    BY <1>1, <1>2, AnswerTypes DEF TypeInv
  <1>3. CASE Elsewhere /\ check' = "grant" /\ UNCHANGED <<stage, cand, ids, todo, removed, result>>
    BY <1>3 DEF TypeInv, TypeOK, Elsewhere
  <1> QED
    BY <1>2, <1>3 DEF CheckOwner, CheckGrant

LEMMA ReadTypes ==
  ASSUME TypeInv, LoadRow \/ FetchRow \/ ReadDefault \/ ReadOwned \/ ReadShared \/ ReadSharedRow
  PROVE  TypeOK'
  <1> USE DEF TypeInv, TypeOK, Elsewhere, GoTo, Returns
  <1>1. CASE LoadRow
    BY <1>1 DEF LoadRow
  <1>2. CASE FetchRow
    BY <1>2 DEF FetchRow
  <1>3. CASE ReadDefault
    BY <1>3 DEF ReadDefault
  <1>4. CASE ReadOwned
    BY <1>4, UsableTyped DEF ReadOwned
  <1>5. CASE ReadShared
    BY <1>5 DEF ReadShared
  <1>6. CASE ReadSharedRow
    BY <1>6 DEF ReadSharedRow
  <1> QED
    BY <1>1, <1>2, <1>3, <1>4, <1>5, <1>6

LEMMA PruneTypes ==
  ASSUME TypeInv, (\E c \in Credentials : PruneChecks(c)) \/ PruneCommits
  PROVE  TypeOK'
  <1>1. CASE \E c \in Credentials : PruneChecks(c)
    BY <1>1 DEF TypeInv, TypeOK, PruneChecks, Elsewhere
  <1>2. CASE PruneCommits
    BY <1>2 DEF TypeInv, TypeOK, PruneCommits, Returns
  <1> QED
    BY <1>1, <1>2

\* Only Start, Retry, ReadDefault and PruneChecks choose another candidate.
LEMMA CandStep == ASSUME TypeInv, Next PROVE CandNamed'
  <1> USE DEF TypeInv, TypeOK, CandNamed
  <1>1. CASE \E k \in Kinds, t \in Types, b \in Credentials \cup {None} : Start(k, t, b)
    <2> PICK k \in Kinds, t \in Types, b \in Credentials \cup {None} : Start(k, t, b)
      BY <1>1
    <2> QED
      BY DEF Start, Begins, MayName, Entry
  <1>2. CASE Retry
    BY <1>2 DEF Retry, Begins, Entry
  <1>3. CASE CheckOwner
    BY <1>3 DEF CheckOwner, Granted, Denied, GoTo, Returns
  <1>4. CASE CheckGrant
    BY <1>4 DEF CheckGrant, Granted, Denied, GoTo, Returns
  <1>5. CASE LoadRow \/ FetchRow \/ ReadDefault
    BY <1>5 DEF LoadRow, FetchRow, ReadDefault, GoTo, Returns
  <1>6. CASE ReadOwned \/ ReadShared \/ ReadSharedRow
    BY <1>6 DEF ReadOwned, ReadShared, ReadSharedRow, GoTo, Returns
  <1>7. CASE \E c \in Credentials : PruneChecks(c)
    BY <1>7 DEF PruneChecks
  <1>8. CASE PruneCommits
    BY <1>8 DEF PruneCommits, Returns
  <1>9. CASE ServiceCommits
    BY <1>9 DEF ServiceCommits
  <1> QED
    BY <1>1, <1>2, <1>3, <1>4, <1>5, <1>6, <1>7, <1>8, <1>9 DEF Next, Resolve

LEMMA TypeStep == TypeInv /\ [Next]_vars => TypeInv'
  <1> SUFFICES ASSUME TypeInv, [Next]_vars PROVE TypeInv'
    OBVIOUS
  <1>1. CASE Next
    <2>1. TypeOK'
      BY <1>1, StartTypes, RetryTypes, CheckTypes, ReadTypes, PruneTypes, ServiceTypes
         DEF Next, Resolve, TypeInv
    <2> QED
      BY <1>1, <2>1, CandStep DEF TypeInv
  <1>2. CASE UNCHANGED vars
    BY <1>2 DEF vars, TypeInv, TypeOK, CandNamed
  <1> QED
    BY <1>1, <1>2

LEMMA TypeInit == Init => TypeInv
  BY DEF Init, TypeInv, TypeOK, CandNamed

LEMMA TypeInvariant == Spec => []TypeInv
  BY TypeInit, TypeStep, PTL DEF Spec

\* Every variable keeps its type: access.py and credential_access.py hand ids of
\* credentials from query to query.
THEOREM ResolutionTypeCorrect == Spec => []TypeOK
  <1>1. TypeInv => TypeOK
    BY DEF TypeInv
  <1> QED
    BY <1>1, TypeInvariant, PTL

-------------------------------------------------------------------------------
(* What is known between the start and the end of a resolution. *)

Open == stage \notin {"idle", "done"}

\* The history brackets what is usable now.
Bracketed ==
  Open => Usable \subseteq ever /\ always \subseteq Usable /\ ever \ lost \subseteq Usable

\* Grants name credentials that were created, defaults have the type they are for.
RowsKnown ==
  /\ \A c \in Credentials : role[c] # "none" => row[c] # "unused"
  /\ \A t \in Types : default[t] # None => TypeOf[default[t]] = t

\* Pruning and resolving are different stages.
KindStages ==
  /\ Open => (kind = "prune" <=> stage \in {"prune", "pruned"})
  /\ stage \in {"binding", "load", "reload"} => cand = bound
  /\ stage = "binding" => kind \in {"completion", "index"}
  /\ stage \in {"load", "reload"} => kind \in {"completion", "tool"}
  /\ stage \in {"default", "selected", "owned", "shared", "sharedFetch"} => kind # "tool"
  /\ stage = "idle" => ids = {}

\* What a check has found out about cand.
CheckedCand ==
  /\ stage \in Checking /\ check = "grant" =>
       cand \notin Own /\ row[cand] # "unused" /\ (role[cand] = "use" => cand \in ever)
  /\ stage = "fetch" => cand \in ever
  /\ stage \in {"load", "reload"} /\ kind = "completion" => cand \in ever
  /\ stage = "sharedFetch" => \A c \in ids : row[c] # "unused" /\ (c \in Live => c \in ever)

\* A binding, or else a default, usable throughout is still being followed.
BindingFollowed ==
  Open /\ bound \in always => stage \in {"binding", "load", "reload", "fetch"} /\ cand = bound

DefaultFollowed ==
  Open /\ kind \notin {"tool", "prune"} /\ bound \notin ever /\ chosen \in always =>
    /\ default[want] = chosen
    /\ stage \in {"binding", "default", "selected", "fetch"}
    /\ stage \in {"selected", "fetch"} => cand = chosen

\* The fallbacks have not passed over a credential that was usable throughout.
NothingPassed ==
  /\ stage \in {"shared", "sharedFetch"} \/ ids # {} => always \cap Own \cap Typed(want) = {}
  /\ stage = "sharedFetch" => always \cap Typed(want) \subseteq ids

\* A prune has still to check a selection, or is checking it, or has, or will delete it.
PruneCovers ==
  Open /\ kind = "prune" => \A t \in Types :
    \/ default[t] \in ever \cup {None} \cup todo
    \/ stage = "pruned" /\ default[t] = cand
    \/ t \in removed

ResolutionInv ==
  /\ TypeInv
  /\ Bracketed
  /\ RowsKnown
  /\ KindStages
  /\ CheckedCand
  /\ BindingFollowed
  /\ DefaultFollowed
  /\ NothingPassed
  /\ PruneCovers
  /\ ResolvedWasUsable
  /\ ExplicitChoiceWins
  /\ NothingFoundIsExplained

\* What the invariant says of a resolution that has ended.
Answered == ResolvedWasUsable /\ ExplicitChoiceWins /\ NothingFoundIsExplained

LEMMA ResolutionInit == Init => ResolutionInv
  <1> SUFFICES ASSUME Init PROVE ResolutionInv
    OBVIOUS
  <1>1. TypeInv
    BY TypeInit
  <1> QED
    BY <1>1 DEF Init, ResolutionInv, Open, Bracketed, RowsKnown, KindStages, CheckedCand, BindingFollowed,
       DefaultFollowed, NothingPassed, PruneCovers, Resolved, ResolvedWasUsable, ExplicitChoiceWins,
       NothingFoundIsExplained

LEMMA TablesKept == ASSUME UNCHANGED tables PROVE Usable' = Usable /\ Live' = Live
  BY DEF Usable, Live

\* A step of the resolver that leaves tables and history alone keeps what relates the two.
LEMMA ResolverKeeps ==
  ASSUME ResolutionInv, UNCHANGED <<tables, history>>, Open
  PROVE  Bracketed' /\ RowsKnown' /\ Usable' = Usable /\ Live' = Live
  BY TablesKept DEF ResolutionInv, Bracketed, RowsKnown

LEMMA StartKeeps ==
  ASSUME ResolutionInv, NEW k \in Kinds, NEW t \in Types, NEW b \in Credentials \cup {None},
         Start(k, t, b)
  PROVE  /\ Bracketed' /\ RowsKnown' /\ KindStages' /\ CheckedCand' /\ BindingFollowed'
         /\ DefaultFollowed' /\ NothingPassed' /\ PruneCovers' /\ Answered'
  <1> USE DEF Start, Begins
  <1>1. Usable' = Usable /\ Live' = Live /\ Usable \in SUBSET Credentials
    BY TablesKept, UsableTyped
  <1>2. Bracketed' /\ RowsKnown'
    BY <1>1 DEF ResolutionInv, Bracketed, RowsKnown
  <1>3. KindStages'
    BY DEF KindStages, Entry, Open
  <1>4. CheckedCand'
    BY DEF CheckedCand, Entry
  <1>5. BindingFollowed'
    BY <1>1, ResolutionAssumption DEF BindingFollowed, Entry, MayName
  <1>6. DefaultFollowed'
    BY DEF DefaultFollowed, Entry
  <1>7. NothingPassed'
    BY DEF NothingPassed, Entry
  <1>8. PruneCovers'
    BY DEF PruneCovers
  <1>9. Answered'
    BY DEF Answered, ResolvedWasUsable, ExplicitChoiceWins, NothingFoundIsExplained, Resolved, Entry
  <1> QED
    BY <1>2, <1>3, <1>4, <1>5, <1>6, <1>7, <1>8, <1>9

LEMMA RetryKeeps ==
  ASSUME ResolutionInv, Retry
  PROVE  /\ Bracketed' /\ RowsKnown' /\ KindStages' /\ CheckedCand' /\ BindingFollowed'
         /\ DefaultFollowed' /\ NothingPassed' /\ PruneCovers' /\ Answered'
  <1>1. Bracketed' /\ RowsKnown' /\ UNCHANGED <<kind, want, bound, default, ever, always, chosen>>
    BY ResolverKeeps DEF Retry, Open
  <1>2. stage' = Entry("completion", bound) /\ kind = "completion" /\ cand' = bound /\ check' = "owner"
        /\ ids' = {} /\ Open
    BY DEF Retry, Begins, Open
  <1>3. KindStages' /\ CheckedCand' /\ NothingPassed' /\ PruneCovers'
    BY <1>1, <1>2 DEF KindStages, CheckedCand, NothingPassed, PruneCovers, Entry, Open
  <1>4. BindingFollowed'
    <2>1. bound \in always => bound # None
      BY ResolutionAssumption DEF ResolutionInv, TypeInv, TypeOK
    <2> QED
      BY <1>1, <1>2, <2>1 DEF BindingFollowed, Entry
  <1>5. DefaultFollowed'
    BY <1>1, <1>2 DEF ResolutionInv, DefaultFollowed, Entry
  <1>6. Answered'
    BY <1>2 DEF Answered, ResolvedWasUsable, ExplicitChoiceWins, NothingFoundIsExplained, Resolved, Entry
  <1> QED
    BY <1>1, <1>3, <1>4, <1>5, <1>6

\* What a commit of the API service can change under a resolution.
LEMMA ServiceEffect ==
  ASSUME TypeOK, ServiceCommits
  PROVE  /\ UNCHANGED <<request, local>>
         /\ \A c \in Credentials :
              /\ row[c] # "unused" => row'[c] # "unused" /\ (c \in Live' => c \in Live)
              /\ role'[c] = "use" => role[c] = "use" \/ c \in Usable'
              /\ role'[c] # "none" => role[c] # "none" \/ row[c] = "live"
         /\ \A t \in Types : default'[t] \in {default[t], None} \cup (Usable' \cap Typed(t))
  <1> USE DEF TypeOK, Live, Usable
  <1>1. UNCHANGED <<request, local>>
    BY DEF ServiceCommits
  <1>2. ASSUME NEW c \in Credentials, CredentialCreated(c)
        PROVE  /\ \A d \in Credentials :
                    /\ row[d] # "unused" => row'[d] # "unused" /\ (d \in Live' => d \in Live)
                    /\ role'[d] = role[d]
               /\ default' = default
    BY <1>2 DEF CredentialCreated
  <1>3. ASSUME NEW c \in Credentials, CredentialDeleted(c)
        PROVE  /\ \A d \in Credentials :
                    /\ row[d] # "unused" => row'[d] # "unused" /\ (d \in Live' => d \in Live)
                    /\ role'[d] \in {role[d], "none"}
               /\ \A t \in Types : default'[t] \in {default[t], None}
    BY <1>3 DEF CredentialDeleted
  <1>4. ASSUME NEW c \in Credentials, NEW r \in Roles, GrantChanges(c, r)
        PROVE  /\ row' = row /\ default' = default
               /\ \A d \in Credentials : role'[d] \in {role[d], "none"} \/ (row[d] = "live" /\ d \notin Own)
    BY <1>4 DEF GrantChanges
  <1>5. ASSUME NEW t \in Types, NEW c \in Credentials \cup {None}, DefaultChanges(t, c)
        PROVE  /\ row' = row /\ role' = role
               /\ \A u \in Types : default'[u] \in {default[u], None} \cup (Usable \cap Typed(u))
    BY <1>5 DEF DefaultChanges
  <1>6. CASE \E c \in Credentials : CredentialCreated(c) \/ CredentialDeleted(c)
    <2> PICK c \in Credentials : CredentialCreated(c) \/ CredentialDeleted(c)
      BY <1>6
    <2> QED
      BY <1>1, <1>2, <1>3
  <1>7. CASE \E c \in Credentials, r \in Roles : GrantChanges(c, r)
    <2> PICK c \in Credentials, r \in Roles : GrantChanges(c, r)
      BY <1>7
    <2> QED
      BY <1>1, <1>4
  <1>8. CASE \E t \in Types, c \in Credentials \cup {None} : DefaultChanges(t, c)
    <2> PICK t \in Types, c \in Credentials \cup {None} : DefaultChanges(t, c)
      BY <1>8
    <2> QED
      BY <1>1, <1>5
  <1> QED
    BY <1>6, <1>7, <1>8 DEF ServiceCommits

LEMMA ServiceKeeps ==
  ASSUME ResolutionInv, ServiceCommits
  PROVE  /\ Bracketed' /\ RowsKnown' /\ KindStages' /\ CheckedCand' /\ BindingFollowed'
         /\ DefaultFollowed' /\ NothingPassed' /\ PruneCovers' /\ Answered'
  <1> USE DEF Open
  <1>1. TypeOK /\ CandNamed /\ UNCHANGED <<request, local>> /\ stage # "done"
    BY DEF ResolutionInv, TypeInv, ServiceCommits
  <1>2. Open => /\ ever' = ever \cup Usable'
                /\ always' = always \cap Usable'
                /\ lost' = lost \cup (Usable \ Usable')
                /\ chosen' = IF default'[want] = chosen THEN chosen ELSE None
    BY DEF ServiceCommits, Observed
  <1>3. Open => Usable \subseteq ever /\ always \subseteq Usable /\ ever \ lost \subseteq Usable
    BY DEF ResolutionInv, Bracketed
  <1>4. Bracketed'
    BY <1>1, <1>2, <1>3 DEF Bracketed
  <1>5. RowsKnown'
    <2>1. \A c \in Credentials : role'[c] # "none" => row'[c] # "unused"
      BY <1>1, ServiceEffect DEF ResolutionInv, RowsKnown
    <2>2. \A t \in Types : default'[t] # None => TypeOf[default'[t]] = t
      BY <1>1, ServiceEffect DEF ResolutionInv, RowsKnown, Typed
    <2> QED
      BY <2>1, <2>2 DEF RowsKnown
  <1>6. KindStages'
    BY <1>1 DEF ResolutionInv, KindStages
  <1>7. CheckedCand'
    <2>1. stage \in Checking /\ check = "grant" =>
            cand \notin Own /\ row'[cand] # "unused" /\ (role'[cand] = "use" => cand \in ever')
      BY <1>1, <1>2, ServiceEffect DEF ResolutionInv, CheckedCand, CandNamed
    <2>2. stage = "sharedFetch" => \A c \in ids : row'[c] # "unused" /\ (c \in Live' => c \in ever')
      BY <1>1, <1>2, ServiceEffect DEF ResolutionInv, CheckedCand, TypeOK
    <2>3. /\ stage = "fetch" => cand \in ever'
          /\ stage \in {"load", "reload"} /\ kind = "completion" => cand \in ever'
      BY <1>1, <1>2 DEF ResolutionInv, CheckedCand
    <2> QED
      BY <1>1, <2>1, <2>2, <2>3 DEF CheckedCand
  <1>8. BindingFollowed'
    BY <1>1, <1>2 DEF ResolutionInv, BindingFollowed
  <1>9. DefaultFollowed'
    <2>1. Open /\ chosen' \in always' => chosen' = chosen /\ default'[want] = chosen /\ chosen \in always
      BY <1>1, <1>2, ResolutionAssumption DEF TypeOK
    <2> QED
      BY <1>1, <1>2, <2>1 DEF ResolutionInv, DefaultFollowed
  <1>10. NothingPassed'
    <2>1. ids # {} => Open \/ stage = "done"
      BY <1>1 DEF ResolutionInv, KindStages
    <2>2. stage \in {"shared", "sharedFetch"} \/ ids # {} => always' \subseteq always
      BY <1>1, <1>2, <2>1
    <2> QED
      BY <1>1, <2>2 DEF ResolutionInv, NothingPassed, Typed
  <1>11. PruneCovers'
    BY <1>1, <1>2, ServiceEffect DEF ResolutionInv, PruneCovers
  <1>12. Answered'
    BY <1>1 DEF Answered, ResolvedWasUsable, ExplicitChoiceWins, NothingFoundIsExplained, Resolved
  <1> QED
    BY <1>2, <1>4, <1>5, <1>6, <1>7, <1>8, <1>9, <1>10, <1>11, <1>12

\* can_access says yes only to a credential that could be used at some moment, and no
\* only to one that cannot be used now.
LEMMA CheckEffect ==
  ASSUME ResolutionInv, CheckOwner \/ CheckGrant
  PROVE  /\ UNCHANGED <<tables, history, request>> /\ stage \in Checking /\ cand \in Credentials
         /\ \/ Granted /\ cand \in ever
            \/ Denied /\ cand \notin Usable
            \/ /\ cand \notin Own /\ cand \in Live /\ check' = "grant"
               /\ UNCHANGED <<stage, cand, ids, todo, removed, result>>
  <1>1. TypeOK /\ cand \in Credentials /\ stage \in Checking /\ UNCHANGED <<tables, history, request>>
    BY DEF ResolutionInv, TypeInv, CandNamed, CheckOwner, CheckGrant, Elsewhere
  <1>2. Usable \subseteq ever
    BY <1>1 DEF ResolutionInv, Bracketed, Open
  <1>3. CASE CheckOwner
    BY <1>1, <1>2, <1>3 DEF CheckOwner, Usable
  <1>4. CASE CheckGrant
    BY <1>1, <1>2, <1>4 DEF CheckGrant, role_satisfies, ResolutionInv, CheckedCand, Usable
  <1> QED
    BY <1>1, <1>3, <1>4

LEMMA CheckKeeps ==
  ASSUME ResolutionInv, CheckOwner \/ CheckGrant
  PROVE  /\ Bracketed' /\ RowsKnown' /\ KindStages' /\ CheckedCand' /\ BindingFollowed'
         /\ DefaultFollowed' /\ NothingPassed' /\ PruneCovers' /\ Answered'
  <1> DEFINE Waits == /\ cand \notin Own /\ cand \in Live /\ check' = "grant"
                      /\ UNCHANGED <<stage, cand, ids, todo, removed, result>>
  <1>1. /\ UNCHANGED <<tables, history, request>> /\ stage \in Checking /\ cand \in Credentials /\ Open
        /\ (Granted /\ cand \in ever) \/ (Denied /\ cand \notin Usable) \/ Waits
    BY CheckEffect DEF Open
  <1>2. Bracketed' /\ RowsKnown' /\ Usable' = Usable /\ Live' = Live
    BY <1>1, ResolverKeeps
  <1>3. Usable \subseteq ever /\ always \subseteq Usable /\ ever \ lost \subseteq Usable
    BY <1>1 DEF ResolutionInv, Bracketed
  <1>4. CASE Granted /\ cand \in ever
    <2> USE DEF Granted, GoTo, Returns
    <2>1. KindStages'
      BY <1>1, <1>4 DEF ResolutionInv, KindStages, Open
    <2>2. CheckedCand'
      BY <1>1, <1>4 DEF ResolutionInv, KindStages, CheckedCand
    <2>3. BindingFollowed'
      BY <1>1, <1>4 DEF ResolutionInv, BindingFollowed, Open
    <2>4. DefaultFollowed'
      BY <1>1, <1>4 DEF ResolutionInv, KindStages, DefaultFollowed, Open
    <2>5. NothingPassed'
      BY <1>1, <1>4 DEF ResolutionInv, NothingPassed, Typed
    <2>6. PruneCovers'
      BY <1>1, <1>4 DEF ResolutionInv, PruneCovers, Open
    <2>7. ResolvedWasUsable'
      BY <1>1, <1>4 DEF ResolutionInv, ResolvedWasUsable, Resolved
    <2>8. ExplicitChoiceWins' /\ NothingFoundIsExplained'
      BY <1>1, <1>4, ResolutionAssumption DEF ResolutionInv, BindingFollowed, DefaultFollowed,
         KindStages, ExplicitChoiceWins, NothingFoundIsExplained, Resolved, Open
    <2> QED
      BY <1>2, <2>1, <2>2, <2>3, <2>4, <2>5, <2>6, <2>7, <2>8 DEF Answered
  <1>5. CASE Denied /\ cand \notin Usable
    <2> USE DEF Denied, GoTo, Returns
    <2>1. KindStages' /\ CheckedCand'
      BY <1>1, <1>5 DEF ResolutionInv, KindStages, CheckedCand, Open
    <2>2. BindingFollowed'
      BY <1>1, <1>3, <1>5 DEF ResolutionInv, BindingFollowed, Open
    <2>3. DefaultFollowed'
      BY <1>1, <1>3, <1>5 DEF ResolutionInv, DefaultFollowed, Open
    <2>4. NothingPassed'
      BY <1>1, <1>5 DEF ResolutionInv, NothingPassed, Typed
    <2>5. PruneCovers'
      BY <1>1, <1>5, <1>2 DEF ResolutionInv, KindStages, PruneCovers, RowsKnown, TypeInv, TypeOK, Open
    <2>6. Answered'
      BY <1>1, <1>3, <1>5 DEF ResolutionInv, BindingFollowed, DefaultFollowed, KindStages, CheckedCand,
         Answered, ResolvedWasUsable, ExplicitChoiceWins, NothingFoundIsExplained, Resolved, Open
    <2> QED
      BY <1>2, <2>1, <2>2, <2>3, <2>4, <2>5, <2>6
  <1>6. CASE Waits
    <2>1. CheckedCand'
      BY <1>1, <1>3, <1>6 DEF ResolutionInv, CheckedCand, Live, Usable
    <2>2. KindStages' /\ BindingFollowed' /\ DefaultFollowed' /\ PruneCovers'
      BY <1>1, <1>6 DEF ResolutionInv, KindStages, BindingFollowed, DefaultFollowed, PruneCovers, Open
    <2>3. NothingPassed'
      BY <1>1, <1>6 DEF ResolutionInv, NothingPassed, Typed
    <2>4. Answered'
      BY <1>1, <1>6 DEF Answered, ResolvedWasUsable, ExplicitChoiceWins, NothingFoundIsExplained, Resolved
    <2> QED
      BY <1>2, <2>1, <2>2, <2>3, <2>4
  <1> QED
    BY <1>1, <1>4, <1>5, <1>6

LEMMA ReadsKeep ==
  ASSUME ResolutionInv,
         LoadRow \/ FetchRow \/ ReadDefault \/ ReadOwned \/ ReadShared \/ ReadSharedRow
  PROVE  /\ Bracketed' /\ RowsKnown' /\ KindStages' /\ CheckedCand' /\ BindingFollowed'
         /\ DefaultFollowed' /\ NothingPassed' /\ PruneCovers' /\ Answered'
  <1> USE DEF Open, GoTo, Returns
  <1>1. UNCHANGED <<tables, history, request>> /\ Open /\ stage \notin {"prune", "pruned"}
    BY DEF LoadRow, FetchRow, ReadDefault, ReadOwned, ReadShared, ReadSharedRow, Elsewhere
  <1>2. Bracketed' /\ RowsKnown' /\ Usable' = Usable /\ Live' = Live
    BY <1>1, ResolverKeeps
  <1>3. Usable \subseteq ever /\ always \subseteq Usable /\ ever \ lost \subseteq Usable
    BY <1>1 DEF ResolutionInv, Bracketed
  <1>4. kind # "prune" /\ PruneCovers'
    BY <1>1 DEF ResolutionInv, KindStages, PruneCovers
  <1>5. stage' = "done" => KindStages' /\ CheckedCand' /\ BindingFollowed' /\ DefaultFollowed'
    BY DEF KindStages, CheckedCand, BindingFollowed, DefaultFollowed
  <1>6. stage' # "done" => Answered'
    BY DEF Answered, ResolvedWasUsable, ExplicitChoiceWins, NothingFoundIsExplained, Resolved
  <1>7. ASSUME stage' = "done", ids' = ids PROVE NothingPassed'
    BY <1>1, <1>7 DEF ResolutionInv, NothingPassed, Typed
  <1>8. CASE LoadRow
    <2>1. cand = bound /\ kind \in {"completion", "tool"} /\ stage = "load"
      BY <1>8 DEF LoadRow, ResolutionInv, KindStages
    <2>2. CASE Returns(None) /\ cand \notin Live
      <3>1. Answered'
        BY <1>1, <1>3, <2>1, <2>2 DEF Answered, ResolvedWasUsable, ExplicitChoiceWins, NothingFoundIsExplained,
           Resolved, ResolutionInv, DefaultFollowed, CheckedCand, Usable
      <3> QED
        BY <1>2, <1>4, <1>5, <1>7, <2>2, <3>1
    <2>3. CASE Returns(cand) /\ cand \in Live \cap Own
      <3>1. cand \in ever /\ cand # None
        BY <1>3, <2>3, ResolutionAssumption DEF Usable
      <3>2. Answered'
        BY <1>1, <2>1, <2>3, <3>1 DEF Answered, ResolvedWasUsable, ExplicitChoiceWins,
           NothingFoundIsExplained, Resolved
      <3> QED
        BY <1>2, <1>4, <1>5, <1>7, <2>3, <3>2
    <2>4. CASE GoTo("reload") /\ UNCHANGED cand
      <3>1. KindStages' /\ CheckedCand' /\ BindingFollowed' /\ DefaultFollowed'
        BY <1>1, <2>1, <2>4 DEF ResolutionInv, KindStages, CheckedCand, BindingFollowed, DefaultFollowed
      <3>2. NothingPassed'
        BY <1>1, <2>4 DEF ResolutionInv, NothingPassed, Typed
      <3> QED
        BY <1>2, <1>4, <1>6, <2>4, <3>1, <3>2
    <2> QED
      BY <1>8, <2>2, <2>3, <2>4 DEF LoadRow
  <1>9. CASE FetchRow
    <2>1. cand \in ever /\ cand \in Credentials /\ stage = "fetch" /\ None \notin Credentials
      BY <1>9, ResolutionAssumption DEF FetchRow, ResolutionInv, CheckedCand, TypeInv, CandNamed
    <2>2. stage' = "done" /\ ids' = ids /\ result' = IF cand \in Live THEN cand ELSE None
      BY <1>9 DEF FetchRow
    <2>3. ResolvedWasUsable' /\ NothingFoundIsExplained'
      BY <1>1, <1>3, <2>1, <2>2 DEF ResolvedWasUsable, NothingFoundIsExplained, Usable
    <2>4. ExplicitChoiceWins'
      BY <1>1, <1>3, <2>1, <2>2 DEF ResolutionInv, BindingFollowed, DefaultFollowed, ExplicitChoiceWins,
         Resolved, Usable
    <2> QED
      BY <1>2, <1>4, <1>5, <1>7, <2>2, <2>3, <2>4 DEF Answered
  <1>10. CASE ReadDefault
    <2>1. /\ stage = "default" /\ stage' \in {"owned", "selected"} /\ cand' = default[want]
          /\ check' = "owner" /\ ids' = ids /\ (stage' = "owned" <=> default[want] = None)
      BY <1>10 DEF ReadDefault
    <2>2. None \notin always
      BY <1>3, ResolutionAssumption DEF Usable, Live
    <2>3. KindStages' /\ CheckedCand' /\ BindingFollowed'
      BY <1>1, <2>1 DEF ResolutionInv, KindStages, CheckedCand, BindingFollowed
    <2>4. DefaultFollowed'
      BY <1>1, <2>1, <2>2 DEF ResolutionInv, DefaultFollowed
    <2>5. NothingPassed'
      BY <1>1, <2>1 DEF ResolutionInv, NothingPassed, Typed
    <2> QED
      BY <1>2, <1>4, <1>6, <2>1, <2>3, <2>4, <2>5
  <1>11. CASE ReadOwned
    <2>1. stage = "owned" /\ ids' = ids /\ kind # "tool" /\ bound \notin always
          /\ ~(bound \notin ever /\ chosen \in always)
      BY <1>4, <1>11 DEF ReadOwned, ResolutionInv, KindStages, BindingFollowed,
         DefaultFollowed
    <2>2. CASE \E c \in Live \cap Own \cap Typed(want) : Returns(c)
      <3> PICK c \in Live \cap Own \cap Typed(want) : Returns(c)
        BY <2>2
      <3>1. c \in ever /\ c # None
        BY <1>3, ResolutionAssumption DEF Usable
      <3>2. Answered'
        BY <1>1, <2>1, <3>1 DEF Answered, ResolvedWasUsable, ExplicitChoiceWins,
           NothingFoundIsExplained, Resolved
      <3> QED
        BY <1>2, <1>4, <1>5, <1>7, <3>2
    <2>3. CASE Live \cap Own \cap Typed(want) = {} /\ GoTo("shared") /\ UNCHANGED cand
      <3>1. KindStages' /\ CheckedCand' /\ BindingFollowed' /\ DefaultFollowed'
        BY <1>1, <2>1, <2>3 DEF ResolutionInv, KindStages, CheckedCand, BindingFollowed, DefaultFollowed
      <3>2. NothingPassed'
        BY <1>1, <1>3, <2>3 DEF NothingPassed, Typed, Usable
      <3> QED
        BY <1>2, <1>4, <1>6, <2>3, <3>1, <3>2
    <2> QED
      BY <1>11, <2>2, <2>3 DEF ReadOwned
  <1>12. CASE ReadShared
    <2> DEFINE shared == {c \in Credentials : role_satisfies(role[c], "use")}
    <2>1. stage = "shared" /\ kind # "tool" /\ bound \notin always
          /\ ~(bound \notin ever /\ chosen \in always)
      BY <1>4, <1>12 DEF ReadShared, ResolutionInv, KindStages, BindingFollowed,
         DefaultFollowed
    <2>2. always \cap Own \cap Typed(want) = {} /\ always \cap Typed(want) \subseteq shared
      BY <1>3, <2>1 DEF ResolutionInv, NothingPassed, role_satisfies, Usable, Live
    <2>3. CASE shared = {} /\ Returns(None)
      <3>1. Answered'
        BY <1>1, <2>1, <2>2, <2>3 DEF Answered, ResolvedWasUsable, ExplicitChoiceWins,
           NothingFoundIsExplained, Resolved, Typed
      <3> QED
        BY <1>2, <1>4, <1>5, <1>7, <2>3, <3>1
    <2>4. CASE ids' = shared /\ stage' = "sharedFetch" /\ UNCHANGED <<check, cand, todo, removed, result>>
      <3>1. \A c \in shared : row[c] # "unused" /\ (c \in Live => c \in ever)
        BY <1>3 DEF ResolutionInv, RowsKnown, role_satisfies, Usable
      <3>2. CheckedCand'
        BY <1>1, <1>2, <2>4, <3>1 DEF CheckedCand
      <3>3. KindStages' /\ BindingFollowed' /\ DefaultFollowed'
        BY <1>1, <2>1, <2>4 DEF ResolutionInv, KindStages, BindingFollowed, DefaultFollowed
      <3>4. NothingPassed'
        BY <1>1, <2>2, <2>4 DEF NothingPassed, Typed
      <3> QED
        BY <1>2, <1>4, <1>6, <2>4, <3>2, <3>3, <3>4
    <2> QED
      BY <1>12, <2>3, <2>4 DEF ReadShared
  <1>13. CASE ReadSharedRow
    <2>1. stage = "sharedFetch" /\ kind # "tool" /\ bound \notin always /\ ids' = ids /\ stage' = "done"
          /\ ~(bound \notin ever /\ chosen \in always)
      BY <1>4, <1>13 DEF ReadSharedRow, ResolutionInv, KindStages, BindingFollowed,
         DefaultFollowed
    <2>2. always \cap Typed(want) \subseteq ids /\ always \subseteq Live
      BY <1>3, <2>1 DEF ResolutionInv, NothingPassed, Usable
    <2>3. \/ result' # None /\ result' \in ever
          \/ result' = None /\ always \cap Typed(want) = {}
      <3>1. \A c \in ids \cap Live : c \in ever /\ c # None
        BY <2>1, ResolutionAssumption DEF ResolutionInv, CheckedCand, Live
      <3> QED
        BY <1>13, <2>2, <3>1 DEF ReadSharedRow
    <2>4. Answered'
      BY <1>1, <2>1, <2>3 DEF Answered, ResolvedWasUsable, ExplicitChoiceWins,
         NothingFoundIsExplained, Resolved, Typed
    <2> QED
      BY <1>2, <1>4, <1>5, <1>7, <2>1, <2>4
  <1> QED
    BY <1>2, <1>8, <1>9, <1>10, <1>11, <1>12, <1>13

LEMMA PruneKeeps ==
  ASSUME ResolutionInv, (\E c \in Credentials : PruneChecks(c)) \/ PruneCommits
  PROVE  /\ Bracketed' /\ RowsKnown' /\ KindStages' /\ CheckedCand' /\ BindingFollowed'
         /\ DefaultFollowed' /\ NothingPassed' /\ PruneCovers' /\ Answered'
  <1> USE DEF Open
  <1>1. stage = "prune" /\ kind = "prune"
    BY DEF PruneChecks, PruneCommits, ResolutionInv, KindStages
  <1>2. CASE \E c \in Credentials : PruneChecks(c)
    <2> PICK c \in Credentials : PruneChecks(c)
      BY <1>2
    <2> USE DEF PruneChecks, Elsewhere
    <2>1. Bracketed' /\ RowsKnown'
      BY <1>1, ResolverKeeps
    <2>2. KindStages' /\ CheckedCand' /\ DefaultFollowed'
      BY <1>1 DEF ResolutionInv, KindStages, CheckedCand, DefaultFollowed
    <2>3. BindingFollowed'
      BY <1>1 DEF ResolutionInv, BindingFollowed
    <2>4. NothingPassed'
      BY <1>1 DEF ResolutionInv, NothingPassed, Typed
    <2>5. PruneCovers'
      BY <1>1 DEF ResolutionInv, PruneCovers
    <2>6. Answered'
      BY <1>1 DEF Answered, ResolvedWasUsable, ExplicitChoiceWins, NothingFoundIsExplained, Resolved
    <2> QED
      BY <2>1, <2>2, <2>3, <2>4, <2>5, <2>6
  <1>3. CASE PruneCommits
    <2> USE DEF PruneCommits, Returns
    <2>1. Bracketed' /\ KindStages' /\ CheckedCand' /\ BindingFollowed' /\ DefaultFollowed' /\ PruneCovers'
      BY <1>1, <1>3 DEF Bracketed, KindStages, CheckedCand, BindingFollowed, DefaultFollowed, PruneCovers
    <2>2. RowsKnown'
      BY <1>3 DEF ResolutionInv, RowsKnown
    <2>3. NothingPassed'
      BY <1>1, <1>3 DEF ResolutionInv, NothingPassed, Typed
    <2>4. Answered'
      BY <1>1, <1>3 DEF Answered, ResolvedWasUsable, ExplicitChoiceWins, NothingFoundIsExplained, Resolved
    <2> QED
      BY <2>1, <2>2, <2>3, <2>4
  <1> QED
    BY <1>2, <1>3

LEMMA ResolutionStep == ResolutionInv /\ [Next]_vars => ResolutionInv'
  <1> SUFFICES ASSUME ResolutionInv, [Next]_vars PROVE ResolutionInv'
    OBVIOUS
  <1>1. TypeInv'
    BY TypeStep DEF ResolutionInv
  <1>2. CASE Next
    <2>1. /\ Bracketed' /\ RowsKnown' /\ KindStages' /\ CheckedCand' /\ BindingFollowed'
          /\ DefaultFollowed' /\ NothingPassed' /\ PruneCovers' /\ Answered'
      BY <1>2, StartKeeps, RetryKeeps, CheckKeeps, ReadsKeep, PruneKeeps, ServiceKeeps DEF Next, Resolve
    <2> QED
      BY <1>1, <2>1 DEF ResolutionInv, Answered
  <1>3. CASE UNCHANGED vars
    <2>1. Usable' = Usable /\ Live' = Live
      BY <1>3, TablesKept DEF vars
    <2> QED
      BY <1>1, <1>3, <2>1 DEF vars, ResolutionInv, Open, Bracketed, RowsKnown, KindStages, CheckedCand,
         BindingFollowed, DefaultFollowed, NothingPassed, PruneCovers, Resolved, ResolvedWasUsable,
         ExplicitChoiceWins, NothingFoundIsExplained, Typed
  <1> QED
    BY <1>2, <1>3

LEMMA ResolutionInvariant == Spec => []ResolutionInv
  BY ResolutionInit, ResolutionStep, PTL DEF Spec

-------------------------------------------------------------------------------
(* The theorems. *)

\* The credential that setup, a tool or an index gets (can_access and the loads of
\* credential_access.py) could be used by the account at some moment of the resolution,
\* although check and load are different queries and grants outlive rows.
THEOREM ResolvedIsUsable == Spec => []ResolvedWasUsable
  <1>1. ResolutionInv => ResolvedWasUsable
    BY DEF ResolutionInv
  <1> QED
    BY <1>1, ResolutionInvariant, PTL

\* A binding, or else a default, that could be used throughout is what
\* resolve_default_credential and its callers return: nothing else takes its place.
THEOREM NoDrift == Spec => []ExplicitChoiceWins
  <1>1. ResolutionInv => ExplicitChoiceWins
    BY DEF ResolutionInv
  <1> QED
    BY <1>1, ResolutionInvariant, PTL

\* A resolution that returns nothing met no credential of the type that could be used
\* throughout, or one was deleted or unshared under its queries.
THEOREM RefusalIsExplained == Spec => []NothingFoundIsExplained
  <1>1. ResolutionInv => NothingFoundIsExplained
    BY DEF ResolutionInv
  <1> QED
    BY <1>1, ResolutionInvariant, PTL

\* resolve_default_credential asks for shared credentials only for an account that has
\* none of its own of the type.
THEOREM OwnCredentialsFirst == Spec => []OwnBeforeShared
  <1>1. ResolutionInv => OwnBeforeShared
    BY DEF ResolutionInv, NothingPassed, OwnBeforeShared
  <1> QED
    BY <1>1, ResolutionInvariant, PTL

\* prune_unusable_defaults_for_account, committed by its caller, leaves no selection
\* that could not be used at some moment since it loaded the selections.
THEOREM PruneLeavesOnlyUsable == Spec => PruneLeavesUsable
  <1> DEFINE A == stage = "prune" /\ stage' = "done" =>
                    \A t \in Types : default'[t] \in ever \cup {None}
  <1>1. ResolutionInv /\ [Next]_vars => A
    <2> SUFFICES ASSUME ResolutionInv, [Next]_vars, stage = "prune", stage' = "done", NEW t \in Types
                 PROVE  default'[t] \in ever \cup {None}
      OBVIOUS
    <2>1. PruneCommits
      BY DEF vars, Next, Resolve, Start, Retry, Begins, Entry, CheckOwner, CheckGrant, LoadRow, FetchRow,
         ReadDefault, ReadOwned, ReadShared, ReadSharedRow, PruneChecks, ServiceCommits
    <2>2. kind = "prune"
      BY DEF ResolutionInv, KindStages, Open
    <2> QED
      BY <2>1, <2>2 DEF PruneCommits, ResolutionInv, PruneCovers, Open
  <1> QED
    BY <1>1, ResolutionInvariant, PTL DEF Spec, PruneLeavesUsable
===============================================================================
