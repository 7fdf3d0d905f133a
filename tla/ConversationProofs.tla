-------------------------- MODULE ConversationProofs --------------------------
(***************************************************************************)
(* Proofs about Conversation: its type invariant, who can exhaust a pool,  *)
(* that a history is the past, that every turn keeps the record and the    *)
(* connection it promises, and that turns only advance, for any number of  *)
(* requests, instances and sessions, any pool and any number of faults.    *)
(*                                                                         *)
(* OnlySetupsExhaustThePool follows from the discipline of connections: a  *)
(* call that writes keeps the loop until its connection is back, so who    *)
(* holds one while the loop is free is being authenticated or set up.      *)
(* HistoryIsThePast needs that turns which ended write no more, and that   *)
(* a row in the making is younger than every row it must follow.           *)
(***************************************************************************)
EXTENDS Conversation, FiniteSetTheorems, TLAPS

Rows == [turn : Requests, role : Roles, at : Nat]

-------------------------------------------------------------------------------
(* Type correctness. *)

LEMMA TypeInit == Init => TypeOK
  BY ConversationAssumption DEF Init, TypeOK, Phases

LEMMA WrittenType ==
  ASSUME TypeOK, NEW q \in Requests
  PROVE  Written(q) \in Rows
  BY DEF TypeOK, Written, Message, Rows, Roles

LEMMA TranscriptType ==
  ASSUME TypeOK, NEW q \in Requests
  PROVE  Transcript(q) \subseteq Rows
  BY DEF TypeOK, Transcript, Rows

LEMMA RunsType ==
  ASSUME TypeOK, NEW q \in Requests, Runs(q), loop' \in [Instances -> Requests \cup {Nobody}]
  PROVE  TypeOK'
  <1>1. CASE Authenticates(q)
    BY <1>1 DEF Runs, Authenticates, Goes, stored, TypeOK, Phases
  <1>2. CASE Reads(q)
    BY <1>2, TranscriptType DEF Runs, Reads, Goes, TypeOK, Phases, Rows
  <1>3. CASE Inserts(q)
    BY <1>3 DEF Runs, Inserts, Goes, TypeOK, Phases
  <1> QED
    BY <1>1, <1>2, <1>3 DEF Runs

LEMMA LoopType ==
  ASSUME TypeOK, NEW q \in Requests, Frees(q) \/ Enters(q)
  PROVE  loop' \in [Instances -> Requests \cup {Nobody}]
  BY DEF TypeOK, Frees, Enters

LEMMA RunsLoop ==
  ASSUME NEW q \in Requests, Runs(q)
  PROVE  Frees(q) \/ Enters(q)
  BY DEF Runs, Authenticates, Reads, Inserts

LEMMA StoreType ==
  ASSUME TypeOK, NEW q \in Requests, StoreEnds(q), faults' \in 0 .. MaxFaults,
         messages' = messages \/ messages' = messages \cup {Written(q)}
  PROVE  TypeOK'
  <1>1. loop' \in [Instances -> Requests \cup {Nobody}]
    BY LoopType DEF StoreEnds
  <1>2. messages' \subseteq Rows
    BY WrittenType DEF TypeOK, Rows
  <1> QED
    BY <1>1, <1>2 DEF StoreEnds, Goes, TypeOK, Phases, Rows

LEMMA TypeStep == TypeOK /\ [Next]_vars => TypeOK'
  <1> SUFFICES ASSUME TypeOK, [Next]_vars PROVE TypeOK'
    OBVIOUS
  <1>0. MaxFaults \in Nat
    BY ConversationAssumption
  <1>1. ASSUME NEW q \in Requests, CallsDatabase(q) \/ Obtains(q) PROVE TypeOK'
    BY <1>1, RunsType, RunsLoop, LoopType DEF CallsDatabase, Obtains
  <1>2. ASSUME NEW q \in Requests, Blocks(q) PROVE TypeOK'
    BY <1>2, LoopType DEF Blocks, stored, TypeOK
  <1>3. ASSUME NEW q \in Requests, TimesOut(q) PROVE TypeOK'
    BY <1>3, LoopType DEF TimesOut, Goes, stored, TypeOK, Phases
  <1>4. ASSUME NEW q \in Requests, AuthenticatesByToken(q) PROVE TypeOK'
    BY <1>4, LoopType DEF AuthenticatesByToken, Authenticates, Goes, stored, TypeOK, Phases
  <1>5. ASSUME NEW q \in Requests,
               DependencyExits(q) \/ SetupEnds(q) \/ SetupFails(q) \/ SessionCollected(q)
                 \/ StreamFails(q)
        PROVE  TypeOK'
    BY <1>5 DEF DependencyExits, SetupEnds, SetupFails, SessionCollected, StreamFails, Goes,
       stored, TypeOK, Phases
  <1>6. ASSUME NEW q \in Requests, Arrives(q) PROVE TypeOK'
    BY <1>6 DEF Arrives, Goes, stored, TypeOK, Phases
  <1>7. ASSUME NEW q \in Requests, Commits(q) PROVE TypeOK'
    BY <1>7, StoreType DEF Commits, TypeOK
  <1>8. ASSUME NEW q \in Requests, CommitLost(q) PROVE TypeOK'
    <2>1. faults' \in 0 .. MaxFaults
      BY <1>0, <1>8 DEF CommitLost, TypeOK
    <2> QED
      BY <1>8, <2>1, StoreType DEF CommitLost
  <1>9. ASSUME NEW i \in Instances, InstanceStops(i) PROVE TypeOK'
    <2>1. faults' \in 0 .. MaxFaults
      BY <1>0, <1>9 DEF InstanceStops, TypeOK
    <2>2. messages' \subseteq Rows
      BY <1>9, WrittenType DEF InstanceStops, TypeOK, Rows, Of
    <2>3. phase' \in [Requests -> Phases] /\ written' \in [Requests -> Nat]
      BY <1>9 DEF InstanceStops, TypeOK, Phases
    <2>4. loop' \in [Instances -> Requests \cup {Nobody}] /\ holds' \subseteq Requests
      BY <1>9 DEF InstanceStops, TypeOK
    <2> QED
      BY <1>9, <2>1, <2>2, <2>3, <2>4 DEF InstanceStops, TypeOK, Rows
  <1>10. CASE UNCHANGED vars
    BY <1>10 DEF vars, TypeOK
  <1> QED
    BY <1>1, <1>2, <1>3, <1>4, <1>5, <1>6, <1>7, <1>8, <1>9, <1>10 DEF Next, Progress

\* Every variable keeps its type.
THEOREM ConversationTypeCorrect == Spec => []TypeOK
  BY TypeInit, TypeStep, PTL DEF Spec

-------------------------------------------------------------------------------
(* Who can exhaust a pool. *)

Discipline ==
  /\ \A q \in holds : phase[q] \in {"exiting", "building", "abandoned", "asking", "answering"}
  /\ \A q \in Requests : Writes(q) => loop[load.instance[q]] = q

PoolInv == TypeOK /\ Discipline

LEMMA DisciplineInit == Init => Discipline
  BY DEF Init, Discipline, Writes

\* A step of one request that has the loop of its instance leaves the discipline of the
\* others alone.
LEMMA OthersKeepTheirs ==
  ASSUME TypeOK, Discipline, NEW q \in Requests, UNCHANGED load,
         LoopFree(q) \/ loop[load.instance[q]] = q, UNCHANGED loop \/ Frees(q) \/ Enters(q),
         NEW p, phase' = [phase EXCEPT ![q] = p], holds' \in SUBSET (holds \cup {q}),
         q \in holds' => p \in {"exiting", "building", "abandoned", "asking", "answering"},
         p \in {"asking", "answering"} => Enters(q)
  PROVE  Discipline'
  <1>1. \A r \in holds' : phase'[r] \in {"exiting", "building", "abandoned", "asking", "answering"}
    BY DEF Discipline, TypeOK
  <1>2. ASSUME NEW r \in Requests, Writes(r)'
        PROVE  loop'[load.instance[r]] = r
    <2>0. load.instance[q] \in Instances /\ load.instance[r] \in Instances /\ Nobody \notin Requests
      BY ConversationAssumption DEF TypeOK, Workload
    <2>1. CASE r = q
      BY <1>2, <2>0, <2>1 DEF Writes, Enters, TypeOK
    <2>2. CASE r # q
      <3>1. loop[load.instance[r]] = r
        BY <1>2, <2>2 DEF Writes, Discipline, TypeOK
      <3>2. load.instance[r] # load.instance[q]
        BY <2>0, <2>2, <3>1 DEF LoopFree
      <3> QED
        BY <2>0, <3>1, <3>2 DEF Frees, Enters, TypeOK
    <2> QED
      BY <2>1, <2>2
  <1> QED
    BY <1>1, <1>2 DEF Discipline

LEMMA RunsDiscipline ==
  ASSUME TypeOK, Discipline, NEW q \in Requests, Runs(q),
         LoopFree(q) \/ loop[load.instance[q]] = q
  PROVE  Discipline'
  <1>1. CASE Authenticates(q)
    BY <1>1, OthersKeepTheirs DEF Runs, Authenticates, Goes
  <1>2. CASE Reads(q)
    BY <1>2, OthersKeepTheirs DEF Runs, Reads, Goes
  <1>3. CASE Inserts(q)
    BY <1>3, OthersKeepTheirs DEF Runs, Inserts, Goes
  <1> QED
    BY <1>1, <1>2, <1>3 DEF Runs

LEMMA DisciplineStep == PoolInv /\ [Next]_vars => Discipline'
  <1> SUFFICES ASSUME TypeOK, Discipline, [Next]_vars PROVE Discipline'
    BY DEF PoolInv
  <1>1. ASSUME NEW q \in Requests, CallsDatabase(q) \/ Obtains(q) PROVE Discipline'
    BY <1>1, RunsDiscipline DEF CallsDatabase, Obtains, InCheckout
  <1>2. ASSUME NEW q \in Requests, Blocks(q) PROVE Discipline'
    <2>1. ~Writes(q) /\ q \notin holds /\ phase' = [phase EXCEPT ![q] = phase[q]]
      BY <1>2 DEF Blocks, Calls, Writes, Discipline, TypeOK
    <2>2. phase[q] \notin {"asking", "answering"}
      BY <2>1 DEF Writes
    <2>3. UNCHANGED load /\ LoopFree(q) /\ Enters(q) /\ holds' = holds
      BY <1>2 DEF Blocks
    <2> QED
      BY <2>1, <2>2, <2>3, OthersKeepTheirs
  <1>3. ASSUME NEW q \in Requests, TimesOut(q) PROVE Discipline'
    <2>1. q \notin holds
      BY <1>3 DEF TimesOut, InCheckout, Calls, Discipline
    <2>2. UNCHANGED <<load, holds>> /\ loop[load.instance[q]] = q /\ Frees(q)
      BY <1>3 DEF TimesOut, InCheckout
    <2>3. PICK p : phase' = [phase EXCEPT ![q] = p] /\ p \in {"asked", "ended"}
      BY <1>3 DEF TimesOut, Goes
    <2> QED
      BY <2>1, <2>2, <2>3, OthersKeepTheirs
  <1>4. ASSUME NEW q \in Requests, AuthenticatesByToken(q) PROVE Discipline'
    <2>1. q \notin holds
      BY <1>4 DEF AuthenticatesByToken, Authenticates, Discipline
    <2> QED
      BY <1>4, <2>1, OthersKeepTheirs DEF AuthenticatesByToken, Authenticates, Goes
  <1>5. ASSUME NEW q \in Requests, DependencyExits(q) \/ Arrives(q) PROVE Discipline'
    BY <1>5 DEF DependencyExits, Arrives, Goes, Discipline, Writes, TypeOK
  <1>6. ASSUME NEW q \in Requests,
               SetupEnds(q) \/ SetupFails(q) \/ SessionCollected(q) \/ StreamFails(q)
        PROVE  Discipline'
    <2>1. StreamFails(q) => q \notin holds
      BY DEF StreamFails, Discipline
    <2>2. UNCHANGED <<load, loop>> /\ LoopFree(q)
      BY <1>6 DEF SetupEnds, SetupFails, SessionCollected, StreamFails
    <2>3. PICK p : /\ phase' = [phase EXCEPT ![q] = p]
                   /\ p \in {"ready", "abandoned", "ended"}
                   /\ q \in holds' => p = "abandoned"
      BY <1>6, <2>1 DEF SetupEnds, SetupFails, SessionCollected, StreamFails, Goes
    <2>4. holds' \in SUBSET (holds \cup {q})
      BY <1>6 DEF SetupEnds, SetupFails, SessionCollected, StreamFails
    <2> QED
      BY <2>2, <2>3, <2>4, OthersKeepTheirs
  <1>7. ASSUME NEW q \in Requests, Commits(q) \/ CommitLost(q) PROVE Discipline'
    <2>1. loop[load.instance[q]] = q /\ StoreEnds(q)
      BY <1>7 DEF Commits, CommitLost, Discipline
    <2>2. PICK p : phase' = [phase EXCEPT ![q] = p] /\ p \in {"asked", "ended"}
      BY <2>1 DEF StoreEnds, Goes
    <2>3. UNCHANGED load /\ holds' = holds \ {q} /\ Frees(q)
      BY <2>1 DEF StoreEnds
    <2> QED
      BY <2>1, <2>2, <2>3, OthersKeepTheirs
  <1>8. ASSUME NEW i \in Instances, InstanceStops(i) PROVE Discipline'
    BY <1>8 DEF InstanceStops, Of, Discipline, Writes, TypeOK, Workload
  <1>9. CASE UNCHANGED vars
    BY <1>9 DEF vars, Discipline, Writes
  <1> QED
    BY <1>1, <1>2, <1>3, <1>4, <1>5, <1>6, <1>7, <1>8, <1>9 DEF Next, Progress

LEMMA PoolInvariant == Spec => []PoolInv
  <1>1. Init => PoolInv
    BY TypeInit, DisciplineInit DEF PoolInv
  <1>2. PoolInv /\ [Next]_vars => PoolInv'
    BY TypeStep, DisciplineStep DEF PoolInv
  <1> QED
    BY <1>1, <1>2, PTL DEF Spec

\* A checkout waits only for requests that are being authenticated or set up, and for as
\* many of them as the pool has connections: never for its own request, and never for a
\* turn that waits for the same loop or streams.
THEOREM PoolIsLeftToSetups == Spec => []OnlySetupsExhaustThePool
  <1>1. ASSUME TypeOK, Discipline PROVE OnlySetupsExhaustThePool
    <2> SUFFICES ASSUME NEW q \in Requests, Calls(q), LoopFree(q) \/ InCheckout(q), ~Available(q)
                 PROVE  PoolSize <= Cardinality(Settling(load.instance[q]) \ {q})
      BY DEF OnlySetupsExhaustThePool
    <2> DEFINE H == Holders(load.instance[q])
               S == Settling(load.instance[q]) \ {q}
    <2>1. H \subseteq S
      <3> SUFFICES ASSUME NEW r \in H PROVE r \in S
        OBVIOUS
      <3>1. r \in holds /\ r \in Requests /\ load.instance[r] = load.instance[q]
        BY DEF Holders, Of
      <3>2. q \notin holds
        BY <1>1 DEF Calls, Discipline
      <3>3. ~Writes(q)
        BY DEF Calls, Writes
      <3>4. ~Writes(r)
        BY <1>1, <3>1, <3>2, ConversationAssumption DEF Discipline, LoopFree, InCheckout
      <3> QED
        BY <1>1, <3>1, <3>2, <3>4 DEF Discipline, Writes, Settling, Of
    <2>2. IsFiniteSet(S) /\ IsFiniteSet(H)
      <3>1. S \subseteq Requests /\ H \subseteq Requests
        BY DEF Settling, Holders, Of
      <3> QED
        BY <3>1, FS_Subset, ConversationAssumption
    <2>3. Cardinality(H) <= Cardinality(S) /\ Cardinality(H) \in Nat /\ Cardinality(S) \in Nat
      BY <2>1, <2>2, FS_Subset, FS_CardinalityType
    <2>4. ~(Cardinality(H) < PoolSize)
      BY DEF Available
    <2> HIDE DEF H, S
    <2>5. PoolSize \in Nat
      BY ConversationAssumption
    <2>6. PoolSize <= Cardinality(S)
      BY <2>3, <2>4, <2>5
    <2> QED
      BY <2>6 DEF S
  <1>2. PoolInv => OnlySetupsExhaustThePool
    BY <1>1 DEF PoolInv
  <1> QED
    BY <1>2, PoolInvariant, PTL

-------------------------------------------------------------------------------
(* A history is the past. *)

\* Turns that have not read their history yet.
Early == {"unsent", "sent", "exiting", "accepted"}

\* A row is of a turn that got so far, an answer of one that is over.
RowsBelong ==
  \A m \in messages :
    /\ m.at <= clock
    /\ phase[m.turn] \in {"asked", "answering", "ended"}
    /\ m.role = "ai" => phase[m.turn] = "ended"

\* What came before a turn is over, and of its session.
PastIsOver ==
  \A q \in Requests : \A r \in before[q] : phase[r] = "ended" /\ SameSession(q, r)

NothingBeforeUnsent == \A q \in Requests : phase[q] = "unsent" => before[q] = {}

\* A row in the making is younger than what it must follow.
WrittenIsLast ==
  \A q \in Requests : Writes(q) =>
    /\ written[q] <= clock
    /\ \A m \in messages : m.turn = q \/ m.turn \in before[q] => m.at < written[q]

HistoryInv ==
  /\ TypeOK
  /\ RowsBelong
  /\ PastIsOver
  /\ NothingBeforeUnsent
  /\ WrittenIsLast
  /\ HistoryIsThePast

LEMMA HistoryInit == Init => HistoryInv
  BY TypeInit DEF Init, HistoryInv, RowsBelong, PastIsOver, NothingBeforeUnsent, WrittenIsLast,
     HistoryIsThePast, Writes

\* Steps that neither read nor write.
Moves(q, p) ==
  /\ phase' = [phase EXCEPT ![q] = p]
  /\ ~Writes(q) /\ phase[q] # "ended"
  /\ p \in Phases \ {"unsent", "asking", "answering"}
  /\ phase[q] = "asked" => p = "ended"
  /\ phase[q] \in Early => p \in Early \cup {"ended"}
  /\ UNCHANGED <<load, stored>>
  /\ IF phase[q] = "unsent" THEN Arrives(q) ELSE UNCHANGED before

\* Steps that store a row, or lose it.
Stores(q) ==
  /\ Writes(q)
  /\ phase' = [phase EXCEPT ![q] = IF phase[q] = "asking" THEN "asked" ELSE "ended"]
  /\ written' = [written EXCEPT ![q] = 0]
  /\ messages' \in {messages, messages \cup {Written(q)}}
  /\ UNCHANGED <<load, clock, history, before>>

LEMMA StepKinds ==
  ASSUME TypeOK, [Next]_vars
  PROVE  \/ \E q \in Requests : \E p : Moves(q, p)
         \/ \E q \in Requests : (Reads(q) \/ Inserts(q)) /\ UNCHANGED <<load, before>>
         \/ \E q \in Requests : Stores(q)
         \/ \E i \in Instances : InstanceStops(i)
         \/ UNCHANGED <<load, phase, stored, before>>
  <1>1. ASSUME NEW q \in Requests, Authenticates(q), UNCHANGED <<load, before>>
        PROVE  Moves(q, "exiting")
    BY <1>1 DEF Authenticates, Goes, Moves, Writes, Phases, Early
  <1>2. ASSUME NEW q \in Requests, CallsDatabase(q) \/ Obtains(q)
        PROVE  Moves(q, "exiting") \/ ((Reads(q) \/ Inserts(q)) /\ UNCHANGED <<load, before>>)
    BY <1>1, <1>2 DEF CallsDatabase, Obtains, Runs
  <1>3. ASSUME NEW q \in Requests, Blocks(q) PROVE UNCHANGED <<load, phase, stored, before>>
    BY <1>3 DEF Blocks, stored
  <1>4. ASSUME NEW q \in Requests, TimesOut(q)
        PROVE  Moves(q, IF phase[q] = "ready" THEN "asked" ELSE "ended")
    BY <1>4 DEF TimesOut, InCheckout, Calls, Goes, Moves, Writes, Phases, Early
  <1>5. ASSUME NEW q \in Requests, AuthenticatesByToken(q) PROVE Moves(q, "exiting")
    BY <1>1, <1>5 DEF AuthenticatesByToken
  <1>6. ASSUME NEW q \in Requests,
               \/ DependencyExits(q) \/ SetupEnds(q) \/ SetupFails(q) \/ SessionCollected(q)
               \/ StreamFails(q)
        PROVE  \E p : Moves(q, p)
    <2>1. DependencyExits(q) => Moves(q, "accepted")
      BY DEF DependencyExits, Goes, Moves, Writes, Phases, Early
    <2>2. SetupEnds(q) => Moves(q, "ready")
      BY DEF SetupEnds, Goes, Moves, Writes, Phases, Early
    <2>3. SetupFails(q) => Moves(q, "abandoned")
      BY DEF SetupFails, Goes, Moves, Writes, Phases, Early
    <2>4. SessionCollected(q) \/ StreamFails(q) => Moves(q, "ended")
      BY DEF SessionCollected, StreamFails, Goes, Moves, Writes, Phases, Early
    <2> QED
      BY <1>6, <2>1, <2>2, <2>3, <2>4
  <1>7. ASSUME NEW q \in Requests, Arrives(q) PROVE Moves(q, "sent")
    BY <1>7 DEF Arrives, Goes, Moves, Writes, Phases, Early
  <1>8. ASSUME NEW q \in Requests, Commits(q) \/ CommitLost(q) PROVE Stores(q)
    BY <1>8 DEF Commits, CommitLost, StoreEnds, Goes, Stores
  <1>9. CASE UNCHANGED vars
    BY <1>9 DEF vars, stored
  <1> QED
    BY <1>2, <1>3, <1>4, <1>5, <1>6, <1>7, <1>8, <1>9 DEF Next, Progress

\* The parts of HistoryIsThePast.
OwnPast ==
  \A q \in Requests : \A m \in history[q] : m.turn # q /\ SameSession(q, m.turn)

PastIsRead ==
  \A q \in Requests, m \in messages :
    phase[q] \notin Early \cup {"ended"} /\ m.turn \in before[q] => m \in history[q]

Follows(m, n) ==
  \/ m.turn \in before[n.turn]
  \/ m.turn = n.turn /\ m.role = "human" /\ n.role = "ai"

InOrder == \A m, n \in messages : Follows(m, n) => m.at < n.at

LEMMA HistoryParts ==
  /\ HistoryIsThePast <=> OwnPast /\ PastIsRead /\ InOrder
  /\ HistoryIsThePast' <=> OwnPast' /\ PastIsRead' /\ InOrder'
  BY DEF HistoryIsThePast, OwnPast, PastIsRead, InOrder, Follows, Early

LEMMA MovesKeepHistory ==
  ASSUME HistoryInv, NEW q \in Requests, NEW p, Moves(q, p), TypeOK'
  PROVE  HistoryInv'
  <1>1. /\ TypeOK /\ RowsBelong /\ PastIsOver /\ NothingBeforeUnsent /\ WrittenIsLast
        /\ OwnPast /\ PastIsRead /\ InOrder
    BY HistoryParts DEF HistoryInv
  <1>2. /\ UNCHANGED <<load, written, clock, messages, history>>
        /\ \A r \in Requests : phase'[r] = IF r = q THEN p ELSE phase[r]
        /\ \A r \in Requests : before'[r] = before[r] \/ (r = q /\ phase[q] = "unsent")
    BY <1>1 DEF Moves, Arrives, stored, TypeOK
  <1>3. RowsBelong'
    BY <1>1, <1>2 DEF Moves, RowsBelong, Writes, TypeOK, Early
  <1>4. PastIsOver'
    <2>1. phase[q] = "unsent" => before' = [before EXCEPT ![q] =
                   {r \in Requests : phase[r] = "ended" /\ SameSession(q, r)}]
      BY DEF Moves, Arrives
    <2>2. \A r \in Requests : phase[r] = "ended" => phase'[r] = "ended"
      BY <1>2 DEF Moves
    <2> QED
      BY <1>1, <1>2, <2>1, <2>2 DEF PastIsOver, SameSession, TypeOK
  <1>5. NothingBeforeUnsent'
    BY <1>1, <1>2 DEF Moves, NothingBeforeUnsent
  <1>6. WrittenIsLast'
    BY <1>1, <1>2 DEF Moves, WrittenIsLast, Writes
  <1>7. OwnPast'
    BY <1>1, <1>2 DEF OwnPast, SameSession
  <1>8. PastIsRead'
    BY <1>1, <1>2 DEF Moves, PastIsRead, Early
  <1>9. InOrder'
    <2> SUFFICES ASSUME NEW m \in messages, NEW n \in messages, Follows(m, n)' PROVE m.at < n.at
      BY <1>2 DEF InOrder
    <2>1. n.turn \in Requests /\ phase[n.turn] # "unsent"
      BY <1>1 DEF RowsBelong, TypeOK
    <2>2. Follows(m, n)
      BY <1>2, <2>1 DEF Follows
    <2> QED
      BY <1>1, <2>2 DEF InOrder
  <1> QED
    BY <1>3, <1>4, <1>5, <1>6, <1>7, <1>8, <1>9, HistoryParts DEF HistoryInv

LEMMA ReadsKeepHistory ==
  ASSUME HistoryInv, NEW q \in Requests, Reads(q), UNCHANGED <<load, before>>, TypeOK'
  PROVE  HistoryInv'
  <1>1. /\ TypeOK /\ RowsBelong /\ PastIsOver /\ NothingBeforeUnsent /\ WrittenIsLast
        /\ OwnPast /\ PastIsRead /\ InOrder
    BY HistoryParts DEF HistoryInv
  <1>2. /\ UNCHANGED <<load, written, clock, messages, before>> /\ phase[q] = "accepted"
        /\ \A r \in Requests : phase'[r] = IF r = q THEN "building" ELSE phase[r]
        /\ \A r \in Requests : history'[r] = IF r = q THEN Transcript(q) ELSE history[r]
    BY <1>1 DEF Reads, Goes, TypeOK
  <1>3. RowsBelong'
    BY <1>1, <1>2 DEF RowsBelong, TypeOK
  <1>4. PastIsOver' /\ NothingBeforeUnsent'
    BY <1>1, <1>2 DEF PastIsOver, NothingBeforeUnsent, SameSession, TypeOK
  <1>5. WrittenIsLast'
    BY <1>1, <1>2 DEF WrittenIsLast, Writes
  <1>6. OwnPast'
    <2>1. \A m \in Transcript(q) : m.turn # q /\ SameSession(q, m.turn)
      BY <1>1, <1>2 DEF Transcript, RowsBelong
    <2> QED
      BY <1>1, <1>2, <2>1 DEF OwnPast, SameSession
  <1>7. PastIsRead'
    BY <1>1, <1>2 DEF PastIsRead, PastIsOver, Transcript, Early
  <1>8. InOrder'
    BY <1>1, <1>2 DEF InOrder, Follows
  <1> QED
    BY <1>3, <1>4, <1>5, <1>6, <1>7, <1>8, HistoryParts DEF HistoryInv

LEMMA InsertsKeepHistory ==
  ASSUME HistoryInv, NEW q \in Requests, Inserts(q), UNCHANGED <<load, before>>, TypeOK'
  PROVE  HistoryInv'
  <1>1. /\ TypeOK /\ RowsBelong /\ PastIsOver /\ NothingBeforeUnsent /\ WrittenIsLast
        /\ OwnPast /\ PastIsRead /\ InOrder
    BY HistoryParts DEF HistoryInv
  <1>2. PICK p \in {"asking", "answering"} :
          /\ phase[q] = IF p = "asking" THEN "ready" ELSE "asked"
          /\ phase' = [phase EXCEPT ![q] = p]
    BY DEF Inserts, Goes
  <1>3. /\ UNCHANGED <<load, messages, history, before>> /\ clock' = clock + 1 /\ clock \in Nat
        /\ \A r \in Requests : phase'[r] = IF r = q THEN p ELSE phase[r]
        /\ \A r \in Requests : written'[r] = IF r = q THEN clock' ELSE written[r]
        /\ \A m \in messages : m.turn \in Requests /\ m.at \in Nat
        /\ \A r \in Requests : written[r] \in Nat
    BY <1>1, <1>2 DEF Inserts, TypeOK
  <1>4. RowsBelong'
    BY <1>1, <1>2, <1>3 DEF RowsBelong
  <1>5. PastIsOver' /\ NothingBeforeUnsent'
    BY <1>1, <1>2, <1>3 DEF PastIsOver, NothingBeforeUnsent, SameSession, TypeOK
  <1>6. WrittenIsLast'
    <2> SUFFICES ASSUME NEW r \in Requests, Writes(r)'
                 PROVE  /\ written'[r] <= clock'
                        /\ \A m \in messages : m.turn = r \/ m.turn \in before[r] => m.at < written'[r]
      BY <1>3 DEF WrittenIsLast
    <2>1. CASE r = q
      BY <1>1, <1>3, <2>1 DEF RowsBelong
    <2>2. CASE r # q
      BY <1>1, <1>3, <2>2 DEF WrittenIsLast, Writes
    <2> QED
      BY <2>1, <2>2
  <1>7. OwnPast' /\ InOrder'
    BY <1>1, <1>3 DEF OwnPast, InOrder, SameSession, Follows
  <1>8. PastIsRead'
    BY <1>1, <1>2, <1>3 DEF PastIsRead, Early
  <1> QED
    BY <1>4, <1>5, <1>6, <1>7, <1>8, HistoryParts DEF HistoryInv

\* A row that its turn wrote follows every row it has to, and none has to follow it yet.
LEMMA NewRow ==
  ASSUME TypeOK, RowsBelong, PastIsOver, WrittenIsLast, NEW q \in Requests, Writes(q)
  PROVE  /\ Written(q).turn = q /\ Written(q).at = written[q] /\ written[q] <= clock
         /\ Written(q).role = "ai" => phase[q] = "answering"
         /\ \A m \in messages : Follows(m, Written(q)) => m.at < written[q]
         /\ \A m \in messages : ~Follows(Written(q), m)
         /\ ~Follows(Written(q), Written(q))
         /\ \A r \in Requests : q \notin before[r]
  <1>1. Written(q).turn = q /\ Written(q).at = written[q]
        /\ Written(q).role = IF phase[q] = "asking" THEN "human" ELSE "ai"
    BY DEF Written, Message
  <1>2. \A r \in Requests : q \notin before[r]
    BY DEF PastIsOver, Writes
  <1>3. \A m \in messages : m.turn \in Requests
    BY DEF TypeOK
  <1>4. \A m \in messages : m.turn = q => phase[q] = "answering" /\ m.role # "ai"
    BY DEF RowsBelong, Writes
  <1> QED
    BY <1>1, <1>2, <1>3, <1>4 DEF Follows, WrittenIsLast, Writes

LEMMA StoresKeepHistory ==
  ASSUME HistoryInv, NEW q \in Requests, Stores(q), TypeOK'
  PROVE  HistoryInv'
  <1>1. /\ TypeOK /\ RowsBelong /\ PastIsOver /\ NothingBeforeUnsent /\ WrittenIsLast
        /\ OwnPast /\ PastIsRead /\ InOrder
    BY HistoryParts DEF HistoryInv
  <1>2. /\ UNCHANGED <<load, clock, history, before>> /\ Writes(q)
        /\ messages' \in {messages, messages \cup {Written(q)}}
        /\ \A r \in Requests : phase'[r] = IF r # q THEN phase[r]
                                           ELSE IF phase[q] = "asking" THEN "asked" ELSE "ended"
        /\ \A r \in Requests : r # q => written'[r] = written[r]
    BY <1>1 DEF Stores, TypeOK
  <1>n. /\ Written(q).turn = q /\ Written(q).at = written[q] /\ written[q] <= clock
        /\ Written(q).role = "ai" => phase[q] = "answering"
        /\ \A m \in messages : Follows(m, Written(q)) => m.at < written[q]
        /\ \A m \in messages : ~Follows(Written(q), m)
        /\ ~Follows(Written(q), Written(q))
        /\ \A r \in Requests : q \notin before[r]
    BY <1>1, <1>2, NewRow
  <1>3. RowsBelong'
    <2> SUFFICES ASSUME NEW m \in messages'
                 PROVE  /\ m.at <= clock /\ phase'[m.turn] \in {"asked", "answering", "ended"}
                        /\ m.role = "ai" => phase'[m.turn] = "ended"
      BY <1>2 DEF RowsBelong
    <2>1. CASE m \in messages
      BY <1>1, <1>2, <2>1 DEF RowsBelong, TypeOK
    <2>2. CASE m = Written(q)
      BY <1>2, <1>n, <2>2
    <2> QED
      BY <1>2, <2>1, <2>2
  <1>4. PastIsOver' /\ NothingBeforeUnsent'
    BY <1>1, <1>2, <1>n DEF PastIsOver, NothingBeforeUnsent, SameSession, Writes, TypeOK
  <1>5. WrittenIsLast'
    BY <1>1, <1>2, <1>n DEF WrittenIsLast, Writes
  <1>6. OwnPast'
    BY <1>1, <1>2 DEF OwnPast, SameSession
  <1>7. PastIsRead'
    BY <1>1, <1>2, <1>n DEF PastIsRead, Writes, Early
  <1>8. InOrder'
    BY <1>1, <1>2, <1>n DEF InOrder, Follows
  <1> QED
    BY <1>3, <1>4, <1>5, <1>6, <1>7, <1>8, HistoryParts DEF HistoryInv

LEMMA StopsKeepHistory ==
  ASSUME HistoryInv, NEW i \in Instances, InstanceStops(i), TypeOK'
  PROVE  HistoryInv'
  <1>1. /\ TypeOK /\ RowsBelong /\ PastIsOver /\ NothingBeforeUnsent /\ WrittenIsLast
        /\ OwnPast /\ PastIsRead /\ InOrder
    BY HistoryParts DEF HistoryInv
  <1> DEFINE cut == {q \in Of(i) : phase[q] # "unsent"}
  <1>2. /\ UNCHANGED <<load, clock, history, before>>
        /\ \A r \in Requests : phase'[r] = IF r \in cut THEN "ended" ELSE phase[r]
        /\ \A r \in Requests : r \notin cut => written'[r] = written[r]
        /\ messages' = messages \/ \E q \in cut : Writes(q) /\ messages' = messages \cup {Written(q)}
    BY <1>1 DEF InstanceStops, TypeOK
  <1>3. \A q \in cut : q \in Requests /\ phase[q] # "unsent"
    BY DEF Of
  <1> HIDE DEF cut
  <1>4. PastIsOver' /\ NothingBeforeUnsent' /\ OwnPast'
    BY <1>1, <1>2, <1>3 DEF PastIsOver, NothingBeforeUnsent, OwnPast, SameSession, TypeOK
  <1>5. CASE messages' = messages
    <2>1. RowsBelong' /\ WrittenIsLast'
      BY <1>1, <1>2, <1>3, <1>5 DEF RowsBelong, WrittenIsLast, Writes, TypeOK
    <2>2. PastIsRead' /\ InOrder'
      BY <1>1, <1>2, <1>5 DEF PastIsRead, InOrder, Follows, Early
    <2> QED
      BY <1>4, <2>1, <2>2, HistoryParts DEF HistoryInv
  <1>6. CASE \E q \in cut : Writes(q) /\ messages' = messages \cup {Written(q)}
    <2>1. PICK q \in cut : Writes(q) /\ messages' = messages \cup {Written(q)}
      BY <1>6
    <2>n. /\ Written(q).turn = q /\ Written(q).at = written[q] /\ written[q] <= clock
          /\ Written(q).role = "ai" => phase[q] = "answering"
          /\ \A m \in messages : Follows(m, Written(q)) => m.at < written[q]
          /\ \A m \in messages : ~Follows(Written(q), m)
          /\ ~Follows(Written(q), Written(q))
          /\ \A r \in Requests : q \notin before[r]
      BY <1>1, <1>3, <2>1, NewRow
    <2>2. RowsBelong'
      BY <1>1, <1>2, <1>3, <2>1, <2>n DEF RowsBelong, TypeOK
    <2>3. WrittenIsLast'
      BY <1>1, <1>2, <2>1, <2>n DEF WrittenIsLast, Writes
    <2>4. PastIsRead'
      BY <1>1, <1>2, <2>1, <2>n DEF PastIsRead, Early
    <2>5. InOrder'
      BY <1>1, <1>2, <2>1, <2>n DEF InOrder, Follows
    <2> QED
      BY <1>4, <2>2, <2>3, <2>4, <2>5, HistoryParts DEF HistoryInv
  <1> QED
    BY <1>2, <1>5, <1>6

LEMMA HistoryStep == HistoryInv /\ [Next]_vars => HistoryInv'
  <1> SUFFICES ASSUME HistoryInv, [Next]_vars PROVE HistoryInv'
    OBVIOUS
  <1>1. TypeOK /\ TypeOK'
    BY TypeStep DEF HistoryInv
  <1>2. CASE UNCHANGED <<load, phase, stored, before>>
    BY <1>1, <1>2 DEF stored, HistoryInv, RowsBelong, PastIsOver, NothingBeforeUnsent,
       WrittenIsLast, Writes, HistoryIsThePast, SameSession
  <1> QED
    BY <1>1, <1>2, StepKinds, MovesKeepHistory, ReadsKeepHistory, InsertsKeepHistory,
       StoresKeepHistory, StopsKeepHistory

\* Whatever overlaps, on however many instances, a turn reads what the turns before it
\* stored and nothing of its own, and created_at orders a session as it went.
THEOREM HistoriesAreThePast == Spec => []HistoryIsThePast
  <1>1. HistoryInv => HistoryIsThePast
    BY DEF HistoryInv
  <1> QED
    BY <1>1, HistoryInit, HistoryStep, PTL DEF Spec

-------------------------------------------------------------------------------
(* Every turn keeps its record. *)

LEMMA RecordInit ==
  ASSUME Init, NEW r \in Requests
  PROVE  Record(r)!Init
  BY DEF Init, Record!Init, Stage, RowsOf

\* A turn whose rows stay goes on, ends, or stands still.
LEMMA RowsStay ==
  ASSUME NEW r \in Requests, RowsOf(r)' = RowsOf(r),
         \/ Stage(r)' = Stage(r)
         \/ Stage(r) = "waiting" /\ Stage(r)' = "asked"
         \/ Stage(r) # "over" /\ Stage(r)' = "over"
  PROVE  [Record(r)!Next]_(Record(r)!recordVars)
  BY DEF Record!Next, Record!Asks, Record!Ends, Record!Loses, Record!recordVars

\* A turn that gets a row gets the one that is due, later than those it has.
LEMMA RowComes ==
  ASSUME HistoryInv, NEW r \in Requests, Writes(r), messages' = messages \cup {Written(r)},
         \/ phase[r] = "asking" /\ Stage(r)' \in {"asked", "over"}
         \/ phase[r] = "answering" /\ Stage(r)' = "over"
  PROVE  Record(r)!Next
  <1> DEFINE row == [role |-> IF phase[r] = "asking" THEN "human" ELSE "ai", at |-> written[r]]
  <1>1. Written(r).turn = r /\ Written(r).role = row.role /\ Written(r).at = row.at
    BY DEF Written, Message
  <1>2. RowsOf(r)' = RowsOf(r) \cup {row}
    BY <1>1 DEF RowsOf
  <1>3. \A s \in RowsOf(r) : s.at < row.at
    BY DEF HistoryInv, WrittenIsLast, RowsOf
  <1>4. row \notin RowsOf(r)
    <2>1. written[r] \in Nat
      BY DEF HistoryInv, TypeOK
    <2> QED
      BY <1>3, <2>1
  <1>5. Stage(r) = (IF phase[r] = "asking" THEN "waiting" ELSE "asked") /\ row.role = Record(r)!Due
    BY DEF Writes, Stage, Record!Due
  <1>6. Record(r)!Stores
    <2> HIDE DEF row
    <2> QED
      BY <1>2, <1>3, <1>4, <1>5 DEF Record!Stores
  <1> QED
    BY <1>5, <1>6 DEF Record!Next, Record!Asks, Record!Ends

LEMMA RecordStep ==
  ASSUME HistoryInv, [Next]_vars, NEW r \in Requests
  PROVE  [Record(r)!Next]_(Record(r)!recordVars)
  <1>0. TypeOK
    BY DEF HistoryInv
  <1>1. ASSUME UNCHANGED messages PROVE RowsOf(r)' = RowsOf(r)
    BY <1>1 DEF RowsOf
  <1>2. ASSUME NEW q \in Requests, NEW p, Moves(q, p) PROVE [Record(r)!Next]_(Record(r)!recordVars)
    <2>1. RowsOf(r)' = RowsOf(r)
      BY <1>1, <1>2 DEF Moves, stored
    <2>2. phase'[r] = (IF r = q THEN p ELSE phase[r])
      BY <1>0, <1>2 DEF Moves, TypeOK
    <2>3. \/ Stage(r)' = Stage(r)
          \/ Stage(r) = "waiting" /\ Stage(r)' = "asked"
          \/ Stage(r) # "over" /\ Stage(r)' = "over"
      BY <1>2, <2>2 DEF Moves, Stage, Writes
    <2> QED
      BY <2>1, <2>3, RowsStay
  <1>3. ASSUME NEW q \in Requests, Reads(q) \/ Inserts(q)
        PROVE  [Record(r)!Next]_(Record(r)!recordVars)
    <2>1. RowsOf(r)' = RowsOf(r)
      BY <1>1, <1>3 DEF Reads, Inserts
    <2>2. Stage(r)' = Stage(r)
      BY <1>0, <1>3 DEF Reads, Inserts, Goes, Stage, TypeOK
    <2> QED
      BY <2>1, <2>2, RowsStay
  <1>4. ASSUME NEW q \in Requests, Writes(q), messages' = messages \cup {Written(q)}, q # r
        PROVE  RowsOf(r)' = RowsOf(r)
    <2>1. Written(q).turn # r
      BY <1>4 DEF Written, Message
    <2> QED
      BY <1>4, <2>1 DEF RowsOf
  <1>5. ASSUME NEW q \in Requests, Stores(q) PROVE [Record(r)!Next]_(Record(r)!recordVars)
    <2>1. phase'[r] = (IF r # q THEN phase[r] ELSE IF phase[q] = "asking" THEN "asked" ELSE "ended")
      BY <1>0, <1>5 DEF Stores, TypeOK
    <2>2. CASE q # r
      BY <1>1, <1>4, <1>5, <2>1, <2>2, RowsStay DEF Stores, Stage
    <2>3. CASE q = r /\ messages' = messages
      BY <1>1, <1>5, <2>1, <2>3, RowsStay DEF Stores, Stage, Writes
    <2>4. CASE q = r /\ messages' = messages \cup {Written(r)}
      <3>1. \/ phase[r] = "asking" /\ Stage(r)' \in {"asked", "over"}
            \/ phase[r] = "answering" /\ Stage(r)' = "over"
        BY <1>5, <2>1, <2>4 DEF Stores, Writes, Stage
      <3> QED
        BY <1>5, <2>4, <3>1, RowComes DEF Stores
    <2> QED
      BY <1>5, <2>2, <2>3, <2>4 DEF Stores
  <1>6. ASSUME NEW i \in Instances, InstanceStops(i) PROVE [Record(r)!Next]_(Record(r)!recordVars)
    <2> DEFINE cut == {q \in Of(i) : phase[q] # "unsent"}
    <2>1. /\ phase'[r] = (IF r \in cut THEN "ended" ELSE phase[r])
          /\ messages' = messages \/ \E q \in cut : Writes(q) /\ messages' = messages \cup {Written(q)}
      BY <1>6 DEF InstanceStops
    <2>2. Stage(r)' = Stage(r) \/ (Stage(r) # "over" /\ Stage(r)' = "over")
      BY <2>1 DEF Stage
    <2>3. CASE RowsOf(r)' = RowsOf(r)
      BY <2>2, <2>3, RowsStay
    <2>4. CASE RowsOf(r)' # RowsOf(r)
      <3>1. PICK q \in cut : Writes(q) /\ messages' = messages \cup {Written(q)}
        BY <1>1, <2>1, <2>4
      <3>2. q = r
        BY <1>4, <2>4, <3>1 DEF Of
      <3>3. phase'[r] = "ended"
        BY <2>1, <3>1, <3>2
      <3> QED
        BY <3>1, <3>2, <3>3, RowComes DEF Writes, Stage
    <2> QED
      BY <2>3, <2>4
  <1>7. CASE UNCHANGED <<load, phase, stored, before>>
    BY <1>1, <1>7, RowsStay DEF stored, Stage
  <1> QED
    BY <1>0, <1>2, <1>3, <1>5, <1>6, <1>7, StepKinds

\* Whatever the pools, the other turns and the instances do, the transcript keeps of each
\* turn what one stream stores: its question, then its answer, each once at most.
THEOREM EveryTurnKeepsItsRecord == Spec => RecordSpec
  <1>1. Init => \A q \in Requests : Record(q)!Init
    BY RecordInit
  <1>2. HistoryInv /\ [Next]_vars =>
          [\A q \in Requests : [Record(q)!Next]_(Record(q)!recordVars)]_vars
    BY RecordStep
  <1> QED
    BY <1>1, <1>2, HistoryInit, HistoryStep, PTL DEF Spec, RecordSpec

\* What a record needs to have one pair of rows at most.
PairInv(q) ==
  /\ Record(q)!OnePair
  /\ \A m \in RowsOf(q) : m.role = "human" \/ Stage(q) = "over"
  /\ Stage(q) = "waiting" => RowsOf(q) = {}

\* A step of the record keeps it, whichever step of the conversation it stands for.
LEMMA PairStep ==
  ASSUME NEW q \in Requests, PairInv(q), [Record(q)!Next]_(Record(q)!recordVars)
  PROVE  PairInv(q)'
  <1>1. CASE UNCHANGED Record(q)!recordVars
    BY <1>1 DEF PairInv, Record!OnePair, Record!recordVars
  <1>2. CASE Record(q)!Next /\ Record(q)!Loses
    BY <1>2 DEF PairInv, Record!OnePair, Record!Next, Record!Asks, Record!Ends, Record!Loses
  <1>3. CASE Record(q)!Next /\ Record(q)!Stores
    <2>1. PICK r : /\ r.role = IF Stage(q) = "waiting" THEN "human" ELSE "ai"
                   /\ \A s \in RowsOf(q) : s.at < r.at
                   /\ RowsOf(q)' = RowsOf(q) \cup {r}
      BY <1>3 DEF Record!Stores, Record!Due
    <2>2. /\ Stage(q) # "over" /\ Stage(q)' \in {"asked", "over"}
          /\ Stage(q) # "waiting" => Stage(q)' = "over"
      BY <1>3 DEF Record!Next, Record!Asks, Record!Ends
    <2>3. \A m \in RowsOf(q) : m.role = "human" /\ Stage(q) # "waiting"
      BY <2>2 DEF PairInv
    <2> QED
      BY <2>1, <2>2, <2>3 DEF PairInv, Record!OnePair
  <1> QED
    BY <1>1, <1>2, <1>3 DEF Record!Next, Record!Asks, Record!Ends

\* No turn stores two questions or two answers, or an answer before its question, on any
\* path through pools, lost commits and stopped instances.
THEOREM EveryTurnIsOnePair == Spec => [](\A q \in Requests : Record(q)!OnePair)
  <1> DEFINE Inv == HistoryInv /\ \A q \in Requests : PairInv(q)
  <1>1. Init => Inv
    <2>1. Init => \A q \in Requests : PairInv(q)
      BY DEF Init, PairInv, Record!OnePair, RowsOf
    <2> QED
      BY <2>1, HistoryInit
  <1>2. Inv /\ [Next]_vars => Inv'
    <2> SUFFICES ASSUME Inv, [Next]_vars PROVE Inv'
      OBVIOUS
    <2>1. ASSUME NEW q \in Requests PROVE PairInv(q)'
      BY RecordStep, PairStep
    <2> QED
      BY <2>1, HistoryStep
  <1>3. Inv => \A q \in Requests : Record(q)!OnePair
    BY DEF PairInv
  <1> QED
    BY <1>1, <1>2, <1>3, PTL DEF Spec

-------------------------------------------------------------------------------
(* No turn goes round, and no loop waits for a turn that does not call. *)

\* The phases in the order in which a turn can take them.
Rank == [unsent |-> 0, sent |-> 1, exiting |-> 2, accepted |-> 3, building |-> 4,
         abandoned |-> 5, ready |-> 5, asking |-> 6, asked |-> 7, answering |-> 8, ended |-> 9]

Advances(q) == Rank[phase[q]] < Rank[phase'[q]]

\* A turn never goes back, whatever is tried again or lost; and a step that moves no turn
\* is a call that takes a free loop to wait for a connection, so that between two moves
\* there are no more steps than loops.
StepsAdvance ==
  [][/\ \A q \in Requests : phase'[q] = phase[q] \/ Advances(q)
     /\ \/ \E q \in Requests : Advances(q)
        \/ \E q \in Requests : LoopFree(q) /\ Enters(q) /\ UNCHANGED <<phase, messages>>]_vars

\* Who has the loop of an instance is a request of this instance in the middle of a call,
\* and ends it by a connection, by the timeout or by a commit.
LoopServesACall ==
  \A i \in Instances : loop[i] # Nobody =>
    loop[i] \in Of(i) /\ (Calls(loop[i]) \/ Writes(loop[i]))

LEMMA OneAdvances ==
  ASSUME TypeOK, NEW q \in Requests, NEW p \in Phases, Goes(q, p), Rank[phase[q]] < Rank[p]
  PROVE  /\ \A r \in Requests : phase'[r] = phase[r] \/ Advances(r)
         /\ \E r \in Requests : Advances(r)
  BY DEF TypeOK, Goes, Advances

LEMMA StepAdvances ==
  ASSUME TypeOK, Next
  PROVE  /\ \A q \in Requests : phase'[q] = phase[q] \/ Advances(q)
         /\ \/ \E q \in Requests : Advances(q)
            \/ \E q \in Requests : LoopFree(q) /\ Enters(q) /\ UNCHANGED <<phase, messages>>
  <1> DEFINE Good == /\ \A q \in Requests : phase'[q] = phase[q] \/ Advances(q)
                     /\ \E q \in Requests : Advances(q)
  <1>1. ASSUME NEW q \in Requests,
               \/ CallsDatabase(q) \/ Obtains(q) \/ AuthenticatesByToken(q)
               \/ TimesOut(q) \/ DependencyExits(q) \/ Arrives(q)
               \/ SetupEnds(q) \/ SetupFails(q) \/ SessionCollected(q) \/ StreamFails(q)
               \/ Commits(q) \/ CommitLost(q)
        PROVE  \E p \in Phases : Goes(q, p) /\ Rank[phase[q]] < Rank[p]
    <2>1. Authenticates(q) => Goes(q, "exiting") /\ phase[q] = "sent"
      BY DEF Authenticates
    <2>2. Reads(q) => Goes(q, "building") /\ phase[q] = "accepted"
      BY DEF Reads
    <2>3. Inserts(q) => \/ Goes(q, "asking") /\ phase[q] = "ready"
                        \/ Goes(q, "answering") /\ phase[q] = "asked"
      BY DEF Inserts
    <2>4. CASE CallsDatabase(q) \/ Obtains(q) \/ AuthenticatesByToken(q)
      BY <2>1, <2>2, <2>3, <2>4
      DEF CallsDatabase, Obtains, AuthenticatesByToken, Runs, Rank, Phases
    <2>5. CASE TimesOut(q)
      BY <2>5 DEF TimesOut, InCheckout, Calls, Rank, Phases
    <2>6. CASE DependencyExits(q) \/ Arrives(q)
      BY <2>6 DEF DependencyExits, Arrives, Rank, Phases
    <2>7. CASE SetupEnds(q) \/ SetupFails(q) \/ SessionCollected(q) \/ StreamFails(q)
      BY <2>7 DEF SetupEnds, SetupFails, SessionCollected, StreamFails, Rank, Phases
    <2>8. CASE Commits(q) \/ CommitLost(q)
      BY <2>8 DEF Commits, CommitLost, Writes, StoreEnds, Rank, Phases
    <2> QED
      BY <1>1, <2>4, <2>5, <2>6, <2>7, <2>8
  <1>2. ASSUME NEW q \in Requests, Blocks(q)
        PROVE  LoopFree(q) /\ Enters(q) /\ UNCHANGED <<phase, messages>>
    BY <1>2 DEF Blocks, stored
  <1>3. ASSUME NEW i \in Instances, InstanceStops(i) PROVE Good
    <2>1. PICK q \in Of(i) : phase[q] \notin {"unsent", "ended"} /\ phase'[q] = "ended"
      BY <1>3 DEF InstanceStops, Of
    <2>2. \A r \in Requests : phase'[r] = phase[r] \/ phase'[r] = "ended"
      BY <1>3 DEF InstanceStops
    <2>3. \A r \in Requests : phase[r] # "ended" => Rank[phase[r]] < 9
      BY DEF TypeOK, Phases, Rank
    <2>4. Rank["ended"] = 9
      BY DEF Rank
    <2> QED
      BY <2>1, <2>2, <2>3, <2>4 DEF Advances, Of
  <1>4. ASSUME NEW q \in Requests, NEW p \in Phases, Goes(q, p), Rank[phase[q]] < Rank[p] PROVE Good
    BY <1>4, OneAdvances
  <1> HIDE DEF Good
  <1>5. Good \/ \E q \in Requests : LoopFree(q) /\ Enters(q) /\ UNCHANGED <<phase, messages>>
    BY <1>1, <1>2, <1>3, <1>4 DEF Next, Progress
  <1>6. UNCHANGED phase => \A q \in Requests : phase'[q] = phase[q]
    OBVIOUS
  <1> QED
    BY <1>5, <1>6 DEF Good

\* A turn takes its phases once and in one direction, so that with the loops below no
\* behaviour of finitely many requests goes on for ever.
THEOREM TurnsOnlyAdvance == Spec => StepsAdvance
  <1>1. TypeOK /\ [Next]_vars =>
          [/\ \A q \in Requests : phase'[q] = phase[q] \/ Advances(q)
           /\ \/ \E q \in Requests : Advances(q)
              \/ \E q \in Requests : LoopFree(q) /\ Enters(q) /\ UNCHANGED <<phase, messages>>]_vars
    BY StepAdvances
  <1> QED
    BY <1>1, ConversationTypeCorrect, PTL DEF Spec, StepsAdvance

\* A step of one request that does not have the loop, gives it back, or takes it for a
\* call leaves the loops to callers.
LEMMA LoopsStayServed ==
  ASSUME TypeOK, LoopServesACall, NEW q \in Requests, UNCHANGED load,
         NEW p, phase' = [phase EXCEPT ![q] = p],
         \/ Frees(q)
         \/ UNCHANGED loop /\ loop[load.instance[q]] # q
         \/ Enters(q) /\ (Calls(q)' \/ Writes(q)')
  PROVE  LoopServesACall'
  <1> SUFFICES ASSUME NEW i \in Instances, loop'[i] # Nobody
               PROVE  (loop[i] \in Of(i) /\ (Calls(loop[i]) \/ Writes(loop[i])))'
    BY DEF LoopServesACall, Of
  <1>0. load.instance[q] \in Instances /\ loop' \in [Instances -> Requests \cup {Nobody}]
    BY DEF TypeOK, Workload, Frees, Enters
  <1>1. CASE loop'[i] = q
    <2>1. q \in Of(i) /\ Enters(q)
      BY <1>0, <1>1, ConversationAssumption DEF LoopServesACall, Of, Frees, Enters, TypeOK
    <2> QED
      BY <1>1, <2>1, ConversationAssumption DEF Frees, Enters, TypeOK, Of
  <1>2. CASE loop'[i] # q
    <2>1. loop'[i] = loop[i]
      BY <1>0, <1>2 DEF Frees, Enters, TypeOK
    <2>2. loop[i] \in Of(i) /\ (Calls(loop[i]) \/ Writes(loop[i]))
      BY <2>1 DEF LoopServesACall
    <2>3. phase'[loop[i]] = phase[loop[i]]
      BY <1>2, <2>1, <2>2 DEF TypeOK, Of
    <2> QED
      BY <2>1, <2>2, <2>3 DEF Calls, Writes, Of
  <1> QED
    BY <1>1, <1>2

LEMMA ServedStep == PoolInv /\ LoopServesACall /\ [Next]_vars => LoopServesACall'
  <1> SUFFICES ASSUME TypeOK, Discipline, LoopServesACall, [Next]_vars PROVE LoopServesACall'
    BY DEF PoolInv
  <1>1. ASSUME NEW q \in Requests, CallsDatabase(q) \/ Obtains(q) PROVE LoopServesACall'
    <2>1. CASE Authenticates(q) \/ Reads(q)
      BY <1>1, <2>1, LoopsStayServed DEF CallsDatabase, Obtains, Runs, Authenticates, Reads, Goes
    <2>2. CASE Inserts(q)
      <3>1. PICK p \in {"asking", "answering"} : phase' = [phase EXCEPT ![q] = p]
        BY <2>2 DEF Inserts, Goes
      <3>2. Writes(q)' /\ Enters(q) /\ UNCHANGED load
        BY <1>1, <2>2, <3>1 DEF CallsDatabase, Obtains, Runs, Inserts, Writes, TypeOK
      <3> QED
        BY <3>1, <3>2, LoopsStayServed
    <2> QED
      BY <1>1, <2>1, <2>2 DEF CallsDatabase, Obtains, Runs
  <1>2. ASSUME NEW q \in Requests, Blocks(q) PROVE LoopServesACall'
    <2>1. phase' = [phase EXCEPT ![q] = phase[q]] /\ Calls(q)' /\ Enters(q) /\ UNCHANGED load
      BY <1>2 DEF Blocks, Calls, TypeOK
    <2> QED
      BY <2>1, LoopsStayServed
  <1>3. ASSUME NEW q \in Requests, TimesOut(q) \/ AuthenticatesByToken(q) \/ Commits(q) \/ CommitLost(q)
        PROVE  LoopServesACall'
    <2>1. \E p : phase' = [phase EXCEPT ![q] = p]
      BY <1>3 DEF TimesOut, AuthenticatesByToken, Authenticates, Commits, CommitLost, StoreEnds, Goes
    <2>2. Frees(q) /\ UNCHANGED load
      BY <1>3 DEF TimesOut, AuthenticatesByToken, Authenticates, Commits, CommitLost, StoreEnds
    <2> QED
      BY <2>1, <2>2, LoopsStayServed
  <1>4. ASSUME NEW q \in Requests,
               \/ DependencyExits(q) \/ Arrives(q) \/ SetupEnds(q) \/ SetupFails(q)
               \/ SessionCollected(q) \/ StreamFails(q)
        PROVE  LoopServesACall'
    <2>1. \E p : phase' = [phase EXCEPT ![q] = p]
      BY <1>4 DEF DependencyExits, Arrives, SetupEnds, SetupFails, SessionCollected, StreamFails, Goes
    <2>2. UNCHANGED <<load, loop>>
      BY <1>4 DEF DependencyExits, Arrives, SetupEnds, SetupFails, SessionCollected, StreamFails
    <2>3. LoopFree(q) \/ ~(Calls(q) \/ Writes(q))
      BY <1>4 DEF DependencyExits, Arrives, SetupEnds, SetupFails, SessionCollected, StreamFails,
         Calls, Writes
    <2>4. loop[load.instance[q]] # q
      BY <2>3, ConversationAssumption DEF LoopFree, LoopServesACall, TypeOK, Workload
    <2> QED
      BY <2>1, <2>2, <2>4, LoopsStayServed
  <1>5. ASSUME NEW i \in Instances, InstanceStops(i) PROVE LoopServesACall'
    <2>1. /\ UNCHANGED load /\ loop' = [loop EXCEPT ![i] = Nobody]
          /\ \A r \in Requests \ Of(i) : phase'[r] = phase[r]
      BY <1>5 DEF InstanceStops
    <2> SUFFICES ASSUME NEW j \in Instances, loop'[j] # Nobody
                 PROVE  (loop[j] \in Of(j) /\ (Calls(loop[j]) \/ Writes(loop[j])))'
      BY <2>1 DEF LoopServesACall, Of
    <2>2. j # i /\ loop'[j] = loop[j]
      BY <2>1 DEF TypeOK
    <2>3. loop[j] \in Of(j) /\ (Calls(loop[j]) \/ Writes(loop[j])) /\ phase'[loop[j]] = phase[loop[j]]
      BY <2>1, <2>2 DEF LoopServesACall, Of
    <2> QED
      BY <2>1, <2>2, <2>3 DEF Calls, Writes, Of
  <1>6. CASE UNCHANGED vars
    BY <1>6 DEF vars, LoopServesACall, Of, Calls, Writes
  <1> QED
    BY <1>1, <1>2, <1>3, <1>4, <1>5, <1>6 DEF Next, Progress

\* No loop is lost: it is free, or with a request of its instance that can end its call.
THEOREM LoopsServeCalls == Spec => []LoopServesACall
  <1>1. Init => LoopServesACall
    BY DEF Init, LoopServesACall
  <1>2. PoolInv /\ LoopServesACall /\ [Next]_vars => LoopServesACall'
    BY ServedStep
  <1> QED
    BY <1>1, <1>2, PoolInvariant, PTL DEF Spec

-------------------------------------------------------------------------------
(* Every turn does with the connection of its setup what setup promises. *)

Held(r) == r \in holds /\ phase[r] \notin {"exiting", "asking", "answering"}

LEMMA ConnectionInit ==
  ASSUME Init, NEW r \in Requests
  PROVE  Connection(r)!Init
  <1>1. phase[r] = "unsent" /\ r \notin holds
    BY DEF Init
  <1> QED
    BY <1>1 DEF Connection!Init, Course

LEMMA ConnectionMoves ==
  ASSUME NEW r \in Requests,
         \/ Course(r)' = Course(r) /\ Held(r)' = Held(r)
         \/ Course(r) = "setup" /\ Course(r)' = "setup"
         \/ Course(r) = "setup" /\ Course(r)' = "streaming" /\ ~Held(r)'
         \/ Course(r) = "setup" /\ Course(r)' = "over"
         \/ Course(r) = "streaming" /\ Course(r)' = "over" /\ ~Held(r) /\ ~Held(r)'
         \/ Course(r) = "over" /\ Course(r)' = "over" /\ Held(r) /\ ~Held(r)'
  PROVE  [Connection(r)!Next]_(Connection(r)!connectionVars)
  <1>1. CASE Course(r)' = Course(r) /\ Held(r)' = Held(r)
    BY <1>1, Zenon DEF Held, Connection!connectionVars
  <1>2. CASE Course(r) = "setup" /\ Course(r)' = "setup"
    BY <1>2 DEF Connection!Next, Connection!Queries
  <1>3. CASE Course(r) = "setup" /\ Course(r)' = "streaming" /\ ~Held(r)'
    BY <1>3 DEF Held, Connection!Next, Connection!Streams
  <1>4. CASE Course(r) = "setup" /\ Course(r)' = "over"
    BY <1>4 DEF Connection!Next, Connection!Ends
  <1>5. CASE Course(r) = "streaming" /\ Course(r)' = "over" /\ ~Held(r) /\ ~Held(r)'
    BY <1>5 DEF Held, Connection!Next, Connection!Ends
  <1>6. CASE Course(r) = "over" /\ Course(r)' = "over" /\ Held(r) /\ ~Held(r)'
    BY <1>6 DEF Held, Connection!Next, Connection!Collected
  <1> QED
    BY <1>1, <1>2, <1>3, <1>4, <1>5, <1>6

\* Who streams holds a connection only in a store, and who ended holds none.
LEMMA StreamsWithout ==
  ASSUME Discipline, NEW r \in Requests
  PROVE  /\ Course(r) = "streaming" => ~Held(r)
         /\ Held(r) => phase[r] \in {"building", "abandoned"}
  BY DEF Discipline, Held, Course

\* The connection of an abandoned setup can only go back.
LEMMA AbandonedEnds ==
  ASSUME TypeOK, [Next]_vars, NEW r \in Requests, phase[r] = "abandoned"
  PROVE  phase'[r] \in {"abandoned", "ended"} /\ (r \in holds' => r \in holds)
  <1>1. ASSUME NEW q \in Requests, CallsDatabase(q) \/ Obtains(q)
        PROVE  phase'[r] = phase[r] /\ (r \in holds' => r \in holds)
    <2>1. phase[q] # "abandoned"
      BY <1>1 DEF CallsDatabase, Obtains, InCheckout, Calls
    <2>2. holds' = holds \cup {q}
      BY <1>1 DEF CallsDatabase, Obtains, Runs
    <2>3. PICK p : Goes(q, p)
      BY <1>1 DEF CallsDatabase, Obtains, Runs, Authenticates, Reads, Inserts
    <2> QED
      BY <2>1, <2>2, <2>3 DEF Goes, TypeOK
  <1>2. ASSUME NEW q \in Requests,
               \/ Blocks(q) \/ TimesOut(q) \/ AuthenticatesByToken(q) \/ Arrives(q)
               \/ DependencyExits(q) \/ SetupEnds(q) \/ SetupFails(q) \/ StreamFails(q)
        PROVE  phase'[r] = phase[r] /\ (r \in holds' => r \in holds)
    <2>1. phase[q] # "abandoned"
      BY <1>2 DEF Blocks, TimesOut, InCheckout, Calls, AuthenticatesByToken, Authenticates, Arrives,
         DependencyExits, SetupEnds, SetupFails, StreamFails
    <2>2. holds' = holds \/ holds' = holds \ {q}
      BY <1>2 DEF Blocks, TimesOut, AuthenticatesByToken, Arrives, DependencyExits, SetupEnds,
         SetupFails, StreamFails
    <2>3. phase' = phase \/ \E p : Goes(q, p)
      BY <1>2 DEF Blocks, TimesOut, AuthenticatesByToken, Authenticates, Arrives, DependencyExits,
         SetupEnds, SetupFails, StreamFails
    <2> QED
      BY <2>1, <2>2, <2>3 DEF Goes, TypeOK
  <1>3. ASSUME NEW q \in Requests, SessionCollected(q) \/ Commits(q) \/ CommitLost(q)
        PROVE  phase'[r] \in {"abandoned", "ended"} /\ (r \in holds' => r \in holds)
    BY <1>3 DEF SessionCollected, Commits, CommitLost, Writes, StoreEnds, Goes, TypeOK
  <1>4. ASSUME NEW i \in Instances, InstanceStops(i)
        PROVE  phase'[r] \in {"abandoned", "ended"} /\ (r \in holds' => r \in holds)
    BY <1>4 DEF InstanceStops
  <1>5. CASE UNCHANGED vars
    BY <1>5 DEF vars
  <1> QED
    BY <1>1, <1>2, <1>3, <1>4, <1>5 DEF Next, Progress

LEMMA ConnectionStep ==
  ASSUME PoolInv, PoolInv', [Next]_vars, NEW r \in Requests
  PROVE  [Connection(r)!Next]_(Connection(r)!connectionVars)
  <1>1. phase[r] \in Phases /\ phase'[r] \in Phases
    BY DEF PoolInv, TypeOK
  <1>2. phase'[r] = phase[r] \/ Advances(r)
    BY StepAdvances DEF PoolInv, vars
  <1>3. /\ Course(r) = "streaming" => ~Held(r)
        /\ Held(r) => phase[r] \in {"building", "abandoned"}
        /\ Course(r)' = "streaming" => ~Held(r)'
        /\ Held(r)' => phase'[r] \in {"building", "abandoned"}
    <2>1. \A q \in holds' : phase'[q] \in {"exiting", "building", "abandoned", "asking", "answering"}
      BY DEF PoolInv, Discipline
    <2> QED
      BY <2>1, StreamsWithout DEF PoolInv, Held, Course
  <1>4. CASE Course(r) = "setup"
    BY <1>3, <1>4, ConnectionMoves DEF Course
  <1>5. CASE Course(r) = "streaming"
    <2>1. Course(r)' = "streaming" \/ phase'[r] = "ended"
      BY <1>1, <1>2, <1>5 DEF Advances, Rank, Phases, Course
    <2>2. ~Held(r) /\ ~Held(r)'
      BY <1>3, <1>5, <2>1
    <2>3. Held(r)' = Held(r)
      BY <2>2 DEF Held
    <2> QED
      BY <1>5, <2>1, <2>2, <2>3, ConnectionMoves DEF Course
  <1>6. CASE Course(r) = "over"
    <2>1. phase[r] = "ended" => phase'[r] = "ended"
      BY <1>1, <1>2 DEF Advances, Rank, Phases
    <2>2. Course(r)' = "over" /\ (Held(r)' => Held(r))
      BY <1>3, <1>6, <2>1, AbandonedEnds DEF PoolInv, Course, Held
    <2>3. Held(r)' = Held(r) \/ (Held(r) /\ ~Held(r)')
      BY <2>2 DEF Held
    <2> QED
      BY <1>6, <2>2, <2>3, ConnectionMoves
  <1> QED
    BY <1>4, <1>5, <1>6 DEF Course

\* What this module makes of setup is what TurnSetup implements, for every request, pool
\* and loop.
THEOREM SetupsKeepTheirConnections == Spec => ConnectionSpec
  <1>1. Init => \A q \in Requests : Connection(q)!Init
    BY ConnectionInit
  <1>2. PoolInv /\ PoolInv' /\ [Next]_vars =>
          [\A q \in Requests : [Connection(q)!Next]_(Connection(q)!connectionVars)]_vars
    BY ConnectionStep
  <1> QED
    BY <1>1, <1>2, PoolInvariant, PTL DEF Spec, ConnectionSpec
===============================================================================
