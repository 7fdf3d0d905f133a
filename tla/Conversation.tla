----------------------------- MODULE Conversation -----------------------------
(***************************************************************************)
(* The turns of conversations on several instances: the connection pool of *)
(* src/src/db/database.py under the one event loop of an instance, the     *)
(* request session of src/src/deps.py, the sessions that store messages,   *)
(* and the transcript that turns read and write.                           *)
(*                                                                         *)
(* Database calls are synchronous.  One that finds the pool exhausted      *)
(* blocks the loop of its instance, and with it every other turn, until a  *)
(* worker thread gives a connection back or the checkout times out.        *)
(* TurnSetup and AgentStream hold the detail of one turn.                  *)
(***************************************************************************)
EXTENDS Integers, FiniteSets

CONSTANTS
  Requests,   \* each asks for one turn
  Instances,
  Sessions,
  Workloads,  \* how requests may be spread, see Workload
  Nobody,     \* a loop that is free
  PoolSize,   \* pool_size + max_overflow
  MaxFaults   \* bound of lost commits and stopped instances

Workload ==
  [instance : [Requests -> Instances], session : [Requests -> Sessions],
   keyed : SUBSET Requests]

ASSUME ConversationAssumption ==
  /\ IsFiniteSet(Requests)
  /\ Workloads \subseteq Workload
  /\ Nobody \notin Requests
  /\ PoolSize \in Nat \ {0}
  /\ MaxFaults \in Nat

VARIABLES
  load,      \* instance and session of every request, and which come with an API key
  phase,     \* of each request, see Phases
  holds,     \* the requests that hold a connection of their instance's pool
  loop,      \* the request whose database call each loop is in, or Nobody
  written,   \* created_at of the row each request has not committed yet, or 0
  clock,     \* the clock of the database, which stamps transactions
  messages,  \* the rows of chat_messages
  history,   \* the rows each setup has read
  faults,
  before     \* history: per request the turns of its session that had ended

vars == <<load, phase, holds, loop, written, clock, messages, history, faults, before>>
stored == <<written, clock, messages, history>>

\* What a request does next, or is in the middle of.
Phases ==
  {"unsent", "sent",          \* authentication is next
   "exiting",                 \* a worker thread closes the session of the dependency
   "accepted",                \* setup is next
   "building",                \* setup waits for tools and attachments
   "abandoned",               \* setup failed, and nobody closed its session
   "ready", "asking",         \* the question is to be stored, is being stored
   "asked", "answering",      \* the answer is to be stored, is being stored
   "ended"}

Message(q, role, at) == [turn |-> q, role |-> role, at |-> at]
Roles == {"human", "ai"}

Init ==
  /\ load \in Workloads
  /\ phase = [q \in Requests |-> "unsent"]
  /\ holds = {}
  /\ loop = [i \in Instances |-> Nobody]
  /\ written = [q \in Requests |-> 0]
  /\ clock = 0
  /\ messages = {}
  /\ history = [q \in Requests |-> {}]
  /\ faults = 0
  /\ before = [q \in Requests |-> {}]

-------------------------------------------------------------------------------
(* The pool and the loop. *)

Of(i) == {q \in Requests : load.instance[q] = i}
Holders(i) == holds \cap Of(i)
Available(q) == Cardinality(Holders(load.instance[q])) < PoolSize
LoopFree(q) == loop[load.instance[q]] = Nobody
Frees(q) == loop' = [loop EXCEPT ![load.instance[q]] = Nobody]
Enters(q) == loop' = [loop EXCEPT ![load.instance[q]] = q]

Goes(q, p) == phase' = [phase EXCEPT ![q] = p]
SameSession(q, r) == load.session[q] = load.session[r]

\* Phases whose next step is a database call.
Calls(q) == phase[q] \in {"accepted", "ready", "asked"} \/ (phase[q] = "sent" /\ q \in load.keyed)

\* A request by key keeps the connection of its last query.
Authenticates(q) ==
  /\ phase[q] = "sent"
  /\ Goes(q, "exiting")
  /\ Frees(q)
  /\ UNCHANGED stored

\* Mutant: the newest message is taken for the prompt and left out.
Mut_Transcript(q) ==
  {m \in messages : SameSession(q, m.turn) /\ \E n \in messages : m.at < n.at}

Transcript(q) == {m \in messages : SameSession(q, m.turn)}

\* The queries of setup, up to where it waits for the first time; the history is read
\* once, ordered by created_at.
Reads(q) ==
  /\ phase[q] = "accepted"
  /\ history' = [history EXCEPT ![q] = Transcript(q)]
  /\ Goes(q, "building")
  /\ Frees(q)
  /\ UNCHANGED <<written, clock, messages>>

\* A transaction begins, and created_at is the time at which it does.
Inserts(q) ==
  /\ \/ phase[q] = "ready" /\ Goes(q, "asking")
     \/ phase[q] = "asked" /\ Goes(q, "answering")
  /\ clock' = clock + 1
  /\ written' = [written EXCEPT ![q] = clock']
  /\ Enters(q)
  /\ UNCHANGED <<messages, history>>

\* With a connection the call goes on.
Runs(q) ==
  /\ Available(q)
  /\ holds' = holds \cup {q}
  /\ Authenticates(q) \/ Reads(q) \/ Inserts(q)
  /\ UNCHANGED <<load, faults, before>>

CallsDatabase(q) == Calls(q) /\ LoopFree(q) /\ Runs(q)

\* Without one it holds the loop.
Blocks(q) ==
  /\ Calls(q)
  /\ LoopFree(q)
  /\ ~Available(q)
  /\ Enters(q)
  /\ UNCHANGED <<load, phase, holds, stored, faults, before>>

InCheckout(q) == loop[load.instance[q]] = q /\ Calls(q)

Obtains(q) == InCheckout(q) /\ Runs(q)

\* Mutant: a checkout waits as long as it takes.
Mut_TimesOut(q) == FALSE /\ UNCHANGED vars

\* The error is no OperationalError, so nothing is tried again.  It ends the request or
\* its setup; a store swallows it, and the turn goes on without the message.
TimesOut(q) ==
  /\ InCheckout(q)
  /\ ~Available(q)
  /\ Goes(q, IF phase[q] = "ready" THEN "asked" ELSE "ended")
  /\ Frees(q)
  /\ UNCHANGED <<load, holds, stored, faults, before>>

-------------------------------------------------------------------------------
(* Requests. *)

Arrives(q) ==
  /\ phase[q] = "unsent"
  /\ Goes(q, "sent")
  /\ before' = [before EXCEPT ![q] =
                  {r \in Requests : phase[r] = "ended" /\ SameSession(q, r)}]
  /\ UNCHANGED <<load, holds, loop, stored, faults>>

\* A token needs no query.
AuthenticatesByToken(q) ==
  /\ q \notin load.keyed
  /\ LoopFree(q)
  /\ Authenticates(q)
  /\ UNCHANGED <<load, holds, faults, before>>

\* get_db ends before the response begins, in a thread of its own.
DependencyExits(q) ==
  /\ phase[q] = "exiting"
  /\ Goes(q, "accepted")
  /\ holds' = holds \ {q}
  /\ UNCHANGED <<load, loop, stored, faults, before>>

\* Mutant: the connection is kept for the stream.
Mut_SetupEnds(q) ==
  /\ phase[q] = "building"
  /\ LoopFree(q)
  /\ Goes(q, "ready")
  /\ UNCHANGED <<load, holds, loop, stored, faults, before>>

\* The last line of setup closes the session.
SetupEnds(q) ==
  /\ phase[q] = "building"
  /\ LoopFree(q)
  /\ Goes(q, "ready")
  /\ holds' = holds \ {q}
  /\ UNCHANGED <<load, loop, stored, faults, before>>

\* Refused, failed or cancelled: the error leaves setup before that line.
SetupFails(q) ==
  /\ phase[q] = "building"
  /\ LoopFree(q)
  /\ Goes(q, "abandoned")
  /\ UNCHANGED <<load, holds, loop, stored, faults, before>>

\* The session is garbage, and its connection goes back when it is collected (external).
SessionCollected(q) ==
  /\ phase[q] = "abandoned"
  /\ LoopFree(q)
  /\ Goes(q, "ended")
  /\ holds' = holds \ {q}
  /\ UNCHANGED <<load, loop, stored, faults, before>>

\* The model fails, or the client is gone.
StreamFails(q) ==
  /\ phase[q] \in {"ready", "asked"}
  /\ LoopFree(q)
  /\ Goes(q, "ended")
  /\ UNCHANGED <<load, holds, loop, stored, faults, before>>

\* A store is over: the turn goes on, or it was the answer.
StoreEnds(q) ==
  /\ Goes(q, IF phase[q] = "asking" THEN "asked" ELSE "ended")
  /\ holds' = holds \ {q}
  /\ Frees(q)
  /\ written' = [written EXCEPT ![q] = 0]
  /\ UNCHANGED <<load, clock, history, before>>

Writes(q) == phase[q] \in {"asking", "answering"}

\* Mutant: the role is the one of the API, which no history is built from.
Mut_Written(q) == Message(q, IF phase[q] = "asking" THEN "user" ELSE "ai", written[q])

Written(q) == Message(q, IF phase[q] = "asking" THEN "human" ELSE "ai", written[q])

Commits(q) ==
  /\ Writes(q)
  /\ messages' = messages \cup {Written(q)}
  /\ StoreEnds(q)
  /\ UNCHANGED faults

\* Mutant: a store whose connection is lost is tried again.
Mut_CommitLost(q) ==
  /\ Writes(q)
  /\ faults < MaxFaults
  /\ faults' = faults + 1
  /\ UNCHANGED messages \/ messages' = messages \cup {Written(q)}
  /\ Goes(q, IF phase[q] = "asking" THEN "ready" ELSE "asked")
  /\ holds' = holds \ {q}
  /\ Frees(q)
  /\ written' = [written EXCEPT ![q] = 0]
  /\ UNCHANGED <<load, clock, history, before>>

\* The connection is lost; the row may be there all the same.
CommitLost(q) ==
  /\ Writes(q)
  /\ faults < MaxFaults
  /\ faults' = faults + 1
  /\ UNCHANGED messages \/ messages' = messages \cup {Written(q)}
  /\ StoreEnds(q)

\* The platform stops an instance: the database rolls back what was open, or has just
\* committed it (external).
InstanceStops(i) ==
  LET cut == {q \in Of(i) : phase[q] # "unsent"}
  IN /\ faults < MaxFaults
     /\ \E q \in cut : phase[q] # "ended"
     /\ faults' = faults + 1
     /\ phase' = [q \in Requests |-> IF q \in cut THEN "ended" ELSE phase[q]]
     /\ holds' = holds \ cut
     /\ loop' = [loop EXCEPT ![i] = Nobody]
     /\ written' = [q \in Requests |-> IF q \in cut THEN 0 ELSE written[q]]
     /\ UNCHANGED messages \/ \E q \in cut : Writes(q) /\ messages' = messages \cup {Written(q)}
     /\ UNCHANGED <<load, clock, history, before>>

Progress(q) ==
  \/ CallsDatabase(q)
  \/ Blocks(q)
  \/ Obtains(q)
  \/ TimesOut(q)
  \/ AuthenticatesByToken(q)
  \/ DependencyExits(q)
  \/ SetupEnds(q)
  \/ SetupFails(q)
  \/ SessionCollected(q)
  \/ Commits(q)

Next ==
  \/ \E q \in Requests : Progress(q) \/ Arrives(q) \/ StreamFails(q) \/ CommitLost(q)
  \/ \E i \in Instances : InstanceStops(i)

Spec == Init /\ [][Next]_vars

\* A loop that is free serves whoever is next, checkouts time out, worker threads and the
\* collector run, tools are built and providers answer.
FairSpec == Spec /\ \A q \in Requests : WF_vars(Progress(q))

-------------------------------------------------------------------------------
(* Properties. *)

TypeOK ==
  /\ load \in Workload
  /\ phase \in [Requests -> Phases]
  /\ holds \subseteq Requests
  /\ loop \in [Instances -> Requests \cup {Nobody}]
  /\ written \in [Requests -> Nat]
  /\ clock \in Nat
  /\ messages \subseteq [turn : Requests, role : Roles, at : Nat]
  /\ history \in [Requests -> SUBSET [turn : Requests, role : Roles, at : Nat]]
  /\ faults \in 0 .. MaxFaults
  /\ before \in [Requests -> SUBSET Requests]

\* Requests whose connection outlives a database call.
Settling(i) == {q \in Of(i) : phase[q] \in {"exiting", "building", "abandoned"}}

\* The deadlock of a pool under a loop: a turn that waits for its own connection, or for
\* those of turns that wait for the loop.  A checkout finds the pool exhausted only by
\* as many other requests that are being authenticated or set up: never by itself, by
\* another loop or by a turn that streams, however long that takes.
OnlySetupsExhaustThePool ==
  \A q \in Requests : Calls(q) /\ (LoopFree(q) \/ InCheckout(q)) /\ ~Available(q) =>
    PoolSize <= Cardinality(Settling(load.instance[q]) \ {q})

\* message_history.py, context.py: created_at is the start of a transaction, questions
\* and answers are transactions of their own, on any instance, and the history is read
\* once.  Whatever overlaps, a turn reads all that earlier turns of its session stored
\* and nothing of its own, and in the order of created_at a question comes before its
\* answer and an earlier turn before a later one.
HistoryIsThePast ==
  /\ \A q \in Requests : \A m \in history[q] : m.turn # q /\ SameSession(q, m.turn)
  /\ \A q \in Requests, m \in messages :
       phase[q] \notin {"unsent", "sent", "exiting", "accepted", "ended"}
         /\ m.turn \in before[q] => m \in history[q]
  /\ \A m, n \in messages :
       \/ m.turn \in before[n.turn]
       \/ m.turn = n.turn /\ m.role = "human" /\ n.role = "ai"
       => m.at < n.at

\* The rows of each turn, whatever happens to it and to its instance, and in the order
\* of created_at, are what one stream stores.
Stage(q) ==
  IF phase[q] = "ended" THEN "over"
  ELSE IF phase[q] \in {"asked", "answering"} THEN "asked" ELSE "waiting"

RowsOf(q) == {[role |-> m.role, at |-> m.at] : m \in {n \in messages : n.turn = q}}

Record(q) == INSTANCE TurnRecord WITH stage <- Stage(q), rows <- RowsOf(q)

RecordSpec ==
  /\ \A q \in Requests : Record(q)!Init
  /\ [][\A q \in Requests : [Record(q)!Next]_(Record(q)!recordVars)]_vars

\* Of setup this module has the reads and the end; the connection of its session, which is
\* not the one of authentication or of a store, does what TurnSetup makes it do.
Course(q) ==
  IF phase[q] \in {"abandoned", "ended"} THEN "over"
  ELSE IF phase[q] \in {"ready", "asking", "asked", "answering"} THEN "streaming" ELSE "setup"

Connection(q) == INSTANCE SetupConnection WITH
  stage <- Course(q),
  held <- q \in holds /\ phase[q] \notin {"exiting", "asking", "answering"}

ConnectionSpec ==
  /\ \A q \in Requests : Connection(q)!Init
  /\ [][\A q \in Requests : [Connection(q)!Next]_(Connection(q)!connectionVars)]_vars

\* However the pool is exhausted, every request comes to an end and every connection
\* back to the pool.
TurnsEnd == \A q \in Requests : phase[q] = "sent" ~> phase[q] = "ended" /\ q \notin holds
===============================================================================
