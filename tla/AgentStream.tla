------------------------------ MODULE AgentStream -----------------------------
(***************************************************************************)
(* One streamed turn of an agent: src/src/routers/agents/stream.py, from   *)
(* the outcome of prepare_agent_context to the end of the response.        *)
(*                                                                         *)
(* Three parties take steps:                                               *)
(*   - the runner, LangChain's AgentExecutor (or the bare chat model on    *)
(*     the simple path).  It runs as a task of its own and puts its events *)
(*     on a queue, so it may be several events ahead of the generator;     *)
(*     tools called in one round run concurrently.  External: modelled     *)
(*     from the events stream.py consumes.                                 *)
(*   - the generator, which takes events off the queue, writes chat        *)
(*     messages through short-lived sessions and yields SSE events;        *)
(*   - the client, which may leave at any time.                            *)
(* Text is a sequence of round numbers: a chunk streamed in model round n  *)
(* is <<n>>.  Chunks without content yield nothing and are left out.       *)
(***************************************************************************)
EXTENDS Naturals, Sequences, KeptPlaces

CONSTANTS
  RunIds,     \* tool run ids the runner may use in this turn
  NoRun,      \* "no tool run"
  MaxRounds,  \* max_iterations of the executor (25 in context.py)
  MaxChunks   \* bound: content chunks of one model round

ASSUME StreamAssumption ==
  /\ NoRun \notin RunIds
  /\ MaxRounds \in Nat \ {0}
  /\ MaxChunks \in Nat

VARIABLES
  \* the generator
  pc,            \* where the generator is, see Pcs
  executor,      \* ctx.agent_executor is there: the agent has tools
  toolCalls,     \* tool_calls: runs whose formatted call was appended, in order
  userStored,    \* user_message_stored
  fullResponse,  \* full_response of the simple path
  \* the response
  conn,          \* "open" until the client leaves
  sent,          \* the SSE events handed to the open connection, in order
  \* the runner
  step,          \* where the runner is, see Steps
  round,         \* model rounds begun
  reply,         \* content chunks of the current round
  tool,          \* status of each tool run, see ToolStates
  evq,           \* events emitted and not yet taken by the generator
  \* the database, as far as this turn writes it
  messages,      \* chat_messages rows of this turn, in commit order
  approvals,     \* runs whose pending_tool_approvals row is committed
  lost           \* roles whose message could not be committed

generatorVars == <<pc, executor, toolCalls, userStored, fullResponse>>
responseVars  == <<conn, sent>>
runnerVars    == <<step, round, reply, tool, evq>>
databaseVars  == <<messages, approvals, lost>>
vars == <<generatorVars, responseVars, runnerVars, databaseVars>>

-------------------------------------------------------------------------------
Over  == {"returned", "escaped", "cancelled"}
Pcs   == {"setup", "agent", "hitl", "simpleStart", "simple"} \cup Over
Steps == {"idle", "think", "model", "tools", "finished", "raised", "stopped"}

\* A run is called by the model, starts, has its work done with one of three
\* outcomes (a tool call the formatter accepts, one it rejects, an approval
\* sentinel), and ends.
Outcomes   == {"result", "rejected", "approval"}
ToolStates == {"unused", "called", "running", "ended"} \cup Outcomes

Texts == Seq(0 .. MaxRounds)
StoppedText == <<0>>    \* what the executor answers at its iteration limit

Kinds ==
  {"on_chain_start", "on_chat_model_start", "on_chat_model_stream", "on_tool_start",
   "on_tool_end", "tool_approval_required", "on_chain_end", "error"}

SseEvents == [event: Kinds, run: RunIds \cup {NoRun}, data: BOOLEAN,
              calls: Seq(RunIds), text: Texts]

RunnerEvents == [event: Kinds \cup {"eof"}, run: RunIds \cup {NoRun},
                 out: Outcomes, text: Texts]

MessageRows == [role: {"human", "ai"}, calls: Seq(RunIds), text: Texts]

\* sse_event: an event with the payload fields it was given.
sse_event(event, run, data, calls, text) ==
  [event |-> event, run |-> run, data |-> data, calls |-> calls, text |-> text]

sse_error == sse_event("error", NoRun, TRUE, <<>>, <<>>)

\* A yield reaches the client only while it is connected.
Yield(e) ==
  /\ sent' = IF conn = "open" THEN Append(sent, e) ELSE sent
  /\ UNCHANGED conn

StoreCommits(role, calls, text) ==
  /\ messages' = Append(messages, [role |-> role, calls |-> calls, text |-> text])
  /\ UNCHANGED <<lost, approvals>>

StoreFails(role) ==
  /\ lost' = lost \cup {role}
  /\ UNCHANGED <<messages, approvals>>

\* Mutant: the row carries the role name of another API.
Mut_persist_user_message ==
  \/ StoreCommits("user", <<>>, <<>>)
  \/ StoreFails("human")

\* store_user_message and store_ai_message: the commit succeeds or its failure
\* is logged and swallowed; the generator goes on in both cases.
persist_user_message ==
  \/ StoreCommits("human", <<>>, <<>>)
  \/ StoreFails("human")

persist_ai_message(calls, text) ==
  \/ StoreCommits("ai", calls, text)
  \/ StoreFails("ai")

Init ==
  /\ pc = "setup"
  /\ executor = FALSE
  /\ toolCalls = <<>>
  /\ userStored = FALSE
  /\ fullResponse = <<>>
  /\ conn = "open"
  /\ sent = <<>>
  /\ step = "idle"
  /\ round = 0
  /\ reply = <<>>
  /\ tool = [r \in RunIds |-> "unused"]
  /\ evq = <<>>
  /\ messages = <<>>
  /\ approvals = {}
  /\ lost = {}

-------------------------------------------------------------------------------
(* The runner (external).  Its events are dropped once the generator is over. *)

RunnerEvent(event, run, out, text) ==
  [event |-> event, run |-> run, out |-> out, text |-> text]

Emit(e) == evq' = IF pc \in Over THEN evq ELSE Append(evq, e)

\* The executor's root run begins.
ChainStarts ==
  /\ step = "idle"
  /\ pc = "agent"
  /\ step' = "think"
  /\ Emit(RunnerEvent("on_chain_start", NoRun, "result", <<>>))
  /\ UNCHANGED <<round, reply, tool, generatorVars, responseVars, databaseVars>>

ModelStarts ==
  /\ step = "think"
  /\ round < MaxRounds
  /\ step' = "model"
  /\ round' = round + 1
  /\ reply' = <<>>
  /\ Emit(RunnerEvent("on_chat_model_start", NoRun, "result", <<>>))
  /\ UNCHANGED <<tool, generatorVars, responseVars, databaseVars>>

ModelStreams ==
  /\ step = "model"
  /\ Len(reply) < MaxChunks
  /\ reply' = Append(reply, round)
  /\ Emit(RunnerEvent("on_chat_model_stream", NoRun, "result", <<round>>))
  /\ UNCHANGED <<step, round, tool, generatorVars, responseVars, databaseVars>>

\* The round ends in tool calls: all of S are gathered to run concurrently.
ModelCallsTools(S) ==
  /\ step = "model"
  /\ executor
  /\ S # {}
  /\ \A r \in S : tool[r] = "unused"
  /\ step' = "tools"
  /\ tool' = [r \in RunIds |-> IF r \in S THEN "called" ELSE tool[r]]
  /\ UNCHANGED <<round, reply, evq, generatorVars, responseVars, databaseVars>>

ToolStarts(r) ==
  /\ step = "tools"
  /\ tool[r] = "called"
  /\ tool' = [tool EXCEPT ![r] = "running"]
  /\ Emit(RunnerEvent("on_tool_start", r, "result", <<>>))
  /\ UNCHANGED <<step, round, reply, generatorVars, responseVars, databaseVars>>

\* A tool that needs no approval; or queue_tool_approval failing to commit, which
\* the tool reports as an ordinary result.
ToolAnswers(r, out) ==
  /\ step \in {"tools", "raised"}
  /\ tool[r] = "running"
  /\ out \in {"result", "rejected"}
  /\ tool' = [tool EXCEPT ![r] = out]
  /\ UNCHANGED <<step, round, reply, evq, generatorVars, responseVars, databaseVars>>

\* queue_tool_approval commits the pending row.  The refresh that follows may
\* fail: the tool then reports a failure although the row is there.
\* gather does not cancel siblings, so this may come after another tool raised.
ToolQueuesApproval(r, out) ==
  /\ step \in {"tools", "raised"}
  /\ tool[r] = "running"
  /\ out \in {"approval", "result"}
  /\ tool' = [tool EXCEPT ![r] = out]
  /\ approvals' = approvals \cup {r}
  /\ UNCHANGED <<step, round, reply, evq, generatorVars, responseVars, messages, lost>>

\* The last tool to end hands over to the next model round.
ToolEnds(r) ==
  /\ step = "tools"
  /\ tool[r] \in Outcomes
  /\ tool' = [tool EXCEPT ![r] = "ended"]
  /\ step' = IF \A q \in RunIds \ {r} : tool[q] \in {"unused", "ended"}
             THEN "think" ELSE "tools"
  /\ Emit(RunnerEvent("on_tool_end", r, tool[r], <<>>))
  /\ UNCHANGED <<round, reply, generatorVars, responseVars, databaseVars>>

\* The round ends in an answer (agent path), or the model's stream ends (simple).
RunnerFinishes ==
  /\ step = "model"
  /\ step' = "finished"
  /\ Emit(RunnerEvent(IF executor THEN "on_chain_end" ELSE "eof",
                      NoRun, "result", reply))
  /\ UNCHANGED <<round, reply, tool, generatorVars, responseVars, databaseVars>>

\* max_iterations is reached: the executor answers with a fixed text.
IterationLimit ==
  /\ step = "think"
  /\ round = MaxRounds
  /\ step' = "finished"
  /\ Emit(RunnerEvent("on_chain_end", NoRun, "result", StoppedText))
  /\ UNCHANGED <<round, reply, tool, generatorVars, responseVars, databaseVars>>

\* The provider, a tool or a parser raises; tools of the round may be in flight.
RunnerRaises ==
  /\ step \in {"think", "model", "tools"}
  /\ step' = "raised"
  /\ Emit(RunnerEvent("error", NoRun, "result", <<>>))
  /\ UNCHANGED <<round, reply, tool, generatorVars, responseVars, databaseVars>>

\* The cancellation of a generator that is over reaches the runner's task.
RunnerCancelled ==
  /\ pc \in Over
  /\ step \in {"idle", "think", "model", "tools"}
  /\ step' = "stopped"
  /\ UNCHANGED <<round, reply, tool, evq, generatorVars, responseVars, databaseVars>>

RunnerNext ==
  \/ ChainStarts
  \/ ModelStarts
  \/ ModelStreams
  \/ \E S \in SUBSET RunIds : ModelCallsTools(S)
  \/ \E r \in RunIds : ToolStarts(r)
  \/ \E r \in RunIds, out \in Outcomes : ToolAnswers(r, out)
  \/ \E r \in RunIds, out \in Outcomes : ToolQueuesApproval(r, out)
  \/ \E r \in RunIds : ToolEnds(r)
  \/ RunnerFinishes
  \/ IterationLimit
  \/ RunnerRaises
  \/ RunnerCancelled

-------------------------------------------------------------------------------
(* The generator. *)

\* The generator ends in one of the ways of Over; what is left on the queue is garbage.
EndsAs(how) ==
  /\ pc' = how
  /\ evq' = <<>>

HeadIs(kind) == evq # <<>> /\ Head(evq).event = kind

Takes == evq' = Tail(evq)

runnerButQueue == <<step, round, reply, tool>>

\* prepare_agent_context returns: with tools the executor runs, without them the model.
SetupSucceeds ==
  /\ pc = "setup"
  /\ \E hasTools \in BOOLEAN :
       /\ executor' = hasTools
       /\ pc' = IF hasTools THEN "agent" ELSE "simpleStart"
  /\ UNCHANGED <<toolCalls, userStored, fullResponse, responseVars, runnerVars, databaseVars>>

\* prepare_agent_context raises AgentSetupError.
SetupRefuses ==
  /\ pc = "setup"
  /\ Yield(sse_error)
  /\ EndsAs("returned")
  /\ UNCHANGED <<executor, toolCalls, userStored, fullResponse, runnerButQueue, databaseVars>>

\* prepare_agent_context raises anything else: nobody catches it.
SetupEscapes ==
  /\ pc = "setup"
  /\ EndsAs("escaped")
  /\ UNCHANGED <<executor, toolCalls, userStored, fullResponse, runnerButQueue,
                 responseVars, databaseVars>>

HandleChainStart ==
  /\ pc = "agent" /\ HeadIs("on_chain_start")
  /\ Yield(sse_event("on_chain_start", NoRun, FALSE, <<>>, <<>>))
  /\ Takes
  /\ UNCHANGED <<generatorVars, runnerButQueue, databaseVars>>

\* Mutant: the user_message_stored flag is never set.
Mut_FlagNotSet ==
  /\ pc = "agent" /\ HeadIs("on_chat_model_start")
  /\ IF userStored THEN UNCHANGED databaseVars ELSE persist_user_message
  /\ Yield(sse_event("on_chat_model_start", NoRun, FALSE, toolCalls, <<>>))
  /\ Takes
  /\ UNCHANGED <<generatorVars, runnerButQueue>>

HandleModelStart ==
  /\ pc = "agent" /\ HeadIs("on_chat_model_start")
  /\ IF userStored THEN UNCHANGED databaseVars ELSE persist_user_message
  /\ userStored' = TRUE
  /\ Yield(sse_event("on_chat_model_start", NoRun, FALSE, toolCalls, <<>>))
  /\ Takes
  /\ UNCHANGED <<pc, executor, toolCalls, fullResponse, runnerButQueue>>

HandleToken ==
  /\ pc = "agent" /\ HeadIs("on_chat_model_stream")
  /\ Yield(sse_event("on_chat_model_stream", NoRun, TRUE, <<>>, Head(evq).text))
  /\ Takes
  /\ UNCHANGED <<generatorVars, runnerButQueue, databaseVars>>

HandleToolStart ==
  /\ pc = "agent" /\ HeadIs("on_tool_start")
  /\ Yield(sse_event("on_tool_start", Head(evq).run, TRUE, <<>>, <<>>))
  /\ Takes
  /\ UNCHANGED <<generatorVars, runnerButQueue, databaseVars>>

\* Mutant: a rejected output is appended too.
Mut_RejectedAppended ==
  /\ pc = "agent" /\ HeadIs("on_tool_end") /\ Head(evq).out # "approval"
  /\ toolCalls' = Append(toolCalls, Head(evq).run)
  /\ Yield(sse_event("on_tool_end", Head(evq).run, Head(evq).out = "result", <<>>, <<>>))
  /\ Takes
  /\ UNCHANGED <<pc, executor, userStored, fullResponse, runnerButQueue, databaseVars>>

\* Mutant: on_tool_end is sent without its run id.
Mut_RunIdMissing ==
  /\ pc = "agent" /\ HeadIs("on_tool_end") /\ Head(evq).out # "approval"
  /\ LET formatted == Head(evq).out = "result"
     IN  /\ toolCalls' = IF formatted THEN Append(toolCalls, Head(evq).run) ELSE toolCalls
         /\ Yield(sse_event("on_tool_end", NoRun, formatted, <<>>, <<>>))
  /\ Takes
  /\ UNCHANGED <<pc, executor, userStored, fullResponse, runnerButQueue, databaseVars>>

\* format_tool_call accepts the output (out = "result") or returns None.
HandleToolEnd ==
  /\ pc = "agent" /\ HeadIs("on_tool_end") /\ Head(evq).out # "approval"
  /\ LET formatted == Head(evq).out = "result"
     IN  /\ toolCalls' = IF formatted THEN Append(toolCalls, Head(evq).run) ELSE toolCalls
         /\ Yield(sse_event("on_tool_end", Head(evq).run, formatted, <<>>, <<>>))
  /\ Takes
  /\ UNCHANGED <<pc, executor, userStored, fullResponse, runnerButQueue, databaseVars>>

\* The approval sentinel: two yields, the client may leave between them.
HandleApproval ==
  /\ pc = "agent" /\ HeadIs("on_tool_end") /\ Head(evq).out = "approval"
  /\ Yield(sse_event("tool_approval_required", Head(evq).run, TRUE, <<>>, <<>>))
  /\ pc' = "hitl"
  /\ UNCHANGED <<executor, toolCalls, userStored, fullResponse, runnerVars, databaseVars>>

\* Mutant: the sentinel is formatted like an ordinary output.
Mut_SentinelFormatted ==
  /\ pc = "hitl"
  /\ Yield(sse_event("on_tool_end", Head(evq).run, TRUE, <<>>, <<>>))
  /\ pc' = "agent"
  /\ Takes
  /\ UNCHANGED <<executor, toolCalls, userStored, fullResponse, runnerButQueue, databaseVars>>

HandleApprovalEnd ==
  /\ pc = "hitl"
  /\ Yield(sse_event("on_tool_end", Head(evq).run, FALSE, <<>>, <<>>))
  /\ pc' = "agent"
  /\ Takes
  /\ UNCHANGED <<executor, toolCalls, userStored, fullResponse, runnerButQueue, databaseVars>>

HandleChainEnd ==
  /\ pc = "agent" /\ HeadIs("on_chain_end")
  /\ persist_ai_message(toolCalls, Head(evq).text)
  /\ Yield(sse_event("on_chain_end", NoRun, TRUE, toolCalls, Head(evq).text))
  /\ EndsAs("returned")
  /\ UNCHANGED <<executor, toolCalls, userStored, fullResponse, runnerButQueue>>

\* Mutant: the exception is logged and the stream just closed.
Mut_RaiseLogged ==
  /\ pc = "agent" /\ HeadIs("error")
  /\ EndsAs("returned")
  /\ UNCHANGED <<executor, toolCalls, userStored, fullResponse, runnerButQueue,
                 responseVars, databaseVars>>

\* Mutant: the exception is logged and the next event awaited.
Mut_RaiseAwaits ==
  /\ pc = "agent" /\ HeadIs("error")
  /\ Takes
  /\ UNCHANGED <<generatorVars, runnerButQueue, responseVars, databaseVars>>

\* The exception surfaces once the events before it are consumed.
HandleRaise ==
  /\ pc = "agent" /\ HeadIs("error")
  /\ Yield(sse_error)
  /\ EndsAs("returned")
  /\ UNCHANGED <<executor, toolCalls, userStored, fullResponse, runnerButQueue, databaseVars>>

\* Mutant: the except clause is inside the loop over the events.
Mut_FormattingRaises ==
  /\ pc = "agent" /\ HeadIs("on_tool_end") /\ Head(evq).out # "approval"
  /\ Yield(sse_error)
  /\ Takes
  /\ UNCHANGED <<generatorVars, runnerButQueue, databaseVars>>

\* format_tool_call itself raises (a top_k that is no integer): the generator's
\* except clause reports it while the runner goes on.
FormattingRaises ==
  /\ pc = "agent" /\ HeadIs("on_tool_end") /\ Head(evq).out # "approval"
  /\ Yield(sse_error)
  /\ EndsAs("returned")
  /\ UNCHANGED <<executor, toolCalls, userStored, fullResponse, runnerButQueue, databaseVars>>

\* _stream_simple_chat: the user message is stored before the model is called.
SimpleStart ==
  /\ pc = "simpleStart"
  /\ persist_user_message
  /\ Yield(sse_event("on_chat_model_start", NoRun, FALSE, <<>>, <<>>))
  /\ pc' = "simple"
  /\ step' = "model"
  /\ round' = 1
  /\ UNCHANGED <<executor, toolCalls, userStored, fullResponse, reply, tool, evq>>

SimpleToken ==
  /\ pc = "simple" /\ HeadIs("on_chat_model_stream")
  /\ fullResponse' = fullResponse \o Head(evq).text
  /\ Yield(sse_event("on_chat_model_stream", NoRun, TRUE, <<>>, Head(evq).text))
  /\ Takes
  /\ UNCHANGED <<pc, executor, toolCalls, userStored, runnerButQueue, databaseVars>>

\* Mutant: what was streamed before the exception is stored as the answer.
Mut_PartialStored ==
  /\ pc = "simple" /\ HeadIs("error")
  /\ persist_ai_message(<<>>, fullResponse)
  /\ Yield(sse_error)
  /\ EndsAs("returned")
  /\ UNCHANGED <<executor, toolCalls, userStored, fullResponse, runnerButQueue>>

SimpleRaise ==
  /\ pc = "simple" /\ HeadIs("error")
  /\ Yield(sse_error)
  /\ EndsAs("returned")
  /\ UNCHANGED <<executor, toolCalls, userStored, fullResponse, runnerButQueue, databaseVars>>

\* An empty reply is announced but not stored.
SimpleEnd ==
  /\ pc = "simple" /\ HeadIs("eof")
  /\ IF fullResponse # <<>> THEN persist_ai_message(<<>>, fullResponse)
                            ELSE UNCHANGED databaseVars
  /\ Yield(sse_event("on_chain_end", NoRun, TRUE, <<>>, fullResponse))
  /\ EndsAs("returned")
  /\ UNCHANGED <<executor, toolCalls, userStored, fullResponse, runnerButQueue>>

GeneratorNext ==
  \/ SetupSucceeds
  \/ SetupRefuses
  \/ SetupEscapes
  \/ HandleChainStart
  \/ HandleModelStart
  \/ HandleToken
  \/ HandleToolStart
  \/ HandleToolEnd
  \/ HandleApproval
  \/ HandleApprovalEnd
  \/ HandleChainEnd
  \/ HandleRaise
  \/ FormattingRaises
  \/ SimpleStart
  \/ SimpleToken
  \/ SimpleRaise
  \/ SimpleEnd

-------------------------------------------------------------------------------
(* The client and the instance. *)

ClientLeaves ==
  /\ conn = "open"
  /\ conn' = "gone"
  /\ UNCHANGED <<generatorVars, sent, runnerVars, databaseVars>>

\* The server notices at the generator's next await or yield; a handler that was
\* already running has written what it writes.
GeneratorCancelled ==
  /\ conn = "gone"
  /\ pc \notin Over
  /\ EndsAs("cancelled")
  /\ UNCHANGED <<executor, toolCalls, userStored, fullResponse, runnerButQueue,
                 responseVars, databaseVars>>

\* The instance is stopped.  A crash between a commit and its yield is the
\* client leaving, the handler's step, and this one.
InstanceStops ==
  /\ pc \notin Over
  /\ conn' = "gone"
  /\ EndsAs("cancelled")
  /\ step' = "stopped"
  /\ UNCHANGED <<sent, executor, toolCalls, userStored, fullResponse, round, reply, tool,
                 databaseVars>>

Next ==
  \/ RunnerNext
  \/ GeneratorNext
  \/ ClientLeaves
  \/ GeneratorCancelled
  \/ InstanceStops

Spec == Init /\ [][Next]_vars

\* The event loop runs whatever is runnable, and the provider, the tools and the
\* client libraries answer or time out.  Clients need not leave.
Fairness ==
  /\ WF_vars(RunnerNext)
  /\ WF_vars(GeneratorNext)
  /\ WF_vars(GeneratorCancelled)

FairSpec == Spec /\ Fairness

-------------------------------------------------------------------------------
(* Properties. *)

TypeOK ==
  /\ pc \in Pcs
  /\ executor \in BOOLEAN
  /\ toolCalls \in Seq(RunIds)
  /\ userStored \in BOOLEAN
  /\ fullResponse \in Texts
  /\ conn \in {"open", "gone"}
  /\ sent \in Seq(SseEvents)
  /\ step \in Steps
  /\ round \in 0 .. MaxRounds
  /\ reply \in Texts
  /\ tool \in [RunIds -> ToolStates]
  /\ evq \in Seq(RunnerEvents)
  /\ messages \in Seq(MessageRows)
  /\ approvals \in SUBSET RunIds
  /\ lost \in SUBSET {"human", "ai"}

Terminal == {"on_chain_end", "error"}

Sent(kind) == {i \in DOMAIN sent : sent[i].event = kind}

Runs(kind) == {sent[i].run : i \in Sent(kind)}

AnswerRows == {i \in DOMAIN messages : messages[i].role = "ai"}

\* The runs of the data-bearing on_tool_end events the client received, in order.
ShownCalls ==
  LET shown == Kept({i \in Sent("on_tool_end") : sent[i].data}, Len(sent))
  IN  [k \in DOMAIN shown |-> sent[shown[k]].run]

TerminalIsLast ==
  \A i \in DOMAIN sent :
    sent[i].event \in Terminal => i = Len(sent) /\ pc = "returned"

ReturnsWithTerminal ==
  pc = "returned" /\ conn = "open" =>
    sent # <<>> /\ sent[Len(sent)].event \in Terminal

\* A stream ends with its terminal event and only with it: nothing follows an
\* on_chain_end or an error on any path, however far the runner is ahead, and the
\* generator never returns to a connected client without one.
StreamsEndWithTerminal == TerminalIsLast /\ ReturnsWithTerminal

\* An announced approval is already committed when the client learns of it, and
\* the very next event is the data-less on_tool_end of the same run.
ApprovalsAnnouncedWhole ==
  \A i \in Sent("tool_approval_required") :
    /\ sent[i].run \in approvals
    /\ i < Len(sent) =>
         /\ sent[i + 1].event = "on_tool_end"
         /\ sent[i + 1].run = sent[i].run
         /\ ~sent[i + 1].data

\* However many model rounds a turn has, and wherever it stops, it leaves at most
\* one question and one answer, the question first; an answer stands alone only
\* when storing the question failed.
OneQuestionOneAnswer ==
  /\ \A i, j \in DOMAIN messages :
       i < j => messages[i].role = "human" /\ messages[j].role = "ai"
  /\ AnswerRows # {} =>
       "human" \in lost \/ (\E i \in DOMAIN messages : messages[i].role = "human")

\* A success the client sees is durable: the stored answer has the text and the
\* tool calls of the event, unless its commit failed or there was nothing to store.
SuccessIsDurable ==
  \A i \in Sent("on_chain_end") :
    \/ \E j \in AnswerRows :
         messages[j].calls = sent[i].calls /\ messages[j].text = sent[i].text
    \/ "ai" \in lost
    \/ ~executor /\ sent[i].text = <<>>

\* The transcript replays what a client that stayed was shown: the stored tool
\* calls are those of the on_tool_end events with data, in their order.
ReplayMatchesStream ==
  conn = "open" => \A j \in AnswerRows : messages[j].calls = ShownCalls

\* A turn that ended in an error event stored no answer.
ErrorMeansNoAnswer == Sent("error") # {} => AnswerRows = {}

\* The end a client saw is the end the transcript has, however far the answer, its row
\* and its event were apart.
OutcomeIsStored == SuccessIsDurable /\ ErrorMeansNoAnswer

\* Once the client saw success, the turn writes nothing more: no message, no approval.
\* Once it saw an error, although the runner may go on and tools of the round are in
\* flight, no message is written, and no approval for a run whose end it was shown.
EndIsFinal ==
  [][/\ Sent("on_chain_end") # {} => UNCHANGED databaseVars
     /\ Sent("error") # {} =>
          /\ UNCHANGED <<messages, lost>>
          /\ approvals' \cap Runs("on_tool_end") \subseteq approvals]_vars

\* Every stream comes to an end.
StreamEnds == <>(pc \in Over)

-------------------------------------------------------------------------------
(* The stream a client sees implements StreamContract. *)

LastEvent == IF sent = <<>> THEN "none" ELSE sent[Len(sent)].event

Contract == INSTANCE StreamContract WITH
  phase <- IF LastEvent = "on_chain_end" THEN "succeeded"
           ELSE IF LastEvent = "error" THEN "failed"
           ELSE IF conn = "gone" \/ pc \in Over THEN "cut"
           ELSE "open",
  begun <- Runs("on_tool_start"),
  ended <- Runs("on_tool_end"),
  owed  <- IF LastEvent = "tool_approval_required" THEN sent[Len(sent)].run ELSE NoRun

\* Every step of the turn is a step of the client's contract or invisible to it.
ContractSpec == Contract!Spec

-------------------------------------------------------------------------------
(* What a turn stores implements TurnRecord. *)

Stage ==
  IF pc \in Over THEN "over"
  ELSE IF userStored \/ pc = "simple" THEN "asked" ELSE "waiting"

RowsOfTurn == {[role |-> messages[i].role, at |-> i] : i \in DOMAIN messages}

Record == INSTANCE TurnRecord WITH stage <- Stage, rows <- RowsOfTurn

\* Whatever path a turn takes and wherever it stops, its rows are those of one turn of
\* a conversation.
RecordSpec == Record!Spec

-------------------------------------------------------------------------------
(* What the documents say and the code does not do. *)

\* docs/AGENT_API.md:184: on_chain_end carries the complete toolCalls of the run.
CompleteToolCalls ==
  \A i \in Sent("on_chain_end") : \A j \in Sent("on_tool_end") :
    \E n \in DOMAIN sent[i].calls : sent[i].calls[n] = sent[j].run

\* hitl_email_base.py:42: a tool that reports a queuing failure queued nothing.
ReportedFailureQueuedNothing ==
  \A i \in Sent("on_tool_end") : sent[i].data => sent[i].run \notin approvals
===============================================================================
