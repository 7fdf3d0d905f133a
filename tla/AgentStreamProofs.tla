--------------------------- MODULE AgentStreamProofs --------------------------
(***************************************************************************)
(* Proofs about AgentStream, for every set of tool runs, every iteration   *)
(* limit and every number of chunks: what a turn stores and when its       *)
(* stream ends; that the stream implements StreamContract and announces    *)
(* approvals whole; and that the stored tool calls are the shown ones.     *)
(***************************************************************************)
EXTENDS AgentStream, KeptPlacesProofs, SequenceTheorems, TLAPS

-------------------------------------------------------------------------------
(* Sequences that grow by one element or lose their head. *)

LEMMA AppendIndexed ==
  ASSUME NEW S, NEW s \in Seq(S), NEW e \in S
  PROVE  /\ Append(s, e) \in Seq(S)
         /\ Len(Append(s, e)) = Len(s) + 1
         /\ DOMAIN Append(s, e) = 1 .. Len(s) + 1
         /\ Append(s, e)[Len(s) + 1] = e
         /\ \A i \in 1 .. Len(s) : Append(s, e)[i] = s[i]
  OBVIOUS

LEMMA TailIndexed ==
  ASSUME NEW S, NEW s \in Seq(S), s # <<>>
  PROVE  /\ Head(s) = s[1]
         /\ Head(s) \in S
         /\ 1 \in DOMAIN s
         /\ Tail(s) \in Seq(S)
         /\ DOMAIN Tail(s) = 1 .. Len(s) - 1
         /\ \A i \in DOMAIN Tail(s) : i + 1 \in DOMAIN s /\ Tail(s)[i] = s[i + 1]
  BY HeadTailProperties

\* A yield hands the event to an open connection and to no other.
LEMMA YieldTyped ==
  ASSUME sent \in Seq(SseEvents), NEW e \in SseEvents, Yield(e)
  PROVE  /\ sent' \in Seq(SseEvents)
         /\ conn' = conn
         /\ \/ sent' = sent
            \/ sent' = Append(sent, e)
  BY DEF Yield

\* The events the generator builds are events of the vocabulary.
LEMMA SseEventTyped ==
  ASSUME NEW k \in Kinds, NEW r \in RunIds \cup {NoRun}, NEW d \in BOOLEAN,
         NEW c \in Seq(RunIds), NEW t \in Texts
  PROVE  sse_event(k, r, d, c, t) \in SseEvents
  BY DEF sse_event, SseEvents

LEMMA RunnerEventTyped ==
  ASSUME NEW k \in Kinds \cup {"eof"}, NEW r \in RunIds \cup {NoRun},
         NEW o \in Outcomes, NEW t \in Texts
  PROVE  /\ RunnerEvent(k, r, o, t) \in RunnerEvents
         /\ RunnerEvent(k, r, o, t).event = k
         /\ RunnerEvent(k, r, o, t).run = r
         /\ RunnerEvent(k, r, o, t).text = t
         /\ RunnerEvent(k, r, o, t).out = o
  BY DEF RunnerEvent, RunnerEvents

LEMMA TextsTyped ==
  /\ <<>> \in Texts
  /\ StoppedText \in Texts
  /\ \A n \in 0 .. MaxRounds : <<n>> \in Texts
  BY StreamAssumption DEF Texts, StoppedText

-------------------------------------------------------------------------------
(* Type correctness. *)

\* The end of a tool is always the end of some run, and a generator between the
\* two yields of an approval still has that event at the head of the queue.
QueueOK ==
  /\ \A i \in DOMAIN evq : evq[i].event = "on_tool_end" => evq[i].run \in RunIds
  /\ pc = "hitl" => evq # <<>> /\ evq[1].event = "on_tool_end"

TypeInv == TypeOK /\ QueueOK

LEMMA TypeInit == Init => TypeInv
  <1> SUFFICES ASSUME Init PROVE TypeInv
    OBVIOUS
  <1>a. tool \in [RunIds -> ToolStates]
    BY DEF Init, ToolStates
  <1>b. pc \in Pcs /\ step \in Steps /\ round \in 0 .. MaxRounds
    BY StreamAssumption DEF Init, Pcs, Steps
  <1>c. /\ toolCalls \in Seq(RunIds) /\ sent \in Seq(SseEvents)
        /\ evq \in Seq(RunnerEvents) /\ messages \in Seq(MessageRows)
    BY DEF Init
  <1>1. TypeOK
    BY <1>a, <1>b, <1>c, TextsTyped DEF Init, TypeOK
  <1>2. QueueOK
    BY DEF Init, QueueOK
  <1> QED
    BY <1>1, <1>2 DEF TypeInv

\* What the runner's emission does to the queue.
LEMMA EmitTyped ==
  ASSUME TypeInv, NEW e \in RunnerEvents, Emit(e), pc' = pc,
         e.event = "on_tool_end" => e.run \in RunIds
  PROVE  evq' \in Seq(RunnerEvents) /\ QueueOK'
  <1>1. CASE evq' = evq
    BY <1>1 DEF TypeInv, TypeOK, QueueOK
  <1>2. CASE evq' = Append(evq, e)
    <2>1. evq \in Seq(RunnerEvents)
      BY DEF TypeInv, TypeOK
    <2>2. /\ evq' \in Seq(RunnerEvents)
          /\ DOMAIN evq' = 1 .. Len(evq) + 1
          /\ evq'[Len(evq) + 1] = e
          /\ \A i \in 1 .. Len(evq) : evq'[i] = evq[i]
      BY <1>2, <2>1, AppendIndexed
    <2>3. \A i \in DOMAIN evq' : evq'[i].event = "on_tool_end" => evq'[i].run \in RunIds
      BY <2>1, <2>2 DEF TypeInv, QueueOK
    <2>4. pc' = "hitl" => evq' # <<>> /\ evq'[1].event = "on_tool_end"
      BY <2>1, <2>2 DEF TypeInv, QueueOK
    <2> QED
      BY <2>2, <2>3, <2>4 DEF QueueOK
  <1> QED
    BY <1>1, <1>2 DEF Emit

\* What the generator's taking the head of the queue does to it.
LEMMA TakesTyped ==
  ASSUME TypeInv, evq # <<>>, Takes, pc' # "hitl"
  PROVE  evq' \in Seq(RunnerEvents) /\ QueueOK'
  <1>1. evq \in Seq(RunnerEvents)
    BY DEF TypeInv, TypeOK
  <1>2. /\ evq' \in Seq(RunnerEvents)
        /\ \A i \in DOMAIN evq' : i + 1 \in DOMAIN evq /\ evq'[i] = evq[i + 1]
    BY <1>1, TailIndexed DEF Takes
  <1> QED
    BY <1>2 DEF TypeInv, QueueOK

\* Every step of the runner keeps the types.
LEMMA RunnerTypeStep == ASSUME TypeInv, RunnerNext PROVE TypeInv'
  <1>q. ASSUME UNCHANGED <<pc, evq>> PROVE QueueOK'
    BY <1>q DEF TypeInv, QueueOK
  <1>t. /\ step \in Steps /\ round \in 0 .. MaxRounds /\ MaxRounds \in Nat
        /\ tool \in [RunIds -> ToolStates] /\ reply \in Texts /\ <<round>> \in Texts
    BY StreamAssumption, TextsTyped DEF TypeInv, TypeOK
  <1>1. CASE ChainStarts
    <2>1. evq' \in Seq(RunnerEvents) /\ QueueOK'
      BY <1>1, EmitTyped, RunnerEventTyped, TextsTyped
      DEF ChainStarts, Kinds, Outcomes, generatorVars
    <2> QED
      BY <1>1, <2>1 DEF ChainStarts, TypeInv, TypeOK, Steps, generatorVars, responseVars,
         databaseVars
  <1>2. CASE ModelStarts
    <2>1. evq' \in Seq(RunnerEvents) /\ QueueOK'
      BY <1>2, EmitTyped, RunnerEventTyped, TextsTyped
      DEF ModelStarts, Kinds, Outcomes, generatorVars
    <2> QED
      BY <1>2, <1>t, <2>1, TextsTyped DEF ModelStarts, TypeInv, TypeOK, Steps, generatorVars,
         responseVars, databaseVars
  <1>3. CASE ModelStreams
    <2> DEFINE e == RunnerEvent("on_chat_model_stream", NoRun, "result", <<round>>)
    <2>e. e \in RunnerEvents /\ e.event # "on_tool_end"
      BY <1>t DEF RunnerEvent, RunnerEvents, Kinds, Outcomes
    <2>1. evq' \in Seq(RunnerEvents) /\ QueueOK'
      BY <1>3, <2>e, EmitTyped DEF ModelStreams, generatorVars
    <2>2. reply' \in Texts
      BY <1>3, <1>t, AppendIndexed DEF ModelStreams, Texts
    <2> QED
      BY <1>3, <2>1, <2>2 DEF ModelStreams, TypeInv, TypeOK, generatorVars, responseVars,
         databaseVars
  <1>4. ASSUME NEW S \in SUBSET RunIds, ModelCallsTools(S) PROVE TypeInv'
    <2>1. tool' \in [RunIds -> ToolStates]
      BY <1>4, <1>t DEF ModelCallsTools, ToolStates
    <2> QED
      BY <1>4, <1>q, <2>1 DEF ModelCallsTools, TypeInv, TypeOK, Steps, generatorVars,
         responseVars, databaseVars
  <1>5. ASSUME NEW r \in RunIds, ToolStarts(r) PROVE TypeInv'
    <2>1. evq' \in Seq(RunnerEvents) /\ QueueOK'
      BY <1>5, EmitTyped, RunnerEventTyped, TextsTyped
      DEF ToolStarts, Kinds, Outcomes, generatorVars
    <2>2. tool' \in [RunIds -> ToolStates]
      BY <1>5, <1>t DEF ToolStarts, ToolStates
    <2> QED
      BY <1>5, <2>1, <2>2 DEF ToolStarts, TypeInv, TypeOK, generatorVars, responseVars,
         databaseVars
  <1>6. ASSUME NEW r \in RunIds, NEW out \in Outcomes,
               ToolAnswers(r, out) \/ ToolQueuesApproval(r, out)
        PROVE  TypeInv'
    <2>1. tool' \in [RunIds -> ToolStates]
      BY <1>6, <1>t DEF ToolAnswers, ToolQueuesApproval, ToolStates
    <2>2. approvals' \in SUBSET RunIds
      BY <1>6 DEF ToolAnswers, ToolQueuesApproval, TypeInv, TypeOK, databaseVars
    <2> QED
      BY <1>6, <1>q, <2>1, <2>2 DEF ToolAnswers, ToolQueuesApproval, TypeInv, TypeOK,
         generatorVars, responseVars, databaseVars
  <1>7. ASSUME NEW r \in RunIds, ToolEnds(r) PROVE TypeInv'
    <2>1. evq' \in Seq(RunnerEvents) /\ QueueOK'
      BY <1>7, EmitTyped, RunnerEventTyped, TextsTyped DEF ToolEnds, Kinds, generatorVars
    <2>2. tool' \in [RunIds -> ToolStates]
      BY <1>7, <1>t DEF ToolEnds, ToolStates
    <2> QED
      BY <1>7, <2>1, <2>2 DEF ToolEnds, TypeInv, TypeOK, Steps, generatorVars, responseVars,
         databaseVars
  <1>8. CASE RunnerFinishes
    <2> DEFINE e == RunnerEvent(IF executor THEN "on_chain_end" ELSE "eof", NoRun, "result", reply)
    <2>e. e \in RunnerEvents /\ e.event # "on_tool_end"
      BY <1>t DEF RunnerEvent, RunnerEvents, Kinds, Outcomes
    <2>1. evq' \in Seq(RunnerEvents) /\ QueueOK'
      BY <1>8, <2>e, EmitTyped DEF RunnerFinishes, generatorVars
    <2> QED
      BY <1>8, <2>1 DEF RunnerFinishes, TypeInv, TypeOK, Steps, generatorVars, responseVars,
         databaseVars
  <1>9. CASE IterationLimit
    <2> DEFINE e == RunnerEvent("on_chain_end", NoRun, "result", StoppedText)
    <2>e. e \in RunnerEvents /\ e.event # "on_tool_end"
      BY TextsTyped DEF RunnerEvent, RunnerEvents, Kinds, Outcomes
    <2>1. evq' \in Seq(RunnerEvents) /\ QueueOK'
      BY <1>9, <2>e, EmitTyped DEF IterationLimit, generatorVars
    <2> QED
      BY <1>9, <2>1 DEF IterationLimit, TypeInv, TypeOK, Steps, generatorVars, responseVars,
         databaseVars
  <1>10. CASE RunnerRaises
    <2>1. evq' \in Seq(RunnerEvents) /\ QueueOK'
      BY <1>10, EmitTyped, RunnerEventTyped, TextsTyped
      DEF RunnerRaises, Kinds, Outcomes, generatorVars
    <2> QED
      BY <1>10, <2>1 DEF RunnerRaises, TypeInv, TypeOK, Steps, generatorVars, responseVars,
         databaseVars
  <1>11. CASE RunnerCancelled
    BY <1>11, <1>q DEF RunnerCancelled, TypeInv, TypeOK, Steps, generatorVars, responseVars,
       databaseVars
  <1> QED
    BY <1>1, <1>2, <1>3, <1>4, <1>5, <1>6, <1>7, <1>8, <1>9, <1>10, <1>11 DEF RunnerNext

-------------------------------------------------------------------------------
(* The generator keeps the types. *)

LEMMA StoreTyped ==
  ASSUME TypeOK, NEW role \in {"human", "ai"}, NEW c \in Seq(RunIds), NEW t \in Texts,
         StoreCommits(role, c, t) \/ StoreFails(role)
  PROVE  /\ messages' \in Seq(MessageRows)
         /\ lost' \in SUBSET {"human", "ai"}
         /\ approvals' = approvals
  <1>1. [role |-> role, calls |-> c, text |-> t] \in MessageRows
    BY DEF MessageRows
  <1>2. CASE StoreCommits(role, c, t)
    <2>1. messages \in Seq(MessageRows)
      BY DEF TypeOK
    <2>2. messages' \in Seq(MessageRows)
      BY <1>1, <1>2, <2>1, AppendIndexed DEF StoreCommits
    <2> QED
      BY <1>2, <2>2 DEF StoreCommits, TypeOK
  <1>3. CASE StoreFails(role)
    BY <1>3 DEF StoreFails, TypeOK
  <1> QED
    BY <1>2, <1>3

\* What the head of a queue is made of.
LEMMA HeadTyped ==
  ASSUME TypeInv, evq # <<>>
  PROVE  /\ Head(evq) = evq[1]
         /\ Head(evq).run \in RunIds \cup {NoRun}
         /\ Head(evq).out \in Outcomes
         /\ Head(evq).text \in Texts
         /\ Head(evq).event = "on_tool_end" => Head(evq).run \in RunIds
  <1>0. evq \in Seq(RunnerEvents)
    BY DEF TypeInv, TypeOK
  <1>1. 1 \in DOMAIN evq /\ Head(evq) = evq[1]
    BY <1>0, TailIndexed
  <1>2. evq[1] \in RunnerEvents
    BY <1>0, <1>1
  <1> QED
    BY <1>1, <1>2 DEF RunnerEvents, TypeInv, QueueOK

\* A generator that ends leaves an empty queue.
LEMMA EndsTyped ==
  ASSUME NEW how \in Over, EndsAs(how)
  PROVE  pc' \in Pcs /\ evq' \in Seq(RunnerEvents) /\ QueueOK'
  BY DEF EndsAs, Over, Pcs, QueueOK

LEMMA GeneratorTypeStep == ASSUME TypeInv, GeneratorNext PROVE TypeInv'
  <1>t. /\ toolCalls \in Seq(RunIds) /\ fullResponse \in Texts /\ <<>> \in Seq(RunIds)
        /\ <<>> \in Texts /\ evq \in Seq(RunnerEvents)
    BY TextsTyped DEF TypeInv, TypeOK
  <1>e. sse_error \in SseEvents
    BY <1>t, SseEventTyped DEF sse_error, Kinds
  <1>1. CASE SetupSucceeds
    BY <1>1 DEF SetupSucceeds, TypeInv, TypeOK, QueueOK, Pcs, responseVars, runnerVars,
       databaseVars
  <1>2. CASE SetupRefuses
    BY <1>2, <1>e, YieldTyped, EndsTyped DEF SetupRefuses, TypeInv, TypeOK, Over,
       runnerButQueue, databaseVars
  <1>3. CASE SetupEscapes
    BY <1>3, EndsTyped DEF SetupEscapes, TypeInv, TypeOK, Over, runnerButQueue, responseVars,
       databaseVars
  <1>4. CASE HandleChainStart
    <2>1. sse_event("on_chain_start", NoRun, FALSE, <<>>, <<>>) \in SseEvents
      BY <1>t, SseEventTyped DEF Kinds
    <2>2. sent' \in Seq(SseEvents) /\ conn' = conn
      BY <1>4, <2>1, YieldTyped DEF HandleChainStart, TypeInv, TypeOK
    <2>3. evq' \in Seq(RunnerEvents) /\ QueueOK'
      BY <1>4, TakesTyped DEF HandleChainStart, HeadIs, generatorVars, TypeInv, QueueOK
    <2> QED
      BY <1>4, <2>2, <2>3 DEF HandleChainStart, TypeInv, TypeOK, runnerButQueue,
         generatorVars, databaseVars
  <1>5. CASE HandleModelStart
    <2>1. sse_event("on_chat_model_start", NoRun, FALSE, toolCalls, <<>>) \in SseEvents
      BY <1>t, SseEventTyped DEF Kinds
    <2>2. sent' \in Seq(SseEvents) /\ conn' = conn
      BY <1>5, <2>1, YieldTyped DEF HandleModelStart, TypeInv, TypeOK
    <2>3. evq' \in Seq(RunnerEvents) /\ QueueOK'
      BY <1>5, TakesTyped DEF HandleModelStart, HeadIs, generatorVars, TypeInv, QueueOK
    <2>4. /\ messages' \in Seq(MessageRows) /\ lost' \in SUBSET {"human", "ai"}
          /\ approvals' \in SUBSET RunIds
      BY <1>5, <1>t, StoreTyped DEF HandleModelStart, persist_user_message, TypeInv,
         TypeOK, databaseVars
    <2> QED
      BY <1>5, <2>2, <2>3, <2>4 DEF HandleModelStart, TypeInv, TypeOK, runnerButQueue,
         generatorVars, databaseVars
  <1>6. CASE HandleToken
    <2>1. sse_event("on_chat_model_stream", NoRun, TRUE, <<>>, Head(evq).text) \in SseEvents
      BY <1>6, HeadTyped, <1>t, SseEventTyped DEF Kinds, HandleToken, HeadIs
    <2>2. sent' \in Seq(SseEvents) /\ conn' = conn
      BY <1>6, <2>1, YieldTyped DEF HandleToken, TypeInv, TypeOK
    <2>3. evq' \in Seq(RunnerEvents) /\ QueueOK'
      BY <1>6, TakesTyped DEF HandleToken, HeadIs, generatorVars, TypeInv, QueueOK
    <2> QED
      BY <1>6, <2>2, <2>3 DEF HandleToken, TypeInv, TypeOK, runnerButQueue, generatorVars,
         databaseVars
  <1>7. CASE HandleToolStart
    <2>1. sse_event("on_tool_start", Head(evq).run, TRUE, <<>>, <<>>) \in SseEvents
      BY <1>7, HeadTyped, <1>t, SseEventTyped DEF Kinds, HandleToolStart, HeadIs
    <2>2. sent' \in Seq(SseEvents) /\ conn' = conn
      BY <1>7, <2>1, YieldTyped DEF HandleToolStart, TypeInv, TypeOK
    <2>3. evq' \in Seq(RunnerEvents) /\ QueueOK'
      BY <1>7, TakesTyped DEF HandleToolStart, HeadIs, generatorVars, TypeInv, QueueOK
    <2> QED
      BY <1>7, <2>2, <2>3 DEF HandleToolStart, TypeInv, TypeOK, runnerButQueue,
         generatorVars, databaseVars
  <1>8. CASE HandleToolEnd
    <2>1. sse_event("on_tool_end", Head(evq).run, Head(evq).out = "result", <<>>, <<>>) \in SseEvents
      BY <1>8, HeadTyped, <1>t, SseEventTyped DEF Kinds, HandleToolEnd, HeadIs
    <2>2. sent' \in Seq(SseEvents) /\ conn' = conn
      BY <1>8, <2>1, YieldTyped DEF HandleToolEnd, TypeInv, TypeOK
    <2>3. evq' \in Seq(RunnerEvents) /\ QueueOK'
      BY <1>8, TakesTyped DEF HandleToolEnd, HeadIs, generatorVars, TypeInv, QueueOK
    <2>4. toolCalls' \in Seq(RunIds)
      BY <1>8, <1>t, HeadTyped, AppendIndexed DEF HandleToolEnd, HeadIs
    <2> QED
      BY <1>8, <2>2, <2>3, <2>4 DEF HandleToolEnd, TypeInv, TypeOK, runnerButQueue,
         generatorVars, databaseVars
  <1>9. CASE HandleApproval
    <2>1. sse_event("tool_approval_required", Head(evq).run, TRUE, <<>>, <<>>) \in SseEvents
      BY <1>9, HeadTyped, <1>t, SseEventTyped DEF Kinds, HandleApproval, HeadIs
    <2>2. sent' \in Seq(SseEvents) /\ conn' = conn
      BY <1>9, <2>1, YieldTyped DEF HandleApproval, TypeInv, TypeOK
    <2>3. QueueOK'
      BY <1>9, HeadTyped DEF HandleApproval, HeadIs, TypeInv, QueueOK, runnerVars
    <2> QED
      BY <1>9, <2>2, <2>3 DEF HandleApproval, TypeInv, TypeOK, Pcs, runnerVars,
         runnerButQueue, databaseVars
  <1>10. CASE HandleApprovalEnd
    <2>1. sse_event("on_tool_end", Head(evq).run, FALSE, <<>>, <<>>) \in SseEvents
      BY <1>10, HeadTyped, <1>t, SseEventTyped DEF Kinds, HandleApprovalEnd, TypeInv, QueueOK
    <2>2. sent' \in Seq(SseEvents) /\ conn' = conn
      BY <1>10, <2>1, YieldTyped DEF HandleApprovalEnd, TypeInv, TypeOK
    <2>3. evq' \in Seq(RunnerEvents) /\ QueueOK'
      BY <1>10, TakesTyped DEF HandleApprovalEnd, HeadIs, generatorVars, TypeInv, QueueOK
    <2> QED
      BY <1>10, <2>2, <2>3 DEF HandleApprovalEnd, TypeInv, TypeOK, Pcs, runnerButQueue,
         databaseVars
  <1>11. CASE HandleChainEnd
    <2>1. sse_event("on_chain_end", NoRun, TRUE, toolCalls, Head(evq).text) \in SseEvents
      BY <1>11, HeadTyped, <1>t, SseEventTyped DEF Kinds, HandleChainEnd, HeadIs
    <2>2. sent' \in Seq(SseEvents) /\ conn' = conn
      BY <1>11, <2>1, YieldTyped DEF HandleChainEnd, TypeInv, TypeOK
    <2>3. pc' \in Pcs /\ evq' \in Seq(RunnerEvents) /\ QueueOK'
      BY <1>11, EndsTyped DEF HandleChainEnd, Over
    <2>4. /\ messages' \in Seq(MessageRows) /\ lost' \in SUBSET {"human", "ai"}
          /\ approvals' \in SUBSET RunIds
      BY <1>11, <1>t, HeadTyped, StoreTyped DEF HandleChainEnd, HeadIs, persist_ai_message,
         TypeInv, TypeOK, databaseVars
    <2> QED
      BY <1>11, <2>2, <2>3, <2>4 DEF HandleChainEnd, TypeInv, TypeOK, runnerButQueue,
         generatorVars, databaseVars
  <1>12. CASE HandleRaise
    <2>2. sent' \in Seq(SseEvents) /\ conn' = conn
      BY <1>12, <1>e, YieldTyped DEF HandleRaise, TypeInv, TypeOK
    <2>3. pc' \in Pcs /\ evq' \in Seq(RunnerEvents) /\ QueueOK'
      BY <1>12, EndsTyped DEF HandleRaise, Over
    <2> QED
      BY <1>12, <2>2, <2>3 DEF HandleRaise, TypeInv, TypeOK, runnerButQueue, generatorVars,
         databaseVars
  <1>13. CASE FormattingRaises
    <2>2. sent' \in Seq(SseEvents) /\ conn' = conn
      BY <1>13, <1>e, YieldTyped DEF FormattingRaises, TypeInv, TypeOK
    <2>3. pc' \in Pcs /\ evq' \in Seq(RunnerEvents) /\ QueueOK'
      BY <1>13, EndsTyped DEF FormattingRaises, Over
    <2> QED
      BY <1>13, <2>2, <2>3 DEF FormattingRaises, TypeInv, TypeOK, runnerButQueue,
         generatorVars, databaseVars
  <1>14. CASE SimpleStart
    <2>1. sse_event("on_chat_model_start", NoRun, FALSE, <<>>, <<>>) \in SseEvents
      BY <1>t, SseEventTyped DEF Kinds
    <2>2. sent' \in Seq(SseEvents) /\ conn' = conn
      BY <1>14, <2>1, YieldTyped DEF SimpleStart, TypeInv, TypeOK
    <2>3. QueueOK' /\ round' \in 0 .. MaxRounds
      BY <1>14, StreamAssumption DEF SimpleStart, TypeInv, QueueOK
    <2>4. /\ messages' \in Seq(MessageRows) /\ lost' \in SUBSET {"human", "ai"}
          /\ approvals' \in SUBSET RunIds
      BY <1>14, <1>t, StoreTyped DEF SimpleStart, persist_user_message, TypeInv, TypeOK,
         databaseVars
    <2> QED
      BY <1>14, <2>2, <2>3, <2>4 DEF SimpleStart, TypeInv, TypeOK, Pcs, Steps,
         runnerButQueue, databaseVars
  <1>15. CASE SimpleToken
    <2>1. sse_event("on_chat_model_stream", NoRun, TRUE, <<>>, Head(evq).text) \in SseEvents
      BY <1>15, HeadTyped, <1>t, SseEventTyped DEF Kinds, SimpleToken, HeadIs
    <2>2. sent' \in Seq(SseEvents) /\ conn' = conn
      BY <1>15, <2>1, YieldTyped DEF SimpleToken, TypeInv, TypeOK
    <2>3. evq' \in Seq(RunnerEvents) /\ QueueOK'
      BY <1>15, TakesTyped DEF SimpleToken, HeadIs, generatorVars, TypeInv, QueueOK
    <2>4. fullResponse' \in Texts
      BY <1>15, <1>t, HeadTyped, ConcatProperties DEF SimpleToken, HeadIs, Texts
    <2> QED
      BY <1>15, <2>2, <2>3, <2>4 DEF SimpleToken, TypeInv, TypeOK, runnerButQueue,
         generatorVars, databaseVars
  <1>16. CASE SimpleRaise
    <2>2. sent' \in Seq(SseEvents) /\ conn' = conn
      BY <1>16, <1>e, YieldTyped DEF SimpleRaise, TypeInv, TypeOK
    <2>3. pc' \in Pcs /\ evq' \in Seq(RunnerEvents) /\ QueueOK'
      BY <1>16, EndsTyped DEF SimpleRaise, Over
    <2> QED
      BY <1>16, <2>2, <2>3 DEF SimpleRaise, TypeInv, TypeOK, runnerButQueue, generatorVars,
         databaseVars
  <1>17. CASE SimpleEnd
    <2>1. sse_event("on_chain_end", NoRun, TRUE, <<>>, fullResponse) \in SseEvents
      BY <1>t, SseEventTyped DEF Kinds
    <2>2. sent' \in Seq(SseEvents) /\ conn' = conn
      BY <1>17, <2>1, YieldTyped DEF SimpleEnd, TypeInv, TypeOK
    <2>3. pc' \in Pcs /\ evq' \in Seq(RunnerEvents) /\ QueueOK'
      BY <1>17, EndsTyped DEF SimpleEnd, Over
    <2>4. /\ messages' \in Seq(MessageRows) /\ lost' \in SUBSET {"human", "ai"}
          /\ approvals' \in SUBSET RunIds
      BY <1>17, <1>t, StoreTyped DEF SimpleEnd, persist_ai_message, TypeInv, TypeOK,
         databaseVars
    <2> QED
      BY <1>17, <2>2, <2>3, <2>4 DEF SimpleEnd, TypeInv, TypeOK, runnerButQueue,
         generatorVars, databaseVars
  <1> QED
    BY <1>1, <1>2, <1>3, <1>4, <1>5, <1>6, <1>7, <1>8, <1>9, <1>10, <1>11, <1>12, <1>13,
       <1>14, <1>15, <1>16, <1>17 DEF GeneratorNext

LEMMA TypeStep == TypeInv /\ [Next]_vars => TypeInv'
  <1> SUFFICES ASSUME TypeInv, [Next]_vars PROVE TypeInv'
    OBVIOUS
  <1>1. CASE RunnerNext
    BY <1>1, RunnerTypeStep
  <1>2. CASE GeneratorNext
    BY <1>2, GeneratorTypeStep
  <1>3. CASE ClientLeaves
    BY <1>3 DEF ClientLeaves, TypeInv, TypeOK, QueueOK, generatorVars, runnerVars,
         databaseVars
  <1>4. CASE GeneratorCancelled
    BY <1>4, EndsTyped DEF GeneratorCancelled, TypeInv, TypeOK, Over, runnerButQueue,
       responseVars, databaseVars
  <1>5. CASE InstanceStops
    BY <1>5, EndsTyped DEF InstanceStops, TypeInv, TypeOK, Over, Steps, databaseVars
  <1>6. CASE UNCHANGED vars
    BY <1>6 DEF vars, TypeInv, TypeOK, QueueOK, generatorVars, responseVars, runnerVars,
       databaseVars
  <1> QED
    BY <1>1, <1>2, <1>3, <1>4, <1>5, <1>6 DEF Next

LEMMA TypeInvariant == Spec => []TypeInv
  BY TypeInit, TypeStep, PTL DEF Spec

\* Every variable keeps its type, whatever the number of tools and rounds.
THEOREM TypeCorrect == Spec => []TypeOK
  <1>1. TypeInv => TypeOK
    BY DEF TypeInv
  <1> QED
    BY <1>1, TypeInvariant, PTL

-------------------------------------------------------------------------------
(* The inductive invariant behind the safety theorems. *)

\* Before the first model call nothing has run and nothing is queued.
SetupIdle ==
  pc \in {"setup", "simpleStart"} =>
    evq = <<>> /\ step = "idle" /\ round = 0 /\ ~userStored

\* The simple path is taken by agents without tools only.
SimplePath == pc \in {"simpleStart", "simple"} => ~executor

\* While the generator runs, the turn wrote at most its question, and wrote it or
\* failed to as soon as the first model call was seen.
QuestionFirst ==
  pc \notin Over =>
    /\ messages = <<>> \/ (Len(messages) = 1 /\ messages[1].role = "human")
    /\ messages # <<>> => userStored \/ pc = "simple"
    /\ userStored \/ pc = "simple" => messages # <<>> \/ "human" \in lost

\* The question was stored, or the event that stores it precedes the answer.
ModelFirst ==
  pc \in {"agent", "hitl"} =>
    /\ \A j \in DOMAIN evq : evq[j].event = "on_chain_end" =>
         userStored \/ \E i \in 1 .. j - 1 : evq[i].event = "on_chat_model_start"
    /\ round > 0 => userStored \/ \E i \in DOMAIN evq : evq[i].event = "on_chat_model_start"
    /\ step = "model" => round > 0

\* The runner emits its last event when it has nothing left to do.
FinishedLast ==
  /\ \A j \in DOMAIN evq : evq[j].event \in {"on_chain_end", "eof"} => step = "finished"
  /\ Sent("on_chain_end") # {} => step = "finished"

SafetyInv ==
  /\ TypeInv
  /\ SetupIdle
  /\ SimplePath
  /\ TerminalIsLast
  /\ ReturnsWithTerminal
  /\ QuestionFirst
  /\ ModelFirst
  /\ FinishedLast
  /\ ErrorMeansNoAnswer
  /\ OneQuestionOneAnswer
  /\ SuccessIsDurable

LEMMA SafetyInit == Init => SafetyInv
  <1> SUFFICES ASSUME Init PROVE SafetyInv
    OBVIOUS
  <1>1. DOMAIN sent = {} /\ DOMAIN evq = {} /\ DOMAIN messages = {}
    BY DEF Init
  <1>2. SetupIdle /\ SimplePath /\ TerminalIsLast /\ ReturnsWithTerminal
    BY <1>1 DEF Init, SetupIdle, SimplePath, TerminalIsLast, ReturnsWithTerminal
  <1>3. QuestionFirst /\ ModelFirst /\ FinishedLast
    BY <1>1 DEF Init, QuestionFirst, ModelFirst, FinishedLast, Sent, Over
  <1>4. ErrorMeansNoAnswer /\ OneQuestionOneAnswer /\ SuccessIsDurable
    BY <1>1 DEF ErrorMeansNoAnswer, OneQuestionOneAnswer, SuccessIsDurable, Sent, AnswerRows
  <1> QED
    BY <1>2, <1>3, <1>4, TypeInit DEF SafetyInv

\* The response grows by e and is otherwise as before.
Shows(e) ==
  /\ Len(sent') = Len(sent) + 1
  /\ DOMAIN sent' = 1 .. Len(sent) + 1
  /\ sent'[Len(sent) + 1] = e
  /\ \A i \in 1 .. Len(sent) : sent'[i] = sent[i]

\* A yield shows its event to a client that is there.
LEMMA YieldShows ==
  ASSUME TypeInv, NEW e, Yield(e)
  PROVE  /\ conn' = conn
         /\ conn = "open" => Shows(e)
         /\ conn # "open" => sent' = sent
  <1>1. sent \in Seq(SseEvents \cup {e})
    BY SeqMonotonic DEF TypeInv, TypeOK
  <1> QED
    BY <1>1, AppendIndexed DEF Yield, Shows

\* The steps that touch neither the transcript nor the flag that guards it: they
\* show no success, and a generator that is over stays over.
Bystander ==
  /\ UNCHANGED <<messages, lost, userStored>>
  /\ executor' = executor \/ pc = "setup"
  /\ pc' = pc \/ (pc \notin Over /\ pc' # "simple")
  /\ pc = "simple" => pc' \in {"simple"} \cup Over
  /\ \/ sent' = sent
     \/ /\ pc \notin Over
        /\ \E e : /\ Shows(e)
                  /\ e.event # "on_chain_end"
                  /\ e.event = "error" => pc' = "returned"
  /\ conn' = "open" => conn = "open"
  /\ pc' = "returned" /\ pc # "returned" /\ conn' = "open" =>
       \E e : Shows(e) /\ e.event = "error"

Writers == HandleModelStart \/ SimpleStart \/ HandleChainEnd \/ SimpleEnd

LEMMA RunnerIsBystander ==
  ASSUME TypeInv, RunnerNext
  PROVE  Bystander /\ UNCHANGED <<pc, executor, sent>>
  <1>1. UNCHANGED <<generatorVars, responseVars, messages, lost>>
    BY DEF RunnerNext, ChainStarts, ModelStarts, ModelStreams, ModelCallsTools, ToolStarts,
       ToolAnswers, ToolQueuesApproval, ToolEnds, RunnerFinishes, IterationLimit, RunnerRaises,
       RunnerCancelled, databaseVars
  <1> QED
    BY <1>1 DEF Bystander, generatorVars, responseVars

LEMMA GeneratorIsBystander ==
  ASSUME TypeInv, GeneratorNext
  PROVE  Bystander \/ Writers
  <1>e. sse_error.event = "error"
    BY DEF sse_error, sse_event
  <1>1. CASE SetupSucceeds
    BY <1>1 DEF SetupSucceeds, Bystander, Over, responseVars, databaseVars
  <1>2. CASE SetupRefuses
    BY <1>2, <1>e, YieldShows DEF SetupRefuses, Bystander, EndsAs, Over, databaseVars
  <1>3. CASE SetupEscapes
    BY <1>3 DEF SetupEscapes, Bystander, EndsAs, Over, responseVars, databaseVars
  <1>4. CASE HandleChainStart
    <2>1. sse_event("on_chain_start", NoRun, FALSE, <<>>, <<>>).event \notin {"on_chain_end", "error"}
      BY DEF sse_event
    <2> QED
      BY <1>4, <2>1, YieldShows DEF HandleChainStart, Bystander, HeadIs, Over, generatorVars, databaseVars
  <1>5. CASE HandleToken
    <2>1. sse_event("on_chat_model_stream", NoRun, TRUE, <<>>, Head(evq).text).event \notin {"on_chain_end", "error"}
      BY DEF sse_event
    <2> QED
      BY <1>5, <2>1, YieldShows DEF HandleToken, Bystander, HeadIs, Over, generatorVars, databaseVars
  <1>6. CASE HandleToolStart
    <2>1. sse_event("on_tool_start", Head(evq).run, TRUE, <<>>, <<>>).event \notin {"on_chain_end", "error"}
      BY DEF sse_event
    <2> QED
      BY <1>6, <2>1, YieldShows DEF HandleToolStart, Bystander, HeadIs, Over, generatorVars, databaseVars
  <1>7. CASE HandleToolEnd
    <2>1. sse_event("on_tool_end", Head(evq).run, Head(evq).out = "result", <<>>, <<>>).event \notin {"on_chain_end", "error"}
      BY DEF sse_event
    <2> QED
      BY <1>7, <2>1, YieldShows DEF HandleToolEnd, Bystander, HeadIs, Over, databaseVars
  <1>8. CASE HandleApproval
    <2>1. sse_event("tool_approval_required", Head(evq).run, TRUE, <<>>, <<>>).event \notin {"on_chain_end", "error"}
      BY DEF sse_event
    <2> QED
      BY <1>8, <2>1, YieldShows DEF HandleApproval, Bystander, HeadIs, Over, databaseVars
  <1>9. CASE HandleApprovalEnd
    <2>1. sse_event("on_tool_end", Head(evq).run, FALSE, <<>>, <<>>).event \notin {"on_chain_end", "error"}
      BY DEF sse_event
    <2> QED
      BY <1>9, <2>1, YieldShows DEF HandleApprovalEnd, Bystander, HeadIs, Over, databaseVars
  <1>10. CASE HandleRaise
    BY <1>10, <1>e, YieldShows DEF HandleRaise, Bystander, EndsAs, Over, databaseVars
  <1>11. CASE FormattingRaises
    BY <1>11, <1>e, YieldShows DEF FormattingRaises, Bystander, EndsAs, Over, databaseVars
  <1>12. CASE SimpleToken
    <2>1. sse_event("on_chat_model_stream", NoRun, TRUE, <<>>, Head(evq).text).event \notin {"on_chain_end", "error"}
      BY DEF sse_event
    <2> QED
      BY <1>12, <2>1, YieldShows DEF SimpleToken, Bystander, HeadIs, Over, databaseVars
  <1>13. CASE SimpleRaise
    BY <1>13, <1>e, YieldShows DEF SimpleRaise, Bystander, EndsAs, Over, databaseVars
  <1> QED
    BY <1>1, <1>2, <1>3, <1>4, <1>5, <1>6, <1>7, <1>8, <1>9, <1>10, <1>11, <1>12, <1>13
    DEF GeneratorNext, Writers

LEMMA StepIsBystander ==
  ASSUME TypeInv, [Next]_vars
  PROVE  Bystander \/ Writers
  <1>1. CASE ClientLeaves
    BY <1>1 DEF ClientLeaves, Bystander, generatorVars, databaseVars
  <1>2. CASE GeneratorCancelled
    BY <1>2 DEF GeneratorCancelled, Bystander, EndsAs, Over, responseVars, databaseVars
  <1>3. CASE InstanceStops
    BY <1>3 DEF InstanceStops, Bystander, EndsAs, Over, databaseVars
  <1>4. CASE UNCHANGED vars
    BY <1>4 DEF vars, Bystander, generatorVars, responseVars, databaseVars
  <1> QED
    BY <1>1, <1>2, <1>3, <1>4, RunnerIsBystander, GeneratorIsBystander DEF Next

\* What the four writing steps do: two ask, two answer.
Asks ==
  /\ pc \in {"agent", "simpleStart"} /\ pc' \in {"agent", "simple"}
  /\ pc = "agent" <=> pc' = "agent"
  /\ IF pc = "agent" /\ userStored THEN UNCHANGED <<messages, lost>>
     ELSE StoreCommits("human", <<>>, <<>>) \/ StoreFails("human")
  /\ userStored' = (userStored \/ pc = "agent")
  /\ executor' = executor /\ conn' = conn
  /\ sent' = sent \/ \E e : Shows(e) /\ e.event = "on_chat_model_start"

Answers ==
  /\ pc \in {"agent", "simple"} /\ pc' = "returned"
  /\ UNCHANGED <<userStored, executor, conn>>
  /\ \E c \in Seq(RunIds), t \in Texts :
       /\ IF pc = "simple" /\ t = <<>> THEN UNCHANGED <<messages, lost>>
          ELSE StoreCommits("ai", c, t) \/ StoreFails("ai")
       /\ conn # "open" => sent' = sent
       /\ conn = "open" =>
            \E e : Shows(e) /\ e.event = "on_chain_end" /\ e.calls = c /\ e.text = t

LEMMA WritersAskOrAnswer ==
  ASSUME TypeInv, Writers
  PROVE  Asks \/ Answers
  <1>1. CASE HandleModelStart
    <2>1. sse_event("on_chat_model_start", NoRun, FALSE, toolCalls, <<>>).event
            = "on_chat_model_start"
      BY DEF sse_event
    <2> QED
      BY <1>1, <2>1, YieldShows DEF HandleModelStart, Asks, persist_user_message, databaseVars,
         TypeInv, TypeOK
  <1>2. CASE SimpleStart
    <2>1. sse_event("on_chat_model_start", NoRun, FALSE, <<>>, <<>>).event
            = "on_chat_model_start"
      BY DEF sse_event
    <2> QED
      BY <1>2, <2>1, YieldShows DEF SimpleStart, Asks, persist_user_message, TypeInv, TypeOK
  <1>3. CASE HandleChainEnd
    <2> DEFINE e == sse_event("on_chain_end", NoRun, TRUE, toolCalls, Head(evq).text)
    <2>1. e.event = "on_chain_end" /\ e.calls = toolCalls /\ e.text = Head(evq).text
      BY DEF sse_event
    <2>2. toolCalls \in Seq(RunIds) /\ Head(evq).text \in Texts
      BY <1>3, HeadTyped DEF HandleChainEnd, HeadIs, TypeInv, TypeOK
    <2>3. Yield(e) /\ pc = "agent" /\ pc' = "returned" /\ UNCHANGED <<userStored, executor>>
      BY <1>3 DEF HandleChainEnd, EndsAs
    <2>4. StoreCommits("ai", toolCalls, Head(evq).text) \/ StoreFails("ai")
      BY <1>3 DEF HandleChainEnd, persist_ai_message
    <2>5. UNCHANGED conn /\ (conn = "open" => Shows(e)) /\ (conn # "open" => sent' = sent)
      BY <2>3, YieldShows
    <2> HIDE DEF e
    <2> QED
      BY <2>1, <2>2, <2>3, <2>4, <2>5 DEF Answers
  <1>4. CASE SimpleEnd
    <2> DEFINE e == sse_event("on_chain_end", NoRun, TRUE, <<>>, fullResponse)
    <2>1. e.event = "on_chain_end" /\ e.calls = <<>> /\ e.text = fullResponse
      BY DEF sse_event
    <2>2. <<>> \in Seq(RunIds) /\ fullResponse \in Texts
      BY DEF TypeInv, TypeOK
    <2>3. Yield(e) /\ pc = "simple" /\ pc' = "returned" /\ UNCHANGED <<userStored, executor>>
      BY <1>4 DEF SimpleEnd, EndsAs
    <2>4. IF fullResponse = <<>> THEN UNCHANGED <<messages, lost>>
          ELSE StoreCommits("ai", <<>>, fullResponse) \/ StoreFails("ai")
      BY <1>4 DEF SimpleEnd, persist_ai_message, databaseVars
    <2>5. UNCHANGED conn /\ (conn = "open" => Shows(e)) /\ (conn # "open" => sent' = sent)
      BY <2>3, YieldShows
    <2> HIDE DEF e
    <2> QED
      BY <2>1, <2>2, <2>3, <2>4, <2>5 DEF Answers
  <1> QED
    BY <1>1, <1>2, <1>3, <1>4 DEF Writers

-------------------------------------------------------------------------------
(* Each part of the invariant is kept by every step. *)

LEMMA SetupIdleStep ==
  ASSUME SafetyInv, [Next]_vars
  PROVE  SetupIdle'
  <1> USE DEF SafetyInv, SetupIdle, Over
  <1>1. CASE RunnerNext
    BY <1>1 DEF RunnerNext, ChainStarts, ModelStarts, ModelStreams, ModelCallsTools,
       ToolStarts, ToolAnswers, ToolQueuesApproval, ToolEnds, RunnerFinishes, IterationLimit,
       RunnerRaises, RunnerCancelled, generatorVars
  <1>2. CASE GeneratorNext
    BY <1>2 DEF GeneratorNext, SetupSucceeds, SetupRefuses, SetupEscapes, HandleChainStart,
       HandleModelStart, HandleToken, HandleToolStart, HandleToolEnd, HandleApproval,
       HandleApprovalEnd, HandleChainEnd, HandleRaise, FormattingRaises, SimpleStart,
       SimpleToken, SimpleRaise, SimpleEnd, EndsAs, generatorVars, runnerVars
  <1>3. CASE ClientLeaves \/ GeneratorCancelled \/ InstanceStops \/ UNCHANGED vars
    BY <1>3 DEF ClientLeaves, GeneratorCancelled, InstanceStops, EndsAs, vars, generatorVars,
       runnerVars
  <1> QED
    BY <1>1, <1>2, <1>3 DEF Next

LEMMA SimplePathStep ==
  ASSUME SafetyInv, [Next]_vars
  PROVE  SimplePath'
  <1>a. TypeInv /\ SimplePath
    BY DEF SafetyInv
  <1>1. CASE SetupSucceeds
    BY <1>1 DEF SetupSucceeds, SimplePath
  <1>2. CASE Writers
    BY <1>2, <1>a, WritersAskOrAnswer DEF Asks, Answers, SimplePath
  <1>3. CASE RunnerNext
    BY <1>3, <1>a, RunnerIsBystander DEF SimplePath
  <1>4. CASE GeneratorNext /\ ~SetupSucceeds /\ ~Writers
    BY <1>4, <1>a DEF GeneratorNext, SetupRefuses, SetupEscapes, HandleChainStart,
       HandleToken, HandleToolStart, HandleToolEnd, HandleApproval, HandleApprovalEnd,
       HandleRaise, FormattingRaises, SimpleToken, SimpleRaise, EndsAs, generatorVars,
       SimplePath, Writers
  <1>5. CASE ClientLeaves \/ GeneratorCancelled \/ InstanceStops \/ UNCHANGED vars
    BY <1>5, <1>a DEF ClientLeaves, GeneratorCancelled, InstanceStops, EndsAs, vars,
       generatorVars, SimplePath
  <1> QED
    BY <1>1, <1>2, <1>3, <1>4, <1>5 DEF Next

\* Nothing terminal was sent while the generator runs.
LEMMA NothingTerminalYet ==
  ASSUME TerminalIsLast, pc # "returned"
  PROVE  /\ \A i \in DOMAIN sent : sent[i].event \notin Terminal
         /\ Sent("on_chain_end") = {} /\ Sent("error") = {}
  BY DEF TerminalIsLast, Sent, Terminal

LEMMA TerminalStep ==
  ASSUME SafetyInv, [Next]_vars
  PROVE  TerminalIsLast' /\ ReturnsWithTerminal'
  <1>a. /\ TypeInv /\ TerminalIsLast /\ ReturnsWithTerminal
        /\ sent \in Seq(SseEvents) /\ DOMAIN sent = 1 .. Len(sent) /\ Len(sent) \in Nat
    BY DEF SafetyInv, TypeInv, TypeOK
  <1>b. ASSUME NEW e, Shows(e), pc # "returned", e.event \in Terminal => pc' = "returned"
        PROVE  TerminalIsLast' /\ sent' # <<>> /\ sent'[Len(sent')] = e
    BY <1>a, <1>b, NothingTerminalYet DEF TerminalIsLast, Shows
  <1>c. ASSUME sent' = sent, pc' = pc PROVE TerminalIsLast'
    BY <1>a, <1>c DEF TerminalIsLast
  <1>d. ASSUME sent' = sent, pc # "returned" PROVE TerminalIsLast'
    BY <1>a, <1>d, NothingTerminalYet DEF TerminalIsLast
  <1>1. CASE Bystander
    <2>1. TerminalIsLast'
      BY <1>1, <1>b, <1>c, <1>d DEF Bystander, Over, Terminal
    <2>2. CASE pc' = "returned" /\ pc # "returned" /\ conn' = "open"
      <3>1. PICK e : Shows(e) /\ e.event = "error"
        BY <1>1, <2>2 DEF Bystander
      <3>2. sent' # <<>> /\ sent'[Len(sent')] = e
        BY <2>2, <3>1, <1>b
      <3> QED
        BY <2>1, <3>1, <3>2 DEF ReturnsWithTerminal, Terminal
    <2>3. CASE pc = "returned"
      <3>1. sent' = sent /\ (conn' = "open" => conn = "open")
        BY <1>1, <2>3 DEF Bystander, Over
      <3> QED
        BY <2>1, <2>3, <3>1, <1>a DEF ReturnsWithTerminal
    <2> QED
      BY <2>1, <2>2, <2>3 DEF ReturnsWithTerminal
  <1>2. CASE Asks
    BY <1>2, <1>b, <1>d DEF Asks, ReturnsWithTerminal, Terminal
  <1>3. CASE Answers
    <2>1. CASE conn # "open"
      BY <1>3, <2>1, <1>d DEF Answers, ReturnsWithTerminal
    <2>2. CASE conn = "open"
      <3>1. PICK e : Shows(e) /\ e.event = "on_chain_end"
        BY <1>3, <2>2 DEF Answers
      <3> QED
        BY <1>3, <3>1, <1>b DEF Answers, ReturnsWithTerminal, Terminal
    <2> QED
      BY <2>1, <2>2
  <1> QED
    BY <1>1, <1>2, <1>3, <1>a, StepIsBystander, WritersAskOrAnswer

LEMMA QuestionFirstStep ==
  ASSUME SafetyInv, [Next]_vars
  PROVE  QuestionFirst'
  <1>a. TypeInv /\ SetupIdle /\ QuestionFirst /\ messages \in Seq(MessageRows)
    BY DEF SafetyInv, TypeInv, TypeOK
  <1>1. CASE Bystander
    BY <1>1, <1>a DEF Bystander, QuestionFirst, Over
  <1>2. CASE Asks
    <2>1. CASE pc = "agent" /\ userStored
      BY <1>2, <2>1, <1>a DEF Asks, QuestionFirst, Over
    <2>2. CASE ~(pc = "agent" /\ userStored)
      <3>1. messages = <<>>
        BY <1>2, <2>2, <1>a DEF Asks, QuestionFirst, SetupIdle, Over
      <3>2. CASE StoreCommits("human", <<>>, <<>>)
        <4>1. messages' = <<[role |-> "human", calls |-> <<>>, text |-> <<>>]>>
          BY <3>1, <3>2 DEF StoreCommits
        <4>2. Len(messages') = 1 /\ messages'[1].role = "human" /\ messages' # <<>>
          BY <4>1
        <4>3. userStored' \/ pc' = "simple"
          BY <1>2 DEF Asks
        <4> QED
          BY <4>2, <4>3 DEF QuestionFirst
      <3>3. CASE StoreFails("human")
        BY <1>2, <2>2, <3>1, <3>3 DEF StoreFails, Asks, QuestionFirst
      <3> QED
        BY <1>2, <2>2, <3>2, <3>3 DEF Asks
    <2> QED
      BY <2>1, <2>2
  <1>3. CASE Answers
    BY <1>3 DEF Answers, QuestionFirst, Over
  <1> QED
    BY <1>1, <1>2, <1>3, <1>a, StepIsBystander, WritersAskOrAnswer

\* The queue grows by e and is otherwise as before.
Queues(e) ==
  /\ Len(evq') = Len(evq) + 1
  /\ DOMAIN evq' = 1 .. Len(evq) + 1
  /\ evq'[Len(evq) + 1] = e
  /\ \A i \in 1 .. Len(evq) : evq'[i] = evq[i]

LEMMA EmitQueues ==
  ASSUME TypeInv, NEW e, Emit(e)
  PROVE  evq' = evq \/ Queues(e)
  <1>1. evq \in Seq(RunnerEvents \cup {e})
    BY SeqMonotonic DEF TypeInv, TypeOK
  <1> QED
    BY <1>1, AppendIndexed DEF Emit, Queues

\* What a runner step does to the queue: the last event comes with the last step,
\* an answer comes after a model call, and a call is announced when it is counted.
RunnerEffect ==
  /\ step = "finished" => step' = "finished" /\ evq' = evq
  /\ step' = "model" => (step = "model" /\ round' = round) \/ round' = round + 1
  /\ \/ evq' = evq /\ (round' = round \/ pc \in Over)
     \/ \E e : /\ Queues(e)
               /\ e.event \in {"on_chain_end", "eof"} => step' = "finished"
               /\ e.event = "on_chain_end" => round > 0 \/ step = "model"
               /\ e.event = "on_chat_model_start" \/ round' = round

LEMMA RunnerHasEffect ==
  ASSUME TypeInv, RunnerNext
  PROVE  RunnerEffect
  <1>e. ASSUME NEW k, NEW r, NEW o, NEW t
        PROVE  RunnerEvent(k, r, o, t).event = k
    BY DEF RunnerEvent
  <1>1. CASE ChainStarts
    BY <1>1, <1>e, EmitQueues DEF ChainStarts, RunnerEffect
  <1>2. CASE ModelStarts
    <2> DEFINE e == RunnerEvent("on_chat_model_start", NoRun, "result", <<>>)
    <2>1. e.event = "on_chat_model_start" /\ Emit(e)
      BY <1>2, <1>e DEF ModelStarts
    <2>2. (evq' = evq /\ pc \in Over) \/ Queues(e)
      BY <2>1, EmitQueues DEF Emit
    <2> HIDE DEF e
    <2> QED
      BY <1>2, <2>1, <2>2 DEF ModelStarts, RunnerEffect
  <1>3. CASE ModelStreams
    BY <1>3, <1>e, EmitQueues DEF ModelStreams, RunnerEffect
  <1>4. CASE \E S \in SUBSET RunIds : ModelCallsTools(S)
    BY <1>4 DEF ModelCallsTools, RunnerEffect
  <1>5. CASE \E r \in RunIds : ToolStarts(r)
    BY <1>5, <1>e, EmitQueues DEF ToolStarts, RunnerEffect
  <1>6. CASE \E r \in RunIds, out \in Outcomes :
               ToolAnswers(r, out) \/ ToolQueuesApproval(r, out)
    BY <1>6 DEF ToolAnswers, ToolQueuesApproval, RunnerEffect
  <1>7. CASE \E r \in RunIds : ToolEnds(r)
    BY <1>7, <1>e, EmitQueues DEF ToolEnds, RunnerEffect
  <1>8. CASE RunnerFinishes
    BY <1>8, <1>e, EmitQueues DEF RunnerFinishes, RunnerEffect
  <1>9. CASE IterationLimit
    <2>1. round > 0
      BY <1>9, StreamAssumption DEF IterationLimit
    <2> QED
      BY <1>9, <2>1, <1>e, EmitQueues DEF IterationLimit, RunnerEffect
  <1>10. CASE RunnerRaises
    BY <1>10, <1>e, EmitQueues DEF RunnerRaises, RunnerEffect
  <1>11. CASE RunnerCancelled
    BY <1>11 DEF RunnerCancelled, RunnerEffect
  <1> QED
    BY <1>1, <1>2, <1>3, <1>4, <1>5, <1>6, <1>7, <1>8, <1>9, <1>10, <1>11 DEF RunnerNext

\* Taking an event that announces no model call loses no announcement.
LEMMA TakenModelFirst ==
  ASSUME TypeInv, ModelFirst, pc \in {"agent", "hitl"}, evq # <<>>, Takes,
         evq[1].event # "on_chat_model_start", UNCHANGED <<userStored, round, step>>
  PROVE  ModelFirst'
  <1>1. /\ evq \in Seq(RunnerEvents) /\ DOMAIN evq = 1 .. Len(evq) /\ Len(evq) \in Nat
        /\ DOMAIN evq' = 1 .. Len(evq) - 1
        /\ \A i \in DOMAIN evq' : evq'[i] = evq[i + 1]
    BY TailIndexed DEF TypeInv, TypeOK, Takes
  <1>2. ASSUME NEW j \in DOMAIN evq', evq'[j].event = "on_chain_end", ~userStored
        PROVE  \E i \in 1 .. j - 1 : evq'[i].event = "on_chat_model_start"
    <2>1. j + 1 \in DOMAIN evq /\ evq[j + 1].event = "on_chain_end"
      BY <1>1, <1>2
    <2>2. PICK i \in 1 .. j : evq[i].event = "on_chat_model_start"
      BY <1>1, <1>2, <2>1 DEF ModelFirst
    <2>3. i # 1 /\ i - 1 \in 1 .. j - 1 /\ i - 1 \in DOMAIN evq' /\ evq'[i - 1] = evq[i]
      BY <1>1, <2>2
    <2> QED
      BY <2>2, <2>3
  <1>3. ASSUME round > 0, ~userStored
        PROVE  \E i \in DOMAIN evq' : evq'[i].event = "on_chat_model_start"
    <2>1. PICK i \in DOMAIN evq : evq[i].event = "on_chat_model_start"
      BY <1>3 DEF ModelFirst
    <2>2. i # 1 /\ i - 1 \in DOMAIN evq' /\ evq'[i - 1] = evq[i]
      BY <1>1, <2>1
    <2> QED
      BY <2>1, <2>2
  <1> QED
    BY <1>2, <1>3 DEF ModelFirst

LEMMA ModelFirstStep ==
  ASSUME SafetyInv, [Next]_vars
  PROVE  ModelFirst'
  <1>a. /\ TypeInv /\ ModelFirst /\ SetupIdle /\ round \in Nat
        /\ DOMAIN evq = 1 .. Len(evq) /\ Len(evq) \in Nat
    BY DEF SafetyInv, TypeInv, TypeOK
  <1>1. CASE RunnerNext
    <2>1. RunnerEffect /\ UNCHANGED <<pc, userStored>>
      BY <1>1, <1>a, RunnerHasEffect, RunnerIsBystander DEF Bystander
    <2>2. CASE evq' = evq /\ (round' = round \/ pc \in Over)
      BY <2>1, <2>2, <1>a DEF RunnerEffect, ModelFirst, Over
    <2>3. ASSUME NEW e, Queues(e), pc \in {"agent", "hitl"},
                 e.event = "on_chain_end" => round > 0 \/ step = "model",
                 e.event = "on_chat_model_start" \/ round' = round
          PROVE  ModelFirst'
      <3>1. \A j \in DOMAIN evq' : evq'[j].event = "on_chain_end" =>
              userStored' \/ \E i \in 1 .. j - 1 : evq'[i].event = "on_chat_model_start"
        BY <1>a, <2>1, <2>3 DEF Queues, ModelFirst
      <3>2. round' > 0 =>
              userStored' \/ \E i \in DOMAIN evq' : evq'[i].event = "on_chat_model_start"
        BY <1>a, <2>1, <2>3 DEF Queues, ModelFirst
      <3>3. step' = "model" => round' > 0
        BY <1>a, <2>1, <2>3 DEF RunnerEffect, ModelFirst
      <3> QED
        BY <3>1, <3>2, <3>3 DEF ModelFirst
    <2> QED
      BY <2>1, <2>2, <2>3 DEF RunnerEffect, ModelFirst
  <1>2. CASE SetupSucceeds
    <2>1. DOMAIN evq' = {} /\ round' = 0 /\ step' = "idle"
      BY <1>2, <1>a DEF SetupSucceeds, SetupIdle, runnerVars
    <2> QED
      BY <2>1 DEF ModelFirst
  <1>3. CASE HandleModelStart
    BY <1>3, <1>a DEF HandleModelStart, ModelFirst, runnerButQueue
  <1>4. CASE HandleChainStart \/ HandleToken \/ HandleToolStart \/ HandleToolEnd
    <2>1. /\ pc = "agent" /\ evq # <<>> /\ Takes /\ UNCHANGED <<userStored, round, step>>
          /\ Head(evq).event # "on_chat_model_start"
      BY <1>4 DEF HandleChainStart, HandleToken, HandleToolStart, HandleToolEnd, HeadIs,
         generatorVars, runnerButQueue
    <2> QED
      BY <1>a, <2>1, HeadTyped, TakenModelFirst
  <1>5. CASE HandleApproval
    BY <1>5, <1>a DEF HandleApproval, ModelFirst, runnerVars
  <1>6. CASE HandleApprovalEnd
    <2>1. /\ pc = "hitl" /\ evq # <<>> /\ Takes /\ UNCHANGED <<userStored, round, step>>
          /\ evq[1].event # "on_chat_model_start"
      BY <1>6, <1>a DEF HandleApprovalEnd, runnerButQueue, TypeInv, QueueOK
    <2> QED
      BY <1>a, <2>1, TakenModelFirst
  <1>7. CASE \/ SetupRefuses \/ SetupEscapes \/ HandleChainEnd \/ HandleRaise
             \/ FormattingRaises \/ SimpleStart \/ SimpleToken \/ SimpleRaise \/ SimpleEnd
             \/ GeneratorCancelled \/ InstanceStops
    <2>1. pc' \in {"returned", "escaped", "cancelled", "simple"}
      BY <1>7 DEF SetupRefuses, SetupEscapes, HandleChainEnd, HandleRaise, FormattingRaises,
         SimpleStart, SimpleToken, SimpleRaise, SimpleEnd, GeneratorCancelled, InstanceStops,
         EndsAs
    <2> QED
      BY <2>1 DEF ModelFirst
  <1>8. CASE ClientLeaves \/ UNCHANGED vars
    BY <1>8, <1>a DEF ClientLeaves, vars, ModelFirst, generatorVars, runnerVars
  <1> QED
    BY <1>1, <1>2, <1>3, <1>4, <1>5, <1>6, <1>7, <1>8 DEF Next, GeneratorNext

LEMMA FinishedLastStep ==
  ASSUME SafetyInv, [Next]_vars
  PROVE  FinishedLast'
  <1>a. /\ TypeInv /\ FinishedLast /\ SetupIdle /\ TerminalIsLast /\ QueueOK
        /\ DOMAIN evq = 1 .. Len(evq) /\ Len(evq) \in Nat /\ evq \in Seq(RunnerEvents)
        /\ DOMAIN sent = 1 .. Len(sent) /\ Len(sent) \in Nat
    BY DEF SafetyInv, TypeInv, TypeOK
  <1>s. ASSUME sent' = sent \/ \E e : Shows(e) /\ e.event # "on_chain_end",
               Sent("on_chain_end")' # {}
        PROVE  Sent("on_chain_end") # {}
    BY <1>a, <1>s DEF Sent, Shows
  <1>q. ASSUME Takes, evq # <<>>, UNCHANGED step
        PROVE  \A j \in DOMAIN evq' : evq'[j].event \in {"on_chain_end", "eof"} =>
                 step' = "finished"
    BY <1>a, <1>q, TailIndexed DEF Takes, FinishedLast
  <1>1. CASE RunnerNext
    <2>1. RunnerEffect /\ sent' = sent
      BY <1>1, <1>a, RunnerHasEffect, RunnerIsBystander
    <2>2. Sent("on_chain_end")' = Sent("on_chain_end")
      BY <2>1 DEF Sent
    <2>3. CASE evq' = evq
      BY <2>1, <2>2, <2>3, <1>a DEF RunnerEffect, FinishedLast
    <2>4. ASSUME NEW e, Queues(e), step # "finished",
                 e.event \in {"on_chain_end", "eof"} => step' = "finished"
          PROVE  FinishedLast'
      BY <2>2, <2>4, <1>a DEF Queues, FinishedLast
    <2> QED
      BY <2>1, <2>3, <2>4 DEF RunnerEffect
  <1>2. CASE HandleChainStart \/ HandleToken \/ HandleToolStart \/ HandleToolEnd
             \/ HandleApprovalEnd \/ SimpleToken \/ HandleModelStart
    <2>1. Takes /\ evq # <<>> /\ UNCHANGED step
      BY <1>2, <1>a DEF HandleChainStart, HandleToken, HandleToolStart, HandleToolEnd,
         HandleApprovalEnd, SimpleToken, HandleModelStart, HeadIs, runnerButQueue, QueueOK
    <2>2. pc \notin {"returned", "escaped", "cancelled"} /\ pc' \in {"agent", "simple"}
      BY <1>2 DEF HandleChainStart, HandleToken, HandleToolStart, HandleToolEnd,
         HandleApprovalEnd, SimpleToken, HandleModelStart, generatorVars
    <2>3. Sent("on_chain_end")' = {}
      <3>1. TerminalIsLast'
        BY TerminalStep
      <3> QED
        BY <2>2, <3>1 DEF TerminalIsLast, Sent, Terminal
    <2> QED
      BY <2>1, <2>3, <1>q DEF FinishedLast
  <1>3. CASE HandleApproval \/ SetupSucceeds \/ ClientLeaves \/ UNCHANGED vars
    <2>1. UNCHANGED <<evq, step>>
      BY <1>3 DEF HandleApproval, SetupSucceeds, ClientLeaves, vars, runnerVars
    <2>2. Sent("on_chain_end")' # {} => Sent("on_chain_end") # {}
      <3>1. CASE HandleApproval
        <4>1. sse_event("tool_approval_required", Head(evq).run, TRUE, <<>>, <<>>).event
                # "on_chain_end"
          BY DEF sse_event
        <4> QED
          BY <3>1, <4>1, <1>a, <1>s, YieldShows DEF HandleApproval
      <3>2. CASE SetupSucceeds \/ ClientLeaves \/ UNCHANGED vars
        BY <3>2, <1>s DEF SetupSucceeds, ClientLeaves, vars, responseVars
      <3> QED
        BY <1>3, <3>1, <3>2
    <2> QED
      BY <2>1, <2>2, <1>a DEF FinishedLast
  <1>4. CASE HandleChainEnd \/ SimpleEnd
    <2>1. step' = step /\ evq # <<>> /\ evq[1].event \in {"on_chain_end", "eof"}
      BY <1>4, <1>a, HeadTyped DEF HandleChainEnd, SimpleEnd, HeadIs, runnerButQueue
    <2>2. 1 \in DOMAIN evq
      BY <2>1, <1>a, TailIndexed
    <2> QED
      BY <2>1, <2>2, <1>a DEF FinishedLast
  <1>5. CASE \/ SetupRefuses \/ SetupEscapes \/ HandleRaise \/ FormattingRaises
             \/ SimpleRaise \/ GeneratorCancelled \/ InstanceStops
    <2>1. evq' = <<>> /\ pc \notin Over
      BY <1>5 DEF SetupRefuses, SetupEscapes, HandleRaise, FormattingRaises, SimpleRaise,
         GeneratorCancelled, InstanceStops, HeadIs, EndsAs, Over
    <2>2. sent' = sent \/ Yield(sse_error)
      BY <1>5 DEF SetupRefuses, SetupEscapes, HandleRaise, FormattingRaises, SimpleRaise,
         GeneratorCancelled, InstanceStops, responseVars
    <2>3. sse_error.event # "on_chain_end"
      BY DEF sse_error, sse_event
    <2>4. Sent("on_chain_end")' = {}
      BY <2>1, <2>2, <2>3, <1>a, <1>s, YieldShows, NothingTerminalYet DEF Over
    <2> QED
      BY <2>1, <2>4 DEF FinishedLast
  <1>6. CASE SimpleStart
    <2>1. evq' = <<>> /\ Sent("on_chain_end")' = {}
      <3>1. TerminalIsLast' /\ pc' = "simple" /\ evq' = <<>>
        BY <1>6, <1>a, TerminalStep DEF SimpleStart, SetupIdle
      <3> QED
        BY <3>1 DEF TerminalIsLast, Sent, Terminal
    <2> QED
      BY <2>1 DEF FinishedLast
  <1> QED
    BY <1>1, <1>2, <1>3, <1>4, <1>5, <1>6 DEF Next, GeneratorNext

\* While the generator runs there is no answer yet.
LEMMA NoAnswerYet ==
  ASSUME QuestionFirst, pc \notin Over
  PROVE  AnswerRows = {}
  BY DEF QuestionFirst, AnswerRows

LEMMA ErrorStep ==
  ASSUME SafetyInv, [Next]_vars
  PROVE  ErrorMeansNoAnswer'
  <1>a. /\ TypeInv /\ ErrorMeansNoAnswer /\ QuestionFirst /\ TerminalIsLast
        /\ DOMAIN sent = 1 .. Len(sent) /\ Len(sent) \in Nat
    BY DEF SafetyInv, TypeInv, TypeOK
  <1>1. CASE Bystander
    <2>1. AnswerRows' = AnswerRows
      BY <1>1 DEF Bystander, AnswerRows
    <2>2. CASE sent' = sent
      BY <2>1, <2>2, <1>a DEF ErrorMeansNoAnswer, Sent
    <2>3. CASE pc \notin Over
      BY <2>1, <2>3, <1>a, NoAnswerYet DEF ErrorMeansNoAnswer
    <2> QED
      BY <1>1, <2>2, <2>3 DEF Bystander
  <1>2. CASE Asks
    <2>1. TerminalIsLast' /\ pc' # "returned"
      BY <1>2, TerminalStep DEF Asks
    <2> QED
      BY <2>1 DEF TerminalIsLast, ErrorMeansNoAnswer, Sent, Terminal
  <1>3. CASE Answers
    <2>1. Sent("error") = {}
      BY <1>3, <1>a, NothingTerminalYet DEF Answers
    <2>2. sent' = sent \/ \E e : Shows(e) /\ e.event = "on_chain_end"
      BY <1>3, <1>a DEF Answers
    <2>3. Sent("error")' = {}
      BY <2>1, <2>2, <1>a DEF Sent, Shows
    <2> QED
      BY <2>3 DEF ErrorMeansNoAnswer
  <1> QED
    BY <1>1, <1>2, <1>3, <1>a, StepIsBystander, WritersAskOrAnswer

LEMMA OneQuestionStep ==
  ASSUME SafetyInv, [Next]_vars
  PROVE  OneQuestionOneAnswer'
  <1>a. /\ TypeInv /\ OneQuestionOneAnswer /\ QuestionFirst /\ ModelFirst
        /\ messages \in Seq(MessageRows) /\ DOMAIN messages = 1 .. Len(messages)
        /\ Len(messages) \in Nat
    BY DEF SafetyInv, TypeInv, TypeOK
  <1>1. CASE UNCHANGED <<messages, lost>>
    BY <1>1, <1>a DEF OneQuestionOneAnswer, AnswerRows
  <1>2. CASE Asks
    <2>1. QuestionFirst' /\ pc' \notin Over
      BY <1>2, QuestionFirstStep DEF Asks, Over
    <2>2. messages' = <<>> \/ (Len(messages') = 1 /\ messages'[1].role = "human")
      BY <2>1 DEF QuestionFirst
    <2>3. messages' \in Seq(MessageRows)
      BY <1>a, TypeStep DEF TypeInv, TypeOK
    <2> QED
      BY <2>2, <2>3 DEF OneQuestionOneAnswer, AnswerRows
  <1>3. CASE HandleChainEnd \/ SimpleEnd
    <2>1. /\ pc \notin Over
          /\ userStored \/ pc = "simple"
      <3>1. CASE HandleChainEnd
        <4>1. pc = "agent" /\ 1 \in DOMAIN evq /\ evq[1].event = "on_chain_end"
          BY <3>1, <1>a, HeadTyped, TailIndexed
          DEF HandleChainEnd, HeadIs, TypeInv, TypeOK
        <4> QED
          BY <4>1, <1>a DEF ModelFirst, Over
      <3>2. CASE SimpleEnd
        BY <3>2 DEF SimpleEnd, Over
      <3> QED
        BY <1>3, <3>1, <3>2
    <2>2. /\ messages = <<>> \/ (Len(messages) = 1 /\ messages[1].role = "human")
          /\ messages # <<>> \/ "human" \in lost
      BY <2>1, <1>a DEF QuestionFirst
    <2>3. Answers
      <3>1. Writers
        BY <1>3 DEF Writers
      <3> QED
        BY <1>3, <3>1, <1>a, WritersAskOrAnswer DEF Asks, HandleChainEnd, SimpleEnd, EndsAs
    <2>4. PICK c \in Seq(RunIds), t \in Texts :
            UNCHANGED <<messages, lost>> \/ StoreCommits("ai", c, t) \/ StoreFails("ai")
      BY <2>3 DEF Answers
    <2>5. CASE StoreCommits("ai", c, t)
      <3> DEFINE row == [role |-> "ai", calls |-> c, text |-> t]
      <3>1. row \in MessageRows /\ row.role = "ai"
        BY DEF MessageRows
      <3>2. messages' = Append(messages, row) /\ lost' = lost
        BY <2>5 DEF StoreCommits
      <3>3. /\ DOMAIN messages' = 1 .. Len(messages) + 1
            /\ messages'[Len(messages) + 1] = row
            /\ \A i \in 1 .. Len(messages) : messages'[i] = messages[i]
        BY <3>1, <3>2, <1>a, AppendIndexed
      <3> HIDE DEF row
      <3> QED
        BY <2>2, <3>1, <3>2, <3>3, <1>a DEF OneQuestionOneAnswer
    <2>6. CASE StoreFails("ai")
      BY <2>6, <1>a DEF StoreFails, OneQuestionOneAnswer, AnswerRows
    <2> QED
      BY <2>4, <2>5, <2>6, <1>1
  <1> QED
    BY <1>1, <1>2, <1>3, <1>a, StepIsBystander, WritersAskOrAnswer DEF Bystander, Writers,
       Answers, Asks, HandleModelStart, SimpleStart

LEMMA SuccessStep ==
  ASSUME SafetyInv, [Next]_vars
  PROVE  SuccessIsDurable'
  <1>a. /\ TypeInv /\ SuccessIsDurable /\ TerminalIsLast /\ SimplePath
        /\ messages \in Seq(MessageRows) /\ DOMAIN messages = 1 .. Len(messages)
        /\ DOMAIN sent = 1 .. Len(sent) /\ Len(sent) \in Nat
    BY DEF SafetyInv, TypeInv, TypeOK
  <1>1. CASE Bystander
    <2>1. CASE sent' = sent /\ pc = "setup"
      BY <2>1, <1>a, NothingTerminalYet DEF SuccessIsDurable, Sent
    <2>2. CASE sent' = sent /\ pc # "setup"
      BY <1>1, <2>2, <1>a DEF Bystander, SuccessIsDurable, Sent, AnswerRows
    <2>3. CASE pc \notin Over /\ \E e : Shows(e) /\ e.event # "on_chain_end"
      <3>1. Sent("on_chain_end")' = {}
        BY <2>3, <1>a, NothingTerminalYet DEF Over, Sent, Shows
      <3> QED
        BY <3>1 DEF SuccessIsDurable
    <2> QED
      BY <1>1, <2>1, <2>2, <2>3 DEF Bystander
  <1>2. CASE Asks
    <2>1. TerminalIsLast' /\ pc' # "returned"
      BY <1>2, TerminalStep DEF Asks
    <2> QED
      BY <2>1 DEF TerminalIsLast, SuccessIsDurable, Sent, Terminal
  <1>3. CASE Answers
    <2>1. Sent("on_chain_end") = {}
      BY <1>3, <1>a, NothingTerminalYet DEF Answers
    <2>2. CASE conn # "open"
      BY <1>3, <2>1, <2>2 DEF Answers, SuccessIsDurable, Sent
    <2>3. CASE conn = "open"
      <3>0. PICK c \in Seq(RunIds), t \in Texts :
              /\ IF pc = "simple" /\ t = <<>> THEN UNCHANGED <<messages, lost>>
                 ELSE StoreCommits("ai", c, t) \/ StoreFails("ai")
              /\ \E e : Shows(e) /\ e.event = "on_chain_end" /\ e.calls = c /\ e.text = t
        BY <1>3, <2>3 DEF Answers
      <3>1. PICK e : Shows(e) /\ e.event = "on_chain_end" /\ e.calls = c /\ e.text = t
        BY <3>0
      <3>2. \A i \in Sent("on_chain_end")' : sent'[i] = e
        BY <2>1, <3>1, <1>a DEF Sent, Shows
      <3>3. CASE StoreCommits("ai", c, t)
        <4> DEFINE row == [role |-> "ai", calls |-> c, text |-> t]
        <4>1. row \in MessageRows /\ row.role = "ai" /\ row.calls = c /\ row.text = t
          BY DEF MessageRows
        <4>2. /\ Len(messages) + 1 \in DOMAIN messages'
              /\ messages'[Len(messages) + 1] = row
          BY <3>3, <4>1, <1>a, AppendIndexed DEF StoreCommits
        <4> HIDE DEF row
        <4>3. Len(messages) + 1 \in AnswerRows'
          BY <4>1, <4>2 DEF AnswerRows
        <4> QED
          BY <3>1, <3>2, <4>1, <4>2, <4>3 DEF SuccessIsDurable
      <3>4. CASE StoreFails("ai")
        BY <3>4 DEF StoreFails, SuccessIsDurable
      <3>5. CASE pc = "simple" /\ t = <<>>
        BY <1>3, <1>a, <3>1, <3>2, <3>5 DEF SuccessIsDurable, Answers, SimplePath
      <3> QED
        BY <3>0, <3>3, <3>4, <3>5
    <2> QED
      BY <2>2, <2>3
  <1> QED
    BY <1>1, <1>2, <1>3, <1>a, StepIsBystander, WritersAskOrAnswer

-------------------------------------------------------------------------------
(* Theorems. *)

LEMMA SafetyStep == SafetyInv /\ [Next]_vars => SafetyInv'
  <1> SUFFICES ASSUME SafetyInv, [Next]_vars PROVE SafetyInv'
    OBVIOUS
  <1>1. TypeInv'
    BY TypeStep DEF SafetyInv
  <1> QED
    BY <1>1, SetupIdleStep, SimplePathStep, TerminalStep, QuestionFirstStep, ModelFirstStep,
       FinishedLastStep, ErrorStep, OneQuestionStep, SuccessStep DEF SafetyInv

LEMMA SafetyInvariant == Spec => []SafetyInv
  BY SafetyInit, SafetyStep, PTL DEF Spec

\* However runner, generator and client interleave, a stream ends with its terminal event
\* and only with it.
THEOREM TerminalEndsStream == Spec => []StreamsEndWithTerminal
  <1>1. SafetyInv => StreamsEndWithTerminal
    BY DEF SafetyInv, StreamsEndWithTerminal
  <1> QED
    BY <1>1, SafetyInvariant, PTL

\* A turn leaves at most one question and one answer, the question first, and an
\* answer without its question only when storing the question failed.
THEOREM TurnIsOnePair == Spec => []OneQuestionOneAnswer
  <1>1. SafetyInv => OneQuestionOneAnswer
    BY DEF SafetyInv
  <1> QED
    BY <1>1, SafetyInvariant, PTL

\* The end a client saw is the one that is stored: a success is in the transcript, with
\* the text and the tool calls of its event, unless its commit failed or there was nothing
\* to store, and a turn that showed an error stored no answer.
THEOREM OutcomesAreStored == Spec => []OutcomeIsStored
  <1>1. SafetyInv => OutcomeIsStored
    BY DEF SafetyInv, OutcomeIsStored
  <1> QED
    BY <1>1, SafetyInvariant, PTL

-------------------------------------------------------------------------------
(* The contract.  The invariant follows the two events of a tool run from  *)
(* the runner over the queue to the client, while the client listens and   *)
(* the generator runs: each is emitted once, in order, and is on the queue *)
(* or was shown.                                                           *)

Live == pc \notin Over /\ conn = "open"

ToolEvents == {"on_tool_start", "on_tool_end"}

Queued(kind) == {evq[i].run : i \in {j \in DOMAIN evq : evq[j].event = kind}}

\* An event of a run is on the queue once, and not when it was shown.
OnceOnly ==
  /\ \A i, j \in DOMAIN evq :
       evq[i].event \in ToolEvents /\ evq[i].event = evq[j].event
         /\ evq[i].run = evq[j].run => i = j
  /\ \A k \in ToolEvents, i \in DOMAIN evq :
       evq[i].event = k => evq[i].run \notin Runs(k)

\* What was emitted of a run is what its status says.
Emitted ==
  /\ Queued("on_tool_start") \cup Runs("on_tool_start")
       = {r \in RunIds : tool[r] \notin {"unused", "called"}}
  /\ Queued("on_tool_end") \cup Runs("on_tool_end") = {r \in RunIds : tool[r] = "ended"}

\* The start of a run comes before its end.
StartsFirst ==
  /\ \A i \in DOMAIN evq : evq[i].event = "on_tool_end" =>
       \/ evq[i].run \in Runs("on_tool_start")
       \/ \E j \in 1 .. i - 1 : evq[j].event = "on_tool_start" /\ evq[j].run = evq[i].run
  /\ Runs("on_tool_end") \subseteq Runs("on_tool_start")

\* A round is over when its tools are, and the answer is the last event.
RoundsEnd ==
  /\ step \in {"idle", "think", "model", "finished"} =>
       \A r \in RunIds : tool[r] \in {"unused", "ended"}
  /\ \A i \in DOMAIN evq : evq[i].event = "on_chain_end" => i = Len(evq)

\* Tools run for agents that have some.
ToolsNeedExecutor ==
  /\ pc = "setup" => ~executor
  /\ \A r \in RunIds : tool[r] # "unused" => executor

\* An approval is the last event shown exactly between its two yields.
OwedNow ==
  /\ LastEvent = "tool_approval_required" <=> pc = "hitl"
  /\ pc = "hitl" => sent[Len(sent)].run = evq[1].run

ToolInv ==
  Live => /\ OnceOnly
          /\ Emitted
          /\ StartsFirst
          /\ RoundsEnd
          /\ ToolsNeedExecutor
          /\ OwedNow

-------------------------------------------------------------------------------
(* Runs shown and runs queued. *)

\* A yield adds its run to those of its kind and is the last event.
LEMMA ShownRuns ==
  ASSUME TypeInv, NEW e, Shows(e), NEW k
  PROVE  /\ Runs(k)' = IF e.event = k THEN Runs(k) \cup {e.run} ELSE Runs(k)
         /\ LastEvent' = e.event
         /\ sent'[Len(sent')] = e
  <1>1. DOMAIN sent = 1 .. Len(sent) /\ Len(sent) \in Nat
    BY DEF TypeInv, TypeOK
  <1>2. DOMAIN sent' = DOMAIN sent \cup {Len(sent) + 1} /\ Len(sent) + 1 \notin DOMAIN sent
    BY <1>1 DEF Shows
  <1>3. \A i \in DOMAIN sent : sent'[i] = sent[i]
    BY <1>1 DEF Shows
  <1>4. Sent(k)' = Sent(k) \cup (IF e.event = k THEN {Len(sent) + 1} ELSE {})
    BY <1>2, <1>3 DEF Shows, Sent
  <1>5. Runs(k)' = IF e.event = k THEN Runs(k) \cup {e.run} ELSE Runs(k)
    BY <1>2, <1>3, <1>4 DEF Runs, Sent, Shows
  <1>6. sent' # <<>>
    BY <1>1 DEF Shows
  <1> QED
    BY <1>5, <1>6 DEF LastEvent, Shows

\* An emission adds its run to those queued.
LEMMA QueuedRuns ==
  ASSUME TypeInv, NEW e, Queues(e), NEW k
  PROVE  Queued(k)' = IF e.event = k THEN Queued(k) \cup {e.run} ELSE Queued(k)
  <1>1. DOMAIN evq = 1 .. Len(evq) /\ Len(evq) \in Nat
    BY DEF TypeInv, TypeOK
  <1>2. DOMAIN evq' = DOMAIN evq \cup {Len(evq) + 1} /\ Len(evq) + 1 \notin DOMAIN evq
    BY <1>1 DEF Queues
  <1>3. \A i \in DOMAIN evq : evq'[i] = evq[i]
    BY <1>1 DEF Queues
  <1> DEFINE P == {j \in DOMAIN evq : evq[j].event = k}
             Q == {j \in DOMAIN evq' : evq'[j].event = k}
  <1>4. Q = P \cup (IF e.event = k THEN {Len(evq) + 1} ELSE {})
    BY <1>2, <1>3 DEF Queues
  <1> QED
    BY <1>2, <1>3, <1>4 DEF Queued, Queues

\* Taking the head moves one run out of the queue.
LEMMA TakenRuns ==
  ASSUME TypeInv, evq # <<>>, Takes, NEW k
  PROVE  Queued(k) = IF evq[1].event = k THEN Queued(k)' \cup {evq[1].run} ELSE Queued(k)'
  <1>1. /\ evq \in Seq(RunnerEvents) /\ DOMAIN evq = 1 .. Len(evq) /\ Len(evq) \in Nat
        /\ 1 \in DOMAIN evq
        /\ DOMAIN evq' = 1 .. Len(evq) - 1
        /\ \A i \in DOMAIN evq' : i + 1 \in DOMAIN evq /\ evq'[i] = evq[i + 1]
    BY TailIndexed DEF TypeInv, TypeOK, Takes
  <1>2. \A i \in DOMAIN evq : i = 1 \/ (i - 1 \in DOMAIN evq' /\ evq'[i - 1] = evq[i])
    BY <1>1
  <1>3. ASSUME NEW r \in Queued(k)
        PROVE  r \in IF evq[1].event = k THEN Queued(k)' \cup {evq[1].run} ELSE Queued(k)'
    BY <1>2 DEF Queued
  <1>4. ASSUME NEW r \in Queued(k)' PROVE r \in Queued(k)
    BY <1>1 DEF Queued
  <1>5. evq[1].event = k => evq[1].run \in Queued(k)
    BY <1>1 DEF Queued
  <1> QED
    BY <1>3, <1>4, <1>5

-------------------------------------------------------------------------------
(* Steps of the runner. *)

LEMMA RunsKept ==
  ASSUME UNCHANGED sent, NEW k
  PROVE  Runs(k)' = Runs(k) /\ LastEvent' = LastEvent
  BY DEF Runs, Sent, LastEvent

LEMMA QueuedKept ==
  ASSUME UNCHANGED evq, NEW k
  PROVE  Queued(k)' = Queued(k)
  BY DEF Queued

\* A new event is the first of its kind for its run, and an end comes after a start.
LEMMA EmissionOrdered ==
  ASSUME TypeInv, OnceOnly, StartsFirst, UNCHANGED sent, NEW e, Queues(e),
         e.event \in ToolEvents => e.run \notin Queued(e.event) \cup Runs(e.event),
         e.event = "on_tool_end" =>
           e.run \in Queued("on_tool_start") \cup Runs("on_tool_start")
  PROVE  OnceOnly' /\ StartsFirst'
  <1>1. /\ DOMAIN evq = 1 .. Len(evq) /\ Len(evq) \in Nat
        /\ DOMAIN evq' = DOMAIN evq \cup {Len(evq) + 1} /\ Len(evq) + 1 \notin DOMAIN evq
        /\ \A i \in DOMAIN evq : evq'[i] = evq[i]
        /\ evq'[Len(evq) + 1] = e
    BY DEF TypeInv, TypeOK, Queues
  <1>2. \A k : Runs(k)' = Runs(k)
    BY RunsKept
  <1>3. \A i \in DOMAIN evq : evq[i].event \in ToolEvents /\ evq[i].event = e.event =>
          evq[i].run # e.run
    BY DEF Queued
  <1>4. OnceOnly'
    <2>1. \A k \in ToolEvents, i \in DOMAIN evq' :
            evq'[i].event = k => evq'[i].run \notin Runs(k)
      BY <1>1 DEF OnceOnly
    <2>2. \A i, j \in DOMAIN evq' :
            evq'[i].event \in ToolEvents /\ evq'[i].event = evq'[j].event
              /\ evq'[i].run = evq'[j].run => i = j
      BY <1>1, <1>3 DEF OnceOnly
    <2> QED
      BY <1>2, <2>1, <2>2 DEF OnceOnly
  <1>5. StartsFirst'
    <2>1. ASSUME NEW i \in DOMAIN evq', evq'[i].event = "on_tool_end"
          PROVE  \/ evq'[i].run \in Runs("on_tool_start")
                 \/ \E j \in 1 .. i - 1 :
                      evq'[j].event = "on_tool_start" /\ evq'[j].run = evq'[i].run
      <3>1. CASE i \in DOMAIN evq
        BY <1>1, <2>1, <3>1 DEF StartsFirst
      <3>2. CASE i = Len(evq) + 1
        <4>1. e.run \in Queued("on_tool_start") \/ e.run \in Runs("on_tool_start")
          BY <1>1, <2>1, <3>2
        <4>2. ASSUME e.run \in Queued("on_tool_start")
              PROVE  \E j \in 1 .. i - 1 :
                       evq'[j].event = "on_tool_start" /\ evq'[j].run = evq'[i].run
          BY <1>1, <3>2, <4>2 DEF Queued
        <4> QED
          BY <1>1, <3>2, <4>1, <4>2
      <3> QED
        BY <1>1, <3>1, <3>2
    <2> QED
      BY <1>2, <2>1 DEF StartsFirst
  <1> QED
    BY <1>4, <1>5

\* Between the two yields of an approval the head of the queue stays.
LEMMA EmissionOwed ==
  ASSUME TypeInv, OwedNow, UNCHANGED <<pc, sent>>, NEW e,
         Queues(e) \/ UNCHANGED evq
  PROVE  OwedNow'
  <1>1. pc = "hitl" => 1 \in 1 .. Len(evq)
    BY DEF TypeInv, TypeOK, QueueOK
  <1>2. pc = "hitl" => evq'[1] = evq[1]
    BY <1>1 DEF Queues
  <1> QED
    BY <1>2, RunsKept DEF OwedNow

LEMMA EmissionLast ==
  ASSUME TypeInv, FinishedLast, RoundsEnd, step # "finished", NEW e, Queues(e)
  PROVE  \A i \in DOMAIN evq' : evq'[i].event = "on_chain_end" => i = Len(evq')
  <1>1. \A i \in DOMAIN evq : evq[i].event # "on_chain_end"
    BY DEF FinishedLast
  <1>2. DOMAIN evq' = DOMAIN evq \cup {Len(evq) + 1} /\ \A i \in DOMAIN evq : evq'[i] = evq[i]
    BY DEF Queues, TypeInv, TypeOK
  <1> QED
    BY <1>1, <1>2 DEF Queues

\* What a runner step does to tools and queue while the generator listens.
Emits(k, r) == \E e : Queues(e) /\ e.event = k /\ e.run = r

ToolEffect ==
  \/ /\ tool' = tool
     /\ \E k, r : k \notin ToolEvents /\ Emits(k, r)
     /\ step \in {"idle", "think", "model"} \/ step' = "raised"
  \/ /\ executor /\ evq' = evq /\ step' = "tools"
     /\ \E S \in SUBSET RunIds :
          /\ \A r \in S : tool[r] = "unused"
          /\ tool' = [r \in RunIds |-> IF r \in S THEN "called" ELSE tool[r]]
  \/ \E r \in RunIds :
       /\ tool[r] = "called" /\ tool' = [tool EXCEPT ![r] = "running"]
       /\ Emits("on_tool_start", r)
       /\ step = "tools" /\ step' = "tools"
  \/ \E r \in RunIds, out \in Outcomes :
       /\ tool[r] = "running" /\ tool' = [tool EXCEPT ![r] = out]
       /\ evq' = evq
       /\ step \in {"tools", "raised"} /\ step' = step
  \/ \E r \in RunIds :
       /\ tool[r] \in Outcomes /\ tool' = [tool EXCEPT ![r] = "ended"]
       /\ Emits("on_tool_end", r)
       /\ step = "tools"
       /\ step' = IF \A q \in RunIds \ {r} : tool[q] \in {"unused", "ended"}
                  THEN "think" ELSE "tools"

LEMMA RunnerToolEffect ==
  ASSUME TypeInv, Live, RunnerNext
  PROVE  ToolEffect /\ UNCHANGED <<pc, executor, conn, sent>>
         /\ (step = "finished" => evq' = evq)
  <1>0. UNCHANGED <<pc, executor, conn, sent>>
    BY DEF RunnerNext, ChainStarts, ModelStarts, ModelStreams, ModelCallsTools, ToolStarts,
       ToolAnswers, ToolQueuesApproval, ToolEnds, RunnerFinishes, IterationLimit, RunnerRaises,
       RunnerCancelled, generatorVars, responseVars
  <1>1. step = "finished" => evq' = evq
    BY RunnerHasEffect DEF RunnerEffect
  <1>e. ASSUME NEW k, NEW r, NEW o, NEW t, Emit(RunnerEvent(k, r, o, t))
        PROVE  Emits(k, r)
    <2>1. Queues(RunnerEvent(k, r, o, t))
      <3>1. evq \in Seq(RunnerEvents \cup {RunnerEvent(k, r, o, t)})
        BY SeqMonotonic DEF TypeInv, TypeOK
      <3> QED
        BY <1>e, <3>1, AppendIndexed DEF Emit, Live, Queues
    <2> QED
      BY <2>1 DEF Emits, RunnerEvent
  <1>2. ASSUME ChainStarts PROVE ToolEffect
    BY <1>2, <1>e DEF ChainStarts, ToolEffect, ToolEvents
  <1>3. ASSUME ModelStarts PROVE ToolEffect
    BY <1>3, <1>e DEF ModelStarts, ToolEffect, ToolEvents
  <1>4. ASSUME ModelStreams PROVE ToolEffect
    BY <1>4, <1>e DEF ModelStreams, ToolEffect, ToolEvents
  <1>5. ASSUME \E S \in SUBSET RunIds : ModelCallsTools(S) PROVE ToolEffect
    BY <1>5 DEF ModelCallsTools, ToolEffect
  <1>6. ASSUME \E r \in RunIds : ToolStarts(r) PROVE ToolEffect
    BY <1>6, <1>e DEF ToolStarts, ToolEffect
  <1>7. ASSUME \E r \in RunIds, out \in Outcomes :
                 ToolAnswers(r, out) \/ ToolQueuesApproval(r, out)
        PROVE  ToolEffect
    BY <1>7 DEF ToolAnswers, ToolQueuesApproval, ToolEffect
  <1>8. ASSUME \E r \in RunIds : ToolEnds(r) PROVE ToolEffect
    BY <1>8, <1>e DEF ToolEnds, ToolEffect
  <1>9. ASSUME RunnerFinishes PROVE ToolEffect
    <2>1. \E k \in {"on_chain_end", "eof"} : Emits(k, NoRun)
      BY <1>9, <1>e DEF RunnerFinishes
    <2> QED
      BY <1>9, <2>1 DEF RunnerFinishes, ToolEffect, ToolEvents
  <1>10. ASSUME IterationLimit PROVE ToolEffect
    BY <1>10, <1>e DEF IterationLimit, ToolEffect, ToolEvents
  <1>11. ASSUME RunnerRaises PROVE ToolEffect
    BY <1>11, <1>e DEF RunnerRaises, ToolEffect, ToolEvents
  <1>12. ASSUME RunnerCancelled PROVE ToolEffect
    BY <1>12 DEF RunnerCancelled, Live
  <1>13. ToolEffect
    BY <1>2, <1>3, <1>4, <1>5, <1>6, <1>7, <1>8, <1>9, <1>10, <1>11, <1>12 DEF RunnerNext
  <1> QED
    BY <1>0, <1>1, <1>13

\* The status of one run changes from x to y.
LEMMA ToolMoves ==
  ASSUME TypeInv, NEW r \in RunIds, NEW y, tool' = [tool EXCEPT ![r] = y]
  PROVE  tool'[r] = y /\ \A q \in RunIds \ {r} : tool'[q] = tool[q]
  BY DEF TypeInv, TypeOK

LEMMA RunnerKeepsTools ==
  ASSUME SafetyInv, ToolInv, Live, RunnerNext
  PROVE  ToolInv'
  <1>0. TypeInv /\ FinishedLast
    BY DEF SafetyInv
  <1>1. ToolEffect /\ UNCHANGED <<pc, executor, conn, sent>> /\ (step = "finished" => evq' = evq)
    BY <1>0, RunnerToolEffect
  <1>2. OnceOnly /\ Emitted /\ StartsFirst /\ RoundsEnd /\ ToolsNeedExecutor /\ OwedNow
    BY DEF ToolInv
  <1>3. \A k : Runs(k)' = Runs(k)
    BY <1>1, RunsKept
  <1>4. ASSUME UNCHANGED evq
        PROVE  /\ OnceOnly' /\ StartsFirst' /\ OwedNow'
               /\ \A i \in DOMAIN evq' : evq'[i].event = "on_chain_end" => i = Len(evq')
               /\ \A k : Queued(k)' = Queued(k)
    BY <1>1, <1>2, <1>3, <1>4, QueuedKept, RunsKept
    DEF OnceOnly, StartsFirst, OwedNow, RoundsEnd
  <1>5. ASSUME NEW k, NEW r, Emits(k, r),
               k \in ToolEvents => r \notin Queued(k) \cup Runs(k),
               k = "on_tool_end" => r \in Queued("on_tool_start") \cup Runs("on_tool_start")
        PROVE  /\ OnceOnly' /\ StartsFirst' /\ OwedNow'
               /\ \A i \in DOMAIN evq' : evq'[i].event = "on_chain_end" => i = Len(evq')
               /\ Queued(k)' = Queued(k) \cup {r}
               /\ \A l : l # k => Queued(l)' = Queued(l)
    <2>1. PICK e : Queues(e) /\ e.event = k /\ e.run = r
      BY <1>5 DEF Emits
    <2>2. OnceOnly' /\ StartsFirst'
      BY <1>0, <1>1, <1>2, <1>5, <2>1, EmissionOrdered
    <2>3. OwedNow'
      BY <1>0, <1>1, <1>2, <2>1, EmissionOwed
    <2>4. step # "finished"
      <3>1. Len(evq) \in Nat /\ Len(evq') = Len(evq) + 1
        BY <1>0, <2>1 DEF Queues, TypeInv, TypeOK
      <3> QED
        BY <1>1, <3>1
    <2>5. \A i \in DOMAIN evq' : evq'[i].event = "on_chain_end" => i = Len(evq')
      BY <1>0, <1>2, <2>1, <2>4, EmissionLast
    <2>6. Queued(k)' = Queued(k) \cup {r} /\ \A l : l # k => Queued(l)' = Queued(l)
      BY <1>0, <2>1, QueuedRuns
    <2> QED
      BY <2>2, <2>3, <2>5, <2>6
  <1>6. \A r \in RunIds :
          /\ r \in Queued("on_tool_start") \cup Runs("on_tool_start")
               <=> tool[r] \notin {"unused", "called"}
          /\ r \in Queued("on_tool_end") \cup Runs("on_tool_end") <=> tool[r] = "ended"
    BY <1>2 DEF Emitted
  <1>7. CASE /\ tool' = tool
             /\ \E k, r : k \notin ToolEvents /\ Emits(k, r)
             /\ step \in {"idle", "think", "model"} \/ step' = "raised"
    <2>1. PICK k, r : k \notin ToolEvents /\ Emits(k, r)
      BY <1>7
    <2>2. /\ OnceOnly' /\ StartsFirst' /\ OwedNow'
          /\ \A i \in DOMAIN evq' : evq'[i].event = "on_chain_end" => i = Len(evq')
          /\ \A l : l \in ToolEvents => Queued(l)' = Queued(l)
      BY <1>5, <2>1 DEF ToolEvents
    <2>3. Emitted'
      BY <1>2, <1>3, <1>7, <2>2 DEF Emitted, ToolEvents
    <2>4. RoundsEnd' /\ ToolsNeedExecutor'
      BY <1>1, <1>2, <1>7, <2>2 DEF RoundsEnd, ToolsNeedExecutor
    <2> QED
      BY <2>2, <2>3, <2>4 DEF ToolInv
  <1>8. CASE /\ executor /\ evq' = evq /\ step' = "tools"
             /\ \E S \in SUBSET RunIds :
                  /\ \A r \in S : tool[r] = "unused"
                  /\ tool' = [r \in RunIds |-> IF r \in S THEN "called" ELSE tool[r]]
    <2>1. \A r \in RunIds : tool'[r] = tool[r] \/ (tool[r] = "unused" /\ tool'[r] = "called")
      BY <1>8
    <2>2. Emitted'
      BY <1>2, <1>3, <1>4, <1>8, <2>1 DEF Emitted
    <2>3. RoundsEnd' /\ ToolsNeedExecutor'
      BY <1>1, <1>2, <1>4, <1>8 DEF RoundsEnd, ToolsNeedExecutor
    <2> QED
      BY <1>4, <1>8, <2>2, <2>3 DEF ToolInv
  <1>9. ASSUME NEW r \in RunIds, tool[r] = "called", tool' = [tool EXCEPT ![r] = "running"],
               Emits("on_tool_start", r), step = "tools", step' = "tools"
        PROVE  ToolInv'
    <2>1. /\ OnceOnly' /\ StartsFirst' /\ OwedNow'
          /\ \A i \in DOMAIN evq' : evq'[i].event = "on_chain_end" => i = Len(evq')
          /\ Queued("on_tool_start")' = Queued("on_tool_start") \cup {r}
          /\ Queued("on_tool_end")' = Queued("on_tool_end")
      BY <1>5, <1>6, <1>9
    <2>2. tool'[r] = "running" /\ \A q \in RunIds \ {r} : tool'[q] = tool[q]
      BY <1>0, <1>9, ToolMoves
    <2>3. Emitted'
      BY <1>2, <1>3, <1>9, <2>1, <2>2 DEF Emitted
    <2>4. RoundsEnd' /\ ToolsNeedExecutor'
      BY <1>1, <1>2, <1>9, <2>1, <2>2 DEF RoundsEnd, ToolsNeedExecutor
    <2> QED
      BY <2>1, <2>3, <2>4 DEF ToolInv
  <1>10. ASSUME NEW r \in RunIds, NEW out \in Outcomes, tool[r] = "running",
                tool' = [tool EXCEPT ![r] = out], evq' = evq,
                step \in {"tools", "raised"}, step' = step
         PROVE  ToolInv'
    <2>1. tool'[r] \in Outcomes /\ \A q \in RunIds \ {r} : tool'[q] = tool[q]
      BY <1>0, <1>10, ToolMoves
    <2>2. Emitted'
      BY <1>2, <1>3, <1>4, <1>10, <2>1 DEF Emitted, Outcomes
    <2>3. RoundsEnd' /\ ToolsNeedExecutor'
      BY <1>1, <1>2, <1>4, <1>10, <2>1 DEF RoundsEnd, ToolsNeedExecutor
    <2> QED
      BY <1>4, <1>10, <2>2, <2>3 DEF ToolInv
  <1>11. ASSUME NEW r \in RunIds, tool[r] \in Outcomes, tool' = [tool EXCEPT ![r] = "ended"],
                Emits("on_tool_end", r), step = "tools",
                step' = IF \A q \in RunIds \ {r} : tool[q] \in {"unused", "ended"}
                        THEN "think" ELSE "tools"
         PROVE  ToolInv'
    <2>1. /\ OnceOnly' /\ StartsFirst' /\ OwedNow'
          /\ \A i \in DOMAIN evq' : evq'[i].event = "on_chain_end" => i = Len(evq')
          /\ Queued("on_tool_end")' = Queued("on_tool_end") \cup {r}
          /\ Queued("on_tool_start")' = Queued("on_tool_start")
      BY <1>5, <1>6, <1>11 DEF Outcomes
    <2>2. tool'[r] = "ended" /\ \A q \in RunIds \ {r} : tool'[q] = tool[q]
      BY <1>0, <1>11, ToolMoves
    <2>3. Emitted'
      BY <1>2, <1>3, <1>11, <2>1, <2>2 DEF Emitted, Outcomes
    <2>4. RoundsEnd' /\ ToolsNeedExecutor'
      BY <1>1, <1>2, <1>11, <2>1, <2>2 DEF RoundsEnd, ToolsNeedExecutor, Outcomes
    <2> QED
      BY <2>1, <2>3, <2>4 DEF ToolInv
  <1> QED
    BY <1>1, <1>7, <1>8, <1>9, <1>10, <1>11 DEF ToolEffect

-------------------------------------------------------------------------------
(* Steps of the generator. *)

\* The head of the queue is taken and shown, or left out when it is of no tool run.
Passes(e) ==
  /\ evq # <<>> /\ Takes /\ Shows(e)
  /\ pc \in {"agent", "hitl", "simple"} /\ pc' \in {"agent", "simple"}
  /\ UNCHANGED <<executor, tool, step, conn>>
  /\ e.event # "tool_approval_required"
  /\ evq[1].event \in ToolEvents => e.event = evq[1].event /\ e.run = evq[1].run
  /\ e.event \in ToolEvents => e.event = evq[1].event

LEMMA PassesKeepsTools ==
  ASSUME TypeInv, ToolInv, Live, NEW e, Passes(e)
  PROVE  ToolInv'
  <1>1. /\ evq \in Seq(RunnerEvents) /\ DOMAIN evq = 1 .. Len(evq) /\ Len(evq) \in Nat
        /\ 1 \in DOMAIN evq
        /\ DOMAIN evq' = 1 .. Len(evq) - 1
        /\ evq' \in Seq(RunnerEvents)
        /\ \A i \in DOMAIN evq' : i + 1 \in DOMAIN evq /\ evq'[i] = evq[i + 1]
    BY TailIndexed DEF TypeInv, TypeOK, Passes, Takes
  <1>2. OnceOnly /\ Emitted /\ StartsFirst /\ RoundsEnd /\ ToolsNeedExecutor /\ OwedNow
    BY DEF ToolInv
  <1>3. /\ \A k : Runs(k)' = IF e.event = k THEN Runs(k) \cup {e.run} ELSE Runs(k)
        /\ LastEvent' = e.event
    BY ShownRuns DEF Passes
  <1>4. \A k \in ToolEvents :
          /\ Runs(k)' = IF evq[1].event = k THEN Runs(k) \cup {evq[1].run} ELSE Runs(k)
          /\ Queued(k) = IF evq[1].event = k THEN Queued(k)' \cup {evq[1].run} ELSE Queued(k)'
    <2>1. ASSUME NEW k \in ToolEvents
          PROVE  Runs(k)' = IF evq[1].event = k THEN Runs(k) \cup {evq[1].run} ELSE Runs(k)
      BY <1>3, <2>1 DEF Passes
    <2>2. ASSUME NEW k \in ToolEvents
          PROVE  Queued(k) = IF evq[1].event = k THEN Queued(k)' \cup {evq[1].run} ELSE Queued(k)'
      BY TakenRuns DEF Passes
    <2> QED
      BY <2>1, <2>2
  <1>5. OnceOnly'
    <2>1. ASSUME NEW i \in DOMAIN evq', NEW j \in DOMAIN evq',
                 evq'[i].event \in ToolEvents, evq'[i].event = evq'[j].event,
                 evq'[i].run = evq'[j].run
          PROVE  i = j
      <3>1. i + 1 = j + 1
        BY <1>1, <1>2, <2>1 DEF OnceOnly
      <3> QED
        BY <1>1, <3>1
    <2>2. ASSUME NEW k \in ToolEvents, NEW i \in DOMAIN evq', evq'[i].event = k
          PROVE  evq'[i].run \notin Runs(k)'
      <3>1. i + 1 # 1 /\ i + 1 \in DOMAIN evq /\ 1 \in DOMAIN evq /\ evq'[i] = evq[i + 1]
        BY <1>1
      <3>2. evq'[i].run \notin Runs(k)
        BY <1>2, <2>2, <3>1 DEF OnceOnly
      <3>3. evq[1].event = k => evq[1].run # evq'[i].run
        BY <1>2, <2>2, <3>1 DEF OnceOnly
      <3> QED
        BY <1>4, <3>2, <3>3
    <2> QED
      BY <2>1, <2>2 DEF OnceOnly
  <1>6. Emitted'
    BY <1>2, <1>4 DEF Emitted, ToolEvents, Passes
  <1>7. StartsFirst'
    <2>1. Runs("on_tool_start") \subseteq Runs("on_tool_start")'
      BY <1>3
    <2>2. ASSUME NEW i \in DOMAIN evq', evq'[i].event = "on_tool_end"
          PROVE  \/ evq'[i].run \in Runs("on_tool_start")'
                 \/ \E j \in 1 .. i - 1 :
                      evq'[j].event = "on_tool_start" /\ evq'[j].run = evq'[i].run
      <3>1. CASE evq'[i].run \in Runs("on_tool_start")
        BY <2>1, <3>1
      <3>2. ASSUME NEW j \in 1 .. (i + 1) - 1,
                   evq[j].event = "on_tool_start", evq[j].run = evq'[i].run
            PROVE  \/ evq'[i].run \in Runs("on_tool_start")'
                   \/ \E l \in 1 .. i - 1 :
                        evq'[l].event = "on_tool_start" /\ evq'[l].run = evq'[i].run
        <4>1. CASE j = 1
          BY <1>4, <3>2, <4>1 DEF ToolEvents
        <4>2. CASE j # 1
          <5>1. i \in 1 .. Len(evq) - 1 /\ Len(evq) \in Nat
            BY <1>1
          <5>2. j - 1 \in 1 .. i - 1 /\ j - 1 \in 1 .. Len(evq) - 1 /\ (j - 1) + 1 = j
            BY <4>2, <5>1
          <5>3. evq'[j - 1] = evq[j]
            BY <1>1, <5>2
          <5> QED
            BY <3>2, <5>2, <5>3
        <4> QED
          BY <4>1, <4>2
      <3> QED
        BY <1>1, <1>2, <2>2, <3>1, <3>2 DEF StartsFirst
    <2>3. Runs("on_tool_end")' \subseteq Runs("on_tool_start")'
      <3>1. evq[1].event = "on_tool_end" => evq[1].run \in Runs("on_tool_start")
        BY <1>1, <1>2 DEF StartsFirst
      <3> QED
        BY <1>2, <1>4, <2>1, <3>1 DEF StartsFirst, ToolEvents
    <2> QED
      BY <2>2, <2>3 DEF StartsFirst
  <1>8. RoundsEnd'
    <2>1. \A i \in DOMAIN evq' : evq'[i].event = "on_chain_end" => i = Len(evq')
      <3>1. Len(evq') = Len(evq) - 1
        BY <1>1, HeadTailProperties DEF Passes, Takes
      <3> QED
        BY <1>1, <1>2, <3>1 DEF RoundsEnd
    <2> QED
      BY <1>2, <2>1 DEF RoundsEnd, Passes
  <1>9. ToolsNeedExecutor' /\ OwedNow'
    BY <1>2, <1>3 DEF ToolsNeedExecutor, OwedNow, Passes
  <1> QED
    BY <1>5, <1>6, <1>7, <1>8, <1>9 DEF ToolInv

\* The steps that show the head of the queue, by what they show.
Passing(e) ==
  \/ /\ HandleChainStart
     /\ e = sse_event("on_chain_start", NoRun, FALSE, <<>>, <<>>)
  \/ /\ HandleModelStart
     /\ e = sse_event("on_chat_model_start", NoRun, FALSE, toolCalls, <<>>)
  \/ /\ HandleToken \/ SimpleToken
     /\ e = sse_event("on_chat_model_stream", NoRun, TRUE, <<>>, Head(evq).text)
  \/ /\ HandleToolStart
     /\ e = sse_event("on_tool_start", Head(evq).run, TRUE, <<>>, <<>>)
  \/ /\ HandleToolEnd
     /\ e = sse_event("on_tool_end", Head(evq).run, Head(evq).out = "result", <<>>, <<>>)
  \/ /\ HandleApprovalEnd
     /\ e = sse_event("on_tool_end", Head(evq).run, FALSE, <<>>, <<>>)

Passings ==
  \/ HandleChainStart \/ HandleModelStart \/ HandleToken \/ SimpleToken
  \/ HandleToolStart \/ HandleToolEnd \/ HandleApprovalEnd

LEMMA PassingPasses ==
  ASSUME TypeInv, Live, NEW e, Passing(e)
  PROVE  Passes(e)
  <1> USE DEF runnerButQueue, generatorVars, HeadIs
  <1>1. Yield(e)
    BY DEF Passing, HandleChainStart, HandleModelStart, HandleToken, SimpleToken,
       HandleToolStart, HandleToolEnd, HandleApprovalEnd
  <1>2. Shows(e) /\ conn' = conn
    BY <1>1, YieldShows DEF Live
  <1>3. /\ evq # <<>> /\ Takes
        /\ UNCHANGED <<executor, tool, step>>
        /\ pc \in {"agent", "hitl", "simple"} /\ pc' \in {"agent", "simple"}
    BY DEF Passing, HandleChainStart, HandleModelStart, HandleToken, SimpleToken,
       HandleToolStart, HandleToolEnd, HandleApprovalEnd, TypeInv, QueueOK
  <1>4. Head(evq) = evq[1]
    BY <1>3, HeadTyped
  <1>5. /\ e.event # "tool_approval_required"
        /\ evq[1].event \in ToolEvents => e.event = evq[1].event /\ e.run = evq[1].run
        /\ e.event \in ToolEvents => e.event = evq[1].event
    BY <1>4 DEF Passing, HandleChainStart, HandleModelStart, HandleToken, SimpleToken,
       HandleToolStart, HandleToolEnd, HandleApprovalEnd, sse_event, TypeInv, QueueOK,
       ToolEvents
  <1> QED
    BY <1>2, <1>3, <1>5 DEF Passes

LEMMA PassingsPass ==
  ASSUME TypeInv, Live, Passings
  PROVE  \E e : Passing(e)
  BY DEF Passings, Passing

\* The other steps of a generator that goes on.
LEMMA ApprovalKeepsTools ==
  ASSUME TypeInv, ToolInv, Live, HandleApproval
  PROVE  /\ ToolInv'
         /\ \E e : Shows(e) /\ e.event = "tool_approval_required" /\ e.run = evq[1].run
         /\ evq[1].event = "on_tool_end" /\ 1 \in DOMAIN evq /\ evq[1].run \in RunIds
         /\ conn' = conn /\ pc = "agent"
  <1> DEFINE e == sse_event("tool_approval_required", Head(evq).run, TRUE, <<>>, <<>>)
  <1>1. Yield(e) /\ evq' = evq /\ tool' = tool /\ step' = step /\ executor' = executor
        /\ pc = "agent" /\ pc' = "hitl" /\ evq # <<>> /\ Head(evq).event = "on_tool_end"
    BY DEF HandleApproval, runnerVars, HeadIs
  <1>2. e.event = "tool_approval_required" /\ e.run = Head(evq).run
    BY DEF sse_event
  <1>3. Head(evq) = evq[1] /\ 1 \in DOMAIN evq /\ evq[1].run \in RunIds
    <2>1. 1 \in DOMAIN evq /\ Head(evq) = evq[1]
      BY <1>1, TailIndexed DEF TypeInv, TypeOK
    <2> QED
      BY <1>1, <2>1 DEF TypeInv, QueueOK
  <1>4. Shows(e) /\ conn' = conn
    BY <1>1, YieldShows DEF Live
  <1> HIDE DEF e
  <1>5. \A k : Runs(k)' = IF e.event = k THEN Runs(k) \cup {e.run} ELSE Runs(k)
    BY <1>4, ShownRuns
  <1>6. LastEvent' = e.event /\ sent'[Len(sent')] = e
    BY <1>4, ShownRuns
  <1>7. OnceOnly /\ Emitted /\ StartsFirst /\ RoundsEnd /\ ToolsNeedExecutor
    BY DEF ToolInv
  <1>8. /\ Runs("on_tool_start")' = Runs("on_tool_start")
        /\ Runs("on_tool_end")' = Runs("on_tool_end")
    BY <1>2, <1>5
  <1>9. OnceOnly' /\ Emitted' /\ StartsFirst'
    BY <1>1, <1>7, <1>8 DEF OnceOnly, Emitted, StartsFirst, Queued, ToolEvents
  <1>10. RoundsEnd' /\ ToolsNeedExecutor' /\ OwedNow'
    BY <1>1, <1>2, <1>3, <1>6, <1>7 DEF RoundsEnd, ToolsNeedExecutor, OwedNow
  <1>11. ToolInv'
    BY <1>9, <1>10 DEF ToolInv
  <1> QED
    BY <1>1, <1>2, <1>3, <1>4, <1>11

LEMMA SetupKeepsTools ==
  ASSUME TypeInv, ToolInv, Live, SetupSucceeds
  PROVE  ToolInv'
  <1>1. OnceOnly /\ Emitted /\ StartsFirst /\ RoundsEnd /\ ToolsNeedExecutor /\ OwedNow
    BY DEF ToolInv
  <1>2. /\ UNCHANGED <<sent, evq, tool, step>>
        /\ pc = "setup" /\ pc' \in {"agent", "simpleStart"}
    BY DEF SetupSucceeds, responseVars, runnerVars
  <1>3. \A k : Runs(k)' = Runs(k) /\ Queued(k)' = Queued(k) /\ LastEvent' = LastEvent
    BY <1>2, RunsKept, QueuedKept
  <1>4. \A r \in RunIds : tool[r] = "unused"
    BY <1>1, <1>2 DEF ToolsNeedExecutor
  <1> QED
    BY <1>1, <1>2, <1>3, <1>4
    DEF ToolInv, OnceOnly, Emitted, StartsFirst, RoundsEnd, ToolsNeedExecutor, OwedNow

LEMMA SimpleStartKeepsTools ==
  ASSUME SafetyInv, ToolInv, Live, SimpleStart
  PROVE  /\ ToolInv'
         /\ \E e : Shows(e) /\ e.event = "on_chat_model_start"
         /\ conn' = conn
  <1> DEFINE e == sse_event("on_chat_model_start", NoRun, FALSE, <<>>, <<>>)
  <1>1. OnceOnly /\ Emitted /\ StartsFirst /\ RoundsEnd /\ ToolsNeedExecutor /\ OwedNow
    BY DEF ToolInv
  <1>2. Yield(e) /\ evq' = evq /\ tool' = tool /\ executor' = executor
        /\ pc = "simpleStart" /\ pc' = "simple"
    BY DEF SimpleStart
  <1>3. step = "idle" /\ TypeInv
    BY <1>2 DEF SafetyInv, SetupIdle
  <1>4. e.event = "on_chat_model_start"
    BY DEF sse_event
  <1>5. Shows(e) /\ conn' = conn
    BY <1>2, <1>3, YieldShows DEF Live
  <1> HIDE DEF e
  <1>6. /\ Runs("on_tool_start")' = Runs("on_tool_start")
        /\ Runs("on_tool_end")' = Runs("on_tool_end")
        /\ LastEvent' = e.event
    BY <1>3, <1>4, <1>5, ShownRuns
  <1>7. OnceOnly' /\ Emitted' /\ StartsFirst'
    BY <1>1, <1>2, <1>6 DEF OnceOnly, Emitted, StartsFirst, Queued, ToolEvents
  <1>8. RoundsEnd' /\ ToolsNeedExecutor' /\ OwedNow'
    BY <1>1, <1>2, <1>3, <1>4, <1>6 DEF RoundsEnd, ToolsNeedExecutor, OwedNow
  <1> QED
    BY <1>4, <1>5, <1>7, <1>8 DEF ToolInv

\* Nobody comes back: not the client, not the generator.
LEMMA LiveBefore ==
  ASSUME TypeInv, [Next]_vars, Live'
  PROVE  Live
  <1>1. CASE Bystander
    BY <1>1 DEF Bystander, Live
  <1>2. CASE Writers
    BY <1>2, WritersAskOrAnswer DEF Asks, Answers, Live, Over
  <1> QED
    BY <1>1, <1>2, StepIsBystander

LEMMA ToolStep == SafetyInv /\ ToolInv /\ [Next]_vars => ToolInv'
  <1> SUFFICES ASSUME SafetyInv, ToolInv, [Next]_vars, Live' PROVE ToolInv'
    BY DEF ToolInv
  <1>live. Live
    BY LiveBefore DEF SafetyInv
  <1>0. TypeInv
    BY DEF SafetyInv
  <1>1. CASE RunnerNext
    BY <1>1, <1>live, RunnerKeepsTools
  <1>2. CASE Passings
    BY <1>0, <1>live, <1>2, PassingsPass, PassingPasses, PassesKeepsTools
  <1>3. CASE HandleApproval
    BY <1>0, <1>live, <1>3, ApprovalKeepsTools
  <1>4. CASE SetupSucceeds
    BY <1>0, <1>live, <1>4, SetupKeepsTools
  <1>5. CASE SimpleStart
    BY <1>live, <1>5, SimpleStartKeepsTools
  <1>6. CASE UNCHANGED vars
    BY <1>6 DEF ToolInv, vars, Live, OnceOnly, Emitted, StartsFirst, RoundsEnd,
       ToolsNeedExecutor, OwedNow, Queued, Runs, Sent, LastEvent, generatorVars,
       responseVars, runnerVars
  <1> QED
    BY <1>1, <1>2, <1>3, <1>4, <1>5, <1>6 DEF Next, GeneratorNext, Passings, Live, EndsAs, Over,
       SetupRefuses, SetupEscapes, HandleChainEnd, HandleRaise, FormattingRaises,
       SimpleRaise, SimpleEnd, ClientLeaves, GeneratorCancelled, InstanceStops

LEMMA ToolInit == Init => ToolInv
  <1> SUFFICES ASSUME Init PROVE ToolInv
    OBVIOUS
  <1>1. DOMAIN sent = {} /\ DOMAIN evq = {}
    BY DEF Init
  <1>2. \A k : Runs(k) = {} /\ Queued(k) = {} /\ LastEvent = "none"
    BY <1>1 DEF Init, Runs, Sent, Queued, LastEvent
  <1> QED
    BY <1>1, <1>2 DEF Init, ToolInv, OnceOnly, Emitted, StartsFirst, RoundsEnd,
       ToolsNeedExecutor, OwedNow

LEMMA ToolInvariant == Spec => [](SafetyInv /\ ToolInv)
  <1>1. Init => SafetyInv /\ ToolInv
    BY SafetyInit, ToolInit
  <1>2. SafetyInv /\ ToolInv /\ [Next]_vars => (SafetyInv /\ ToolInv)'
    BY SafetyStep, ToolStep
  <1> QED
    BY <1>1, <1>2, PTL DEF Spec

-------------------------------------------------------------------------------
(* The contract. *)

\* The state of the contract, as AgentStream's instance computes it.
Phase ==
  IF LastEvent = "on_chain_end" THEN "succeeded"
  ELSE IF LastEvent = "error" THEN "failed"
  ELSE IF conn = "gone" \/ pc \in Over THEN "cut"
  ELSE "open"

Owed == IF LastEvent = "tool_approval_required" THEN sent[Len(sent)].run ELSE NoRun

Unseen == UNCHANGED <<Phase, Runs("on_tool_start"), Runs("on_tool_end"), Owed>>

\* A step of the contract, or none.
ContractStep == Contract!Next \/ Unseen

LEMMA LiveIsOpen ==
  ASSUME SafetyInv, Live
  PROVE  Phase = "open" /\ LastEvent \notin Terminal
  <1>1. sent = <<>> \/ Len(sent) \in DOMAIN sent
    BY DEF SafetyInv, TypeInv, TypeOK
  <1>2. LastEvent \notin Terminal
    BY <1>1 DEF SafetyInv, TerminalIsLast, LastEvent, Terminal, Live, Over
  <1> QED
    BY <1>2 DEF Phase, Terminal, Live

\* An event of text, models or chains, while no approval is owed.
LEMMA PlainIsUnseen ==
  ASSUME SafetyInv, Live, Live', LastEvent # "tool_approval_required",
         NEW e, Shows(e),
         e.event \notin ToolEvents \cup Terminal \cup {"tool_approval_required"}
  PROVE  Unseen
  <1>1. /\ Runs("on_tool_start")' = Runs("on_tool_start")
        /\ Runs("on_tool_end")' = Runs("on_tool_end")
        /\ LastEvent' = e.event
    BY ShownRuns DEF SafetyInv, ToolEvents
  <1>2. Phase = "open" /\ Phase' = "open"
    BY <1>1, LiveIsOpen DEF Phase, Live, Terminal
  <1>3. Owed = NoRun /\ Owed' = NoRun
    BY <1>1 DEF Owed
  <1> QED
    BY <1>1, <1>2, <1>3 DEF Unseen

LEMMA PassingIsContract ==
  ASSUME SafetyInv, ToolInv, Live, NEW e, Passing(e)
  PROVE  ContractStep
  <1>0. TypeInv /\ Passes(e)
    BY PassingPasses DEF SafetyInv
  <1>1. /\ OnceOnly /\ Emitted /\ StartsFirst /\ OwedNow
        /\ Live' /\ 1 \in DOMAIN evq /\ evq \in Seq(RunnerEvents)
    BY <1>0, TailIndexed DEF ToolInv, Live, Passes, Over, TypeInv, TypeOK
  <1>2. /\ Runs("on_tool_start")' = IF e.event = "on_tool_start"
                                    THEN Runs("on_tool_start") \cup {e.run}
                                    ELSE Runs("on_tool_start")
        /\ Runs("on_tool_end")' = IF e.event = "on_tool_end"
                                  THEN Runs("on_tool_end") \cup {e.run}
                                  ELSE Runs("on_tool_end")
        /\ LastEvent' = e.event
    BY <1>0, ShownRuns DEF Passes
  <1>3. Phase = "open"
    BY LiveIsOpen
  <1>4. pc = "hitl" => e.event = "on_tool_end"
    BY <1>0 DEF Passes, TypeInv, QueueOK, ToolEvents
  <1>5. CASE e.event = "on_tool_start"
    <2>1. evq[1].event = "on_tool_start" /\ evq[1].run = e.run
      BY <1>0, <1>5 DEF Passes, ToolEvents
    <2>2. e.run \in RunIds
      BY <1>1, <2>1 DEF Emitted, Queued
    <2>3. e.run \notin Runs("on_tool_start")
      BY <1>1, <2>1 DEF OnceOnly, ToolEvents
    <2>4. Owed = NoRun /\ Owed' = NoRun /\ Phase' = "open"
      BY <1>1, <1>2, <1>4, <1>5 DEF OwedNow, Owed, Phase, Live
    <2>5. Contract!ToolBegins(e.run)
      BY <1>2, <1>3, <1>5, <2>3, <2>4 DEF Contract!ToolBegins, Phase, Owed
    <2> QED
      BY <2>2, <2>5 DEF ContractStep, Contract!Next
  <1>6. CASE e.event = "on_tool_end"
    <2>1. evq[1].event = "on_tool_end" /\ evq[1].run = e.run /\ e.run \in RunIds
      BY <1>0, <1>1, <1>6 DEF Passes, ToolEvents, TypeInv, QueueOK
    <2>2. e.run \in Runs("on_tool_start") \ Runs("on_tool_end")
      BY <1>1, <2>1 DEF OnceOnly, StartsFirst, ToolEvents
    <2>3. Owed \in {NoRun, e.run} /\ Owed' = NoRun /\ Phase' = "open"
      BY <1>1, <1>2, <1>6, <2>1 DEF OwedNow, Owed, Phase, Live
    <2>4. Contract!ToolEnds(e.run)
      BY <1>2, <1>3, <1>6, <2>2, <2>3 DEF Contract!ToolEnds, Phase, Owed
    <2> QED
      BY <2>1, <2>4 DEF ContractStep, Contract!Next
  <1>7. CASE e.event \notin ToolEvents
    <2>1. e.event \notin Terminal \cup {"tool_approval_required"}
      BY <1>7 DEF Passing, sse_event, Terminal, ToolEvents
    <2>2. LastEvent # "tool_approval_required"
      BY <1>1, <1>4, <1>7 DEF OwedNow, ToolEvents
    <2> QED
      BY <1>0, <1>1, <1>7, <2>1, <2>2, PlainIsUnseen DEF ContractStep, Passes
  <1> QED
    BY <1>5, <1>6, <1>7 DEF ToolEvents

\* The events that end a stream.
LEMMA EndIsContract ==
  ASSUME SafetyInv, ToolInv, Live, pc # "hitl", pc' = "returned", NEW e, Shows(e),
         e = sse_error \/ (/\ e.event = "on_chain_end"
                           /\ Runs("on_tool_start") = Runs("on_tool_end"))
  PROVE  ContractStep
  <1>1. e.event \in Terminal
    BY DEF sse_error, sse_event, Terminal
  <1>2. /\ Runs("on_tool_start")' = Runs("on_tool_start")
        /\ Runs("on_tool_end")' = Runs("on_tool_end")
        /\ LastEvent' = e.event
    BY <1>1, ShownRuns DEF SafetyInv, Terminal
  <1>3. Phase = "open" /\ Owed = NoRun /\ Owed' = NoRun
    BY <1>1, <1>2, LiveIsOpen DEF ToolInv, OwedNow, Owed, Terminal
  <1>4. CASE e = sse_error
    <2>1. Phase' = "failed"
      BY <1>2, <1>4 DEF Phase, sse_error, sse_event
    <2>2. Contract!Fails
      BY <1>2, <1>3, <2>1 DEF Contract!Fails, Phase, Owed
    <2> QED
      BY <2>2 DEF ContractStep, Contract!Next
  <1>5. CASE e.event = "on_chain_end" /\ Runs("on_tool_start") = Runs("on_tool_end")
    <2>1. Phase' = "succeeded"
      BY <1>2, <1>5 DEF Phase
    <2>2. Contract!Succeeds
      BY <1>2, <1>3, <1>5, <2>1 DEF Contract!Succeeds, Phase, Owed
    <2> QED
      BY <2>2 DEF ContractStep, Contract!Next
  <1> QED
    BY <1>4, <1>5

\* At the answer every run that was called was shown to its end.
LEMMA AnswerAccountsForTools ==
  ASSUME SafetyInv, ToolInv, Live, HandleChainEnd \/ SimpleEnd
  PROVE  Runs("on_tool_start") = Runs("on_tool_end")
  <1>1. OnceOnly /\ Emitted /\ StartsFirst /\ RoundsEnd /\ ToolsNeedExecutor
    BY DEF ToolInv
  <1>2. ASSUME HandleChainEnd PROVE Runs("on_tool_start") = Runs("on_tool_end")
    <2>1. evq # <<>> /\ evq \in Seq(RunnerEvents) /\ evq[1].event = "on_chain_end"
      BY <1>2, TailIndexed DEF HandleChainEnd, HeadIs, SafetyInv, TypeInv, TypeOK
    <2>2. 1 \in DOMAIN evq /\ DOMAIN evq = {1}
      <3>1. 1 \in DOMAIN evq /\ DOMAIN evq = 1 .. Len(evq)
        BY <2>1, TailIndexed
      <3>2. Len(evq) = 1
        BY <1>1, <2>1, <3>1 DEF RoundsEnd
      <3> QED
        BY <3>1, <3>2
    <2>3. step = "finished"
      BY <2>1, <2>2 DEF SafetyInv, FinishedLast
    <2>4. Queued("on_tool_start") = {} /\ Queued("on_tool_end") = {}
      BY <2>1, <2>2 DEF Queued
    <2>5. \A r \in RunIds : tool[r] \in {"unused", "ended"}
      BY <1>1, <2>3 DEF RoundsEnd
    <2> QED
      BY <1>1, <2>4, <2>5 DEF Emitted
  <1>3. ASSUME SimpleEnd PROVE Runs("on_tool_start") = Runs("on_tool_end")
    <2>1. ~executor
      BY <1>3 DEF SimpleEnd, SafetyInv, SimplePath
    <2> QED
      BY <1>1, <2>1 DEF Emitted, ToolsNeedExecutor
  <1> QED
    BY <1>2, <1>3

\* The generator ends with an event that was prepared for it, or without one.
LEMMA EndingIsContract ==
  ASSUME SafetyInv, ToolInv, Live,
         \/ SetupRefuses \/ HandleRaise \/ FormattingRaises \/ SimpleRaise
         \/ HandleChainEnd \/ SimpleEnd
  PROVE  ContractStep
  <1>1. pc # "hitl" /\ pc' = "returned"
    BY DEF SetupRefuses, HandleRaise, FormattingRaises, SimpleRaise, HandleChainEnd,
       SimpleEnd, EndsAs
  <1>2. ASSUME Yield(sse_error) PROVE ContractStep
    <2>1. Shows(sse_error)
      BY <1>2, YieldShows DEF SafetyInv, Live
    <2> QED
      BY <1>1, <2>1, EndIsContract
  <1>3. ASSUME NEW e, e.event = "on_chain_end", Yield(e), HandleChainEnd \/ SimpleEnd
        PROVE  ContractStep
    <2>1. Shows(e)
      BY <1>3, YieldShows DEF SafetyInv, Live
    <2>2. Runs("on_tool_start") = Runs("on_tool_end")
      BY <1>3, AnswerAccountsForTools
    <2> QED
      BY <1>1, <1>3, <2>1, <2>2, EndIsContract
  <1>4. CASE HandleChainEnd
    <2> DEFINE e == sse_event("on_chain_end", NoRun, TRUE, toolCalls, Head(evq).text)
    <2>1. e.event = "on_chain_end" /\ Yield(e)
      BY <1>4 DEF HandleChainEnd, sse_event
    <2> HIDE DEF e
    <2> QED
      BY <1>3, <1>4, <2>1
  <1>5. CASE SimpleEnd
    <2> DEFINE e == sse_event("on_chain_end", NoRun, TRUE, <<>>, fullResponse)
    <2>1. e.event = "on_chain_end" /\ Yield(e)
      BY <1>5 DEF SimpleEnd, sse_event
    <2> HIDE DEF e
    <2> QED
      BY <1>3, <1>5, <2>1
  <1> QED
    BY <1>2, <1>4, <1>5 DEF SetupRefuses, HandleRaise, FormattingRaises, SimpleRaise

LEMMA GeneratorIsContract ==
  ASSUME SafetyInv, ToolInv, Live, GeneratorNext
  PROVE  ContractStep
  <1>0. TypeInv
    BY DEF SafetyInv
  <1>1. CASE Passings
    BY <1>0, <1>1, PassingsPass, PassingIsContract
  <1>2. CASE SetupSucceeds
    <2>1. UNCHANGED <<sent, conn>> /\ pc' \notin Over
      BY <1>2 DEF SetupSucceeds, responseVars, Over
    <2> QED
      BY <2>1, RunsKept DEF ContractStep, Unseen, Phase, Owed, Live
  <1>3. CASE SetupEscapes
    <2>1. UNCHANGED <<sent, conn>> /\ pc' \in Over
      BY <1>3 DEF SetupEscapes, responseVars, EndsAs, Over
    <2>2. Phase = "open" /\ Phase' = "cut"
      BY <2>1, LiveIsOpen, RunsKept DEF Phase, Terminal
    <2>3. Contract!IsCut
      BY <2>1, <2>2, RunsKept DEF Contract!IsCut, Phase, Owed
    <2> QED
      BY <2>3 DEF ContractStep, Contract!Next
  <1>4. CASE HandleApproval
    <2>1. ToolInv' /\ conn' = conn /\ pc = "agent" /\ pc' = "hitl"
          /\ evq[1].event = "on_tool_end" /\ 1 \in DOMAIN evq /\ evq[1].run \in RunIds
      BY <1>0, <1>4, ApprovalKeepsTools DEF HandleApproval
    <2>2. PICK e : Shows(e) /\ e.event = "tool_approval_required" /\ e.run = evq[1].run
      BY <1>0, <1>4, ApprovalKeepsTools
    <2>3. /\ Runs("on_tool_start")' = Runs("on_tool_start")
          /\ Runs("on_tool_end")' = Runs("on_tool_end")
          /\ LastEvent' = e.event /\ sent'[Len(sent')] = e
      BY <1>0, <2>2, ShownRuns
    <2>4. e.run \in Runs("on_tool_start") \ Runs("on_tool_end")
      BY <2>1, <2>2 DEF ToolInv, OnceOnly, StartsFirst, ToolEvents
    <2>5. Phase = "open" /\ Phase' = "open"
      BY <2>1, <2>2, <2>3, LiveIsOpen DEF Phase, Live, Over
    <2>6. Owed = NoRun /\ Owed' = e.run
      BY <2>1, <2>2, <2>3 DEF Owed, ToolInv, OwedNow
    <2>7. Contract!ApprovalAnnounced(e.run)
      BY <2>3, <2>4, <2>5, <2>6 DEF Contract!ApprovalAnnounced, Phase, Owed
    <2> QED
      BY <2>1, <2>2, <2>7 DEF ContractStep, Contract!Next
  <1>5. CASE SimpleStart
    <2>1. ToolInv' /\ conn' = conn /\ pc = "simpleStart" /\ pc' = "simple"
      BY <1>5, SimpleStartKeepsTools DEF SimpleStart
    <2>2. PICK e : Shows(e) /\ e.event = "on_chat_model_start"
      BY <1>5, SimpleStartKeepsTools
    <2>3. LastEvent # "tool_approval_required" /\ Live'
      BY <2>1 DEF ToolInv, OwedNow, Live, Over
    <2> QED
      BY <2>2, <2>3, PlainIsUnseen DEF ContractStep, ToolEvents, Terminal
  <1> QED
    BY <1>1, <1>2, <1>3, <1>4, <1>5, EndingIsContract DEF GeneratorNext, Passings

LEMMA StepIsContract ==
  ASSUME SafetyInv, ToolInv, [Next]_vars
  PROVE  ContractStep
  <1>s. ASSUME UNCHANGED sent, Phase' = Phase PROVE ContractStep
    BY <1>s, RunsKept DEF ContractStep, Unseen, Owed
  <1>c. ASSUME UNCHANGED sent, Live, Phase' = "cut" PROVE ContractStep
    <2>1. Contract!IsCut
      BY <1>c, LiveIsOpen, RunsKept DEF Contract!IsCut, Phase, Owed
    <2> QED
      BY <2>1 DEF ContractStep, Contract!Next
  <1>0. conn \in {"open", "gone"} /\ TypeInv
    BY DEF SafetyInv, TypeInv, TypeOK
  <1>1. CASE UNCHANGED <<sent, conn, pc>>
    BY <1>1, <1>s, RunsKept DEF Phase
  <1>2. CASE GeneratorNext
    <2>1. CASE Live
      BY <1>2, <2>1, GeneratorIsContract
    <2>2. CASE ~Live
      <3>1. pc \notin Over
        BY <1>2 DEF GeneratorNext, SetupSucceeds, SetupRefuses, SetupEscapes,
           HandleChainStart, HandleModelStart, HandleToken, HandleToolStart, HandleToolEnd,
           HandleApproval, HandleApprovalEnd, HandleChainEnd, HandleRaise, FormattingRaises,
           SimpleStart, SimpleToken, SimpleRaise, SimpleEnd, Over
      <3>2. conn = "gone"
        BY <1>0, <2>2, <3>1 DEF Live
      <3>3. UNCHANGED <<sent, conn>>
        BY <1>2, <3>2 DEF GeneratorNext, SetupSucceeds, SetupRefuses, SetupEscapes,
           HandleChainStart, HandleModelStart, HandleToken, HandleToolStart, HandleToolEnd,
           HandleApproval, HandleApprovalEnd, HandleChainEnd, HandleRaise, FormattingRaises,
           SimpleStart, SimpleToken, SimpleRaise, SimpleEnd, Yield, responseVars
      <3> QED
        BY <1>s, <3>2, <3>3, RunsKept DEF Phase
    <2> QED
      BY <2>1, <2>2
  <1>3. CASE ClientLeaves
    <2>1. UNCHANGED <<sent, pc>> /\ conn = "open" /\ conn' = "gone"
      BY <1>3 DEF ClientLeaves, generatorVars
    <2>2. CASE Live
      BY <1>c, <2>1, <2>2, LiveIsOpen, RunsKept DEF Phase, Terminal
    <2>3. CASE pc \in Over
      BY <1>s, <2>1, <2>3, RunsKept DEF Phase
    <2> QED
      BY <2>1, <2>2, <2>3 DEF Live
  <1>4. CASE GeneratorCancelled
    BY <1>4, <1>s, RunsKept DEF GeneratorCancelled, responseVars, Phase
  <1>5. CASE InstanceStops
    <2>1. UNCHANGED sent /\ pc \notin Over /\ conn' = "gone"
      BY <1>5 DEF InstanceStops
    <2>2. CASE Live
      BY <1>c, <2>1, <2>2, LiveIsOpen, RunsKept DEF Phase, Terminal
    <2>3. CASE conn = "gone"
      BY <1>s, <2>1, <2>3, RunsKept DEF Phase
    <2> QED
      BY <1>0, <2>1, <2>2, <2>3 DEF Live
  <1>6. CASE RunnerNext
    BY <1>0, <1>1, <1>6, RunnerIsBystander DEF RunnerNext, ChainStarts, ModelStarts,
       ModelStreams, ModelCallsTools, ToolStarts, ToolAnswers, ToolQueuesApproval, ToolEnds,
       RunnerFinishes, IterationLimit, RunnerRaises, RunnerCancelled, responseVars
  <1>7. CASE UNCHANGED vars
    BY <1>1, <1>7 DEF vars, responseVars, generatorVars
  <1> QED
    BY <1>2, <1>3, <1>4, <1>5, <1>6, <1>7 DEF Next

\* The stream of stream.py, whatever the runner, the tools and the client do, is one that
\* StreamContract allows.
THEOREM StreamImplementsContract == Spec => ContractSpec
  <1>1. Init => Contract!Init
    <2>1. ASSUME Init PROVE DOMAIN sent = {} /\ LastEvent = "none"
      BY <2>1 DEF Init, LastEvent
    <2>2. ASSUME Init, NEW k PROVE Runs(k) = {}
      BY <2>1, <2>2 DEF Runs, Sent
    <2> QED
      BY <2>1, <2>2 DEF Init, Contract!Init, Over
  <1>2. SafetyInv /\ ToolInv /\ [Next]_vars => [Contract!Next]_(Contract!contractVars)
    <2>1. Unseen => UNCHANGED Contract!contractVars
      BY DEF Unseen, Phase, Owed, Contract!contractVars
    <2> QED
      BY <2>1, StepIsContract DEF ContractStep
  <1> QED
    BY <1>1, <1>2, ToolInvariant, PTL DEF Spec, ContractSpec, Contract!Spec

-------------------------------------------------------------------------------
(* Approvals. *)

\* A run that asks for approval has committed its row, also while its end is queued.
ApprovalsCommitted ==
  /\ \A r \in RunIds : tool[r] = "approval" => r \in approvals
  /\ \A i \in DOMAIN evq :
       evq[i].event = "on_tool_end" /\ evq[i].out = "approval" => evq[i].run \in approvals

LEMMA RunnerKeepsApprovals ==
  ASSUME TypeInv, ApprovalsCommitted, RunnerNext
  PROVE  ApprovalsCommitted' /\ approvals \subseteq approvals' /\ sent' = sent
  <1>0. evq \in Seq(RunnerEvents) /\ tool \in [RunIds -> ToolStates]
    BY DEF TypeInv, TypeOK
  <1>1. ASSUME NEW k, NEW r, NEW o, NEW t, Emit(RunnerEvent(k, r, o, t)),
               k = "on_tool_end" /\ o = "approval" => r \in approvals,
               approvals' = approvals
        PROVE  \A i \in DOMAIN evq' :
                 evq'[i].event = "on_tool_end" /\ evq'[i].out = "approval" =>
                   evq'[i].run \in approvals'
    <2> DEFINE e == RunnerEvent(k, r, o, t)
    <2>1. e.event = k /\ e.run = r /\ e.out = o
      BY DEF RunnerEvent
    <2>2. evq' = evq \/ Queues(e)
      BY <1>1, EmitQueues
    <2> HIDE DEF e
    <2>3. CASE evq' = evq
      BY <1>1, <2>3 DEF ApprovalsCommitted
    <2>4. CASE Queues(e)
      <3>1. DOMAIN evq' = DOMAIN evq \cup {Len(evq) + 1}
            /\ \A i \in DOMAIN evq : evq'[i] = evq[i]
        BY <1>0, <2>4 DEF Queues
      <3> QED
        BY <1>1, <2>1, <2>4, <3>1 DEF Queues, ApprovalsCommitted
    <2> QED
      BY <2>2, <2>3, <2>4
  <1>2. ASSUME UNCHANGED evq, approvals \subseteq approvals'
        PROVE  \A i \in DOMAIN evq' :
                 evq'[i].event = "on_tool_end" /\ evq'[i].out = "approval" =>
                   evq'[i].run \in approvals'
    BY <1>2 DEF ApprovalsCommitted
  <1>3. sent' = sent
    BY RunnerIsBystander
  <1> DEFINE Goal == ApprovalsCommitted' /\ approvals \subseteq approvals'
  <1>4. ASSUME ChainStarts PROVE Goal
    BY <1>1, <1>4 DEF ChainStarts, ApprovalsCommitted, databaseVars
  <1>5. ASSUME ModelStarts PROVE Goal
    BY <1>1, <1>5 DEF ModelStarts, ApprovalsCommitted, databaseVars
  <1>6. ASSUME ModelStreams PROVE Goal
    BY <1>1, <1>6 DEF ModelStreams, ApprovalsCommitted, databaseVars
  <1>7. ASSUME NEW S \in SUBSET RunIds, ModelCallsTools(S) PROVE Goal
    BY <1>2, <1>7 DEF ModelCallsTools, ApprovalsCommitted, databaseVars
  <1>8. ASSUME NEW r \in RunIds, ToolStarts(r) PROVE Goal
    <2>1. \A q \in RunIds : tool'[q] = "approval" => tool[q] = "approval"
      BY <1>0, <1>8 DEF ToolStarts
    <2> QED
      BY <1>1, <1>8, <2>1 DEF ToolStarts, ApprovalsCommitted, databaseVars
  <1>9. ASSUME NEW r \in RunIds, NEW out \in Outcomes,
               ToolAnswers(r, out) \/ ToolQueuesApproval(r, out)
        PROVE  Goal
    <2>1. approvals \subseteq approvals' /\ UNCHANGED evq
      BY <1>9 DEF ToolAnswers, ToolQueuesApproval, databaseVars
    <2>2. \A q \in RunIds : tool'[q] = "approval" =>
            tool[q] = "approval" \/ (q = r /\ r \in approvals')
      BY <1>0, <1>9 DEF ToolAnswers, ToolQueuesApproval
    <2> QED
      BY <1>2, <2>1, <2>2 DEF ApprovalsCommitted
  <1>10. ASSUME NEW r \in RunIds, ToolEnds(r) PROVE Goal
    <2>1. \A q \in RunIds : tool'[q] = "approval" => tool[q] = "approval"
      BY <1>0, <1>10 DEF ToolEnds
    <2>2. tool[r] = "approval" => r \in approvals
      BY DEF ApprovalsCommitted
    <2> QED
      BY <1>1, <1>10, <2>1, <2>2 DEF ToolEnds, ApprovalsCommitted, databaseVars
  <1>11. ASSUME RunnerFinishes \/ IterationLimit \/ RunnerRaises PROVE Goal
    <2>1. \E k, t : k # "on_tool_end" /\ Emit(RunnerEvent(k, NoRun, "result", t))
      BY <1>11 DEF RunnerFinishes, IterationLimit, RunnerRaises
    <2>2. tool' = tool /\ approvals' = approvals
      BY <1>11 DEF RunnerFinishes, IterationLimit, RunnerRaises, databaseVars
    <2> QED
      BY <1>1, <2>1, <2>2 DEF ApprovalsCommitted
  <1>12. ASSUME RunnerCancelled PROVE Goal
    BY <1>2, <1>12 DEF RunnerCancelled, ApprovalsCommitted, databaseVars
  <1> QED
    BY <1>3, <1>4, <1>5, <1>6, <1>7, <1>8, <1>9, <1>10, <1>11, <1>12 DEF RunnerNext

\* The generator only takes events off the queue, and commits no approval.
LEMMA OthersKeepApprovals ==
  ASSUME TypeInv, ApprovalsCommitted,
         GeneratorNext \/ ClientLeaves \/ GeneratorCancelled \/ InstanceStops \/ UNCHANGED vars
  PROVE  ApprovalsCommitted' /\ approvals' = approvals
  <1>1. tool' = tool /\ approvals' = approvals
    BY DEF GeneratorNext, SetupSucceeds, SetupRefuses, SetupEscapes,
       HandleChainStart, HandleModelStart, HandleToken, HandleToolStart, HandleToolEnd,
       HandleApproval, HandleApprovalEnd, HandleChainEnd, HandleRaise, FormattingRaises,
       SimpleStart, SimpleToken, SimpleRaise, SimpleEnd, ClientLeaves, GeneratorCancelled,
       InstanceStops, runnerVars, runnerButQueue, databaseVars, persist_user_message,
       persist_ai_message, StoreCommits, StoreFails, vars
  <1>2. \/ evq' = evq \/ evq' = <<>>
        \/ evq # <<>> /\ Takes
    BY DEF GeneratorNext, SetupSucceeds, SetupRefuses, SetupEscapes,
       HandleChainStart, HandleModelStart, HandleToken, HandleToolStart, HandleToolEnd,
       HandleApproval, HandleApprovalEnd, HandleChainEnd, HandleRaise, FormattingRaises,
       SimpleStart, SimpleToken, SimpleRaise, SimpleEnd, ClientLeaves, GeneratorCancelled,
       InstanceStops, runnerVars, EndsAs, HeadIs, TypeInv, QueueOK, vars
  <1>3. \A i \in DOMAIN evq' : \E j \in DOMAIN evq : evq'[i] = evq[j]
    <2>1. CASE evq' = evq
      BY <2>1
    <2>2. CASE evq' = <<>>
      BY <2>2
    <2>3. CASE evq # <<>> /\ Takes
      BY <2>3, TailIndexed DEF Takes, TypeInv, TypeOK
    <2> QED
      BY <1>2, <2>1, <2>2, <2>3
  <1> QED
    BY <1>1, <1>3 DEF ApprovalsCommitted

\* After an announced approval the next event shown is the end of its run.
LEMMA ShownKeepsApprovals ==
  ASSUME SafetyInv, ToolInv, Live, ApprovalsAnnouncedWhole, approvals' = approvals,
         NEW e, Shows(e),
         e.event = "tool_approval_required" => e.run \in approvals,
         pc = "hitl" => e.event = "on_tool_end" /\ e.run = evq[1].run /\ ~e.data
  PROVE  ApprovalsAnnouncedWhole'
  <1>1. DOMAIN sent = 1 .. Len(sent) /\ Len(sent) \in Nat /\ OwedNow
    BY DEF SafetyInv, TypeInv, TypeOK, ToolInv
  <1> SUFFICES ASSUME NEW i \in DOMAIN sent', sent'[i].event = "tool_approval_required"
               PROVE  /\ sent'[i].run \in approvals
                      /\ i < Len(sent') =>
                           /\ sent'[i + 1].event = "on_tool_end"
                           /\ sent'[i + 1].run = sent'[i].run
                           /\ ~sent'[i + 1].data
    BY DEF ApprovalsAnnouncedWhole, Sent
  <1>2. CASE i = Len(sent) + 1
    BY <1>1, <1>2 DEF Shows
  <1>3. CASE i \in 1 .. Len(sent)
    <2>1. sent'[i] = sent[i] /\ sent[i].run \in approvals
      BY <1>1, <1>3 DEF Shows, ApprovalsAnnouncedWhole, Sent
    <2>2. CASE i < Len(sent)
      <3>1. i + 1 \in 1 .. Len(sent) /\ sent'[i + 1] = sent[i + 1]
        BY <1>1, <1>3, <2>2 DEF Shows
      <3> QED
        BY <1>1, <1>3, <2>1, <2>2, <3>1 DEF ApprovalsAnnouncedWhole, Sent
    <2>3. CASE i = Len(sent)
      <3>1. LastEvent = "tool_approval_required"
        BY <1>3, <2>1, <2>3 DEF LastEvent
      <3>2. sent[i].run = e.run /\ e.event = "on_tool_end" /\ ~e.data
        BY <1>1, <2>3, <3>1 DEF OwedNow
      <3> QED
        BY <2>1, <2>3, <3>2 DEF Shows
    <2> QED
      BY <1>1, <1>3, <2>2, <2>3
  <1> QED
    BY <1>1, <1>2, <1>3 DEF Shows

ApprovalInv == ApprovalsCommitted /\ ApprovalsAnnouncedWhole

LEMMA ApprovalStep ==
  ASSUME SafetyInv, ToolInv, ApprovalInv, [Next]_vars
  PROVE  ApprovalInv'
  <1>0. TypeInv
    BY DEF SafetyInv
  <1>s. ASSUME UNCHANGED sent, approvals \subseteq approvals'
        PROVE  ApprovalsAnnouncedWhole'
    BY <1>s DEF ApprovalInv, ApprovalsAnnouncedWhole, Sent
  <1>1. CASE RunnerNext
    BY <1>0, <1>1, <1>s, RunnerKeepsApprovals DEF ApprovalInv
  <1>2. ASSUME GeneratorNext \/ ClientLeaves \/ GeneratorCancelled \/ InstanceStops
                 \/ UNCHANGED vars
        PROVE  ApprovalsCommitted' /\ approvals' = approvals
    BY <1>0, <1>2, OthersKeepApprovals DEF ApprovalInv
  <1>3. CASE ClientLeaves \/ GeneratorCancelled \/ InstanceStops \/ UNCHANGED vars
    <2>1. UNCHANGED sent
      BY <1>3 DEF ClientLeaves, GeneratorCancelled, InstanceStops, vars, responseVars
    <2> QED
      BY <1>2, <1>3, <1>s, <2>1 DEF ApprovalInv
  <1>4. CASE GeneratorNext
    <2>0. ApprovalsCommitted' /\ approvals' = approvals
      BY <1>2, <1>4
    <2> SUFFICES ASSUME sent' # sent PROVE ApprovalsAnnouncedWhole'
      BY <1>s, <2>0 DEF ApprovalInv
    <2>1. Live
      BY <1>0, StepIsBystander, <1>4 DEF GeneratorNext, SetupSucceeds, SetupRefuses, SetupEscapes,
         HandleChainStart, HandleModelStart, HandleToken, HandleToolStart, HandleToolEnd,
         HandleApproval, HandleApprovalEnd, HandleChainEnd, HandleRaise, FormattingRaises,
         SimpleStart, SimpleToken, SimpleRaise, SimpleEnd, Yield, responseVars, Live, Over
    <2>2. ASSUME NEW e, Shows(e), pc # "hitl", e.event # "tool_approval_required"
          PROVE  ApprovalsAnnouncedWhole'
      BY <2>0, <2>1, <2>2, ShownKeepsApprovals DEF ApprovalInv
    <2>3. ASSUME NEW e, Passing(e) PROVE ApprovalsAnnouncedWhole'
      <3>1. Shows(e) /\ e.event # "tool_approval_required"
        BY <1>0, <2>1, <2>3, PassingPasses DEF Passes
      <3>2. CASE pc # "hitl"
        BY <2>2, <3>1, <3>2
      <3>3. CASE pc = "hitl"
        <4>1. e = sse_event("on_tool_end", Head(evq).run, FALSE, <<>>, <<>>)
          BY <2>3, <3>3 DEF Passing, HandleChainStart, HandleModelStart, HandleToken,
             SimpleToken, HandleToolStart, HandleToolEnd
        <4>2. Head(evq) = evq[1]
          BY <1>0, <3>3, HeadTyped DEF TypeInv, QueueOK
        <4>3. e.event = "on_tool_end" /\ e.run = evq[1].run /\ ~e.data
          BY <4>1, <4>2 DEF sse_event
        <4> QED
          BY <2>0, <2>1, <3>1, <4>3, ShownKeepsApprovals DEF ApprovalInv
      <3> QED
        BY <3>2, <3>3
    <2>4. CASE HandleApproval
      <3>1. PICK e : Shows(e) /\ e.event = "tool_approval_required" /\ e.run = evq[1].run
        BY <1>0, <2>1, <2>4, ApprovalKeepsTools
      <3>2. evq[1].event = "on_tool_end" /\ 1 \in DOMAIN evq /\ pc = "agent"
        BY <1>0, <2>1, <2>4, ApprovalKeepsTools
      <3>3. evq[1].out = "approval"
        BY <1>0, <2>4, HeadTyped DEF HandleApproval, HeadIs
      <3>4. e.run \in approvals
        BY <3>1, <3>2, <3>3 DEF ApprovalInv, ApprovalsCommitted
      <3> QED
        BY <2>0, <2>1, <3>1, <3>2, <3>4, ShownKeepsApprovals DEF ApprovalInv
    <2>5. CASE SimpleStart
      BY <2>1, <2>2, <2>5, SimpleStartKeepsTools DEF SimpleStart
    <2>6. CASE \/ SetupRefuses \/ HandleRaise \/ FormattingRaises \/ SimpleRaise
               \/ HandleChainEnd \/ SimpleEnd
      <3>1. \E e : Yield(e) /\ e.event # "tool_approval_required"
        BY <2>6 DEF SetupRefuses, HandleRaise, FormattingRaises, SimpleRaise, HandleChainEnd,
           SimpleEnd, sse_error, sse_event
      <3>2. pc # "hitl"
        BY <2>6 DEF SetupRefuses, HandleRaise, FormattingRaises, SimpleRaise, HandleChainEnd,
           SimpleEnd
      <3> QED
        BY <1>0, <2>1, <2>2, <3>1, <3>2, YieldShows DEF Live
    <2>7. CASE SetupSucceeds \/ SetupEscapes
      BY <2>7 DEF SetupSucceeds, SetupEscapes, responseVars
    <2>8. CASE Passings
      BY <1>0, <2>1, <2>3, <2>8, PassingsPass
    <2> QED
      BY <1>4, <2>4, <2>5, <2>6, <2>7, <2>8 DEF GeneratorNext, Passings
  <1> QED
    BY <1>1, <1>3, <1>4 DEF Next

\* An announced approval is committed and followed by the end of its run at once, for
\* every order in which tools end and wherever the client leaves.
THEOREM ApprovalsAreWhole == Spec => []ApprovalsAnnouncedWhole
  <1>1. Init => ApprovalInv
    <2>1. Init => DOMAIN sent = {} /\ DOMAIN evq = {} /\ \A r \in RunIds : tool[r] = "unused"
      BY DEF Init
    <2> QED
      BY <2>1 DEF ApprovalInv, ApprovalsCommitted, ApprovalsAnnouncedWhole, Sent
  <1>2. ApprovalInv /\ (SafetyInv /\ ToolInv) /\ [Next]_vars => ApprovalInv'
    BY ApprovalStep
  <1>3. ApprovalInv => ApprovalsAnnouncedWhole
    BY DEF ApprovalInv
  <1> QED
    BY <1>1, <1>2, <1>3, ToolInvariant, PTL DEF Spec

-------------------------------------------------------------------------------
(* What is written after the end. *)

\* A tool whose end was shown has ended.
ShownHaveEnded == \A r \in RunIds : r \in Runs("on_tool_end") => tool[r] = "ended"

\* No step takes an end back.
LEMMA EndedStays ==
  ASSUME TypeInv, [Next]_vars
  PROVE  \A r \in RunIds : tool[r] = "ended" => tool'[r] = "ended"
  <1>0. tool \in [RunIds -> ToolStates]
    BY DEF TypeInv, TypeOK
  <1> DEFINE Goal == \A r \in RunIds : tool[r] = "ended" => tool'[r] = "ended"
  <1>1. CASE UNCHANGED tool
    BY <1>1
  <1>2. ASSUME NEW S \in SUBSET RunIds, ModelCallsTools(S) PROVE Goal
    BY <1>0, <1>2 DEF ModelCallsTools
  <1>3. ASSUME NEW r \in RunIds, ToolStarts(r) PROVE Goal
    BY <1>0, <1>3 DEF ToolStarts
  <1>4. ASSUME NEW r \in RunIds, NEW out \in Outcomes,
               ToolAnswers(r, out) \/ ToolQueuesApproval(r, out)
        PROVE  Goal
    BY <1>0, <1>4 DEF ToolAnswers, ToolQueuesApproval
  <1>5. ASSUME NEW r \in RunIds, ToolEnds(r) PROVE Goal
    BY <1>0, <1>5 DEF ToolEnds
  <1>6. CASE RunnerNext
    <2>1. ASSUME ChainStarts \/ ModelStarts \/ ModelStreams \/ RunnerFinishes
                   \/ IterationLimit \/ RunnerRaises \/ RunnerCancelled
          PROVE  UNCHANGED tool
      BY <2>1 DEF ChainStarts, ModelStarts, ModelStreams, RunnerFinishes, IterationLimit,
         RunnerRaises, RunnerCancelled
    <2> QED
      BY <1>1, <1>2, <1>3, <1>4, <1>5, <1>6, <2>1 DEF RunnerNext
  <1>7. CASE GeneratorNext
    BY <1>1, <1>7 DEF GeneratorNext, SetupSucceeds, SetupRefuses, SetupEscapes,
       HandleChainStart, HandleModelStart, HandleToken, HandleToolStart, HandleToolEnd,
       HandleApproval, HandleApprovalEnd, HandleChainEnd, HandleRaise, FormattingRaises,
       SimpleStart, SimpleToken, SimpleRaise, SimpleEnd, runnerVars, runnerButQueue
  <1>8. CASE ClientLeaves \/ GeneratorCancelled \/ InstanceStops \/ UNCHANGED vars
    BY <1>1, <1>8 DEF ClientLeaves, GeneratorCancelled, InstanceStops, vars, runnerVars,
       runnerButQueue
  <1> QED
    BY <1>6, <1>7, <1>8 DEF Next

\* While the generator listens, what was shown was emitted.  Its last event is no end of a
\* tool, and after it nothing is shown.
LEMMA ShownHaveEndedStep ==
  ASSUME SafetyInv, ToolInv, ShownHaveEnded, [Next]_vars
  PROVE  ShownHaveEnded'
  <1>0. TypeInv
    BY DEF SafetyInv
  <1>1. CASE Runs("on_tool_end")' \subseteq Runs("on_tool_end")
    BY <1>0, <1>1, EndedStays DEF ShownHaveEnded
  <1>2. CASE UNCHANGED sent
    BY <1>1, <1>2, RunsKept
  <1>3. CASE Live'
    BY <1>3, ToolStep DEF ToolInv, Emitted, ShownHaveEnded
  <1>4. CASE sent' # sent /\ ~ Live'
    <2>1. GeneratorNext
      BY <1>0, <1>4, RunnerIsBystander DEF Next, ClientLeaves, GeneratorCancelled,
         InstanceStops, vars, responseVars
    <2>2. conn' = conn /\ conn = "open"
      BY <1>4, <2>1 DEF GeneratorNext, SetupSucceeds, SetupRefuses, SetupEscapes,
         HandleChainStart, HandleModelStart, HandleToken, HandleToolStart, HandleToolEnd,
         HandleApproval, HandleApprovalEnd, HandleChainEnd, HandleRaise, FormattingRaises,
         SimpleStart, SimpleToken, SimpleRaise, SimpleEnd, Yield, responseVars
    <2>3. pc' \in Over
      BY <1>4, <2>2 DEF Live
    <2>4. \/ SetupRefuses \/ HandleRaise \/ FormattingRaises \/ SimpleRaise
          \/ HandleChainEnd \/ SimpleEnd
      BY <1>4, <2>1, <2>3 DEF GeneratorNext, SetupSucceeds, SetupEscapes,
         HandleChainStart, HandleModelStart, HandleToken, HandleToolStart, HandleToolEnd,
         HandleApproval, HandleApprovalEnd, SimpleStart, SimpleToken, generatorVars,
         responseVars, Over
    <2>5. PICK e : Yield(e) /\ e.event # "on_tool_end"
      BY <2>4 DEF SetupRefuses, HandleRaise, FormattingRaises, SimpleRaise, HandleChainEnd,
         SimpleEnd, sse_error, sse_event
    <2>6. Shows(e)
      BY <1>0, <2>2, <2>5, YieldShows
    <2> QED
      BY <1>0, <1>1, <2>5, <2>6, ShownRuns
  <1> QED
    BY <1>2, <1>3, <1>4

\* A generator that is over writes no message.
LEMMA OverWritesNothing ==
  ASSUME TypeInv, [Next]_vars, pc = "returned"
  PROVE  UNCHANGED <<messages, lost>>
  <1>1. ~ Writers
    BY DEF Writers, HandleModelStart, SimpleStart, HandleChainEnd, SimpleEnd
  <1> QED
    BY <1>1, StepIsBystander DEF Bystander

\* An approval is committed by a tool that is running, in a round that goes on or was
\* given up.
LEMMA NewApproval ==
  ASSUME TypeInv, [Next]_vars, NEW r \in approvals', r \notin approvals
  PROVE  r \in RunIds /\ tool[r] = "running" /\ step \in {"tools", "raised"}
  <1>1. CASE RunnerNext
    BY <1>1 DEF RunnerNext, ChainStarts, ModelStarts, ModelStreams, ModelCallsTools,
       ToolStarts, ToolAnswers, ToolQueuesApproval, ToolEnds, RunnerFinishes,
       IterationLimit, RunnerRaises, RunnerCancelled, databaseVars
  <1>2. CASE GeneratorNext
    BY <1>2 DEF GeneratorNext, SetupSucceeds, SetupRefuses, SetupEscapes,
       HandleChainStart, HandleModelStart, HandleToken, HandleToolStart, HandleToolEnd,
       HandleApproval, HandleApprovalEnd, HandleChainEnd, HandleRaise, FormattingRaises,
       SimpleStart, SimpleToken, SimpleRaise, SimpleEnd, databaseVars, persist_user_message,
       persist_ai_message, StoreCommits, StoreFails
  <1>3. CASE ClientLeaves \/ GeneratorCancelled \/ InstanceStops \/ UNCHANGED vars
    BY <1>3 DEF ClientLeaves, GeneratorCancelled, InstanceStops, vars, databaseVars
  <1> QED
    BY <1>1, <1>2, <1>3 DEF Next

\* Once the client saw success the turn writes nothing more: the generator is over, and the
\* runner emitted its last event with no tool left in flight.  Once it saw an error no
\* message is written, and only tools whose end it was not shown still commit approvals.
THEOREM EndsAreFinal == Spec => EndIsFinal
  <1>1. ASSUME SafetyInv, ShownHaveEnded, [Next]_vars
        PROVE  /\ Sent("on_chain_end") # {} => UNCHANGED databaseVars
               /\ Sent("error") # {} =>
                    /\ UNCHANGED <<messages, lost>>
                    /\ approvals' \cap Runs("on_tool_end") \subseteq approvals
    <2>1. /\ TypeInv
          /\ Sent("on_chain_end") \cup Sent("error") # {} => pc = "returned"
          /\ Sent("on_chain_end") # {} => step = "finished"
      BY <1>1 DEF SafetyInv, FinishedLast, TerminalIsLast, Sent, Terminal
    <2>2. Sent("on_chain_end") # {} => approvals' \subseteq approvals
      BY <1>1, <2>1, NewApproval
    <2>3. approvals \subseteq approvals'
      <3>1. CASE RunnerNext
        BY <3>1 DEF RunnerNext, ChainStarts, ModelStarts, ModelStreams, ModelCallsTools,
           ToolStarts, ToolAnswers, ToolQueuesApproval, ToolEnds, RunnerFinishes,
           IterationLimit, RunnerRaises, RunnerCancelled, databaseVars
      <3>2. CASE GeneratorNext
        BY <3>2 DEF GeneratorNext, SetupSucceeds, SetupRefuses, SetupEscapes,
           HandleChainStart, HandleModelStart, HandleToken, HandleToolStart, HandleToolEnd,
           HandleApproval, HandleApprovalEnd, HandleChainEnd, HandleRaise, FormattingRaises,
           SimpleStart, SimpleToken, SimpleRaise, SimpleEnd, databaseVars,
           persist_user_message, persist_ai_message, StoreCommits, StoreFails
      <3>3. CASE ClientLeaves \/ GeneratorCancelled \/ InstanceStops \/ UNCHANGED vars
        BY <3>3 DEF ClientLeaves, GeneratorCancelled, InstanceStops, vars, databaseVars
      <3> QED
        BY <1>1, <3>1, <3>2, <3>3 DEF Next
    <2>4. approvals' \cap Runs("on_tool_end") \subseteq approvals
      BY <1>1, <2>1, NewApproval DEF ShownHaveEnded
    <2>5. Sent("on_chain_end") \cup Sent("error") # {} => UNCHANGED <<messages, lost>>
      BY <1>1, <2>1, OverWritesNothing
    <2> QED
      BY <2>2, <2>3, <2>4, <2>5 DEF databaseVars
  <1>2. Init => ShownHaveEnded
    <2>1. Init => DOMAIN sent = {}
      BY DEF Init
    <2> QED
      BY <2>1 DEF ShownHaveEnded, Runs, Sent
  <1>3. ShownHaveEnded /\ (SafetyInv /\ ToolInv) /\ [Next]_vars => ShownHaveEnded'
    BY ShownHaveEndedStep
  <1>4. ShownHaveEnded /\ (SafetyInv /\ ToolInv) /\ [Next]_vars =>
          [/\ Sent("on_chain_end") # {} => UNCHANGED databaseVars
           /\ Sent("error") # {} =>
                /\ UNCHANGED <<messages, lost>>
                /\ approvals' \cap Runs("on_tool_end") \subseteq approvals]_vars
    BY <1>1
  <1> QED
    BY <1>2, <1>3, <1>4, ToolInvariant, PTL DEF Spec, EndIsFinal

-------------------------------------------------------------------------------
(* The stored tool calls are the shown ones.  While the client is there and *)
(* the generator runs, toolCalls is the list of the runs it was shown.      *)

\* An event that shows the outcome of a tool call.
ShowsCall(e) == e.event = "on_tool_end" /\ e.data

ShownPlaces == {i \in Sent("on_tool_end") : sent[i].data}

\* ShownCalls grows with the events that show an outcome, and with no other.
LEMMA ShownCallsGrow ==
  ASSUME TypeInv, NEW e, Shows(e)
  PROVE  ShownCalls' = IF ShowsCall(e) THEN Append(ShownCalls, e.run) ELSE ShownCalls
  <1> DEFINE n == Len(sent)
             kept == Kept(ShownPlaces, n)
             kept2 == Kept(ShownPlaces', n + 1)
  <1>1. /\ n \in Nat /\ DOMAIN sent = 1 .. n
        /\ Len(sent') = n + 1 /\ DOMAIN sent' = 1 .. n + 1
        /\ sent'[n + 1] = e
        /\ \A i \in 1 .. n : sent'[i] = sent[i]
    BY DEF TypeInv, TypeOK, Shows
  <1>2. \A i \in 1 .. n : i \in ShownPlaces' <=> i \in ShownPlaces
    BY <1>1 DEF ShownPlaces, Sent
  <1>3. n + 1 \in ShownPlaces' <=> ShowsCall(e)
    BY <1>1 DEF ShownPlaces, Sent, ShowsCall
  <1>4. Kept(ShownPlaces', n) = kept
    BY <1>1, <1>2, KeptSame
  <1>5. kept2 = IF ShowsCall(e) THEN Append(kept, n + 1) ELSE kept
    <2>1. kept2 = IF n + 1 \in ShownPlaces' THEN Append(Kept(ShownPlaces', n), n + 1)
                  ELSE Kept(ShownPlaces', n)
      BY <1>1, KeptNext
    <2> QED
      BY <2>1, <1>3, <1>4
  <1>6. /\ kept \in Seq(Nat) /\ DOMAIN kept = 1 .. Len(kept) /\ Len(kept) \in Nat
        /\ \A k \in DOMAIN kept : kept[k] \in 1 .. n
    BY <1>1, KeptType
  <1>7. /\ ShownCalls = [k \in DOMAIN kept |-> sent[kept[k]].run]
        /\ ShownCalls' = [k \in DOMAIN kept2 |-> sent'[kept2[k]].run]
    BY <1>1 DEF ShownCalls, ShownPlaces
  <1> HIDE DEF n, kept, kept2
  <1>8. CASE ShowsCall(e)
    <2>1. kept2 = Append(kept, n + 1) /\ n + 1 \in Nat
      BY <1>1, <1>5, <1>8
    <2>2. /\ DOMAIN kept2 = 1 .. Len(kept) + 1
          /\ kept2[Len(kept) + 1] = n + 1
          /\ \A k \in 1 .. Len(kept) : kept2[k] = kept[k]
      BY <1>6, <2>1, AppendIndexed
    <2>3. /\ DOMAIN ShownCalls = 1 .. Len(kept)
          /\ DOMAIN ShownCalls' = 1 .. Len(kept) + 1
          /\ ShownCalls'[Len(kept) + 1] = e.run
          /\ \A k \in 1 .. Len(kept) : ShownCalls'[k] = ShownCalls[k]
      BY <1>1, <1>6, <1>7, <2>2
    <2>4. ShownCalls' = [k \in 1 .. Len(kept) + 1 |->
                           IF k = Len(kept) + 1 THEN e.run ELSE ShownCalls[k]]
      <3>1. ShownCalls' = [k \in 1 .. Len(kept) + 1 |-> ShownCalls'[k]]
        BY <1>7, <2>2
      <3>2. \A k \in 1 .. Len(kept) + 1 :
              ShownCalls'[k] = IF k = Len(kept) + 1 THEN e.run ELSE ShownCalls[k]
        BY <1>6, <2>3
      <3> HIDE DEF ShownCalls
      <3> QED
        BY <3>1, <3>2, Zenon
    <2>5. Append(ShownCalls, e.run) = [k \in 1 .. Len(kept) + 1 |->
                           IF k = Len(kept) + 1 THEN e.run ELSE ShownCalls[k]]
      <3> DEFINE R == {ShownCalls[k] : k \in 1 .. Len(kept)} \cup {e.run}
      <3>1. ShownCalls \in Seq(R) /\ Len(ShownCalls) = Len(kept)
        BY <1>6, <1>7
      <3> QED
        BY <3>1
    <2> QED
      BY <1>8, <2>4, <2>5
  <1>9. CASE ~ShowsCall(e)
    <2>1. kept2 = kept
      BY <1>5, <1>9
    <2>2. \A k \in DOMAIN kept : sent'[kept[k]].run = sent[kept[k]].run
      BY <1>1, <1>6
    <2>3. ShownCalls' = ShownCalls
      BY <1>7, <2>1, <2>2
    <2> QED
      BY <1>9, <2>3
  <1> QED
    BY <1>8, <1>9

\* Agents without tools call none, and neither does a turn that has not begun.
NoToolsNoCalls == pc \in {"setup", "simpleStart", "simple"} => toolCalls = <<>>

\* What the generator collected is what the client was shown.
CollectsShown == conn = "open" /\ pc \notin Over => toolCalls = ShownCalls

ReplayInv == NoToolsNoCalls /\ CollectsShown /\ ReplayMatchesStream

LEMMA ReplayInit == Init => ReplayInv
  <1> SUFFICES ASSUME Init PROVE ReplayInv
    OBVIOUS
  <1>1. Kept(ShownPlaces, 0) = <<>> /\ Len(sent) = 0
    BY KeptNone DEF Init
  <1>2. ShownCalls = <<>>
    <2>1. ShownCalls = [k \in DOMAIN Kept(ShownPlaces, 0) |-> sent[Kept(ShownPlaces, 0)[k]].run]
      BY <1>1 DEF ShownCalls, ShownPlaces
    <2>2. DOMAIN Kept(ShownPlaces, 0) = {} /\ DOMAIN ShownCalls = {}
      BY <1>1, <2>1
    <2>3. ShownCalls \in Seq({}) /\ Len(ShownCalls) = 0
      BY <1>1, <2>1
    <2> QED
      BY <2>3
  <1> QED
    BY <1>2 DEF Init, ReplayInv, NoToolsNoCalls, CollectsShown, ReplayMatchesStream, AnswerRows

\* A step of the generator shows an event and collects its run if it shows a call.
Collects(e) ==
  /\ Shows(e)
  /\ toolCalls' = IF ShowsCall(e) THEN Append(toolCalls, e.run) ELSE toolCalls

LEMMA GeneratorCollects ==
  ASSUME TypeInv, GeneratorNext, conn = "open"
  PROVE  UNCHANGED <<toolCalls, sent>> \/ \E e : Collects(e)
  <1> USE DEF generatorVars
  <1>s. \A k, r, d, c, t : /\ sse_event(k, r, d, c, t).event = k
                           /\ sse_event(k, r, d, c, t).run = r
                           /\ sse_event(k, r, d, c, t).data = d
    BY DEF sse_event
  <1>q. ASSUME NEW k, NEW r, NEW d, NEW c, NEW t,
               Yield(sse_event(k, r, d, c, t)), k # "on_tool_end", UNCHANGED toolCalls
        PROVE  \E e : Collects(e)
    <2> DEFINE e == sse_event(k, r, d, c, t)
    <2>1. Yield(e) /\ e.event = k
      BY <1>s, <1>q
    <2> HIDE DEF e
    <2>2. Shows(e)
      BY <2>1, YieldShows
    <2> QED
      BY <1>q, <2>1, <2>2 DEF Collects, ShowsCall
  <1>1. CASE SetupSucceeds \/ SetupEscapes
    BY <1>1 DEF SetupSucceeds, SetupEscapes, responseVars
  <1>2. CASE SetupRefuses \/ HandleRaise \/ FormattingRaises \/ SimpleRaise
    BY <1>2, <1>q DEF SetupRefuses, HandleRaise, FormattingRaises, SimpleRaise, sse_error
  <1>3. CASE HandleChainStart \/ HandleModelStart \/ HandleToken \/ HandleToolStart
    BY <1>3, <1>q DEF HandleChainStart, HandleModelStart, HandleToken, HandleToolStart
  <1>4. CASE HandleApproval \/ HandleChainEnd
    BY <1>4, <1>q DEF HandleApproval, HandleChainEnd
  <1>5. CASE SimpleStart \/ SimpleToken \/ SimpleEnd
    BY <1>5, <1>q DEF SimpleStart, SimpleToken, SimpleEnd
  <1>6. CASE HandleToolEnd
    <2> DEFINE e == sse_event("on_tool_end", Head(evq).run, Head(evq).out = "result", <<>>, <<>>)
    <2>1. /\ Yield(e)
          /\ e.event = "on_tool_end" /\ e.run = Head(evq).run
          /\ e.data = (Head(evq).out = "result")
      BY <1>6, <1>s DEF HandleToolEnd
    <2>2. toolCalls' = IF Head(evq).out = "result" THEN Append(toolCalls, Head(evq).run)
                       ELSE toolCalls
      BY <1>6 DEF HandleToolEnd
    <2> HIDE DEF e
    <2>3. Shows(e)
      BY <2>1, YieldShows
    <2>4. Collects(e)
      BY <2>1, <2>2, <2>3, Zenon DEF Collects, ShowsCall
    <2> QED
      BY <2>4
  <1>7. CASE HandleApprovalEnd
    <2> DEFINE e == sse_event("on_tool_end", Head(evq).run, FALSE, <<>>, <<>>)
    <2>1. Yield(e) /\ toolCalls' = toolCalls
      BY <1>7 DEF HandleApprovalEnd
    <2>2. ~ShowsCall(e)
      BY DEF ShowsCall, sse_event
    <2> HIDE DEF e
    <2>3. Shows(e)
      BY <2>1, YieldShows
    <2> QED
      BY <2>1, <2>2, <2>3 DEF Collects
  <1> QED
    BY <1>1, <1>2, <1>3, <1>4, <1>5, <1>6, <1>7 DEF GeneratorNext

\* The answer is stored with the calls that were collected.
LEMMA AnswerHasCalls ==
  ASSUME TypeInv, NoToolsNoCalls, AnswerRows = {}, GeneratorNext
  PROVE  \A j \in AnswerRows' : messages'[j].calls = toolCalls /\ toolCalls' = toolCalls
  <1>m. messages \in Seq(MessageRows)
    BY DEF TypeInv, TypeOK
  <1>1. ASSUME UNCHANGED messages
        PROVE  AnswerRows' = {}
    BY <1>1 DEF AnswerRows
  <1>2. ASSUME StoreCommits("human", <<>>, <<>>)
        PROVE  AnswerRows' = {}
    <2> DEFINE row == [role |-> "human", calls |-> <<>>, text |-> <<>>]
    <2>1. row \in MessageRows /\ row.role = "human" /\ messages' = Append(messages, row)
      BY <1>2 DEF StoreCommits, MessageRows, Texts
    <2> HIDE DEF row
    <2> QED
      BY <2>1, <1>m, AppendIndexed DEF AnswerRows
  <1>3. ASSUME NEW t \in Texts, StoreCommits("ai", toolCalls, t)
        PROVE  \A j \in AnswerRows' : messages'[j].calls = toolCalls
    <2> DEFINE row == [role |-> "ai", calls |-> toolCalls, text |-> t]
    <2>1. row \in MessageRows /\ row.calls = toolCalls /\ messages' = Append(messages, row)
      BY <1>3 DEF StoreCommits, MessageRows, TypeInv, TypeOK
    <2> HIDE DEF row
    <2> QED
      BY <2>1, <1>m, AppendIndexed DEF AnswerRows
  <1>4. CASE HandleModelStart
    BY <1>1, <1>2, <1>4 DEF HandleModelStart, persist_user_message, StoreFails, databaseVars
  <1>5. CASE SimpleStart
    BY <1>1, <1>2, <1>5 DEF SimpleStart, persist_user_message, StoreFails
  <1>6. CASE HandleChainEnd
    <2>1. Head(evq).text \in Texts
      BY <1>6, HeadTyped DEF HandleChainEnd, HeadIs
    <2> QED
      BY <2>1, <1>1, <1>3, <1>6 DEF HandleChainEnd, persist_ai_message, StoreFails
  <1>7. CASE SimpleEnd
    <2>1. toolCalls = <<>> /\ toolCalls' = toolCalls /\ fullResponse \in Texts
      BY <1>7 DEF SimpleEnd, NoToolsNoCalls, TypeInv, TypeOK
    <2> QED
      BY <2>1, <1>1, <1>3, <1>7 DEF SimpleEnd, persist_ai_message, StoreFails, databaseVars
  <1>8. CASE Bystander
    BY <1>1, <1>8 DEF Bystander
  <1> QED
    BY <1>4, <1>5, <1>6, <1>7, <1>8, GeneratorIsBystander DEF Writers

LEMMA ReplayStep ==
  ASSUME SafetyInv, ReplayInv, [Next]_vars
  PROVE  ReplayInv'
  <1>t. TypeInv /\ QuestionFirst /\ NoToolsNoCalls /\ CollectsShown /\ ReplayMatchesStream
    BY DEF SafetyInv, ReplayInv
  <1>1. CASE GeneratorNext
    <2>1. NoToolsNoCalls'
      BY <1>1, <1>t DEF NoToolsNoCalls, GeneratorNext, SetupSucceeds, SetupRefuses, SetupEscapes,
         HandleChainStart, HandleModelStart, HandleToken, HandleToolStart, HandleToolEnd,
         HandleApproval, HandleApprovalEnd, HandleChainEnd, HandleRaise, FormattingRaises,
         SimpleStart, SimpleToken, SimpleRaise, SimpleEnd, EndsAs, generatorVars
    <2>2. pc \notin Over /\ conn' = conn
      BY <1>1 DEF GeneratorNext, SetupSucceeds, SetupRefuses, SetupEscapes,
         HandleChainStart, HandleModelStart, HandleToken, HandleToolStart, HandleToolEnd,
         HandleApproval, HandleApprovalEnd, HandleChainEnd, HandleRaise, FormattingRaises,
         SimpleStart, SimpleToken, SimpleRaise, SimpleEnd, Over, Yield, responseVars
    <2>3. ASSUME conn = "open"
          PROVE  toolCalls' = ShownCalls'
      <3>1. toolCalls = ShownCalls
        BY <1>t, <2>2, <2>3 DEF CollectsShown
      <3>2. CASE UNCHANGED <<toolCalls, sent>>
        BY <3>1, <3>2 DEF ShownCalls, Sent
      <3>3. ASSUME NEW e, Collects(e)
            PROVE  toolCalls' = ShownCalls'
        BY <3>1, <3>3, <1>t, ShownCallsGrow DEF Collects
      <3> QED
        BY <3>2, <3>3, <2>3, <1>1, <1>t, GeneratorCollects
    <2>4. \A j \in AnswerRows' : messages'[j].calls = toolCalls'
      BY <1>1, <1>t, <2>2, NoAnswerYet, AnswerHasCalls
    <2> QED
      BY <2>1, <2>2, <2>3, <2>4 DEF ReplayInv, CollectsShown, ReplayMatchesStream
  <1>2. ASSUME UNCHANGED <<pc, toolCalls, conn, sent, messages>>
        PROVE  ReplayInv'
    BY <1>2, <1>t DEF ReplayInv, NoToolsNoCalls, CollectsShown, ReplayMatchesStream, ShownCalls,
       Sent, AnswerRows
  <1>3. CASE RunnerNext
    BY <1>2, <1>3 DEF RunnerNext, ChainStarts, ModelStarts, ModelStreams, ModelCallsTools,
       ToolStarts, ToolAnswers, ToolQueuesApproval, ToolEnds, RunnerFinishes, IterationLimit,
       RunnerRaises, RunnerCancelled, generatorVars, responseVars, databaseVars
  <1>4. CASE ClientLeaves \/ GeneratorCancelled \/ InstanceStops
    <2>1. conn' # "open" /\ toolCalls' = toolCalls /\ (pc' = pc \/ pc' = "cancelled")
      BY <1>4 DEF ClientLeaves, GeneratorCancelled, InstanceStops, EndsAs, generatorVars,
         responseVars
    <2> QED
      BY <2>1, <1>t DEF ReplayInv, NoToolsNoCalls, CollectsShown, ReplayMatchesStream
  <1>5. CASE UNCHANGED vars
    BY <1>2, <1>5 DEF vars, generatorVars, responseVars, databaseVars
  <1> QED
    BY <1>1, <1>3, <1>4, <1>5 DEF Next

\* What the transcript replays is what a client that stayed was shown: the stored tool
\* calls are those of the on_tool_end events with data, in their order, however many
\* tools ran at once and however far the runner was ahead.
THEOREM ReplayIsShown == Spec => []ReplayMatchesStream
  <1>1. Spec => [](SafetyInv /\ ReplayInv)
    BY SafetyInit, SafetyStep, ReplayInit, ReplayStep, PTL DEF Spec
  <1>2. ReplayInv => ReplayMatchesStream
    BY DEF ReplayInv
  <1> QED
    BY <1>1, <1>2, PTL

-------------------------------------------------------------------------------
(* The record of the turn. *)

LEMMA RecordInit == Init => Record!Init
  BY DEF Init, Record!Init, Stage, RowsOfTurn, Over

\* A step that keeps the rows goes on, ends the turn, or stands still.
LEMMA RowsStay ==
  ASSUME messages' = messages,
         \/ Stage' = Stage
         \/ Stage = "waiting" /\ Stage' = "asked"
         \/ Stage # "over" /\ Stage' = "over"
  PROVE  [Record!Next]_(Record!recordVars)
  <1>1. RowsOfTurn' = RowsOfTurn
    BY DEF RowsOfTurn
  <1> QED
    BY <1>1 DEF Record!Next, Record!Asks, Record!Ends, Record!Loses, Record!recordVars

\* A row that is appended is the latest; it has to be the one that is due.
LEMMA RowComes ==
  ASSUME TypeInv, NEW row, messages' = Append(messages, row), messages' \in Seq(MessageRows),
         row.role = Record!Due,
         \/ Stage = "waiting" /\ Stage' = "asked"
         \/ Stage # "over" /\ Stage' = "over"
  PROVE  Record!Next
  <1>1. /\ Len(messages) \in Nat /\ DOMAIN messages = 1 .. Len(messages)
        /\ DOMAIN messages' = 1 .. Len(messages) + 1
        /\ messages'[Len(messages) + 1] = row
        /\ \A i \in 1 .. Len(messages) : messages'[i] = messages[i]
    <2>1. messages \in Seq(MessageRows \cup {row})
      BY SeqMonotonic DEF TypeInv, TypeOK
    <2> QED
      BY <2>1, AppendIndexed
  <1> DEFINE new == [role |-> row.role, at |-> Len(messages) + 1]
  <1>2. RowsOfTurn' = RowsOfTurn \cup {new}
    BY <1>1 DEF RowsOfTurn
  <1>3. \A s \in RowsOfTurn : s.at < new.at
    BY <1>1 DEF RowsOfTurn
  <1>4. new \notin RowsOfTurn
    BY <1>1, <1>3
  <1>5. new.role = Record!Due
    OBVIOUS
  <1> HIDE DEF new
  <1>6. Record!Stores
    BY <1>2, <1>3, <1>4, <1>5 DEF Record!Stores
  <1> QED
    BY <1>6 DEF Record!Next, Record!Asks, Record!Ends

\* An answer is stored by a turn that stored its question, or failed to.
LEMMA AnswersWereAsked ==
  ASSUME SafetyInv, HandleChainEnd \/ SimpleEnd
  PROVE  Stage = "asked" /\ Stage' = "over"
  <1>1. CASE HandleChainEnd
    <2>1. pc = "agent" /\ 1 \in DOMAIN evq /\ evq[1].event = "on_chain_end"
      BY <1>1, HeadTyped, TailIndexed DEF HandleChainEnd, HeadIs, SafetyInv, TypeInv, TypeOK
    <2>2. userStored
      BY <2>1 DEF SafetyInv, ModelFirst
    <2> QED
      BY <1>1, <2>1, <2>2 DEF HandleChainEnd, EndsAs, Stage, Over
  <1>2. CASE SimpleEnd
    BY <1>2 DEF SimpleEnd, EndsAs, Stage, Over
  <1> QED
    BY <1>1, <1>2

LEMMA RecordStep ==
  ASSUME SafetyInv, [Next]_vars
  PROVE  [Record!Next]_(Record!recordVars)
  <1>1. TypeInv /\ messages' \in Seq(MessageRows)
    BY TypeStep DEF SafetyInv, TypeInv, TypeOK
  <1>2. CASE Bystander
    <2>1. Stage' = Stage \/ (Stage # "over" /\ Stage' = "over")
      BY <1>2 DEF Bystander, Stage
    <2> QED
      BY <1>2, <2>1, RowsStay DEF Bystander
  <1>3. CASE HandleModelStart \/ SimpleStart
    <2>1. Asks
      BY <1>1, <1>3, WritersAskOrAnswer
      DEF Writers, Answers, HandleModelStart, SimpleStart
    <2>2. pc = "simpleStart" => ~userStored
      BY DEF SafetyInv, SetupIdle
    <2>3. CASE pc = "agent" /\ userStored
      BY <2>1, <2>3, RowsStay DEF Asks, Stage, Over
    <2>4. CASE ~(pc = "agent" /\ userStored)
      <3>1. Stage = "waiting" /\ Stage' = "asked"
        BY <2>1, <2>2, <2>4 DEF Asks, Stage, Over
      <3>2. CASE StoreCommits("human", <<>>, <<>>)
        BY <1>1, <3>1, <3>2, RowComes DEF StoreCommits, Record!Due
      <3>3. CASE StoreFails("human")
        BY <3>1, <3>3, RowsStay DEF StoreFails
      <3> QED
        BY <2>1, <2>4, <3>2, <3>3 DEF Asks
    <2> QED
      BY <2>3, <2>4
  <1>4. CASE HandleChainEnd \/ SimpleEnd
    <2>1. Stage = "asked" /\ Stage' = "over"
      BY <1>4, AnswersWereAsked
    <2>2. Answers
      BY <1>1, <1>4, WritersAskOrAnswer
      DEF Writers, Asks, HandleChainEnd, SimpleEnd, EndsAs
    <2>3. PICK c \in Seq(RunIds), t \in Texts :
            UNCHANGED messages \/ StoreCommits("ai", c, t) \/ StoreFails("ai")
      BY <2>2 DEF Answers
    <2>4. CASE StoreCommits("ai", c, t)
      BY <1>1, <2>1, <2>4, RowComes DEF StoreCommits, Record!Due
    <2> QED
      BY <2>1, <2>3, <2>4, RowsStay DEF StoreFails
  <1> QED
    BY <1>1, <1>2, <1>3, <1>4, StepIsBystander DEF Writers

\* Whatever path a turn takes, however often its model is called and wherever it stops,
\* its rows are the question, then the answer, each once at most.
THEOREM TurnKeepsItsRecord == Spec => RecordSpec
  <1>1. Init => Record!Init
    BY RecordInit
  <1>2. SafetyInv /\ [Next]_vars => [Record!Next]_(Record!recordVars)
    BY RecordStep
  <1> QED
    BY <1>1, <1>2, SafetyInit, SafetyStep, PTL DEF Spec, RecordSpec, Record!Spec

-------------------------------------------------------------------------------
(* Nobody waits for nothing. *)

AgentEvents ==
  {"on_chain_start", "on_chat_model_start", "on_chat_model_stream", "on_tool_start",
   "on_tool_end", "on_chain_end", "error"}

SimpleEvents == {"on_chat_model_stream", "error", "eof"}

\* What the runner emits last.
LastEvents == {"on_chain_end", "eof", "error"}

Handled(kind) ==
  \/ pc = "agent" /\ kind \in AgentEvents
  \/ pc = "hitl" /\ kind = "on_tool_end"
  \/ pc = "simple" /\ kind \in SimpleEvents

Unfinished(r) == tool[r] \in {"called", "running"} \cup Outcomes

RunnerHasWork ==
  \/ step \in {"think", "model"}
  \/ step = "idle" /\ pc = "agent"
  \/ step = "tools" /\ \E r \in RunIds : Unfinished(r)

\* A generator that is not over starts a path, has an event at the head of the queue that
\* its path handles, or waits for a runner that has something to do.
WaitsForSomebody ==
  pc \notin Over =>
    \/ pc \in {"setup", "simpleStart"}
    \/ evq # <<>> /\ Handled(Head(evq).event)
    \/ evq = <<>> /\ RunnerHasWork

\* Each path is fed by its own runner.
PathEvents ==
  /\ pc \in {"agent", "hitl"} => executor /\ \A j \in DOMAIN evq : evq[j].event \in AgentEvents
  /\ pc = "simple" => /\ step \in {"model", "finished", "raised"}
                      /\ \A j \in DOMAIN evq : evq[j].event \in SimpleEvents

\* A runner that is through has left its last event for the generator.
LastIsQueued ==
  pc \notin Over =>
    /\ step # "stopped"
    /\ step \in {"finished", "raised"} => evq # <<>> /\ evq[Len(evq)].event \in LastEvents

RoundHasTools == step = "tools" => \E r \in RunIds : Unfinished(r)

WaitInv == PathEvents /\ LastIsQueued /\ RoundHasTools

LEMMA WaitInit == Init => WaitInv
  BY DEF Init, WaitInv, PathEvents, LastIsQueued, RoundHasTools

\* What a runner step does for a generator that is not over.
Feeds ==
  /\ step' # "stopped"
  /\ \/ evq' = evq /\ (step' = step \/ (executor /\ step' = "tools"))
     \/ \E e : /\ Queues(e)
               /\ step' \in {"finished", "raised"} => e.event \in LastEvents
               /\ executor => e.event \in AgentEvents
               /\ ~executor /\ step = "model" =>
                    e.event \in SimpleEvents /\ step' \in {"model", "finished", "raised"}
               /\ step \notin {"finished", "raised"}

LEMMA RunnerFeeds ==
  ASSUME TypeInv, RunnerNext, pc \notin Over, step # "stopped"
  PROVE  Feeds
  <1>e. ASSUME NEW k, NEW r, NEW o, NEW t, Emit(RunnerEvent(k, r, o, t))
        PROVE  \E e : Queues(e) /\ e.event = k
    <2> DEFINE e == RunnerEvent(k, r, o, t)
    <2>1. evq \in Seq(RunnerEvents \cup {e})
      BY SeqMonotonic DEF TypeInv, TypeOK
    <2>2. e.event = k
      BY DEF RunnerEvent
    <2> HIDE DEF e
    <2>3. evq' = Append(evq, e)
      BY <1>e DEF Emit, e
    <2> QED
      BY <2>1, <2>2, <2>3, AppendIndexed DEF Queues
  <1>1. CASE ChainStarts \/ ModelStarts \/ IterationLimit
    <2>1. step \in {"idle", "think"}
      BY <1>1 DEF ChainStarts, ModelStarts, IterationLimit
    <2>2. PICK e : /\ Queues(e) /\ e.event \in AgentEvents
                   /\ step' \in {"finished", "raised"} => e.event \in LastEvents
      BY <1>1, <1>e DEF ChainStarts, ModelStarts, IterationLimit, AgentEvents, LastEvents
    <2>3. step' # "stopped"
      BY <1>1 DEF ChainStarts, ModelStarts, IterationLimit
    <2> QED
      BY <2>1, <2>2, <2>3 DEF Feeds
  <1>2. CASE ModelStreams
    <2>1. \E e : Queues(e) /\ e.event = "on_chat_model_stream"
      BY <1>2, <1>e DEF ModelStreams
    <2> QED
      BY <1>2, <2>1 DEF ModelStreams, Feeds, AgentEvents, SimpleEvents
  <1>3. CASE \E S \in SUBSET RunIds : ModelCallsTools(S)
    BY <1>3 DEF ModelCallsTools, Feeds
  <1>4. CASE \E r \in RunIds : ToolStarts(r) \/ ToolEnds(r)
    <2>1. \E e : Queues(e) /\ e.event \in {"on_tool_start", "on_tool_end"}
      BY <1>4, <1>e DEF ToolStarts, ToolEnds
    <2>2. step = "tools" /\ step' \in {"tools", "think"}
      BY <1>4 DEF ToolStarts, ToolEnds
    <2> QED
      BY <2>1, <2>2 DEF Feeds, AgentEvents
  <1>5. CASE \E r \in RunIds, out \in Outcomes : ToolAnswers(r, out) \/ ToolQueuesApproval(r, out)
    BY <1>5 DEF ToolAnswers, ToolQueuesApproval, Feeds
  <1>6. CASE RunnerFinishes
    <2>1. \E e : Queues(e) /\ e.event = IF executor THEN "on_chain_end" ELSE "eof"
      BY <1>6, <1>e DEF RunnerFinishes
    <2> QED
      BY <1>6, <2>1 DEF RunnerFinishes, Feeds, AgentEvents, SimpleEvents, LastEvents
  <1>7. CASE RunnerRaises
    <2>1. \E e : Queues(e) /\ e.event = "error"
      BY <1>7, <1>e DEF RunnerRaises
    <2> QED
      BY <1>7, <2>1 DEF RunnerRaises, Feeds, AgentEvents, SimpleEvents, LastEvents
  <1> QED
    BY <1>1, <1>2, <1>3, <1>4, <1>5, <1>6, <1>7 DEF RunnerNext, RunnerCancelled

LEMMA RunnerKeepsWait ==
  ASSUME SafetyInv, PathEvents, LastIsQueued, RunnerNext
  PROVE  PathEvents' /\ LastIsQueued'
  <1>0. TypeInv /\ UNCHANGED <<pc, executor>> /\ Len(evq) \in Nat /\ DOMAIN evq = 1 .. Len(evq)
    BY RunnerIsBystander DEF SafetyInv, TypeInv, TypeOK
  <1>1. CASE pc \in Over
    BY <1>0, <1>1 DEF PathEvents, LastIsQueued, Over
  <1>2. CASE pc \notin Over
    <2>1. Feeds
      BY <1>0, <1>2, RunnerFeeds DEF LastIsQueued
    <2>2. pc = "simple" => ~executor /\ step \in {"model", "finished", "raised"}
      BY DEF SafetyInv, SimplePath, PathEvents
    <2>3. CASE evq' = evq
      <3>1. step' = step \/ (executor /\ step' = "tools")
        <4>1. ASSUME NEW e, Queues(e) PROVE FALSE
          <5>1. Len(evq') = Len(evq) + 1
            BY <4>1 DEF Queues
          <5> QED
            BY <1>0, <2>3, <5>1
        <4> QED
          BY <2>1, <4>1, Zenon DEF Feeds
      <3>2. step' # "stopped"
        BY <2>1 DEF Feeds
      <3>3. PathEvents'
        BY <1>0, <2>2, <2>3, <3>1 DEF PathEvents
      <3>4. LastIsQueued'
        BY <1>0, <2>3, <3>1, <3>2 DEF LastIsQueued
      <3> QED
        BY <3>3, <3>4
    <2>4. CASE evq' # evq
      <3>1. PICK e : /\ Queues(e)
                     /\ step' \in {"finished", "raised"} => e.event \in LastEvents
                     /\ executor => e.event \in AgentEvents
                     /\ ~executor /\ step = "model" =>
                          e.event \in SimpleEvents /\ step' \in {"model", "finished", "raised"}
                     /\ step \notin {"finished", "raised"}
        BY <2>1, <2>4 DEF Feeds
      <3>2. PathEvents'
        BY <1>0, <2>2, <3>1 DEF Queues, PathEvents
      <3>3. evq' # <<>> /\ evq'[Len(evq')] = e
        BY <1>0, <3>1 DEF Queues
      <3>4. LastIsQueued'
        BY <1>0, <2>1, <3>1, <3>3 DEF LastIsQueued, Feeds
      <3> QED
        BY <3>2, <3>4
    <2> QED
      BY <2>3, <2>4
  <1> QED
    BY <1>1, <1>2

LEMMA GeneratorKeepsWait ==
  ASSUME SafetyInv, PathEvents, LastIsQueued, GeneratorNext
  PROVE  PathEvents' /\ LastIsQueued'
  <1>0. /\ TypeInv /\ evq \in Seq(RunnerEvents) /\ Len(evq) \in Nat /\ DOMAIN evq = 1 .. Len(evq)
    BY DEF SafetyInv, TypeInv, TypeOK
  <1>1. CASE Passings
    <2>1. /\ evq # <<>> /\ Takes /\ UNCHANGED <<executor, step>>
          /\ Head(evq).event \notin LastEvents
          /\ \/ pc \in {"agent", "hitl"} /\ pc' = "agent"
             \/ pc = "simple" /\ pc' = "simple"
      <3>1. pc = "hitl" => evq # <<>> /\ Head(evq).event = "on_tool_end"
        BY <1>0, HeadTyped DEF TypeInv, QueueOK
      <3> QED
        BY <1>1, <3>1 DEF Passings, HandleChainStart, HandleModelStart, HandleToken, SimpleToken,
           HandleToolStart, HandleToolEnd, HandleApprovalEnd, HeadIs, generatorVars,
           runnerButQueue, LastEvents
    <2>2. /\ Head(evq) = evq[1] /\ 1 \in DOMAIN evq
          /\ DOMAIN evq' = 1 .. Len(evq) - 1 /\ evq' \in Seq(RunnerEvents)
          /\ \A i \in DOMAIN evq' : i + 1 \in DOMAIN evq /\ evq'[i] = evq[i + 1]
      BY <1>0, <2>1, TailIndexed DEF Takes
    <2>3. PathEvents'
      BY <2>1, <2>2 DEF PathEvents
    <2>4. ASSUME step \in {"finished", "raised"}
          PROVE  evq' # <<>> /\ evq'[Len(evq')].event \in LastEvents
      <3>0. evq[Len(evq)].event \in LastEvents
        BY <2>1, <2>4 DEF LastIsQueued, Over
      <3>1. Len(evq) # 1
        BY <2>1, <2>2, <3>0
      <3>2. Len(evq') = Len(evq) - 1 /\ Len(evq) > 1
        <4>1. Len(evq) > 1
          BY <1>0, <2>2, <3>1
        <4>2. Len(evq') = Len(evq) - 1
          BY <1>0, <2>1, HeadTailProperties DEF Takes
        <4> QED
          BY <4>1, <4>2
      <3>3. evq' # <<>> /\ Len(evq') \in DOMAIN evq'
        BY <1>0, <2>2, <3>2
      <3>4. evq'[Len(evq')] = evq[Len(evq)]
        BY <1>0, <2>2, <3>2, <3>3
      <3> QED
        BY <3>0, <3>3, <3>4
    <2>5. LastIsQueued'
      BY <2>1, <2>4 DEF LastIsQueued, Over
    <2> QED
      BY <2>3, <2>5
  <1>2. CASE HandleApproval
    BY <1>2 DEF HandleApproval, PathEvents, LastIsQueued, Over, runnerVars
  <1>3. CASE SetupSucceeds \/ SimpleStart
    <2>1. evq' = <<>> /\ step' \in {"idle", "model"}
      BY <1>3 DEF SetupSucceeds, SimpleStart, runnerVars, SafetyInv, SetupIdle
    <2>2. \/ pc' = "agent" /\ executor' = TRUE
          \/ pc' = "simpleStart"
          \/ pc' = "simple" /\ step' = "model"
      BY <1>3, Zenon DEF SetupSucceeds, SimpleStart
    <2>3. DOMAIN evq' = {}
      BY <2>1
    <2> QED
      BY <2>1, <2>2, <2>3 DEF PathEvents, LastIsQueued
  <1>4. CASE pc' \in Over
    BY <1>4 DEF PathEvents, LastIsQueued, Over
  <1> QED
    BY <1>1, <1>2, <1>3, <1>4 DEF GeneratorNext, Passings, EndsAs, Over, SetupRefuses, SetupEscapes,
       HandleChainEnd, HandleRaise, FormattingRaises, SimpleRaise, SimpleEnd

LEMMA RoundKeepsTools ==
  ASSUME TypeInv, RoundHasTools, [Next]_vars
  PROVE  RoundHasTools'
  <1>1. ASSUME NEW S \in SUBSET RunIds, ModelCallsTools(S) PROVE RoundHasTools'
    BY <1>1 DEF ModelCallsTools, RoundHasTools, Unfinished
  <1>2. ASSUME NEW r \in RunIds, NEW out \in Outcomes,
               ToolStarts(r) \/ ToolAnswers(r, out) \/ ToolQueuesApproval(r, out)
        PROVE  RoundHasTools'
    <2>1. tool'[r] \in {"running", out}
      BY <1>2 DEF ToolStarts, ToolAnswers, ToolQueuesApproval, TypeInv, TypeOK
    <2> QED
      BY <2>1 DEF RoundHasTools, Unfinished
  <1>3. ASSUME NEW r \in RunIds, ToolStarts(r) PROVE RoundHasTools'
    BY <1>3 DEF ToolStarts, TypeInv, TypeOK, RoundHasTools, Unfinished
  <1>4. ASSUME NEW r \in RunIds, ToolEnds(r), step' = "tools" PROVE RoundHasTools'
    <2>1. PICK q \in RunIds \ {r} : tool[q] \notin {"unused", "ended"}
      BY <1>4 DEF ToolEnds
    <2>2. tool'[q] = tool[q] /\ tool[q] \in ToolStates
      BY <1>4, <2>1 DEF ToolEnds, TypeInv, TypeOK
    <2> QED
      BY <2>1, <2>2 DEF RoundHasTools, Unfinished, ToolStates
  <1>5. CASE UNCHANGED <<step, tool>> \/ step' # "tools"
    BY <1>5 DEF RoundHasTools, Unfinished
  <1>6. CASE RunnerNext
    <2>1. CASE ChainStarts \/ ModelStarts \/ ModelStreams \/ RunnerFinishes \/ IterationLimit
               \/ RunnerRaises \/ RunnerCancelled
      BY <2>1, <1>5 DEF ChainStarts, ModelStarts, ModelStreams, RunnerFinishes, IterationLimit,
         RunnerRaises, RunnerCancelled
    <2> QED
      BY <1>1, <1>2, <1>3, <1>4, <1>5, <1>6, <2>1 DEF RunnerNext
  <1>7. CASE GeneratorNext
    <2>1. UNCHANGED <<step, tool>> \/ step' = "model"
      BY <1>7 DEF GeneratorNext, SetupSucceeds, SetupRefuses, SetupEscapes, HandleChainStart,
         HandleModelStart, HandleToken, HandleToolStart, HandleToolEnd, HandleApproval,
         HandleApprovalEnd, HandleChainEnd, HandleRaise, FormattingRaises, SimpleStart,
         SimpleToken, SimpleRaise, SimpleEnd, runnerVars, runnerButQueue
    <2> QED
      BY <1>5, <2>1
  <1>8. CASE ClientLeaves \/ GeneratorCancelled \/ InstanceStops \/ UNCHANGED vars
    BY <1>5, <1>8 DEF ClientLeaves, GeneratorCancelled, InstanceStops, vars, runnerVars,
       runnerButQueue
  <1> QED
    BY <1>6, <1>7, <1>8 DEF Next

LEMMA WaitStep == SafetyInv /\ WaitInv /\ [Next]_vars => WaitInv'
  <1> SUFFICES ASSUME SafetyInv, PathEvents, LastIsQueued, RoundHasTools, [Next]_vars PROVE WaitInv'
    BY DEF WaitInv
  <1>1. RoundHasTools'
    BY RoundKeepsTools DEF SafetyInv
  <1>2. PathEvents' /\ LastIsQueued'
    <2>1. CASE GeneratorCancelled \/ InstanceStops
      BY <2>1 DEF GeneratorCancelled, InstanceStops, EndsAs, PathEvents, LastIsQueued, Over
    <2>2. CASE ClientLeaves \/ UNCHANGED vars
      BY <2>2 DEF ClientLeaves, vars, generatorVars, runnerVars, PathEvents, LastIsQueued
    <2> QED
      BY <2>1, <2>2, RunnerKeepsWait, GeneratorKeepsWait DEF Next
  <1> QED
    BY <1>1, <1>2 DEF WaitInv

LEMMA WaitImplies ==
  ASSUME SafetyInv, WaitInv
  PROVE  WaitsForSomebody
  <1>0. pc \in Pcs /\ step \in Steps /\ evq \in Seq(RunnerEvents) /\ TypeInv
    BY DEF SafetyInv, TypeInv, TypeOK
  <1> SUFFICES ASSUME pc \in {"agent", "hitl", "simple"}
               PROVE  \/ evq # <<>> /\ Handled(Head(evq).event)
                      \/ evq = <<>> /\ RunnerHasWork
    BY <1>0 DEF WaitsForSomebody, Pcs
  <1>1. CASE evq # <<>>
    <2>1. 1 \in DOMAIN evq /\ Head(evq) = evq[1]
      BY <1>0, <1>1, TailIndexed
    <2> QED
      BY <1>0, <1>1, <2>1 DEF WaitInv, PathEvents, Handled, TypeInv, QueueOK
  <1>2. CASE evq = <<>>
    <2>1. pc # "hitl" /\ step \notin {"finished", "raised", "stopped"}
      BY <1>0, <1>2 DEF WaitInv, LastIsQueued, TypeInv, QueueOK, Over
    <2> QED
      BY <1>0, <1>2, <2>1 DEF WaitInv, PathEvents, RoundHasTools, RunnerHasWork, Steps
  <1> QED
    BY <1>1, <1>2

\* No turn hangs: wherever the runner is, the generator has an event it handles or waits
\* for a runner that can go on.
THEOREM NoTurnHangs == Spec => []WaitsForSomebody
  <1>1. Init => SafetyInv /\ WaitInv
    BY SafetyInit, WaitInit
  <1>2. SafetyInv /\ WaitInv /\ [Next]_vars => (SafetyInv /\ WaitInv)'
    BY SafetyStep, WaitStep
  <1>3. SafetyInv /\ WaitInv => WaitsForSomebody
    BY WaitImplies
  <1> QED
    BY <1>1, <1>2, <1>3, PTL DEF Spec
===============================================================================
