---------------------------- MODULE StreamContract ----------------------------
(***************************************************************************)
(* What a client of the two streaming endpoints may rely on, for one       *)
(* stream: the event vocabulary of sse_events.py, reduced to what a client *)
(* has to keep track of.  Text and model events leave this state alone.    *)
(* AgentStream implements this specification.                              *)
(***************************************************************************)
CONSTANTS
  RunIds,     \* tool run ids a stream may carry
  NoRun       \* "no tool run", none of RunIds

VARIABLES
  phase,      \* "open", then one of "succeeded", "failed", "cut" for good
  begun,      \* runs whose on_tool_start the client has seen
  ended,      \* runs whose on_tool_end the client has seen
  owed        \* run whose approval was announced and whose on_tool_end is due next

contractVars == <<phase, begun, ended, owed>>

Init ==
  /\ phase = "open"
  /\ begun = {}
  /\ ended = {}
  /\ owed = NoRun

ToolBegins(r) ==
  /\ phase = "open"
  /\ owed = NoRun
  /\ r \notin begun
  /\ begun' = begun \cup {r}
  /\ UNCHANGED <<phase, ended, owed>>

ApprovalAnnounced(r) ==
  /\ phase = "open"
  /\ owed = NoRun
  /\ r \in begun \ ended
  /\ owed' = r
  /\ UNCHANGED <<phase, begun, ended>>

\* After an announced approval only that run may end.
ToolEnds(r) ==
  /\ phase = "open"
  /\ owed \in {NoRun, r}
  /\ r \in begun \ ended
  /\ ended' = ended \cup {r}
  /\ owed' = NoRun
  /\ UNCHANGED <<phase, begun>>

\* on_chain_end: every tool run the client saw begin has been accounted for.
Succeeds ==
  /\ phase = "open"
  /\ owed = NoRun
  /\ begun = ended
  /\ phase' = "succeeded"
  /\ UNCHANGED <<begun, ended, owed>>

\* error: runs may be left without an end.
Fails ==
  /\ phase = "open"
  /\ owed = NoRun
  /\ phase' = "failed"
  /\ UNCHANGED <<begun, ended, owed>>

\* The stream stops without a terminal event.
IsCut ==
  /\ phase = "open"
  /\ phase' = "cut"
  /\ UNCHANGED <<begun, ended, owed>>

Next ==
  \/ \E r \in RunIds : ToolBegins(r) \/ ApprovalAnnounced(r) \/ ToolEnds(r)
  \/ Succeeds
  \/ Fails
  \/ IsCut

Spec == Init /\ [][Next]_contractVars
===============================================================================
