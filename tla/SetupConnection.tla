---------------------------- MODULE SetupConnection ---------------------------
(***************************************************************************)
(* What the setup of a turn promises to the turns beside it: while it runs *)
(* it may hold a connection of the pool, through any number of queries;    *)
(* the turn streams only when that connection is back; and one that was    *)
(* kept by a setup which ended otherwise goes back once and for all.       *)
(* TurnSetup implements it query by query, and Conversation, which knows   *)
(* of setup only that it reads and ends, implements it too.                *)
(***************************************************************************)
VARIABLES
  stage,   \* "setup", "streaming", "over"
  held     \* the session of setup holds a connection

connectionVars == <<stage, held>>

Init ==
  /\ stage = "setup"
  /\ held = FALSE

\* A query takes a connection, a commit or a retry gives it back.
Queries ==
  /\ stage = "setup"
  /\ held' \in BOOLEAN
  /\ UNCHANGED stage

Streams ==
  /\ stage = "setup"
  /\ stage' = "streaming"
  /\ held' = FALSE

\* With a connection only if setup ends here.
Ends ==
  /\ stage # "over"
  /\ stage' = "over"
  /\ held' \in BOOLEAN
  /\ stage = "streaming" => held' = held

Collected ==
  /\ stage = "over"
  /\ held = TRUE
  /\ held' = FALSE
  /\ UNCHANGED stage

Next == Queries \/ Streams \/ Ends \/ Collected

Spec == Init /\ [][Next]_connectionVars
===============================================================================
