------------------------------ MODULE TurnRecord ------------------------------
(***************************************************************************)
(* What one turn leaves in the transcript: its question, then its answer,  *)
(* each once at most; a row that cannot be stored is lost and the turn     *)
(* goes on, and a turn may end at any time.  This is all that the history  *)
(* of other turns relies on.  AgentStream implements it for the turn it    *)
(* streams, and Conversation for every request.                            *)
(***************************************************************************)
EXTENDS Integers

VARIABLES
  stage,   \* "waiting" for the question to be stored, "asked", "over"
  rows     \* the rows of the turn, each with its place in time

recordVars == <<stage, rows>>

Init ==
  /\ stage = "waiting"
  /\ rows = {}

Due == IF stage = "waiting" THEN "human" ELSE "ai"

\* The row that is due is stored, later than those there are.
Stores ==
  \E r \in rows' \ rows :
    /\ r.role = Due
    /\ \A s \in rows : s.at < r.at
    /\ rows' = rows \cup {r}

Loses == rows' = rows

Asks ==
  /\ stage = "waiting"
  /\ stage' = "asked"
  /\ Stores \/ Loses

\* With the answer, without one, or cut off while the row that is due is stored.
Ends ==
  /\ stage # "over"
  /\ stage' = "over"
  /\ Stores \/ Loses

Next == Asks \/ Ends

Spec == Init /\ [][Next]_recordVars

\* No role has two rows, and a question precedes its answer.
OnePair ==
  \A r, s \in rows :
    /\ r.role = s.role => r = s
    /\ r.role = "human" /\ s.role = "ai" => r.at < s.at
===============================================================================
