---------------------------- MODULE MCConversation ----------------------------
EXTENDS Conversation

CONSTANTS q1, q2, q3, i1, i2, s1, s2

\* Three turns: two share an instance, two or all a session, and one comes with a key.
MCWorkloads ==
  {[instance |-> [q \in Requests |-> IF q = q3 THEN i2 ELSE i1],
    session |-> [q \in Requests |-> s1], keyed |-> {q1}],
   [instance |-> [q \in Requests |-> i1],
    session |-> [q \in Requests |-> IF q = q3 THEN s2 ELSE s1], keyed |-> {q1}]}
===============================================================================
