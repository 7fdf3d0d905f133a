------------------------------ MODULE MCToolCalls ------------------------------
EXTENDS ToolCalls

CONSTANTS t1, t2, a1, a2, o1, o2, c1, d1, d2

\* The tools of one kind touch nothing of another, and a search nothing that is shared.
MCToolSets ==
  {[t \in Turns |-> {"contact"}], [t \in Turns |-> {"table"}],
   [t \in Turns |-> IF t = t1 THEN {"search"} ELSE {}]}

\* Two colleagues, and two accounts that reach one contact from two organizations.
MCScopes ==
  {[t \in Turns |-> [account |-> IF t = t1 THEN a1 ELSE a2,
                     org |-> IF t = t1 THEN o1 ELSE o,
                     contact |-> c1]] : o \in {o1, o2}}

\* A column that is injected as well, and a table that requires nothing.
MCConfigs ==
  {[columns |-> {"name", "account_id"}, required |-> {"name"},
    inject_account_id |-> TRUE, inject_chat_session_id |-> TRUE],
   [columns |-> {"name"}, required |-> {},
    inject_account_id |-> FALSE, inject_chat_session_id |-> FALSE]}
===============================================================================
