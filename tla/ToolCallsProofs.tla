---------------------------- MODULE ToolCallsProofs ----------------------------
(***************************************************************************)
(* Proofs about ToolCalls: its type invariant, what a write that is        *)
(* reported says of the rows, and that agents find what they wrote, for    *)
(* any turns, scopes, tables and number of calls.                          *)
(*                                                                         *)
(* The invariant says what a call has stored before it reports: nothing    *)
(* until its commit, then the one row it is working on.                    *)
(***************************************************************************)
EXTENDS ToolCalls, KeptPlacesProofs, FiniteSetTheorems, TLAPS

IsRecord(r) ==
  r = Record(r.id, r.data) /\ r.id \in 1 .. MaxCalls /\ DOMAIN r.data \subseteq Columns

\* The row that a call is about to commit, or has committed.
WorkOK(t) ==
  /\ step[t] \in {"commitEvent", "refreshEvent"} => work[t] \in Events
  /\ step[t] = "commitRecord" => IsRecord(work[t])

CallsOK ==
  /\ scope \in [Turns -> [account : Accounts, org : Orgs, contact : Contacts]]
  /\ config \in Configs
  /\ contacts \in [Contacts -> Orgs \cup {None}]
  /\ step \in [Turns -> Steps]
  /\ work = [t \in Turns |-> work[t]]
  /\ answer = [t \in Turns |-> answer[t]]
  /\ calls \in 0 .. MaxCalls
  /\ others \in 0 .. MaxOthers
  /\ faults \in 0 .. MaxFaults
  /\ reported \in [1 .. MaxCalls -> {"nothing", "success", "failed", "unsure"}]
  /\ caller = [i \in 1 .. MaxCalls |-> caller[i]]

RowsOK ==
  /\ events \subseteq Events
  /\ \A r \in records : IsRecord(r)
  /\ \A r \in removed : r \in Events \/ IsRecord(r)
  /\ IsFiniteSet(events)
  /\ IsFiniteSet(records)

TypeInv == CallsOK /\ RowsOK /\ \A t \in Turns : WorkOK(t)

-------------------------------------------------------------------------------
(* Steps, by what they change. *)

\* An event and a record are never the same row.
LEMMA RowsAreApart == \A r \in Events : ~ IsRecord(r)
  <1> SUFFICES ASSUME NEW r \in Events, IsRecord(r) PROVE FALSE
    OBVIOUS
  <1>1. DOMAIN r = {"id", "data"}
    BY DEF IsRecord, Record
  <1>2. "at" \in DOMAIN r
    BY DEF Events
  <1> QED
    BY <1>1, <1>2

\* A call that goes on, and a call that ends, change the state of their turn only.
LEMMA GoesOnEffect ==
  ASSUME TypeInv, NEW t \in Turns, NEW s \in Steps, NEW w, GoesOn(t, s, w)
  PROVE  /\ step' \in [Turns -> Steps]
         /\ work' = [u \in Turns |-> work'[u]]
         /\ answer' = [u \in Turns |-> answer'[u]]
         /\ step'[t] = s /\ work'[t] = w /\ answer'[t] = NoAnswer
         /\ \A u \in Turns \ {t} : step'[u] = step[u] /\ work'[u] = work[u]
  BY DEF TypeInv, CallsOK, GoesOn

LEMMA EndsEffect ==
  ASSUME TypeInv, NEW t \in Turns, NEW a, Ends(t, a)
  PROVE  /\ step' \in [Turns -> Steps]
         /\ work' = [u \in Turns |-> work'[u]]
         /\ answer' = [u \in Turns |-> answer'[u]]
         /\ step'[t] = "idle" /\ work'[t] = None /\ answer'[t] = a
         /\ \A u \in Turns \ {t} : step'[u] = step[u] /\ work'[u] = work[u]
  BY DEF TypeInv, CallsOK, Ends, Steps

LEMMA NumberedEffect ==
  ASSUME TypeInv, NEW t \in Turns, Numbered(t)
  PROVE  /\ calls' = calls + 1 /\ calls' \in 1 .. MaxCalls
         /\ caller' = [i \in 1 .. MaxCalls |-> caller'[i]]
         /\ caller'[calls'] = t
         /\ \A i \in 1 .. calls : caller'[i] = caller[i]
         /\ scope' = scope /\ config' = config
  <1>1. MaxCalls \in Nat /\ calls \in 0 .. MaxCalls
    BY ToolCallsAssumption DEF TypeInv, CallsOK
  <1>2. calls' = calls + 1 /\ calls' \in 1 .. MaxCalls
    BY <1>1 DEF Numbered
  <1>3. caller = [i \in 1 .. MaxCalls |-> caller[i]]
    BY DEF TypeInv, CallsOK
  <1>4. caller' = [caller EXCEPT ![calls'] = t] /\ scope' = scope /\ config' = config
    BY DEF Numbered, Built
  <1>5. caller' = [i \in 1 .. MaxCalls |-> IF i = calls' THEN t ELSE caller[i]]
    BY <1>2, <1>3, <1>4
  <1>6. \A i \in 1 .. calls : i \in 1 .. MaxCalls /\ i # calls'
    BY <1>1, <1>2
  <1> QED
    BY <1>2, <1>4, <1>5, <1>6

LEMMA TellsEffect ==
  ASSUME TypeInv, NEW i \in 1 .. MaxCalls,
         NEW what \in {"success", "failed", "unsure"}, Tells(i, what)
  PROVE  /\ reported' \in [1 .. MaxCalls -> {"nothing", "success", "failed", "unsure"}]
         /\ reported'[i] = what
         /\ \A j \in 1 .. MaxCalls \ {i} : reported'[j] = reported[j]
  BY DEF TypeInv, CallsOK, Tells

-------------------------------------------------------------------------------
(* The steps of a call, reduced to what the rows and the reports see of them. *)

\* A row of the tool calls, once stored, stays one.
Pending(t) == step[t] \in {"commitEvent", "refreshEvent", "commitRecord"}

\* Nothing is written and nothing reported: an answer without a number, or a step of
\* others.
Quiet ==
  /\ Stored' = Stored
  /\ UNCHANGED <<scope, config, calls, caller, reported>>
  /\ \A u \in Turns : Pending(u)' => step'[u] = step[u] /\ work'[u] = work[u]

\* A call begins; it ends at once, or with a row to write.
Begins(t) ==
  /\ step[t] = "idle"
  /\ Stored' = Stored
  /\ UNCHANGED <<scope, config>>
  /\ calls' = calls + 1 /\ calls' \in 1 .. MaxCalls
  /\ caller'[calls'] = t
  /\ \A i \in 1 .. calls : caller'[i] = caller[i]
  /\ \A i \in 1 .. MaxCalls \ {calls'} : reported'[i] = reported[i]
  /\ \/ ~ Pending(t)'
     \/ /\ step'[t] \in {"commitEvent", "commitRecord"}
        /\ work'[t].id = calls' /\ Forced(work'[t], t)
        /\ reported' = reported
  /\ \A u \in Turns \ {t} : step'[u] = step[u] /\ work'[u] = work[u]

\* The row of a call is committed, or its call reports.
Concludes(t) ==
  /\ Pending(t)
  /\ UNCHANGED <<scope, config, calls, caller>>
  /\ Stored \subseteq Stored' /\ Stored' \subseteq Stored \cup {work[t]}
  /\ \/ step'[t] = "refreshEvent" /\ work'[t] = work[t] /\ reported' = reported
     \/ ~ Pending(t)' /\ reported'[work[t].id] \in {"success", "unsure"}
  /\ \A i \in 1 .. MaxCalls \ {work[t].id} : reported'[i] = reported[i]
  /\ \A u \in Turns \ {t} : step'[u] = step[u] /\ work'[u] = work[u]

LEMMA SearchIsQuiet ==
  ASSUME TypeInv, NEW t \in Turns, SearchToolCalled(t) \/ get_contact(t)
  PROVE  Quiet /\ TypeInv'
  <1> USE DEF Built, Continues, database
  <1> DEFINE Effect ==
        /\ step' \in [Turns -> Steps]
        /\ work' = [u \in Turns |-> work'[u]]
        /\ answer' = [u \in Turns |-> answer'[u]]
        /\ step'[t] \in {"idle", "query", "rerank"}
        /\ \A u \in Turns \ {t} : step'[u] = step[u] /\ work'[u] = work[u]
  <1>1. /\ UNCHANGED <<scope, config, contacts, events, records, removed, calls, others,
                       faults, caller, reported>>
        /\ \/ \E a : Ends(t, a)
           \/ \E s \in {"query", "rerank"} : \E w : GoesOn(t, s, w)
    <2>1. CASE get_contact(t)
      BY <2>1 DEF get_contact
    <2>2. CASE generate_embedding(t)
      BY <2>2 DEF generate_embedding
    <2>3. CASE retrieval_impl(t)
      BY <2>3 DEF retrieval_impl
    <2>4. ASSUME NEW n \in -MaxReply .. MaxReply, Rerank(t, n)
          PROVE  /\ UNCHANGED <<scope, config, contacts, events, records, removed, calls,
                                others, faults, caller, reported>>
                 /\ \E a : Ends(t, a)
      BY <2>4 DEF Rerank
    <2> QED
      BY <2>1, <2>2, <2>3, <2>4 DEF SearchToolCalled
  <1>2. Effect
    <2>1. ASSUME NEW a, Ends(t, a) PROVE Effect
      BY <2>1, EndsEffect
    <2>2. ASSUME NEW s \in {"query", "rerank"}, NEW w, GoesOn(t, s, w)
          PROVE  Effect
      BY <2>2, GoesOnEffect DEF Steps
    <2> QED
      BY <1>1, <2>1, <2>2
  <1>3. Stored' = Stored
    BY <1>1 DEF Stored
  <1>4. Quiet
    BY <1>1, <1>2, <1>3 DEF Quiet, Pending
  <1>5. \A u \in Turns : WorkOK(u)'
    BY <1>2 DEF TypeInv, WorkOK
  <1> QED
    BY <1>1, <1>2, <1>4, <1>5 DEF TypeInv, CallsOK, RowsOK

\* What a numbered call leaves for the type invariant and for Begins.
LEMMA CallBegins ==
  ASSUME TypeInv, NEW t \in Turns, Numbered(t),
         UNCHANGED <<contacts, events, records, removed, others>>,
         faults' \in 0 .. MaxFaults,
         \/ /\ \E a : Ends(t, a)
            /\ \E what \in {"success", "failed", "unsure"} : Tells(calls', what)
         \/ /\ GoesOn(t, "commitEvent", NewEvent(t, calls')) /\ reported' = reported
         \/ \E kwargs \in InsertInput :
              /\ GoesOn(t, "commitRecord", Record(calls', filtered_data(t, kwargs)))
              /\ reported' = reported
  PROVE  Begins(t) /\ TypeInv'
  <1>1. /\ calls' = calls + 1 /\ calls' \in 1 .. MaxCalls
        /\ caller' = [i \in 1 .. MaxCalls |-> caller'[i]]
        /\ caller'[calls'] = t
        /\ \A i \in 1 .. calls : caller'[i] = caller[i]
        /\ scope' = scope /\ config' = config
    BY NumberedEffect
  <1>2. Stored' = Stored
    BY DEF Stored
  <1>3. MaxCalls \in Nat /\ calls \in 0 .. MaxCalls /\ MaxOthers \in Nat
    BY ToolCallsAssumption DEF TypeInv, CallsOK
  <1>4. \A i \in 1 .. calls : i \in 1 .. MaxCalls \ {calls'}
    BY <1>1, <1>3
  <1>5. step[t] = "idle"
    BY DEF Numbered
  <1> DEFINE Row ==
        \/ ~ Pending(t)'
        \/ /\ step'[t] \in {"commitEvent", "commitRecord"}
           /\ work'[t].id = calls' /\ Forced(work'[t], t)
           /\ reported' = reported
      Effect ==
        /\ step' \in [Turns -> Steps]
        /\ work' = [u \in Turns |-> work'[u]]
        /\ answer' = [u \in Turns |-> answer'[u]]
        /\ reported' \in [1 .. MaxCalls -> {"nothing", "success", "failed", "unsure"}]
        /\ \A i \in 1 .. MaxCalls \ {calls'} : reported'[i] = reported[i]
        /\ \A u \in Turns \ {t} : step'[u] = step[u] /\ work'[u] = work[u]
        /\ WorkOK(t)'
  <1>6. ASSUME NEW a, Ends(t, a),
               NEW what \in {"success", "failed", "unsure"}, Tells(calls', what)
        PROVE  Row /\ Effect
    <2>1. /\ reported' \in [1 .. MaxCalls -> {"nothing", "success", "failed", "unsure"}]
          /\ \A i \in 1 .. MaxCalls \ {calls'} : reported'[i] = reported[i]
      BY <1>1, <1>4, <1>6, TellsEffect
    <2> QED
      BY <1>6, <2>1, EndsEffect DEF Pending, WorkOK
  <1>7. ASSUME GoesOn(t, "commitEvent", NewEvent(t, calls')), reported' = reported
        PROVE  Row /\ Effect
    <2>1. /\ step' \in [Turns -> Steps]
          /\ work' = [u \in Turns |-> work'[u]]
          /\ answer' = [u \in Turns |-> answer'[u]]
          /\ step'[t] = "commitEvent" /\ work'[t] = NewEvent(t, calls')
          /\ \A u \in Turns \ {t} : step'[u] = step[u] /\ work'[u] = work[u]
      BY <1>7, GoesOnEffect DEF Steps
    <2>2. scope[t].account \in Accounts /\ scope[t].org \in Orgs /\ scope[t].contact \in Contacts
      BY DEF TypeInv, CallsOK
    <2>3. calls' \in 1 .. MaxCalls + MaxOthers /\ calls' \in 0 .. MaxCalls
      BY <1>1, <1>3
    <2>4. work'[t] \in Events
      BY <2>1, <2>2, <2>3 DEF NewEvent, Event, Events
    <2>5. Forced(work'[t], t) /\ work'[t].id = calls'
      BY <2>1, <2>4 DEF Forced, NewEvent, Event
    <2>6. WorkOK(t)'
      BY <2>1, <2>4 DEF WorkOK, Events
    <2> QED
      BY <1>7, <2>1, <2>5, <2>6 DEF TypeInv, CallsOK
  <1>8. ASSUME NEW kwargs \in InsertInput,
               GoesOn(t, "commitRecord", Record(calls', filtered_data(t, kwargs))),
               reported' = reported
        PROVE  Row /\ Effect
    <2> DEFINE data == filtered_data(t, kwargs)
    <2>1. /\ step' \in [Turns -> Steps]
          /\ work' = [u \in Turns |-> work'[u]]
          /\ answer' = [u \in Turns |-> answer'[u]]
          /\ step'[t] = "commitRecord" /\ work'[t] = Record(calls', data)
          /\ \A u \in Turns \ {t} : step'[u] = step[u] /\ work'[u] = work[u]
      BY <1>8, GoesOnEffect DEF Steps
    <2>2. config.columns \subseteq Columns
      BY ToolCallsAssumption DEF TypeInv, CallsOK, valid_config
    <2>3. /\ DOMAIN data \subseteq Columns
          /\ config.inject_account_id => data["account_id"] = scope[t].account
          /\ config.inject_chat_session_id => data["chat_session_id"] = t
      BY <2>2 DEF filtered_data, Columns
    <2>4. work'[t].id = calls' /\ work'[t].data = data
      BY <2>1 DEF Record
    <2>5. IsRecord(work'[t])
      BY <1>1, <2>1, <2>3, <2>4 DEF IsRecord
    <2>6. work'[t] \notin Events
      BY <2>5, RowsAreApart
    <2>7. Forced(work'[t], t)
      BY <2>3, <2>4, <2>6 DEF Forced
    <2>8. WorkOK(t)'
      BY <2>1, <2>5 DEF WorkOK, IsRecord
    <2> QED
      BY <1>8, <2>1, <2>4, <2>7, <2>8 DEF TypeInv, CallsOK
  <1>9. Row /\ Effect
    BY <1>6, <1>7, <1>8
  <1>10. \A u \in Turns : WorkOK(u)'
    BY <1>9 DEF TypeInv, WorkOK
  <1>11. Begins(t)
    BY <1>1, <1>2, <1>5, <1>9 DEF Begins
  <1>12. CallsOK'
    BY <1>1, <1>3, <1>9 DEF TypeInv, CallsOK
  <1>13. RowsOK'
    BY DEF TypeInv, RowsOK
  <1> QED
    BY <1>10, <1>11, <1>12, <1>13 DEF TypeInv

BeginsOf(t) ==
  \/ \E limit \in Limits : list_contact_events(t, limit)
  \/ StatementFails(t)
  \/ add_contact_event(t)
  \/ \E kwargs \in InsertInput : insert_impl(t, kwargs)
  \/ \E filter \in Filters, limit \in Limits : query_impl(t, filter, limit)

LEMMA BeginningsBegin ==
  ASSUME TypeInv, NEW t \in Turns, BeginsOf(t)
  PROVE  Begins(t) /\ TypeInv'
  <1> DEFINE Ended == /\ \E a : Ends(t, a)
                      /\ \E what \in {"success", "failed", "unsure"} : Tells(calls', what)
      Adds == GoesOn(t, "commitEvent", NewEvent(t, calls')) /\ reported' = reported
      Inserts == \E kwargs \in InsertInput :
                   /\ GoesOn(t, "commitRecord", Record(calls', filtered_data(t, kwargs)))
                   /\ reported' = reported
      Goal == /\ Numbered(t)
              /\ UNCHANGED <<contacts, events, records, removed, others>>
              /\ faults' \in 0 .. MaxFaults
              /\ Ended \/ Adds \/ Inserts
  <1>0. faults \in 0 .. MaxFaults /\ MaxFaults \in Nat
    BY ToolCallsAssumption DEF TypeInv, CallsOK
  <1>a. \A i, what : GivesUp(t, i, what) => (\E a : Ends(t, a)) /\ Tells(i, what)
    BY DEF GivesUp
  <1>1. ASSUME NEW limit \in Limits, list_contact_events(t, limit) PROVE Goal
    BY <1>0, <1>1 DEF list_contact_events, database
  <1>2. ASSUME StatementFails(t) PROVE Goal
    BY <1>0, <1>2, <1>a DEF StatementFails, database, Fault
  <1>3. ASSUME add_contact_event(t) PROVE Goal
    BY <1>0, <1>3, <1>a DEF add_contact_event, database
  <1>4. ASSUME NEW kwargs \in InsertInput, insert_impl(t, kwargs) PROVE Goal
    BY <1>0, <1>4, <1>a DEF insert_impl, database
  <1>5. ASSUME NEW filter \in Filters, NEW limit \in Limits, query_impl(t, filter, limit)
        PROVE  Goal
    BY <1>0, <1>5 DEF query_impl, database
  <1>6. Goal
    BY <1>1, <1>2, <1>3, <1>4, <1>5 DEF BeginsOf
  <1> QED
    BY <1>6, CallBegins

\* What a step after the first leaves: the row of its call, or nothing new.
LEMMA CallConcludes ==
  ASSUME TypeInv, NEW t \in Turns, Pending(t), work[t].id \in 1 .. MaxCalls,
         UNCHANGED <<scope, config, calls, caller, contacts, others, removed>>,
         faults' \in 0 .. MaxFaults,
         \/ events' = events /\ records' = records
         \/ step[t] = "commitEvent" /\ events' = events \cup {work[t]} /\ records' = records
         \/ step[t] = "commitRecord" /\ records' = records \cup {work[t]} /\ events' = events,
         \/ /\ step[t] = "commitEvent"
            /\ GoesOn(t, "refreshEvent", work[t]) /\ reported' = reported
         \/ \E a : Ends(t, a) /\ \E what \in {"success", "unsure"} : Tells(work[t].id, what)
  PROVE  Concludes(t) /\ TypeInv'
  <1>1. Stored \subseteq Stored' /\ Stored' \subseteq Stored \cup {work[t]}
    BY DEF Stored
  <1>2. /\ \A r \in {work[t]} : step[t] = "commitEvent" => r \in Events
        /\ \A r \in {work[t]} : step[t] = "commitRecord" => IsRecord(r)
    BY DEF TypeInv, WorkOK
  <1>3. IsFiniteSet(events \cup {work[t]}) /\ IsFiniteSet(records \cup {work[t]})
    BY FS_AddElement DEF TypeInv, RowsOK
  <1>4. RowsOK'
    <2>1. CASE events' = events /\ records' = records
      BY <2>1 DEF TypeInv, RowsOK
    <2>2. CASE /\ step[t] = "commitEvent" /\ events' = events \cup {work[t]}
               /\ records' = records
      BY <2>2, <1>2, <1>3 DEF TypeInv, RowsOK
    <2>3. CASE /\ step[t] = "commitRecord" /\ records' = records \cup {work[t]}
               /\ events' = events
      BY <2>3, <1>2, <1>3 DEF TypeInv, RowsOK
    <2> QED
      BY <2>1, <2>2, <2>3
  <1> DEFINE Effect ==
        /\ step' \in [Turns -> Steps]
        /\ work' = [u \in Turns |-> work'[u]]
        /\ answer' = [u \in Turns |-> answer'[u]]
        /\ reported' \in [1 .. MaxCalls -> {"nothing", "success", "failed", "unsure"}]
        /\ \A i \in 1 .. MaxCalls \ {work[t].id} : reported'[i] = reported[i]
        /\ \/ step'[t] = "refreshEvent" /\ work'[t] = work[t] /\ reported' = reported
           \/ ~ Pending(t)' /\ reported'[work[t].id] \in {"success", "unsure"}
        /\ \A u \in Turns \ {t} : step'[u] = step[u] /\ work'[u] = work[u]
        /\ WorkOK(t)'
  <1>5. ASSUME step[t] = "commitEvent", GoesOn(t, "refreshEvent", work[t]),
               reported' = reported
        PROVE  Effect
    <2>1. /\ step' \in [Turns -> Steps]
          /\ work' = [u \in Turns |-> work'[u]]
          /\ answer' = [u \in Turns |-> answer'[u]]
          /\ step'[t] = "refreshEvent" /\ work'[t] = work[t]
          /\ \A u \in Turns \ {t} : step'[u] = step[u] /\ work'[u] = work[u]
      BY <1>5, GoesOnEffect DEF Steps
    <2>2. WorkOK(t)'
      BY <1>2, <1>5, <2>1 DEF WorkOK, Events
    <2> QED
      BY <1>5, <2>1, <2>2 DEF TypeInv, CallsOK
  <1>6. ASSUME NEW a, Ends(t, a), NEW what \in {"success", "unsure"},
               Tells(work[t].id, what)
        PROVE  Effect
    <2>1. /\ reported' \in [1 .. MaxCalls -> {"nothing", "success", "failed", "unsure"}]
          /\ reported'[work[t].id] = what
          /\ \A i \in 1 .. MaxCalls \ {work[t].id} : reported'[i] = reported[i]
      BY <1>6, TellsEffect
    <2> QED
      BY <1>6, <2>1, EndsEffect DEF Pending, WorkOK
  <1>7. Effect
    BY <1>5, <1>6
  <1>8. \A u \in Turns : WorkOK(u)'
    BY <1>7 DEF TypeInv, WorkOK
  <1> QED
    BY <1>1, <1>4, <1>7, <1>8 DEF Concludes, TypeInv, CallsOK

ConcludesOf(t) ==
  \/ CommitEvent(t)
  \/ CommitEventLost(t)
  \/ RefreshEvent(t)
  \/ RefreshLost(t)
  \/ CommitRecord(t)
  \/ CommitRecordLost(t)

LEMMA ConclusionsConclude ==
  ASSUME TypeInv, NEW t \in Turns, work[t].id \in 1 .. MaxCalls, ConcludesOf(t)
  PROVE  Concludes(t) /\ TypeInv'
  <1> DEFINE Ended == /\ \E a : Ends(t, a)
                         /\ \E what \in {"success", "unsure"} : Tells(work[t].id, what)
      Goal == /\ Pending(t)
              /\ UNCHANGED <<scope, config, calls, caller, contacts, others, removed>>
              /\ faults' \in 0 .. MaxFaults
              /\ \/ events' = events /\ records' = records
                 \/ /\ step[t] = "commitEvent" /\ events' = events \cup {work[t]}
                    /\ records' = records
                 \/ /\ step[t] = "commitRecord" /\ records' = records \cup {work[t]}
                    /\ events' = events
              /\ \/ /\ step[t] = "commitEvent"
                    /\ GoesOn(t, "refreshEvent", work[t]) /\ reported' = reported
                 \/ Ended
  <1>0. faults \in 0 .. MaxFaults /\ MaxFaults \in Nat
    BY ToolCallsAssumption DEF TypeInv, CallsOK
  <1>a. \A i, what : GivesUp(t, i, what) => (\E a : Ends(t, a)) /\ Tells(i, what)
    BY DEF GivesUp
  <1> USE DEF Continues, Built, database, Pending
  <1>1. ASSUME CommitEvent(t) PROVE Goal
    BY <1>0, <1>1 DEF CommitEvent
  <1>2. ASSUME CommitEventLost(t) PROVE Goal
    BY <1>0, <1>2, <1>a DEF CommitEventLost, Fault
  <1>3. ASSUME RefreshEvent(t) PROVE Goal
    BY <1>0, <1>3, <1>a DEF RefreshEvent
  <1>4. ASSUME RefreshLost(t) PROVE Goal
    BY <1>0, <1>4, <1>a DEF RefreshLost, Fault
  <1>5. ASSUME CommitRecord(t) PROVE Goal
    BY <1>0, <1>5 DEF CommitRecord
  <1>6. ASSUME CommitRecordLost(t) PROVE Goal
    BY <1>0, <1>6, <1>a DEF CommitRecordLost, Fault
  <1>7. Goal
    BY <1>1, <1>2, <1>3, <1>4, <1>5, <1>6 DEF ConcludesOf
  <1> HIDE DEF Continues, Built, database, Pending
  <1> QED
    BY <1>7, CallConcludes

\* Rows of others are numbered after those of the calls.
LEMMA NumbersOfOthers ==
  ASSUME NEW m \in Nat, NEW n \in Nat, NEW k \in Nat, k >= 1, k <= n
  PROVE  m + k \in 1 .. m + n /\ m + k \notin 1 .. m
  OBVIOUS

\* What the API service commits is not of the tools: a deletion moves rows to removed.
LEMMA OthersAreQuiet ==
  ASSUME TypeInv, OthersCommit
  PROVE  Quiet /\ TypeInv'
  <1> USE DEF Commits, call
  <1>1. MaxCalls \in Nat /\ MaxOthers \in Nat /\ calls \in 0 .. MaxCalls
        /\ others \in 0 .. MaxOthers
    BY ToolCallsAssumption DEF TypeInv, CallsOK
  <1> DEFINE Effect ==
        /\ UNCHANGED <<scope, config, step, work, answer, calls, faults, caller, reported>>
        /\ contacts' \in [Contacts -> Orgs \cup {None}]
        /\ others' \in 0 .. MaxOthers
        /\ RowsOK'
        /\ Stored' = Stored
  <1>2. ASSUME NEW c \in Contacts, ContactDeleted(c) PROVE Effect
    <2>1. events' \subseteq events /\ records' = records
          /\ removed' = removed \cup (events \ events')
      BY <1>2 DEF ContactDeleted
    <2>2. RowsOK'
      BY <2>1, FS_Subset DEF TypeInv, RowsOK
    <2>3. Stored' = Stored
      BY <2>1 DEF Stored
    <2> QED
      BY <1>2, <2>2, <2>3 DEF ContactDeleted, TypeInv, CallsOK
  <1>3. ASSUME NEW c \in Contacts, NEW at \in 0 .. calls, EventLogged(c, at) PROVE Effect
    <2> DEFINE e == Event(MaxCalls + others', at, c, contacts[c], None)
    <2>1. /\ events' = events \cup {e} /\ removed' = removed /\ records' = records
          /\ others' \in 1 .. MaxOthers /\ contacts' = contacts /\ contacts[c] # None
      BY <1>1, <1>3 DEF EventLogged
    <2>2. contacts[c] \in Orgs
      BY <2>1 DEF TypeInv, CallsOK
    <2>3. others' \in Nat /\ others' >= 1 /\ others' <= MaxOthers
      BY <1>1, <2>1
    <2>8. at \in 0 .. MaxCalls
      BY <1>1
    <2>9. MaxCalls + others' \in 1 .. MaxCalls + MaxOthers
          /\ MaxCalls + others' \notin 1 .. MaxCalls
      BY <1>1, <2>3, NumbersOfOthers
    <2>4. e \in Events /\ e.id \notin 1 .. MaxCalls
      BY <2>2, <2>8, <2>9 DEF Event, Events
    <2>5. IsFiniteSet(events \cup {e})
      BY FS_AddElement DEF TypeInv, RowsOK
    <2>6. RowsOK'
      BY <2>1, <2>4, <2>5 DEF TypeInv, RowsOK
    <2>7. Stored' = Stored
      BY <2>1, <2>4 DEF Stored
    <2> QED
      BY <1>1, <1>3, <2>1, <2>6, <2>7 DEF EventLogged, TypeInv, CallsOK
  <1>4. ASSUME NEW e \in events, EventDeleted(e) PROVE Effect
    <2>1. /\ events' = events \ {e} /\ records' = records /\ removed' = removed \cup {e}
      BY <1>4 DEF EventDeleted
    <2>2. RowsOK'
      BY <1>4, <2>1, FS_Subset DEF TypeInv, RowsOK
    <2>3. Stored' = Stored
      BY <1>4, <2>1 DEF Stored
    <2> QED
      BY <1>4, <2>2, <2>3 DEF EventDeleted, TypeInv, CallsOK
  <1>5. ASSUME NEW r \in records, RecordDeleted(r) PROVE Effect
    <2>1. /\ records' = records \ {r} /\ events' = events /\ removed' = removed \cup {r}
      BY <1>5 DEF RecordDeleted
    <2>2. RowsOK'
      BY <1>5, <2>1, FS_Subset DEF TypeInv, RowsOK
    <2>3. Stored' = Stored
      BY <1>5, <2>1 DEF Stored
    <2> QED
      BY <1>5, <2>2, <2>3 DEF RecordDeleted, TypeInv, CallsOK
  <1>6. Effect
    BY <1>2, <1>3, <1>4, <1>5 DEF OthersCommit
  <1>7. \A t \in Turns : WorkOK(t)'
    BY <1>6 DEF TypeInv, WorkOK
  <1> QED
    BY <1>6, <1>7 DEF TypeInv, CallsOK, Quiet

-------------------------------------------------------------------------------
(* The reports. *)

\* The row of a call in progress is not stored before its commit, and is its own.
Working(t) ==
  Pending(t) =>
    /\ work[t].id \in 1 .. calls
    /\ caller[work[t].id] = t
    /\ reported[work[t].id] = "nothing"
    /\ Forced(work[t], t)
    /\ \A r \in Stored : r.id = work[t].id => step[t] = "refreshEvent" /\ r = work[t]

ReportInv ==
  /\ \A t \in Turns : Working(t)
  /\ \A r \in Stored : r.id \in 1 .. calls
  /\ \A i \in 1 .. MaxCalls \ 1 .. calls : reported[i] = "nothing"
  /\ StoredAsReported

CallInv == TypeInv /\ ReportInv

LEMMA QuietKeepsReports ==
  ASSUME ReportInv, Quiet
  PROVE  ReportInv'
  <1> USE DEF Quiet
  <1>1. \A t \in Turns : Working(t)'
    BY DEF ReportInv, Working, Forced, Pending
  <1>2. StoredAsReported'
    BY DEF ReportInv, StoredAsReported, Forced
  <1> QED
    BY <1>1, <1>2 DEF ReportInv

LEMMA BeginKeepsReports ==
  ASSUME CallInv, NEW t \in Turns, Begins(t)
  PROVE  ReportInv'
  <1>1. calls \in Nat /\ calls' = calls + 1 /\ \A i \in 1 .. calls : i \in 1 .. calls' /\ i # calls'
    BY ToolCallsAssumption DEF CallInv, TypeInv, CallsOK, Begins
  <1>5. calls' \in 1 .. MaxCalls \ 1 .. calls
    BY <1>1 DEF Begins
  <1>6. \A i \in 1 .. MaxCalls \ 1 .. calls' : reported'[i] = "nothing"
    BY <1>1 DEF Begins, CallInv, ReportInv
  <1>7. \A i \in 1 .. calls : reported'[i] = reported[i]
    <2>1. MaxCalls \in Nat /\ calls + 1 \in 1 .. MaxCalls
      BY <1>1, ToolCallsAssumption DEF Begins
    <2>2. \A i \in 1 .. calls : i \in 1 .. MaxCalls \ {calls'}
      BY <1>1, <2>1
    <2> QED
      BY <2>2 DEF Begins
  <1>2. ASSUME NEW u \in Turns \ {t} PROVE Working(u)'
    BY <1>1, <1>2, <1>7 DEF CallInv, ReportInv, Working, Forced, Pending, Begins
  <1>3. Working(t)'
    <2> SUFFICES ASSUME Pending(t)' PROVE Working(t)'
      BY DEF Working
    <2>1. work'[t].id = calls' /\ Forced(work'[t], t) /\ reported' = reported
      BY DEF Begins
    <2>2. reported[calls'] = "nothing"
      BY <1>1, <1>5 DEF CallInv, ReportInv
    <2> QED
      BY <1>1, <2>1, <2>2 DEF CallInv, ReportInv, Working, Forced, Begins
  <1>4. StoredAsReported'
    BY <1>1, <1>7 DEF CallInv, ReportInv, StoredAsReported, Forced, Begins
  <1> QED
    BY <1>1, <1>2, <1>3, <1>4, <1>6 DEF CallInv, ReportInv, Begins

LEMMA ConclusionKeepsReports ==
  ASSUME CallInv, NEW t \in Turns, Concludes(t)
  PROVE  ReportInv'
  <1> DEFINE i == work[t].id
  <1>1. /\ i \in 1 .. calls /\ caller[i] = t /\ reported[i] = "nothing" /\ Forced(work[t], t)
        /\ \A r \in Stored : r.id = i => r = work[t]
    BY DEF CallInv, ReportInv, Working, Concludes
  <1>2. i \in 1 .. MaxCalls
    BY <1>1, ToolCallsAssumption DEF CallInv, TypeInv, CallsOK
  <1>3. \A r \in Stored' : r \in Stored \/ r = work[t]
    BY DEF Concludes
  <1>4. ASSUME NEW u \in Turns \ {t} PROVE Working(u)'
    <2> SUFFICES ASSUME Pending(u)' PROVE Working(u)'
      BY DEF Working
    <2>1. step'[u] = step[u] /\ work'[u] = work[u] /\ Pending(u)
      BY DEF Concludes, Pending
    <2>2. work[u].id \in 1 .. calls /\ caller[work[u].id] = u /\ reported[work[u].id] = "nothing"
      BY <2>1 DEF CallInv, ReportInv, Working
    <2>3. work[u].id # i /\ work[u].id \in 1 .. MaxCalls
      BY <1>1, <2>2, ToolCallsAssumption DEF CallInv, TypeInv, CallsOK
    <2>4. reported'[work[u].id] = "nothing"
      BY <2>2, <2>3 DEF Concludes
    <2>7. Forced(work[u], u)
      BY <2>1 DEF CallInv, ReportInv, Working
    <2>5. Forced(work[u], u)'
      BY <2>1, <2>7 DEF Forced, Concludes
    <2>8. \A r \in Stored : r.id = work[u].id => step[u] = "refreshEvent" /\ r = work[u]
      BY <2>1 DEF CallInv, ReportInv, Working
    <2>6. \A r \in Stored' : r.id = work[u].id => step[u] = "refreshEvent" /\ r = work[u]
      BY <1>3, <2>3, <2>8
    <2>9. calls' = calls /\ caller' = caller
      BY DEF Concludes
    <2> QED
      BY <2>1, <2>2, <2>4, <2>5, <2>6, <2>9 DEF Working, Forced
  <1>5. Working(t)'
    <2> SUFFICES ASSUME Pending(t)' PROVE Working(t)'
      BY DEF Working
    <2>1. step'[t] = "refreshEvent" /\ work'[t] = work[t] /\ reported' = reported
      BY DEF Concludes
    <2>2. Forced(work[t], t)'
      BY <1>1 DEF Forced, Concludes
    <2> QED
      BY <1>1, <1>3, <2>1, <2>2 DEF Working, Concludes
  <1>6. \A j \in 1 .. MaxCalls \ 1 .. calls' : reported'[j] = "nothing"
    BY <1>1 DEF Concludes, CallInv, ReportInv
  <1>7. \A r \in Stored' : r.id \in 1 .. calls'
    BY <1>1, <1>3 DEF CallInv, ReportInv, Concludes
  <1>8. StoredAsReported'
    <2>1. ASSUME NEW r \in Stored' PROVE reported'[r.id] # "failed" /\ Forced(r, caller[r.id])'
      <3>1. Forced(r, caller[r.id])
        BY <1>1, <1>3 DEF CallInv, ReportInv, StoredAsReported
      <3>2. Forced(r, caller[r.id])'
        BY <3>1 DEF Forced, Concludes
      <3>3. CASE r.id = i
        BY <1>1, <3>2, <3>3 DEF Concludes
      <3>4. CASE r.id # i
        <4>1. r \in Stored /\ r.id \in 1 .. MaxCalls
          BY <1>3, <3>4 DEF Stored
        <4> QED
          BY <3>2, <3>4, <4>1 DEF Concludes, CallInv, ReportInv, StoredAsReported
      <3> QED
        BY <3>3, <3>4
    <2>2. \A r, q \in Stored' : r.id = q.id => r = q
      BY <1>1, <1>3 DEF CallInv, ReportInv, StoredAsReported
    <2> QED
      BY <2>1, <2>2 DEF StoredAsReported
  <1> QED
    BY <1>4, <1>5, <1>6, <1>7, <1>8 DEF ReportInv

-------------------------------------------------------------------------------
(* Every step. *)

LEMMA NextByTurn ==
  ASSUME Next
  PROVE  \/ OthersCommit
         \/ \E t \in Turns : SearchToolCalled(t) \/ get_contact(t)
         \/ \E t \in Turns : BeginsOf(t)
         \/ \E t \in Turns : ConcludesOf(t)
  BY DEF Next, ContactToolCalled, TableToolCalled, BeginsOf, ConcludesOf

LEMMA Initially == Init => CallInv
  <1> SUFFICES ASSUME Init PROVE CallInv
    OBVIOUS
  <1>1. MaxCalls \in Nat /\ MaxOthers \in Nat /\ MaxFaults \in Nat
        /\ Scopes \subseteq [Turns -> [account : Accounts, org : Orgs, contact : Contacts]]
    BY ToolCallsAssumption
  <1>2. CallsOK
    BY <1>1 DEF Init, CallsOK, Steps
  <1>3. RowsOK /\ Stored = {}
    BY FS_EmptySet DEF Init, RowsOK, Stored
  <1>4. \A t \in Turns : WorkOK(t) /\ Working(t)
    BY DEF Init, WorkOK, Working, Pending
  <1>5. \A i \in 1 .. MaxCalls : reported[i] = "nothing"
    BY DEF Init
  <1> QED
    BY <1>2, <1>3, <1>4, <1>5 DEF CallInv, TypeInv, ReportInv, StoredAsReported

LEMMA InvNext == CallInv /\ [Next]_vars => CallInv'
  <1> SUFFICES ASSUME CallInv, [Next]_vars PROVE CallInv'
    OBVIOUS
  <1>1. CASE OthersCommit
    BY <1>1, OthersAreQuiet, QuietKeepsReports DEF CallInv
  <1>2. ASSUME NEW t \in Turns, SearchToolCalled(t) \/ get_contact(t) PROVE CallInv'
    BY <1>2, SearchIsQuiet, QuietKeepsReports DEF CallInv
  <1>3. ASSUME NEW t \in Turns, BeginsOf(t) PROVE CallInv'
    BY <1>3, BeginningsBegin, BeginKeepsReports DEF CallInv
  <1>4. ASSUME NEW t \in Turns, ConcludesOf(t) PROVE CallInv'
    <2>1. Pending(t)
      BY <1>4 DEF ConcludesOf, CommitEvent, CommitEventLost, RefreshEvent, RefreshLost,
                  CommitRecord, CommitRecordLost, Continues, Pending
    <2>2. work[t].id \in 1 .. MaxCalls
      BY <2>1, ToolCallsAssumption DEF CallInv, ReportInv, Working, TypeInv, CallsOK
    <2> QED
      BY <1>4, <2>2, ConclusionsConclude, ConclusionKeepsReports DEF CallInv
  <1>5. CASE UNCHANGED vars
    <2>1. TypeInv'
      BY <1>5 DEF CallInv, TypeInv, CallsOK, RowsOK, WorkOK, vars, database, call
    <2>2. Quiet
      BY <1>5 DEF vars, database, call, Quiet, Stored
    <2> QED
      BY <2>1, <2>2, QuietKeepsReports DEF CallInv
  <1> QED
    BY <1>1, <1>2, <1>3, <1>4, <1>5, NextByTurn

LEMMA InvHolds == Spec => []CallInv
  BY Initially, InvNext, PTL DEF Spec

-------------------------------------------------------------------------------
(* The theorems. *)

\* Every row, counter and report keeps its type, for any turns, scopes and number of
\* calls.
THEOREM ToolCallsTypeCorrect == Spec => []TypeOK
  <1>1. CallInv => TypeOK
    <2>1. \A r : IsRecord(r) => r.id \in 1 .. MaxCalls /\ DOMAIN r.data \subseteq Columns
      BY DEF IsRecord
    <2> QED
      BY <2>1 DEF CallInv, TypeInv, CallsOK, RowsOK, WorkOK, TypeOK
  <1> QED
    BY <1>1, InvHolds, PTL

\* A write that failed before its commit stored nothing, a call stores one row at most,
\* and the row is of the scope its tool was built for: add_contact_event and insert_impl.
THEOREM ReportsMatchRows == Spec => []StoredAsReported
  <1>1. CallInv => StoredAsReported
    BY DEF CallInv, ReportInv
  <1> QED
    BY <1>1, InvHolds, PTL

\* What ReadsShowWrites says of an answer to turn t.
EventsShown(t, said) ==
  /\ \A e \in said.rows : e.contact = scope[t].contact /\ e.org = scope[t].org
  /\ \A e \in events \ said.rows :
       Acknowledged(e) /\ SameScope(t, caller[e.id]) =>
         /\ Cardinality(said.rows) = said.of
         /\ \A f \in said.rows : f.at >= e.at

RecordsShown(said) ==
  \A r \in records \ said.rows :
    Acknowledged(r) /\ Matches(r, said.of.filter) => Cardinality(said.rows) = said.of.limit

\* A subset that is as large as it may be misses an element only when it is full.
LEMMA FullOrWhole ==
  ASSUME NEW S, IsFiniteSet(S), NEW R \in SUBSET S, NEW n \in Nat,
         Cardinality(R) = IF Cardinality(S) < n THEN Cardinality(S) ELSE n,
         NEW e \in S \ R
  PROVE  Cardinality(R) = n
  <1>1. Cardinality(R) = Cardinality(S) => R = S
    BY FS_Subset
  <1>2. Cardinality(S) \in Nat /\ Cardinality(R) \in Nat
    BY FS_CardinalityType, FS_Subset
  <1> QED
    BY <1>1, <1>2

LEMMA ListShowsEvents ==
  ASSUME CallInv, NEW t \in Turns, NEW limit \in Nat,
         NEW rows \in Newest(Listed(t), limit)
  PROVE  EventsShown(t, Answer("events", rows, limit))
  <1>1. /\ rows \in SUBSET Listed(t)
        /\ Cardinality(rows) =
             IF Cardinality(Listed(t)) < limit THEN Cardinality(Listed(t)) ELSE limit
        /\ \A e \in rows, f \in Listed(t) \ rows : e.at >= f.at
    BY DEF Newest
  <1>2. Listed(t) \subseteq events /\ IsFiniteSet(Listed(t))
    BY FS_Subset DEF Listed, CallInv, TypeInv, RowsOK
  <1>3. ASSUME NEW e \in events \ rows, Acknowledged(e), SameScope(t, caller[e.id])
        PROVE  Cardinality(rows) = limit /\ \A f \in rows : f.at >= e.at
    <2>1. e \in Stored /\ e \in Events
      BY <1>3 DEF Acknowledged, Stored, CallInv, TypeInv, RowsOK
    <2>2. Forced(e, caller[e.id])
      BY <2>1 DEF CallInv, ReportInv, StoredAsReported
    <2>3. e.contact = scope[t].contact /\ e.org = scope[t].org
      BY <1>3, <2>1, <2>2 DEF Forced, SameScope
    <2>4. e \in Listed(t) \ rows
      BY <1>3, <2>3 DEF Listed, tenant_predicate
    <2> QED
      BY <1>1, <1>2, <2>4, FullOrWhole
  <1> QED
    BY <1>1, <1>3 DEF EventsShown, Answer, Listed, tenant_predicate

LEMMA PageShowsRecords ==
  ASSUME CallInv, NEW filter, NEW limit \in Nat, NEW page,
         page \in SUBSET {r \in records : Matches(r, filter)},
         Cardinality(page) =
           IF Cardinality({r \in records : Matches(r, filter)}) < limit
           THEN Cardinality({r \in records : Matches(r, filter)}) ELSE limit
  PROVE  RecordsShown(Answer("records", page, [filter |-> filter, limit |-> limit]))
  <1> DEFINE found == {r \in records : Matches(r, filter)}
  <1>1. IsFiniteSet(found)
    BY FS_Subset DEF CallInv, TypeInv, RowsOK
  <1>2. ASSUME NEW r \in records \ page, Matches(r, filter)
        PROVE  Cardinality(page) = limit
    <2>1. r \in found \ page
      BY <1>2
    <2> HIDE DEF found
    <2> QED
      BY <1>1, <2>1, FullOrWhole DEF found
  <1> QED
    BY <1>2 DEF RecordsShown, Answer

ReadStep(t) ==
  LET said == answer'[t]
  IN calls' # calls /\ caller'[calls'] = t =>
       /\ said.kind = "events" => EventsShown(t, said)
       /\ said.kind = "records" => RecordsShown(said)

\* The reading calls answer from the rows, the writing ones with neither kind.
LEMMA BeginningsShow ==
  ASSUME CallInv, NEW t \in Turns, BeginsOf(t)
  PROVE  ReadStep(t)
  <1> DEFINE Other == answer'[t].kind \notin {"events", "records"}
  <1>0. Limits \subseteq Nat /\ TypeInv
    BY ToolCallsAssumption DEF Limits, CallInv
  <1>1. \A i, what : GivesUp(t, i, what) => Other
    BY <1>0, EndsEffect DEF GivesUp, Answer
  <1>2. \A w : GoesOn(t, "commitEvent", w) \/ GoesOn(t, "commitRecord", w) => Other
    BY <1>0, GoesOnEffect DEF Answer, NoAnswer, Steps
  <1>3. ASSUME NEW limit \in Limits, list_contact_events(t, limit) PROVE ReadStep(t)
    <2>1. PICK rows \in Newest(Listed(t), limit) : Ends(t, Answer("events", rows, limit))
      BY <1>3 DEF list_contact_events
    <2>2. answer'[t] = Answer("events", rows, limit)
      BY <1>0, <2>1, EndsEffect
    <2>3. EventsShown(t, answer'[t])
      BY <1>0, <2>2, ListShowsEvents
    <2> QED
      BY <2>2, <2>3 DEF ReadStep, Answer
  <1>4. ASSUME NEW filter \in Filters, NEW limit \in Limits, query_impl(t, filter, limit)
        PROVE  ReadStep(t)
    <2> DEFINE found == {r \in records : Matches(r, filter)}
    <2>1. PICK page \in SUBSET found :
            /\ Cardinality(page) =
                 IF Cardinality(found) < limit THEN Cardinality(found) ELSE limit
            /\ Ends(t, Answer("records", page, [filter |-> filter, limit |-> limit]))
      BY <1>4 DEF query_impl
    <2>2. answer'[t] = Answer("records", page, [filter |-> filter, limit |-> limit])
      BY <1>0, <2>1, EndsEffect
    <2>3. RecordsShown(answer'[t])
      BY <1>0, <2>1, <2>2, PageShowsRecords
    <2> QED
      BY <2>2, <2>3 DEF ReadStep, Answer
  <1>5. ASSUME StatementFails(t) PROVE Other
    BY <1>1, <1>5 DEF StatementFails
  <1>6. ASSUME add_contact_event(t) PROVE Other
    BY <1>1, <1>2, <1>6 DEF add_contact_event
  <1>7. ASSUME NEW kwargs \in InsertInput, insert_impl(t, kwargs) PROVE Other
    BY <1>1, <1>2, <1>7 DEF insert_impl
  <1>8. Other => ReadStep(t)
    BY DEF ReadStep
  <1> QED
    BY <1>3, <1>4, <1>5, <1>6, <1>7, <1>8 DEF BeginsOf

LEMMA StepShows == CallInv /\ [Next]_vars => \A t \in Turns : ReadStep(t)
  <1> SUFFICES ASSUME CallInv, [Next]_vars, NEW t \in Turns PROVE ReadStep(t)
    OBVIOUS
  <1>1. CASE calls' = calls
    BY <1>1 DEF ReadStep
  <1>2. ASSUME NEW u \in Turns, BeginsOf(u) PROVE ReadStep(t)
    <2>1. caller'[calls'] = u
      BY <1>2, BeginningsBegin DEF Begins, CallInv
    <2>2. CASE u = t
      BY <1>2, <2>2, BeginningsShow
    <2>3. CASE u # t
      BY <2>1, <2>3 DEF ReadStep
    <2> QED
      BY <2>2, <2>3
  <1>3. (\E u \in Turns : BeginsOf(u)) \/ calls' = calls
    <2>1. CASE OthersCommit
      BY <2>1, OthersAreQuiet DEF CallInv, Quiet
    <2>2. ASSUME NEW u \in Turns, SearchToolCalled(u) \/ get_contact(u)
          PROVE  calls' = calls
      BY <2>2, SearchIsQuiet DEF CallInv, Quiet
    <2>3. ASSUME NEW u \in Turns, ConcludesOf(u) PROVE calls' = calls
      BY <2>3 DEF ConcludesOf, CommitEvent, CommitEventLost, RefreshEvent, RefreshLost,
                  CommitRecord, CommitRecordLost, Continues
    <2>4. CASE UNCHANGED vars
      BY <2>4 DEF vars
    <2> QED
      BY <2>1, <2>2, <2>3, <2>4, NextByTurn
  <1> QED
    BY <1>1, <1>2, <1>3

\* What list_contact_events and query_impl answer shows every acknowledged row of the
\* scope, unless it is deleted or the answer is full, and nothing of another scope.
THEOREM WritesAreFound == Spec => ReadsShowWrites
  <1>1. (\A t \in Turns : ReadStep(t)) =>
          \A t \in Turns :
            LET said == answer'[t]
                limit == IF said.kind = "events" THEN said.of ELSE said.of.limit
            IN calls' # calls /\ caller'[calls'] = t =>
                 /\ said.kind = "events" =>
                      /\ \A e \in said.rows : e.contact = scope[t].contact /\ e.org = scope[t].org
                      /\ \A e \in events \ said.rows :
                           Acknowledged(e) /\ SameScope(t, caller[e.id]) =>
                             /\ Cardinality(said.rows) = limit
                             /\ \A f \in said.rows : f.at >= e.at
                 /\ said.kind = "records" =>
                      \A r \in records \ said.rows :
                        Acknowledged(r) /\ Matches(r, said.of.filter) =>
                          Cardinality(said.rows) = limit
    BY DEF ReadStep, EventsShown, RecordsShown
  <1> QED
    BY <1>1, InvHolds, StepShows, PTL DEF Spec, ReadsShowWrites

-------------------------------------------------------------------------------
(* The search. *)

\* The first n items of a list that has fewer or more.
Least(n, m) == IF n < m THEN n ELSE m

\* What SearchKeepsMatches asks of the answer of a search.
KeepsMatches(said) ==
  LET found == said.kind = "found"
      docs == said.rows
      n == said.of.top_n
      matches == said.of.matches
      reply == said.of.reply
      due == IF n < Len(matches) THEN n ELSE Len(matches)
  IN n >= 0 =>
       /\ Len(docs) <= n
       /\ \A i \in DOMAIN docs : \E j \in DOMAIN matches : docs[i] = matches[j]
       /\ reply = None => found /\ docs = SubSeq(matches, 1, due)
       /\ found /\ reply # None => FollowsReply(docs, matches, reply)
       /\ Ranking(matches, reply) =>
            /\ found /\ Len(docs) = due
            /\ \A i \in 1 .. due : docs[i] = matches[reply[i] + 1]

LEMMA TakeEffect ==
  ASSUME NEW S, NEW s \in Seq(S), NEW n \in Nat
  PROVE  /\ Take(s, n) = SubSeq(s, 1, Least(n, Len(s)))
         /\ Take(s, n) \in Seq(S)
         /\ Len(Take(s, n)) = Least(n, Len(s))
         /\ \A i \in 1 .. Least(n, Len(s)) : Take(s, n)[i] = s[i]
  <1>1. Len(s) \in Nat /\ Least(n, Len(s)) \in 0 .. Len(s)
    BY DEF Least
  <1>2. (IF n > Len(s) THEN Len(s) ELSE IF n >= 0 THEN n
         ELSE IF Len(s) + n > 0 THEN Len(s) + n ELSE 0) = Least(n, Len(s))
    BY <1>1 DEF Least
  <1>3. Take(s, n) = SubSeq(s, 1, Least(n, Len(s)))
    BY <1>2 DEF Take
  <1> QED
    BY <1>1, <1>3

\* A place that passes the test selects a match.
LEMMA SelectedMatch ==
  ASSUME NEW matches \in Seq(Docs), NEW idx \in Named(matches)
  PROVE  /\ idx \in Int
         /\ \E j \in DOMAIN matches : Selected(matches, idx) = matches[j]
         /\ idx >= 0 => Selected(matches, idx) = matches[idx + 1]
  <1> DEFINE j == IF idx < 0 THEN Len(matches) + idx + 1 ELSE idx + 1
  <1>1. Len(matches) \in Nat /\ DOMAIN matches = 1 .. Len(matches)
    OBVIOUS
  <1>2. idx \in Int /\ idx >= -Len(matches) /\ idx <= Len(matches) - 1
    BY <1>1 DEF Named
  <1>3. j \in DOMAIN matches
    BY <1>1, <1>2
  <1>4. Selected(matches, idx) = matches[j]
    BY DEF Selected
  <1> QED
    BY <1>2, <1>3, <1>4

\* What the reranker's reply selects, whatever the reply is.
LEMMA RankedMatches ==
  ASSUME NEW matches \in Seq(Docs), NEW reply \in Seq(Int), NEW n \in Nat,
         reply \notin {None, NoList}
  PROVE  LET docs == ranked(matches, reply, n)
             due == Least(n, Len(matches))
         IN /\ Len(docs) <= n
            /\ \A i \in DOMAIN docs : \E j \in DOMAIN matches : docs[i] = matches[j]
            /\ FollowsReply(docs, matches, reply)
            /\ Ranking(matches, reply) =>
                 /\ Len(docs) = due
                 /\ \A i \in 1 .. due : docs[i] = matches[reply[i] + 1]
  <1> DEFINE m == Least(n, Len(reply))
             head == Take(reply, n)
             places == {k \in DOMAIN head : head[k] \in Named(matches)}
             named == Kept(places, m)
             docs == ranked(matches, reply, n)
             due == Least(n, Len(matches))
  <1>1. /\ m \in Nat /\ m <= n /\ m <= Len(reply) /\ Len(reply) \in Nat
        /\ DOMAIN reply = 1 .. Len(reply)
        /\ head \in Seq(Int) /\ Len(head) = m /\ DOMAIN head = 1 .. m
        /\ \A i \in 1 .. m : head[i] = reply[i]
    BY TakeEffect DEF Least
  <1>2. docs = [i \in DOMAIN named |-> Selected(matches, head[named[i]])]
    <2> HIDE DEF m
    <2> QED
      BY <1>1 DEF ranked
  <1>3. /\ named \in Seq(Nat) /\ Len(named) <= m
        /\ \A i \in DOMAIN named : named[i] \in places /\ named[i] \in 1 .. m
    <2> HIDE DEF m, places
    <2> QED
      BY <1>1, KeptType
  <1>4. DOMAIN docs = DOMAIN named /\ Len(docs) = Len(named) /\ DOMAIN named = 1 .. Len(named)
    <2> HIDE DEF named, head, docs
    <2> QED
      BY <1>2, <1>3
  <1>5. ASSUME NEW i \in DOMAIN docs
        PROVE  /\ named[i] \in DOMAIN reply
               /\ reply[named[i]] \in Named(matches)
               /\ docs[i] = Selected(matches, reply[named[i]])
    <2>1. named[i] \in places /\ named[i] \in 1 .. m
      BY <1>3, <1>4
    <2>2. head[named[i]] \in Named(matches)
      BY <2>1
    <2>3. docs[i] = Selected(matches, head[named[i]])
      BY <1>2, <1>4
    <2>4. head[named[i]] = reply[named[i]] /\ named[i] \in DOMAIN reply
      <3> HIDE DEF m, named, head
      <3> QED
        BY <1>1, <2>1
    <2> QED
      BY <2>2, <2>3, <2>4
  <1>6. ASSUME NEW i \in DOMAIN docs
        PROVE  \E j \in DOMAIN matches : docs[i] = matches[j]
    <2>1. PICK idx \in Named(matches) : docs[i] = Selected(matches, idx)
      BY <1>5
    <2>2. \E j \in DOMAIN matches : Selected(matches, idx) = matches[j]
      BY SelectedMatch
    <2> HIDE DEF docs
    <2> QED
      BY <2>1, <2>2
  <1>7. FollowsReply(docs, matches, reply)
    <2>1. named \in [DOMAIN docs -> DOMAIN reply]
      <3> HIDE DEF named, docs
      <3> QED
        BY <1>3, <1>4, <1>5
    <2>2. \A i, j \in DOMAIN docs : i < j => named[i] < named[j]
      <3>1. Lists(named, places, m)
        <4> HIDE DEF m, places
        <4> QED
          BY <1>1, KeptIsTheLoop
      <3> HIDE DEF named, docs, m, places
      <3> QED
        BY <1>4, <3>1 DEF Lists
    <2> HIDE DEF named, docs
    <2> QED
      BY <1>5, <2>1, <2>2 DEF FollowsReply
  <1>8. ASSUME Ranking(matches, reply)
        PROVE  Len(docs) = due /\ \A i \in 1 .. due : docs[i] = matches[reply[i] + 1]
    <2>1. m = due
      BY <1>8 DEF Ranking
    <2>2. \A i \in 1 .. m : /\ i \in places
                            /\ reply[i] \in Named(matches) /\ reply[i] >= 0
      <3>1. ASSUME NEW i \in 1 .. m
            PROVE  reply[i] \in 0 .. Len(matches) - 1 /\ head[i] = reply[i] /\ i \in DOMAIN head
        <4>1. i \in DOMAIN reply
          <5> HIDE DEF m
          <5> QED
            BY <1>1
        <4> HIDE DEF m, head
        <4> QED
          BY <1>1, <1>8, <4>1 DEF Ranking
      <3>2. Len(matches) \in Nat
        OBVIOUS
      <3>3. \A i \in 1 .. m : reply[i] \in Named(matches) /\ reply[i] >= 0
        <4> HIDE DEF m, head
        <4> QED
          BY <3>1, <3>2 DEF Named
      <3> HIDE DEF m, head
      <3> QED
        BY <3>1, <3>3
    <2>3. named = [i \in 1 .. m |-> i]
      <3> HIDE DEF m, places
      <3> QED
        BY <1>1, <2>2, KeptAll
    <2> HIDE DEF m, named, head, docs, due, places
    <2>4. Len(named) = m /\ DOMAIN named = 1 .. m
      BY <1>1, <1>3, <2>3
    <2>5. \A i \in 1 .. m : docs[i] = matches[reply[i] + 1]
      BY <1>4, <1>5, <2>2, <2>3, <2>4, SelectedMatch
    <2> QED
      BY <1>4, <2>1, <2>4, <2>5
  <1>9. Len(docs) <= n
    <2> HIDE DEF m, named, docs
    <2> QED
      BY <1>1, <1>3, <1>4
  <1> QED
    BY <1>6, <1>7, <1>8, <1>9

LEMMA FoundKeepsMatches ==
  ASSUME NEW matches \in Findings, NEW reply \in Replies(Len(matches)), reply # NoList,
         NEW top_n \in Int
  PROVE  KeepsMatches(Found(matches, reply, top_n))
  <1> DEFINE said == Found(matches, reply, top_n)
             docs == rerank_and_format(matches, reply, top_n)
             due == Least(top_n, Len(matches))
  <1>1. matches \in Seq(Docs) /\ Len(matches) \in Nat /\ DOMAIN matches = 1 .. Len(matches)
    BY DEF Findings, Sequences
  <1>2. /\ said.kind = "found" /\ said.rows = docs /\ said.of.top_n = top_n
        /\ said.of.matches = matches /\ said.of.reply = reply
    BY DEF Found, SearchAnswer, Answer
  <1> SUFFICES KeepsMatches(said)
    OBVIOUS
  <1> HIDE DEF said
  <1>3. CASE top_n < 0
    BY <1>2, <1>3 DEF KeepsMatches
  <1>4. CASE top_n >= 0 /\ reply = None
    <2>1. top_n \in Nat /\ due \in 0 .. Len(matches) /\ due <= top_n
      BY <1>1, <1>4 DEF Least
    <2>2. /\ docs = SubSeq(matches, 1, due)
          /\ docs \in Seq(Docs) /\ Len(docs) = due
          /\ \A i \in 1 .. due : docs[i] = matches[i]
      BY <1>1, <1>4, <2>1, TakeEffect DEF rerank_and_format
    <2> HIDE DEF docs
    <2>3. \A i \in DOMAIN docs : i \in DOMAIN matches /\ docs[i] = matches[i]
      BY <1>1, <2>1, <2>2
    <2>4. ~ Ranking(matches, reply)
      BY <1>4 DEF Ranking
    <2> QED
      BY <1>2, <1>4, <2>1, <2>2, <2>3, <2>4 DEF KeepsMatches, Least
  <1>5. CASE top_n >= 0 /\ reply # None
    <2>1. /\ matches \in Seq(Docs) /\ reply \in Seq(Int) /\ top_n \in Nat
          /\ reply \notin {None, NoList}
      BY <1>1, <1>5, ToolCallsAssumption DEF Replies, Sequences
    <2>2. docs = ranked(matches, reply, top_n)
      BY <1>5 DEF rerank_and_format
    <2> HIDE DEF docs
    <2>3. /\ Len(docs) <= top_n
          /\ \A i \in DOMAIN docs : \E j \in DOMAIN matches : docs[i] = matches[j]
          /\ FollowsReply(docs, matches, reply)
          /\ Ranking(matches, reply) =>
               /\ Len(docs) = due
               /\ \A i \in 1 .. due : docs[i] = matches[reply[i] + 1]
      <3> HIDE DEF due
      <3> QED
        BY <2>1, <2>2, RankedMatches, ZenonT(30) DEF due
    <2>4. due = IF top_n < Len(matches) THEN top_n ELSE Len(matches)
      BY DEF Least
    <2> HIDE DEF due
    <2> QED
      BY <1>2, <1>5, <2>3, <2>4, Zenon DEF KeepsMatches
  <1> QED
    BY <1>3, <1>4, <1>5

\* What cannot be read is no ranking of the matches.
LEMMA UnreadableKeepsMatches ==
  ASSUME NEW matches \in Findings, NEW reply \in Replies(Len(matches)), NEW top_n \in Int,
         None # NoList, Unreadable(matches, reply, top_n)
  PROVE  KeepsMatches(SearchAnswer("unreadable", <<>>, matches, reply, top_n))
  <1> DEFINE said == SearchAnswer("unreadable", <<>>, matches, reply, top_n)
  <1>1. /\ said.kind = "unreadable" /\ said.rows = <<>> /\ said.of.top_n = top_n
        /\ said.of.matches = matches /\ said.of.reply = reply
    BY DEF SearchAnswer, Answer
  <1>2. reply # None
    BY DEF Unreadable
  <1>3. ASSUME top_n >= 0 PROVE ~ Ranking(matches, reply)
    <2> SUFFICES ASSUME Ranking(matches, reply) PROVE FALSE
      OBVIOUS
    <2>1. reply \notin {None, NoList}
      BY DEF Ranking
    <2>2. reply \in Seq(Int) /\ top_n \in Nat
      BY <1>3, <2>1, ToolCallsAssumption DEF Replies, Sequences
    <2>3. PICK k \in DOMAIN Take(reply, top_n) : Malformed(matches, reply[k])
      BY <2>1 DEF Unreadable
    <2>4. k \in DOMAIN reply
      <3>1. Take(reply, top_n) \in Seq(Int) /\ Len(Take(reply, top_n)) <= Len(reply)
        BY <2>2, TakeEffect DEF Least
      <3> QED
        BY <2>2, <2>3, <3>1
    <2>5. reply[k] \in 0 .. Len(matches) - 1 /\ Len(matches) \in Nat
      BY <2>4 DEF Ranking, Findings, Sequences
    <2> QED
      BY <2>3, <2>5 DEF Malformed
  <1> SUFFICES KeepsMatches(said)
    OBVIOUS
  <1> HIDE DEF said
  <1> QED
    BY <1>1, <1>2, <1>3 DEF KeepsMatches

SearchInv ==
  \A t \in Turns : /\ step[t] = "rerank" => work[t] \in Findings
                   /\ answer[t].kind \in {"found", "unreadable"} => KeepsMatches(answer[t])

\* A call that ends or goes on concerns its turn only.
LEMMA EndKeepsSearch ==
  ASSUME TypeInv, SearchInv, NEW t \in Turns, NEW a, Ends(t, a),
         a.kind \in {"found", "unreadable"} => KeepsMatches(a)
  PROVE  SearchInv'
  <1>1. /\ step'[t] = "idle" /\ answer'[t] = a
        /\ \A u \in Turns \ {t} :
             step'[u] = step[u] /\ work'[u] = work[u] /\ answer'[u] = answer[u]
    BY DEF TypeInv, CallsOK, Ends
  <1> QED
    BY <1>1 DEF SearchInv

LEMMA GoingKeepsSearch ==
  ASSUME TypeInv, SearchInv, NEW t \in Turns, NEW s, NEW w, GoesOn(t, s, w),
         s = "rerank" => w \in Findings
  PROVE  SearchInv'
  <1>1. /\ step'[t] = s /\ work'[t] = w /\ answer'[t].kind = "none"
        /\ \A u \in Turns \ {t} :
             step'[u] = step[u] /\ work'[u] = work[u] /\ answer'[u] = answer[u]
    BY DEF TypeInv, CallsOK, GoesOn, NoAnswer, Answer
  <1> QED
    BY <1>1 DEF SearchInv

LEMMA SearchKeeps ==
  ASSUME TypeInv, SearchInv, NEW t \in Turns, SearchToolCalled(t)
  PROVE  SearchInv'
  <1>a. \A kind, rows, of : Answer(kind, rows, of).kind = kind
    BY DEF Answer
  <1>1. CASE generate_embedding(t)
    BY <1>1, <1>a, EndKeepsSearch, GoingKeepsSearch DEF generate_embedding
  <1>2. CASE retrieval_impl(t)
    <2>1. ASSUME NEW kind \in {"error", "nothing relevant"}, Ends(t, Answer(kind, {}, None))
          PROVE  SearchInv'
      BY <2>1, <1>a, EndKeepsSearch
    <2>2. ASSUME NEW matches \in Findings, Ends(t, Found(matches, None, Len(matches)))
          PROVE  SearchInv'
      <3>1. None \in Replies(Len(matches)) /\ None # NoList /\ Len(matches) \in Int
        BY ToolCallsAssumption DEF Replies, Findings, Sequences
      <3> QED
        BY <2>2, <3>1, FoundKeepsMatches, EndKeepsSearch
    <2>3. ASSUME NEW matches \in Findings, GoesOn(t, "rerank", matches)
          PROVE  SearchInv'
      BY <2>3, GoingKeepsSearch
    <2> QED
      BY <1>2, <2>1, <2>2, <2>3 DEF retrieval_impl
  <1>3. ASSUME NEW top_n \in -MaxReply .. MaxReply, Rerank(t, top_n)
        PROVE  SearchInv'
    <2>1. PICK reply \in Replies(Len(work[t])) :
            Ends(t, IF Unreadable(work[t], reply, top_n)
                    THEN SearchAnswer("unreadable", <<>>, work[t], reply, top_n)
                    ELSE Found(work[t], reply, top_n))
      BY <1>3 DEF Rerank
    <2>2. work[t] \in Findings /\ top_n \in Int
      BY <1>3, ToolCallsAssumption DEF Rerank, Continues, SearchInv
    <2>3. CASE Unreadable(work[t], reply, top_n)
      <3>1. None # NoList
        BY ToolCallsAssumption
      <3> QED
        BY <2>1, <2>2, <2>3, <3>1, UnreadableKeepsMatches, EndKeepsSearch
    <2>4. CASE ~ Unreadable(work[t], reply, top_n)
      <3>1. reply # NoList
        BY <2>4 DEF Unreadable
      <3> QED
        BY <2>1, <2>2, <2>4, <3>1, FoundKeepsMatches, EndKeepsSearch
    <2> QED
      BY <2>3, <2>4
  <1> QED
    BY <1>1, <1>2, <1>3 DEF SearchToolCalled

\* The other tools answer with something else.
LEMMA OtherToolsKeepSearch ==
  ASSUME TypeInv, SearchInv, NEW t \in Turns, ContactToolCalled(t) \/ TableToolCalled(t)
  PROVE  SearchInv'
  <1>a. \A kind, rows, of : Answer(kind, rows, of).kind = kind
    BY DEF Answer
  <1>1. ASSUME NEW a, Ends(t, a), a.kind \notin {"found", "unreadable"}
        PROVE  SearchInv'
    BY <1>1, EndKeepsSearch
  <1>2. ASSUME NEW s, NEW w, GoesOn(t, s, w), s # "rerank"
        PROVE  SearchInv'
    BY <1>2, GoingKeepsSearch
  <1>3. ASSUME NEW i, NEW what, GivesUp(t, i, what)
        PROVE  SearchInv'
    BY <1>1, <1>3, <1>a DEF GivesUp
  <1>4. CASE get_contact(t)
    <2>1. CASE contacts[scope[t].contact] = scope[t].org
      BY <1>1, <1>4, <1>a, <2>1 DEF get_contact
    <2>2. CASE contacts[scope[t].contact] # scope[t].org
      BY <1>1, <1>4, <1>a, <2>2 DEF get_contact
    <2> QED
      BY <2>1, <2>2
  <1>5. ASSUME NEW limit \in Limits, list_contact_events(t, limit)
        PROVE  SearchInv'
    BY <1>1, <1>5, <1>a DEF list_contact_events
  <1>6. CASE StatementFails(t) \/ add_contact_event(t)
    BY <1>2, <1>3, <1>6 DEF StatementFails, add_contact_event
  <1>7. CASE CommitEvent(t) \/ CommitEventLost(t)
    BY <1>2, <1>3, <1>7 DEF CommitEvent, CommitEventLost
  <1>8. CASE RefreshEvent(t) \/ RefreshLost(t)
    BY <1>1, <1>3, <1>8, <1>a DEF RefreshEvent, RefreshLost
  <1>9. ASSUME NEW kwargs \in InsertInput, insert_impl(t, kwargs)
        PROVE  SearchInv'
    BY <1>2, <1>3, <1>9 DEF insert_impl
  <1>10. CASE CommitRecord(t) \/ CommitRecordLost(t)
    BY <1>1, <1>3, <1>10, <1>a DEF CommitRecord, CommitRecordLost
  <1>11. ASSUME NEW filter \in Filters, NEW limit \in Limits, query_impl(t, filter, limit)
         PROVE  SearchInv'
    BY <1>1, <1>11, <1>a DEF query_impl
  <1> QED
    BY <1>4, <1>5, <1>6, <1>7, <1>8, <1>9, <1>10, <1>11 DEF ContactToolCalled, TableToolCalled

LEMMA SearchStep ==
  ASSUME TypeInv, SearchInv, [Next]_vars
  PROVE  SearchInv'
  <1>1. ASSUME UNCHANGED call
        PROVE  SearchInv'
    BY <1>1 DEF SearchInv, call, KeepsMatches
  <1>2. CASE OthersCommit
    BY <1>1, <1>2 DEF OthersCommit, ContactDeleted, EventLogged, EventDeleted, RecordDeleted,
       Commits
  <1>3. CASE UNCHANGED vars
    BY <1>1, <1>3 DEF vars
  <1> QED
    BY <1>2, <1>3, SearchKeeps, OtherToolsKeepSearch DEF Next

\* For any documents, any reply of the reranker and any number asked for that is not
\* negative: a search answers with no more than that number, with matches only, in the
\* order of the reply or, without one, by similarity, and a reply that ranks every match
\* once is never answered with an error and loses none.
THEOREM SearchLosesNothing == Spec => []SearchKeepsMatches
  <1>1. Init => SearchInv
    BY DEF Init, SearchInv, NoAnswer, Answer
  <1>2. Spec => [](CallInv /\ SearchInv)
    <2>1. CallInv => TypeInv
      BY DEF CallInv
    <2> QED
      BY <1>1, <2>1, Initially, InvNext, SearchStep, PTL DEF Spec
  <1>3. SearchInv => SearchKeepsMatches
    BY DEF SearchInv, SearchKeepsMatches, KeepsMatches
  <1> QED
    BY <1>2, <1>3, PTL
===============================================================================
