------------------------------- MODULE ToolCalls -------------------------------
(***************************************************************************)
(* What the built tools do when an agent calls them: the contact tools of  *)
(* src/src/tools/contact_crm.py, the tables of db_read.py and db_write.py, *)
(* and the search of vector_search.py.                                     *)
(*                                                                         *)
(* Turns on several instances call tools over one contact table and one    *)
(* external table.  A contact or table tool holds its event loop from its  *)
(* first statement to its answer, so the calls of a turn follow each       *)
(* other, and only other instances, the API service and faults come in     *)
(* between; a search waits for services that nothing here writes to.       *)
(***************************************************************************)
EXTENDS Integers, FiniteSets, Sequences, KeptPlaces

CONSTANTS
  Turns,
  Accounts,
  Orgs,
  Contacts,
  Scopes,       \* what setup may bind the tools of each turn to
  None,         \* a value that is not given, or a row that is not there
  Said,         \* what a model may say of a column
  Configs,      \* the configurations of the external table
  MaxListLimit, \* 200 in the code
  Docs,         \* what a search may find
  NoList,       \* a reply of the reranker whose results are no list
  MaxReply,     \* bound of the length of a reply, and of what a model asks for
  ToolSets,     \* the kinds of tools of each turn: contact, table, search
  MaxCalls,     \* bound of the calls that write or list
  MaxOthers,    \* bound of the events of the API service
  MaxFaults     \* bound of lost connections

VARIABLES
  scope,     \* [Turns -> account, org, contact]: fixed when the tools are built
  config,    \* the configuration of the table tools
  tools,     \* the kinds of tools of each turn
  contacts,  \* the organization of each contact, None when it is deleted
  events,    \* contact_events
  records,   \* the external table
  step,      \* per turn what its current call does next
  work,      \* per turn the row the call is writing, or what its search found
  answer,    \* per turn the last answer of a tool
  calls,     \* counts the calls and numbers their rows
  others,    \* counts the events of the API service
  faults,
  caller,    \* history: the turn of each call
  reported,  \* history: what each call told the agent
  removed    \* history: rows that were stored and deleted since

database == <<contacts, events, records, others, removed>>
call == <<step, work, answer>>
vars == <<scope, config, tools, database, call, calls, faults, caller, reported>>

Columns == {"name", "account_id", "chat_session_id"}
Values == Said \cup Accounts \cup Turns

\* The checks of the builder; without them there is no tool.
valid_config(c) ==
  /\ c.columns # {} /\ c.columns \subseteq Columns
  /\ c.required \subseteq c.columns
  /\ c.inject_account_id \in BOOLEAN
  /\ c.inject_chat_session_id \in BOOLEAN

ASSUME ToolCallsAssumption ==
  /\ None \notin Values \cup Orgs
  /\ None # NoList
  /\ \A c \in Configs : valid_config(c)
  /\ Scopes \subseteq [Turns -> [account : Accounts, org : Orgs, contact : Contacts]]
  /\ MaxListLimit \in Nat \ {0}
  /\ MaxReply \in Nat
  /\ MaxCalls \in Nat /\ MaxOthers \in Nat /\ MaxFaults \in Nat

Event(i, t, c, o, a) == [id |-> i, at |-> t, contact |-> c, org |-> o, account |-> a]
Record(i, data) == [id |-> i, data |-> data]

\* What a tool returns, with what it was asked or had to choose from.
Answer(kind, rows, of) == [kind |-> kind, rows |-> rows, of |-> of]
NoAnswer == Answer("none", {}, None)
Steps == {"idle", "commitEvent", "refreshEvent", "commitRecord", "query", "rerank"}

Init ==
  /\ scope \in Scopes
  /\ config \in Configs
  /\ tools \in ToolSets
  /\ contacts \in [Contacts -> Orgs]
  /\ events = {}
  /\ records = {}
  /\ step = [t \in Turns |-> "idle"]
  /\ work = [t \in Turns |-> None]
  /\ answer = [t \in Turns |-> NoAnswer]
  /\ calls = 0
  /\ others = 0
  /\ faults = 0
  /\ caller = [i \in 1 .. MaxCalls |-> None]
  /\ reported = [i \in 1 .. MaxCalls |-> "nothing"]
  /\ removed = {}

-------------------------------------------------------------------------------
(* Calls. *)

Built == UNCHANGED <<scope, config, tools>>

\* A call that writes or lists gets the next number.
Numbered(t) ==
  /\ step[t] = "idle"
  /\ calls < MaxCalls
  /\ calls' = calls + 1
  /\ caller' = [caller EXCEPT ![calls'] = t]
  /\ Built

\* A later step of a call.
Continues(t, s) == step[t] = s /\ UNCHANGED <<calls, caller>> /\ Built

GoesOn(t, s, w) ==
  /\ step' = [step EXCEPT ![t] = s]
  /\ work' = [work EXCEPT ![t] = w]
  /\ answer' = [answer EXCEPT ![t] = NoAnswer]

Ends(t, a) ==
  /\ step' = [step EXCEPT ![t] = "idle"]
  /\ work' = [work EXCEPT ![t] = None]
  /\ answer' = [answer EXCEPT ![t] = a]

Tells(i, what) == reported' = [reported EXCEPT ![i] = what]

Fault == faults < MaxFaults /\ faults' = faults + 1

\* A write that gives up; what says whether it had sent its commit.
GivesUp(t, i, what) == Ends(t, Answer("error", {}, None)) /\ Tells(i, what)

-------------------------------------------------------------------------------
(* The contact tools. *)

\* The bound contact, if it is of the organization of the turn.
get_contact(t) ==
  /\ step[t] = "idle"
  /\ LET c == scope[t].contact
     IN Ends(t, IF contacts[c] = scope[t].org THEN Answer("contact", {}, None)
                ELSE Answer("not found", {}, None))
  /\ UNCHANGED <<database, calls, faults, caller, reported>>
  /\ Built

\* The schema admits no limit outside of this range, and the body clamps it again.
Limits == 1 .. MaxListLimit

tenant_predicate(row, t) == row.org = scope[t].org

\* A query that returns n rows of a set ordered by a time; ties fall either way.
Newest(S, n) ==
  {R \in SUBSET S :
     /\ Cardinality(R) = IF Cardinality(S) < n THEN Cardinality(S) ELSE n
     /\ \A e \in R, f \in S \ R : e.at >= f.at}

\* Mutant: the organization that reads is the contact's own.
Mut_Listed(t) == {e \in events : e.contact = scope[t].contact /\ e.org = contacts[e.contact]}

Listed(t) == {e \in events : e.contact = scope[t].contact /\ tenant_predicate(e, t)}

list_contact_events(t, limit) ==
  /\ Numbered(t)
  /\ \E rows \in Newest(Listed(t), limit) : Ends(t, Answer("events", rows, limit))
  /\ Tells(calls', "success")
  /\ UNCHANGED <<database, faults>>

\* The connection is lost with the first statement of a call.  The tool that writes
\* answers with an error, the others let it pass.
StatementFails(t) ==
  /\ Numbered(t)
  /\ Fault
  /\ GivesUp(t, calls', "failed")
  /\ UNCHANGED database

\* Mutant: the tenant and the attribution are swapped.
Mut_NewEvent(t, i) == Event(i, i, scope[t].contact, scope[t].account, scope[t].org)

\* The three columns the model cannot name are forced.
NewEvent(t, i) == Event(i, i, scope[t].contact, scope[t].org, scope[t].account)

\* The statement runs with the flush of the commit.  The contact's row is locked until
\* then, and if it is gone the statement fails.
add_contact_event(t) ==
  /\ Numbered(t)
  /\ IF contacts[scope[t].contact] = None THEN GivesUp(t, calls', "failed")
     ELSE GoesOn(t, "commitEvent", NewEvent(t, calls')) /\ UNCHANGED reported
  /\ UNCHANGED <<database, faults>>

CommitEvent(t) ==
  /\ Continues(t, "commitEvent")
  /\ events' = events \cup {work[t]}
  /\ GoesOn(t, "refreshEvent", work[t])
  /\ UNCHANGED <<contacts, records, others, removed, faults, reported>>

\* The connection is lost with the commit: nobody knows whether it took effect.
CommitEventLost(t) ==
  /\ Continues(t, "commitEvent")
  /\ Fault
  /\ UNCHANGED events \/ events' = events \cup {work[t]}
  /\ GivesUp(t, work[t].id, "unsure")
  /\ UNCHANGED <<contacts, records, others, removed>>

\* Mutant: a refresh that finds nothing is taken for a write that failed.
Mut_RefreshEvent(t) ==
  /\ Continues(t, "refreshEvent")
  /\ IF work[t] \in events
     THEN Ends(t, Answer("written", {}, None)) /\ Tells(work[t].id, "success")
     ELSE GivesUp(t, work[t].id, "failed")
  /\ UNCHANGED <<database, faults>>

\* The row is read back; if it is gone by now the tool answers with an error.
RefreshEvent(t) ==
  /\ Continues(t, "refreshEvent")
  /\ IF work[t] \in events
     THEN Ends(t, Answer("written", {}, None)) /\ Tells(work[t].id, "success")
     ELSE GivesUp(t, work[t].id, "unsure")
  /\ UNCHANGED <<database, faults>>

\* The rollback undoes nothing any more.
RefreshLost(t) ==
  /\ Continues(t, "refreshEvent")
  /\ Fault
  /\ GivesUp(t, work[t].id, "unsure")
  /\ UNCHANGED database

-------------------------------------------------------------------------------
(* The external table. *)

\* What the schema of the tool lets through: required columns have a value.
InsertInput == {d \in [config.columns -> Said \cup {None}] :
                  \A c \in config.required : d[c] # None}

\* Columns with a value, and over them the injected ones.
filtered_data(t, kwargs) ==
  LET given == {c \in config.columns : kwargs[c] # None}
      injected == (IF config.inject_account_id THEN {"account_id"} ELSE {})
                    \cup (IF config.inject_chat_session_id THEN {"chat_session_id"} ELSE {})
  IN [c \in given \cup injected |->
        IF c \notin injected THEN kwargs[c]
        ELSE IF c = "account_id" THEN scope[t].account ELSE t]

\* INSERT, in the transaction that the tool commits before it answers.  The database
\* may refuse the row.
insert_impl(t, kwargs) ==
  LET data == filtered_data(t, kwargs)
  IN /\ Numbered(t)
     /\ \/ GivesUp(t, calls', "failed")
        \/ /\ DOMAIN data # {}
           /\ GoesOn(t, "commitRecord", Record(calls', data))
           /\ UNCHANGED reported
     /\ UNCHANGED <<database, faults>>

CommitRecord(t) ==
  /\ Continues(t, "commitRecord")
  /\ records' = records \cup {work[t]}
  /\ Ends(t, Answer("written", {}, None))
  /\ Tells(work[t].id, "success")
  /\ UNCHANGED <<contacts, events, others, removed, faults>>

CommitRecordLost(t) ==
  /\ Continues(t, "commitRecord")
  /\ Fault
  /\ UNCHANGED records \/ records' = records \cup {work[t]}
  /\ GivesUp(t, work[t].id, "unsure")
  /\ UNCHANGED <<contacts, events, others, removed>>

Filters == {None} \cup (Columns \X Said)

\* A filter on a column that is not exposed is ignored.
Matches(r, filter) ==
  filter # None /\ filter[1] \in config.columns =>
    filter[1] \in DOMAIN r.data /\ r.data[filter[1]] = filter[2]

\* A page of the matching rows, which no ORDER BY puts in an order.
query_impl(t, filter, limit) ==
  /\ Numbered(t)
  /\ LET found == {r \in records : Matches(r, filter)}
     IN \E page \in SUBSET found :
          /\ Cardinality(page) = IF Cardinality(found) < limit THEN Cardinality(found)
                                 ELSE limit
          /\ Ends(t, Answer("records", page, [filter |-> filter, limit |-> limit]))
  /\ Tells(calls', "success")
  /\ UNCHANGED <<database, faults>>

-------------------------------------------------------------------------------
(* The search. *)

\* Python's s[:n], which counts from the end when n is negative.
Take(s, n) ==
  LET len == Len(s)
  IN SubSeq(s, 1, IF n > len THEN len ELSE IF n >= 0 THEN n
                  ELSE IF len + n > 0 THEN len + n ELSE 0)

Distinct(s) == \A i, j \in DOMAIN s : s[i] = s[j] => i = j
Sequences(S, n) == UNION {[1 .. k -> S] : k \in 0 .. n}

\* What Pinecone finds, the most similar first.
Findings == {s \in Sequences(Docs, Cardinality(Docs)) : Distinct(s)}

\* An item of a reply is the place it gives, from 0 as in the code.  One of its places
\* stands for what the test skips: no place, or one past the end.
Named(matches) == -Len(matches) .. Len(matches) - 1

\* A place below the first, no number or no dictionary raises where it is met.
Malformed(matches, item) == item < -Len(matches)

\* matches[idx], which counts from the end when idx is negative.
Selected(matches, idx) == matches[IF idx < 0 THEN Len(matches) + idx + 1 ELSE idx + 1]

\* The first top_n items of the reply, those left out that name no match.
ranked(matches, reply, top_n) ==
  LET head == Take(reply, top_n)
      named == Kept({k \in DOMAIN head : head[k] \in Named(matches)}, Len(head))
  IN [i \in DOMAIN named |-> Selected(matches, head[named[i]])]

\* The slice of a reply that is no list raises, and so do items of it.
Unreadable(matches, reply, top_n) ==
  \/ reply = NoList
  \/ /\ reply \notin {None, NoList}
     /\ \E k \in DOMAIN Take(reply, top_n) : Malformed(matches, reply[k])

\* Mutant: without a reranker nothing is ranked.
Mut_rerank_and_format(matches, reply, top_n) ==
  ranked(matches, IF reply = None THEN <<>> ELSE reply, top_n)

\* Without a reranker, or when its call fails, the most similar ones.
rerank_and_format(matches, reply, top_n) ==
  IF reply = None THEN Take(matches, top_n) ELSE ranked(matches, reply, top_n)

SearchAnswer(kind, rows, matches, reply, top_n) ==
  Answer(kind, rows, [matches |-> matches, reply |-> reply, top_n |-> top_n])

Found(matches, reply, top_n) ==
  SearchAnswer("found", rerank_and_format(matches, reply, top_n), matches, reply, top_n)

\* The embedding of the query, or an error.
generate_embedding(t) ==
  /\ step[t] = "idle"
  /\ \/ GoesOn(t, "query", None)
     \/ Ends(t, Answer("error", {}, None))
  /\ UNCHANGED <<database, calls, faults, caller, reported>>
  /\ Built

\* Matches are answered as they are, or reranked by the tool that does.
retrieval_impl(t) ==
  /\ Continues(t, "query")
  /\ \/ Ends(t, Answer("error", {}, None))
     \/ Ends(t, Answer("nothing relevant", {}, None))
     \/ \E matches \in Findings \ {<<>>} :
          \/ Ends(t, Found(matches, None, Len(matches)))
          \/ GoesOn(t, "rerank", matches)
  /\ UNCHANGED <<database, faults, reported>>

\* Any reply to n documents: no answer, no list, or items of any number and order,
\* -(n + 1) for those that raise and n for those that are skipped.
Replies(n) == {None, NoList} \cup Sequences(-(n + 1) .. n, MaxReply)

\* What raises on the way is answered with an error.
Rerank(t, top_n) ==
  /\ Continues(t, "rerank")
  /\ \E reply \in Replies(Len(work[t])) :
       Ends(t, IF Unreadable(work[t], reply, top_n)
               THEN SearchAnswer("unreadable", <<>>, work[t], reply, top_n)
               ELSE Found(work[t], reply, top_n))
  /\ UNCHANGED <<database, faults, reported>>

-------------------------------------------------------------------------------
(* What other programs commit between two statements (external). *)

Commits(r) ==
  /\ removed' = removed \cup r
  /\ UNCHANGED <<scope, config, tools, call, calls, faults, caller, reported>>

\* Its events go with a contact, and it waits for a transaction that names it.
ContactDeleted(c) ==
  /\ contacts[c] # None
  /\ \A t \in Turns : step[t] = "commitEvent" => work[t].contact # c
  /\ contacts' = [contacts EXCEPT ![c] = None]
  /\ events' = {e \in events : e.contact # c}
  /\ Commits(events \ events')
  /\ UNCHANGED <<records, others>>

\* An event that members of the organization log, who they are left out; they may date
\* it back.
EventLogged(c, at) ==
  /\ contacts[c] # None
  /\ others < MaxOthers
  /\ others' = others + 1
  /\ events' = events \cup {Event(MaxCalls + others', at, c, contacts[c], None)}
  /\ Commits({})
  /\ UNCHANGED <<contacts, records>>

EventDeleted(e) ==
  /\ events' = events \ {e}
  /\ Commits({e})
  /\ UNCHANGED <<contacts, records, others>>

RecordDeleted(r) ==
  /\ records' = records \ {r}
  /\ Commits({r})
  /\ UNCHANGED <<contacts, events, others>>

ContactToolCalled(t) ==
  /\ "contact" \in tools[t]
  /\ \/ get_contact(t)
     \/ \E limit \in Limits : list_contact_events(t, limit)
     \/ StatementFails(t)
     \/ add_contact_event(t)
     \/ CommitEvent(t)
     \/ CommitEventLost(t)
     \/ RefreshEvent(t)
     \/ RefreshLost(t)

TableToolCalled(t) ==
  /\ "table" \in tools[t]
  /\ \/ \E kwargs \in InsertInput : insert_impl(t, kwargs)
     \/ CommitRecord(t)
     \/ CommitRecordLost(t)
     \/ \E filter \in Filters, limit \in Limits : query_impl(t, filter, limit)

SearchToolCalled(t) ==
  /\ "search" \in tools[t]
  /\ \/ generate_embedding(t)
     \/ retrieval_impl(t)
     \/ \E top_n \in -MaxReply .. MaxReply : Rerank(t, top_n)

OthersCommit ==
  \/ \E c \in Contacts : ContactDeleted(c)
  \/ \E c \in Contacts, at \in 0 .. calls : EventLogged(c, at)
  \/ \E e \in events : EventDeleted(e)
  \/ \E r \in records : RecordDeleted(r)

Next ==
  \/ \E t \in Turns : ContactToolCalled(t) \/ TableToolCalled(t) \/ SearchToolCalled(t)
  \/ OthersCommit

Spec == Init /\ [][Next]_vars

-------------------------------------------------------------------------------
(* Properties. *)

Events ==
  [id : 1 .. MaxCalls + MaxOthers, at : 0 .. MaxCalls, contact : Contacts, org : Orgs,
   account : Accounts \cup {None}]

TypeOK ==
  /\ contacts \in [Contacts -> Orgs \cup {None}]
  /\ events \subseteq Events
  /\ \A r \in records : r.id \in 1 .. MaxCalls /\ DOMAIN r.data \subseteq Columns
  /\ step \in [Turns -> Steps]
  /\ \A t \in Turns : step[t] \in {"commitEvent", "refreshEvent"} => work[t] \in Events
  /\ calls \in 0 .. MaxCalls
  /\ others \in 0 .. MaxOthers
  /\ faults \in 0 .. MaxFaults
  /\ reported \in [1 .. MaxCalls -> {"nothing", "success", "failed", "unsure"}]

\* The rows of the tools that were ever stored.
Stored == {r \in events \cup records \cup removed : r.id \in 1 .. MaxCalls}

Forced(r, t) ==
  IF r \in Events
  THEN r.contact = scope[t].contact /\ r.org = scope[t].org /\ r.account = scope[t].account
  ELSE /\ config.inject_account_id => r.data["account_id"] = scope[t].account
       /\ config.inject_chat_session_id => r.data["chat_session_id"] = t

\* add_contact_event and insert_impl answer with an error after a commit that took
\* effect, when its acknowledgement or the refresh after it fails.  Everything else
\* agrees: what failed before stored nothing, a call stores one row at most, and
\* whatever the model says the row is of the contact, tenant, account and chat session
\* that the tool was built for.
StoredAsReported ==
  /\ \A r \in Stored : reported[r.id] # "failed" /\ Forced(r, caller[r.id])
  /\ \A r, q \in Stored : r.id = q.id => r = q

SameScope(t, u) == scope[t].org = scope[u].org /\ scope[t].contact = scope[u].contact

Acknowledged(r) == r.id \in 1 .. MaxCalls /\ reported[r.id] = "success"

\* What an agent was told it wrote it finds again, in its own turns and in others of
\* the same tenant and contact, even where tenant and contact do not fit each other:
\* unless it was deleted since or more recent events fill the list.  And it never reads
\* of another contact or tenant.
ReadsShowWrites ==
  [][\A t \in Turns :
       LET said == answer'[t]
           limit == IF said.kind = "events" THEN said.of ELSE said.of.limit
       IN calls' # calls /\ caller'[calls'] = t =>
            /\ said.kind = "events" =>
                 /\ \A e \in said.rows : e.contact = scope[t].contact /\ e.org = scope[t].org
                 /\ \A e \in events \ said.rows :
                      Acknowledged(e) /\ SameScope(t, caller[e.id]) =>
                        /\ Cardinality(said.rows) = limit
                        /\ \A f \in said.rows : f.at >= e.at
            /\ said.kind = "records" =>
                 \A r \in records \ said.rows :
                   Acknowledged(r) /\ Matches(r, said.of.filter) =>
                     Cardinality(said.rows) = limit]_vars

\* A reply that ranks every match once.
Ranking(matches, reply) ==
  /\ reply \notin {None, NoList}
  /\ Len(reply) = Len(matches) /\ Distinct(reply)
  /\ \A i \in DOMAIN reply : reply[i] \in 0 .. Len(matches) - 1

\* docs are matches that the reply names, in the order of the reply.
FollowsReply(docs, matches, reply) ==
  \E place \in [DOMAIN docs -> DOMAIN reply] :
    /\ \A i, j \in DOMAIN docs : i < j => place[i] < place[j]
    /\ \A i \in DOMAIN docs :
         /\ reply[place[i]] \in Named(matches)
         /\ docs[i] = Selected(matches, reply[place[i]])

\* Whatever the reranker sends, of any length and with anything in it, a search answers
\* with no more than it was asked for, with matches only and in the order of the reply.
\* No reranker, or a call of it that fails, is no error: the most similar matches are
\* answered.  Nor is a reply that ranks every match once, of which none is lost.
SearchKeepsMatches ==
  \A t \in Turns : answer[t].kind \in {"found", "unreadable"} =>
    LET found == answer[t].kind = "found"
        docs == answer[t].rows
        n == answer[t].of.top_n
        matches == answer[t].of.matches
        reply == answer[t].of.reply
        due == IF n < Len(matches) THEN n ELSE Len(matches)
    IN n >= 0 =>
         /\ Len(docs) <= n
         /\ \A i \in DOMAIN docs : \E j \in DOMAIN matches : docs[i] = matches[j]
         /\ reply = None => found /\ docs = SubSeq(matches, 1, due)
         /\ found /\ reply # None => FollowsReply(docs, matches, reply)
         /\ Ranking(matches, reply) =>
              /\ found /\ Len(docs) = due
              /\ \A i \in 1 .. due : docs[i] = matches[reply[i] + 1]
===============================================================================
