------------------------------ MODULE Entitlement ------------------------------
(***************************************************************************)
(* Which of an agent's configured tools are built for a caller:            *)
(* effective_modules and allowed_tool_configs of                           *)
(* src/src/services/tool_entitlement.py with the three registries of       *)
(* src/src/config.                                                         *)
(*                                                                         *)
(* One decision for one caller in one organization.  It reads the          *)
(* organization and the membership in one query, the owner's billing facts *)
(* in a second, and the clock after that; the API service and the Stripe   *)
(* webhook commit in between.                                              *)
(***************************************************************************)
EXTENDS Integers

CONSTANTS
  Accounts,
  Caller,       \* the account the turn runs for
  None,         \* no plan pinned, no owner, no membership, no instant, no such row
  AgentTools,   \* the sets of tool types an agent may be configured with
  GRACE_DAYS,
  MaxDay        \* bound of the clock

VARIABLES
  now,       \* the day, the unit of GRACE_DAYS
  org,       \* the organization: pinned plan and owner
  role,      \* the caller's role in it, None without a membership
  billing,   \* per account its Stripe status and the instant of its lapse, or None
  stage,     \* the step of the decision that is next
  configs,   \* the tool types the agent is configured with
  row,       \* the organization and the role as the first query returned them
  owner,     \* the owner's billing facts as the second query returned them
  granted,   \* effective_modules
  kept,      \* allowed_tool_configs
  bought,    \* history: the plan read was paid for at some moment of the decision
  steady,    \* history: what was read did not change before it was used
  open       \* history: the modules the caller could open at every moment

tables  == <<org, role, billing>>
local   == <<stage, configs, row, owner, granted, kept>>
history == <<bought, steady, open>>
vars == <<now, tables, local, history>>

-------------------------------------------------------------------------------
(* The registries. *)

MODULE_KEYS ==
  {"home", "agents", "agent_chat", "contacts", "contact_lists", "companies", "deals",
   "prompts", "knowledge_bases", "access", "credentials", "email_templates",
   "email_campaigns", "courses", "analytics", "membership", "settings", "organization"}

PLAN_MODULES ==
  [free |-> {"home", "courses", "prompts", "settings"},
   premium |->
     {"home", "agents", "agent_chat", "contacts", "contact_lists", "companies", "deals",
      "prompts", "knowledge_bases", "access", "credentials", "email_templates",
      "email_campaigns", "courses", "analytics", "settings"}]

PLAN_KEYS == {"free", "premium"}
ROLE_KEYS == {"manager", "community_member"}

COMMUNITY_MODULES == {"home", "courses", "agent_chat"}

\* The tool types and the module that gates each; None gates nothing.
TOOL_MODULES ==
  [vectorSearch |-> "knowledge_bases",
   vectorSearchWithReranking |-> "knowledge_bases",
   contactRead |-> "contacts",
   contactEventsRead |-> "contacts",
   contactEventWrite |-> "contacts",
   sendTxtEmailWithSes |-> "email_campaigns",
   sendHtmlEmailWithSes |-> "email_campaigns",
   dbTableRead |-> None,
   dbTableWrite |-> None]

TOOLS == DOMAIN TOOL_MODULES

ASSUME EntitlementAssumption ==
  /\ Caller \in Accounts
  /\ None \notin Accounts
  /\ None \notin MODULE_KEYS \cup PLAN_KEYS \cup ROLE_KEYS
  /\ None \notin 0 .. MaxDay
  /\ AgentTools \subseteq SUBSET TOOLS
  /\ GRACE_DAYS \in Nat
  /\ MaxDay \in Nat

\* Unknown keys are dropped.
normalize(keys) == keys \cap MODULE_KEYS

\* A plan nobody knows opens what the free one does.
modules_for_plan(plan) ==
  normalize(PLAN_MODULES[IF plan \in PLAN_KEYS THEN plan ELSE "free"])

ACTIVE_SUBSCRIPTION_STATUSES == {"active", "trialing"}

\* Mutant: the grace window never ends.
Mut_billing_state(b, t) ==
  IF b.status \in ACTIVE_SUBSCRIPTION_STATUSES THEN "active"
  ELSE IF b.lapsed = None THEN "lapsed" ELSE "grace"

\* A lapse without an instant on record has no grace.
billing_state(b, t) ==
  IF b.status \in ACTIVE_SUBSCRIPTION_STATUSES THEN "active"
  ELSE IF b.lapsed = None THEN "lapsed"
  ELSE IF t < b.lapsed + GRACE_DAYS THEN "grace" ELSE "lapsed"

plan_for(b, t) == IF billing_state(b, t) \in {"active", "grace"} THEN "premium" ELSE "free"

\* What a non-owner with this role opens of a ceiling.
modules_for(r, ceiling) == IF r = "manager" THEN ceiling ELSE ceiling \cap COMMUNITY_MODULES

-------------------------------------------------------------------------------
(* The decision. *)

\* past_due stands for every status that is not paid: the vocabulary is Stripe's.
Billing == [status : {"active", "past_due"}, lapsed : (0 .. MaxDay) \cup {None}]
Organizations == [pinned : PLAN_KEYS \cup {None}, owner : Accounts \cup {None}]
Rows == [org : Organizations, role : ROLE_KEYS \cup {None}]
Stages == {"idle", "owner", "clock", "filter", "done"}

Unpaid == [status |-> "past_due", lapsed |-> None]

Init ==
  /\ now = 0
  /\ org \in Organizations
  /\ role \in ROLE_KEYS \cup {None}
  /\ billing = [a \in Accounts |-> Unpaid]
  /\ stage = "idle"
  /\ configs = {}
  /\ row = [org |-> org, role |-> role]
  /\ owner = None
  /\ granted = {}
  /\ kept = {}
  /\ bought = FALSE
  /\ steady = TRUE
  /\ open = {}

\* The plan of an organization whose owner has the billing facts b.
plan_of(o, b, t) ==
  IF o.pinned # None THEN o.pinned
  ELSE IF b = None THEN "free" ELSE plan_for(b, t)

\* Mutant: an owner is treated by the role of its membership.
Mut_opens(r, ceiling) == modules_for(r.role, ceiling)

\* An owner opens the whole ceiling whatever its role; nobody else more than the role.
opens(r, ceiling) ==
  IF r.role = None THEN {}
  ELSE IF r.org.owner = Caller THEN ceiling
  ELSE modules_for(r.role, ceiling)

OwnerBilling(o) == IF o.owner = None THEN None ELSE billing[o.owner]

\* The organization joined with the membership.  Without a membership nothing is
\* granted; with a pinned plan or without an owner there is no second query.
ReadOrganization(c) ==
  /\ stage = "idle"
  /\ configs' = c
  /\ row' = [org |-> org, role |-> role]
  /\ stage' = IF role = None THEN "filter"
              ELSE IF org.pinned = None /\ org.owner # None THEN "owner" ELSE "clock"
  /\ UNCHANGED <<now, tables, owner, granted, kept>>

\* Mutant: the id is taken for the row.
Mut_ReadOwner ==
  /\ stage = "owner"
  /\ owner' = row.org.owner
  /\ stage' = "clock"
  /\ UNCHANGED <<now, tables, configs, row, granted, kept>>

\* The billing facts of the owner the first query named, who may be gone by now.
ReadOwner ==
  /\ stage = "owner"
  /\ owner' = billing[row.org.owner]
  /\ stage' = "clock"
  /\ UNCHANGED <<now, tables, configs, row, granted, kept>>

\* The plan, with the clock of this moment, and what the role opens of it.
Decide ==
  /\ stage = "clock"
  /\ granted' = opens(row, modules_for_plan(plan_of(row.org, owner, now)))
  /\ stage' = "filter"
  /\ UNCHANGED <<now, tables, configs, row, owner, kept>>

\* A type that no module gates is kept.
allowed_tool_configs(types, modules) ==
  {t \in types : TOOL_MODULES[t] = None \/ TOOL_MODULES[t] \in modules}

FilterTools ==
  /\ stage = "filter"
  /\ kept' = allowed_tool_configs(configs, granted)
  /\ stage' = "done"
  /\ UNCHANGED <<now, tables, configs, row, owner, granted>>

-------------------------------------------------------------------------------
(* What is committed under a decision (external). *)

OrganizationChanges(o) ==
  /\ o # org
  /\ o.owner # None => billing[o.owner] # None
  /\ org' = o
  /\ UNCHANGED <<role, billing>>

RoleChanges(r) ==
  /\ r # role
  /\ r # None => billing[Caller] # None
  /\ role' = r
  /\ UNCHANGED <<org, billing>>

\* The webhook records the instant on the way out of a paid status and clears it on
\* the way back; lapses older than the column have none.
SubscriptionChanges(a) ==
  /\ billing[a] # None
  /\ billing' \in {[billing EXCEPT ![a] = b] :
       b \in IF billing[a].status = "active"
             THEN [status : {"past_due"}, lapsed : {now, None}]
             ELSE {[status |-> "active", lapsed |-> None]}}
  /\ UNCHANGED <<org, role>>

\* Its memberships go with an account, its organizations stay without an owner.
AccountDeleted(a) ==
  /\ billing[a] # None
  /\ billing' = [billing EXCEPT ![a] = None]
  /\ org' = IF org.owner = a THEN [org EXCEPT !.owner = None] ELSE org
  /\ role' = IF a = Caller THEN None ELSE role

Tick ==
  /\ now < MaxDay
  /\ now' = now + 1
  /\ UNCHANGED tables

ServiceCommits ==
  /\ stage # "done"
  /\ \/ \E o \in Organizations : OrganizationChanges(o) /\ UNCHANGED now
     \/ \E r \in ROLE_KEYS \cup {None} : RoleChanges(r) /\ UNCHANGED now
     \/ \E a \in Accounts : SubscriptionChanges(a) /\ UNCHANGED now
     \/ \E a \in Accounts : AccountDeleted(a) /\ UNCHANGED now
     \/ Tick
  /\ UNCHANGED local

\* Paid for at this moment: by a pinned plan, by a subscription, or by one that lapsed
\* less than the grace period ago.
PaysFor(o, b) ==
  \/ o.pinned = "premium"
  \/ /\ o.pinned = None
     /\ b # None
     /\ \/ b.status \in ACTIVE_SUBSCRIPTION_STATUSES
        \/ b.lapsed # None /\ now - b.lapsed < GRACE_DAYS

\* What the caller may open at this moment.
OpenNow ==
  {m \in PLAN_MODULES[IF PaysFor(org, OwnerBilling(org)) THEN "premium" ELSE "free"] :
     role # None /\ (org.owner = Caller \/ role = "manager" \/ m \in COMMUNITY_MODULES)}

\* The billing facts that were read are still those of the owner.
Fresh ==
  stage = "clock" /\ row.org.pinned = None => owner = OwnerBilling(row.org)

\* What the caller can open without a doubt and who paid, from the first query on.
Begins ==
  /\ bought' = PaysFor(org, OwnerBilling(org))
  /\ steady' = TRUE
  /\ open' = OpenNow

Continues ==
  IF stage \in {"idle", "done"} THEN UNCHANGED history
  ELSE /\ bought' = (bought \/ PaysFor(row.org, OwnerBilling(row.org))')
       /\ steady' = (steady /\ row = [org |-> org', role |-> role'] /\ Fresh')
       /\ open' = open \cap OpenNow'

Next ==
  \/ \E types \in AgentTools : ReadOrganization(types) /\ Begins
  \/ ReadOwner /\ Continues
  \/ Decide /\ Continues
  \/ FilterTools /\ Continues
  \/ ServiceCommits /\ Continues

Spec == Init /\ [][Next]_vars

-------------------------------------------------------------------------------
(* Properties. *)

TypeOK ==
  /\ now \in 0 .. MaxDay
  /\ org \in Organizations
  /\ role \in ROLE_KEYS \cup {None}
  /\ billing \in [Accounts -> Billing \cup {None}]
  /\ stage \in Stages
  /\ configs \in AgentTools \cup {{}}
  /\ row \in Rows
  /\ owner \in Billing \cup {None}
  /\ granted \subseteq MODULE_KEYS
  /\ kept \subseteq TOOLS
  /\ bought \in BOOLEAN
  /\ steady \in BOOLEAN
  /\ open \subseteq MODULE_KEYS

Gated == {t \in TOOLS : TOOL_MODULES[t] # None}

\* effective_modules: the plan is read from a subscription that may lapse or renew
\* while the decision is under way, and the clock after that.  Whatever is committed in
\* between, a gated tool is built only if the plan of the organization as it was read
\* was paid for at some moment of the decision, for a manager or the owner of it.
GatedToolsArePaidFor ==
  stage = "done" /\ kept \cap Gated # {} =>
    /\ bought
    /\ row.role = "manager" \/ (row.role # None /\ row.org.owner = Caller)

\* What the plan sold is there: a tool whose module the caller could open at every
\* moment of the decision is built, unless what was read of the organization or of its
\* owner's subscription changed before it was used.
OpenToolsAreBuilt ==
  stage = "done" /\ steady =>
    \A t \in configs : TOOL_MODULES[t] \in open \cup {None} => t \in kept
===============================================================================
