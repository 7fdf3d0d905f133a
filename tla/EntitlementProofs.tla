--------------------------- MODULE EntitlementProofs ---------------------------
(***************************************************************************)
(* Proofs about Entitlement: its type invariant, that gated tools are paid *)
(* for, and that what is paid for is built, for every set of accounts,     *)
(* every agent, grace period and clock.                                    *)
(*                                                                         *)
(* The grace window is why GatedToolsArePaidFor is not inductive: the      *)
(* clock is read after the billing facts, so the invariant says of every   *)
(* later moment that a plan which would still be found paid then was paid  *)
(* when the facts were read.                                               *)
(***************************************************************************)
EXTENDS Entitlement, TLAPS

\* The modules that gate tools, none of which is free or open to the community.
GatingModules == {"knowledge_bases", "contacts", "email_campaigns"}

LEMMA ToolsAreGatedByThese ==
  \A t \in TOOLS : TOOL_MODULES[t] \in GatingModules \cup {None}
  BY DEF TOOLS, TOOL_MODULES, GatingModules

LEMMA PlanModules ==
  /\ modules_for_plan("premium") = PLAN_MODULES["premium"]
  /\ modules_for_plan("free") = PLAN_MODULES["free"]
  /\ PLAN_MODULES["free"] \cap GatingModules = {}
  /\ COMMUNITY_MODULES \cap GatingModules = {}
  /\ PLAN_MODULES["premium"] \subseteq MODULE_KEYS
  /\ PLAN_MODULES["free"] \subseteq MODULE_KEYS
  BY DEF modules_for_plan, normalize, PLAN_MODULES, PLAN_KEYS, MODULE_KEYS, GatingModules,
     COMMUNITY_MODULES

\* The plan of an organization is premium exactly when it is paid for at that instant.
LEMMA PremiumIsPaid ==
  ASSUME TypeOK, NEW o \in Organizations, NEW b \in Billing \cup {None}
  PROVE  /\ plan_of(o, b, now) \in PLAN_KEYS
         /\ plan_of(o, b, now) = "premium" <=> PaysFor(o, b)
  <1>1. CASE o.pinned # None
    BY <1>1 DEF plan_of, PaysFor, Organizations, PLAN_KEYS
  <1>2. CASE o.pinned = None /\ b = None
    BY <1>2, EntitlementAssumption DEF plan_of, PaysFor, PLAN_KEYS
  <1>3. CASE o.pinned = None /\ b # None
    <2>1. b.lapsed # None => b.lapsed \in Int
      BY <1>3 DEF Billing
    <2>2. now \in Int /\ GRACE_DAYS \in Int
      BY EntitlementAssumption DEF TypeOK
    <2>3. b.lapsed # None => (now < b.lapsed + GRACE_DAYS <=> now - b.lapsed < GRACE_DAYS)
      BY <2>1, <2>2
    <2>4. plan_of(o, b, now) = plan_for(b, now)
      BY <1>3 DEF plan_of
    <2>5. "premium" # None
      BY EntitlementAssumption DEF PLAN_KEYS
    <2> QED
      BY <1>3, <2>3, <2>4, <2>5 DEF plan_for, billing_state, PaysFor, PLAN_KEYS
  <1> QED
    BY <1>1, <1>2, <1>3

-------------------------------------------------------------------------------
(* Type correctness. *)

\* Where the decision stands: what is not read yet is not there.
Order ==
  /\ stage \in {"idle", "owner"} => owner = None
  /\ stage \in {"idle", "owner", "clock"} => granted = {}
  /\ stage # "done" => kept = {}
  /\ stage = "owner" => row.org.pinned = None /\ row.org.owner # None /\ row.role # None
  /\ stage = "clock" => row.role # None
  /\ stage = "clock" /\ row.org.owner = None => owner = None

TypeInv == TypeOK /\ Order

LEMMA TypeInit == Init => TypeInv
  <1> SUFFICES ASSUME Init PROVE TypeInv
    OBVIOUS
  <1>1. now \in 0 .. MaxDay
    BY EntitlementAssumption DEF Init
  <1>2. billing \in [Accounts -> Billing \cup {None}]
    BY DEF Init, Unpaid, Billing
  <1>3. row \in Rows /\ stage \in Stages
    BY DEF Init, Rows, Stages
  <1>4. TypeOK
    BY <1>1, <1>2, <1>3 DEF Init, TypeOK
  <1> QED
    BY <1>4 DEF Init, TypeInv, Order

LEMMA OpenType == OpenNow \subseteq MODULE_KEYS
  BY PlanModules DEF OpenNow

LEMMA HistoryType ==
  ASSUME TypeOK, Begins \/ Continues
  PROVE  bought' \in BOOLEAN /\ steady' \in BOOLEAN /\ open' \subseteq MODULE_KEYS
  <1>1. CASE Begins
    BY <1>1, OpenType DEF Begins, TypeOK, PaysFor
  <1>2. CASE Continues
    BY <1>2 DEF Continues, TypeOK, PaysFor, history
  <1> QED
    BY <1>1, <1>2

\* Commits of others leave the decision alone and the tables well formed.
LEMMA CommitType ==
  ASSUME TypeOK, ServiceCommits
  PROVE  /\ now' \in 0 .. MaxDay /\ now' >= now
         /\ org' \in Organizations /\ role' \in ROLE_KEYS \cup {None}
         /\ billing' \in [Accounts -> Billing \cup {None}]
         /\ UNCHANGED local
  <1> USE DEF TypeOK
  <1>0. UNCHANGED local /\ MaxDay \in Nat
    BY EntitlementAssumption DEF ServiceCommits
  <1>1. CASE \E o \in Organizations : OrganizationChanges(o) /\ UNCHANGED now
    BY <1>0, <1>1 DEF OrganizationChanges
  <1>2. CASE \E r \in ROLE_KEYS \cup {None} : RoleChanges(r) /\ UNCHANGED now
    BY <1>0, <1>2 DEF RoleChanges
  <1>3. CASE \E a \in Accounts : SubscriptionChanges(a) /\ UNCHANGED now
    <2>1. PICK a \in Accounts : SubscriptionChanges(a) /\ UNCHANGED now
      BY <1>3
    <2>2. PICK b : /\ billing' = [billing EXCEPT ![a] = b]
                   /\ b \in IF billing[a].status = "active"
                            THEN [status : {"past_due"}, lapsed : {now, None}]
                            ELSE {[status |-> "active", lapsed |-> None]}
      BY <2>1 DEF SubscriptionChanges
    <2>3. b \in Billing
      BY <2>2 DEF Billing
    <2> QED
      BY <1>0, <2>1, <2>2, <2>3 DEF SubscriptionChanges
  <1>4. CASE \E a \in Accounts : AccountDeleted(a) /\ UNCHANGED now
    BY <1>0, <1>4 DEF AccountDeleted, Organizations
  <1>5. CASE Tick
    BY <1>0, <1>5 DEF Tick, tables
  <1> QED
    BY <1>1, <1>2, <1>3, <1>4, <1>5 DEF ServiceCommits

LEMMA TypeStep == TypeInv /\ [Next]_vars => TypeInv'
  <1> SUFFICES ASSUME TypeInv, [Next]_vars PROVE TypeInv'
    OBVIOUS
  <1>1. TypeOK /\ Order
    BY DEF TypeInv
  <1>2. CASE \E types \in AgentTools : ReadOrganization(types) /\ Begins
    BY <1>1, <1>2, HistoryType DEF ReadOrganization, tables, TypeInv, TypeOK, Order, Rows, Stages,
       Organizations
  <1>3. CASE ReadOwner /\ Continues
    <2>1. row.org.owner \in Accounts
      BY <1>1, <1>3 DEF ReadOwner, Order, TypeOK, Rows, Organizations
    <2> QED
      BY <1>1, <1>3, <2>1, HistoryType DEF ReadOwner, tables, TypeInv, TypeOK, Order, Stages
  <1>4. CASE Decide /\ Continues
    <2>1. opens(row, modules_for_plan(plan_of(row.org, owner, now))) \subseteq MODULE_KEYS
      BY DEF opens, modules_for, modules_for_plan, normalize
    <2> QED
      BY <1>1, <1>4, <2>1, HistoryType DEF Decide, tables, TypeInv, TypeOK, Order, Stages
  <1>5. CASE FilterTools /\ Continues
    <2>1. configs \subseteq TOOLS
      BY <1>1, EntitlementAssumption DEF TypeOK
    <2>2. allowed_tool_configs(configs, granted) \subseteq TOOLS
      BY <2>1 DEF allowed_tool_configs
    <2> QED
      BY <1>1, <1>5, <2>2, HistoryType DEF FilterTools, tables, TypeInv, TypeOK, Order, Stages
  <1>6. CASE ServiceCommits /\ Continues
    BY <1>1, <1>6, HistoryType, CommitType DEF local, TypeInv, TypeOK, Order
  <1>7. CASE UNCHANGED vars
    BY <1>1, <1>7 DEF vars, tables, local, history, TypeInv, TypeOK, Order
  <1> QED
    BY <1>2, <1>3, <1>4, <1>5, <1>6, <1>7 DEF Next

LEMMA TypeInvariant == Spec => []TypeInv
  BY TypeInit, TypeStep, PTL DEF Spec

\* Every variable of a decision keeps its type.
THEOREM EntitlementTypeCorrect == Spec => []TypeOK
  <1>1. TypeInv => TypeOK
    BY DEF TypeInv
  <1> QED
    BY <1>1, TypeInvariant, PTL

-------------------------------------------------------------------------------
(* What is built is paid for. *)

Entitled == row.role = "manager" \/ (row.role # None /\ row.org.owner = Caller)

\* As long as the facts that were read make the plan premium, it was paid for.
PaidWhenRead == stage = "clock" /\ PaysFor(row.org, owner) => bought

GrantsArePaidFor ==
  stage \in {"filter", "done"} /\ granted \cap GatingModules # {} => bought /\ Entitled

PaidInv == TypeInv /\ PaidWhenRead /\ GrantsArePaidFor /\ GatedToolsArePaidFor

\* Time only takes payments away.
LEMMA TimePasses ==
  ASSUME TypeOK, now' \in Int, now' >= now, NEW o \in Organizations,
         NEW b \in Billing \cup {None},
         \/ o.pinned = "premium"
         \/ /\ o.pinned = None
            /\ b # None
            /\ \/ b.status \in ACTIVE_SUBSCRIPTION_STATUSES
               \/ b.lapsed # None /\ now' - b.lapsed < GRACE_DAYS
  PROVE  PaysFor(o, b)
  <1>1. b # None => (b.lapsed # None => b.lapsed \in Int)
    BY DEF Billing
  <1>2. now \in Int /\ GRACE_DAYS \in Int
    BY EntitlementAssumption DEF TypeOK
  <1> QED
    BY <1>1, <1>2 DEF PaysFor

\* Only the owner and managers open a module that gates tools, and only of a premium plan.
LEMMA OpensGating ==
  ASSUME TypeOK, opens(row, modules_for_plan(plan_of(row.org, owner, now))) \cap GatingModules # {}
  PROVE  PaysFor(row.org, owner) /\ Entitled
  <1>1. row.org \in Organizations /\ owner \in Billing \cup {None}
    BY DEF TypeOK, Rows
  <1>2. plan_of(row.org, owner, now) \in {"free", "premium"}
    BY <1>1, PremiumIsPaid DEF PLAN_KEYS
  <1>3. plan_of(row.org, owner, now) # "free" /\ Entitled
    BY <1>2, PlanModules DEF opens, modules_for, Entitled
  <1> QED
    BY <1>1, <1>2, <1>3, PremiumIsPaid

LEMMA PaidInit == Init => PaidInv
  BY TypeInit DEF Init, PaidInv, PaidWhenRead, GrantsArePaidFor, GatedToolsArePaidFor

LEMMA PaidStep == PaidInv /\ [Next]_vars => PaidInv'
  <1> SUFFICES ASSUME PaidInv, [Next]_vars PROVE PaidInv'
    OBVIOUS
  <1>1. /\ TypeInv /\ TypeOK /\ Order /\ TypeInv'
        /\ PaidWhenRead /\ GrantsArePaidFor /\ GatedToolsArePaidFor
    BY TypeStep DEF PaidInv, TypeInv
  <1>a. row.org \in Organizations /\ owner \in Billing \cup {None}
    BY <1>1 DEF TypeOK, Rows
  <1>2. CASE \E types \in AgentTools : ReadOrganization(types) /\ Begins
    <2>1. PICK types \in AgentTools : ReadOrganization(types) /\ Begins
      BY <1>2
    <2>2. owner = None /\ owner' = None /\ granted' = {} /\ kept' = {}
      BY <1>1, <2>1 DEF ReadOrganization, Order
    <2>3. stage' = "clock" /\ PaysFor(row.org, owner)' => bought'
      BY <2>1, <2>2 DEF ReadOrganization, Begins, PaysFor, tables
    <2> QED
      BY <1>1, <2>1, <2>2, <2>3 DEF ReadOrganization, PaidInv, PaidWhenRead, GrantsArePaidFor,
         GatedToolsArePaidFor
  <1>3. CASE ReadOwner /\ Continues
    <2>1. row.org.owner # None
      BY <1>1, <1>3 DEF ReadOwner, Order
    <2>2. row' = row /\ billing' = billing /\ owner' = billing'[row'.org.owner]
      BY <1>3 DEF ReadOwner, tables
    <2>3. owner' = OwnerBilling(row.org)'
      BY <2>1, <2>2 DEF OwnerBilling
    <2>4. bought' = (bought \/ PaysFor(row.org, OwnerBilling(row.org))')
      BY <1>3 DEF ReadOwner, Continues
    <2>5. PaysFor(row.org, owner)' => bought'
      BY <2>3, <2>4 DEF PaysFor
    <2> QED
      BY <1>1, <1>3, <2>5 DEF ReadOwner, PaidInv, PaidWhenRead, GrantsArePaidFor,
         GatedToolsArePaidFor
  <1>4. CASE Decide /\ Continues
    <2>1. granted' \cap GatingModules # {} => bought /\ Entitled
      BY <1>1, <1>4, OpensGating DEF Decide, PaidWhenRead
    <2>2. bought => bought'
      BY <1>4 DEF Decide, Continues
    <2> QED
      BY <1>1, <1>4, <2>1, <2>2 DEF Decide, PaidInv, PaidWhenRead, GrantsArePaidFor, Entitled,
         GatedToolsArePaidFor
  <1>5. CASE FilterTools /\ Continues
    <2>1. kept' \cap Gated # {} => granted \cap GatingModules # {}
      BY <1>5, ToolsAreGatedByThese DEF FilterTools, allowed_tool_configs, Gated
    <2>2. bought => bought'
      BY <1>5 DEF FilterTools, Continues
    <2> QED
      BY <1>1, <1>5, <2>1, <2>2 DEF FilterTools, PaidInv, PaidWhenRead, GrantsArePaidFor, Entitled,
         GatedToolsArePaidFor
  <1>6. CASE ServiceCommits /\ Continues
    <2>1. UNCHANGED local /\ now' \in Int /\ now' >= now
      BY <1>1, <1>6, CommitType, EntitlementAssumption
    <2>2. bought => bought'
      BY <1>6 DEF Continues, history
    <2>3. PaysFor(row.org, owner)' => PaysFor(row.org, owner)
      BY <1>1, <1>a, <2>1, TimePasses DEF PaysFor, local
    <2> QED
      BY <1>1, <2>1, <2>2, <2>3 DEF local, PaidInv, PaidWhenRead, GrantsArePaidFor, Entitled,
         GatedToolsArePaidFor
  <1>7. CASE UNCHANGED vars
    BY <1>1, <1>7 DEF vars, tables, local, history, PaidInv, PaidWhenRead, GrantsArePaidFor,
       Entitled, GatedToolsArePaidFor, PaysFor
  <1> QED
    BY <1>2, <1>3, <1>4, <1>5, <1>6, <1>7 DEF Next

\* A gated tool is built only for a manager or the owner of an organization whose plan, as
\* it was read, was paid for at some moment of the decision.
THEOREM BuiltToolsArePaidFor == Spec => []GatedToolsArePaidFor
  <1>1. PaidInv => GatedToolsArePaidFor
    BY DEF PaidInv
  <1> QED
    BY <1>1, PaidInit, PaidStep, PTL DEF Spec

-------------------------------------------------------------------------------
(* What is paid for is built. *)

\* While nothing that was read has changed, the modules that could be opened all along are
\* those the decision will grant.
ReadsHold ==
  /\ stage \in {"owner", "clock"} /\ steady => row = [org |-> org, role |-> role]
  /\ stage = "clock" /\ steady => Fresh
  /\ stage \in {"owner", "clock"} => open \subseteq OpenNow
  /\ stage \in {"filter", "done"} /\ steady => open \subseteq granted

BuiltInv == TypeInv /\ ReadsHold /\ OpenToolsAreBuilt

\* With what was read still true, the decision grants what can be opened now.
LEMMA GrantsWhatIsOpen ==
  ASSUME TypeInv, stage = "clock", row = [org |-> org, role |-> role], Fresh
  PROVE  OpenNow \subseteq opens(row, modules_for_plan(plan_of(row.org, owner, now)))
  <1>1. row.org \in Organizations /\ owner \in Billing \cup {None} /\ row.role # None
    BY DEF TypeInv, TypeOK, Rows, Order
  <1>2. row.org = org /\ row.role = role
    OBVIOUS
  <1>3. PaysFor(org, OwnerBilling(org)) <=> PaysFor(row.org, owner)
    BY <1>2 DEF Fresh, PaysFor
  <1>4. modules_for_plan(plan_of(row.org, owner, now)) =
          PLAN_MODULES[IF PaysFor(org, OwnerBilling(org)) THEN "premium" ELSE "free"]
    <2>1. plan_of(row.org, owner, now) = IF PaysFor(row.org, owner) THEN "premium" ELSE "free"
      BY <1>1, PremiumIsPaid DEF TypeInv, PLAN_KEYS
    <2> QED
      BY <1>3, <2>1, PlanModules
  <1> QED
    BY <1>1, <1>2, <1>4 DEF OpenNow, opens, modules_for

LEMMA BuiltInit == Init => BuiltInv
  BY TypeInit DEF Init, BuiltInv, ReadsHold, OpenToolsAreBuilt

LEMMA BuiltStep == BuiltInv /\ [Next]_vars => BuiltInv'
  <1> SUFFICES ASSUME BuiltInv, [Next]_vars PROVE BuiltInv'
    OBVIOUS
  <1>1. TypeInv /\ TypeOK /\ Order /\ TypeInv' /\ ReadsHold /\ OpenToolsAreBuilt
    BY TypeStep DEF BuiltInv, TypeInv
  <1>2. CASE \E types \in AgentTools : ReadOrganization(types) /\ Begins
    <2>1. PICK types \in AgentTools : ReadOrganization(types) /\ Begins
      BY <1>2
    <2>2. /\ row' = [org |-> org', role |-> role'] /\ stage' \in {"filter", "owner", "clock"}
          /\ UNCHANGED <<now, tables>> /\ owner' = None /\ open' = OpenNow
      BY <1>1, <2>1 DEF ReadOrganization, Begins, tables, Order
    <2>3. OpenNow' = OpenNow
      BY <2>2 DEF OpenNow, PaysFor, OwnerBilling, tables
    <2>4. CASE stage' = "filter"
      <3>1. role = None
        BY <2>1, <2>4 DEF ReadOrganization
      <3>2. open' = {}
        BY <2>2, <3>1 DEF OpenNow
      <3> QED
        BY <1>1, <2>4, <3>2 DEF BuiltInv, ReadsHold, OpenToolsAreBuilt
    <2>5. CASE stage' = "clock"
      <3>1. row'.org.pinned = None => row'.org.owner = None
        BY <2>1, <2>5 DEF ReadOrganization
      <3>2. Fresh'
        BY <2>2, <3>1 DEF Fresh, OwnerBilling
      <3> QED
        BY <1>1, <2>2, <2>3, <2>5, <3>2 DEF BuiltInv, ReadsHold, OpenToolsAreBuilt
    <2>6. CASE stage' = "owner"
      BY <1>1, <2>2, <2>3, <2>6 DEF BuiltInv, ReadsHold, OpenToolsAreBuilt
    <2> QED
      BY <2>2, <2>4, <2>5, <2>6
  <1>3. CASE ReadOwner /\ Continues
    <2>1. /\ stage = "owner" /\ stage' = "clock" /\ row' = row /\ UNCHANGED <<now, tables>>
          /\ open' = open \cap OpenNow'
          /\ steady' = (steady /\ row = [org |-> org', role |-> role'] /\ Fresh')
      BY <1>3 DEF ReadOwner, Continues
    <2> QED
      BY <1>1, <2>1 DEF BuiltInv, ReadsHold, OpenToolsAreBuilt
  <1>4. CASE Decide /\ Continues
    <2>1. stage = "clock" /\ stage' = "filter" /\ open' \subseteq open /\ (steady' => steady)
      BY <1>4 DEF Decide, Continues
    <2>2. steady => open \subseteq granted'
      BY <1>1, <1>4, <2>1, GrantsWhatIsOpen DEF Decide, ReadsHold
    <2> QED
      BY <1>1, <2>1, <2>2 DEF BuiltInv, ReadsHold, OpenToolsAreBuilt
  <1>5. CASE FilterTools /\ Continues
    <2>1. /\ stage = "filter" /\ stage' = "done" /\ open' \subseteq open /\ (steady' => steady)
          /\ UNCHANGED <<granted, configs>> /\ kept' = allowed_tool_configs(configs, granted)
      BY <1>5 DEF FilterTools, Continues
    <2>2. steady' => open' \subseteq granted'
      BY <1>1, <2>1 DEF ReadsHold
    <2>3. OpenToolsAreBuilt'
      BY <2>1, <2>2 DEF OpenToolsAreBuilt, allowed_tool_configs
    <2> QED
      BY <1>1, <2>1, <2>2, <2>3 DEF BuiltInv, ReadsHold
  <1>6. CASE ServiceCommits /\ Continues
    <2>1. UNCHANGED local /\ stage # "done"
      BY <1>6 DEF ServiceCommits
    <2>2. CASE stage = "idle"
      BY <1>1, <2>1, <2>2 DEF local, BuiltInv, ReadsHold, OpenToolsAreBuilt
    <2>3. CASE stage # "idle"
      <3>1. /\ open' = open \cap OpenNow'
            /\ steady' = (steady /\ row = [org |-> org', role |-> role'] /\ Fresh')
        BY <1>6, <2>1, <2>3 DEF Continues
      <3> QED
        BY <1>1, <2>1, <3>1 DEF local, BuiltInv, ReadsHold, OpenToolsAreBuilt
    <2> QED
      BY <2>2, <2>3
  <1>7. CASE UNCHANGED vars
    <2>1. OpenNow' = OpenNow /\ Fresh' = Fresh
      BY <1>7 DEF vars, tables, local, OpenNow, PaysFor, OwnerBilling, Fresh
    <2> QED
      BY <1>1, <1>7, <2>1 DEF vars, tables, local, history, BuiltInv, ReadsHold, OpenToolsAreBuilt
  <1> QED
    BY <1>2, <1>3, <1>4, <1>5, <1>6, <1>7 DEF Next

\* A tool whose module the caller could open at every moment of the decision is built,
\* unless what was read changed before it was used.
THEOREM WhatIsPaidForIsBuilt == Spec => []OpenToolsAreBuilt
  <1>1. BuiltInv => OpenToolsAreBuilt
    BY DEF BuiltInv
  <1> QED
    BY <1>1, BuiltInit, BuiltStep, PTL DEF Spec
===============================================================================
