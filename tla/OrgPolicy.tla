----------------------------- MODULE OrgPolicy -----------------------------
(***************************************************************************)
(* What org-service keeps for a tenant beside its users: the compliance    *)
(* policies, of which one is in force, and an AI system that can be        *)
(* deleted softly (internal/logic/orglogic.go, repo/sqlrepo.go).  Every    *)
(* repository call is one statement outside a transaction and one action;  *)
(* UpdatePolicy makes two and takes the time in between, UpdateAISystem    *)
(* reads the row it writes.                                                *)
(***************************************************************************)
EXTENDS Integers, Sequences, FiniteSets

CONSTANTS
  Admins,      \* calls in flight together
  Risks,       \* risk classifications of the AI system
  MaxPolicies  \* bound: calls of UpdatePolicy

ASSUME OrgAssumption == MaxPolicies \in Nat

VARIABLES
  policies,  \* compliance_policies, by insertion; updated is updated_at
  system,    \* the ai_systems row
  admin,     \* the calls
  updates,   \* number of calls of UpdatePolicy that have deactivated
  clock,     \* times taken for updated_at, no two the same
  width,     \* history: calls between their statements at the last deactivation
  lost       \* history: the last call whose insert failed with none after it

orgVars == <<policies, system, admin, updates, clock, width, lost>>

NoCall == [at |-> "idle", call |-> 0, updated |-> 0, row |-> CHOOSE r \in Risks : TRUE]
System == [risk : Risks, deleted : BOOLEAN]

OrgInit ==
  /\ policies = <<>>
  /\ system \in [risk : Risks, deleted : {FALSE}]
  /\ admin = [a \in Admins |-> NoCall]
  /\ updates = 0 /\ clock = 0 /\ width = 0 /\ lost = 0

OrgTypeOK ==
  /\ policies \in Seq([active : BOOLEAN, updated : 1..MaxPolicies])
  /\ Len(policies) <= updates
  /\ system \in System
  /\ admin \in [Admins -> [at : {"idle", "stamp", "create", "write"},
                           call : 0..MaxPolicies, updated : 0..MaxPolicies, row : Risks]]
  /\ updates \in 0..MaxPolicies /\ clock \in 0..updates
  /\ width \in 0..updates /\ lost \in 0..updates

Between == {a \in Admins : admin[a].at \in {"stamp", "create"}}

-----------------------------------------------------------------------------
\* Mutant: the old policies stay active.
KeepOldPolicies(a) ==
  /\ admin[a].at = "idle" /\ updates < MaxPolicies
  /\ updates' = updates + 1
  /\ admin' = [admin EXCEPT ![a].at = "stamp", ![a].call = updates + 1]
  /\ width' = Cardinality(Between) + 1
  /\ UNCHANGED <<policies, system, clock, lost>>

\* All of the tenant's, of whatever type.
DeactivateOldPolicies(a) ==
  /\ admin[a].at = "idle" /\ updates < MaxPolicies
  /\ updates' = updates + 1
  /\ policies' = [p \in DOMAIN policies |-> [policies[p] EXCEPT !.active = FALSE]]
  /\ admin' = [admin EXCEPT ![a].at = "stamp", ![a].call = updates + 1]
  /\ width' = Cardinality(Between) + 1
  /\ UNCHANGED <<system, clock, lost>>

\* The new policy is built after that statement: time.Now().
StampPolicy(a) ==
  /\ admin[a].at = "stamp"
  /\ clock' = clock + 1
  /\ admin' = [admin EXCEPT ![a].at = "create", ![a].updated = clock + 1]
  /\ UNCHANGED <<policies, system, updates, width, lost>>

\* Mutant: the new policy is stored inactive.
CreateInactive(a) ==
  /\ admin[a].at = "create"
  /\ policies' = Append(policies, [active |-> FALSE, updated |-> admin[a].updated])
  /\ admin' = [admin EXCEPT ![a] = NoCall]
  /\ UNCHANGED <<system, updates, clock, width, lost>>

\* The insert fails with the connection or the request, and on rules that are
\* not JSON.
CreatePolicy(a) ==
  /\ admin[a].at = "create"
  /\ \/ /\ policies' = Append(policies, [active |-> TRUE, updated |-> admin[a].updated])
        /\ UNCHANGED lost
     \/ /\ lost' = IF admin[a].call = updates THEN updates ELSE lost
        /\ UNCHANGED policies
  /\ admin' = [admin EXCEPT ![a] = NoCall]
  /\ UNCHANGED <<system, updates, clock, width>>

Active == {p \in DOMAIN policies : policies[p].active}

\* Mutant: in the order of insertion.
FirstActive(any) == {p \in Active : \A q \in Active : p <= q}

\* The one of the newest updated_at, if any.
GetActivePolicy(any) ==
  {p \in Active : \A q \in Active : policies[q].updated <= policies[p].updated}

-----------------------------------------------------------------------------
\* A deleted row is still found.
GetAISystem(a) ==
  /\ admin[a].at = "idle"
  /\ admin' = [admin EXCEPT ![a].at = "write", ![a].row = system.risk]
  /\ UNCHANGED <<policies, system, updates, clock, width, lost>>

\* Mutant: deleted_at is written with the rest of what was read.
WriteWholeSystem(a, risk) ==
  /\ admin[a].at = "write"
  /\ system' = [risk |-> risk, deleted |-> FALSE]
  /\ admin' = [admin EXCEPT ![a] = NoCall]
  /\ UNCHANGED <<policies, updates, clock, width, lost>>

\* An empty field of the request keeps the value that was read.
UpdateAISystem(a, risk) ==
  /\ admin[a].at = "write"
  /\ \/ system' = [system EXCEPT !.risk = risk]
     \/ system' = [system EXCEPT !.risk = admin[a].row]
  /\ admin' = [admin EXCEPT ![a] = NoCall]
  /\ UNCHANGED <<policies, updates, clock, width, lost>>

SoftDeleteAISystem ==
  /\ system' = [system EXCEPT !.deleted = TRUE]
  /\ UNCHANGED <<policies, admin, updates, clock, width, lost>>

OrgNext ==
  \/ \E a \in Admins :
       \/ DeactivateOldPolicies(a) \/ StampPolicy(a) \/ CreatePolicy(a)
       \/ GetAISystem(a)
       \/ \E risk \in Risks : UpdateAISystem(a, risk)
  \/ SoftDeleteAISystem

\* The service on its own.
OrgSpec == OrgInit /\ [][OrgNext]_orgVars

-----------------------------------------------------------------------------
\* The last call to deactivate did not lose its insert.
LastStored == updates > 0 /\ lost # updates

\* "creates a new active policy and deactivates the old one": once the calls
\* have ended a tenant that has had a policy has one in force, however they
\* crossed, unless the last to deactivate lost its insert.
PolicyInForce == policies = <<>> \/ Active # {} \/ Between # {} \/ ~LastStored

\* Calls that cross leave no more policies active than there were calls
\* between their two statements at the last deactivation: one, for a call
\* that was alone, whatever crossed before it.
NoMoreThanCrossed == Cardinality(Active) <= width

\* The policy in force is one; and once the calls have ended it is the newest
\* of all, however they crossed, unless the last to deactivate lost its
\* insert: a slower call may then have put an older policy in force.
InForceIsNewest ==
  /\ Active # {} => Cardinality(GetActivePolicy(TRUE)) = 1
  /\ Between = {} /\ LastStored =>
       \A p \in GetActivePolicy(TRUE), q \in DOMAIN policies :
         policies[q].updated <= policies[p].updated

\* An update of an AI system that was read before its deletion does not
\* bring it back.
DeletionIsKept == [][system.deleted => system'.deleted]_orgVars

\* What a tenant's administrators store survives calls that cross: when they
\* have ended the newest policy is in force, if a bounded number of others
\* stay active behind it, and a deleted system stays deleted.
OrgRecordsKept ==
  [](PolicyInForce /\ NoMoreThanCrossed /\ InForceIsNewest) /\ DeletionIsKept
=============================================================================
