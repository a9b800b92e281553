----------------------------- MODULE MCServices -----------------------------
(***************************************************************************)
(* The small services, one at a time: they share no state and call one     *)
(* another nowhere, so a behaviour is that of one of them, and the state   *)
(* space is their sum.                                                     *)
(***************************************************************************)
EXTENDS OrgPolicy, RepoConnection, Notifications, RateLimiter, StatusStream, TenantPool

VARIABLE service  \* the one that runs

Services == {"org", "repo", "notification", "limiter", "stream", "pool"}

vars == <<service, orgVars, repoVars, noteVars, limitVars, streamVars, poolVars>>

\* Every service's first state; where there are several, the others' is fixed.
Init ==
  /\ service \in Services
  /\ OrgInit /\ RepoInit /\ NoteInit /\ LimitInit /\ StreamInit /\ PoolInit
  /\ service # "org" => system.risk = CHOOSE r \in Risks : TRUE
  /\ service # "stream" =>
       audit.state = (CHOOSE s \in AuditStates : TRUE) /\ audit.percent = (CHOOSE p \in Percents : TRUE)
  /\ service # "pool" => role = "member"

OrgStep ==
  /\ service = "org" /\ OrgNext
  /\ UNCHANGED <<service, repoVars, noteVars, limitVars, streamVars, poolVars>>
RepoStep ==
  /\ service = "repo" /\ RepoNext
  /\ UNCHANGED <<service, orgVars, noteVars, limitVars, streamVars, poolVars>>
NotificationStep ==
  /\ service = "notification" /\ NoteNext
  /\ UNCHANGED <<service, orgVars, repoVars, limitVars, streamVars, poolVars>>
LimiterStep ==
  /\ service = "limiter" /\ LimitNext
  /\ UNCHANGED <<service, orgVars, repoVars, noteVars, streamVars, poolVars>>
StreamStep ==
  /\ service = "stream" /\ StreamNext
  /\ UNCHANGED <<service, orgVars, repoVars, noteVars, limitVars, poolVars>>
PoolStep ==
  /\ service = "pool" /\ PoolNext
  /\ UNCHANGED <<service, orgVars, repoVars, noteVars, limitVars, streamVars>>

Next == OrgStep \/ RepoStep \/ NotificationStep \/ LimiterStep \/ StreamStep \/ PoolStep

\* The ticker of an open stream fires every second.
Ticks == service = "stream" /\ Poll /\ UNCHANGED <<service, orgVars, repoVars, noteVars, limitVars, poolVars>>

FairSpec == Init /\ [][Next]_vars /\ WF_vars(Ticks)

\* One type invariant for all.
TypeOK ==
  OrgTypeOK /\ RepoTypeOK /\ NoteTypeOK /\ LimitTypeOK /\ StreamTypeOK /\ PoolTypeOK
=============================================================================
