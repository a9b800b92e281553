----------------------------- MODULE TenantPool -----------------------------
(***************************************************************************)
(* Row-level security over a connection pool: the transactions of          *)
(* shared/database/rls.go, which set app.current_tenant, the statements    *)
(* that services run on the pool without one, and the tenant_isolation     *)
(* policies of deploy/postgres/migrations.  Statements name a row by its   *)
(* id; whose row it is, only the policy asks.                              *)
(***************************************************************************)
EXTENDS Naturals, FiniteSets

CONSTANTS
  Tenants,
  Callers,      \* requests served together
  Connections,  \* of the pool
  NoTenant      \* app.current_tenant is not set, or empty

ASSUME TenantAssumption == NoTenant \notin Tenants

VARIABLES
  role,     \* the services' database role: do policies apply to it?
  setting,  \* app.current_tenant of a connection
  holder,   \* the caller whose transaction a connection is in
  call,     \* the callers: where they stand, and for which tenant
  seen,     \* history: whose rows the caller's statements found
  missed    \* history: a statement of a transaction missed a row of its tenant

poolVars == <<role, setting, holder, call, seen, missed>>

Free == {n \in Connections : holder[n] = {}}

PoolInit ==
  /\ role \in {"superuser", "member"}
  /\ setting = [n \in Connections |-> NoTenant]
  /\ holder = [n \in Connections |-> {}]
  /\ call = [c \in Callers |-> [at |-> "idle", tenant |-> NoTenant]]
  /\ seen = [c \in Callers |-> {}] /\ missed = FALSE

PoolTypeOK ==
  /\ role \in {"superuser", "member"}
  /\ setting \in [Connections -> Tenants \cup {NoTenant}]
  /\ holder \in [Connections -> SUBSET Callers]
  /\ \A n \in Connections : Cardinality(holder[n]) <= 1
  /\ call \in [Callers -> [at : {"idle", "direct", "begun", "tenant"},
                           tenant : Tenants \cup {NoTenant}]]
  /\ seen \in [Callers -> SUBSET Tenants] /\ missed \in BOOLEAN

\* A request for a tenant, or without one (a system call, a webhook).
Request(c, t) ==
  /\ call[c].at = "idle"
  /\ call' = [call EXCEPT ![c] = [at |-> "direct", tenant |-> t]]
  /\ seen' = [seen EXCEPT ![c] = {}]
  /\ UNCHANGED <<role, setting, holder, missed>>

Return(c) ==
  /\ call[c].at = "direct"
  /\ call' = [call EXCEPT ![c] = [at |-> "idle", tenant |-> NoTenant]]
  /\ seen' = [seen EXCEPT ![c] = {}]
  /\ UNCHANGED <<role, setting, holder, missed>>

\* Without a tenant in its context the call is refused.
BeginTenantTx(c, n) ==
  /\ call[c].at = "direct" /\ call[c].tenant # NoTenant
  /\ n \in Free
  /\ holder' = [holder EXCEPT ![n] = {c}]
  /\ call' = [call EXCEPT ![c].at = "begun"]
  /\ UNCHANGED <<role, setting, seen, missed>>

\* Mutant: the transaction begins without its tenant.
SetNothing(c, n) ==
  /\ call[c].at = "begun" /\ holder[n] = {c}
  /\ call' = [call EXCEPT ![c].at = "tenant"]
  /\ UNCHANGED <<role, setting, holder, seen, missed>>

SetLocal(c, n) ==
  /\ call[c].at = "begun" /\ holder[n] = {c}
  /\ setting' = [setting EXCEPT ![n] = call[c].tenant]
  /\ call' = [call EXCEPT ![c].at = "tenant"]
  /\ UNCHANGED <<role, holder, seen, missed>>

\* Mutant: SET in place of SET LOCAL.
EndKeepsSetting(c, n) ==
  /\ call[c].at \in {"begun", "tenant"} /\ holder[n] = {c}
  /\ holder' = [holder EXCEPT ![n] = {}]
  /\ call' = [call EXCEPT ![c].at = "direct"]
  /\ UNCHANGED <<role, setting, seen, missed>>

\* Commit, or Rollback, of SET LOCAL's failure too: the setting goes.
EndTx(c, n) ==
  /\ call[c].at \in {"begun", "tenant"} /\ holder[n] = {c}
  /\ holder' = [holder EXCEPT ![n] = {}]
  /\ setting' = [setting EXCEPT ![n] = NoTenant]
  /\ call' = [call EXCEPT ![c].at = "direct"]
  /\ UNCHANGED <<role, seen, missed>>

\* USING and WITH CHECK (tenant_id = current_tenant_id()); a role that
\* bypasses the policies sees every row.
Visible(n, t) == role = "superuser" \/ setting[n] = t

StatementInTx(c, n, t) ==
  /\ call[c].at = "tenant" /\ holder[n] = {c}
  /\ seen' = [seen EXCEPT ![c] = IF Visible(n, t) THEN @ \cup {t} ELSE @]
  /\ missed' = (missed \/ (t = call[c].tenant /\ ~Visible(n, t)))
  /\ UNCHANGED <<role, setting, holder, call>>

\* db.QueryRowContext and db.ExecContext: any free connection.
DirectStatement(c, n, t) ==
  /\ call[c].at = "direct" /\ n \in Free
  /\ seen' = [seen EXCEPT ![c] = IF Visible(n, t) THEN @ \cup {t} ELSE @]
  /\ UNCHANGED <<role, setting, holder, call, missed>>

PoolNext ==
  \/ \E c \in Callers, t \in Tenants \cup {NoTenant} : Request(c, t)
  \/ \E c \in Callers : Return(c)
  \/ \E c \in Callers, n \in Connections :
       \/ BeginTenantTx(c, n) \/ SetLocal(c, n) \/ EndTx(c, n)
       \/ \E t \in Tenants : StatementInTx(c, n, t) \/ DirectStatement(c, n, t)

\* The pool on its own.
PoolSpec == PoolInit /\ [][PoolNext]_poolVars

-----------------------------------------------------------------------------
\* Under a role the policies apply to, a call finds no row of another
\* tenant, in a transaction or outside one, on whichever connection of the
\* pool its statements run.
OwnRowsOnly ==
  role = "member" => \A c \in Callers : seen[c] \subseteq {call[c].tenant}

\* A transaction finds the rows of its own tenant under either role.
TxFindsOwnRows == ~missed

\* Tenants are apart on a shared pool: a call finds its own rows and no others.
TenantsApart == OwnRowsOnly /\ TxFindsOwnRows
=============================================================================
