------------------------------ MODULE Accounts ------------------------------
(***************************************************************************)
(* One user, whose row two services write: auth-service (Login,            *)
(* RefreshToken, Logout, RequestPasswordReset and ResetPassword of         *)
(* internal/logic/authlogic.go) and org-service (UpdateUserRole and        *)
(* ToggleUserActive of internal/logic/orglogic.go).  A repository call is  *)
(* one SQL statement outside a transaction, and one action; what a handler *)
(* has read stays in its job until it writes.                              *)
(* A token stands for its row; hashes, claims, signatures and last_login   *)
(* are left out.                                                           *)
(***************************************************************************)
EXTENDS Integers, FiniteSets, SequencesExt

CONSTANTS
  Desks,       \* bound: handlers at the same time
  Roles,       \* validRoles
  Passwords,
  MaxTokens,   \* bound: rows of refresh_tokens
  MaxResets,   \* bound: rows of password_reset_tokens
  MaxChanges,  \* bound: changes of the users row begun
  MaxFaults    \* bound: statements that fail

ASSUME AccountsAssumption ==
  /\ IsFiniteSet(Desks)
  /\ MaxTokens \in Nat /\ MaxResets \in Nat
  /\ MaxChanges \in Nat /\ MaxFaults \in Nat

Row   == [password : Passwords, role : Roles, active : {"yes", "no"}]
Token == [state : {"live", "revoked", "expired"}, root : 1..MaxTokens]
Reset == [state : {"open", "used", "expired"}, writes : Nat]
Job   == [at : {"idle", "lastlogin", "store", "revoke", "mark", "load", "write"},
          row : Row, key : Nat, column : {"none", "role", "active", "password"},
          value : {"none", "yes", "no"} \cup Roles \cup Passwords]

VARIABLES
  user,     \* the users row
  tokens,   \* refresh_tokens; root is the login a row descends from
  resets,   \* password_reset_tokens; writes counts what each has changed
  job,      \* the handlers
  changes, faults,
  asked,    \* history: the row if each change had touched its own column
  shared,   \* history: logins and resets of which two handlers used one token
  overlap,  \* history: two handlers held a row they were going to write
  lastOut   \* history: number of tokens at the last logout

vars == <<user, tokens, resets, job, changes, faults, asked, shared, overlap, lastOut>>

Idle == [at |-> "idle", row |-> CHOOSE r \in Row : TRUE, key |-> 0,
         column |-> "none", value |-> "none"]

\* InviteUser, and a first password.
Init ==
  /\ user \in {row \in Row : row.active = "yes"}
  /\ tokens = <<>> /\ resets = <<>>
  /\ job = [d \in Desks |-> Idle]
  /\ changes = 0 /\ faults = 0
  /\ asked = user /\ shared = {} /\ overlap = FALSE /\ lastOut = 0

\* One type invariant for the tables and the handlers.
TypeOK ==
  /\ user \in Row /\ asked \in Row
  /\ tokens \in Seq(Token) /\ Len(tokens) <= MaxTokens
  /\ resets \in Seq(Reset) /\ Len(resets) <= MaxResets
  /\ job \in [Desks -> Job]
  /\ changes \in 0..MaxChanges /\ faults \in 0..MaxFaults
  /\ shared \subseteq {"login", "reset"} \X Nat
  /\ overlap \in BOOLEAN /\ lastOut \in 0..MaxTokens

Goes(d, new) == job' = [job EXCEPT ![d] = new]
To(d, place) == Goes(d, [job[d] EXCEPT !.at = place])
Leaves(d) == Goes(d, Idle)
Free(d) == job[d].at = "idle"
At(place) == {d \in Desks : job[d].at = place}

Counters == <<changes, faults>>
History  == <<asked, shared, overlap, lastOut>>

\* The statement a handler has come to fails, and the handler with it.
StatementFails(d) ==
  /\ job[d].at \in {"store", "revoke", "mark", "load", "write"}
  /\ faults < MaxFaults /\ faults' = faults + 1
  /\ Leaves(d)
  /\ UNCHANGED <<user, tokens, resets, changes, History>>

(***************************************************************************)
(* Sessions.                                                               *)
(***************************************************************************)
RoomForToken ==
  Len(tokens) + Cardinality(At("lastlogin") \cup At("store") \cup At("revoke")) < MaxTokens

Login(d, plaintext) ==
  /\ Free(d) /\ RoomForToken
  /\ user.active = "yes" /\ plaintext = user.password
  /\ Goes(d, [Idle EXCEPT !.at = "lastlogin", !.row = user])
  /\ UNCHANGED <<user, tokens, resets, Counters, History>>

\* Mutant: writes the whole row it has read.
WriteLoginRow(d) ==
  /\ job[d].at = "lastlogin"
  /\ user' = job[d].row
  /\ To(d, "store")
  /\ UNCHANGED <<tokens, resets, Counters, History>>

\* An error is passed over.
UpdateLastLogin(d) ==
  /\ job[d].at = "lastlogin"
  /\ To(d, "store")
  /\ UNCHANGED <<user, tokens, resets, Counters, History>>

StoreRefreshToken(d) ==
  /\ job[d].at = "store"
  /\ LET login == IF job[d].key = 0 THEN Len(tokens) + 1 ELSE tokens[job[d].key].root
     IN  tokens' = Append(tokens, [state |-> "live", root |-> login])
  /\ Leaves(d)
  /\ UNCHANGED <<user, resets, Counters, History>>

\* RefreshToken: the row of the presented token is read, unexpired and live.
GetRefreshToken(d, k) ==
  /\ Free(d) /\ RoomForToken
  /\ k \in DOMAIN tokens /\ tokens[k].state = "live"
  /\ Goes(d, [Idle EXCEPT !.at = "revoke", !.key = k])
  /\ shared' = IF \E e \in At("revoke") : job[e].key = k
                 THEN shared \cup {<<"login", tokens[k].root>>} ELSE shared
  /\ UNCHANGED <<user, tokens, resets, Counters, asked, overlap, lastOut>>

Revoked(token) == IF token.state = "live" THEN [token EXCEPT !.state = "revoked"] ELSE token

\* Mutant: the token stays valid next to its successor.
KeepToken(d) ==
  /\ job[d].at = "revoke"
  /\ To(d, "store")
  /\ UNCHANGED <<user, tokens, resets, Counters, History>>

\* Mutant: a refresh ends the other sessions of the user.
RevokeOthersToo(d) ==
  /\ job[d].at = "revoke"
  /\ tokens' = [t \in DOMAIN tokens |-> Revoked(tokens[t])]
  /\ To(d, "store")
  /\ UNCHANGED <<user, resets, Counters, History>>

RevokeRefreshToken(d) ==
  /\ job[d].at = "revoke"
  /\ tokens' = [tokens EXCEPT ![job[d].key] = Revoked(@)]
  /\ To(d, "store")
  /\ UNCHANGED <<user, resets, Counters, History>>

\* Mutant: ends the latest session only.
LogoutLatest ==
  /\ \E t \in DOMAIN tokens : tokens[t].state = "live"
  /\ tokens' = [tokens EXCEPT ![Len(tokens)] = Revoked(@)]
  /\ lastOut' = Len(tokens)
  /\ UNCHANGED <<user, resets, job, Counters, asked, shared, overlap>>

\* RevokeAllUserTokens.
Logout ==
  /\ \E t \in DOMAIN tokens : tokens[t].state = "live"
  /\ tokens' = [t \in DOMAIN tokens |-> Revoked(tokens[t])]
  /\ lastOut' = Len(tokens)
  /\ UNCHANGED <<user, resets, job, Counters, asked, shared, overlap>>

TokenExpires(t) ==
  /\ t \in DOMAIN tokens /\ tokens[t].state = "live"
  /\ tokens' = [tokens EXCEPT ![t].state = "expired"]
  /\ UNCHANGED <<user, resets, job, Counters, History>>

(***************************************************************************)
(* Password resets.                                                        *)
(***************************************************************************)
RequestPasswordReset ==
  /\ Len(resets) < MaxResets
  /\ resets' = Append(resets, [state |-> "open", writes |-> 0])
  /\ UNCHANGED <<user, tokens, job, Counters, History>>

ResetExpires(r) ==
  /\ r \in DOMAIN resets /\ resets[r].state = "open"
  /\ resets' = [resets EXCEPT ![r].state = "expired"]
  /\ UNCHANGED <<user, tokens, job, Counters, History>>

Change(d, place, column, value, key, row) ==
  /\ changes < MaxChanges /\ changes' = changes + 1
  /\ Goes(d, [at |-> place, row |-> row, key |-> key, column |-> column, value |-> value])

GetPasswordResetToken(d, r, password) ==
  /\ Free(d)
  /\ r \in DOMAIN resets /\ resets[r].state = "open"
  /\ Change(d, "mark", "password", password, r, Idle.row)
  /\ shared' = IF \E e \in At("mark") : job[e].key = r
                 THEN shared \cup {<<"reset", r>>} ELSE shared
  /\ UNCHANGED <<user, tokens, resets, faults, asked, overlap, lastOut>>

\* Mutant: the token can be used again until it expires.
LeaveTokenOpen(d) ==
  /\ job[d].at = "mark"
  /\ To(d, "load")
  /\ UNCHANGED <<user, tokens, resets, Counters, History>>

\* The token is used up before the password is known to be acceptable.
MarkResetTokenUsed(d) ==
  /\ job[d].at = "mark"
  /\ resets' = [resets EXCEPT ![job[d].key].state = "used"]
  /\ To(d, "load") \/ Leaves(d)
  /\ UNCHANGED <<user, tokens, Counters, History>>

LoadUser(d) ==
  /\ job[d].at = "load"
  /\ Goes(d, [job[d] EXCEPT !.at = "write", !.row = user])
  /\ overlap' = (overlap \/ At("write") # {})
  /\ UNCHANGED <<user, tokens, resets, Counters, asked, shared, lastOut>>

(***************************************************************************)
(* Changes of the row.                                                     *)
(***************************************************************************)
\* Mutant: takes a role that validRoles has not.
RoleUnchecked(d, role) ==
  /\ Free(d)
  /\ Change(d, "write", "role", "guest", 0, user)
  /\ overlap' = (overlap \/ At("write") # {})
  /\ UNCHANGED <<user, tokens, resets, faults, asked, shared, lastOut>>

UpdateUserRole(d, role) ==
  /\ Free(d)
  /\ Change(d, "write", "role", role, 0, user)
  /\ overlap' = (overlap \/ At("write") # {})
  /\ UNCHANGED <<user, tokens, resets, faults, asked, shared, lastOut>>

ToggleUserActive(d, active) ==
  /\ Free(d)
  /\ Change(d, "write", "active", active, 0, user)
  /\ overlap' = (overlap \/ At("write") # {})
  /\ UNCHANGED <<user, tokens, resets, faults, asked, shared, lastOut>>

\* Every column of the row is written, the ones that were only read included.
UpdateUser(d) ==
  /\ job[d].at = "write"
  /\ user' = [job[d].row EXCEPT ![job[d].column] = job[d].value]
  /\ asked' = [asked EXCEPT ![job[d].column] = job[d].value]
  /\ resets' = IF job[d].key = 0 THEN resets ELSE [resets EXCEPT ![job[d].key].writes = @ + 1]
  /\ Leaves(d)
  /\ UNCHANGED <<tokens, Counters, shared, overlap, lastOut>>

Next ==
  \/ \E d \in Desks :
       \/ \E p \in Passwords : Login(d, p)
       \/ UpdateLastLogin(d) \/ StoreRefreshToken(d)
       \/ \E k \in 1..MaxTokens : GetRefreshToken(d, k)
       \/ RevokeRefreshToken(d)
       \/ \E r \in 1..MaxResets, p \in Passwords : GetPasswordResetToken(d, r, p)
       \/ MarkResetTokenUsed(d) \/ LoadUser(d)
       \/ \E role \in Roles : UpdateUserRole(d, role)
       \/ \E active \in {"yes", "no"} : ToggleUserActive(d, active)
       \/ UpdateUser(d)
       \/ StatementFails(d)
  \/ Logout
  \/ \E t \in 1..MaxTokens : TokenExpires(t)
  \/ RequestPasswordReset
  \/ \E r \in 1..MaxResets : ResetExpires(r)

Spec == Init /\ [][Next]_vars

(***************************************************************************)
(* What must hold.                                                         *)
(***************************************************************************)
Logins == {tokens[t].root : t \in DOMAIN tokens}
LiveOf(login) == {t \in DOMAIN tokens : tokens[t].root = login /\ tokens[t].state = "live"}
Descendants(login) == {t \in DOMAIN tokens : tokens[t].root = login}

\* Rotation: a login has one refresh token that works, however often it is
\* refreshed, unless two refreshes read the same token before either had
\* revoked it.
OneTokenPerLogin ==
  \A login \in Logins :
    Cardinality(LiveOf(login)) <= 1 \/ <<"login", login>> \in shared

\* And it never loses that token: not to the refreshes of other logins, only
\* to a logout, to its expiry or to a statement that fails.
LoginKept ==
  \A login \in Logins :
    \/ LiveOf(login) # {} \/ login <= lastOut \/ faults > 0
    \/ \E t \in Descendants(login) : tokens[t].state = "expired"
    \/ \E d \in At("store") : job[d].key \in Descendants(login)

\* A logout ends every session stored before it; a refresh or a login that
\* is still on its way stores its token after it.
LogoutEndsAll == \A t \in 1..lastOut : tokens[t].state # "live"

\* A reset token changes the password once, and only when it has been marked
\* as used, unless two resets read it before either had marked it.
ResetOnce ==
  \A r \in DOMAIN resets :
    /\ resets[r].writes > 0 => resets[r].state = "used"
    /\ resets[r].writes <= 1 \/ <<"reset", r>> \in shared

\* No change of role, is_active or password is undone by another one, unless
\* the two overlap: a login and a refresh, which may, write no such column.
NothingUndone == ~overlap => user = asked

\* Rotation: a login has exactly one refresh token that works; the exceptions
\* are those of the parts.
TokensRotate == OneTokenPerLogin /\ LoginKept
=============================================================================
