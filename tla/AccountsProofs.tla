--------------------------- MODULE AccountsProofs ---------------------------
(***************************************************************************)
(* Theorems about Accounts: its type invariant, the rotation of refresh    *)
(* tokens and logout, for any number of handlers, tokens, resets, changes  *)
(* and faults.                                                             *)
(***************************************************************************)
EXTENDS Accounts, FiniteSetTheorems, SequenceTheorems, TLAPS

(***************************************************************************)
(* Types.  TypeOK is not inductive: a handler's key must name a row that   *)
(* exists, what it will write must fit its column, and there must be room  *)
(* for the tokens of the handlers that are going to store one.             *)
(***************************************************************************)
ValueFits(j) ==
  \/ j.column = "role" /\ j.value \in Roles
  \/ j.column = "active" /\ j.value \in {"yes", "no"}
  \/ j.column = "password" /\ j.value \in Passwords

\* A handler at j is at work on rows that are there, with n tokens and m resets.
FitsIn(j, n, m) ==
  /\ j.at = "lastlogin" => j.key = 0
  /\ j.at = "revoke" => j.key \in 1..n
  /\ j.at = "store" => j.key \in 0..n
  /\ j.at \in {"mark", "load"} => j.key \in 1..m /\ ValueFits(j)
  /\ j.at = "write" => j.key \in 0..m /\ ValueFits(j)

Fits == \A d \in Desks : FitsIn(job[d], Len(tokens), Len(resets))

\* The handlers that are going to store a token.
Storing == {"lastlogin", "store", "revoke"}
Pending == {d \in Desks : job[d].at \in Storing}
Room    == Len(tokens) + Cardinality(Pending) <= MaxTokens

TypeInv == TypeOK /\ Fits /\ Room

-----------------------------------------------------------------------------
LEMMA Lengths ==
  ASSUME TypeOK
  PROVE  /\ Len(tokens) \in Nat /\ DOMAIN tokens = 1..Len(tokens)
         /\ Len(resets) \in Nat /\ DOMAIN resets = 1..Len(resets)
         /\ \A t \in 1..Len(tokens) : tokens[t] \in Token
         /\ \A r \in 1..Len(resets) : resets[r] \in Reset
<1>1. tokens \in Seq(Token) /\ resets \in Seq(Reset)
  BY DEF TypeOK
<1> QED BY <1>1, LenProperties, ElementOfSeq

LEMMA IdleIs ==
  ASSUME NEW r \in Row
  PROVE  /\ Idle \in Job /\ Idle.at = "idle" /\ Idle.key = 0
         /\ \A n, m \in Nat : FitsIn(Idle, n, m)
<1>1. (CHOOSE row \in Row : TRUE) \in Row
  OBVIOUS
<1>2. Idle \in Job
  BY <1>1 DEF Idle, Job
<1>3. Idle.at = "idle" /\ Idle.key = 0
  BY DEF Idle
<1> QED BY <1>2, <1>3 DEF FitsIn

LEMMA PendingIs ==
  ASSUME AccountsAssumption
  PROVE  /\ IsFiniteSet(Pending) /\ Cardinality(Pending) \in Nat
         /\ Pending = At("lastlogin") \cup At("store") \cup At("revoke")
<1>1. IsFiniteSet(Pending)
  BY FS_Subset, Pending \subseteq Desks DEF AccountsAssumption, Pending
<1>2. Pending = At("lastlogin") \cup At("store") \cup At("revoke")
  BY DEF Pending, At, Storing
<1> QED BY <1>1, <1>2, FS_CardinalityType

\* A handler's step leaves the handlers typed, and room for their tokens: the
\* step adds no token, and makes a handler wait for one only where there is room.
LEMMA Moves ==
  ASSUME TypeInv, NEW d \in Desks, NEW new \in Job,
         job' = [job EXCEPT ![d] = new],
         FitsIn(new, Len(tokens), Len(resets)),
         Len(tokens') = Len(tokens), Len(resets') = Len(resets),
         new.at \in Storing => job[d].at \in Storing \/ RoomForToken
  PROVE  job' \in [Desks -> Job] /\ Fits' /\ Room'
<1>1. job' \in [Desks -> Job]
  BY DEF TypeInv, TypeOK
<1>2. Fits'
  <2> SUFFICES ASSUME NEW e \in Desks
               PROVE  FitsIn(job'[e], Len(tokens), Len(resets))
    BY Zenon DEF Fits, FitsIn, ValueFits
  <2>1. job'[e] = IF e = d THEN new ELSE job[e]
    BY DEF TypeInv, TypeOK
  <2> QED BY <2>1, Zenon DEF TypeInv, Fits
<1>3. Room'
  <2>1. IsFiniteSet(Pending) /\ Cardinality(Pending) \in Nat /\ Len(tokens) \in Nat
    BY PendingIs, AccountsAssumption, Lengths DEF TypeInv
  <2>2. Pending' \subseteq IF new.at \in Storing THEN Pending \cup {d} ELSE Pending
    BY DEF Pending, TypeInv, TypeOK
  <2>3. CASE Pending' \subseteq Pending
    <3>1. IsFiniteSet(Pending') /\ Cardinality(Pending') <= Cardinality(Pending)
      BY <2>1, <2>3, FS_Subset
    <3>2. Cardinality(Pending') \in Nat
      BY <3>1, FS_CardinalityType
    <3> QED BY <2>1, <3>1, <3>2, AccountsAssumption DEF Room, TypeInv, AccountsAssumption
  <2>4. CASE ~(Pending' \subseteq Pending)
    <3>1. new.at \in Storing /\ Pending' \subseteq Pending \cup {d} /\ job[d].at \notin Storing
      BY <2>2, <2>4 DEF Pending
    <3>2. Len(tokens) + Cardinality(Pending) < MaxTokens
      BY <3>1, PendingIs, AccountsAssumption DEF RoomForToken
    <3>3. IsFiniteSet(Pending \cup {d}) /\ Cardinality(Pending \cup {d}) = Cardinality(Pending) + 1
      <4>1. d \notin Pending
        BY <3>1 DEF Pending
      <4> QED BY <2>1, <4>1, FS_AddElement
    <3>4. IsFiniteSet(Pending') /\ Cardinality(Pending') <= Cardinality(Pending \cup {d})
      BY <3>1, <3>3, FS_Subset
    <3>5. Cardinality(Pending') \in Nat /\ Cardinality(Pending \cup {d}) \in Nat
      BY <3>3, <3>4, FS_CardinalityType
    <3> QED BY <2>1, <3>2, <3>3, <3>4, <3>5, AccountsAssumption DEF Room, AccountsAssumption
  <2> QED BY <2>3, <2>4
<1> QED BY <1>1, <1>2, <1>3

\* Nor does a step without a handler.
LEMMA Rests ==
  ASSUME TypeInv, job' = job, Len(tokens') = Len(tokens),
         Len(resets') \in Nat, Len(resets') >= Len(resets)
  PROVE  Fits' /\ Room'
<1>1. Room'
  BY DEF TypeInv, Room, Pending
<1>2. Fits'
  <2> SUFFICES ASSUME NEW e \in Desks
               PROVE  FitsIn(job[e], Len(tokens), Len(resets'))
    BY Zenon DEF Fits, FitsIn, ValueFits
  <2>1. Len(resets) \in Nat /\ job[e].key \in Nat
    BY Lengths DEF TypeInv, TypeOK, Job
  <2> QED BY <2>1 DEF TypeInv, Fits, FitsIn
<1> QED BY <1>1, <1>2

\* What is left of TypeOK when the handlers and the tables are put aside.
RestOK ==
  /\ user \in Row /\ asked \in Row
  /\ changes \in 0..MaxChanges /\ faults \in 0..MaxFaults
  /\ shared \subseteq {"login", "reset"} \X Nat
  /\ overlap \in BOOLEAN /\ lastOut \in 0..MaxTokens

Tables == <<tokens, resets>>

\* A handler moves on and the tables stay.
LEMMA MovesOnly ==
  ASSUME TypeInv, NEW d \in Desks, NEW new \in Job,
         Goes(d, new), FitsIn(new, Len(tokens), Len(resets)),
         new.at \in Storing => job[d].at \in Storing \/ RoomForToken,
         UNCHANGED Tables, RestOK'
  PROVE  TypeInv'
<1>1. job' \in [Desks -> Job] /\ Fits' /\ Room'
  BY Moves DEF Goes, Tables
<1>2. tokens' = tokens /\ resets' = resets
  BY DEF Tables
<1> QED BY <1>1, <1>2 DEF TypeInv, TypeOK, RestOK

LEMMA LoginTypes ==
  ASSUME TypeInv, NEW d \in Desks, NEW p \in Passwords, Login(d, p)
  PROVE  TypeInv'
<1> DEFINE new == [Idle EXCEPT !.at = "lastlogin", !.row = user]
<1>1. new \in Job /\ new.at = "lastlogin" /\ new.key = 0
  BY IdleIs DEF TypeInv, TypeOK, Job
<1>2. Goes(d, new) /\ RoomForToken /\ UNCHANGED Tables
  BY DEF Login, Tables
<1>3. RestOK'
  BY DEF Login, Counters, History, RestOK, TypeInv, TypeOK
<1> HIDE DEF new
<1>4. FitsIn(new, Len(tokens), Len(resets))
  BY <1>1 DEF FitsIn
<1> QED BY <1>1, <1>2, <1>3, <1>4, MovesOnly

LEMMA LastLoginTypes ==
  ASSUME TypeInv, NEW d \in Desks, UpdateLastLogin(d)
  PROVE  TypeInv'
<1> DEFINE new == [job[d] EXCEPT !.at = "store"]
<1>1. new \in Job /\ new.at = "store" /\ new.key = job[d].key
  BY DEF TypeInv, TypeOK, Job
<1>2. Goes(d, new) /\ job[d].at \in Storing /\ UNCHANGED Tables
  BY DEF UpdateLastLogin, To, Tables, Storing
<1>3. RestOK'
  BY DEF UpdateLastLogin, Counters, History, RestOK, TypeInv, TypeOK
<1>4. new.key = 0
  BY <1>1 DEF UpdateLastLogin, TypeInv, Fits, FitsIn
<1> HIDE DEF new
<1>5. FitsIn(new, Len(tokens), Len(resets))
  BY <1>1, <1>4, Lengths DEF FitsIn, TypeInv
<1> QED BY <1>1, <1>2, <1>3, <1>5, MovesOnly

LEMMA GetRefreshTokenTypes ==
  ASSUME TypeInv, NEW d \in Desks, NEW k \in 1..MaxTokens, GetRefreshToken(d, k)
  PROVE  TypeInv'
<1> DEFINE new == [Idle EXCEPT !.at = "revoke", !.key = k]
<1>1. k \in 1..Len(tokens) /\ tokens[k] \in Token
  BY Lengths DEF GetRefreshToken, TypeInv
<1>2. new \in Job /\ new.at = "revoke" /\ new.key = k
  <2>1. Idle \in Job /\ k \in Nat
    BY IdleIs DEF TypeInv, TypeOK
  <2> QED BY <2>1 DEF Job
<1>3. Goes(d, new) /\ RoomForToken /\ UNCHANGED Tables
  BY DEF GetRefreshToken, Tables
<1>4. shared' \subseteq {"login", "reset"} \X Nat
  <2>1. tokens[k].root \in Nat
    BY <1>1, AccountsAssumption DEF Token, AccountsAssumption
  <2>2. shared' \subseteq shared \cup {<<"login", tokens[k].root>>}
    BY DEF GetRefreshToken
  <2> QED BY <2>1, <2>2 DEF TypeInv, TypeOK
<1>5. RestOK'
  BY <1>4 DEF GetRefreshToken, Counters, RestOK, TypeInv, TypeOK
<1> HIDE DEF new
<1>6. FitsIn(new, Len(tokens), Len(resets))
  BY <1>1, <1>2 DEF FitsIn
<1> QED BY <1>2, <1>3, <1>5, <1>6, MovesOnly

LEMMA StatementFailsTypes ==
  ASSUME TypeInv, NEW d \in Desks, StatementFails(d)
  PROVE  TypeInv'
<1>1. Idle \in Job /\ Idle.at = "idle" /\ FitsIn(Idle, Len(tokens), Len(resets))
  BY IdleIs, Lengths DEF TypeInv, TypeOK
<1>2. Goes(d, Idle) /\ UNCHANGED Tables
  BY DEF StatementFails, Leaves, Tables
<1>3. RestOK'
  BY AccountsAssumption
     DEF StatementFails, History, RestOK, TypeInv, TypeOK, AccountsAssumption
<1> QED BY <1>1, <1>2, <1>3, MovesOnly DEF Storing

LEMMA GetResetTokenTypes ==
  ASSUME TypeInv, NEW d \in Desks, NEW r \in 1..MaxResets, NEW p \in Passwords,
         GetPasswordResetToken(d, r, p)
  PROVE  TypeInv'
<1> DEFINE new == [at |-> "mark", row |-> Idle.row, key |-> r,
                   column |-> "password", value |-> p]
<1>1. r \in 1..Len(resets)
  BY Lengths DEF GetPasswordResetToken, TypeInv
<1>2. new \in Job /\ new.at = "mark" /\ new.key = r /\ ValueFits(new)
  BY IdleIs DEF TypeInv, TypeOK, Job, ValueFits
<1>3. Goes(d, new) /\ changes' = changes + 1 /\ changes < MaxChanges /\ UNCHANGED Tables
  BY DEF GetPasswordResetToken, Change, Tables
<1>4. shared' \subseteq shared \cup {<<"reset", r>>}
  BY DEF GetPasswordResetToken
<1>5. shared' \subseteq {"login", "reset"} \X Nat
  BY <1>4 DEF TypeInv, TypeOK
<1>6. RestOK'
  BY <1>3, <1>5, AccountsAssumption
     DEF GetPasswordResetToken, RestOK, TypeInv, TypeOK, AccountsAssumption
<1> HIDE DEF new
<1>7. FitsIn(new, Len(tokens), Len(resets))
  BY <1>1, <1>2 DEF FitsIn
<1> QED BY <1>2, <1>3, <1>6, <1>7, MovesOnly DEF Storing

LEMMA LoadUserTypes ==
  ASSUME TypeInv, NEW d \in Desks, LoadUser(d)
  PROVE  TypeInv'
<1> DEFINE new == [job[d] EXCEPT !.at = "write", !.row = user]
<1>1. /\ new \in Job /\ new.at = "write" /\ new.key = job[d].key
      /\ new.column = job[d].column /\ new.value = job[d].value
  BY DEF TypeInv, TypeOK, Job
<1>2. Goes(d, new) /\ UNCHANGED Tables
  BY DEF LoadUser, Tables
<1>3. overlap' \in BOOLEAN
  <2>1. overlap' = (overlap \/ At("write") # {})
    BY DEF LoadUser
  <2> QED BY <2>1
<1>4. RestOK'
  BY <1>3 DEF LoadUser, Counters, RestOK, TypeInv, TypeOK
<1>5. job[d].key \in 1..Len(resets) /\ ValueFits(job[d])
  BY DEF LoadUser, TypeInv, Fits, FitsIn
<1>6. ValueFits(new)
  BY <1>1, <1>5, Zenon DEF ValueFits
<1> HIDE DEF new
<1>7. FitsIn(new, Len(tokens), Len(resets))
  BY <1>1, <1>5, <1>6, Lengths DEF FitsIn, TypeInv
<1> QED BY <1>1, <1>2, <1>4, <1>7, MovesOnly DEF Storing

\* UpdateUserRole and ToggleUserActive begin with the row they will write.
LEMMA ChangeTypes ==
  ASSUME TypeInv, NEW d \in Desks, NEW column, NEW value,
         \/ column = "role" /\ value \in Roles
         \/ column = "active" /\ value \in {"yes", "no"},
         Change(d, "write", column, value, 0, user),
         overlap' = (overlap \/ At("write") # {}),
         UNCHANGED <<user, tokens, resets, faults, asked, shared, lastOut>>
  PROVE  TypeInv'
<1> DEFINE new == [at |-> "write", row |-> user, key |-> 0, column |-> column, value |-> value]
<1>1. new \in Job /\ new.at = "write" /\ new.key = 0 /\ ValueFits(new)
  BY DEF TypeInv, TypeOK, Job, ValueFits
<1>2. Goes(d, new) /\ changes' = changes + 1 /\ changes < MaxChanges /\ UNCHANGED Tables
  BY DEF Change, Tables
<1>3. overlap' \in BOOLEAN
  OBVIOUS
<1>4. RestOK'
  BY <1>2, <1>3, AccountsAssumption DEF RestOK, TypeInv, TypeOK, AccountsAssumption
<1> HIDE DEF new
<1>5. FitsIn(new, Len(tokens), Len(resets))
  BY <1>1, Lengths DEF FitsIn, TypeInv
<1> QED BY <1>1, <1>2, <1>4, <1>5, MovesOnly DEF Storing

LEMMA MarkTypes ==
  ASSUME TypeInv, NEW d \in Desks, MarkResetTokenUsed(d)
  PROVE  TypeInv'
<1>1. job[d].key \in 1..Len(resets) /\ ValueFits(job[d])
  BY DEF MarkResetTokenUsed, TypeInv, Fits, FitsIn
<1>2. resets' \in Seq(Reset) /\ Len(resets') = Len(resets)
  <2>1. resets \in Seq(Reset) /\ resets[job[d].key] \in Reset
    BY <1>1, Lengths DEF TypeInv, TypeOK
  <2>2. [resets[job[d].key] EXCEPT !.state = "used"] \in Reset
    BY <2>1 DEF Reset
  <2>3. resets' = [resets EXCEPT ![job[d].key] = [resets[job[d].key] EXCEPT !.state = "used"]]
    BY DEF MarkResetTokenUsed
  <2> QED BY <1>1, <2>1, <2>2, <2>3, ExceptSeq
<1>3. RestOK' /\ tokens' = tokens /\ Len(resets) <= MaxResets /\ tokens \in Seq(Token)
        /\ Len(tokens) <= MaxTokens
  BY DEF MarkResetTokenUsed, Counters, History, RestOK, TypeInv, TypeOK
<1>4. PICK new \in Job : /\ job' = [job EXCEPT ![d] = new]
                         /\ FitsIn(new, Len(tokens), Len(resets)) /\ new.at \notin Storing
  <2>1. CASE To(d, "load")
    <3> DEFINE new == [job[d] EXCEPT !.at = "load"]
    <3>1. /\ new \in Job /\ new.at = "load" /\ new.key = job[d].key
          /\ new.column = job[d].column /\ new.value = job[d].value
      BY DEF TypeInv, TypeOK, Job
    <3>2. job' = [job EXCEPT ![d] = new]
      BY <2>1 DEF To, Goes
    <3> HIDE DEF new
    <3>3. ValueFits(new)
      BY <3>1, <1>1, Zenon DEF ValueFits
    <3>4. FitsIn(new, Len(tokens), Len(resets))
      BY <3>1, <3>3, <1>1 DEF FitsIn
    <3> QED BY <3>1, <3>2, <3>4 DEF Storing
  <2>2. CASE Leaves(d)
    <3>1. Idle \in Job /\ Idle.at = "idle" /\ FitsIn(Idle, Len(tokens), Len(resets))
      BY IdleIs, Lengths DEF TypeInv, TypeOK
    <3> QED BY <2>2, <3>1 DEF Leaves, Goes, Storing
  <2> QED BY <2>1, <2>2 DEF MarkResetTokenUsed
<1>5. job' \in [Desks -> Job] /\ Fits' /\ Room'
  BY <1>2, <1>3, <1>4, Moves
<1> QED BY <1>2, <1>3, <1>5 DEF TypeInv, TypeOK, RestOK

\* Every column takes a value of its own type.
LEMMA ColumnFits ==
  ASSUME NEW row \in Row, NEW j, ValueFits(j)
  PROVE  [row EXCEPT ![j.column] = j.value] \in Row
<1>1. CASE j.column = "role" /\ j.value \in Roles
  BY <1>1 DEF Row
<1>2. CASE j.column = "active" /\ j.value \in {"yes", "no"}
  BY <1>2 DEF Row
<1>3. CASE j.column = "password" /\ j.value \in Passwords
  BY <1>3 DEF Row
<1> QED BY <1>1, <1>2, <1>3 DEF ValueFits

LEMMA UpdateUserTypes ==
  ASSUME TypeInv, NEW d \in Desks, UpdateUser(d)
  PROVE  TypeInv'
<1>1. job[d].key \in 0..Len(resets) /\ ValueFits(job[d]) /\ job[d].row \in Row
  BY DEF UpdateUser, TypeInv, TypeOK, Fits, FitsIn, Job
<1>2. user' \in Row /\ asked' \in Row
  BY <1>1, ColumnFits DEF UpdateUser, TypeInv, TypeOK
<1>3. resets' \in Seq(Reset) /\ Len(resets') = Len(resets)
  <2>1. CASE job[d].key = 0
    BY <2>1 DEF UpdateUser, TypeInv, TypeOK
  <2>2. CASE job[d].key # 0
    <3>1. job[d].key \in 1..Len(resets) /\ resets \in Seq(Reset) /\ resets[job[d].key] \in Reset
      BY <1>1, <2>2, Lengths DEF TypeInv, TypeOK
    <3>2. [resets[job[d].key] EXCEPT !.writes = @ + 1] \in Reset
      BY <3>1 DEF Reset
    <3>3. resets' = [resets EXCEPT ![job[d].key] = [resets[job[d].key] EXCEPT !.writes = @ + 1]]
      BY <2>2 DEF UpdateUser
    <3> QED BY <3>1, <3>2, <3>3, ExceptSeq
  <2> QED BY <2>1, <2>2
<1>4. Idle \in Job /\ Idle.at \notin Storing /\ FitsIn(Idle, Len(tokens), Len(resets))
  BY IdleIs, Lengths DEF TypeInv, TypeOK, Storing
<1>5. job' = [job EXCEPT ![d] = Idle] /\ tokens' = tokens
  BY DEF UpdateUser, Leaves, Goes
<1>6. job' \in [Desks -> Job] /\ Fits' /\ Room'
  BY <1>3, <1>4, <1>5, Moves
<1>7. RestOK'
  BY <1>2 DEF UpdateUser, Counters, RestOK, TypeInv, TypeOK
<1> QED BY <1>3, <1>5, <1>6, <1>7 DEF TypeInv, TypeOK, RestOK

-----------------------------------------------------------------------------
(***************************************************************************)
(* The steps that write refresh_tokens.                                    *)
(***************************************************************************)
\* Tokens only lose what they can: the same tokens, of the same logins,
\* and none comes to life.
OnlyFade ==
  /\ tokens' \in Seq(Token) /\ Len(tokens') = Len(tokens)
  /\ \A t \in 1..Len(tokens) :
       /\ tokens'[t].root = tokens[t].root
       /\ tokens'[t].state = "live" => tokens[t].state = "live"

LEMMA RevokedIs ==
  ASSUME NEW token \in Token
  PROVE  /\ Revoked(token) \in Token /\ Revoked(token).state # "live"
         /\ Revoked(token).root = token.root
  BY DEF Revoked, Token

LEMMA OneFades ==
  ASSUME TypeInv, NEW k \in 1..Len(tokens), NEW faded \in Token,
         faded.root = tokens[k].root, faded.state # "live",
         tokens' = [tokens EXCEPT ![k] = faded]
  PROVE  OnlyFade /\ tokens'[k].state # "live"
<1>1. tokens \in Seq(Token)
  BY DEF TypeInv, TypeOK
<1>2. tokens' \in Seq(Token) /\ Len(tokens') = Len(tokens)
  BY <1>1, ExceptSeq
<1>3. \A t \in 1..Len(tokens) : tokens'[t] = IF t = k THEN faded ELSE tokens[t]
  BY <1>1, Lengths DEF TypeInv
<1> QED BY <1>2, <1>3 DEF OnlyFade

LEMMA RevokeFades ==
  ASSUME TypeInv, NEW d \in Desks, RevokeRefreshToken(d)
  PROVE  /\ OnlyFade /\ job[d].key \in 1..Len(tokens)
         /\ tokens'[job[d].key].state # "live"
<1>1. job[d].key \in 1..Len(tokens)
  BY DEF RevokeRefreshToken, TypeInv, Fits, FitsIn
<1>2. tokens[job[d].key] \in Token
  BY <1>1, Lengths DEF TypeInv
<1>3. tokens' = [tokens EXCEPT ![job[d].key] = Revoked(tokens[job[d].key])]
  BY DEF RevokeRefreshToken
<1> QED BY <1>1, <1>2, <1>3, RevokedIs, OneFades

LEMMA ExpiryFades ==
  ASSUME TypeInv, NEW t \in 1..MaxTokens, TokenExpires(t)
  PROVE  OnlyFade /\ t \in 1..Len(tokens) /\ tokens'[t].state = "expired"
<1> DEFINE faded == [tokens[t] EXCEPT !.state = "expired"]
<1>1. t \in 1..Len(tokens) /\ tokens[t] \in Token
  BY Lengths DEF TokenExpires, TypeInv
<1>2. /\ faded \in Token /\ faded.root = tokens[t].root
      /\ faded.state = "expired"
  BY <1>1 DEF Token
<1>3. tokens' = [tokens EXCEPT ![t] = faded]
  BY DEF TokenExpires
<1>4. tokens'[t] = faded
  BY <1>1, <1>3, Lengths DEF TypeInv
<1> HIDE DEF faded
<1> QED BY <1>1, <1>2, <1>3, <1>4, OneFades

LEMMA LogoutFades ==
  ASSUME TypeInv, Logout
  PROVE  /\ OnlyFade /\ lastOut' = Len(tokens)
         /\ \A t \in 1..Len(tokens) : tokens'[t].state # "live"
<1>1. /\ tokens' = [t \in 1..Len(tokens) |-> Revoked(tokens[t])]
      /\ Len(tokens) \in Nat /\ \A t \in 1..Len(tokens) : tokens[t] \in Token
  BY Lengths DEF Logout, TypeInv
<1>2. \A t \in 1..Len(tokens) : tokens'[t] = Revoked(tokens[t])
  BY <1>1
<1>3. \A t \in 1..Len(tokens) : Revoked(tokens[t]) \in Token
  BY <1>1, RevokedIs
<1>4. tokens' \in Seq(Token) /\ Len(tokens') = Len(tokens)
  BY <1>1, <1>3, IsASeq
<1> QED BY <1>1, <1>2, <1>4, RevokedIs DEF OnlyFade, Logout

\* A token is stored behind the others, for the login of the one it replaces.
LEMMA StoreAppends ==
  ASSUME TypeInv, NEW d \in Desks, StoreRefreshToken(d)
  PROVE  LET n == Len(tokens)
             k == job[d].key
         IN  /\ k \in 0..n /\ n < MaxTokens
             /\ tokens' \in Seq(Token) /\ Len(tokens') = n + 1
             /\ \A t \in 1..n : tokens'[t] = tokens[t]
             /\ tokens'[n + 1] = [state |-> "live",
                                  root |-> IF k = 0 THEN n + 1 ELSE tokens[k].root]
<1> DEFINE n == Len(tokens)
           k == job[d].key
           new == [state |-> "live", root |-> IF k = 0 THEN n + 1 ELSE tokens[k].root]
<1>1. k \in 0..n /\ n \in Nat /\ tokens \in Seq(Token) /\ DOMAIN tokens = 1..n
  BY Lengths DEF StoreRefreshToken, TypeInv, TypeOK, Fits, FitsIn
<1>2. n < MaxTokens
  <2>1. d \in Pending
    BY DEF StoreRefreshToken, Pending, Storing
  <2>2. IsFiniteSet(Pending) /\ Cardinality(Pending) \in Nat
    BY PendingIs, AccountsAssumption
  <2>3. Cardinality(Pending) # 0
    BY <2>1, <2>2, FS_EmptySet
  <2> QED BY <1>1, <2>2, <2>3, AccountsAssumption DEF TypeInv, Room, AccountsAssumption
<1>3. new \in Token
  <2>1. (IF k = 0 THEN n + 1 ELSE tokens[k].root) \in 1..MaxTokens
    <3>1. CASE k = 0
      BY <3>1, <1>1, <1>2, AccountsAssumption DEF AccountsAssumption
    <3>2. CASE k # 0
      <4>1. tokens[k] \in Token
        BY <3>2, <1>1, Lengths DEF TypeInv
      <4>2. tokens[k].root \in 1..MaxTokens
        BY <4>1 DEF Token
      <4> QED BY <3>2, <4>2
    <3> QED BY <3>1, <3>2
  <2> QED BY <2>1 DEF Token
<1>4. tokens' = Append(tokens, new)
  BY DEF StoreRefreshToken
<1> HIDE DEF new
<1>5. /\ tokens' \in Seq(Token) /\ Len(tokens') = n + 1
      /\ \A t \in 1..n : tokens'[t] = tokens[t]
      /\ tokens'[n + 1] = new
  BY <1>1, <1>3, <1>4, AppendProperties
<1> QED BY <1>1, <1>2, <1>5 DEF new

LEMMA StoreTypes ==
  ASSUME TypeInv, NEW d \in Desks, StoreRefreshToken(d)
  PROVE  TypeInv'
<1> DEFINE n == Len(tokens)
<1>1. /\ n \in Nat /\ n < MaxTokens /\ tokens' \in Seq(Token) /\ Len(tokens') = n + 1
  BY StoreAppends, Lengths DEF TypeInv
<1>2. Idle \in Job /\ Idle.at \notin Storing /\ FitsIn(Idle, n + 1, Len(resets))
  BY <1>1, IdleIs, Lengths DEF TypeInv, TypeOK, Storing
<1>3. job' = [job EXCEPT ![d] = Idle] /\ resets' = resets
  BY DEF StoreRefreshToken, Leaves, Goes
<1>4. job' \in [Desks -> Job]
  BY <1>2, <1>3 DEF TypeInv, TypeOK
<1>5. Fits'
  <2> SUFFICES ASSUME NEW e \in Desks
               PROVE  FitsIn(job'[e], n + 1, Len(resets))
    BY <1>1, <1>3, Zenon DEF Fits, FitsIn, ValueFits
  <2>1. CASE e = d
    BY <2>1, <1>2, <1>3 DEF TypeInv, TypeOK
  <2>2. CASE e # d
    <3>1. job'[e] = job[e] /\ FitsIn(job[e], n, Len(resets)) /\ job[e].key \in Nat
      BY <2>2, <1>3 DEF TypeInv, TypeOK, Fits, Job
    <3> QED BY <3>1, <1>1 DEF FitsIn
  <2> QED BY <2>1, <2>2
<1>6. Room'
  <2>1. Pending' = Pending \ {d} /\ d \in Pending
    BY <1>2, <1>3 DEF Pending, TypeInv, TypeOK, StoreRefreshToken, Storing
  <2>2. IsFiniteSet(Pending) /\ Cardinality(Pending) \in Nat
    BY PendingIs, AccountsAssumption
  <2>3. Cardinality(Pending') = Cardinality(Pending) - 1
    BY <2>1, <2>2, FS_RemoveElement
  <2> QED BY <1>1, <2>2, <2>3, AccountsAssumption DEF TypeInv, Room, AccountsAssumption
<1>7. RestOK'
  BY DEF StoreRefreshToken, Counters, History, RestOK, TypeInv, TypeOK
<1>8. Len(tokens') <= MaxTokens
  BY <1>1, AccountsAssumption DEF AccountsAssumption
<1> QED BY <1>1, <1>3, <1>4, <1>5, <1>6, <1>7, <1>8 DEF TypeInv, TypeOK, RestOK

LEMMA RevokeTypes ==
  ASSUME TypeInv, NEW d \in Desks, RevokeRefreshToken(d)
  PROVE  TypeInv'
<1> DEFINE new == [job[d] EXCEPT !.at = "store"]
<1>1. tokens' \in Seq(Token) /\ Len(tokens') = Len(tokens) /\ resets' = resets
  BY RevokeFades DEF OnlyFade, RevokeRefreshToken
<1>2. new \in Job /\ new.at = "store" /\ new.key = job[d].key
  BY DEF TypeInv, TypeOK, Job
<1>3. job' = [job EXCEPT ![d] = new] /\ job[d].at \in Storing
  BY DEF RevokeRefreshToken, To, Goes, Storing
<1> HIDE DEF new
<1>4. FitsIn(new, Len(tokens), Len(resets))
  BY <1>2, RevokeFades, Lengths DEF FitsIn, TypeInv
<1>5. job' \in [Desks -> Job] /\ Fits' /\ Room'
  BY <1>1, <1>2, <1>3, <1>4, Moves
<1>6. RestOK'
  BY DEF RevokeRefreshToken, Counters, History, RestOK, TypeInv, TypeOK
<1> QED BY <1>1, <1>5, <1>6 DEF TypeInv, TypeOK, RestOK

\* The steps that are no handler's.
LEMMA OtherTypes ==
  ASSUME TypeInv,
         \/ Logout
         \/ \E t \in 1..MaxTokens : TokenExpires(t)
         \/ RequestPasswordReset
         \/ \E r \in 1..MaxResets : ResetExpires(r)
  PROVE  TypeInv'
<1>1. tokens' \in Seq(Token) /\ Len(tokens') = Len(tokens)
  <2>1. CASE Logout
    BY <2>1, LogoutFades DEF OnlyFade
  <2>2. CASE \E t \in 1..MaxTokens : TokenExpires(t)
    BY <2>2, ExpiryFades DEF OnlyFade
  <2>3. CASE RequestPasswordReset \/ \E r \in 1..MaxResets : ResetExpires(r)
    BY <2>3 DEF RequestPasswordReset, ResetExpires, TypeInv, TypeOK
  <2> QED BY <2>1, <2>2, <2>3
<1>2. resets' \in Seq(Reset) /\ Len(resets') \in Nat /\ Len(resets') >= Len(resets)
        /\ Len(resets') <= MaxResets
  <2> USE Lengths, AccountsAssumption DEF TypeInv, AccountsAssumption
  <2>1. CASE RequestPasswordReset
    <3> DEFINE new == [state |-> "open", writes |-> 0]
    <3>1. new \in Reset
      BY DEF Reset
    <3>2. resets' = Append(resets, new) /\ resets \in Seq(Reset) /\ Len(resets) < MaxResets
      BY <2>1 DEF RequestPasswordReset, TypeOK
    <3> HIDE DEF new
    <3>3. resets' \in Seq(Reset) /\ Len(resets') = Len(resets) + 1
      BY <3>1, <3>2, AppendProperties
    <3> QED BY <3>2, <3>3
  <2>2. CASE \E r \in 1..MaxResets : ResetExpires(r)
    <3>1. PICK r \in 1..MaxResets : ResetExpires(r)
      BY <2>2
    <3> DEFINE new == [resets[r] EXCEPT !.state = "expired"]
    <3>2. r \in 1..Len(resets) /\ resets[r] \in Reset /\ resets \in Seq(Reset)
      BY <3>1 DEF ResetExpires, TypeOK
    <3>3. new \in Reset
      BY <3>2 DEF Reset
    <3>4. resets' = [resets EXCEPT ![r] = new]
      BY <3>1 DEF ResetExpires
    <3> HIDE DEF new
    <3>5. resets' \in Seq(Reset) /\ Len(resets') = Len(resets)
      BY <3>2, <3>3, <3>4, ExceptSeq
    <3> QED BY <3>5 DEF TypeOK
  <2>3. CASE Logout \/ \E t \in 1..MaxTokens : TokenExpires(t)
    <3>1. resets' = resets
      BY <2>3 DEF Logout, TokenExpires
    <3> QED BY <3>1 DEF TypeOK
  <2> QED BY <2>1, <2>2, <2>3
<1>3. job' = job /\ UNCHANGED <<user, Counters, asked, shared, overlap>>
  BY DEF Logout, TokenExpires, RequestPasswordReset, ResetExpires, History, Counters
<1>4. lastOut' \in 0..MaxTokens
  <2>1. CASE Logout
    BY <2>1, LogoutFades, Lengths DEF TypeInv, TypeOK
  <2>2. CASE ~Logout
    <3>1. lastOut' = lastOut
      BY <2>2 DEF TokenExpires, RequestPasswordReset, ResetExpires, History
    <3> QED BY <3>1 DEF TypeInv, TypeOK
  <2> QED BY <2>1, <2>2
<1>5. Fits' /\ Room'
  BY <1>1, <1>2, <1>3, Rests
<1> QED BY <1>1, <1>2, <1>3, <1>4, <1>5 DEF TypeInv, TypeOK, Counters

LEMMA TypeStart == Init => TypeInv
<1> SUFFICES ASSUME Init PROVE TypeInv
    OBVIOUS
<1>1. Len(tokens) = 0 /\ Len(resets) = 0 /\ tokens \in Seq(Token) /\ resets \in Seq(Reset)
  BY EmptySeq DEF Init
<1>2. user \in Row /\ Idle \in Job /\ Idle.at = "idle" /\ FitsIn(Idle, 0, 0)
  BY IdleIs DEF Init
<1>3. TypeOK
  <2>1. job \in [Desks -> Job] /\ asked \in Row
    BY <1>2 DEF Init
  <2>2. /\ Len(tokens) <= MaxTokens /\ Len(resets) <= MaxResets
        /\ changes \in 0..MaxChanges /\ faults \in 0..MaxFaults /\ lastOut \in 0..MaxTokens
    BY <1>1, AccountsAssumption DEF Init, AccountsAssumption
  <2>3. overlap \in BOOLEAN /\ shared \subseteq {"login", "reset"} \X Nat
    BY DEF Init
  <2> QED BY <1>1, <1>2, <2>1, <2>2, <2>3 DEF TypeOK
<1>4. Fits
  BY <1>1, <1>2 DEF Init, Fits
<1>5. Room
  <2>1. Pending = {}
    BY <1>2 DEF Init, Pending, Storing
  <2> QED BY <1>1, <2>1, FS_EmptySet, AccountsAssumption DEF Room, AccountsAssumption
<1> QED BY <1>3, <1>4, <1>5 DEF TypeInv

LEMMA TypeStep == TypeInv /\ [Next]_vars => TypeInv'
<1> SUFFICES ASSUME TypeInv, [Next]_vars PROVE TypeInv'
    OBVIOUS
<1>1. ASSUME NEW d \in Desks, NEW p \in Passwords, Login(d, p) PROVE TypeInv'
  BY <1>1, LoginTypes
<1>2. ASSUME NEW d \in Desks,
             \/ UpdateLastLogin(d) \/ StoreRefreshToken(d) \/ RevokeRefreshToken(d)
             \/ MarkResetTokenUsed(d) \/ LoadUser(d) \/ UpdateUser(d) \/ StatementFails(d)
      PROVE  TypeInv'
  BY <1>2, LastLoginTypes, StoreTypes, RevokeTypes, MarkTypes, LoadUserTypes,
     UpdateUserTypes, StatementFailsTypes
<1>3. ASSUME NEW d \in Desks, NEW k \in 1..MaxTokens, GetRefreshToken(d, k) PROVE TypeInv'
  BY <1>3, GetRefreshTokenTypes
<1>4. ASSUME NEW d \in Desks, NEW r \in 1..MaxResets, NEW p \in Passwords,
             GetPasswordResetToken(d, r, p)
      PROVE  TypeInv'
  BY <1>4, GetResetTokenTypes
<1>5. ASSUME NEW d \in Desks, NEW role \in Roles, UpdateUserRole(d, role) PROVE TypeInv'
  BY <1>5, ChangeTypes DEF UpdateUserRole
<1>6. ASSUME NEW d \in Desks, NEW active \in {"yes", "no"}, ToggleUserActive(d, active)
      PROVE  TypeInv'
  BY <1>6, ChangeTypes DEF ToggleUserActive
<1>7. CASE UNCHANGED vars
  <2>1. TypeOK'
    BY <1>7 DEF vars, TypeInv, TypeOK
  <2>2. Fits' /\ Room'
    <3>1. job' = job /\ tokens' = tokens /\ resets' = resets
      BY <1>7 DEF vars
    <3> QED BY <3>1, Lengths, Rests DEF TypeInv
  <2> QED BY <2>1, <2>2 DEF TypeInv
<1>8. CASE Next
  BY <1>1, <1>2, <1>3, <1>4, <1>5, <1>6, <1>8, OtherTypes DEF Next
<1> QED BY <1>7, <1>8

\* The tables and the handlers are well formed, whatever runs together: in
\* particular no handler writes a value of the wrong column into the users row.
THEOREM TypeCorrect == Spec => []TypeOK
<1>1. TypeInv => TypeOK
  BY DEF TypeInv
<1> QED BY <1>1, TypeStart, TypeStep, PTL DEF Spec

-----------------------------------------------------------------------------
(***************************************************************************)
(* Rotation.  TokensRotate speaks of the tokens; what keeps it are the     *)
(* handlers between their read of a token and their insert of its          *)
(* successor: of a login there is one, and while it is there the login has *)
(* no other live token than the one the handler is about to revoke.        *)
(***************************************************************************)
Live(t) == t \in 1..Len(tokens) /\ tokens[t].state = "live"
Excused(t) == <<"login", tokens[t].root>> \in shared
Refreshes(d, k) ==
  job[d].at \in {"revoke", "store"} /\ job[d].key = k /\ k \in 1..Len(tokens)

\* A login's first token names it.
RootsFirst == \A t \in 1..Len(tokens) : tokens[t].root \in 1..t
OneLive ==
  \A t, u \in 1..Len(tokens) :
    Live(t) /\ Live(u) /\ tokens[t].root = tokens[u].root => t = u \/ Excused(t)
RefresherHolds ==
  \A d \in Desks, k, t \in 1..Len(tokens) :
    Refreshes(d, k) /\ Live(t) /\ tokens[k].root = tokens[t].root
      => (job[d].at = "revoke" /\ k = t) \/ Excused(t)
OneRefresher ==
  \A d, e \in Desks, k, l \in 1..Len(tokens) :
    Refreshes(d, k) /\ Refreshes(e, l) /\ tokens[k].root = tokens[l].root
      => d = e \/ Excused(k)

\* The login of token t still works, or there is a reason.
Works(t) ==
  \/ tokens[t].root <= lastOut
  \/ faults > 0
  \/ \E u \in 1..Len(tokens) :
       tokens[u].root = tokens[t].root /\ tokens[u].state \in {"live", "expired"}
  \/ \E d \in Desks, k \in 1..Len(tokens) :
       job[d].at = "store" /\ job[d].key = k /\ tokens[k].root = tokens[t].root
AllWork == \A t \in 1..Len(tokens) : Works(t)

Past == lastOut \in 0..Len(tokens) /\ \A t \in 1..lastOut : ~Live(t)

Succession == RootsFirst /\ OneLive /\ RefresherHolds /\ OneRefresher
RotationInv == TypeInv /\ Succession /\ AllWork /\ Past

\* What the invariant says of tokens, TokensRotate says of logins.
LEMMA RotationImplies == RotationInv => TokensRotate /\ LogoutEndsAll
<1> SUFFICES ASSUME RotationInv PROVE TokensRotate /\ LogoutEndsAll
    OBVIOUS
<1>1. DOMAIN tokens = 1..Len(tokens) /\ Len(tokens) \in Nat
  BY Lengths DEF RotationInv, TypeInv
<1>2. OneTokenPerLogin
  <2> SUFFICES ASSUME NEW login \in Logins, <<"login", login>> \notin shared
               PROVE  Cardinality(LiveOf(login)) <= 1
    BY DEF OneTokenPerLogin
  <2>1. \A t, u \in LiveOf(login) : t = u
    BY <1>1 DEF LiveOf, RotationInv, Succession, OneLive, Live, Excused
  <2>2. CASE LiveOf(login) = {}
    BY <2>2, FS_EmptySet
  <2>3. CASE LiveOf(login) # {}
    <3>1. PICK t : t \in LiveOf(login)
      BY <2>3
    <3>2. LiveOf(login) = {t}
      BY <2>1, <3>1
    <3> QED BY <3>2, FS_Singleton
  <2> QED BY <2>2, <2>3
<1>3. LoginKept
  <2> SUFFICES ASSUME NEW t \in 1..Len(tokens)
               PROVE  LET login == tokens[t].root IN
                        \/ LiveOf(login) # {} \/ login <= lastOut \/ faults > 0
                        \/ \E u \in Descendants(login) : tokens[u].state = "expired"
                        \/ \E d \in At("store") : job[d].key \in Descendants(login)
    BY <1>1 DEF LoginKept, Logins
  <2>1. Works(t)
    BY DEF RotationInv, AllWork
  <2> QED BY <1>1, <2>1 DEF Works, LiveOf, Descendants, At
<1>4. LogoutEndsAll
  BY <1>1 DEF LogoutEndsAll, RotationInv, Past, Live
<1> QED BY <1>2, <1>3, <1>4 DEF TokensRotate

(***************************************************************************)
(* Steps that leave the tokens alone.                                      *)
(***************************************************************************)
\* No handler begins or goes on with a refresh, though one may give up.
Aside ==
  /\ tokens' = tokens /\ lastOut' = lastOut /\ shared \subseteq shared'
  /\ \A e \in Desks : \A k \in 1..Len(tokens) :
       job'[e].at \in {"revoke", "store"} /\ job'[e].key = k => job'[e] = job[e]

LEMMA AsideKeeps ==
  ASSUME Succession, Past, Aside
  PROVE  Succession' /\ Past'
<1>1. \A e \in Desks, k \in 1..Len(tokens) :
        Refreshes(e, k)' => Refreshes(e, k) /\ job'[e] = job[e]
  BY DEF Aside, Refreshes
<1>2. \A t \in 1..Len(tokens) : (Excused(t) => Excused(t)') /\ (Live(t)' <=> Live(t))
  BY DEF Aside, Excused, Live
<1>3. tokens' = tokens /\ lastOut' = lastOut
  BY DEF Aside
<1>4. RootsFirst' /\ Past'
  BY <1>3 DEF Succession, RootsFirst, Past, Live
<1>5. OneLive'
  BY <1>2, <1>3 DEF Succession, OneLive
<1>6. RefresherHolds'
  BY <1>1, <1>2, <1>3 DEF Succession, RefresherHolds
<1>7. OneRefresher'
  BY <1>1, <1>2, <1>3 DEF Succession, OneRefresher
<1> QED BY <1>4, <1>5, <1>6, <1>7 DEF Succession

\* The logins work on, if no handler that was about to store gives up.
LEMMA AsideWorks ==
  ASSUME AllWork, tokens' = tokens, lastOut' = lastOut, faults' = faults,
         \A e \in Desks : job[e].at = "store" => job'[e] = job[e]
  PROVE  AllWork'
<1> SUFFICES ASSUME NEW t \in 1..Len(tokens), Works(t) PROVE Works(t)'
    BY DEF AllWork
<1> QED BY DEF Works

(***************************************************************************)
(* Steps after which fewer tokens live.                                    *)
(***************************************************************************)
\* A handler that has gone on from its revocation has revoked its token.
LEMMA FadeKeeps ==
  ASSUME TypeInv, Succession, OnlyFade, shared' = shared,
         \A e \in Desks :
           \/ job'[e] = job[e]
           \/ /\ job[e].at = "revoke" /\ job'[e] = [job[e] EXCEPT !.at = "store"]
              /\ tokens'[job[e].key].state # "live"
  PROVE  Succession'
<1>1. /\ Len(tokens') = Len(tokens)
      /\ \A t \in 1..Len(tokens) : tokens'[t].root = tokens[t].root
  BY DEF OnlyFade
<1>2. \A t \in 1..Len(tokens) : (Live(t)' => Live(t)) /\ (Excused(t)' <=> Excused(t))
  BY DEF OnlyFade, Live, Excused
<1>3. \A e \in Desks : job[e] \in Job
  BY DEF TypeInv, TypeOK
<1>4. ASSUME NEW e \in Desks, NEW k \in 1..Len(tokens), Refreshes(e, k)'
      PROVE  /\ Refreshes(e, k) /\ job'[e].row = job[e].row
             /\ job'[e].at = job[e].at \/ ~Live(k)'
  <2>1. CASE job'[e] = job[e]
    BY <2>1, <1>4, <1>1 DEF Refreshes
  <2>2. CASE job'[e] # job[e]
    <3>1. /\ job[e].at = "revoke" /\ job'[e].key = job[e].key /\ job'[e].row = job[e].row
          /\ tokens'[job[e].key].state # "live"
      BY <2>2, <1>3 DEF Job
    <3> QED BY <3>1, <1>4, <1>1 DEF Refreshes, Live
  <2> QED BY <2>1, <2>2
<1>5. RootsFirst'
  BY <1>1 DEF Succession, RootsFirst
<1>7. OneLive'
  BY <1>1, <1>2 DEF Succession, OneLive
<1>8. RefresherHolds'
  <2> SUFFICES ASSUME NEW e \in Desks, NEW k \in 1..Len(tokens), NEW t \in 1..Len(tokens),
                      Refreshes(e, k)', Live(t)', tokens[k].root = tokens[t].root, ~Excused(t)
               PROVE  job'[e].at = "revoke" /\ k = t
    BY <1>1, <1>2 DEF RefresherHolds
  <2>1. job[e].at = "revoke" /\ k = t
    BY <1>2, <1>4 DEF Succession, RefresherHolds
  <2> QED BY <2>1, <1>4
<1>9. OneRefresher'
  BY <1>1, <1>2, <1>4 DEF Succession, OneRefresher
<1> QED BY <1>5, <1>7, <1>8, <1>9 DEF Succession

LEMMA RevokeKeeps ==
  ASSUME RotationInv, NEW d \in Desks, RevokeRefreshToken(d)
  PROVE  Succession' /\ AllWork' /\ Past'
<1> DEFINE k == job[d].key
<1>1. OnlyFade /\ k \in 1..Len(tokens) /\ tokens'[k].state # "live" /\ job[d].at = "revoke"
  BY RevokeFades DEF RotationInv, RevokeRefreshToken
<1>2. /\ job' = [job EXCEPT ![d] = [job[d] EXCEPT !.at = "store"]]
      /\ shared' = shared /\ lastOut' = lastOut /\ faults' = faults
  BY DEF RevokeRefreshToken, To, Goes, History, Counters
<1>3. job \in [Desks -> Job]
  BY DEF RotationInv, TypeInv, TypeOK
<1>4. Succession'
  <2>1. \A e \in Desks :
          \/ job'[e] = job[e]
          \/ /\ job[e].at = "revoke" /\ job'[e] = [job[e] EXCEPT !.at = "store"]
             /\ tokens'[job[e].key].state # "live"
    BY <1>1, <1>2, <1>3
  <2> QED BY <1>1, <1>2, <2>1, FadeKeeps DEF RotationInv
<1>5. Past'
  BY <1>1, <1>2 DEF RotationInv, Past, OnlyFade, Live
<1>6. AllWork'
  <2> SUFFICES ASSUME NEW t \in 1..Len(tokens) PROVE Works(t)'
    BY <1>1 DEF AllWork, OnlyFade
  <2>1. Len(tokens') = Len(tokens) /\ \A u \in 1..Len(tokens) : tokens'[u].root = tokens[u].root
    BY <1>1 DEF OnlyFade
  <2>2. job'[d].at = "store" /\ job'[d].key = k
    BY <1>2, <1>3 DEF Job
  <2>3. CASE tokens[t].root = tokens[k].root
    BY <1>1, <2>1, <2>2, <2>3 DEF Works
  <2>4. CASE tokens[t].root # tokens[k].root
    <3>1. \A u \in 1..Len(tokens) : tokens[u].root = tokens[t].root => tokens'[u] = tokens[u]
      <4>1. tokens' = [tokens EXCEPT ![k] = Revoked(tokens[k])] /\ DOMAIN tokens = 1..Len(tokens)
        BY Lengths DEF RevokeRefreshToken, RotationInv, TypeInv
      <4> QED BY <4>1, <2>4
    <3>2. \A e \in Desks : job[e].at = "store" => job'[e] = job[e]
      BY <1>1, <1>2, <1>3
    <3>3. Works(t)
      BY DEF RotationInv, AllWork
    <3> QED BY <1>2, <2>1, <3>1, <3>2, <3>3 DEF Works
  <2> QED BY <2>3, <2>4
<1> QED BY <1>4, <1>5, <1>6

LEMMA LogoutKeeps ==
  ASSUME RotationInv, Logout
  PROVE  Succession' /\ AllWork' /\ Past'
<1>1. OnlyFade /\ lastOut' = Len(tokens) /\ \A t \in 1..Len(tokens) : tokens'[t].state # "live"
  BY LogoutFades DEF RotationInv
<1>2. shared' = shared /\ job' = job
  BY DEF Logout
<1>3. Succession'
  BY <1>1, <1>2, FadeKeeps DEF RotationInv
<1>4. Past'
  BY <1>1, Lengths DEF Past, Live, OnlyFade, RotationInv, TypeInv
<1>5. AllWork'
  <2> SUFFICES ASSUME NEW t \in 1..Len(tokens) PROVE Works(t)'
    BY <1>1 DEF AllWork, OnlyFade
  <2>1. tokens'[t].root \in 1..t /\ Len(tokens) \in Nat
    BY <1>1, Lengths DEF OnlyFade, RotationInv, TypeInv, Succession, RootsFirst
  <2>2. tokens'[t].root <= lastOut'
    BY <1>1, <2>1
  <2> QED BY <2>2 DEF Works
<1> QED BY <1>3, <1>4, <1>5

LEMMA ExpiryKeeps ==
  ASSUME RotationInv, NEW k \in 1..MaxTokens, TokenExpires(k)
  PROVE  Succession' /\ AllWork' /\ Past'
<1>1. OnlyFade /\ k \in 1..Len(tokens) /\ tokens'[k].state = "expired"
  BY ExpiryFades DEF RotationInv
<1>2. shared' = shared /\ job' = job /\ lastOut' = lastOut /\ faults' = faults
  BY DEF TokenExpires, History, Counters
<1>3. Succession'
  BY <1>1, <1>2, FadeKeeps DEF RotationInv
<1>4. Past'
  BY <1>1, <1>2 DEF RotationInv, Past, OnlyFade, Live
<1>5. AllWork'
  <2> SUFFICES ASSUME NEW t \in 1..Len(tokens) PROVE Works(t)'
    BY <1>1 DEF AllWork, OnlyFade
  <2>1. Len(tokens') = Len(tokens) /\ \A u \in 1..Len(tokens) : tokens'[u].root = tokens[u].root
    BY <1>1 DEF OnlyFade
  <2>2. CASE tokens[t].root = tokens[k].root
    BY <1>1, <2>1, <2>2 DEF Works
  <2>3. CASE tokens[t].root # tokens[k].root
    <3>1. \A u \in 1..Len(tokens) : tokens[u].root = tokens[t].root => tokens'[u] = tokens[u]
      <4>1. tokens' = [tokens EXCEPT ![k].state = "expired"] /\ DOMAIN tokens = 1..Len(tokens)
        BY Lengths DEF TokenExpires, RotationInv, TypeInv
      <4> QED BY <4>1, <2>3
    <3>2. Works(t)
      BY DEF RotationInv, AllWork
    <3> QED BY <1>2, <2>1, <3>1, <3>2 DEF Works
  <2> QED BY <2>2, <2>3
<1> QED BY <1>3, <1>4, <1>5

(***************************************************************************)
(* A refresh begins, and a token is stored.                                *)
(***************************************************************************)
\* Who reads a live token is alone with its login: another handler of that
\* login would have to hold the same token, and then the login is excused.
LEMMA GetKeeps ==
  ASSUME RotationInv, NEW d \in Desks, NEW k \in 1..MaxTokens, GetRefreshToken(d, k)
  PROVE  Succession' /\ AllWork' /\ Past'
<1> DEFINE new == [Idle EXCEPT !.at = "revoke", !.key = k]
<1>1. k \in 1..Len(tokens) /\ Live(k) /\ tokens[k] \in Token /\ job[d].at = "idle"
  BY Lengths DEF GetRefreshToken, Free, RotationInv, TypeInv, Live
<1>2. new.at = "revoke" /\ new.key = k
  BY IdleIs DEF RotationInv, TypeInv, TypeOK, Job
<1>3. job' = [job EXCEPT ![d] = new] /\ job \in [Desks -> Job]
  BY DEF GetRefreshToken, Goes, RotationInv, TypeInv, TypeOK
<1>4. /\ tokens' = tokens /\ lastOut' = lastOut /\ faults' = faults
      /\ shared \subseteq shared'
      /\ (\E e \in Desks : job[e].at = "revoke" /\ job[e].key = k)
           => <<"login", tokens[k].root>> \in shared'
  <2>1. tokens' = tokens /\ lastOut' = lastOut /\ faults' = faults
    BY DEF GetRefreshToken, Counters
  <2>2. shared' = IF \E e \in At("revoke") : job[e].key = k
                    THEN shared \cup {<<"login", tokens[k].root>>} ELSE shared
    BY DEF GetRefreshToken
  <2> QED BY <2>1, <2>2 DEF At
<1> HIDE DEF new
<1>5. \A e \in Desks, l \in 1..Len(tokens) :
        Refreshes(e, l)' => IF e = d THEN l = k ELSE Refreshes(e, l) /\ job'[e] = job[e]
  BY <1>2, <1>3, <1>4 DEF Refreshes
<1>6. \A t \in 1..Len(tokens) : (Excused(t) => Excused(t)') /\ (Live(t)' <=> Live(t))
  BY <1>4 DEF Excused, Live
<1>7. RootsFirst' /\ Past' /\ OneLive'
  BY <1>4, <1>6 DEF RotationInv, Succession, RootsFirst, Past, OneLive, Live
<1>9. RefresherHolds'
  <2> SUFFICES ASSUME NEW e \in Desks, NEW l \in 1..Len(tokens), NEW t \in 1..Len(tokens),
                      Refreshes(e, l)', Live(t)', tokens[l].root = tokens[t].root, ~Excused(t)'
               PROVE  job'[e].at = "revoke" /\ l = t
    BY <1>4 DEF RefresherHolds
  <2>1. CASE e = d
    BY <2>1, <1>1, <1>2, <1>3, <1>5, <1>6 DEF RotationInv, Succession, OneLive
  <2>2. CASE e # d
    BY <2>2, <1>5, <1>6 DEF RotationInv, Succession, RefresherHolds
  <2> QED BY <2>1, <2>2
<1>10. OneRefresher'
  <2>1. ASSUME NEW e \in Desks, NEW l \in 1..Len(tokens), e # d, Refreshes(e, l)',
               tokens[l].root = tokens[k].root
        PROVE  Excused(k)' /\ Excused(l)'
    <3>1. Refreshes(e, l)
      BY <2>1, <1>5
    <3>2. (job[e].at = "revoke" /\ l = k) \/ Excused(k)
      BY <2>1, <3>1, <1>1 DEF RotationInv, Succession, RefresherHolds
    <3>3. Excused(k)'
      BY <3>1, <3>2, <1>1, <1>4, <1>6 DEF Refreshes, Excused
    <3> QED BY <2>1, <3>3, <1>4 DEF Excused
  <2> SUFFICES ASSUME NEW e \in Desks, NEW f \in Desks,
                      NEW l \in 1..Len(tokens), NEW m \in 1..Len(tokens),
                      Refreshes(e, l)', Refreshes(f, m)', tokens[l].root = tokens[m].root,
                      e # f
               PROVE  Excused(l)'
    BY <1>4 DEF OneRefresher
  <2>2. CASE e = d
    BY <2>1, <2>2, <1>5
  <2>3. CASE f = d
    BY <2>1, <2>3, <1>5
  <2>4. CASE e # d /\ f # d
    BY <2>4, <1>5, <1>6 DEF RotationInv, Succession, OneRefresher
  <2> QED BY <2>2, <2>3, <2>4
<1>11. AllWork'
  <2>1. \A e \in Desks : job[e].at = "store" => job'[e] = job[e]
    BY <1>1, <1>3
  <2> QED BY <1>4, <2>1, AsideWorks DEF RotationInv
<1> QED BY <1>7, <1>9, <1>10, <1>11 DEF Succession

\* The successor takes the place its handler kept free.
LEMMA StoreKeeps ==
  ASSUME RotationInv, NEW d \in Desks, StoreRefreshToken(d)
  PROVE  Succession' /\ AllWork' /\ Past'
<1> DEFINE n == Len(tokens)
           k == job[d].key
           root == IF k = 0 THEN n + 1 ELSE tokens[k].root
<1>1. /\ k \in 0..n /\ n \in Nat /\ Len(tokens') = n + 1
      /\ \A t \in 1..n : tokens'[t] = tokens[t]
      /\ tokens'[n + 1] = [state |-> "live", root |-> root]
  BY StoreAppends, Lengths DEF RotationInv, TypeInv
<1>2. /\ job[d].at = "store" /\ job' = [job EXCEPT ![d] = Idle] /\ job \in [Desks -> Job]
      /\ Idle.at = "idle" /\ shared' = shared /\ lastOut' = lastOut /\ faults' = faults
  BY IdleIs DEF StoreRefreshToken, Leaves, Goes, RotationInv, TypeInv, TypeOK, History, Counters
<1>3. tokens'[n + 1].state = "live" /\ tokens'[n + 1].root = root
  BY <1>1
<1>4. /\ 1..Len(tokens') = 1..n \cup {n + 1} /\ n + 1 \notin 1..n
      /\ 1..Len(tokens') = 1..(n + 1)
  BY <1>1
<1>5. \A t \in 1..n : tokens[t].root \in 1..n /\ tokens[t].root \in 1..t
  BY <1>1 DEF RotationInv, Succession, RootsFirst
<1>6. root \in 1..(n + 1) /\ (k # 0 => k \in 1..n /\ root = tokens[k].root /\ root \in 1..n)
  BY <1>1, <1>5
<1> HIDE DEF root
<1>7. k # 0 => Refreshes(d, k)
  BY <1>2, <1>6 DEF Refreshes
<1>8. ASSUME NEW e \in Desks, NEW l \in 1..(n + 1), Refreshes(e, l)'
      PROVE  e # d /\ l \in 1..n /\ Refreshes(e, l) /\ job'[e] = job[e]
  <2>1. e # d /\ job'[e] = job[e]
    BY <1>8, <1>2 DEF Refreshes
  <2>2. job[e].key \in 0..n
    BY <2>1, <1>8 DEF Refreshes, RotationInv, TypeInv, Fits, FitsIn
  <2>3. l \in 1..n
    BY <2>1, <2>2, <1>1, <1>8 DEF Refreshes
  <2> QED BY <2>1, <2>3, <1>8 DEF Refreshes
<1>9. \A t \in 1..n : (Live(t)' <=> Live(t)) /\ (Excused(t)' <=> Excused(t))
  BY <1>1, <1>2, <1>4 DEF Live, Excused
\* No token of the login lives next to the new one, nor another refresh of it.
<1>10. \A t \in 1..n : Live(t) /\ tokens[t].root = root => Excused(t)
  <2>1. CASE k = 0
    BY <2>1, <1>4, <1>5 DEF root
  <2>2. CASE k # 0
    BY <2>2, <1>2, <1>6, <1>7 DEF RotationInv, Succession, RefresherHolds
  <2> QED BY <2>1, <2>2
<1>11. ASSUME NEW e \in Desks, NEW l \in 1..n, e # d, Refreshes(e, l), tokens[l].root = root
       PROVE  <<"login", root>> \in shared
  <2>1. CASE k = 0
    BY <2>1, <1>4, <1>5, <1>11 DEF root
  <2>2. CASE k # 0
    BY <2>2, <1>6, <1>7, <1>11 DEF RotationInv, Succession, OneRefresher, Excused
  <2> QED BY <2>1, <2>2
<1>12. RootsFirst'
  BY <1>1, <1>3, <1>4, <1>5, <1>6 DEF RootsFirst
<1>14. OneLive'
  <2> SUFFICES ASSUME NEW t \in 1..(n + 1), NEW u \in 1..(n + 1), t # u,
                      Live(t)', Live(u)', tokens'[t].root = tokens'[u].root
               PROVE  Excused(t)'
    BY <1>4 DEF OneLive
  <2>1. CASE t \in 1..n /\ u \in 1..n
    BY <2>1, <1>1, <1>9 DEF RotationInv, Succession, OneLive
  <2>2. CASE t \in 1..n /\ u = n + 1
    BY <2>2, <1>1, <1>3, <1>9, <1>10
  <2>3. CASE t = n + 1 /\ u \in 1..n
    <3>1. Excused(u) /\ tokens[u].root = root
      BY <2>3, <1>1, <1>3, <1>9, <1>10
    <3> QED BY <2>3, <3>1, <1>2, <1>3 DEF Excused
  <2> QED BY <2>1, <2>2, <2>3, <1>4
<1>15. RefresherHolds'
  <2> SUFFICES ASSUME NEW e \in Desks, NEW l \in 1..(n + 1), NEW t \in 1..(n + 1),
                      Refreshes(e, l)', Live(t)', tokens'[l].root = tokens'[t].root,
                      ~Excused(t)'
               PROVE  job'[e].at = "revoke" /\ l = t
    BY <1>4 DEF RefresherHolds
  <2>1. e # d /\ l \in 1..n /\ Refreshes(e, l) /\ job'[e] = job[e] /\ tokens'[l] = tokens[l]
    BY <1>1, <1>8
  <2>2. CASE t \in 1..n
    BY <2>1, <2>2, <1>1, <1>9 DEF RotationInv, Succession, RefresherHolds
  <2>3. CASE t = n + 1
    BY <2>1, <2>3, <1>2, <1>3, <1>11 DEF Excused
  <2> QED BY <2>2, <2>3, <1>4
<1>16. OneRefresher'
  <2> SUFFICES ASSUME NEW e \in Desks, NEW f \in Desks, NEW l \in 1..(n + 1), NEW m \in 1..(n + 1),
                      Refreshes(e, l)', Refreshes(f, m)', tokens'[l].root = tokens'[m].root
               PROVE  e = f \/ Excused(l)'
    BY <1>4 DEF OneRefresher
  <2>1. l \in 1..n /\ m \in 1..n /\ Refreshes(e, l) /\ Refreshes(f, m)
    BY <1>8
  <2> QED BY <2>1, <1>1, <1>9 DEF RotationInv, Succession, OneRefresher
<1>17. AllWork'
  <2> SUFFICES ASSUME NEW t \in 1..(n + 1) PROVE Works(t)'
    BY <1>4 DEF AllWork
  <2>1. CASE tokens'[t].root = root
    BY <2>1, <1>3, <1>4 DEF Works
  <2>2. CASE tokens'[t].root # root
    <3>1. t \in 1..n /\ tokens'[t] = tokens[t]
      BY <2>2, <1>1, <1>3, <1>4
    <3>2. Works(t)
      BY <3>1 DEF RotationInv, AllWork
    <3>3. ASSUME NEW e \in Desks, NEW l \in 1..n, job[e].at = "store", job[e].key = l,
                 tokens[l].root = tokens[t].root
          PROVE  job'[e] = job[e]
      <4>1. e # d
        BY <3>1, <3>3, <2>2, <1>6
      <4> QED BY <4>1, <1>2
    <3> QED BY <3>1, <3>2, <3>3, <1>1, <1>2, <1>4 DEF Works
  <2> QED BY <2>1, <2>2
<1>18. Past'
  BY <1>1, <1>2, <1>4, <1>9 DEF RotationInv, Past
<1> QED BY <1>12, <1>14, <1>15, <1>16, <1>17, <1>18 DEF Succession

(***************************************************************************)
(* The other steps.                                                        *)
(***************************************************************************)
\* A handler goes to new: it does not take up a refresh that way.
LEMMA HandlerAside ==
  ASSUME RotationInv, NEW d \in Desks, NEW new,
         job' = [job EXCEPT ![d] = new],
         new.at \in {"revoke", "store"} => new.key \notin 1..Len(tokens),
         job[d].at # "store",
         tokens' = tokens, lastOut' = lastOut, faults' = faults, shared \subseteq shared'
  PROVE  Succession' /\ AllWork' /\ Past'
<1>1. job \in [Desks -> Job]
  BY DEF RotationInv, TypeInv, TypeOK
<1>2. Aside
  BY <1>1 DEF Aside
<1>3. \A e \in Desks : job[e].at = "store" => job'[e] = job[e]
  BY <1>1
<1> QED BY <1>2, <1>3, AsideKeeps, AsideWorks DEF RotationInv

LEMMA LoginKeeps ==
  ASSUME RotationInv, NEW d \in Desks,
         \/ \E p \in Passwords : Login(d, p)
         \/ UpdateLastLogin(d)
  PROVE  Succession' /\ AllWork' /\ Past'
<1>1. CASE \E p \in Passwords : Login(d, p)
  <2> DEFINE new == [Idle EXCEPT !.at = "lastlogin", !.row = user]
  <2>1. new.at = "lastlogin"
    BY IdleIs DEF RotationInv, TypeInv, TypeOK, Job
  <2>2. /\ job' = [job EXCEPT ![d] = new] /\ job[d].at = "idle"
        /\ tokens' = tokens /\ lastOut' = lastOut /\ faults' = faults /\ shared' = shared
    BY <1>1 DEF Login, Goes, Free, Counters, History
  <2> HIDE DEF new
  <2> QED BY <2>1, <2>2, HandlerAside
<1>2. CASE UpdateLastLogin(d)
  <2> DEFINE new == [job[d] EXCEPT !.at = "store"]
  <2>1. job[d].at = "lastlogin" /\ job[d].key = 0 /\ job[d] \in Job
    BY <1>2 DEF UpdateLastLogin, RotationInv, TypeInv, TypeOK, Fits, FitsIn
  <2>2. new.key = 0
    BY <2>1 DEF Job
  <2>3. /\ job' = [job EXCEPT ![d] = new]
        /\ tokens' = tokens /\ lastOut' = lastOut /\ faults' = faults /\ shared' = shared
    BY <1>2 DEF UpdateLastLogin, To, Goes, Counters, History
  <2>4. new.key \notin 1..Len(tokens)
    BY <2>2
  <2> HIDE DEF new
  <2> QED BY <2>1, <2>3, <2>4, HandlerAside
<1> QED BY <1>1, <1>2

\* Password resets and changes of the row.
LEMMA ChangeKeeps ==
  ASSUME RotationInv, NEW d \in Desks,
         \/ \E r \in 1..MaxResets, p \in Passwords : GetPasswordResetToken(d, r, p)
         \/ MarkResetTokenUsed(d) \/ LoadUser(d) \/ UpdateUser(d)
         \/ \E role \in Roles : UpdateUserRole(d, role)
         \/ \E active \in {"yes", "no"} : ToggleUserActive(d, active)
  PROVE  Succession' /\ AllWork' /\ Past'
<1>1. Idle.at = "idle" /\ job[d] \in Job
  BY IdleIs DEF RotationInv, TypeInv, TypeOK
<1>2. ASSUME NEW place \in {"mark", "write"}, NEW column, NEW value, NEW key, NEW row,
             Free(d), Change(d, place, column, value, key, row),
             tokens' = tokens, lastOut' = lastOut, faults' = faults, shared \subseteq shared'
      PROVE  Succession' /\ AllWork' /\ Past'
  <2> DEFINE new == [at |-> place, row |-> row, key |-> key, column |-> column, value |-> value]
  <2>1. new.at = place /\ job' = [job EXCEPT ![d] = new] /\ job[d].at = "idle"
    BY <1>2 DEF Change, Goes, Free
  <2> HIDE DEF new
  <2> QED BY <1>2, <2>1, HandlerAside
<1>3. ASSUME NEW r \in 1..MaxResets, NEW p \in Passwords, GetPasswordResetToken(d, r, p)
      PROVE  Succession' /\ AllWork' /\ Past'
  <2>1. shared \subseteq shared' /\ tokens' = tokens /\ lastOut' = lastOut /\ faults' = faults
    BY <1>3 DEF GetPasswordResetToken
  <2>2. Free(d) /\ Change(d, "mark", "password", p, r, Idle.row)
    BY <1>3 DEF GetPasswordResetToken
  <2> QED BY <1>2, <2>1, <2>2
<1>4. CASE MarkResetTokenUsed(d)
  <2> DEFINE new == [job[d] EXCEPT !.at = "load"]
  <2>1. new.at = "load"
    BY <1>1 DEF Job
  <2>2. /\ job[d].at = "mark"
        /\ job' = [job EXCEPT ![d] = new] \/ job' = [job EXCEPT ![d] = Idle]
        /\ tokens' = tokens /\ lastOut' = lastOut /\ faults' = faults /\ shared' = shared
    BY <1>4 DEF MarkResetTokenUsed, To, Leaves, Goes, Counters, History
  <2> HIDE DEF new
  <2> QED BY <1>1, <2>1, <2>2, HandlerAside
<1>5. CASE LoadUser(d)
  <2> DEFINE new == [job[d] EXCEPT !.at = "write", !.row = user]
  <2>1. new.at = "write"
    BY <1>1 DEF Job
  <2>2. /\ job[d].at = "load" /\ job' = [job EXCEPT ![d] = new]
        /\ tokens' = tokens /\ lastOut' = lastOut /\ faults' = faults /\ shared' = shared
    BY <1>5 DEF LoadUser, Goes, Counters
  <2> HIDE DEF new
  <2> QED BY <2>1, <2>2, HandlerAside
<1>6. CASE UpdateUser(d)
  <2>1. /\ job[d].at = "write" /\ job' = [job EXCEPT ![d] = Idle]
        /\ tokens' = tokens /\ lastOut' = lastOut /\ faults' = faults /\ shared' = shared
    BY <1>6 DEF UpdateUser, Leaves, Goes, Counters
  <2> QED BY <1>1, <2>1, HandlerAside
<1>7. ASSUME NEW role \in Roles, UpdateUserRole(d, role)
      PROVE  Succession' /\ AllWork' /\ Past'
  <2>1. tokens' = tokens /\ lastOut' = lastOut /\ faults' = faults /\ shared' = shared
    BY <1>7 DEF UpdateUserRole
  <2>2. Free(d) /\ Change(d, "write", "role", role, 0, user)
    BY <1>7 DEF UpdateUserRole
  <2> QED BY <1>2, <2>1, <2>2
<1>8. ASSUME NEW active \in {"yes", "no"}, ToggleUserActive(d, active)
      PROVE  Succession' /\ AllWork' /\ Past'
  <2>1. tokens' = tokens /\ lastOut' = lastOut /\ faults' = faults /\ shared' = shared
    BY <1>8 DEF ToggleUserActive
  <2>2. Free(d) /\ Change(d, "write", "active", active, 0, user)
    BY <1>8 DEF ToggleUserActive
  <2> QED BY <1>2, <2>1, <2>2
<1> QED BY <1>3, <1>4, <1>5, <1>6, <1>7, <1>8

\* A handler gives up: its login may have lost its token, and there is a fault.
LEMMA StatementFailsKeeps ==
  ASSUME RotationInv, NEW d \in Desks, StatementFails(d)
  PROVE  Succession' /\ AllWork' /\ Past'
<1>1. /\ tokens' = tokens /\ lastOut' = lastOut /\ shared' = shared
      /\ job' = [job EXCEPT ![d] = Idle] /\ job \in [Desks -> Job]
  BY DEF StatementFails, Leaves, Goes, History, RotationInv, TypeInv, TypeOK
<1>2. Idle.at = "idle"
  BY IdleIs DEF RotationInv, TypeInv, TypeOK
<1>3. faults' > 0
  BY DEF StatementFails, RotationInv, TypeInv, TypeOK
<1>4. Aside
  BY <1>1, <1>2 DEF Aside
<1>5. AllWork'
  BY <1>3 DEF AllWork, Works
<1> QED BY <1>4, <1>5, AsideKeeps DEF RotationInv

LEMMA RestKeeps ==
  ASSUME RotationInv,
         \/ RequestPasswordReset
         \/ \E r \in 1..MaxResets : ResetExpires(r)
         \/ UNCHANGED vars
  PROVE  Succession' /\ AllWork' /\ Past'
<1>1. /\ tokens' = tokens /\ lastOut' = lastOut /\ shared' = shared /\ job' = job
      /\ faults' = faults
  BY DEF RequestPasswordReset, ResetExpires, vars, Counters, History
<1>2. Aside
  BY <1>1 DEF Aside
<1> QED BY <1>1, <1>2, AsideKeeps, AsideWorks DEF RotationInv

-----------------------------------------------------------------------------
LEMMA RotationStart == Init => RotationInv
<1> SUFFICES ASSUME Init PROVE RotationInv
    OBVIOUS
<1>1. Len(tokens) = 0 /\ lastOut = 0 /\ 1..Len(tokens) = {} /\ 1..lastOut = {}
  BY DEF Init
<1>2. Succession
  BY <1>1 DEF Succession, RootsFirst, OneLive, RefresherHolds, OneRefresher
<1>3. AllWork /\ Past
  BY <1>1 DEF AllWork, Past
<1> QED BY <1>2, <1>3, TypeStart DEF RotationInv

LEMMA RotationStep == RotationInv /\ [Next]_vars => RotationInv'
<1> SUFFICES ASSUME RotationInv, [Next]_vars PROVE RotationInv'
    OBVIOUS
<1>1. TypeInv'
  BY TypeStep DEF RotationInv
<1>2. ASSUME NEW d \in Desks,
             \/ \E p \in Passwords : Login(d, p)
             \/ UpdateLastLogin(d) \/ StoreRefreshToken(d)
             \/ \E k \in 1..MaxTokens : GetRefreshToken(d, k)
             \/ RevokeRefreshToken(d)
             \/ StatementFails(d)
      PROVE  Succession' /\ AllWork' /\ Past'
  BY <1>2, LoginKeeps, StoreKeeps, GetKeeps, RevokeKeeps, StatementFailsKeeps
<1>3. ASSUME NEW d \in Desks,
             \/ \E r \in 1..MaxResets, p \in Passwords : GetPasswordResetToken(d, r, p)
             \/ MarkResetTokenUsed(d) \/ LoadUser(d) \/ UpdateUser(d)
             \/ \E role \in Roles : UpdateUserRole(d, role)
             \/ \E active \in {"yes", "no"} : ToggleUserActive(d, active)
      PROVE  Succession' /\ AllWork' /\ Past'
  BY <1>3, ChangeKeeps
<1>4. ASSUME \/ Logout
             \/ \E t \in 1..MaxTokens : TokenExpires(t)
             \/ RequestPasswordReset
             \/ \E r \in 1..MaxResets : ResetExpires(r)
             \/ UNCHANGED vars
      PROVE  Succession' /\ AllWork' /\ Past'
  BY <1>4, LogoutKeeps, ExpiryKeeps, RestKeeps
<1>5. ASSUME Next PROVE Succession' /\ AllWork' /\ Past'
  BY <1>2, <1>3, <1>4, <1>5 DEF Next
<1>6. Succession' /\ AllWork' /\ Past'
  BY <1>4, <1>5
<1> QED BY <1>1, <1>6 DEF RotationInv

\* Rotation, whatever runs together: a login has one refresh token that works,
\* unless two refreshes were handed the same token;
\* and it loses that token only to a logout, its expiry or a failed statement.
THEOREM TokensAreRotated == Spec => []TokensRotate
<1>1. RotationInv => TokensRotate
  BY RotationImplies
<1> QED BY <1>1, RotationStart, RotationStep, PTL DEF Spec

\* Every refresh token stored before a logout stays dead: no refresh, login,
\* reset or change of the row brings one back.
THEOREM LogoutIsKept == Spec => []LogoutEndsAll
<1>1. RotationInv => LogoutEndsAll
  BY RotationImplies
<1> QED BY <1>1, RotationStart, RotationStep, PTL DEF Spec

-----------------------------------------------------------------------------
(***************************************************************************)
(* Password resets.  A handler that holds a token and has marked it, or    *)
(* has changed the password with it, leaves it used; and of a token that   *)
(* no two handlers have read there is one holder, before it has written.   *)
(***************************************************************************)
Holds(d, r) ==
  job[d].at \in {"mark", "load", "write"} /\ job[d].key = r /\ r \in 1..Len(resets)
SharedReset(r) == <<"reset", r>> \in shared

Spent ==
  \A r \in 1..Len(resets) :
    /\ resets[r].writes > 0 => resets[r].state = "used"
    /\ \A d \in Desks : Holds(d, r) /\ job[d].at # "mark" => resets[r].state = "used"
OneHolder ==
  \A r \in 1..Len(resets) :
    ~SharedReset(r) =>
      /\ resets[r].writes <= 1
      /\ \A d \in Desks : Holds(d, r) =>
           resets[r].writes = 0 /\ \A e \in Desks : Holds(e, r) => e = d

\* No handler takes up a token, though one may give up or go on to its write.
LEMMA NoneTaken ==
  ASSUME Spent, OneHolder, resets' = resets, shared \subseteq shared',
         \A e \in Desks : \A r \in 1..Len(resets) :
           Holds(e, r)' => Holds(e, r) /\ (job'[e].at = "mark" <=> job[e].at = "mark")
  PROVE  Spent' /\ OneHolder'
<1>1. Spent'
  BY DEF Spent
<1>2. OneHolder'
  BY DEF OneHolder, SharedReset
<1> QED BY <1>1, <1>2

\* A handler goes to new, which holds no token that it did not hold before.
LEMMA ElsewhereKeeps ==
  ASSUME TypeInv, Spent, OneHolder, NEW d \in Desks, NEW new,
         job' = [job EXCEPT ![d] = new], resets' = resets, shared \subseteq shared',
         \/ new.at \notin {"mark", "load", "write"}
         \/ new.key = 0
         \/ job[d].at = "load" /\ new.at = "write" /\ new.key = job[d].key
  PROVE  Spent' /\ OneHolder'
<1>1. job \in [Desks -> Job] /\ Len(resets) \in Nat
  BY Lengths DEF TypeInv, TypeOK
<1>2. ASSUME NEW e \in Desks, NEW r \in 1..Len(resets), Holds(e, r)'
      PROVE  Holds(e, r) /\ (job'[e].at = "mark" <=> job[e].at = "mark")
  <2>1. CASE e # d
    BY <1>1, <1>2, <2>1 DEF Holds
  <2>2. CASE e = d
    <3>1. job'[e] = new
      BY <1>1, <2>2
    <3> QED BY <1>1, <1>2, <2>2, <3>1 DEF Holds
  <2> QED BY <2>1, <2>2
<1> QED BY <1>2, NoneTaken

LEMMA GetResetKeeps ==
  ASSUME TypeInv, Spent, OneHolder, NEW d \in Desks, NEW r \in 1..MaxResets,
         NEW p \in Passwords, GetPasswordResetToken(d, r, p)
  PROVE  Spent' /\ OneHolder'
<1> DEFINE new == [at |-> "mark", row |-> Idle.row, key |-> r, column |-> "password", value |-> p]
<1>1. /\ r \in 1..Len(resets) /\ resets[r] \in Reset /\ resets[r].state = "open"
      /\ job \in [Desks -> Job] /\ job[d].at = "idle"
  BY Lengths DEF GetPasswordResetToken, Free, TypeInv, TypeOK
<1>2. job' = [job EXCEPT ![d] = new] /\ resets' = resets
  BY DEF GetPasswordResetToken, Change, Goes
<1>3. shared' = IF \E e \in At("mark") : job[e].key = r
                  THEN shared \cup {<<"reset", r>>} ELSE shared
  BY DEF GetPasswordResetToken
<1>4. new.at = "mark" /\ new.key = r
  OBVIOUS
<1> HIDE DEF new
<1>5. resets[r].writes = 0 /\ resets[r].state # "used"
  <2>1. resets[r].writes \in Nat /\ ~(resets[r].writes > 0)
    BY <1>1 DEF Spent, Reset
  <2> QED BY <1>1, <2>1
<1>6. \A e \in Desks, q \in 1..Len(resets) :
        Holds(e, q)' => (e = d /\ q = r /\ job'[e].at = "mark")
                          \/ (e # d /\ Holds(e, q) /\ job'[e] = job[e])
  BY <1>1, <1>2, <1>4 DEF Holds
<1>7. ~SharedReset(r)' => \A e \in Desks : ~Holds(e, r)
  <2> SUFFICES ASSUME NEW e \in Desks, Holds(e, r) PROVE SharedReset(r)'
    OBVIOUS
  <2>1. job[e].at = "mark" /\ job[e].key = r
    BY <1>1, <1>5 DEF Spent, Holds
  <2> QED BY <1>3, <2>1 DEF At, SharedReset
<1>8. \A q \in 1..Len(resets) : SharedReset(q) => SharedReset(q)'
  BY <1>3 DEF SharedReset
<1>9. Spent'
  <2>1. \A e \in Desks, q \in 1..Len(resets) :
          Holds(e, q)' /\ job'[e].at # "mark" => Holds(e, q) /\ job[e].at # "mark"
    BY <1>6
  <2> QED BY <1>2, <2>1 DEF Spent
<1>10. OneHolder'
  <2> SUFFICES ASSUME NEW q \in 1..Len(resets), ~SharedReset(q)'
               PROVE  /\ resets[q].writes <= 1
                      /\ \A e \in Desks : Holds(e, q)' =>
                           resets[q].writes = 0 /\ \A f \in Desks : Holds(f, q)' => f = e
    BY <1>2 DEF OneHolder
  <2>1. CASE q = r
    BY <1>5, <1>6, <1>7, <2>1
  <2>2. CASE q # r
    BY <1>6, <1>8, <2>2 DEF OneHolder
  <2> QED BY <2>1, <2>2
<1> QED BY <1>9, <1>10

LEMMA MarkKeeps ==
  ASSUME TypeInv, Spent, OneHolder, NEW d \in Desks, MarkResetTokenUsed(d)
  PROVE  Spent' /\ OneHolder'
<1> DEFINE k == job[d].key
           used == [resets[k] EXCEPT !.state = "used"]
<1>1. /\ k \in 1..Len(resets) /\ resets[k] \in Reset /\ job[d].at = "mark"
      /\ job \in [Desks -> Job] /\ DOMAIN resets = 1..Len(resets) /\ resets \in Seq(Reset)
  BY Lengths DEF MarkResetTokenUsed, TypeInv, TypeOK, Fits, FitsIn
<1>2. used.state = "used" /\ used.writes = resets[k].writes /\ used \in Reset
  BY <1>1 DEF Reset
<1>3. resets' = [resets EXCEPT ![k] = used] /\ shared' = shared
  BY DEF MarkResetTokenUsed, History
<1>4. /\ \A e \in Desks \ {d} : job'[e] = job[e]
      /\ (job'[d].at = "load" /\ job'[d].key = k) \/ job'[d].at = "idle"
  <2>1. CASE To(d, "load")
    BY <1>1, <2>1 DEF To, Goes, Job
  <2>2. CASE Leaves(d)
    <3>1. Idle.at = "idle"
      BY IdleIs DEF TypeInv, TypeOK
    <3> QED BY <1>1, <2>2, <3>1 DEF Leaves, Goes
  <2> QED BY <2>1, <2>2 DEF MarkResetTokenUsed
<1> HIDE DEF used
<1>5. /\ Len(resets') = Len(resets)
      /\ \A r \in 1..Len(resets) :
           /\ resets'[r].writes = resets[r].writes
           /\ resets'[r].state = IF r = k THEN "used" ELSE resets[r].state
  <2>1. Len(resets') = Len(resets)
    BY <1>1, <1>2, <1>3, ExceptSeq
  <2> QED BY <1>1, <1>2, <1>3, <2>1
<1>6. \A e \in Desks, r \in 1..Len(resets) : Holds(e, r)' => Holds(e, r)
  BY <1>1, <1>4, <1>5 DEF Holds
<1>7. Spent'
  <2>1. ASSUME NEW e \in Desks, NEW r \in 1..Len(resets), Holds(e, r)', job'[e].at # "mark"
        PROVE  r = k \/ resets[r].state = "used"
    BY <1>4, <1>6, <2>1 DEF Spent, Holds
  <2> QED BY <1>5, <2>1 DEF Spent
<1>8. OneHolder'
  BY <1>3, <1>5, <1>6 DEF OneHolder, SharedReset
<1> QED BY <1>7, <1>8

LEMMA WriteKeeps ==
  ASSUME TypeInv, Spent, OneHolder, NEW d \in Desks, UpdateUser(d)
  PROVE  Spent' /\ OneHolder'
<1> DEFINE k == job[d].key
<1>1. /\ k \in 0..Len(resets) /\ job[d].at = "write" /\ job \in [Desks -> Job]
      /\ Len(resets) \in Nat /\ DOMAIN resets = 1..Len(resets) /\ resets \in Seq(Reset)
      /\ \A r \in 1..Len(resets) : resets[r] \in Reset
  BY Lengths DEF UpdateUser, TypeInv, TypeOK, Fits, FitsIn
<1>2. job' = [job EXCEPT ![d] = Idle] /\ Idle.at = "idle" /\ shared' = shared
  BY IdleIs DEF UpdateUser, Leaves, Goes, TypeInv, TypeOK
<1>3. CASE k = 0
  <2>1. resets' = resets
    BY <1>3 DEF UpdateUser
  <2> QED BY <1>2, <2>1, ElsewhereKeeps
<1>4. CASE k # 0
  <2> DEFINE new == [resets[k] EXCEPT !.writes = @ + 1]
  <2>1. k \in 1..Len(resets) /\ resets[k] \in Reset
    BY <1>1, <1>4
  <2>2. new.state = resets[k].state /\ new.writes = resets[k].writes + 1 /\ new \in Reset
    BY <2>1 DEF Reset
  <2>3. resets' = [resets EXCEPT ![k] = new]
    BY <1>4 DEF UpdateUser
  <2> HIDE DEF new
  <2>4. Len(resets') = Len(resets)
    BY <1>1, <2>1, <2>2, <2>3, ExceptSeq
  <2>5. \A r \in 1..Len(resets) :
          /\ resets'[r].state = resets[r].state
          /\ r # k => resets'[r].writes = resets[r].writes
    BY <1>1, <2>2, <2>3
  <2>6. resets'[k].writes = resets[k].writes + 1
    BY <1>1, <2>1, <2>2, <2>3
  <2>7. Holds(d, k) /\ resets[k].state = "used"
    BY <1>1, <2>1 DEF Spent, Holds
  <2>8. \A e \in Desks, r \in 1..Len(resets) : Holds(e, r)' => Holds(e, r) /\ e # d /\ job'[e] = job[e]
    BY <1>1, <1>2, <2>4 DEF Holds
  <2>9. Spent'
    <3> SUFFICES ASSUME NEW r \in 1..Len(resets)
                 PROVE  /\ resets'[r].writes > 0 => resets[r].state = "used"
                        /\ \A e \in Desks : Holds(e, r)' /\ job'[e].at # "mark" => resets[r].state = "used"
      BY <2>4, <2>5 DEF Spent
    <3>1. resets'[r].writes > 0 => resets[r].state = "used"
      BY <2>5, <2>7 DEF Spent
    <3> QED BY <2>8, <3>1 DEF Spent
  <2>10. OneHolder'
    <3> SUFFICES ASSUME NEW r \in 1..Len(resets), ~SharedReset(r)
                 PROVE  /\ resets'[r].writes <= 1
                        /\ \A e \in Desks : Holds(e, r)' =>
                             resets'[r].writes = 0 /\ \A f \in Desks : Holds(f, r)' => f = e
      BY <1>2, <2>4 DEF OneHolder, SharedReset
    <3>1. CASE r = k
      <4>1. resets[k].writes = 0 /\ \A e \in Desks : Holds(e, k) => e = d
        BY <2>1, <2>7, <3>1 DEF OneHolder
      <4> QED BY <2>6, <2>8, <3>1, <4>1
    <3>2. CASE r # k
      BY <2>5, <2>8, <3>2 DEF OneHolder
    <3> QED BY <3>1, <3>2
  <2> QED BY <2>9, <2>10
<1> QED BY <1>3, <1>4

LEMMA RequestKeeps ==
  ASSUME TypeInv, Spent, OneHolder, RequestPasswordReset
  PROVE  Spent' /\ OneHolder'
<1> DEFINE n == Len(resets)
           new == [state |-> "open", writes |-> 0]
<1>1. resets' = Append(resets, new) /\ job' = job /\ shared' = shared /\ resets \in Seq(Reset)
  BY DEF RequestPasswordReset, History, TypeInv, TypeOK
<1>2. new.writes = 0 /\ new \in Reset
  BY DEF Reset
<1> HIDE DEF new
<1>3. /\ n \in Nat /\ Len(resets') = n + 1 /\ \A r \in 1..n : resets'[r] = resets[r]
      /\ resets'[n + 1] = new
  BY <1>1, <1>2, Lengths, AppendProperties DEF TypeInv
<1>4. 1..Len(resets') = 1..n \cup {n + 1}
  BY <1>3
<1>5. \A e \in Desks : job[e].at \in {"mark", "load", "write"} => job[e].key \in 0..n
  BY <1>3 DEF TypeInv, Fits, FitsIn
<1>6. \A e \in Desks : \A r \in 1..(n + 1) : Holds(e, r)' => r \in 1..n /\ Holds(e, r)
  BY <1>1, <1>3, <1>5 DEF Holds
<1>7. \A r \in 1..(n + 1) : r \notin 1..n => resets'[r].writes = 0 /\ \A e \in Desks : ~Holds(e, r)'
  <2>1. \A r \in 1..(n + 1) : r \notin 1..n => resets'[r].writes = 0
    BY <1>2, <1>3, <1>4
  <2> QED BY <1>6, <2>1
<1>8. 0 <= 1 /\ ~(0 > 0) /\ 1..Len(resets') = 1..(n + 1)
  BY <1>3
<1>9. Spent'
  <2> SUFFICES ASSUME NEW r \in 1..(n + 1)
               PROVE  /\ resets'[r].writes > 0 => resets'[r].state = "used"
                      /\ \A d \in Desks : Holds(d, r)' /\ job'[d].at # "mark" => resets'[r].state = "used"
    BY <1>8 DEF Spent
  <2>1. CASE r \in 1..n
    BY <1>1, <1>3, <1>6, <2>1 DEF Spent
  <2>2. CASE r \notin 1..n
    BY <1>7, <1>8, <2>2
  <2> QED BY <2>1, <2>2
<1>10. OneHolder'
  <2> SUFFICES ASSUME NEW r \in 1..(n + 1), ~SharedReset(r)
               PROVE  /\ resets'[r].writes <= 1
                      /\ \A d \in Desks : Holds(d, r)' =>
                           resets'[r].writes = 0 /\ \A e \in Desks : Holds(e, r)' => e = d
    BY <1>1, <1>8 DEF OneHolder, SharedReset
  <2>1. CASE r \in 1..n
    BY <1>3, <1>6, <2>1 DEF OneHolder
  <2>2. CASE r \notin 1..n
    BY <1>7, <1>8, <2>2
  <2> QED BY <2>1, <2>2
<1> QED BY <1>9, <1>10

LEMMA ResetExpiryKeeps ==
  ASSUME TypeInv, Spent, OneHolder, NEW k \in 1..MaxResets, ResetExpires(k)
  PROVE  Spent' /\ OneHolder'
<1> DEFINE new == [resets[k] EXCEPT !.state = "expired"]
<1>1. /\ k \in 1..Len(resets) /\ resets[k] \in Reset /\ resets[k].state = "open"
      /\ DOMAIN resets = 1..Len(resets) /\ resets \in Seq(Reset)
  BY Lengths DEF ResetExpires, TypeInv, TypeOK
<1>2. new.writes = resets[k].writes /\ new \in Reset
  BY <1>1 DEF Reset
<1>3. resets' = [resets EXCEPT ![k] = new] /\ job' = job /\ shared' = shared
  BY DEF ResetExpires, History
<1> HIDE DEF new
<1>4. /\ Len(resets') = Len(resets)
      /\ \A r \in 1..Len(resets) : /\ resets'[r].writes = resets[r].writes
                                   /\ r # k => resets'[r].state = resets[r].state
  <2>1. Len(resets') = Len(resets)
    BY <1>1, <1>2, <1>3, ExceptSeq
  <2> QED BY <1>1, <1>2, <1>3, <2>1
<1>5. \A e \in Desks, r \in 1..Len(resets) : Holds(e, r)' <=> Holds(e, r)
  BY <1>3, <1>4 DEF Holds
\* What was open had no holder past its mark, and no write.
<1>6. Spent'
  <2> SUFFICES ASSUME NEW r \in 1..Len(resets)
               PROVE  /\ resets'[r].writes > 0 => resets'[r].state = "used"
                      /\ \A d \in Desks : Holds(d, r)' /\ job'[d].at # "mark" => resets'[r].state = "used"
    BY <1>4 DEF Spent
  <2>1. CASE r = k
    BY <1>1, <1>3, <1>4, <1>5, <2>1 DEF Spent
  <2>2. CASE r # k
    BY <1>3, <1>4, <1>5, <2>2 DEF Spent
  <2> QED BY <2>1, <2>2
<1>7. OneHolder'
  BY <1>3, <1>4, <1>5 DEF OneHolder, SharedReset
<1> QED BY <1>6, <1>7

\* The steps of sessions, of administrators and of failures hold no token.
LEMMA OthersKeepResets ==
  ASSUME TypeInv, Spent, OneHolder, NEW d \in Desks,
         \/ \E p \in Passwords : Login(d, p)
         \/ UpdateLastLogin(d) \/ StoreRefreshToken(d)
         \/ \E k \in 1..MaxTokens : GetRefreshToken(d, k)
         \/ RevokeRefreshToken(d) \/ StatementFails(d) \/ LoadUser(d)
         \/ \E role \in Roles : UpdateUserRole(d, role)
         \/ \E active \in {"yes", "no"} : ToggleUserActive(d, active)
  PROVE  Spent' /\ OneHolder'
<1>1. Idle \in Job /\ Idle.at = "idle" /\ job[d] \in Job /\ user \in Row
  BY IdleIs DEF TypeInv, TypeOK
<1>2. CASE \E p \in Passwords : Login(d, p)
  <2> DEFINE new == [Idle EXCEPT !.at = "lastlogin", !.row = user]
  <2>1. new.at = "lastlogin"
    BY <1>1 DEF Job
  <2>2. job' = [job EXCEPT ![d] = new] /\ resets' = resets /\ shared' = shared
    BY <1>2 DEF Login, Goes, History
  <2> HIDE DEF new
  <2> QED BY <2>1, <2>2, ElsewhereKeeps
<1>3. CASE UpdateLastLogin(d) \/ RevokeRefreshToken(d)
  <2> DEFINE new == [job[d] EXCEPT !.at = "store"]
  <2>1. new.at = "store"
    BY <1>1 DEF Job
  <2>2. job' = [job EXCEPT ![d] = new] /\ resets' = resets /\ shared' = shared
    BY <1>3 DEF UpdateLastLogin, RevokeRefreshToken, To, Goes, History
  <2> HIDE DEF new
  <2> QED BY <2>1, <2>2, ElsewhereKeeps
<1>4. CASE StoreRefreshToken(d) \/ StatementFails(d)
  <2>1. job' = [job EXCEPT ![d] = Idle] /\ resets' = resets /\ shared' = shared
    BY <1>4 DEF StoreRefreshToken, StatementFails, Leaves, Goes, History
  <2> QED BY <1>1, <2>1, ElsewhereKeeps
<1>5. CASE \E k \in 1..MaxTokens : GetRefreshToken(d, k)
  <2>1. PICK k \in 1..MaxTokens : GetRefreshToken(d, k)
    BY <1>5
  <2> DEFINE new == [Idle EXCEPT !.at = "revoke", !.key = k]
  <2>2. new.at = "revoke"
    BY <1>1 DEF Job
  <2>3. job' = [job EXCEPT ![d] = new] /\ resets' = resets
    BY <2>1 DEF GetRefreshToken, Goes
  <2>4. shared \subseteq shared'
    BY <2>1 DEF GetRefreshToken
  <2> HIDE DEF new
  <2> QED BY <2>2, <2>3, <2>4, ElsewhereKeeps
<1>6. CASE LoadUser(d)
  <2> DEFINE new == [job[d] EXCEPT !.at = "write", !.row = user]
  <2>1. new.at = "write" /\ new.key = job[d].key
    BY <1>1 DEF Job
  <2>2. /\ job' = [job EXCEPT ![d] = new] /\ resets' = resets /\ shared' = shared
        /\ job[d].at = "load"
    BY <1>6 DEF LoadUser, Goes
  <2> HIDE DEF new
  <2> QED BY <2>1, <2>2, ElsewhereKeeps
<1>7. ASSUME NEW column, NEW value, Change(d, "write", column, value, 0, user),
             resets' = resets, shared' = shared
      PROVE  Spent' /\ OneHolder'
  <2> DEFINE new == [at |-> "write", row |-> user, key |-> 0, column |-> column, value |-> value]
  <2>1. new.key = 0 /\ job' = [job EXCEPT ![d] = new]
    BY <1>7 DEF Change, Goes
  <2> HIDE DEF new
  <2> QED BY <1>7, <2>1, ElsewhereKeeps
<1>8. ASSUME NEW role \in Roles, UpdateUserRole(d, role) PROVE Spent' /\ OneHolder'
  BY <1>7, <1>8 DEF UpdateUserRole
<1>9. ASSUME NEW active \in {"yes", "no"}, ToggleUserActive(d, active) PROVE Spent' /\ OneHolder'
  BY <1>7, <1>9 DEF ToggleUserActive
<1> QED BY <1>2, <1>3, <1>4, <1>5, <1>6, <1>8, <1>9

ResetInv == TypeInv /\ Spent /\ OneHolder

LEMMA ResetStart == Init => ResetInv
<1> SUFFICES ASSUME Init PROVE ResetInv
    OBVIOUS
<1>1. 1..Len(resets) = {}
  BY DEF Init
<1> QED BY <1>1, TypeStart DEF ResetInv, Spent, OneHolder

LEMMA ResetStep == ResetInv /\ [Next]_vars => ResetInv'
<1> SUFFICES ASSUME ResetInv, [Next]_vars PROVE ResetInv'
    OBVIOUS
<1>1. TypeInv' /\ TypeInv /\ Spent /\ OneHolder
  BY TypeStep DEF ResetInv
<1>2. ASSUME NEW d \in Desks,
             \/ \E p \in Passwords : Login(d, p)
             \/ UpdateLastLogin(d) \/ StoreRefreshToken(d)
             \/ \E k \in 1..MaxTokens : GetRefreshToken(d, k)
             \/ RevokeRefreshToken(d) \/ StatementFails(d) \/ LoadUser(d)
             \/ \E role \in Roles : UpdateUserRole(d, role)
             \/ \E active \in {"yes", "no"} : ToggleUserActive(d, active)
      PROVE  Spent' /\ OneHolder'
  BY <1>1, <1>2, OthersKeepResets
<1>3. ASSUME NEW d \in Desks,
             \/ \E r \in 1..MaxResets, p \in Passwords : GetPasswordResetToken(d, r, p)
             \/ MarkResetTokenUsed(d) \/ UpdateUser(d)
      PROVE  Spent' /\ OneHolder'
  BY <1>1, <1>3, GetResetKeeps, MarkKeeps, WriteKeeps
<1>4. ASSUME \/ RequestPasswordReset
             \/ \E r \in 1..MaxResets : ResetExpires(r)
      PROVE  Spent' /\ OneHolder'
  BY <1>1, <1>4, RequestKeeps, ResetExpiryKeeps
<1>5. ASSUME Logout \/ (\E t \in 1..MaxTokens : TokenExpires(t)) \/ UNCHANGED vars
      PROVE  Spent' /\ OneHolder'
  <2>1. resets' = resets /\ job' = job /\ shared' = shared
    BY <1>5 DEF Logout, TokenExpires, History, vars
  <2>2. \A e \in Desks : \A r \in 1..Len(resets) :
          Holds(e, r)' => Holds(e, r) /\ (job'[e].at = "mark" <=> job[e].at = "mark")
    BY <2>1 DEF Holds
  <2> QED BY <1>1, <2>1, <2>2, NoneTaken
<1>6. ASSUME Next PROVE Spent' /\ OneHolder'
  BY <1>2, <1>3, <1>4, <1>5, <1>6 DEF Next
<1> QED BY <1>1, <1>5, <1>6 DEF ResetInv

\* A reset token changes the password once and is used up by it, however many
\* resets and other handlers run, unless two handlers were handed the token.
THEOREM ResetsAreOnce == Spec => []ResetOnce
<1>1. ResetInv => ResetOnce
  BY Lengths DEF ResetInv, TypeInv, Spent, OneHolder, SharedReset, ResetOnce
<1> QED BY <1>1, ResetStart, ResetStep, PTL DEF Spec

-----------------------------------------------------------------------------
(***************************************************************************)
(* Changes of the row.  While no two writers have overlapped there is one  *)
(* at most, and the row it has read is the row that is there.              *)
(***************************************************************************)
Writing(d) == job[d].at = "write"
Undisturbed ==
  ~overlap =>
    /\ user = asked
    /\ \A d \in Desks : Writing(d) => job[d].row = user /\ \A e \in Desks : Writing(e) => e = d

\* A handler goes to new, which is no writer.
LEMMA NoWriter ==
  ASSUME TypeInv, Undisturbed, NEW d \in Desks, NEW new, new.at # "write",
         job' = [job EXCEPT ![d] = new], UNCHANGED <<user, asked, overlap>>
  PROVE  Undisturbed'
<1>1. job \in [Desks -> Job]
  BY DEF TypeInv, TypeOK
<1>2. \A e \in Desks : Writing(e)' => Writing(e) /\ job'[e] = job[e]
  BY <1>1 DEF Writing
<1> QED BY <1>2 DEF Undisturbed

\* A handler goes to new, a writer with the row of this moment.
LEMMA NewWriter ==
  ASSUME TypeInv, Undisturbed, NEW d \in Desks, NEW new, new.row = user,
         job' = [job EXCEPT ![d] = new], UNCHANGED <<user, asked>>,
         overlap' = (overlap \/ At("write") # {})
  PROVE  Undisturbed'
<1>1. job \in [Desks -> Job]
  BY DEF TypeInv, TypeOK
<1>2. ~overlap' => ~overlap /\ \A e \in Desks : ~Writing(e)
  BY DEF At, Writing
<1>3. \A e \in Desks : e # d => job'[e] = job[e]
  BY <1>1
<1>4. job'[d].row = user
  BY <1>1
<1>5. \A e \in Desks : ~overlap' /\ Writing(e)' => e = d
  BY <1>2, <1>3 DEF Writing
<1> QED BY <1>2, <1>4, <1>5 DEF Undisturbed

LEMMA UndisturbedStep ==
  ASSUME TypeInv, Undisturbed, [Next]_vars
  PROVE  Undisturbed'
<1>1. Idle \in Job /\ Idle.at = "idle" /\ job \in [Desks -> Job] /\ user \in Row
  BY IdleIs DEF TypeInv, TypeOK
<1>2. ASSUME NEW d \in Desks, NEW p \in Passwords, Login(d, p) PROVE Undisturbed'
  <2> DEFINE new == [Idle EXCEPT !.at = "lastlogin", !.row = user]
  <2>1. new.at # "write"
    BY <1>1 DEF Job
  <2>2. job' = [job EXCEPT ![d] = new] /\ UNCHANGED <<user, asked, overlap>>
    BY <1>2 DEF Login, Goes, History
  <2> HIDE DEF new
  <2> QED BY <2>1, <2>2, NoWriter
<1>3. ASSUME NEW d \in Desks, UpdateLastLogin(d) \/ RevokeRefreshToken(d) PROVE Undisturbed'
  <2> DEFINE new == [job[d] EXCEPT !.at = "store"]
  <2>1. new.at # "write"
    BY <1>1 DEF Job
  <2>2. job' = [job EXCEPT ![d] = new] /\ UNCHANGED <<user, asked, overlap>>
    BY <1>3 DEF UpdateLastLogin, RevokeRefreshToken, To, Goes, History
  <2> HIDE DEF new
  <2> QED BY <2>1, <2>2, NoWriter
<1>4. ASSUME NEW d \in Desks, StoreRefreshToken(d) \/ StatementFails(d) PROVE Undisturbed'
  <2>1. job' = [job EXCEPT ![d] = Idle] /\ UNCHANGED <<user, asked, overlap>>
    BY <1>4 DEF StoreRefreshToken, StatementFails, Leaves, Goes, History
  <2> QED BY <1>1, <2>1, NoWriter
<1>5. ASSUME NEW d \in Desks, NEW k \in 1..MaxTokens, GetRefreshToken(d, k) PROVE Undisturbed'
  <2> DEFINE new == [Idle EXCEPT !.at = "revoke", !.key = k]
  <2>1. new.at # "write"
    BY <1>1 DEF Job
  <2>2. job' = [job EXCEPT ![d] = new] /\ UNCHANGED <<user, asked, overlap>>
    BY <1>5 DEF GetRefreshToken, Goes
  <2> HIDE DEF new
  <2> QED BY <2>1, <2>2, NoWriter
<1>6. ASSUME NEW d \in Desks, NEW r \in 1..MaxResets, NEW p \in Passwords,
             GetPasswordResetToken(d, r, p)
      PROVE  Undisturbed'
  <2> DEFINE new == [at |-> "mark", row |-> Idle.row, key |-> r, column |-> "password", value |-> p]
  <2>1. new.at # "write"
    OBVIOUS
  <2>2. job' = [job EXCEPT ![d] = new] /\ UNCHANGED <<user, asked, overlap>>
    BY <1>6 DEF GetPasswordResetToken, Change, Goes
  <2> HIDE DEF new
  <2> QED BY <2>1, <2>2, NoWriter
<1>7. ASSUME NEW d \in Desks, MarkResetTokenUsed(d) PROVE Undisturbed'
  <2> DEFINE new == [job[d] EXCEPT !.at = "load"]
  <2>1. new.at # "write"
    BY <1>1 DEF Job
  <2>2. /\ job' = [job EXCEPT ![d] = new] \/ job' = [job EXCEPT ![d] = Idle]
        /\ UNCHANGED <<user, asked, overlap>>
    BY <1>7 DEF MarkResetTokenUsed, To, Leaves, Goes, History
  <2> HIDE DEF new
  <2> QED BY <1>1, <2>1, <2>2, NoWriter
<1>8. ASSUME NEW d \in Desks, LoadUser(d) PROVE Undisturbed'
  <2> DEFINE new == [job[d] EXCEPT !.at = "write", !.row = user]
  <2>1. new.row = user
    BY <1>1 DEF Job
  <2>2. job' = [job EXCEPT ![d] = new] /\ UNCHANGED <<user, asked>>
    BY <1>8 DEF LoadUser, Goes
  <2>3. overlap' = (overlap \/ At("write") # {})
    BY <1>8 DEF LoadUser
  <2> HIDE DEF new
  <2> QED BY <2>1, <2>2, <2>3, NewWriter
<1>9. ASSUME NEW d \in Desks, NEW column, NEW value, Change(d, "write", column, value, 0, user),
             overlap' = (overlap \/ At("write") # {}), UNCHANGED <<user, asked>>
      PROVE  Undisturbed'
  <2> DEFINE new == [at |-> "write", row |-> user, key |-> 0, column |-> column, value |-> value]
  <2>1. new.row = user /\ job' = [job EXCEPT ![d] = new]
    BY <1>9 DEF Change, Goes
  <2> HIDE DEF new
  <2> QED BY <1>9, <2>1, NewWriter
<1>10. ASSUME NEW d \in Desks, NEW role \in Roles, UpdateUserRole(d, role) PROVE Undisturbed'
  BY <1>9, <1>10 DEF UpdateUserRole
<1>11. ASSUME NEW d \in Desks, NEW active \in {"yes", "no"}, ToggleUserActive(d, active)
       PROVE  Undisturbed'
  BY <1>9, <1>11 DEF ToggleUserActive
\* The row it writes is the one that was there, and one column.
<1>12. ASSUME NEW d \in Desks, UpdateUser(d) PROVE Undisturbed'
  <2>1. /\ user' = [job[d].row EXCEPT ![job[d].column] = job[d].value]
        /\ asked' = [asked EXCEPT ![job[d].column] = job[d].value]
        /\ overlap' = overlap /\ Writing(d) /\ job' = [job EXCEPT ![d] = Idle]
    BY <1>12 DEF UpdateUser, Leaves, Goes, Writing
  <2>2. \A e \in Desks : Writing(e)' => e # d /\ Writing(e)
    BY <1>1, <2>1 DEF Writing
  <2>3. ~overlap => user' = asked'
    BY <2>1 DEF Undisturbed
  <2>4. ~overlap => \A e \in Desks : ~Writing(e)'
    BY <2>1, <2>2 DEF Undisturbed
  <2> QED BY <2>1, <2>3, <2>4 DEF Undisturbed
<1>13. ASSUME \/ Logout \/ RequestPasswordReset
              \/ (\E t \in 1..MaxTokens : TokenExpires(t))
              \/ (\E r \in 1..MaxResets : ResetExpires(r))
              \/ UNCHANGED vars
       PROVE  Undisturbed'
  <2>1. UNCHANGED <<user, asked, overlap, job>>
    BY <1>13 DEF Logout, RequestPasswordReset, TokenExpires, ResetExpires, History, vars
  <2> QED BY <2>1 DEF Undisturbed, Writing
<1>14. ASSUME Next PROVE Undisturbed'
  BY <1>2, <1>3, <1>4, <1>5, <1>6, <1>7, <1>8, <1>10, <1>11, <1>12, <1>13, <1>14 DEF Next
<1> QED BY <1>13, <1>14

\* No change of role, activity or password is undone by another one, whatever
\* else runs, as long as no two handlers hold a row they are going to write.
THEOREM NothingIsUndone == Spec => []NothingUndone
<1>1. Init => TypeInv /\ Undisturbed
  <2>1. Init => Undisturbed
    <3> SUFFICES ASSUME Init PROVE Undisturbed
      OBVIOUS
    <3>1. Idle.at = "idle" /\ user = asked /\ \A d \in Desks : job[d] = Idle
      BY IdleIs DEF Init
    <3> QED BY <3>1 DEF Undisturbed, Writing
  <2> QED BY <2>1, TypeStart
<1>2. TypeInv /\ Undisturbed /\ [Next]_vars => TypeInv' /\ Undisturbed'
  BY TypeStep, UndisturbedStep
<1>3. Undisturbed => NothingUndone
  BY DEF Undisturbed, NothingUndone
<1> QED BY <1>1, <1>2, <1>3, PTL DEF Spec
=============================================================================
