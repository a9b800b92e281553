--------------------------- MODULE ServicesProofs ---------------------------
(***************************************************************************)
(* What the small services promise, proved of each on its own for any      *)
(* number of requests and any bounds: repo-service leaves nothing behind,  *)
(* lists of notifications are complete, the rate limiter gives one burst,  *)
(* a status stream tells the end, an organisation's records are kept, and  *)
(* tenants are apart on a shared pool.  At the end, that the instance      *)
(* which is model-checked is a behaviour of each.                          *)
(***************************************************************************)
EXTENDS MCServices, FiniteSetTheorems, SequenceTheorems, TLAPS

-----------------------------------------------------------------------------
(***************************************************************************)
(* RepoConnection.  The ids that Create draws are its own: no two requests *)
(* share one, and the row has one of a request only when the answer of its *)
(* insert was lost (HookInv).  The same holds of the scans (ScanInv).      *)
(***************************************************************************)
Creating(c) == client[c].at \in {"hook", "insert", "undo"}
Scanning(c) == client[c].at \in {"clone", "record", "analyse", "save"}

Call == [at : {"idle", "hook", "insert", "undo", "clone", "record", "analyse", "save"},
         id : Ids, hook : Ids, scan : 0..MaxScans, found : {"nothing", "something"}]

\* A request has a hook only while it creates, a scan only while it scans.
CallInv ==
  \A c \in Clients :
    /\ ~Creating(c) \/ client[c].at = "hook" => client[c].hook = 0
    /\ ~Scanning(c) => client[c].scan = 0
    /\ Scanning(c) => client[c].id # 0 /\ client[c].scan # 0

HookInv ==
  /\ row.id <= drawn.ids
  /\ \A c \in Clients :
       Creating(c) => /\ client[c].id \in 1..drawn.ids
                      /\ client[c].hook \in {0, client[c].id}
                      /\ client[c].id = row.id => mishaps.lost = TRUE
                      /\ client[c].at = "insert" => client[c].hook \in hooks \cup {0}
  /\ \A c, d \in Clients :
       Creating(c) /\ Creating(d) /\ client[c].id = client[d].id => c = d

ScanInv ==
  /\ clones \subseteq 1..drawn.scans
  /\ \A c \in Clients :
       Scanning(c) => /\ client[c].scan <= drawn.scans
                      /\ client[c].at = "clone" => client[c].scan \notin clones
  /\ \A c, d \in Clients :
       Scanning(c) /\ Scanning(d) /\ client[c].scan = client[d].scan => c = d

HooksKept == HookInv /\ StrayHooks /\ HookIsThere
ScansKept == ScanInv /\ OpenScanRuns /\ CloneIsInUse
RepoInv == RepoTypeOK /\ CallInv /\ HooksKept /\ ScansKept

-----------------------------------------------------------------------------
LEMMA RepoTypes ==
  ASSUME RepoTypeOK
  PROVE  /\ Ids \subseteq Nat /\ MaxRepos \in Nat /\ MaxScans \in Nat /\ MaxRepoFaults \in Nat
         /\ row.id \in Nat /\ row.hook \in Nat /\ row.hook \in {0, row.id}
         /\ (row # NoRow => row.id # 0)
         /\ drawn.ids \in Nat /\ drawn.ids <= MaxRepos
         /\ drawn.scans \in Nat /\ drawn.scans <= MaxScans
         /\ mishaps.faults \in Nat /\ mishaps.faults <= MaxRepoFaults
         /\ mishaps.lost \in BOOLEAN /\ mishaps.deleted \in Nat
         /\ \A c \in Clients : client[c] \in Call
         /\ \A c \in Clients : /\ client[c].id \in Nat /\ client[c].hook \in Nat
                               /\ client[c].scan \in Nat
<1>1. MaxRepos \in Nat /\ MaxScans \in Nat /\ MaxRepoFaults \in Nat
  BY RepoAssumption
<1>2. Ids \subseteq Nat
  BY <1>1 DEF Ids
<1>3. \A c \in Clients : client[c] \in Call
  BY DEF RepoTypeOK, Call
<1>4. \A c \in Clients : client[c].id \in Nat /\ client[c].hook \in Nat /\ client[c].scan \in Nat
  BY <1>1, <1>2, <1>3 DEF Call
<1>5. row.id \in Nat /\ row.hook \in Nat /\ row.hook \in {0, row.id}
  BY <1>2 DEF RepoTypeOK
<1>6. row # NoRow => row.id # 0
  <2> SUFFICES ASSUME row.id = 0 PROVE row = NoRow
    OBVIOUS
  <2>1. row.hook = 0
    BY <1>5
  <2>2. row \in [id : Ids, hook : Ids]
    BY DEF RepoTypeOK
  <2> QED BY <2>1, <2>2 DEF NoRow
<1>7. /\ drawn.ids \in Nat /\ drawn.ids <= MaxRepos
      /\ drawn.scans \in Nat /\ drawn.scans <= MaxScans
  <2>1. drawn.ids \in 0..MaxRepos /\ drawn.scans \in 0..MaxScans
    BY DEF RepoTypeOK, Ids
  <2> QED BY <2>1, <1>1
<1>8. /\ mishaps.faults \in Nat /\ mishaps.faults <= MaxRepoFaults
      /\ mishaps.lost \in BOOLEAN /\ mishaps.deleted \in Nat
  <2>1. mishaps.faults \in 0..MaxRepoFaults /\ mishaps.lost \in BOOLEAN /\ mishaps.deleted \in Nat
    BY DEF RepoTypeOK
  <2> QED BY <2>1, <1>1
<1> QED BY <1>1, <1>2, <1>3, <1>4, <1>5, <1>6, <1>7, <1>8

\* A step of one request, and what it is afterwards.
LEMMA StepIs ==
  ASSUME RepoTypeOK, NEW c \in Clients, NEW new, Step(c, new)
  PROVE  /\ client'[c] = new /\ \A d \in Clients : d # c => client'[d] = client[d]
         /\ new \in Call => client' \in [Clients -> Call]
<1>1. client \in [Clients -> Call] /\ client' = [client EXCEPT ![c] = new]
  BY DEF RepoTypeOK, Call, Step
<1> QED BY <1>1

LEMMA WaitingIs ==
  /\ Waiting \in Call /\ Waiting.at = "idle" /\ Waiting.hook = 0 /\ Waiting.scan = 0
  /\ Waiting.found = "nothing" /\ Waiting.id = 0
<1>1. 0 \in Ids /\ 0 \in 0..MaxScans
  BY RepoAssumption DEF Ids
<1> QED BY <1>1 DEF Waiting, Call

LEMMA MovesTo ==
  ASSUME NEW r \in Call,
         NEW place \in {"idle", "hook", "insert", "undo", "clone", "record", "analyse", "save"}
  PROVE  /\ [r EXCEPT !.at = place] \in Call
         /\ [r EXCEPT !.at = place].at = place /\ [r EXCEPT !.at = place].id = r.id
         /\ [r EXCEPT !.at = place].hook = r.hook /\ [r EXCEPT !.at = place].scan = r.scan
         /\ [r EXCEPT !.at = place].found = r.found
BY DEF Call

LEMMA FaultIs ==
  ASSUME RepoTypeOK, Faulty
  PROVE  /\ mishaps'.faults = mishaps.faults + 1 /\ mishaps'.lost = mishaps.lost
         /\ mishaps'.deleted = mishaps.deleted
         /\ mishaps' \in [faults : 0..MaxRepoFaults, lost : BOOLEAN, deleted : Nat]
<1> DEFINE n == mishaps.faults + 1
<1>1. n \in 0..MaxRepoFaults
  BY RepoTypes DEF Faulty
<1>2. mishaps' = [mishaps EXCEPT !.faults = n]
  BY DEF Faulty
<1> HIDE DEF n
<1>3. mishaps \in [faults : 0..MaxRepoFaults, lost : BOOLEAN, deleted : Nat]
  BY DEF RepoTypeOK
<1>4. /\ mishaps'.faults = n /\ mishaps'.lost = mishaps.lost /\ mishaps'.deleted = mishaps.deleted
      /\ mishaps' \in [faults : 0..MaxRepoFaults, lost : BOOLEAN, deleted : Nat]
  BY <1>1, <1>2, <1>3
<1> QED BY <1>4 DEF n

-----------------------------------------------------------------------------
\* Stray webhooks: they do not grow, or by one that a mishap explains.
LEMMA HooksFinite ==
  ASSUME NEW S \in SUBSET (1..MaxRepos)
  PROVE  IsFiniteSet(S) /\ Cardinality(S) \in Nat
<1>1. IsFiniteSet(1..MaxRepos)
  <2>1. 1 \in Int /\ MaxRepos \in Int
    BY RepoAssumption
  <2> QED BY <2>1, FS_Interval
<1>2. IsFiniteSet(S)
  BY <1>1, FS_Subset
<1> QED BY <1>2, FS_CardinalityType

LEMMA StrayStays ==
  ASSUME RepoTypeOK, StrayHooks, hooks' \subseteq 1..MaxRepos,
         hooks' \ Held' \subseteq hooks \ Held,
         mishaps'.faults \in Nat, mishaps'.deleted \in Nat,
         mishaps'.faults >= mishaps.faults, mishaps'.deleted >= mishaps.deleted
  PROVE  StrayHooks'
<1> DEFINE A == hooks \ Held
           B == hooks' \ Held'
<1>1. A \subseteq 1..MaxRepos /\ B \subseteq 1..MaxRepos
  BY DEF RepoTypeOK
<1>2. IsFiniteSet(A) /\ Cardinality(A) \in Nat /\ Cardinality(B) \in Nat
  BY <1>1, HooksFinite
<1>3. Cardinality(B) <= Cardinality(A)
  BY <1>2, FS_Subset
<1>4. Cardinality(A) <= mishaps.faults + mishaps.deleted
  BY DEF StrayHooks
<1> HIDE DEF A, B
<1>5. mishaps.faults \in Nat /\ mishaps.deleted \in Nat
  BY RepoTypes
<1>6. Cardinality(B) <= mishaps'.faults + mishaps'.deleted
  BY <1>2, <1>3, <1>4, <1>5
<1> QED BY <1>6 DEF StrayHooks, B

LEMMA StrayGrows ==
  ASSUME RepoTypeOK, StrayHooks, hooks' \subseteq 1..MaxRepos,
         NEW x, hooks' \ Held' \subseteq (hooks \ Held) \cup {x},
         mishaps'.faults \in Nat, mishaps'.deleted \in Nat,
         mishaps'.faults + mishaps'.deleted = mishaps.faults + mishaps.deleted + 1
  PROVE  StrayHooks'
<1> DEFINE A == hooks \ Held
           B == hooks' \ Held'
<1>1. A \subseteq 1..MaxRepos /\ B \subseteq 1..MaxRepos
  BY DEF RepoTypeOK
<1>2. IsFiniteSet(A) /\ Cardinality(A) \in Nat /\ Cardinality(B) \in Nat
  BY <1>1, HooksFinite
<1>3. B \subseteq A \cup {x}
  OBVIOUS
<1>4. Cardinality(A) <= mishaps.faults + mishaps.deleted
  BY DEF StrayHooks
<1>5. mishaps.faults \in Nat /\ mishaps.deleted \in Nat
  BY RepoTypes
<1> HIDE DEF A, B
<1>7. IsFiniteSet(A \cup {x})
  BY <1>2, FS_AddElement
<1>8. Cardinality(A \cup {x}) \in Nat /\ Cardinality(A \cup {x}) <= Cardinality(A) + 1
  <2>1. Cardinality(A \cup {x}) = IF x \in A THEN Cardinality(A) ELSE Cardinality(A) + 1
    BY <1>2, FS_AddElement
  <2> QED BY <1>2, <2>1
<1>9. Cardinality(B) <= Cardinality(A \cup {x})
  BY <1>3, <1>7, FS_Subset
<1>10. Cardinality(B) <= mishaps'.faults + mishaps'.deleted
  BY <1>2, <1>4, <1>5, <1>8, <1>9
<1> QED BY <1>10 DEF StrayHooks, B

-----------------------------------------------------------------------------
\* A step that leaves the webhooks alone, and one that leaves the scans alone.
Others(c) == \A d \in Clients : d # c => client'[d] = client[d]

MishapsGrow ==
  /\ mishaps'.faults \in Nat /\ mishaps'.deleted \in Nat /\ mishaps'.lost \in BOOLEAN
  /\ mishaps'.faults >= mishaps.faults /\ mishaps'.deleted >= mishaps.deleted
  /\ mishaps.lost = TRUE => mishaps'.lost = TRUE

HookFrame(c) ==
  /\ UNCHANGED <<row, hooks>> /\ drawn'.ids = drawn.ids
  /\ ~Creating(c) /\ ~Creating(c)' /\ client[c].hook = 0 /\ client'[c].hook = 0
  /\ Others(c) /\ MishapsGrow

ScanFrame(c) ==
  /\ UNCHANGED <<scans, clones>> /\ drawn'.scans = drawn.scans
  /\ ~Scanning(c) /\ ~Scanning(c)' /\ client[c].scan = 0 /\ client'[c].scan = 0
  /\ Others(c) /\ MishapsGrow

LEMMA HookFrameKeeps ==
  ASSUME RepoInv, NEW c \in Clients, HookFrame(c)
  PROVE  HooksKept'
<1>1. Held' = Held
  <2>1. \A d \in Clients : client'[d].hook = client[d].hook
    BY DEF HookFrame, Others
  <2>2. row' = row
    BY DEF HookFrame
  <2> QED BY <2>1, <2>2 DEF Held
<1>2. \A d \in Clients : Creating(d)' => d # c /\ client'[d] = client[d] /\ Creating(d)
  BY DEF HookFrame, Others, Creating
<1>3. row' = row /\ hooks' = hooks /\ drawn'.ids = drawn.ids
      /\ (mishaps.lost = TRUE => mishaps'.lost = TRUE)
  BY DEF HookFrame, MishapsGrow
<1>4. HookInv'
  <2>1. HookInv
    BY DEF RepoInv, HooksKept
  <2> QED BY <1>2, <1>3, <2>1 DEF HookInv
<1>5. StrayHooks'
  <2>1. RepoTypeOK /\ StrayHooks
    BY DEF RepoInv, HooksKept
  <2>2. hooks' \subseteq 1..MaxRepos
    BY <1>3, <2>1 DEF RepoTypeOK
  <2> QED BY <1>1, <1>3, <2>1, <2>2, StrayStays DEF HookFrame, MishapsGrow
<1>6. HookIsThere'
  BY <1>3 DEF RepoInv, HooksKept, HookIsThere, HookFrame, MishapsGrow, RepoTypeOK
<1> QED BY <1>4, <1>5, <1>6 DEF HooksKept

LEMMA ScanFrameKeeps ==
  ASSUME RepoInv, NEW c \in Clients, ScanFrame(c)
  PROVE  ScansKept'
<1>1. \A d \in Clients : Scanning(d)' => d # c /\ client'[d] = client[d] /\ Scanning(d)
  BY DEF ScanFrame, Others, Scanning
<1>2. \A d \in Clients : client[d].scan # 0 => d # c /\ client'[d] = client[d]
  BY DEF ScanFrame, Others
<1>3. scans' = scans /\ clones' = clones /\ drawn'.scans = drawn.scans
  BY DEF ScanFrame
<1>4. mishaps.faults > 0 => mishaps'.faults > 0
  <2>1. mishaps.faults \in Nat
    BY RepoTypes DEF RepoInv
  <2> QED BY <2>1 DEF ScanFrame, MishapsGrow
<1>5. ScanInv'
  BY <1>1, <1>3 DEF RepoInv, ScansKept, ScanInv
<1>6. OpenScanRuns'
  <2>1. \A d \in Clients : client[d].at \in {"analyse", "save"} => client'[d] = client[d]
    BY DEF ScanFrame, Others, Scanning
  <2> QED BY <1>3, <1>4, <2>1 DEF RepoInv, ScansKept, OpenScanRuns
<1>7. CloneIsInUse'
  <2>1. \A n \in clones : n # 0
    BY RepoAssumption DEF RepoInv, RepoTypeOK
  <2>2. ASSUME NEW n \in clones', mishaps'.faults = 0
        PROVE  \E d \in Clients : client'[d].scan = n
    <3>1. n \in clones /\ ~(mishaps.faults > 0)
      <4>1. ~(mishaps'.faults > 0)
        BY <2>2
      <4> QED BY <1>3, <1>4, <4>1
    <3>2. PICK d \in Clients : client[d].scan = n
      BY <3>1 DEF RepoInv, ScansKept, CloneIsInUse
    <3> QED BY <1>2, <2>1, <3>1, <3>2
  <2>3. mishaps'.faults \in Nat
    BY DEF ScanFrame, MishapsGrow
  <2> QED BY <2>2, <2>3 DEF CloneIsInUse
<1> QED BY <1>5, <1>6, <1>7 DEF ScansKept

\* Calls that keep what CallInv says of them keep the invariant of calls.
LEMMA CallInvKeeps ==
  ASSUME CallInv, NEW c \in Clients, Others(c),
         ~Creating(c)' \/ client'[c].at = "hook" => client'[c].hook = 0,
         ~Scanning(c)' => client'[c].scan = 0,
         Scanning(c)' => client'[c].id # 0 /\ client'[c].scan # 0
  PROVE  CallInv'
BY DEF CallInv, Others, Creating, Scanning

\* The type invariant of a step, from those of the rows it writes.
LEMMA RepoTypesKept ==
  ASSUME RepoTypeOK, NEW c \in Clients, NEW new \in Call, Step(c, new),
         row' \in [id : Ids, hook : Ids], row'.hook \in {0, row'.id},
         hooks' \subseteq 1..MaxRepos,
         scans' \subseteq [no : 1..MaxScans, repo : 1..MaxRepos,
                           state : {"open", "nothing", "something"}],
         clones' \subseteq 1..MaxScans,
         drawn' \in [ids : Ids, scans : 0..MaxScans],
         mishaps' \in [faults : 0..MaxRepoFaults, lost : BOOLEAN, deleted : Nat]
  PROVE  RepoTypeOK'
<1>1. client' \in [Clients -> Call]
  BY StepIs
<1> QED BY <1>1 DEF RepoTypeOK, Call

-----------------------------------------------------------------------------
\* Create draws an id of its own.
LEMMA GetByURLKeeps ==
  ASSUME RepoInv, NEW c \in Clients, GetByURL(c)
  PROVE  RepoInv'
<1> DEFINE n == drawn.ids + 1
<1>0. RepoTypeOK /\ CallInv /\ HooksKept /\ ScansKept
  BY DEF RepoInv
<1>1. /\ client[c].at = "idle" /\ drawn.ids < MaxRepos
      /\ UNCHANGED <<row, hooks, scans, clones>>
      /\ drawn' = [drawn EXCEPT !.ids = n]
  BY DEF GetByURL
<1>2. n \in 1..MaxRepos /\ n \in Ids /\ n > drawn.ids
  BY <1>0, <1>1, RepoTypes DEF Ids
<1>3. drawn' \in [ids : Ids, scans : 0..MaxScans] /\ drawn'.ids = n /\ drawn'.scans = drawn.scans
  <2>1. drawn \in [ids : Ids, scans : 0..MaxScans]
    BY <1>0 DEF RepoTypeOK
  <2> HIDE DEF n
  <2> QED BY <1>1, <1>2, <2>1
<1>4. PICK place \in {"hook", "insert"} : Step(c, [Waiting EXCEPT !.at = place, !.id = n])
  BY DEF GetByURL
<1> DEFINE new == [Waiting EXCEPT !.at = place, !.id = n]
<1>5. /\ new \in Call /\ new.at \in {"hook", "insert"} /\ new.id = n
      /\ new.hook = 0 /\ new.scan = 0
  <2> HIDE DEF n
  <2>1. 0 \in Ids /\ 0 \in 0..MaxScans
    BY RepoAssumption DEF Ids
  <2> QED BY <1>2, <2>1 DEF Waiting, Call
<1>6. client'[c] = new /\ Others(c)
  BY <1>0, <1>4, StepIs DEF Others
<1>7. MishapsGrow /\ mishaps' \in [faults : 0..MaxRepoFaults, lost : BOOLEAN, deleted : Nat]
  <2>1. CASE UNCHANGED mishaps
    BY <1>0, <2>1, RepoTypes DEF MishapsGrow, RepoTypeOK
  <2>2. CASE Faulty
    BY <1>0, <2>2, RepoTypes, FaultIs DEF MishapsGrow
  <2> QED BY <2>1, <2>2 DEF GetByURL
<1> HIDE DEF new
<1>8. RepoTypeOK'
  BY <1>0, <1>1, <1>3, <1>4, <1>5, <1>7, RepoTypesKept DEF RepoTypeOK, new
<1>9. CallInv'
  BY <1>0, <1>5, <1>6, CallInvKeeps DEF Scanning
<1>10. ScansKept'
  <2>1. client[c].scan = 0
    BY <1>0, <1>1 DEF CallInv, Scanning
  <2>2. ScanFrame(c)
    BY <1>1, <1>3, <1>5, <1>6, <1>7, <2>1 DEF ScanFrame, Scanning
  <2> QED BY <2>2, ScanFrameKeeps
<1>11. HookInv'
  <2>1. /\ row.id <= drawn.ids /\ row.id \in Nat /\ drawn.ids \in Nat /\ n \in Nat
        /\ n > drawn.ids
    BY <1>0, <1>2, RepoTypes DEF HooksKept, HookInv
  <2>2. row.id # n /\ row.id <= n
    BY <2>1
  <2>3. \A d \in Clients : d # c /\ Creating(d)' =>
          Creating(d) /\ client'[d] = client[d] /\ client[d].id # n /\ client[d].id \in 1..n
    <3>1. \A d \in Clients : Creating(d) => client[d].id \in 1..drawn.ids
      BY <1>0 DEF HooksKept, HookInv
    <3>2. \A i \in 1..drawn.ids : i # n /\ i \in 1..n
      BY <2>1
    <3> QED BY <1>6, <3>1, <3>2 DEF Others, Creating
  <2>4. n \in 1..n
    BY <2>1
  <2>5. mishaps.lost = TRUE => mishaps'.lost = TRUE
    BY <1>7 DEF MishapsGrow
  <2> QED BY <1>0, <1>1, <1>3, <1>5, <1>6, <2>2, <2>3, <2>4, <2>5 DEF HooksKept, HookInv
<1>12. StrayHooks' /\ HookIsThere'
  <2>1. client[c].hook = 0
    BY <1>0, <1>1 DEF CallInv, Creating
  <2>2. \A d \in Clients : client'[d].hook = client[d].hook
    BY <1>5, <1>6, <2>1 DEF Others
  <2>3. Held' = Held
    BY <1>1, <2>2 DEF Held
  <2>4. StrayHooks'
    BY <1>0, <1>1, <1>7, <2>3, StrayStays DEF HooksKept, MishapsGrow, RepoTypeOK
  <2>5. HookIsThere'
    BY <1>0, <1>1, <1>7 DEF HooksKept, HookIsThere, MishapsGrow, RepoTypeOK
  <2> QED BY <2>4, <2>5
<1> QED BY <1>8, <1>9, <1>10, <1>11, <1>12 DEF RepoInv, HooksKept

\* What a step of a request that creates does to the rest: its scans are none.
LEMMA CreatingFrame ==
  ASSUME RepoInv, NEW c \in Clients, Creating(c), NEW new \in Call, Step(c, new),
         new.scan = 0, new.at \in {"insert", "undo", "idle"}, new.at = "idle" => new.hook = 0,
         UNCHANGED <<scans, clones, drawn>>, MishapsGrow
  PROVE  CallInv' /\ ScansKept' /\ client'[c] = new /\ Others(c)
<1>1. client'[c] = new /\ Others(c)
  BY StepIs DEF RepoInv, Others
<1>2. CallInv'
  BY <1>1, CallInvKeeps DEF RepoInv, Creating, Scanning
<1>3. ScanFrame(c)
  <2>1. ~Scanning(c) /\ ~Scanning(c)'
    BY <1>1 DEF Creating, Scanning
  <2>2. client[c].scan = 0
    BY <2>1 DEF RepoInv, CallInv
  <2> QED BY <1>1, <2>1, <2>2 DEF ScanFrame
<1> QED BY <1>1, <1>2, <1>3, ScanFrameKeeps

LEMMA HeldStays ==
  ASSUME RepoTypeOK, hooks' \subseteq hooks \cup Held', Held \subseteq Held' \cup {0}
  PROVE  hooks' \ Held' \subseteq hooks \ Held
<1>1. 0 \notin hooks
  BY RepoAssumption DEF RepoTypeOK
<1> QED BY <1>1

\* A request ends on a fault and may leave a webhook.
LEMMA DropKeeps ==
  ASSUME RepoInv, NEW c \in Clients, Creating(c), Returns(c), Faulty,
         UNCHANGED <<row, drawn, scans, clones>>,
         hooks \subseteq hooks', hooks' \subseteq 1..MaxRepos,
         NEW x, client[c].hook \in {0, x}, hooks' \subseteq hooks \cup {x}
  PROVE  RepoInv'
<1>0. RepoTypeOK /\ CallInv /\ HooksKept /\ ScansKept
  BY DEF RepoInv
<1>1. Step(c, Waiting) /\ Waiting \in Call
  BY WaitingIs DEF Returns
<1>2. /\ mishaps'.faults = mishaps.faults + 1 /\ mishaps'.lost = mishaps.lost
      /\ mishaps'.deleted = mishaps.deleted
      /\ mishaps' \in [faults : 0..MaxRepoFaults, lost : BOOLEAN, deleted : Nat]
  BY <1>0, FaultIs
<1>3. MishapsGrow
  BY <1>0, <1>2, RepoTypes DEF MishapsGrow
<1>4. CallInv' /\ ScansKept' /\ client'[c] = Waiting /\ Others(c)
  BY <1>1, <1>3, WaitingIs, CreatingFrame
<1>5. RepoTypeOK'
  BY <1>0, <1>1, <1>2, RepoTypesKept DEF RepoTypeOK
<1>6. HookInv'
  <2>1. \A d \in Clients : Creating(d)' => d # c /\ client'[d] = client[d] /\ Creating(d)
    BY <1>4, WaitingIs DEF Others, Creating
  <2> QED BY <1>0, <1>2, <2>1 DEF HooksKept, HookInv
<1>7. StrayHooks'
  <2>1. Held \subseteq Held' \cup {0, x}
    BY <1>4 DEF Held, Others
  <2>2. 0 \notin hooks
    BY <1>0, RepoAssumption DEF RepoTypeOK
  <2>3. hooks' \ Held' \subseteq (hooks \ Held) \cup {x}
    BY <2>1, <2>2
  <2>4. mishaps'.faults + mishaps'.deleted = mishaps.faults + mishaps.deleted + 1
    BY <1>0, <1>2, RepoTypes
  <2>5. mishaps'.faults \in Nat /\ mishaps'.deleted \in Nat
    BY <1>3 DEF MishapsGrow
  <2> QED BY <1>0, <2>3, <2>4, <2>5, StrayGrows DEF HooksKept
<1>8. HookIsThere'
  BY <1>0, <1>2 DEF HooksKept, HookIsThere
<1> QED BY <1>4, <1>5, <1>6, <1>7, <1>8 DEF RepoInv, HooksKept

LEMMA CreateWebhookKeeps ==
  ASSUME RepoInv, NEW c \in Clients, CreateWebhook(c)
  PROVE  RepoInv'
<1> DEFINE i == client[c].id
           new == [client[c] EXCEPT !.at = "insert", !.hook = i]
<1>0. RepoTypeOK /\ CallInv /\ HooksKept /\ ScansKept /\ client[c] \in Call
  BY RepoTypes DEF RepoInv
<1>1. client[c].at = "hook" /\ Creating(c) /\ UNCHANGED <<row, scans, clones, drawn>>
  BY DEF CreateWebhook, Creating
<1>2. client[c].hook = 0 /\ client[c].scan = 0
  BY <1>0, <1>1 DEF CallInv, Scanning
<1>3. i \in 1..drawn.ids /\ i \in 1..MaxRepos /\ i \in Ids
  <2>1. i \in 1..drawn.ids
    BY <1>0, <1>1 DEF HooksKept, HookInv
  <2> QED BY <1>0, <2>1, RepoTypes DEF Ids
<1>4. CASE Faulty /\ hooks' \in {hooks, hooks \cup {i}} /\ Returns(c)
  <2>1. hooks \subseteq hooks' /\ hooks' \subseteq hooks \cup {i} /\ hooks' \subseteq 1..MaxRepos
    BY <1>0, <1>3, <1>4 DEF RepoTypeOK
  <2> QED BY <1>1, <1>2, <1>4, <2>1, DropKeeps
<1>5. CASE hooks' = hooks \cup {i} /\ Step(c, new) /\ UNCHANGED mishaps
  <2>1. /\ new \in Call /\ new.at = "insert" /\ new.hook = i /\ new.id = i /\ new.scan = 0
    BY <1>0, <1>2, <1>3 DEF Call
  <2> HIDE DEF new
  <2>2. MishapsGrow
    BY <1>0, <1>5, RepoTypes DEF MishapsGrow
  <2>3. CallInv' /\ ScansKept' /\ client'[c] = new /\ Others(c)
    BY <1>1, <1>5, <2>1, <2>2, CreatingFrame
  <2>4. hooks' \subseteq 1..MaxRepos
    BY <1>0, <1>3, <1>5 DEF RepoTypeOK
  <2>5. RepoTypeOK'
    BY <1>0, <1>1, <1>5, <2>1, <2>4, RepoTypesKept DEF RepoTypeOK
  <2>6. HookInv'
    <3>1. \A d \in Clients : /\ Creating(d)' => Creating(d)
                             /\ client'[d].id = client[d].id
                             /\ d # c => client'[d] = client[d]
      BY <1>1, <2>1, <2>3 DEF Others, Creating
    <3>2. \A d \in Clients : client'[d].at = "insert" => client'[d].hook \in hooks' \cup {0}
      BY <1>0, <1>5, <2>1, <2>3 DEF Others, HooksKept, HookInv, Creating
    <3>3. \A d \in Clients : Creating(d)' => client'[d].hook \in {0, client'[d].id}
      BY <1>0, <2>1, <2>3 DEF Others, HooksKept, HookInv, Creating
    <3> QED BY <1>0, <1>1, <1>5, <3>1, <3>2, <3>3 DEF HooksKept, HookInv
  <2>7. StrayHooks'
    <3>1. Held \subseteq Held' \cup {0} /\ i \in Held'
      BY <1>1, <1>2, <2>1, <2>3 DEF Held, Others
    <3>2. hooks' \ Held' \subseteq hooks \ Held
      BY <1>0, <1>5, <3>1, HeldStays
    <3> QED BY <1>0, <2>2, <2>4, <3>2, StrayStays DEF HooksKept, MishapsGrow
  <2>8. HookIsThere'
    BY <1>0, <1>1, <1>5 DEF HooksKept, HookIsThere
  <2> QED BY <2>3, <2>5, <2>6, <2>7, <2>8 DEF RepoInv, HooksKept
<1> QED BY <1>4, <1>5 DEF CreateWebhook

\* The insert is stored, or undone though it may have been.
LEMMA StoredKeeps ==
  ASSUME RepoInv, NEW c \in Clients, client[c].at = "insert",
         NEW new \in Call, Step(c, new), new.scan = 0,
         \/ new = Waiting
         \/ /\ new.at = "undo" /\ new.id = client[c].id /\ new.hook = client[c].hook
            /\ mishaps'.lost = TRUE,
         row' = [id |-> client[c].id, hook |-> client[c].hook], row = NoRow,
         UNCHANGED <<hooks, scans, clones, drawn>>, MishapsGrow,
         mishaps' \in [faults : 0..MaxRepoFaults, lost : BOOLEAN, deleted : Nat]
  PROVE  RepoInv'
<1> DEFINE i == client[c].id
           h == client[c].hook
<1>0. RepoTypeOK /\ CallInv /\ HooksKept /\ ScansKept /\ client[c] \in Call
  BY RepoTypes DEF RepoInv
<1>1. Creating(c)
  BY DEF Creating
<1>2. /\ i \in 1..drawn.ids /\ i \in Ids /\ h \in Ids /\ h \in {0, i} /\ h \in hooks \cup {0}
  BY <1>0, <1>1 DEF HooksKept, HookInv, Call
<1>3. row'.id = i /\ row'.hook = h /\ row' \in [id : Ids, hook : Ids]
  BY <1>2
<1> HIDE DEF i, h
<1>4. CallInv' /\ ScansKept' /\ client'[c] = new /\ Others(c)
  BY <1>1, WaitingIs, CreatingFrame
<1>5. RepoTypeOK'
  BY <1>0, <1>2, <1>3, RepoTypesKept DEF RepoTypeOK
<1>6. HookInv'
  <2>1. row'.id <= drawn'.ids
    BY <1>0, <1>2, <1>3, RepoTypes
  <2>2. \A d \in Clients : /\ Creating(d)' => Creating(d) /\ client'[d].id = client[d].id
                                              /\ client'[d].hook = client[d].hook
                           /\ client'[d].at = "insert" => client'[d] = client[d]
    BY <1>1, <1>4, WaitingIs DEF Others, Creating, i, h
  <2>3. \A d \in Clients : Creating(d)' /\ d = c => mishaps'.lost = TRUE
    BY <1>4, WaitingIs DEF Creating
  <2>4. \A d \in Clients : Creating(d)' /\ client'[d].id = i => mishaps'.lost = TRUE
    BY <1>0, <1>1, <2>2, <2>3 DEF HooksKept, HookInv, i
  <2> QED BY <1>0, <1>3, <2>1, <2>2, <2>4 DEF HooksKept, HookInv, Creating
<1>7. StrayHooks'
  <2>1. Held \subseteq Held' \cup {0}
    <3>1. row.hook = 0
      BY DEF NoRow
    <3>2. h \in Held'
      BY <1>3 DEF Held
    <3>3. \A d \in Clients : client[d].hook = h \/ client'[d].hook = client[d].hook
      BY <1>4 DEF Others, h
    <3> QED BY <3>1, <3>2, <3>3 DEF Held
  <2>2. hooks' \ Held' \subseteq hooks \ Held
    BY <1>0, <2>1, HeldStays
  <2>3. hooks' \subseteq 1..MaxRepos
    BY <1>0 DEF RepoTypeOK
  <2> QED BY <1>0, <2>2, <2>3, StrayStays DEF HooksKept, MishapsGrow
<1>8. HookIsThere'
  BY <1>2, <1>3 DEF HookIsThere
<1> QED BY <1>4, <1>5, <1>6, <1>7, <1>8 DEF RepoInv, HooksKept

\* The request goes on to undo its webhook.
LEMMA UndoKeeps ==
  ASSUME RepoInv, NEW c \in Clients, client[c].at = "insert", GoesTo(c, "undo"),
         UNCHANGED <<row, hooks, scans, clones, drawn>>, MishapsGrow,
         mishaps'.lost = mishaps.lost,
         mishaps' \in [faults : 0..MaxRepoFaults, lost : BOOLEAN, deleted : Nat]
  PROVE  RepoInv'
<1> DEFINE new == [client[c] EXCEPT !.at = "undo"]
<1>0. RepoTypeOK /\ CallInv /\ HooksKept /\ ScansKept /\ client[c] \in Call
  BY RepoTypes DEF RepoInv
<1>1. Step(c, new) /\ Creating(c) /\ client[c].scan = 0
  BY <1>0 DEF GoesTo, Creating, Scanning, CallInv
<1>2. /\ new \in Call /\ new.at = "undo" /\ new.id = client[c].id /\ new.hook = client[c].hook
      /\ new.scan = 0
  BY <1>0, <1>1, MovesTo
<1> HIDE DEF new
<1>3. CallInv' /\ ScansKept' /\ client'[c] = new /\ Others(c)
  BY <1>1, <1>2, CreatingFrame
<1>4. RepoTypeOK'
  BY <1>0, <1>1, <1>2, RepoTypesKept DEF RepoTypeOK
<1>5. \A d \in Clients : /\ client'[d].id = client[d].id /\ client'[d].hook = client[d].hook
                         /\ Creating(d)' => Creating(d)
                         /\ client'[d].at = "insert" => client[d].at = "insert"
  BY <1>1, <1>2, <1>3 DEF Others, Creating
<1>6. HookInv'
  BY <1>0, <1>5 DEF HooksKept, HookInv
<1>7. StrayHooks'
  <2>1. Held' = Held
    BY <1>5 DEF Held
  <2>2. hooks' \subseteq 1..MaxRepos
    BY <1>0 DEF RepoTypeOK
  <2> QED BY <1>0, <2>1, <2>2, StrayStays DEF HooksKept, MishapsGrow
<1>8. HookIsThere'
  BY <1>0 DEF HooksKept, HookIsThere
<1> QED BY <1>3, <1>4, <1>6, <1>7, <1>8 DEF RepoInv, HooksKept

LEMMA InsertRepositoryKeeps ==
  ASSUME RepoInv, NEW c \in Clients, InsertRepository(c)
  PROVE  RepoInv'
<1>0. RepoTypeOK /\ CallInv /\ client[c] \in Call
  BY RepoTypes DEF RepoInv
<1>1. client[c].at = "insert" /\ UNCHANGED <<hooks, scans, clones, drawn>>
  BY DEF InsertRepository
<1>2. client[c].scan = 0
  BY <1>0, <1>1 DEF CallInv, Scanning
<1>3. ASSUME UNCHANGED mishaps
      PROVE  MishapsGrow /\ mishaps' \in [faults : 0..MaxRepoFaults, lost : BOOLEAN, deleted : Nat]
  BY <1>0, <1>3, RepoTypes DEF MishapsGrow, RepoTypeOK
<1>4. CASE /\ row = NoRow /\ row' = [id |-> client[c].id, hook |-> client[c].hook]
           /\ Returns(c) /\ UNCHANGED mishaps
  <2>1. Step(c, Waiting) /\ Waiting \in Call /\ Waiting.scan = 0
    BY <1>4, WaitingIs DEF Returns
  <2> QED BY <1>1, <1>3, <1>4, <2>1, StoredKeeps
<1>5. CASE GoesTo(c, "undo") /\ UNCHANGED <<row, mishaps>>
  BY <1>1, <1>3, <1>5, UndoKeeps
<1>6. CASE Faulty /\ GoesTo(c, "undo") /\ UNCHANGED row
  <2>1. MishapsGrow
    BY <1>0, <1>6, FaultIs, RepoTypes DEF MishapsGrow
  <2> QED BY <1>0, <1>1, <1>6, <2>1, FaultIs, UndoKeeps
<1>7. CASE /\ mishaps.faults < MaxRepoFaults /\ row = NoRow
           /\ row' = [id |-> client[c].id, hook |-> client[c].hook]
           /\ mishaps' = [mishaps EXCEPT !.faults = @ + 1, !.lost = TRUE]
           /\ GoesTo(c, "undo")
  <2> DEFINE new == [client[c] EXCEPT !.at = "undo"]
             n == mishaps.faults + 1
  <2>1. /\ new \in Call /\ new.at = "undo" /\ new.id = client[c].id
        /\ new.hook = client[c].hook /\ new.scan = 0
    BY <1>0, <1>2, MovesTo
  <2>2. Step(c, new)
    BY <1>7 DEF GoesTo
  <2>3. /\ n \in 0..MaxRepoFaults /\ n \in Nat /\ n >= mishaps.faults
    BY <1>0, <1>7, RepoTypes
  <2>4. mishaps' = [mishaps EXCEPT !.faults = n, !.lost = TRUE]
    BY <1>7
  <2> HIDE DEF new, n
  <2>5. /\ mishaps' \in [faults : 0..MaxRepoFaults, lost : BOOLEAN, deleted : Nat]
        /\ mishaps'.faults = n /\ mishaps'.lost = TRUE /\ mishaps'.deleted = mishaps.deleted
    BY <1>0, <2>3, <2>4 DEF RepoTypeOK
  <2>6. MishapsGrow
    BY <1>0, <2>3, <2>5, RepoTypes DEF MishapsGrow
  <2> QED BY <1>1, <1>7, <2>1, <2>2, <2>5, <2>6, StoredKeeps
<1> QED BY <1>1, <1>4, <1>5, <1>6, <1>7 DEF InsertRepository

LEMMA DeleteWebhookKeeps ==
  ASSUME RepoInv, NEW c \in Clients, DeleteWebhook(c)
  PROVE  RepoInv'
<1> DEFINE h == client[c].hook
<1>0. RepoTypeOK /\ CallInv /\ HooksKept /\ ScansKept
  BY DEF RepoInv
<1>1. /\ client[c].at = "undo" /\ Creating(c) /\ Returns(c)
      /\ UNCHANGED <<row, scans, clones, drawn>>
  BY DEF DeleteWebhook, Creating
<1>2. CASE h # 0 /\ Faulty /\ UNCHANGED hooks
  <2>1. hooks' \subseteq 1..MaxRepos
    BY <1>0, <1>2 DEF RepoTypeOK
  <2> QED BY <1>1, <1>2, <2>1, DropKeeps
<1>3. CASE hooks' = hooks \ {h} /\ UNCHANGED mishaps
  <2>1. Step(c, Waiting) /\ Waiting \in Call
    BY <1>1, WaitingIs DEF Returns
  <2>2. MishapsGrow
    BY <1>0, <1>3, RepoTypes DEF MishapsGrow
  <2>3. CallInv' /\ ScansKept' /\ client'[c] = Waiting /\ Others(c)
    BY <1>1, <2>1, <2>2, WaitingIs, CreatingFrame
  <2>4. hooks' \subseteq 1..MaxRepos
    BY <1>0, <1>3 DEF RepoTypeOK
  <2>5. RepoTypeOK'
    BY <1>0, <1>1, <1>3, <2>1, <2>4, RepoTypesKept DEF RepoTypeOK
  <2>6. h \in {0, client[c].id} /\ client[c].id # 0
    <3>1. client[c].id \in 1..drawn.ids /\ h \in {0, client[c].id}
      BY <1>0, <1>1 DEF HooksKept, HookInv
    <3> QED BY <1>0, <3>1, RepoTypes
  <2>7. \A d \in Clients : Creating(d)' => d # c /\ client'[d] = client[d] /\ Creating(d)
    BY <2>3, WaitingIs DEF Others, Creating
  <2>8. \A d \in Clients : client'[d].at = "insert" => client'[d].hook \in hooks' \cup {0}
    <3> SUFFICES ASSUME NEW d \in Clients, client'[d].at = "insert"
                 PROVE  client'[d].hook \in hooks' \cup {0}
      OBVIOUS
    <3>1. d # c /\ client'[d] = client[d] /\ Creating(d)
      BY <2>7 DEF Creating
    <3>2. client[d].hook \in hooks \cup {0} /\ client[d].hook \in {0, client[d].id}
          /\ client[d].id # client[c].id
      BY <1>0, <1>1, <3>1 DEF HooksKept, HookInv
    <3> QED BY <1>3, <2>6, <3>1, <3>2
  <2>9. HookInv'
    BY <1>0, <1>1, <1>3, <2>7, <2>8 DEF HooksKept, HookInv
  <2>10. StrayHooks'
    <3>1. Held \subseteq Held' \cup {h}
      BY <1>1, <2>3 DEF Held, Others
    <3>2. hooks' \ Held' \subseteq hooks \ Held
      BY <1>3, <3>1
    <3> QED BY <1>0, <2>2, <2>4, <3>2, StrayStays DEF HooksKept, MishapsGrow
  <2>11. HookIsThere'
    <3>1. row.hook \in hooks \cup {0} \/ mishaps.lost = TRUE
      BY <1>0, RepoTypes DEF HooksKept, HookIsThere
    <3>2. row.hook = h /\ h # 0 => mishaps.lost = TRUE
      <4>1. row.hook \in {0, row.id}
        BY <1>0, RepoTypes
      <4> QED BY <1>0, <1>1, <2>6, <4>1 DEF HooksKept, HookInv
    <3>3. row' = row /\ mishaps' = mishaps
      BY <1>1, <1>3
    <3> QED BY <1>3, <3>1, <3>2, <3>3 DEF HookIsThere
  <2> QED BY <2>3, <2>5, <2>9, <2>10, <2>11 DEF RepoInv, HooksKept
<1> QED BY <1>2, <1>3 DEF DeleteWebhook

LEMMA DeleteRepositoryKeeps ==
  ASSUME RepoInv, DeleteRepository
  PROVE  RepoInv'
<1>0. RepoTypeOK /\ CallInv /\ HooksKept /\ ScansKept
  BY DEF RepoInv
<1>1. /\ row' = NoRow /\ scans' = {} /\ UNCHANGED <<hooks, clones, client, drawn>>
      /\ NoRow.id = 0 /\ NoRow.hook = 0 /\ NoRow \in [id : Ids, hook : Ids]
  <2>1. 0 \in Ids
    BY RepoAssumption DEF Ids
  <2> QED BY <2>1 DEF DeleteRepository, NoRow
<1>2. /\ mishaps'.faults = mishaps.faults /\ mishaps'.lost = mishaps.lost
      /\ mishaps'.deleted = mishaps.deleted + 1
      /\ mishaps' \in [faults : 0..MaxRepoFaults, lost : BOOLEAN, deleted : Nat]
  <2> DEFINE n == mishaps.deleted + 1
  <2>1. n \in Nat
    BY <1>0, RepoTypes
  <2>2. mishaps' = [mishaps EXCEPT !.deleted = n]
    BY DEF DeleteRepository
  <2> HIDE DEF n
  <2>3. /\ mishaps'.faults = mishaps.faults /\ mishaps'.lost = mishaps.lost
        /\ mishaps'.deleted = n
        /\ mishaps' \in [faults : 0..MaxRepoFaults, lost : BOOLEAN, deleted : Nat]
    BY <1>0, <2>1, <2>2 DEF RepoTypeOK
  <2> QED BY <2>3 DEF n
<1>3. RepoTypeOK'
  BY <1>0, <1>1, <1>2 DEF RepoTypeOK
<1>4. CallInv' /\ ScansKept'
  BY <1>0, <1>1, <1>2
     DEF CallInv, Creating, Scanning, ScansKept, ScanInv, OpenScanRuns, CloneIsInUse
<1>5. HookInv'
  <2>1. 0 <= drawn.ids /\ \A i \in 1..drawn.ids : i # 0
    BY <1>0, RepoTypes
  <2>2. \A c \in Clients : Creating(c) => client[c].id # 0
    BY <1>0, <2>1 DEF HooksKept, HookInv
  <2>3. \A c \in Clients : Creating(c)' <=> Creating(c)
    BY <1>1 DEF Creating
  <2> QED BY <1>0, <1>1, <2>1, <2>2, <2>3 DEF HooksKept, HookInv
<1>6. StrayHooks'
  <2>1. Held \subseteq Held' \cup {row.hook}
    BY <1>1 DEF Held
  <2>2. hooks' \ Held' \subseteq (hooks \ Held) \cup {row.hook}
    BY <1>1, <2>1
  <2>3. mishaps'.faults + mishaps'.deleted = mishaps.faults + mishaps.deleted + 1
    BY <1>0, <1>2, RepoTypes
  <2>4. hooks' \subseteq 1..MaxRepos
    BY <1>0, <1>1 DEF RepoTypeOK
  <2>5. mishaps'.faults \in Nat /\ mishaps'.deleted \in Nat
    BY <1>0, <1>2, RepoTypes
  <2> QED BY <1>0, <2>2, <2>3, <2>4, <2>5, StrayGrows DEF HooksKept
<1>7. HookIsThere'
  BY <1>1 DEF HookIsThere
<1> QED BY <1>3, <1>4, <1>5, <1>6, <1>7 DEF RepoInv, HooksKept

-----------------------------------------------------------------------------
\* What a step of a request that scans does to the rest: its hook is none.
LEMMA ScanningFrame ==
  ASSUME RepoInv, NEW c \in Clients, ~Creating(c), NEW new \in Call, Step(c, new),
         new.hook = 0, new.at \in {"clone", "record", "analyse", "save", "idle"},
         new.at = "idle" => new.scan = 0, new.at # "idle" => new.scan # 0 /\ new.id # 0,
         UNCHANGED <<row, hooks>>, drawn'.ids = drawn.ids, MishapsGrow
  PROVE  CallInv' /\ HooksKept' /\ client'[c] = new /\ Others(c)
<1>1. client'[c] = new /\ Others(c)
  BY StepIs DEF RepoInv, Others
<1>2. CallInv'
  BY <1>1, CallInvKeeps DEF RepoInv, Creating, Scanning
<1>3. HookFrame(c)
  <2>1. ~Creating(c)'
    BY <1>1 DEF Creating
  <2>2. client[c].hook = 0
    BY DEF RepoInv, CallInv
  <2> QED BY <1>1, <2>1, <2>2 DEF HookFrame
<1> QED BY <1>1, <1>2, <1>3, HookFrameKeeps

LEMMA NoMishap ==
  ASSUME RepoTypeOK, UNCHANGED mishaps
  PROVE  MishapsGrow /\ mishaps' \in [faults : 0..MaxRepoFaults, lost : BOOLEAN, deleted : Nat]
BY RepoTypes DEF MishapsGrow, RepoTypeOK

LEMMA OneMishap ==
  ASSUME RepoTypeOK, Faulty
  PROVE  /\ MishapsGrow /\ mishaps'.faults > 0
         /\ mishaps' \in [faults : 0..MaxRepoFaults, lost : BOOLEAN, deleted : Nat]
BY RepoTypes, FaultIs DEF MishapsGrow

LEMMA BeginScanKeeps ==
  ASSUME RepoInv, NEW c \in Clients, BeginScan(c)
  PROVE  RepoInv'
<1> DEFINE n == drawn.scans + 1
           new == [Waiting EXCEPT !.at = "clone", !.id = row.id, !.scan = n]
<1>0. RepoTypeOK /\ CallInv /\ HooksKept /\ ScansKept
  BY DEF RepoInv
<1>1. /\ client[c].at = "idle" /\ drawn.scans < MaxScans /\ row # NoRow
      /\ UNCHANGED <<row, hooks, scans, clones, mishaps>>
      /\ drawn' = [drawn EXCEPT !.scans = n] /\ Step(c, new)
  BY DEF BeginScan
<1>2. n \in 1..MaxScans /\ n \in 0..MaxScans /\ n # 0 /\ n > drawn.scans
      /\ 1..drawn.scans \subseteq 1..n /\ n \notin 1..drawn.scans
  BY <1>0, <1>1, RepoTypes
<1>3. row.id \in Ids /\ row.id # 0
  BY <1>0, <1>1, RepoTypes DEF RepoTypeOK
<1> HIDE DEF n
<1>4. drawn' \in [ids : Ids, scans : 0..MaxScans] /\ drawn'.ids = drawn.ids /\ drawn'.scans = n
  BY <1>0, <1>1, <1>2 DEF RepoTypeOK
<1>5. /\ new \in Call /\ new.at = "clone" /\ new.id = row.id /\ new.hook = 0 /\ new.scan = n
  <2>1. 0 \in Ids
    BY RepoAssumption DEF Ids
  <2> QED BY <1>2, <1>3, <2>1 DEF Waiting, Call
<1> HIDE DEF new
<1>6. MishapsGrow /\ mishaps' \in [faults : 0..MaxRepoFaults, lost : BOOLEAN, deleted : Nat]
  BY <1>0, <1>1, NoMishap
<1>7. CallInv' /\ HooksKept' /\ client'[c] = new /\ Others(c)
  BY <1>1, <1>2, <1>3, <1>4, <1>5, <1>6, ScanningFrame DEF Creating
<1>8. RepoTypeOK'
  BY <1>0, <1>1, <1>4, <1>5, <1>6, RepoTypesKept DEF RepoTypeOK
<1>9. ScanInv'
  <2>1. \A d \in Clients : d # c /\ Scanning(d)' =>
          Scanning(d) /\ client'[d] = client[d] /\ client[d].scan # n /\ client[d].scan <= n
    <3> SUFFICES ASSUME NEW d \in Clients, d # c, Scanning(d)'
                 PROVE  /\ Scanning(d) /\ client'[d] = client[d]
                        /\ client[d].scan # n /\ client[d].scan <= n
      OBVIOUS
    <3>1. Scanning(d) /\ client'[d] = client[d]
      BY <1>7 DEF Others, Scanning
    <3>2. client[d].scan <= drawn.scans /\ client[d].scan \in Nat /\ drawn.scans \in Nat
      BY <1>0, <3>1, RepoTypes DEF ScansKept, ScanInv
    <3> QED BY <1>2, <3>1, <3>2
  <2>2. n \notin clones /\ n <= n
    BY <1>0, <1>2 DEF ScansKept, ScanInv
  <2> QED BY <1>0, <1>1, <1>2, <1>4, <1>5, <1>7, <2>1, <2>2 DEF ScansKept, ScanInv, Scanning
<1>10. OpenScanRuns' /\ CloneIsInUse'
  <2>1. client[c].scan = 0
    BY <1>0, <1>1 DEF CallInv, Scanning
  <2>2. \A d \in Clients : client[d].scan # 0 => client'[d] = client[d]
    BY <1>7, <2>1 DEF Others
  <2>3. \A k \in clones : k # 0
    BY <1>0, RepoAssumption DEF RepoTypeOK
  <2>4. \A d \in Clients : client[d].at \in {"analyse", "save"} => client'[d] = client[d]
    BY <1>1, <1>7 DEF Others
  <2> QED BY <1>0, <1>1, <2>2, <2>3, <2>4 DEF ScansKept, OpenScanRuns, CloneIsInUse
<1> QED BY <1>7, <1>8, <1>9, <1>10 DEF RepoInv, ScansKept

\* A request that returns: its directory is gone, and its scan is not open,
\* unless something failed.
LEMMA ScanEnds ==
  ASSUME RepoInv, NEW c \in Clients, Scanning(c), Returns(c),
         UNCHANGED <<row, hooks, drawn>>, MishapsGrow,
         mishaps' \in [faults : 0..MaxRepoFaults, lost : BOOLEAN, deleted : Nat],
         clones' \subseteq clones,
         scans' \subseteq [no : 1..MaxScans, repo : 1..MaxRepos,
                           state : {"open", "nothing", "something"}],
         mishaps'.faults > 0 \/ client[c].scan \notin clones',
         \/ mishaps'.faults > 0
         \/ \A s \in scans' : s.state = "open" =>
              s \in scans /\ (client[c].at \in {"analyse", "save"} => s.no # client[c].scan)
  PROVE  RepoInv'
<1>0. RepoTypeOK /\ CallInv /\ HooksKept /\ ScansKept
  BY DEF RepoInv
<1>1. Step(c, Waiting) /\ Waiting \in Call /\ ~Creating(c)
  BY WaitingIs DEF Returns, Creating, Scanning
<1>2. CallInv' /\ HooksKept' /\ client'[c] = Waiting /\ Others(c)
  BY <1>1, WaitingIs, ScanningFrame
<1>3. RepoTypeOK'
  BY <1>0, <1>1, RepoTypesKept DEF RepoTypeOK
<1>4. \A d \in Clients : Scanning(d)' => d # c /\ Scanning(d) /\ client'[d] = client[d]
  BY <1>2, WaitingIs DEF Others, Scanning
<1>5. ScanInv'
  BY <1>0, <1>4 DEF ScansKept, ScanInv
<1>6. mishaps.faults > 0 => mishaps'.faults > 0
  BY <1>0, RepoTypes DEF MishapsGrow
<1>7. OpenScanRuns'
  <2> SUFFICES ASSUME NEW s \in scans', s.state = "open", ~(mishaps'.faults > 0)
               PROVE  \E d \in Clients : client'[d].scan = s.no /\ client'[d].at \in {"analyse", "save"}
    BY DEF OpenScanRuns
  <2>1. s \in scans /\ (client[c].at \in {"analyse", "save"} => s.no # client[c].scan)
    OBVIOUS
  <2>2. PICK d \in Clients : client[d].scan = s.no /\ client[d].at \in {"analyse", "save"}
    BY <1>0, <1>6, <2>1 DEF ScansKept, OpenScanRuns
  <2>3. d # c
    BY <2>1, <2>2
  <2> QED BY <1>2, <2>2, <2>3 DEF Others
<1>8. CloneIsInUse'
  <2> SUFFICES ASSUME NEW n \in clones', ~(mishaps'.faults > 0)
               PROVE  \E d \in Clients : client'[d].scan = n
    BY DEF CloneIsInUse
  <2>1. n \in clones /\ n # client[c].scan
    OBVIOUS
  <2>2. PICK d \in Clients : client[d].scan = n
    BY <1>0, <1>6, <2>1 DEF ScansKept, CloneIsInUse
  <2> QED BY <1>2, <2>1, <2>2 DEF Others
<1> QED BY <1>2, <1>3, <1>5, <1>7, <1>8 DEF RepoInv, ScansKept

\* A request that goes on keeps its scan.
LEMMA ScanGoesOn ==
  ASSUME RepoInv, NEW c \in Clients, Scanning(c), NEW new \in Call, Step(c, new),
         new.at \in {"record", "analyse", "save"}, new.id = client[c].id,
         new.hook = client[c].hook, new.scan = client[c].scan,
         client[c].at \in {"analyse", "save"} => new.at \in {"analyse", "save"},
         UNCHANGED <<row, hooks, drawn, mishaps>>,
         clones' \subseteq clones \cup {new.scan},
         client[c].at = "clone" \/ clones' = clones,
         scans' \subseteq [no : 1..MaxScans, repo : 1..MaxRepos,
                           state : {"open", "nothing", "something"}],
         \A s \in scans' : s \in scans \/ (s.no = new.scan /\ new.at = "analyse")
  PROVE  RepoInv'
<1>0. RepoTypeOK /\ CallInv /\ HooksKept /\ ScansKept
  BY DEF RepoInv
<1>1. MishapsGrow /\ mishaps' \in [faults : 0..MaxRepoFaults, lost : BOOLEAN, deleted : Nat]
  BY <1>0, NoMishap
<1>2. /\ ~Creating(c) /\ client[c].hook = 0 /\ client[c].scan # 0 /\ client[c].id # 0
      /\ client[c].scan \in 1..drawn.scans /\ client[c].scan \in 1..MaxScans
  <2>1. ~Creating(c)
    BY DEF Creating, Scanning
  <2>2. client[c].hook = 0 /\ client[c].scan # 0 /\ client[c].id # 0
    BY <1>0, <2>1 DEF CallInv
  <2>3. client[c].scan <= drawn.scans
    BY <1>0 DEF ScansKept, ScanInv
  <2> QED BY <1>0, <2>1, <2>2, <2>3, RepoTypes
<1>3. CallInv' /\ HooksKept' /\ client'[c] = new /\ Others(c)
  BY <1>1, <1>2, ScanningFrame
<1>4. clones' \subseteq 1..MaxScans /\ clones' \subseteq 1..drawn.scans
  BY <1>0, <1>2 DEF RepoTypeOK, ScansKept, ScanInv
<1>5. RepoTypeOK'
  BY <1>0, <1>1, <1>4, RepoTypesKept DEF RepoTypeOK
<1>6. \A d \in Clients : /\ client'[d].scan = client[d].scan
                         /\ d # c => client'[d] = client[d]
                         /\ Scanning(d)' => Scanning(d)
  BY <1>3 DEF Others, Scanning
<1>7. ScanInv'
  <2>1. \A d \in Clients : client'[d].at = "clone" => client'[d].scan \notin clones'
    <3> SUFFICES ASSUME NEW d \in Clients, client'[d].at = "clone"
                 PROVE  client'[d].scan \notin clones'
      OBVIOUS
    <3>1. d # c /\ client'[d] = client[d] /\ Scanning(d)
      BY <1>3, <1>6 DEF Scanning
    <3>2. client[d].scan # client[c].scan /\ client[d].scan \notin clones
      BY <1>0, <3>1 DEF ScansKept, ScanInv
    <3> QED BY <3>1, <3>2
  <2> QED BY <1>0, <1>4, <1>6, <2>1 DEF ScansKept, ScanInv
<1>8. OpenScanRuns'
  <2> SUFFICES ASSUME NEW s \in scans', s.state = "open", ~(mishaps'.faults > 0)
               PROVE  \E d \in Clients : client'[d].scan = s.no /\ client'[d].at \in {"analyse", "save"}
    BY DEF OpenScanRuns
  <2>1. CASE s \in scans
    <3>1. PICK d \in Clients : client[d].scan = s.no /\ client[d].at \in {"analyse", "save"}
      BY <1>0, <2>1 DEF ScansKept, OpenScanRuns
    <3> QED BY <1>3, <1>6, <3>1
  <2>2. CASE s.no = new.scan /\ new.at = "analyse"
    BY <1>3, <2>2
  <2> QED BY <2>1, <2>2
<1>9. CloneIsInUse'
  <2> SUFFICES ASSUME NEW n \in clones', ~(mishaps'.faults > 0)
               PROVE  \E d \in Clients : client'[d].scan = n
    BY DEF CloneIsInUse
  <2>1. n \in clones => \E d \in Clients : client[d].scan = n
    BY <1>0 DEF ScansKept, CloneIsInUse
  <2>2. n \notin clones => client'[c].scan = n
    BY <1>3
  <2> QED BY <1>6, <2>1, <2>2
<1> QED BY <1>3, <1>5, <1>7, <1>8, <1>9 DEF RepoInv, ScansKept

LEMMA PullCodeKeeps ==
  ASSUME RepoInv, NEW c \in Clients, PullCode(c)
  PROVE  RepoInv'
<1>0. RepoTypeOK /\ ScansKept /\ client[c] \in Call
  BY RepoTypes DEF RepoInv
<1>1. client[c].at = "clone" /\ Scanning(c) /\ UNCHANGED <<row, hooks, scans, drawn, mishaps>>
  BY DEF PullCode, Scanning
<1>2. CASE clones' = clones \cup {client[c].scan} /\ GoesTo(c, "record")
  <2> DEFINE new == [client[c] EXCEPT !.at = "record"]
  <2>1. /\ new \in Call /\ new.at = "record" /\ new.id = client[c].id
        /\ new.hook = client[c].hook /\ new.scan = client[c].scan
    BY <1>0, MovesTo
  <2>2. Step(c, new)
    BY <1>2 DEF GoesTo
  <2> HIDE DEF new
  <2>3. scans' \subseteq [no : 1..MaxScans, repo : 1..MaxRepos,
                          state : {"open", "nothing", "something"}]
    BY <1>0, <1>1 DEF RepoTypeOK
  <2> QED BY <1>1, <1>2, <2>1, <2>2, <2>3, ScanGoesOn
<1>3. CASE UNCHANGED clones /\ Returns(c)
  <2>1. client[c].scan \notin clones
    BY <1>0, <1>1 DEF ScansKept, ScanInv
  <2>2. MishapsGrow /\ mishaps' \in [faults : 0..MaxRepoFaults, lost : BOOLEAN, deleted : Nat]
    BY <1>0, <1>1, NoMishap
  <2> QED BY <1>0, <1>1, <1>3, <2>1, <2>2, ScanEnds DEF RepoTypeOK
<1> QED BY <1>2, <1>3 DEF PullCode

LEMMA CreateScanRecordKeeps ==
  ASSUME RepoInv, NEW c \in Clients, CreateScanRecord(c)
  PROVE  RepoInv'
<1>0. RepoTypeOK /\ CallInv /\ ScansKept /\ client[c] \in Call
  BY RepoTypes DEF RepoInv
<1>1. client[c].at = "record" /\ Scanning(c) /\ UNCHANGED <<row, hooks, drawn>>
  BY DEF CreateScanRecord, Scanning
<1>2. CASE /\ row.id = client[c].id
           /\ scans' = scans \cup {[no |-> client[c].scan, repo |-> row.id, state |-> "open"]}
           /\ GoesTo(c, "analyse") /\ UNCHANGED <<clones, mishaps>>
  <2> DEFINE new == [client[c] EXCEPT !.at = "analyse"]
             scan == [no |-> client[c].scan, repo |-> row.id, state |-> "open"]
  <2>1. /\ new \in Call /\ new.at = "analyse" /\ new.id = client[c].id
        /\ new.hook = client[c].hook /\ new.scan = client[c].scan
    BY <1>0, MovesTo
  <2>2. Step(c, new)
    BY <1>2 DEF GoesTo
  <2>3. client[c].scan \in 1..MaxScans /\ row.id \in 1..MaxRepos
    <3>1. client[c].scan # 0 /\ client[c].id # 0
      BY <1>0, <1>1 DEF CallInv
    <3>2. client[c].scan \in 0..MaxScans /\ row.id \in 0..MaxRepos
      BY <1>0 DEF RepoTypeOK, Call, Ids
    <3> QED BY <1>2, <3>1, <3>2, RepoAssumption
  <2>4. scan \in [no : 1..MaxScans, repo : 1..MaxRepos, state : {"open", "nothing", "something"}]
        /\ scan.no = new.scan
    BY <2>1, <2>3
  <2>5. scans' = scans \cup {scan}
    BY <1>2
  <2> HIDE DEF new, scan
  <2>6. scans' \subseteq [no : 1..MaxScans, repo : 1..MaxRepos,
                          state : {"open", "nothing", "something"}]
    BY <1>0, <2>4, <2>5 DEF RepoTypeOK
  <2>7. \A s \in scans' : s \in scans \/ (s.no = new.scan /\ new.at = "analyse")
    BY <2>1, <2>4, <2>5
  <2> QED BY <1>1, <1>2, <2>1, <2>2, <2>6, <2>7, ScanGoesOn
<1>3. CASE CleansUp(c) /\ UNCHANGED scans /\ (UNCHANGED mishaps \/ Faulty)
  <2>1. Returns(c) /\ clones' = clones \ {client[c].scan}
    BY <1>3 DEF CleansUp
  <2>2. MishapsGrow /\ mishaps' \in [faults : 0..MaxRepoFaults, lost : BOOLEAN, deleted : Nat]
    BY <1>0, <1>3, NoMishap, OneMishap
  <2> QED BY <1>0, <1>1, <1>3, <2>1, <2>2, ScanEnds DEF RepoTypeOK
<1> QED BY <1>2, <1>3 DEF CreateScanRecord

LEMMA AnalyzeDirectoryKeeps ==
  ASSUME RepoInv, NEW c \in Clients, AnalyzeDirectory(c)
  PROVE  RepoInv'
<1>0. RepoTypeOK /\ client[c] \in Call
  BY RepoTypes DEF RepoInv
<1>1. /\ client[c].at = "analyse" /\ Scanning(c)
      /\ UNCHANGED <<row, hooks, scans, clones, drawn, mishaps>>
  BY DEF AnalyzeDirectory, Scanning
<1>2. PICK found \in {"nothing", "something"} :
        Step(c, [client[c] EXCEPT !.at = "save", !.found = found])
  BY DEF AnalyzeDirectory
<1> DEFINE new == [client[c] EXCEPT !.at = "save", !.found = found]
<1>3. /\ new \in Call /\ new.at = "save" /\ new.id = client[c].id
      /\ new.hook = client[c].hook /\ new.scan = client[c].scan
  BY <1>0 DEF Call
<1> HIDE DEF new
<1>4. scans' \subseteq [no : 1..MaxScans, repo : 1..MaxRepos,
                        state : {"open", "nothing", "something"}]
  BY <1>0, <1>1 DEF RepoTypeOK
<1> QED BY <1>1, <1>2, <1>3, <1>4, ScanGoesOn DEF new

LEMMA UpdateScanRecordKeeps ==
  ASSUME RepoInv, NEW c \in Clients, UpdateScanRecord(c)
  PROVE  RepoInv'
<1>0. RepoTypeOK /\ client[c] \in Call
  BY RepoTypes DEF RepoInv
<1>1. /\ client[c].at = "save" /\ Scanning(c) /\ UNCHANGED <<row, hooks, drawn>>
      /\ Returns(c) /\ clones' = clones \ {client[c].scan}
  BY DEF UpdateScanRecord, Scanning, CleansUp
<1>2. CASE /\ scans' = {IF s.no = client[c].scan THEN [s EXCEPT !.state = client[c].found] ELSE s
                         : s \in scans}
           /\ UNCHANGED mishaps
  <2> DEFINE f == client[c].found
             Scan == [no : 1..MaxScans, repo : 1..MaxRepos, state : {"open", "nothing", "something"}]
  <2>1. f \in {"nothing", "something"}
    BY <1>0 DEF Call
  <2>2. \A s \in Scan : [s EXCEPT !.state = f] \in Scan /\ [s EXCEPT !.state = f].state = f
    BY <2>1
  <2>3. scans \subseteq Scan
    BY <1>0 DEF RepoTypeOK
  <2> HIDE DEF Scan, f
  <2>4. scans' = {IF s.no = client[c].scan THEN [s EXCEPT !.state = f] ELSE s : s \in scans}
    BY <1>2 DEF f
  <2>5. scans' \subseteq Scan
    BY <2>2, <2>3, <2>4
  <2>6. \A s \in scans' : s.state = "open" => s \in scans /\ s.no # client[c].scan
    BY <2>1, <2>2, <2>3, <2>4
  <2>7. MishapsGrow /\ mishaps' \in [faults : 0..MaxRepoFaults, lost : BOOLEAN, deleted : Nat]
    BY <1>0, <1>2, NoMishap
  <2> QED BY <1>1, <2>5, <2>6, <2>7, ScanEnds DEF Scan
<1>3. CASE Faulty /\ UNCHANGED scans
  <2>1. /\ MishapsGrow /\ mishaps'.faults > 0
        /\ mishaps' \in [faults : 0..MaxRepoFaults, lost : BOOLEAN, deleted : Nat]
    BY <1>0, <1>3, OneMishap
  <2> QED BY <1>0, <1>1, <1>3, <2>1, ScanEnds DEF RepoTypeOK
<1> QED BY <1>2, <1>3 DEF UpdateScanRecord

LEMMA RequestDiesKeeps ==
  ASSUME RepoInv, NEW c \in Clients, RequestDies(c)
  PROVE  RepoInv'
<1>0. RepoTypeOK /\ client[c] \in Call
  BY RepoTypes DEF RepoInv
<1>1. Faulty /\ Returns(c) /\ UNCHANGED <<row, hooks, scans, clones, drawn>>
  BY DEF RequestDies
<1>2. Creating(c) \/ Scanning(c)
  BY <1>0 DEF RequestDies, Creating, Scanning, Call
<1>3. CASE Creating(c)
  BY <1>0, <1>1, <1>3, DropKeeps DEF RepoTypeOK
<1>4. CASE Scanning(c)
  <2>1. /\ MishapsGrow /\ mishaps'.faults > 0
        /\ mishaps' \in [faults : 0..MaxRepoFaults, lost : BOOLEAN, deleted : Nat]
    BY <1>0, <1>1, OneMishap
  <2> QED BY <1>0, <1>1, <1>4, <2>1, ScanEnds DEF RepoTypeOK
<1> QED BY <1>2, <1>3, <1>4

-----------------------------------------------------------------------------
LEMMA RepoStart == RepoInit => RepoInv
<1> SUFFICES ASSUME RepoInit PROVE RepoInv
    OBVIOUS
<1>1. /\ row = NoRow /\ hooks = {} /\ scans = {} /\ clones = {}
      /\ client = [c \in Clients |-> Waiting]
      /\ drawn = [ids |-> 0, scans |-> 0]
      /\ mishaps = [faults |-> 0, lost |-> FALSE, deleted |-> 0]
  BY DEF RepoInit
<1>2. 0 \in Ids /\ 0 \in 0..MaxScans /\ 0 \in 0..MaxRepoFaults
  BY RepoAssumption DEF Ids
<1>3. \A c \in Clients : client[c] = Waiting /\ ~Creating(c) /\ ~Scanning(c)
  BY <1>1, WaitingIs DEF Creating, Scanning
<1>4. RepoTypeOK
  BY <1>1, <1>2, WaitingIs DEF RepoTypeOK, NoRow, Call
<1>5. CallInv
  BY <1>3, WaitingIs DEF CallInv
<1>6. HookInv /\ ScanInv
  BY <1>1, <1>3, WaitingIs DEF HookInv, ScanInv, NoRow
<1>7. HookIsThere /\ OpenScanRuns /\ CloneIsInUse
  BY <1>1 DEF HookIsThere, OpenScanRuns, CloneIsInUse, NoRow
<1>8. StrayHooks
  <2>1. hooks \ Held = {}
    BY <1>1
  <2>2. Cardinality(hooks \ Held) = 0
    BY <2>1, FS_EmptySet
  <2>3. mishaps.faults = 0 /\ mishaps.deleted = 0
    BY <1>1
  <2> QED BY <2>2, <2>3 DEF StrayHooks
<1> QED BY <1>4, <1>5, <1>6, <1>7, <1>8 DEF RepoInv, HooksKept, ScansKept

LEMMA RepoStepKeeps == RepoInv /\ [RepoNext]_repoVars => RepoInv'
<1> SUFFICES ASSUME RepoInv, [RepoNext]_repoVars PROVE RepoInv'
    OBVIOUS
<1>1. CASE UNCHANGED repoVars
  BY <1>1 DEF repoVars, RepoInv, RepoTypeOK, CallInv, Creating, Scanning, HooksKept, HookInv,
              StrayHooks, Held, HookIsThere, ScansKept, ScanInv, OpenScanRuns, CloneIsInUse
<1>2. CASE DeleteRepository
  BY <1>2, DeleteRepositoryKeeps
<1>3. ASSUME NEW c \in Clients,
             \/ GetByURL(c) \/ CreateWebhook(c) \/ InsertRepository(c) \/ DeleteWebhook(c)
             \/ BeginScan(c) \/ PullCode(c) \/ CreateScanRecord(c)
             \/ AnalyzeDirectory(c) \/ UpdateScanRecord(c) \/ RequestDies(c)
      PROVE  RepoInv'
  BY <1>3, GetByURLKeeps, CreateWebhookKeeps, InsertRepositoryKeeps, DeleteWebhookKeeps,
     BeginScanKeeps, PullCodeKeeps, CreateScanRecordKeeps, AnalyzeDirectoryKeeps,
     UpdateScanRecordKeeps, RequestDiesKeeps
<1> QED BY <1>1, <1>2, <1>3 DEF RepoNext

\* Whatever requests of repo-service interleave, fail or die, a webhook
\* without a repository is explained by a fault or a deletion, a repository's
\* webhook exists unless its insert was undone, and no scan stays open and no
\* clone stays on disk unless something failed.
THEOREM NothingIsLeft == RepoSpec => []NothingLeftBehind
<1>1. RepoInv => NothingLeftBehind
  BY DEF RepoInv, HooksKept, ScansKept, NothingLeftBehind
<1> QED BY <1>1, RepoStart, RepoStepKeeps, PTL DEF RepoSpec

-----------------------------------------------------------------------------
(***************************************************************************)
(* Notifications.  A walk has seen what its pages have passed: since rows  *)
(* only move on to later pages, those before the current one hold nothing  *)
(* it has not seen (Passed).  A row's place in its list is the number of   *)
(* newer ones, and the list of a filter is what was sent on its channel.   *)
(***************************************************************************)
Place(filter, n) == Cardinality(Newer(filter, n))
Early(filter, there) == Listed(filter) \cap (1..there)

Passed(edge) ==
  \A n \in Early(walk.filter, walk.there) : Place(walk.filter, n) < edge => n \in walk.seen

WalkInv ==
  walk.size \in 1..LargestSize /\ ~squeezed =>
    /\ walk.at # "idle" => Passed((walk.page - 1) * walk.size)
    /\ walk.at = "page" => walk.total = Cardinality(Listed(walk.filter))
    /\ walk.at = "idle" => Early(walk.filter, walk.there) \subseteq walk.seen

TextInv == \A n \in 1..Len(events) : events[n].channel = StoredText(sent[n])

NoteInv ==
  /\ NoteTypeOK /\ TextInv /\ WalkInv
  /\ walk.seen \subseteq Listed(walk.filter)
  /\ walk.there <= Len(events)
  /\ walk.at # "idle" => walk.page >= 1

Event == [channel : Texts, read : BOOLEAN]
Walk == [at : {"idle", "count", "page"}, filter : Channels \cup {Unspecified},
         size : PageSizes \cup {0}, page : Nat, pages : Nat, total : 0..MaxSent,
         seen : SUBSET (1..MaxSent), there : 0..MaxSent]

LEMMA NoteTypes ==
  ASSUME NoteTypeOK
  PROVE  /\ events \in Seq(Event) /\ Len(events) \in Nat /\ Len(events) <= MaxSent
         /\ DOMAIN events = 1..Len(events)
         /\ sent \in Seq(Channels) /\ Len(sent) = Len(events) /\ DOMAIN sent = 1..Len(events)
         /\ MaxSent \in Nat /\ LargestSize \in Nat
         /\ walk \in Walk /\ walk.size \in Int /\ walk.page \in Nat
         /\ walk.total \in Nat /\ walk.there \in Nat /\ squeezed \in BOOLEAN
<1>1. events \in Seq(Event) /\ sent \in Seq(Channels) /\ Len(sent) = Len(events)
      /\ Len(events) <= MaxSent
  BY DEF NoteTypeOK, Event
<1>2. Len(events) \in Nat /\ DOMAIN events = 1..Len(events) /\ DOMAIN sent = 1..Len(events)
  BY <1>1
<1>3. MaxSent \in Nat /\ LargestSize \in Nat /\ PageSizes \subseteq Int
  BY NoteAssumption
<1>4. walk \in Walk /\ squeezed \in BOOLEAN
  BY DEF NoteTypeOK, Walk
<1>5. walk.size \in Int /\ walk.page \in Nat /\ walk.total \in Nat /\ walk.there \in Nat
  <2>1. /\ walk.size \in PageSizes \cup {0} /\ walk.page \in Nat
        /\ walk.total \in 0..MaxSent /\ walk.there \in 0..MaxSent
    BY <1>4 DEF Walk
  <2>2. \A k \in 0..MaxSent : k \in Nat
    BY <1>3
  <2>3. \A k \in PageSizes \cup {0} : k \in Int
    BY <1>3
  <2> QED BY <2>1, <2>2, <2>3
<1> QED BY <1>1, <1>2, <1>3, <1>4, <1>5

\* The list of a filter is a set of rows, and a row's place is one in it.
LEMMA ListTypes ==
  ASSUME NoteTypeOK, NEW f
  PROVE  /\ Listed(f) \subseteq 1..Len(events)
         /\ Cardinality(Listed(f)) \in 0..MaxSent
         /\ \A n \in Listed(f) : Place(f, n) \in Nat /\ Place(f, n) < Cardinality(Listed(f))
<1> DEFINE L == Listed(f)
           m == Len(events)
<1>1. L \subseteq 1..m /\ m \in Nat /\ m <= MaxSent /\ MaxSent \in Nat
  BY NoteTypes DEF Listed
<1> HIDE DEF m
<1>2. IsFiniteSet(1..m) /\ Cardinality(1..m) = m
  <2>1. /\ IsFiniteSet(1..m)
        /\ Cardinality(1..m) = IF 1 > m THEN 0 ELSE m - 1 + 1
    BY <1>1, FS_Interval
  <2> QED BY <1>1, <2>1
<1>3. IsFiniteSet(L) /\ Cardinality(L) <= m
  BY <1>1, <1>2, FS_Subset
<1>4. Cardinality(L) \in Nat
  BY <1>3, FS_CardinalityType
<1>5. ASSUME NEW n \in L PROVE Place(f, n) \in Nat /\ Place(f, n) < Cardinality(L)
  <2> DEFINE N == Newer(f, n)
  <2>1. N \subseteq L /\ n \notin N
    <3>1. n \in Int
      BY <1>1
    <3> QED BY <3>1 DEF Newer
  <2>2. IsFiniteSet(N) /\ Cardinality(N) <= Cardinality(L)
    BY <1>3, <2>1, FS_Subset
  <2>3. Cardinality(N) # Cardinality(L)
    <3> SUFFICES ASSUME Cardinality(N) = Cardinality(L) PROVE FALSE
      OBVIOUS
    <3>1. N = L
      BY <1>3, <2>1, FS_Subset
    <3> QED BY <2>1, <3>1
  <2>4. Cardinality(N) \in Nat
    BY <2>2, FS_CardinalityType
  <2> QED BY <1>4, <2>2, <2>3, <2>4 DEF Place
<1> HIDE DEF L
<1>6. Cardinality(L) \in 0..MaxSent
  BY <1>1, <1>3, <1>4
<1> QED BY <1>1, <1>5, <1>6 DEF L, m

\* The pages of a walk reach every row.
LEMMA PagesReach ==
  ASSUME NEW total \in Nat, NEW size \in Nat \ {0}
  PROVE  Pages(total, size) \in Nat /\ total <= Pages(total, size) * size
<1> DEFINE q == (total + size - 1) \div size
<1>1. q \in Nat /\ total + size - 1 < (q + 1) * size
  OBVIOUS
<1>2. Pages(total, size) = q
  BY DEF Pages
<1> HIDE DEF q
<1>3. (q + 1) * size = q * size + size
  BY <1>1
<1>4. q * size \in Int
  BY <1>1
<1>5. total <= q * size
  BY <1>1, <1>3, <1>4
<1> QED BY <1>1, <1>2, <1>5

LEMMA PagesAre == ASSUME NEW total \in Nat, NEW size \in Int PROVE Pages(total, size) \in Nat
<1>1. CASE size > 0
  <2>1. size \in Nat \ {0}
    BY <1>1
  <2> QED BY <2>1, PagesReach
<1>2. CASE ~(size > 0)
  BY <1>2 DEF Pages
<1> QED BY <1>1, <1>2

-----------------------------------------------------------------------------
\* A new row is the newest of the lists it is in: the others keep or gain a
\* place.
LEMMA SendMoves ==
  ASSUME NoteTypeOK, NEW c \in Channels, SendNotification(c), NEW f
  PROVE  /\ Listed(f) \subseteq Listed(f)'
         /\ Listed(f)' \cap (1..Len(events)) = Listed(f)
         /\ \A n \in Listed(f) : Place(f, n) <= Place(f, n)' /\ Place(f, n)' \in Nat
<1> DEFINE m == Len(events)
           e == [channel |-> StoredText(c), read |-> FALSE]
<1>1. m \in Nat /\ events \in Seq(Event) /\ events' = Append(events, e)
      /\ DOMAIN events = 1..m
  BY NoteTypes DEF SendNotification
<1>2. e \in Event
  BY DEF Event, StoredText, Texts
<1> HIDE DEF e
<1>3. DOMAIN events' = 1..(m + 1) /\ \A k \in 1..m : events'[k] = events[k]
  BY <1>1, <1>2
<1> HIDE DEF m
<1>4. Listed(f) \subseteq 1..m /\ Listed(f)' \subseteq 1..(m + 1)
  BY <1>1, <1>3 DEF Listed
<1>5. \A k \in 1..m : k \in Listed(f)' <=> k \in Listed(f)
  BY <1>1, <1>3 DEF Listed, FilterText
<1>6. Listed(f) \subseteq Listed(f)' /\ Listed(f)' \cap (1..m) = Listed(f)
  BY <1>4, <1>5
<1>7. ASSUME NEW n \in Listed(f) PROVE Place(f, n) <= Place(f, n)' /\ Place(f, n)' \in Nat
  <2>1. Newer(f, n) \subseteq Newer(f, n)' /\ Newer(f, n)' \subseteq 1..(m + 1)
    BY <1>4, <1>6 DEF Newer
  <2>2. IsFiniteSet(1..(m + 1))
    BY <1>1, FS_Interval
  <2>3. IsFiniteSet(Newer(f, n)')
    BY <2>1, <2>2, FS_Subset
  <2>4. Cardinality(Newer(f, n)) <= Cardinality(Newer(f, n)')
    BY <2>1, <2>3, FS_Subset
  <2>5. Cardinality(Newer(f, n)') \in Nat
    BY <2>3, FS_CardinalityType
  <2> QED BY <2>4, <2>5 DEF Place
<1> QED BY <1>6, <1>7 DEF m

LEMMA SendKeeps ==
  ASSUME NoteInv, NEW c \in Channels, SendNotification(c)
  PROVE  NoteInv'
<1> DEFINE e == [channel |-> StoredText(c), read |-> FALSE]
           n == Len(events)
           f == walk.filter
<1>0. NoteTypeOK
  BY DEF NoteInv
<1>1. /\ n < MaxSent /\ n \in Nat /\ events' = Append(events, e) /\ sent' = Append(sent, c)
      /\ walk' = walk
  BY <1>0, NoteTypes DEF SendNotification
<1>2. e \in Event /\ e.channel = StoredText(c)
  BY DEF Event, StoredText, Texts
<1> HIDE DEF e
<1>3. events \in Seq(Event) /\ sent \in Seq(Channels) /\ Len(sent) = n
  BY <1>0, NoteTypes
<1>4. /\ events' \in Seq(Event) /\ Len(events') = n + 1 /\ events'[n + 1] = e
      /\ \A k \in 1..n : events'[k] = events[k]
  BY <1>1, <1>2, <1>3
<1>5. /\ sent' \in Seq(Channels) /\ Len(sent') = n + 1 /\ sent'[n + 1] = c
      /\ \A k \in 1..n : sent'[k] = sent[k]
  BY <1>1, <1>3
<1>6. squeezed' = (squeezed \/ walk.at = "page")
  BY DEF SendNotification
<1>7. NoteTypeOK'
  <2>1. squeezed' \in BOOLEAN
    BY <1>6
  <2>2. n + 1 <= MaxSent
    BY <1>1, <1>0, NoteTypes
  <2> QED BY <1>0, <1>1, <1>4, <1>5, <2>1, <2>2 DEF NoteTypeOK, Event
<1>8. TextInv'
  <2>1. \A k \in 1..(n + 1) : k \in 1..n \/ k = n + 1
    BY <1>1
  <2>2. \A k \in 1..n : events[k].channel = StoredText(sent[k])
    BY DEF NoteInv, TextInv
  <2> QED BY <1>2, <1>4, <1>5, <2>1, <2>2 DEF TextInv, StoredText
<1>9. /\ Listed(f) \subseteq Listed(f)' /\ f' = f /\ walk.there' = walk.there
      /\ Listed(f)' \cap (1..n) = Listed(f)
      /\ \A k \in Listed(f) : Place(f, k) <= Place(f, k)' /\ Place(f, k)' \in Nat
  BY <1>0, <1>1, SendMoves
<1>10. walk.there \in Nat /\ walk.there <= n
  BY <1>0, NoteTypes DEF NoteInv
<1>11. Early(f, walk.there)' = Early(f, walk.there)
  <2>1. 1..walk.there \subseteq 1..n
    BY <1>1, <1>10
  <2> QED BY <1>9, <2>1 DEF Early
<1>12. WalkInv'
  <2> SUFFICES ASSUME walk.size \in 1..LargestSize, ~squeezed'
               PROVE  /\ walk.at # "idle" => Passed((walk.page - 1) * walk.size)'
                      /\ walk.at # "page"
                      /\ walk.at = "idle" => Early(f, walk.there)' \subseteq walk.seen
    BY <1>1 DEF WalkInv
  <2>1. ~squeezed /\ walk.at # "page"
    BY <1>6, <1>0, NoteTypes
  <2>2. ASSUME walk.at # "idle" PROVE Passed((walk.page - 1) * walk.size)'
    <3> DEFINE edge == (walk.page - 1) * walk.size
    <3>1. \A k \in Early(f, walk.there) : Place(f, k) < edge => k \in walk.seen
      BY <2>1, <2>2 DEF NoteInv, WalkInv, Passed
    <3>2. edge \in Int
      BY <1>0, NoteTypes
    <3>3. edge' = edge
      BY <1>1 DEF edge
    <3> HIDE DEF edge
    <3>4. \A k \in Early(f, walk.there) : Place(f, k)' < edge => Place(f, k) < edge
      <4>1. \A k \in Listed(f) : Place(f, k) \in Nat
        BY <1>0, ListTypes
      <4> QED BY <1>9, <3>2, <4>1 DEF Early
    <3>5. \A k \in Early(f, walk.there)' : Place(f, k)' < edge => k \in walk.seen
      BY <1>11, <3>1, <3>4
    <3> QED BY <1>1, <3>3, <3>5 DEF Passed, edge
  <2>3. walk.at = "idle" => Early(f, walk.there)' \subseteq walk.seen
    BY <1>11, <2>1 DEF NoteInv, WalkInv
  <2> QED BY <2>1, <2>2, <2>3
<1>13. (walk.there <= Len(events))'
  BY <1>1, <1>4, <1>10
<1>14. (walk.seen \subseteq Listed(walk.filter))'
  BY <1>1, <1>9 DEF NoteInv
<1> QED BY <1>1, <1>7, <1>8, <1>12, <1>13, <1>14 DEF NoteInv

\* Reading leaves the texts and the order of the rows alone.
LEMMA ReadingKeeps ==
  ASSUME NoteInv, UNCHANGED <<sent, walk, squeezed>>, events' \in Seq(Event),
         Len(events') = Len(events),
         \A k \in 1..Len(events) : events'[k].channel = events[k].channel
  PROVE  NoteInv'
<1>1. NoteTypeOK'
  BY DEF NoteInv, NoteTypeOK, Event
<1>2. TextInv'
  BY DEF NoteInv, TextInv, StoredText
<1>3. \A f : Listed(f)' = Listed(f)
  <2>1. DOMAIN events' = 1..Len(events) /\ DOMAIN events = 1..Len(events)
    BY NoteTypes DEF NoteInv
  <2> QED BY <2>1 DEF Listed, FilterText
<1>4. /\ \A f, n : Place(f, n)' = Place(f, n)
      /\ \A f, k : Early(f, k)' = Early(f, k)
  BY <1>3 DEF Place, Newer, Early
<1>5. WalkInv'
  BY <1>3, <1>4 DEF NoteInv, WalkInv, Passed
<1> QED BY <1>1, <1>2, <1>3, <1>5 DEF NoteInv

LEMMA ReadMark ==
  ASSUME NEW e \in Event
  PROVE  [e EXCEPT !.read = TRUE] \in Event /\ [e EXCEPT !.read = TRUE].channel = e.channel
BY DEF Event

LEMMA MarkReadKeeps ==
  ASSUME NoteInv, NEW n \in 1..MaxSent, MarkRead(n)
  PROVE  NoteInv'
<1> DEFINE e == [events[n] EXCEPT !.read = TRUE]
<1>1. events \in Seq(Event) /\ n \in 1..Len(events)
  BY NoteTypes DEF NoteInv, MarkRead
<1>2. e \in Event /\ e.channel = events[n].channel
  <2>1. events[n] \in Event
    BY <1>1
  <2> QED BY <2>1, ReadMark
<1>3. events' = [events EXCEPT ![n] = e]
  BY DEF MarkRead
<1> HIDE DEF e
<1>4. events' \in Seq(Event) /\ Len(events') = Len(events)
      /\ \A k \in 1..Len(events) : events'[k].channel = events[k].channel
  BY <1>1, <1>2, <1>3
<1> QED BY <1>4, ReadingKeeps DEF MarkRead

LEMMA MarkAllKeeps ==
  ASSUME NoteInv, MarkAllRead
  PROVE  NoteInv'
<1>1. events \in Seq(Event) /\ Len(events) \in Nat /\ DOMAIN events = 1..Len(events)
  BY NoteTypes DEF NoteInv
<1>2. \A k \in 1..Len(events) : events[k] \in Event
  BY <1>1
<1>3. \A k \in 1..Len(events) :
        events'[k] \in Event /\ events'[k].channel = events[k].channel
  BY <1>1, <1>2, ReadMark DEF MarkAllRead
<1>4. events' \in [1..Len(events) -> Event]
  BY <1>1, <1>3 DEF MarkAllRead
<1>5. events' \in Seq(Event) /\ Len(events') = Len(events)
  BY <1>1, <1>4
<1> QED BY <1>3, <1>5, ReadingKeeps DEF MarkAllRead

\* The lists stay as they are while the rows do.
LEMMA SameLists ==
  ASSUME events' = events
  PROVE  /\ \A f : Listed(f)' = Listed(f)
         /\ \A f, n : Place(f, n)' = Place(f, n)
         /\ \A f, k : Early(f, k)' = Early(f, k)
BY DEF Listed, Place, Newer, Early, FilterText

LEMMA StartWalkKeeps ==
  ASSUME NoteInv, NEW f \in Channels \cup {Unspecified}, NEW size \in PageSizes,
         StartWalk(f, size)
  PROVE  NoteInv'
<1> DEFINE n == Len(events)
<1>0. NoteTypeOK
  BY DEF NoteInv
<1>1. n \in 0..MaxSent /\ n \in Nat /\ 0 \in 0..MaxSent /\ size \in PageSizes \cup {0}
  BY <1>0, NoteTypes
<1> HIDE DEF n
<1>2. /\ walk' = [at |-> "count", filter |-> f, size |-> size, page |-> 1, pages |-> 0,
                  total |-> 0, seen |-> {}, there |-> n]
      /\ squeezed' = FALSE /\ UNCHANGED <<events, sent>>
  BY DEF StartWalk, NotWalking, n
<1>3. /\ walk' \in Walk /\ walk'.at = "count" /\ walk'.page = 1 /\ walk'.size = size
      /\ walk'.there = n /\ walk'.filter = f /\ walk'.seen = {}
  BY <1>1, <1>2 DEF Walk
<1>4. NoteTypeOK'
  BY <1>0, <1>2, <1>3 DEF NoteTypeOK, Walk
<1>5. TextInv'
  BY <1>2 DEF NoteInv, TextInv, StoredText
<1>6. WalkInv'
  <2>1. (walk'.page - 1) * walk'.size = 0
    <3>1. size \in Int
      BY NoteAssumption
    <3> QED BY <1>3, <3>1
  <2>2. \A k \in Listed(f)' : Place(f, k)' \in Nat
    BY <1>0, <1>2, ListTypes, SameLists
  <2>3. Passed((walk.page - 1) * walk.size)'
    <3>1. \A k \in Listed(f)' : ~(Place(f, k)' < 0)
      BY <2>2
    <3> QED BY <1>3, <2>1, <3>1 DEF Passed, Early
  <2> QED BY <1>3, <2>3 DEF WalkInv
<1>7. (walk.seen \subseteq Listed(walk.filter))'
  BY <1>3
<1>8. (walk.there <= Len(events))' /\ walk'.page >= 1
  BY <1>1, <1>2, <1>3 DEF n
<1> QED BY <1>4, <1>5, <1>6, <1>7, <1>8 DEF NoteInv

LEMMA CountKeeps ==
  ASSUME NoteInv, CountNotifications
  PROVE  NoteInv'
<1> DEFINE n == Cardinality(Listed(walk.filter))
<1>0. NoteTypeOK /\ walk \in Walk
  BY NoteTypes DEF NoteInv
<1>1. n \in 0..MaxSent
  BY <1>0, ListTypes
<1> HIDE DEF n
<1>2. /\ walk.at = "count" /\ UNCHANGED <<events, sent, squeezed>>
      /\ walk' = [walk EXCEPT !.at = "page", !.total = n]
  BY DEF CountNotifications, n
<1>3. /\ walk' \in Walk /\ walk'.at = "page" /\ walk'.total = n
      /\ walk'.page = walk.page /\ walk'.size = walk.size /\ walk'.there = walk.there
      /\ walk'.seen = walk.seen /\ walk'.filter = walk.filter
  BY <1>0, <1>1, <1>2 DEF Walk
<1>4. NoteTypeOK'
  BY <1>0, <1>2, <1>3 DEF NoteTypeOK, Walk
<1>5. TextInv'
  BY <1>2 DEF NoteInv, TextInv, StoredText
<1>6. WalkInv'
  <2>1. Passed((walk.page - 1) * walk.size)' <=> Passed((walk.page - 1) * walk.size)
    BY <1>2, <1>3, SameLists DEF Passed
  <2>2. walk'.total = Cardinality(Listed(walk.filter))'
    BY <1>2, <1>3, SameLists DEF n
  <2> QED BY <1>2, <1>3, <2>1, <2>2 DEF NoteInv, WalkInv
<1>7. (walk.seen \subseteq Listed(walk.filter))' /\ (walk.there <= Len(events))'
  BY <1>2, <1>3, SameLists DEF NoteInv
<1> QED BY <1>2, <1>3, <1>4, <1>5, <1>6, <1>7 DEF NoteInv

\* A page adds the rows up to its end; the last page ends behind the last row.
LEMMA ListPageKeeps ==
  ASSUME NoteInv, ListPage
  PROVE  NoteInv'
<1> DEFINE f == walk.filter
           there == walk.there
           pages == Pages(walk.total, walk.size)
           more == walk.page < pages
           page == IF more THEN walk.page + 1 ELSE walk.page
           new == PageOf(f, walk.page, ClampedSize(walk.size))
           passed == walk.seen \cup new
<1>0. NoteTypeOK /\ walk \in Walk
  BY NoteTypes DEF NoteInv
<1>1. pages \in Nat
  BY <1>0, NoteTypes, PagesAre
<1>2. page \in Nat /\ page >= 1
  BY <1>0, <1>1, NoteTypes DEF NoteInv, ListPage
<1>3. passed \in SUBSET (1..MaxSent) /\ passed \subseteq Listed(f)
  <2>1. new \subseteq Listed(f) /\ Listed(f) \subseteq 1..Len(events)
    BY <1>0, ListTypes DEF PageOf
  <2>2. 1..Len(events) \subseteq 1..MaxSent
    BY <1>0, NoteTypes
  <2> QED BY <1>0, <2>1, <2>2 DEF Walk, NoteInv
<1>4. /\ walk.at = "page" /\ UNCHANGED <<events, sent, squeezed>>
      /\ walk' = [walk EXCEPT !.at = IF more THEN "count" ELSE "idle", !.page = page,
                              !.pages = pages, !.seen = passed]
  BY DEF ListPage
<1>p. \A k \in Listed(f) : Place(f, k) \in Nat /\ Place(f, k) < Cardinality(Listed(f))
  BY <1>0, ListTypes
<1>5. ASSUME walk.size \in 1..LargestSize, ~squeezed
      PROVE  \A k \in Early(f, there) : Place(f, k) < walk.page * walk.size => k \in passed
  <2> DEFINE s == walk.size
             low == (walk.page - 1) * s
             high == walk.page * s
  <2>1. low \in Int /\ high \in Int
    BY <1>0, NoteTypes
  <2>2. \A k \in Early(f, there) : Place(f, k) < low => k \in walk.seen
    BY <1>4, <1>5 DEF NoteInv, WalkInv, Passed
  <2>3. ClampedSize(s) = s
    <3>1. s \in Int /\ s >= 1 /\ s <= LargestSize /\ LargestSize \in Nat
      BY <1>5, NoteAssumption
    <3> QED BY <3>1 DEF ClampedSize
  <2>4. new = {k \in Listed(f) : Place(f, k) \in low .. high - 1}
    BY <2>3 DEF PageOf, Place
  <2> HIDE DEF low, high, new
  <2>5. ASSUME NEW k \in Early(f, there), Place(f, k) < high PROVE k \in walk.seen \cup new
    <3>1. k \in Listed(f) /\ Place(f, k) \in Nat
      BY <1>p DEF Early
    <3>2. CASE Place(f, k) < low
      BY <2>2, <3>2
    <3>3. CASE ~(Place(f, k) < low)
      <4>1. Place(f, k) \in low .. high - 1
        BY <2>1, <2>5, <3>1, <3>3
      <4> QED BY <2>4, <3>1, <4>1
    <3> QED BY <3>2, <3>3
  <2> QED BY <2>5 DEF high
<1>6. ASSUME walk.size \in 1..LargestSize, ~squeezed, ~more
      PROVE  Early(f, there) \subseteq passed
  <2> DEFINE total == Cardinality(Listed(f))
  <2>1. walk.total = total
    BY <1>4, <1>6 DEF NoteInv, WalkInv
  <2>2. walk.size \in Nat \ {0} /\ walk.page \in Nat /\ walk.total \in Nat
    BY <1>0, <1>6, NoteTypes
  <2> HIDE DEF total
  <2>3. total <= pages * walk.size
    BY <2>1, <2>2, PagesReach
  <2>4. pages * walk.size <= walk.page * walk.size
    <3>1. pages <= walk.page
      BY <1>1, <1>6, <2>2
    <3> QED BY <1>1, <2>2, <3>1
  <2>5. pages * walk.size \in Int /\ walk.page * walk.size \in Int
    BY <1>1, <2>2
  <2> DEFINE a == pages * walk.size
             b == walk.page * walk.size
  <2> HIDE DEF a, b, pages
  <2>6. \A k \in Early(f, there) : Place(f, k) < b
    <3>1. total <= a /\ a <= b /\ a \in Int /\ b \in Int /\ total \in Nat
      BY <2>1, <2>2, <2>3, <2>4, <2>5 DEF a, b, pages
    <3>2. \A k \in Early(f, there) : Place(f, k) \in Nat /\ Place(f, k) < total
      BY <1>p DEF Early, total
    <3> QED BY <3>1, <3>2
  <2> QED BY <1>5, <1>6, <2>6 DEF b
<1> HIDE DEF pages, more, page, new, passed
<1>7. /\ walk' \in Walk /\ walk'.at = (IF more THEN "count" ELSE "idle") /\ walk'.page = page
      /\ walk'.seen = passed /\ walk'.size = walk.size /\ walk'.there = there
      /\ walk'.filter = f
  BY <1>0, <1>1, <1>2, <1>3, <1>4 DEF Walk
<1>8. NoteTypeOK'
  BY <1>0, <1>4, <1>7 DEF NoteTypeOK, Walk
<1>9. TextInv'
  BY <1>4 DEF NoteInv, TextInv, StoredText
<1>10. /\ Early(walk.filter, walk.there)' = Early(f, there)
       /\ \A k : Place(walk.filter, k)' = Place(f, k)
       /\ Listed(walk.filter)' = Listed(f)
  BY <1>4, <1>7, SameLists DEF Early, Place, Newer, Listed, FilterText
<1>11. WalkInv'
  <2>1. ASSUME walk.size \in 1..LargestSize, ~squeezed, more
        PROVE  Passed((walk.page - 1) * walk.size)'
    <3>1. page - 1 = walk.page
      BY <1>0, <2>1, NoteTypes DEF page
    <3>2. ((walk.page - 1) * walk.size)' = walk.page * walk.size
      BY <1>7, <3>1
    <3> QED BY <1>5, <1>7, <1>10, <2>1, <3>2 DEF Passed
  <2>2. ASSUME walk.size \in 1..LargestSize, ~squeezed, ~more
        PROVE  (Early(walk.filter, walk.there) \subseteq walk.seen)'
    BY <1>6, <1>7, <1>10, <2>2
  <2> QED BY <1>4, <1>7, <2>1, <2>2 DEF WalkInv
<1>12. (walk.seen \subseteq Listed(walk.filter))' /\ (walk.there <= Len(events))'
  BY <1>3, <1>4, <1>7, <1>10 DEF NoteInv
<1> QED BY <1>2, <1>7, <1>8, <1>9, <1>11, <1>12 DEF NoteInv

-----------------------------------------------------------------------------
LEMMA NoteStart == NoteInit => NoteInv
<1> SUFFICES ASSUME NoteInit PROVE NoteInv
    OBVIOUS
<1>1. /\ events = <<>> /\ sent = <<>> /\ squeezed = FALSE
      /\ Len(events) = 0 /\ Len(sent) = 0 /\ events \in Seq(Event) /\ sent \in Seq(Channels)
  BY DEF NoteInit
<1>2. /\ walk \in Walk /\ walk.at = "idle" /\ walk.size = 0 /\ walk.there = 0
      /\ walk.seen = {}
  <2>1. 0 \in 0..MaxSent
    BY NoteAssumption
  <2> QED BY <2>1 DEF NoteInit, NotWalking, Walk
<1>3. NoteTypeOK
  <2>1. Len(events) <= MaxSent
    BY <1>1, NoteAssumption
  <2>2. squeezed \in BOOLEAN
    BY <1>1
  <2> QED BY <1>1, <1>2, <2>1, <2>2 DEF NoteTypeOK, Event, Walk
<1>4. 1..Len(events) = {} /\ 0 \notin 1..LargestSize
  BY <1>1
<1> QED BY <1>1, <1>2, <1>3, <1>4 DEF NoteInv, TextInv, WalkInv

LEMMA NoteStepKeeps == NoteInv /\ [NoteNext]_noteVars => NoteInv'
<1> SUFFICES ASSUME NoteInv, [NoteNext]_noteVars PROVE NoteInv'
    OBVIOUS
<1>1. CASE UNCHANGED noteVars
  <2>1. events' = events /\ sent' = sent /\ walk' = walk /\ squeezed' = squeezed
    BY <1>1 DEF noteVars
  <2>2. NoteTypeOK' /\ TextInv'
    BY <2>1 DEF NoteInv, NoteTypeOK, TextInv, StoredText
  <2>3. WalkInv'
    BY <2>1, SameLists DEF NoteInv, WalkInv, Passed
  <2> QED BY <2>1, <2>2, <2>3, SameLists DEF NoteInv
<1>2. CASE NoteNext
  BY <1>2, SendKeeps, MarkReadKeeps, MarkAllKeeps, StartWalkKeeps, CountKeeps, ListPageKeeps
     DEF NoteNext
<1> QED BY <1>1, <1>2

\* What a filter lists is what was sent on its channel.
LEMMA ListIsWanted ==
  ASSUME NoteInv, NEW f \in Channels \cup {Unspecified}
  PROVE  Listed(f) = Wanted(f)
<1>1. DOMAIN events = DOMAIN sent /\ DOMAIN events = 1..Len(events)
  BY NoteTypes DEF NoteInv
<1>2. \A n \in 1..Len(events) : events[n].channel = StoredText(sent[n])
  BY DEF NoteInv, TextInv
<1>3. \A n \in 1..Len(events) : events[n].channel = FilterText(f) <=> sent[n] = f
  BY <1>2 DEF StoredText, FilterText
<1> QED BY <1>1, <1>3 DEF Listed, Wanted

\* A client that walks the pages of a channel, or of all, sees nothing else and
\* all that was there when it began, for pages of any size up to the largest
\* and lists of any length, unless one squeezed in between a count and its page.
THEOREM ListsHoldAll == NoteSpec => []ListsAreComplete
<1>1. NoteInv => ListsAreComplete
  <2> SUFFICES ASSUME NoteInv PROVE WalkSeesItsOwn /\ WalkSeesAll
    BY DEF ListsAreComplete
  <2>1. walk.filter \in Channels \cup {Unspecified}
    BY NoteTypes DEF NoteInv, Walk
  <2>2. Listed(walk.filter) = Wanted(walk.filter)
    BY <2>1, ListIsWanted
  <2> QED BY <2>2 DEF NoteInv, WalkInv, Early, WalkSeesItsOwn, WalkSeesAll
<1> QED BY <1>1, NoteStart, NoteStepKeeps, PTL DEF NoteSpec

-----------------------------------------------------------------------------
(***************************************************************************)
(* RateLimiter.  The requests of a period can still spend what is left in  *)
(* the buckets within reach: the one the map has, and those a request      *)
(* holds.  While the map has none, the burst of the next one counts: it    *)
(* is bucket 0.  What has been spent and what can be spent never exceed    *)
(* what OneBurst grants (SpendInv).  The tokens are counted as a set.      *)
(***************************************************************************)
Reach == {b \in 0..Len(buckets) : b = mapped \/ (b # 0 /\ InUse(b))}
Tokens == [b \in 0..Len(buckets) |-> IF b = 0 THEN Burst ELSE buckets[b].tokens]
Coins(R, t) == {p \in R \X (1..Burst) : p[2] <= t[p[1]]}
Worth(R, t) == Cardinality(Coins(R, t))

HoldInv == \A r \in Threads : request[r].bucket = 0 <=> request[r].at \in {"new", "insert"}
DropInv == dropped <= Len(buckets) /\ (mapped # 0 => dropped < Len(buckets))
SpendInv == admitted + Worth(Reach, Tokens) <= Burst * (1 + dropped) + refilled

LimitInv == LimitTypeOK /\ HoldInv /\ DropInv /\ SpendInv

-----------------------------------------------------------------------------
LEMMA CoinsFinite ==
  ASSUME NEW n \in Nat, NEW R \in SUBSET (0..n), NEW t
  PROVE  IsFiniteSet(Coins(R, t)) /\ Worth(R, t) \in Nat
<1>1. IsFiniteSet(0..n) /\ IsFiniteSet(1..Burst)
  BY LimitAssumption, FS_Interval
<1>2. IsFiniteSet(R)
  BY <1>1, FS_Subset
<1>3. IsFiniteSet(R \X (1..Burst))
  BY <1>1, <1>2, FS_Product
<1>4. Coins(R, t) \in SUBSET (R \X (1..Burst))
  BY DEF Coins
<1>5. IsFiniteSet(Coins(R, t))
  BY <1>3, <1>4, FS_Subset
<1> QED BY <1>5, FS_CardinalityType DEF Worth

LEMMA CoinsSame ==
  ASSUME NEW R, NEW t, NEW u, \A b \in R : t[b] = u[b]
  PROVE  Worth(R, t) = Worth(R, u)
<1>1. Coins(R, t) = Coins(R, u)
  BY DEF Coins
<1> QED BY <1>1 DEF Worth

LEMMA CoinsFewer ==
  ASSUME NEW n \in Nat, NEW R \in SUBSET (0..n), NEW Q \in SUBSET R, NEW t
  PROVE  Worth(Q, t) <= Worth(R, t)
<1>1. IsFiniteSet(Coins(R, t))
  BY CoinsFinite
<1>2. Coins(Q, t) \in SUBSET Coins(R, t)
  BY DEF Coins
<1> QED BY <1>1, <1>2, FS_Subset DEF Worth

LEMMA CoinsOf ==
  ASSUME NEW b, NEW k \in 0..Burst
  PROVE  IsFiniteSet({b} \X (1..k)) /\ Cardinality({b} \X (1..k)) = k
<1>1. k \in Nat
  BY LimitAssumption
<1>2. IsFiniteSet(1..k) /\ Cardinality(1..k) = k
  <2>1. Cardinality(1..k) = IF 1 > k THEN 0 ELSE k - 1 + 1
    BY <1>1, FS_Interval
  <2>2. IsFiniteSet(1..k)
    BY <1>1, FS_Interval
  <2> QED BY <1>1, <2>1, <2>2
<1>3. IsFiniteSet({b}) /\ Cardinality({b}) = 1
  BY FS_Singleton
<1>4. IsFiniteSet({b} \X (1..k)) /\ Cardinality({b} \X (1..k)) = Cardinality({b}) * Cardinality(1..k)
  BY <1>2, <1>3, FS_Product
<1> QED BY <1>1, <1>2, <1>3, <1>4

\* One bucket more.
LEMMA CoinsMore ==
  ASSUME NEW n \in Nat, NEW R \in SUBSET (0..n), NEW b \in 0..n, b \notin R,
         NEW t, t[b] \in 0..Burst
  PROVE  Worth(R \cup {b}, t) = Worth(R, t) + t[b]
<1> DEFINE k == t[b]
           A == Coins(R, t)
           B == {b} \X (1..k)
<1>1. IsFiniteSet(A) /\ Cardinality(A) \in Nat
  BY CoinsFinite DEF Worth
<1>2. IsFiniteSet(B) /\ Cardinality(B) = k
  BY CoinsOf
<1>3. 1..k \subseteq 1..Burst /\ \A i \in 1..Burst : i <= k <=> i \in 1..k
  BY LimitAssumption
<1>4. Coins(R \cup {b}, t) = A \cup B
  BY <1>3 DEF Coins
<1>5. A \cap B = {}
  BY DEF Coins
<1> HIDE DEF A, B, k
<1>6. Cardinality(A \cup B) = Cardinality(A) + Cardinality(B) - Cardinality(A \cap B)
  BY <1>1, <1>2, FS_Union
<1>7. Cardinality(A \cap B) = 0
  BY <1>5, FS_EmptySet
<1>8. k \in Int
  BY LimitAssumption DEF k
<1>9. Cardinality(A \cup B) = Cardinality(A) + k
  BY <1>1, <1>2, <1>6, <1>7, <1>8
<1> QED BY <1>4, <1>9 DEF Worth, A, k

\* Buckets that are full.
LEMMA CoinsFull ==
  ASSUME NEW n \in Nat, NEW R \in SUBSET (0..n), NEW t, \A b \in R : t[b] = Burst
  PROVE  Worth(R, t) = Cardinality(R) * Burst
<1>1. Coins(R, t) = R \X (1..Burst)
  <2>1. \A i \in 1..Burst : i <= Burst
    BY LimitAssumption
  <2>2. \A p \in R \X (1..Burst) : p[2] <= t[p[1]]
    <3> SUFFICES ASSUME NEW p \in R \X (1..Burst) PROVE p[2] <= t[p[1]]
      OBVIOUS
    <3>1. p[1] \in R /\ p[2] \in 1..Burst
      OBVIOUS
    <3>2. t[p[1]] = Burst
      BY <3>1
    <3> QED BY <2>1, <3>1, <3>2
  <2> QED BY <2>2 DEF Coins
<1>2. IsFiniteSet(0..n) /\ IsFiniteSet(1..Burst)
  BY LimitAssumption, FS_Interval
<1>3. IsFiniteSet(R)
  BY <1>2, FS_Subset
<1>4. Cardinality(1..Burst) = Burst
  <2>1. Cardinality(1..Burst) = IF 1 > Burst THEN 0 ELSE Burst - 1 + 1
    BY LimitAssumption, FS_Interval
  <2> QED BY <2>1, LimitAssumption
<1>5. Cardinality(R \X (1..Burst)) = Cardinality(R) * Cardinality(1..Burst)
  BY <1>2, <1>3, FS_Product
<1> QED BY <1>1, <1>4, <1>5 DEF Worth

-----------------------------------------------------------------------------
Asking == [at : {"new", "insert", "touch", "allow"}, bucket : 0..Len(buckets)]

LEMMA LimitTypes ==
  ASSUME LimitTypeOK
  PROVE  /\ Burst \in Nat /\ MaxBuckets \in Nat /\ MaxRefills \in Nat
         /\ buckets \in Seq(Bucket) /\ Len(buckets) \in Nat /\ Len(buckets) <= MaxBuckets
         /\ DOMAIN buckets = 1..Len(buckets)
         /\ \A b \in 1..Len(buckets) : /\ buckets[b] \in Bucket /\ buckets[b].tokens \in 0..Burst
                                       /\ buckets[b].tokens \in Nat
         /\ mapped \in 0..Len(buckets) /\ mapped \in Nat
         /\ admitted \in Nat /\ refilled \in Nat /\ refilled <= MaxRefills /\ dropped \in Nat
         /\ request \in [Threads -> Asking]
         /\ \A r \in Threads : request[r].bucket \in 0..Len(buckets)
<1>1. Burst \in Nat /\ MaxBuckets \in Nat /\ MaxRefills \in Nat
  BY LimitAssumption
<1>2. /\ buckets \in Seq(Bucket) /\ Len(buckets) <= MaxBuckets /\ mapped \in 0..Len(buckets)
      /\ request \in [Threads -> Asking]
  BY DEF LimitTypeOK, Asking
<1>3. Len(buckets) \in Nat /\ DOMAIN buckets = 1..Len(buckets)
  BY <1>2
<1>4. \A b \in 1..Len(buckets) : buckets[b] \in Bucket
  BY <1>2
<1>5. \A b \in 1..Len(buckets) : buckets[b].tokens \in 0..Burst
  BY <1>4 DEF Bucket
<1>6. \A k \in 0..Burst : k \in Nat
  BY <1>1
<1>7. \A r \in Threads : request[r].bucket \in 0..Len(buckets)
  BY <1>2 DEF Asking
<1>8. mapped \in Nat
  BY <1>2, <1>3
<1>9. admitted \in Nat /\ refilled \in 0..MaxRefills /\ dropped \in 0..MaxBuckets
  BY DEF LimitTypeOK
<1>10. refilled \in Nat /\ refilled <= MaxRefills /\ dropped \in Nat
  BY <1>1, <1>9
<1> QED BY <1>1, <1>2, <1>3, <1>4, <1>5, <1>6, <1>7, <1>8, <1>9, <1>10

LEMMA TokensAre ==
  ASSUME LimitTypeOK
  PROVE  /\ Tokens[0] = Burst /\ \A b \in 1..Len(buckets) : Tokens[b] = buckets[b].tokens
         /\ \A b \in 0..Len(buckets) : Tokens[b] \in 0..Burst /\ Tokens[b] \in Nat
         /\ Reach \in SUBSET (0..Len(buckets)) /\ Worth(Reach, Tokens) \in Nat
<1>1. Len(buckets) \in Nat /\ Burst \in Nat /\ Burst \in 0..Burst
  BY LimitTypes
<1>2. 0 \in 0..Len(buckets) /\ \A b \in 1..Len(buckets) : b \in 0..Len(buckets) /\ b # 0
  BY <1>1
<1>3. Tokens[0] = Burst /\ \A b \in 1..Len(buckets) : Tokens[b] = buckets[b].tokens
  BY <1>2 DEF Tokens
<1>4. \A b \in 0..Len(buckets) : b = 0 \/ b \in 1..Len(buckets)
  BY <1>1
<1>5. \A b \in 0..Len(buckets) : Tokens[b] \in 0..Burst /\ Tokens[b] \in Nat
  BY <1>1, <1>3, <1>4, LimitTypes
<1>6. Reach \in SUBSET (0..Len(buckets))
  BY DEF Reach
<1> QED BY <1>1, <1>3, <1>5, <1>6, CoinsFinite

\* A step of a request that spends nothing.
LEMMA SameWorth ==
  ASSUME LimitTypeOK, SpendInv, Reach' \subseteq Reach,
         \A b \in Reach' : Tokens'[b] = Tokens[b],
         UNCHANGED <<admitted, refilled, dropped>>
  PROVE  SpendInv'
<1>1. Worth(Reach, Tokens)' = Worth(Reach', Tokens)
  BY CoinsSame DEF Worth, Coins
<1>2. Worth(Reach', Tokens) <= Worth(Reach, Tokens)
  BY TokensAre, LimitTypes, CoinsFewer
<1>3. Worth(Reach', Tokens) \in Nat
  BY TokensAre, LimitTypes, CoinsFinite
<1> DEFINE a == Worth(Reach, Tokens)
           b == Worth(Reach', Tokens)
           c == Burst * (1 + dropped) + refilled
<1>4. a \in Nat /\ b \in Nat /\ c \in Int /\ b <= a /\ admitted \in Nat
  BY <1>2, <1>3, TokensAre, LimitTypes
<1>5. admitted + a <= c
  BY DEF SpendInv
<1> HIDE DEF a, b, c
<1>6. admitted + b <= c
  BY <1>4, <1>5
<1> QED BY <1>1, <1>6 DEF SpendInv, b, c

-----------------------------------------------------------------------------
\* A request moves to a place, and to a bucket.
LEMMA RequestMoves ==
  ASSUME LimitTypeOK, NEW r \in Threads, NEW new, request' = [request EXCEPT ![r] = new]
  PROVE  /\ request'[r] = new /\ \A q \in Threads : q # r => request'[q] = request[q]
         /\ \A Q : new \in Q /\ Asking \subseteq Q => request' \in [Threads -> Q]
<1>1. request \in [Threads -> Asking]
  BY LimitTypes
<1> QED BY <1>1

\* A request takes the bucket of the map.
LEMMA HoldMapped ==
  ASSUME LimitInv, NEW r \in Threads, request[r].bucket = 0, mapped # 0, Holds(r, mapped),
         UNCHANGED <<mapped, buckets, admitted, refilled, dropped>>
  PROVE  LimitInv'
<1> DEFINE new == [at |-> "touch", bucket |-> mapped]
<1>0. LimitTypeOK /\ mapped \in 0..Len(buckets)
  BY LimitTypes DEF LimitInv
<1>1. new \in Asking /\ new.at = "touch" /\ new.bucket = mapped
  BY <1>0 DEF Asking
<1>2. request' = [request EXCEPT ![r] = new]
  BY DEF Holds
<1> HIDE DEF new
<1>3. /\ request'[r] = new /\ \A q \in Threads : q # r => request'[q] = request[q]
      /\ request' \in [Threads -> Asking]
  BY <1>0, <1>1, <1>2, RequestMoves
<1>4. LimitTypeOK'
  BY <1>0, <1>3 DEF LimitTypeOK, Asking
<1>5. HoldInv' /\ DropInv'
  BY <1>1, <1>3 DEF LimitInv, HoldInv, DropInv
<1>6. SpendInv'
  <2>1. \A b \in 0..Len(buckets) : InUse(b)' => InUse(b) \/ b = mapped
    BY <1>1, <1>3 DEF InUse
  <2>2. Reach' \subseteq Reach
    BY <2>1 DEF Reach
  <2>3. Tokens' = Tokens
    BY DEF Tokens
  <2> QED BY <1>0, <2>2, <2>3, SameWorth DEF LimitInv
<1> QED BY <1>4, <1>5, <1>6 DEF LimitInv

LEMMA LookUpKeeps ==
  ASSUME LimitInv, NEW r \in Threads, LookUp(r)
  PROVE  LimitInv'
<1>0. LimitTypeOK
  BY DEF LimitInv
<1>1. request[r].at = "new" /\ request[r].bucket = 0
      /\ UNCHANGED <<mapped, buckets, admitted, refilled, dropped>>
  BY DEF LookUp, LimitInv, HoldInv
<1>2. CASE mapped # 0
  BY <1>1, <1>2, HoldMapped DEF LookUp
<1>3. CASE mapped = 0
  <2> DEFINE new == [request[r] EXCEPT !.at = "insert"]
  <2>1. request' = [request EXCEPT ![r] = new]
    BY <1>3 DEF LookUp
  <2>2. new \in Asking /\ new.at = "insert" /\ new.bucket = 0
    <3>1. request[r] \in Asking
      BY <1>0, LimitTypes
    <3> QED BY <1>1, <3>1 DEF Asking
  <2> HIDE DEF new
  <2>3. /\ request'[r] = new /\ \A q \in Threads : q # r => request'[q] = request[q]
        /\ request' \in [Threads -> Asking]
    BY <1>0, <2>1, <2>2, RequestMoves
  <2>4. LimitTypeOK'
    BY <1>0, <1>1, <2>3 DEF LimitTypeOK, Asking
  <2>5. HoldInv' /\ DropInv'
    BY <1>1, <2>2, <2>3 DEF LimitInv, HoldInv, DropInv
  <2>6. SpendInv'
    <3>1. \A q \in Threads : request'[q].bucket = request[q].bucket
      BY <1>1, <2>2, <2>3
    <3>2. Reach' = Reach /\ Tokens' = Tokens
      BY <1>1, <3>1 DEF Reach, InUse, Tokens
    <3> QED BY <1>0, <1>1, <3>2, SameWorth DEF LimitInv
  <2> QED BY <2>4, <2>5, <2>6 DEF LimitInv
<1> QED BY <1>2, <1>3

\* The burst of bucket 0 becomes that of the new bucket.
LEMMA NewBucketKeeps ==
  ASSUME LimitInv, NEW r \in Threads, request[r].bucket = 0, mapped = 0, NewBucket(r),
         UNCHANGED <<admitted, refilled, dropped>>
  PROVE  LimitInv'
<1> DEFINE n == Len(buckets)
           fresh == [tokens |-> Burst, seen |-> "never"]
           new == [at |-> "touch", bucket |-> n + 1]
           U == {b \in 1..n : InUse(b)}
<1>0. LimitTypeOK /\ n \in Nat /\ n + 1 <= MaxBuckets /\ buckets \in Seq(Bucket) /\ Burst \in Nat
  BY LimitTypes DEF LimitInv, NewBucket
<1>1. fresh \in Bucket /\ fresh.tokens = Burst
  <2>1. Burst \in 0..Burst
    BY <1>0
  <2> QED BY <2>1 DEF Bucket
<1>2. buckets' = Append(buckets, fresh) /\ mapped' = n + 1 /\ request' = [request EXCEPT ![r] = new]
  BY DEF NewBucket, Holds
<1> HIDE DEF fresh
<1>3. /\ buckets' \in Seq(Bucket) /\ Len(buckets') = n + 1 /\ buckets'[n + 1] = fresh
      /\ \A b \in 1..n : buckets'[b] = buckets[b]
  BY <1>0, <1>1, <1>2
<1>4. new \in Asking' /\ new.at = "touch" /\ new.bucket = n + 1 /\ Asking \subseteq Asking'
  <2>1. 0..n \subseteq 0..(n + 1) /\ n + 1 \in 0..(n + 1)
    BY <1>0
  <2> HIDE DEF n
  <2>2. Asking' = [at : {"new", "insert", "touch", "allow"}, bucket : 0..(n + 1)]
    BY <1>3 DEF Asking
  <2>3. Asking = [at : {"new", "insert", "touch", "allow"}, bucket : 0..n]
    BY DEF Asking, n
  <2> QED BY <2>1, <2>2, <2>3
<1> HIDE DEF n, new
<1>5. /\ request'[r] = new /\ \A q \in Threads : q # r => request'[q] = request[q]
      /\ request' \in [Threads -> Asking']
  BY <1>0, <1>2, <1>4, RequestMoves
<1>6. LimitTypeOK'
  <2>1. mapped' \in 0..Len(buckets')
    BY <1>0, <1>2, <1>3
  <2>2. Len(buckets') <= MaxBuckets
    BY <1>0, <1>3
  <2>3. request' \in [Threads -> [at : {"new", "insert", "touch", "allow"}, bucket : 0..Len(buckets')]]
    BY <1>5 DEF Asking
  <2> QED BY <1>0, <1>3, <2>1, <2>2, <2>3 DEF LimitTypeOK
<1>7. HoldInv'
  <2>1. n + 1 # 0
    BY <1>0
  <2> QED BY <1>4, <1>5, <2>1 DEF LimitInv, HoldInv
<1>8. DropInv'
  <2>1. dropped <= n /\ dropped \in Nat
    BY <1>0, LimitTypes DEF LimitInv, DropInv, n
  <2> QED BY <1>0, <1>3, <2>1 DEF DropInv
<1>9. SpendInv'
  <2>1. /\ 0 \notin U /\ n + 1 \notin U /\ U \in SUBSET (0..n) /\ U \in SUBSET (0..(n + 1))
        /\ 0 \in 0..n /\ n + 1 \in 0..(n + 1) /\ n + 1 \in Nat /\ n + 1 # 0
        /\ \A b \in 0..(n + 1) : b = 0 \/ b = n + 1 \/ b \in 1..n
        /\ \A b \in 0..n : b = 0 \/ b \in 1..n
        /\ \A b \in 1..n : b # 0 /\ b # n + 1 /\ b \in 0..n /\ b \in 0..(n + 1)
    BY <1>0
  <2>2. Reach = U \cup {0}
    BY <2>1 DEF Reach, n
  <2>3. Reach' = U \cup {n + 1}
    <3>1. \A b \in 1..n : InUse(b)' <=> InUse(b)
      <4>1. \A q \in Threads, b \in 1..n : request'[q].bucket = b <=> request[q].bucket = b
        BY <1>4, <1>5, <2>1
      <4> QED BY <4>1 DEF InUse
    <3> QED BY <1>2, <1>3, <2>1, <3>1 DEF Reach
  <2>4. Tokens[0] = Burst /\ \A b \in 1..n : Tokens[b] = buckets[b].tokens
    BY <1>0, TokensAre DEF n
  <2>5. Tokens'[n + 1] = Burst /\ \A b \in 1..n : Tokens'[b] = buckets[b].tokens
    BY <1>1, <1>3, <2>1 DEF Tokens
  <2>6. Burst \in 0..Burst
    BY <1>0
  <2> HIDE DEF U
  <2>7. Worth(U \cup {0}, Tokens) = Worth(U, Tokens) + Tokens[0]
    <3>1. Tokens[0] \in 0..Burst
      BY <2>4, <2>6
    <3> DEFINE zero == 0
               t == Tokens
    <3>2. n \in Nat /\ U \in SUBSET (0..n) /\ zero \in 0..n /\ zero \notin U /\ t[zero] \in 0..Burst
      BY <1>0, <2>1, <3>1
    <3> HIDE DEF zero, t
    <3>3. Worth(U \cup {zero}, t) = Worth(U, t) + t[zero]
      BY <3>2, CoinsMore
    <3> QED BY <3>3 DEF zero, t
  <2>8. Worth(U \cup {n + 1}, Tokens') = Worth(U, Tokens') + Tokens'[n + 1]
    BY <2>1, <2>5, <2>6, CoinsMore
  <2>9. Worth(U, Tokens) = Worth(U, Tokens')
    BY <2>4, <2>5, CoinsSame DEF U
  <2>10. Worth(Reach', Tokens') = Worth(Reach, Tokens)
    BY <2>2, <2>3, <2>4, <2>5, <2>7, <2>8, <2>9
  <2>11. Worth(Reach, Tokens)' = Worth(Reach', Tokens')
    BY DEF Worth, Coins
  <2> QED BY <2>10, <2>11 DEF LimitInv, SpendInv
<1> QED BY <1>6, <1>7, <1>8, <1>9 DEF LimitInv

LEMMA InsertKeeps ==
  ASSUME LimitInv, NEW r \in Threads, Insert(r)
  PROVE  LimitInv'
<1>1. request[r].bucket = 0 /\ UNCHANGED <<admitted, refilled, dropped>>
  BY DEF Insert, LimitInv, HoldInv
<1>2. CASE mapped # 0 /\ Holds(r, mapped) /\ UNCHANGED <<mapped, buckets>>
  BY <1>1, <1>2, HoldMapped
<1>3. CASE mapped = 0 /\ NewBucket(r)
  BY <1>1, <1>3, NewBucketKeeps
<1> QED BY <1>2, <1>3 DEF Insert

\* A bucket changes: it is still one.
LEMMA BucketChanges ==
  ASSUME LimitTypeOK, NEW b \in 1..Len(buckets), NEW new \in Bucket,
         buckets' = [buckets EXCEPT ![b] = new]
  PROVE  /\ buckets' \in Seq(Bucket) /\ Len(buckets') = Len(buckets) /\ buckets'[b] = new
         /\ \A d \in 1..Len(buckets) : d # b => buckets'[d] = buckets[d]
         /\ Tokens'[b] = new.tokens
         /\ \A d \in 0..Len(buckets) : d # b => Tokens'[d] = Tokens[d]
<1>1. buckets \in Seq(Bucket) /\ Len(buckets) \in Nat
  BY LimitTypes
<1>2. /\ buckets' \in Seq(Bucket) /\ Len(buckets') = Len(buckets) /\ buckets'[b] = new
      /\ \A d \in 1..Len(buckets) : d # b => buckets'[d] = buckets[d]
  BY <1>1
<1>3. b \in 0..Len(buckets) /\ b # 0
  BY <1>1
<1>4. Tokens'[b] = new.tokens
  BY <1>2, <1>3 DEF Tokens
<1>5. \A d \in 0..Len(buckets) : d = 0 \/ d \in 1..Len(buckets)
  BY <1>1
<1>6. \A d \in 0..Len(buckets) : d # b => Tokens'[d] = Tokens[d]
  BY <1>2, <1>5 DEF Tokens
<1> QED BY <1>2, <1>4, <1>6

LEMMA TouchKeeps ==
  ASSUME LimitInv, NEW r \in Threads, Touch(r)
  PROVE  LimitInv'
<1> DEFINE b == request[r].bucket
           stamp == [buckets[b] EXCEPT !.seen = "lately"]
           new == [request[r] EXCEPT !.at = "allow"]
<1>0. LimitTypeOK /\ Len(buckets) \in Nat
  BY LimitTypes DEF LimitInv
<1>1. /\ request[r].at = "touch" /\ UNCHANGED <<mapped, admitted, refilled, dropped>>
      /\ buckets' = [buckets EXCEPT ![b] = stamp] /\ request' = [request EXCEPT ![r] = new]
  BY DEF Touch
<1>2. b \in 1..Len(buckets)
  <2>1. b \in 0..Len(buckets) /\ b # 0
    BY <1>0, <1>1, LimitTypes DEF LimitInv, HoldInv
  <2> QED BY <1>0, <2>1
<1>3. stamp \in Bucket /\ stamp.tokens = buckets[b].tokens
  <2>1. buckets[b] \in Bucket
    BY <1>0, <1>2, LimitTypes
  <2> HIDE DEF b
  <2> QED BY <2>1 DEF Bucket
<1>4. new \in Asking /\ new.at = "allow" /\ new.bucket = request[r].bucket
  <2>1. request[r] \in Asking
    BY <1>0, LimitTypes
  <2> QED BY <2>1 DEF Asking
<1> HIDE DEF stamp, new
<1>5. /\ buckets' \in Seq(Bucket) /\ Len(buckets') = Len(buckets)
      /\ Tokens'[b] = stamp.tokens
      /\ \A d \in 0..Len(buckets) : d # b => Tokens'[d] = Tokens[d]
  BY <1>0, <1>1, <1>2, <1>3, BucketChanges
<1>6. /\ request'[r] = new /\ \A q \in Threads : q # r => request'[q] = request[q]
      /\ request' \in [Threads -> Asking]
  BY <1>0, <1>1, <1>4, RequestMoves
<1>7. LimitTypeOK'
  BY <1>0, <1>1, <1>5, <1>6 DEF LimitTypeOK, Asking
<1>8. HoldInv' /\ DropInv'
  BY <1>1, <1>4, <1>5, <1>6 DEF LimitInv, HoldInv, DropInv
<1>9. SpendInv'
  <2>1. \A q \in Threads : request'[q].bucket = request[q].bucket
    BY <1>4, <1>6
  <2>2. Reach' = Reach /\ Reach \subseteq 0..Len(buckets)
    BY <1>1, <1>5, <2>1 DEF Reach, InUse
  <2>3. Tokens[b] = buckets[b].tokens
    BY <1>0, <1>2, TokensAre
  <2>4. \A d \in Reach' : Tokens'[d] = Tokens[d]
    BY <1>3, <1>5, <2>2, <2>3
  <2> QED BY <1>0, <1>1, <2>2, <2>4, SameWorth DEF LimitInv
<1> QED BY <1>7, <1>8, <1>9 DEF LimitInv

\* One bucket of a set has other tokens.
LEMMA CoinsChange ==
  ASSUME NEW n \in Nat, NEW Q \in SUBSET (0..n), NEW b \in 0..n, b \notin Q, NEW t, NEW u,
         t[b] \in 0..Burst, u[b] \in 0..Burst, \A d \in Q : u[d] = t[d]
  PROVE  Worth(Q \cup {b}, u) = Worth(Q \cup {b}, t) - t[b] + u[b]
<1>1. Worth(Q \cup {b}, t) = Worth(Q, t) + t[b]
  BY CoinsMore
<1>2. Worth(Q \cup {b}, u) = Worth(Q, u) + u[b]
  BY CoinsMore
<1>3. Worth(Q, t) = Worth(Q, u)
  BY CoinsSame
<1>4. Worth(Q, t) \in Nat
  BY CoinsFinite
<1>5. t[b] \in Int /\ u[b] \in Int
  BY LimitAssumption
<1> DEFINE x == Worth(Q, t)
<1> HIDE DEF x
<1> QED BY <1>1, <1>2, <1>3, <1>4, <1>5 DEF x

\* What a step makes of the sum.
LEMMA SumKept ==
  ASSUME LimitTypeOK, SpendInv, NEW worth \in Nat, Worth(Reach, Tokens)' = worth,
         admitted' \in Nat, refilled' \in Nat, dropped' \in Nat,
         \/ /\ dropped' = dropped
            /\ admitted' + worth - refilled' <= admitted + Worth(Reach, Tokens) - refilled
         \/ /\ dropped' = dropped + 1 /\ admitted' = admitted /\ refilled' = refilled
            /\ worth <= Worth(Reach, Tokens) + Burst
  PROVE  SpendInv'
<1> DEFINE a == Worth(Reach, Tokens)
           x == Burst * (1 + dropped)
           y == Burst * (1 + (dropped + 1))
<1>1. a \in Nat /\ admitted \in Nat /\ refilled \in Nat /\ dropped \in Nat /\ Burst \in Nat
  BY TokensAre, LimitTypes
<1>2. x \in Int /\ y \in Int /\ y = x + Burst
  BY <1>1
<1>3. admitted + a <= x + refilled
  BY DEF SpendInv
<1>4. SpendInv' <=> admitted' + worth <= Burst * (1 + dropped') + refilled'
  BY DEF SpendInv
<1>5. CASE dropped' = dropped /\ admitted' + worth - refilled' <= admitted + a - refilled
  <2> DEFINE p == admitted'
             q == refilled'
  <2>0. p \in Nat /\ q \in Nat /\ p + worth - q <= admitted + a - refilled
    BY <1>5
  <2> HIDE DEF a, x, y, p, q
  <2>1. p + worth <= x + q
    BY <1>1, <1>2, <1>3, <2>0
  <2> QED BY <1>4, <1>5, <2>1 DEF x, p, q
<1>6. CASE /\ dropped' = dropped + 1 /\ admitted' = admitted /\ refilled' = refilled
           /\ worth <= a + Burst
  <2> HIDE DEF a, x, y
  <2>1. admitted' + worth <= y + refilled'
    BY <1>1, <1>2, <1>3, <1>6
  <2> QED BY <1>4, <1>6, <2>1 DEF y
<1> QED BY <1>5, <1>6

\* A bucket gives a token, or has none, and the request lets go of it.
LEMMA AllowKeeps ==
  ASSUME LimitInv, NEW r \in Threads, Allow(r)
  PROVE  LimitInv'
<1> DEFINE b == request[r].bucket
           n == Len(buckets)
           new == [at |-> "new", bucket |-> 0]
           k == buckets[b].tokens
           less == [buckets[b] EXCEPT !.tokens = k - 1]
<1>0. LimitTypeOK /\ n \in Nat /\ SpendInv
  BY LimitTypes DEF LimitInv
<1>1. /\ request[r].at = "allow" /\ request' = [request EXCEPT ![r] = new]
      /\ UNCHANGED <<mapped, refilled, dropped>>
  BY DEF Allow
<1>2. b \in 1..n /\ b \in 0..n /\ b # 0
  <2>1. b \in 0..n /\ b # 0
    BY <1>0, <1>1, LimitTypes DEF LimitInv, HoldInv
  <2> QED BY <1>0, <2>1
<1>3. new \in Asking /\ new.at = "new" /\ new.bucket = 0
  <2>1. 0 \in 0..n
    BY <1>0
  <2> QED BY <2>1 DEF Asking
<1> HIDE DEF new
<1>4. /\ request'[r] = new /\ \A q \in Threads : q # r => request'[q] = request[q]
      /\ request' \in [Threads -> Asking]
  BY <1>0, <1>1, <1>3, RequestMoves
<1>5. b \in Reach /\ Reach \in SUBSET (0..n) /\ Tokens[b] = k /\ k \in 0..Burst /\ k \in Nat
      /\ \A d \in 0..n : Tokens[d] \in 0..Burst
  BY <1>0, <1>2, TokensAre, LimitTypes DEF Reach, InUse
<1>6. \A d \in 0..n : d # 0 /\ InUse(d)' => InUse(d)
  BY <1>3, <1>4 DEF InUse
<1>7. HoldInv'
  BY <1>3, <1>4 DEF LimitInv, HoldInv
<1>8. CASE k = 0 /\ UNCHANGED <<buckets, admitted>>
  <2>1. LimitTypeOK'
    BY <1>0, <1>1, <1>4, <1>8 DEF LimitTypeOK, Asking
  <2>2. DropInv'
    BY <1>1, <1>8 DEF LimitInv, DropInv
  <2>3. Reach' \subseteq Reach /\ Tokens' = Tokens
    BY <1>1, <1>6, <1>8 DEF Reach, Tokens
  <2>4. SpendInv'
    BY <1>0, <1>1, <1>8, <2>3, SameWorth
  <2> QED BY <1>7, <2>1, <2>2, <2>4 DEF LimitInv
<1>9. CASE k > 0 /\ buckets' = [buckets EXCEPT ![b].tokens = @ - 1] /\ admitted' = admitted + 1
  <2>1. buckets' = [buckets EXCEPT ![b] = less]
    BY <1>9
  <2>2. k - 1 \in 0..Burst
    BY <1>5, <1>9, LimitAssumption
  <2>3. less \in Bucket /\ less.tokens = k - 1
    <3>1. buckets[b] \in Bucket
      BY <1>0, <1>2, LimitTypes
    <3> HIDE DEF b, k
    <3> QED BY <2>2, <3>1 DEF Bucket
  <2> HIDE DEF less
  <2>4. /\ buckets' \in Seq(Bucket) /\ Len(buckets') = n /\ Tokens'[b] = k - 1
        /\ \A d \in 0..n : d # b => Tokens'[d] = Tokens[d]
    BY <1>0, <1>2, <2>1, <2>3, BucketChanges
  <2>5. admitted' \in Nat /\ admitted \in Nat
    BY <1>0, <1>9, LimitTypes
  <2>6. LimitTypeOK'
    BY <1>0, <1>1, <1>4, <2>4, <2>5 DEF LimitTypeOK, Asking
  <2>7. DropInv'
    BY <1>1, <2>4 DEF LimitInv, DropInv
  <2>8. Reach' \subseteq Reach
    BY <1>1, <1>6, <2>4 DEF Reach
  <2>9. SpendInv'
    <3> DEFINE w == Worth(Reach', Tokens')
               v == Worth(Reach, Tokens')
               a == Worth(Reach, Tokens)
    <3>1. w <= v
      BY <1>0, <1>5, <2>8, CoinsFewer
    <3>2. v = a - k + (k - 1)
      <4> DEFINE Q == Reach \ {b}
                 t == Tokens
                 u == Tokens'
      <4>1. /\ Q \in SUBSET (0..n) /\ b \notin Q /\ Reach = Q \cup {b}
            /\ t[b] \in 0..Burst /\ u[b] \in 0..Burst
            /\ \A d \in Q : u[d] = t[d]
        BY <1>5, <2>2, <2>4
      <4> HIDE DEF Q, t, u, b
      <4>2. Worth(Q \cup {b}, u) = Worth(Q \cup {b}, t) - t[b] + u[b]
        BY <1>0, <1>2, <4>1, CoinsChange
      <4>3. t[b] = k /\ u[b] = k - 1
        BY <1>5, <2>4 DEF t, u
      <4> QED BY <4>1, <4>2, <4>3 DEF t, u
    <3>3. w \in Nat
      <4>1. Reach' \in SUBSET (0..n)
        BY <1>5, <2>8
      <4> QED BY <1>0, <4>1, CoinsFinite
    <3>4. a \in Nat
      BY <1>0, TokensAre
    <3>5. Worth(Reach, Tokens)' = w
      BY DEF Worth, Coins
    <3> HIDE DEF w, v, a, k
    <3>6. refilled \in Nat /\ dropped \in Nat
      BY <1>0, LimitTypes
    <3>7. refilled' = refilled /\ dropped' = dropped
      BY <1>1
    <3>8. admitted' + w - refilled' <= admitted + a - refilled
      BY <1>5, <1>9, <2>5, <3>1, <3>2, <3>3, <3>4, <3>6, <3>7
    <3>9. admitted' + w - refilled' <= admitted + Worth(Reach, Tokens) - refilled
      BY <3>8 DEF a
    <3> QED BY <1>0, <2>5, <3>3, <3>5, <3>6, <3>7, <3>9, SumKept
  <2> QED BY <1>7, <2>6, <2>7, <2>9 DEF LimitInv
<1> QED BY <1>8, <1>9 DEF Allow

\* A token drips into a bucket.
LEMMA DripKeeps ==
  ASSUME LimitInv, NEW b \in 1..MaxBuckets, Drip(b)
  PROVE  LimitInv'
<1> DEFINE n == Len(buckets)
           k == buckets[b].tokens
           more == [buckets[b] EXCEPT !.tokens = k + 1]
<1>0. LimitTypeOK /\ n \in Nat /\ SpendInv /\ DOMAIN buckets = 1..n
  BY LimitTypes DEF LimitInv
<1>1. /\ b \in 1..n /\ b \in 0..n /\ k < Burst /\ refilled < MaxRefills
      /\ refilled' = refilled + 1 /\ UNCHANGED <<mapped, request, admitted, dropped>>
      /\ buckets' = [buckets EXCEPT ![b] = more]
  BY <1>0 DEF Drip
<1>2. k \in 0..Burst /\ k \in Nat /\ k + 1 \in 0..Burst /\ Tokens[b] = k
      /\ Reach \in SUBSET (0..n)
  <2>1. k \in 0..Burst /\ k \in Nat /\ Tokens[b] = k /\ Reach \in SUBSET (0..n)
    BY <1>0, <1>1, TokensAre, LimitTypes
  <2> QED BY <1>1, <2>1, LimitAssumption
<1>3. more \in Bucket /\ more.tokens = k + 1
  <2>1. buckets[b] \in Bucket
    BY <1>0, <1>1, LimitTypes
  <2> HIDE DEF k
  <2> QED BY <1>2, <2>1 DEF Bucket
<1> HIDE DEF more
<1>4. /\ buckets' \in Seq(Bucket) /\ Len(buckets') = n /\ Tokens'[b] = k + 1
      /\ \A d \in 0..n : d # b => Tokens'[d] = Tokens[d]
  BY <1>0, <1>1, <1>3, BucketChanges
<1>5. refilled' \in 0..MaxRefills /\ refilled' \in Nat
  BY <1>0, <1>1, LimitTypes
<1>6. LimitTypeOK'
  BY <1>0, <1>1, <1>4, <1>5 DEF LimitTypeOK
<1>7. HoldInv' /\ DropInv'
  BY <1>1, <1>4 DEF LimitInv, HoldInv, DropInv
<1>8. Reach' = Reach
  BY <1>1, <1>4 DEF Reach, InUse
<1>9. SpendInv'
  <2> DEFINE w == Worth(Reach, Tokens')
             a == Worth(Reach, Tokens)
  <2>1. w = a \/ w = a - k + (k + 1)
    <3>1. CASE b \in Reach
      <4>1. \A d \in Reach : d # b => Tokens'[d] = Tokens[d]
        BY <1>2, <1>4
      <4>2. Tokens[b] \in 0..Burst /\ Tokens'[b] \in 0..Burst
        BY <1>2, <1>4
      <4>3. Worth(Reach, Tokens') = Worth(Reach, Tokens) - Tokens[b] + Tokens'[b]
        <5> DEFINE Q == Reach \ {b}
                   t == Tokens
                   u == Tokens'
        <5>1. /\ Q \in SUBSET (0..n) /\ b \notin Q /\ Reach = Q \cup {b}
              /\ t[b] \in 0..Burst /\ u[b] \in 0..Burst
              /\ \A d \in Q : u[d] = t[d]
          BY <1>2, <3>1, <4>1, <4>2
        <5> HIDE DEF Q, t, u
        <5>2. Worth(Q \cup {b}, u) = Worth(Q \cup {b}, t) - t[b] + u[b]
          BY <1>0, <1>1, <5>1, CoinsChange
        <5> QED BY <5>1, <5>2 DEF t, u
      <4> QED BY <1>2, <1>4, <4>3
    <3>2. CASE b \notin Reach
      <4>1. \A d \in Reach : Tokens'[d] = Tokens[d]
        BY <1>2, <1>4, <3>2
      <4> QED BY <4>1, CoinsSame
    <3> QED BY <3>1, <3>2
  <2>2. w \in Nat /\ a \in Nat
    BY <1>0, <1>2, CoinsFinite
  <2>3. Worth(Reach, Tokens)' = w
    BY <1>8 DEF Worth, Coins
  <2>4. admitted \in Nat /\ refilled \in Nat /\ dropped \in Nat
    BY <1>0, LimitTypes
  <2> HIDE DEF w, a, k
  <2>5. admitted' + w - refilled' <= admitted + a - refilled
    BY <1>1, <1>2, <2>1, <2>2, <2>4
  <2>6. admitted' + w - refilled' <= admitted + Worth(Reach, Tokens) - refilled
    BY <2>5 DEF a
  <2> QED BY <1>0, <1>1, <1>5, <2>2, <2>3, <2>4, <2>6, SumKept
<1> QED BY <1>6, <1>7, <1>9 DEF LimitInv

\* Every bucket is full, and a period begins: within reach are the buckets
\* that requests still hold, and one more.
LEMMA TenMinutesKeeps ==
  ASSUME LimitInv, TenMinutesPass
  PROVE  LimitInv'
<1> DEFINE n == Len(buckets)
           H == {b \in 1..n : b # mapped /\ InUse(b)}
<1>0. LimitTypeOK /\ n \in Nat /\ buckets \in Seq(Bucket) /\ DOMAIN buckets = 1..n
      /\ mapped \in 0..n /\ mapped \in Nat /\ n <= MaxBuckets /\ MaxBuckets \in Nat
  BY LimitTypes DEF LimitInv
<1>1. /\ admitted' = 0 /\ refilled' = 0 /\ dropped' = Cardinality(H)
      /\ UNCHANGED <<mapped, request>>
  BY <1>0 DEF TenMinutesPass
<1>2. /\ \A b \in 1..n :
           buckets'[b] = [tokens |-> Burst,
                          seen |-> IF buckets[b].seen = "lately" THEN "long ago"
                                   ELSE buckets[b].seen]
      /\ DOMAIN buckets' = 1..n
      /\ buckets' = [d \in 1..n |-> buckets'[d]]
  BY <1>0 DEF TenMinutesPass
<1>3. \A b \in 1..n : buckets'[b] \in Bucket /\ buckets'[b].tokens = Burst
  <2> SUFFICES ASSUME NEW b \in 1..n PROVE buckets'[b] \in Bucket /\ buckets'[b].tokens = Burst
    OBVIOUS
  <2> DEFINE s == IF buckets[b].seen = "lately" THEN "long ago" ELSE buckets[b].seen
  <2>1. s \in {"never", "lately", "long ago"}
    BY <1>0, LimitTypes DEF Bucket
  <2> DEFINE full == Burst
             all == 0..Burst
  <2>2. full \in all
    BY LimitAssumption
  <2>3. buckets'[b] = [tokens |-> full, seen |-> s]
    BY <1>2
  <2>4. Bucket = [tokens : all, seen : {"never", "lately", "long ago"}]
    BY DEF Bucket
  <2> HIDE DEF s, full, all
  <2>5. [tokens |-> full, seen |-> s] \in [tokens : all, seen : {"never", "lately", "long ago"}]
    BY <2>1, <2>2
  <2> DEFINE r == buckets'[b]
             B == Bucket
  <2> HIDE DEF r, B
  <2>6. r = [tokens |-> full, seen |-> s]
    BY <2>3 DEF r
  <2>7. r \in [tokens : all, seen : {"never", "lately", "long ago"}]
    BY <2>5, <2>6
  <2>8. r \in B
    BY <2>4, <2>7 DEF B
  <2>9. r.tokens = full
    BY <2>6
  <2> QED BY <2>8, <2>9 DEF full, r, B
<1>4. buckets' \in Seq(Bucket) /\ Len(buckets') = n
  <2>1. buckets' \in [1..n -> Bucket]
    BY <1>2, <1>3
  <2> DEFINE f == buckets'
             B == Bucket
  <2>2. f \in [1..n -> B]
    BY <2>1
  <2> HIDE DEF n, f, B
  <2>3. f \in Seq(B) /\ Len(f) = n
    BY <1>0, <2>2
  <2> QED BY <2>3 DEF f, B
<1>5. IsFiniteSet(1..n) /\ Cardinality(1..n) = n
  <2> HIDE DEF n
  <2>1. Cardinality(1..n) = IF 1 > n THEN 0 ELSE n - 1 + 1
    BY <1>0, FS_Interval
  <2>2. IsFiniteSet(1..n)
    BY <1>0, FS_Interval
  <2> QED BY <1>0, <2>1, <2>2
<1>6. IsFiniteSet(H) /\ Cardinality(H) \in Nat /\ Cardinality(H) <= n
  <2>1. H \in SUBSET (1..n)
    OBVIOUS
  <2> HIDE DEF H
  <2>2. IsFiniteSet(H) /\ Cardinality(H) <= Cardinality(1..n)
    BY <1>5, <2>1, FS_Subset
  <2> QED BY <1>5, <2>2, FS_CardinalityType
<1>7. mapped # 0 => Cardinality(H) < n
  <2> SUFFICES ASSUME mapped # 0 PROVE Cardinality(H) < n
    OBVIOUS
  <2>1. mapped \in 1..n /\ H \in SUBSET ((1..n) \ {mapped})
    BY <1>0
  <2>2. IsFiniteSet((1..n) \ {mapped})
    BY <1>5, FS_RemoveElement
  <2>3. Cardinality((1..n) \ {mapped}) = n - 1
    BY <1>5, <2>1, FS_RemoveElement
  <2> HIDE DEF H
  <2>4. Cardinality(H) <= n - 1
    BY <2>1, <2>2, <2>3, FS_Subset
  <2> QED BY <1>0, <1>6, <2>4
<1>8. LimitTypeOK'
  <2>1. refilled' \in 0..MaxRefills /\ admitted' \in Nat /\ dropped' \in 0..MaxBuckets
    <3>1. 0 \in 0..MaxRefills
      BY LimitAssumption
    <3>2. Cardinality(H) \in 0..MaxBuckets
      BY <1>0, <1>6
    <3> QED BY <1>1, <3>1, <3>2
  <2> QED BY <1>0, <1>1, <1>4, <2>1 DEF LimitTypeOK
<1>9. HoldInv' /\ DropInv'
  BY <1>1, <1>4, <1>6, <1>7 DEF LimitInv, HoldInv, DropInv
<1>10. SpendInv'
  <2>1. Reach' = H \cup {mapped} /\ mapped \notin H /\ H \in SUBSET (0..n)
        /\ Reach' \in SUBSET (0..n)
    <3>1. \A b \in 0..n : b # 0 => b \in 1..n
      BY <1>0
    <3>2. \A b \in 1..n : b # 0 /\ b \in 0..n
      BY <1>0
    <3>3. \A b \in 1..n : InUse(b)' <=> InUse(b)
      BY <1>1 DEF InUse
    <3> QED BY <1>0, <1>1, <1>4, <3>1, <3>2, <3>3 DEF Reach
  <2>2. \A b \in Reach' : Tokens'[b] = Burst
    <3>1. \A b \in 0..n : b = 0 \/ b \in 1..n
      BY <1>0
    <3>2. \A b \in 0..n : Tokens'[b] = Burst
      BY <1>3, <1>4, <3>1 DEF Tokens
    <3> QED BY <2>1, <3>2
  <2> HIDE DEF H
  <2>3. Worth(Reach', Tokens') = Cardinality(Reach') * Burst
    BY <1>0, <2>1, <2>2, CoinsFull
  <2>4. Cardinality(Reach') = Cardinality(H) + 1
    BY <1>6, <2>1, FS_AddElement
  <2>5. Worth(Reach, Tokens)' = Worth(Reach', Tokens')
    BY DEF Worth, Coins
  <2> DEFINE h == Cardinality(H)
  <2>6. (h + 1) * Burst = Burst * (1 + h) /\ Burst * (1 + h) \in Nat
    BY <1>6, LimitAssumption
  <2> HIDE DEF h
  <2>7. Worth(Reach, Tokens)' = Burst * (1 + h)
    BY <2>3, <2>4, <2>5, <2>6 DEF h
  <2>8. admitted' = 0 /\ refilled' = 0 /\ dropped' = h
    BY <1>1 DEF h
  <2>9. 0 + Burst * (1 + h) <= Burst * (1 + h) + 0
    BY <2>6
  <2> QED BY <2>7, <2>8, <2>9 DEF SpendInv
<1> QED BY <1>8, <1>9, <1>10 DEF LimitInv

\* The map loses its bucket: bucket 0, the next one, takes its place, and the
\* old one stays within reach of those that hold it.
LEMMA CleanUpKeeps ==
  ASSUME LimitInv, CleanUp
  PROVE  LimitInv'
<1> DEFINE n == Len(buckets)
           U == {b \in 1..n : InUse(b)}
           k == buckets[mapped].tokens
<1>0. LimitTypeOK /\ n \in Nat /\ mapped \in 0..n /\ mapped \in Nat /\ SpendInv
      /\ n <= MaxBuckets /\ MaxBuckets \in Nat /\ dropped \in Nat /\ Burst \in Nat
      /\ admitted \in Nat /\ refilled \in Nat
  BY LimitTypes DEF LimitInv
<1>1. /\ mapped # 0 /\ mapped' = 0 /\ UNCHANGED <<buckets, request, admitted, refilled>>
      /\ dropped' = IF Matters(mapped) THEN dropped + 1 ELSE dropped
      /\ mapped \in 1..n
  BY <1>0 DEF CleanUp
<1>2. dropped < n
  BY <1>1 DEF LimitInv, DropInv
<1>3. dropped' \in Nat /\ dropped' \in 0..MaxBuckets /\ dropped' <= n
  BY <1>0, <1>1, <1>2
<1>4. LimitTypeOK'
  <2>1. mapped' \in 0..n
    BY <1>0, <1>1
  <2> QED BY <1>0, <1>1, <1>3, <2>1 DEF LimitTypeOK
<1>5. HoldInv' /\ DropInv'
  BY <1>1, <1>3 DEF LimitInv, HoldInv, DropInv
<1>6. /\ Reach = U \cup {mapped} /\ Reach' = U \cup {0} /\ 0 \notin U /\ U \in SUBSET (0..n)
      /\ 0 \in 0..n /\ Tokens' = Tokens
  <2>1. /\ \A b \in 0..n : b # 0 => b \in 1..n
        /\ \A b \in 1..n : b # 0 /\ b \in 0..n
        /\ 0 \in 0..n
    BY <1>0
  <2>2. \A b \in 1..n : InUse(b)' <=> InUse(b)
    BY <1>1 DEF InUse
  <2>3. Reach = U \cup {mapped}
    BY <1>0, <1>1, <2>1 DEF Reach
  <2>4. Reach' = U \cup {0}
    BY <1>1, <2>1, <2>2 DEF Reach
  <2> QED BY <1>1, <2>1, <2>3, <2>4 DEF Tokens
<1>7. /\ Tokens[0] = Burst /\ Tokens[mapped] = k /\ k \in 0..Burst /\ k \in Nat
      /\ Burst \in 0..Burst
  BY <1>0, <1>1, TokensAre, LimitTypes
<1>8. mapped \in U <=> InUse(mapped)
  BY <1>1
<1> HIDE DEF U
<1> DEFINE zero == 0
           t == Tokens
           w == Worth(U \cup {zero}, t)
           a == Worth(U \cup {mapped}, t)
           v == Worth(U, t)
<1>9. n \in Nat /\ U \in SUBSET (0..n) /\ zero \in 0..n /\ zero \notin U /\ t[zero] \in 0..Burst
  BY <1>0, <1>6, <1>7
<1>10. w = v + t[zero]
  <2> HIDE DEF zero, t
  <2> QED BY <1>9, CoinsMore
<1>11. w = v + Burst
  BY <1>7, <1>10
<1>12. v \in Nat
  <2> HIDE DEF t
  <2> QED BY <1>9, CoinsFinite
<1>13. InUse(mapped) => a = v
  <2>1. InUse(mapped) => U \cup {mapped} = U
    BY <1>8
  <2> QED BY <2>1
<1>14. ~InUse(mapped) => a = v + k
  <2> SUFFICES ASSUME ~InUse(mapped) PROVE a = v + k
    OBVIOUS
  <2>1. mapped \notin U /\ t[mapped] = k /\ t[mapped] \in 0..Burst
    BY <1>7, <1>8
  <2> HIDE DEF t
  <2>2. Worth(U \cup {mapped}, t) = Worth(U, t) + t[mapped]
    BY <1>0, <1>9, <2>1, CoinsMore
  <2> QED BY <2>1, <2>2
<1>15. Worth(Reach, Tokens)' = w /\ Worth(Reach, Tokens) = a
  <2>1. Worth(Reach, Tokens)' = Worth(Reach', Tokens')
    BY DEF Worth, Coins
  <2> QED BY <1>6, <2>1
<1>16. Matters(mapped) <=> (InUse(mapped) \/ k < Burst)
  BY DEF Matters
<1> HIDE DEF w, a, v, k, t, zero
<1>17. w \in Nat /\ a \in Nat
  BY <1>0, <1>7, <1>11, <1>12, <1>13, <1>14
<1>18. CASE Matters(mapped)
  <2>1. w <= a + Burst
    BY <1>0, <1>7, <1>11, <1>12, <1>13, <1>14
  <2>2. dropped' = dropped + 1
    BY <1>1, <1>18
  <2> QED BY <1>0, <1>1, <1>3, <1>4, <1>5, <1>15, <1>17, <2>1, <2>2, SumKept DEF LimitInv
<1>19. CASE ~Matters(mapped)
  <2>1. w = a
    <3>1. ~InUse(mapped) /\ k = Burst
      <4>1. ~InUse(mapped) /\ ~(k < Burst)
        BY <1>16, <1>19
      <4>2. k <= Burst
        BY <1>7, <1>0
      <4> QED BY <1>0, <1>7, <4>1, <4>2
    <3> QED BY <1>11, <1>14, <3>1
  <2>2. dropped' = dropped
    BY <1>1, <1>19
  <2>3. admitted' + w - refilled' <= admitted + a - refilled
    BY <1>0, <1>1, <1>17, <2>1
  <2>4. admitted' \in Nat /\ refilled' \in Nat
    BY <1>0, <1>1
  <2> QED BY <1>0, <1>3, <1>4, <1>5, <1>15, <1>17, <2>2, <2>3, <2>4, SumKept DEF LimitInv
<1> QED BY <1>18, <1>19

-----------------------------------------------------------------------------
LEMMA LimitStart == LimitInit => LimitInv
<1> SUFFICES ASSUME LimitInit PROVE LimitInv
    OBVIOUS
<1>1. /\ mapped = 0 /\ buckets = <<>> /\ Len(buckets) = 0 /\ buckets \in Seq(Bucket)
      /\ admitted = 0 /\ refilled = 0 /\ dropped = 0
      /\ \A r \in Threads : request[r] = [at |-> "new", bucket |-> 0]
  BY DEF LimitInit
<1>2. Burst \in Nat /\ MaxBuckets \in Nat /\ MaxRefills \in Nat
  BY LimitAssumption
<1>3. LimitTypeOK
  <2>1. /\ 0 \in 0..0 /\ 0 <= MaxBuckets /\ 0 \in 0..MaxRefills /\ 0 \in 0..MaxBuckets
    BY <1>2
  <2>2. request \in [Threads -> [at : {"new", "insert", "touch", "allow"}, bucket : 0..0]]
    BY <2>1 DEF LimitInit
  <2> QED BY <1>1, <2>1, <2>2 DEF LimitTypeOK
<1>4. HoldInv /\ DropInv
  BY <1>1 DEF HoldInv, DropInv
<1>5. SpendInv
  <2>1. Reach = {0} /\ Tokens[0] = Burst
    BY <1>1 DEF Reach, Tokens
  <2>2. \A b \in {0} : Tokens[b] = Burst
    BY <2>1
  <2>3. {0} \in SUBSET (0..0)
    OBVIOUS
  <2>4. Worth({0}, Tokens) = Cardinality({0}) * Burst
    BY <2>2, <2>3, CoinsFull
  <2>5. Cardinality({0}) = 1
    BY FS_Singleton
  <2>6. Worth(Reach, Tokens) = Burst
    BY <1>2, <2>1, <2>4, <2>5
  <2> QED BY <1>1, <1>2, <2>6 DEF SpendInv
<1> QED BY <1>3, <1>4, <1>5 DEF LimitInv

LEMMA LimitStepKeeps == LimitInv /\ [LimitNext]_limitVars => LimitInv'
<1> SUFFICES ASSUME LimitInv, [LimitNext]_limitVars PROVE LimitInv'
    OBVIOUS
<1>1. CASE UNCHANGED limitVars
  BY <1>1 DEF limitVars, LimitInv, LimitTypeOK, HoldInv, DropInv, SpendInv, Reach, Tokens,
              InUse, Worth, Coins
<1>2. CASE LimitNext
  BY <1>2, LookUpKeeps, InsertKeeps, TouchKeeps, AllowKeeps, DripKeeps, TenMinutesKeeps,
     CleanUpKeeps DEF LimitNext
<1> QED BY <1>1, <1>2

LEMMA SpendIsBounded == LimitInv => OneBurst
<1> SUFFICES ASSUME LimitInv PROVE OneBurst
    OBVIOUS
<1> DEFINE a == Worth(Reach, Tokens)
           c == Burst * (1 + dropped)
<1>1. a \in Nat /\ admitted \in Nat /\ refilled \in Nat /\ dropped \in Nat /\ Burst \in Nat
  BY TokensAre, LimitTypes DEF LimitInv
<1>2. c \in Int
  BY <1>1
<1>3. admitted + a <= c + refilled
  BY DEF LimitInv, SpendInv
<1> HIDE DEF a, c
<1>4. admitted <= c + refilled
  BY <1>1, <1>2, <1>3
<1> QED BY <1>4 DEF OneBurst, c

\* A tenant gets one burst, what drips in, and a burst more for each bucket
\* that the clean-up drops while it matters, for any number of requests that
\* race to create, hold and drop buckets.
THEOREM OneBurstIsGiven == LimitSpec => []OneBurst
<1> QED BY SpendIsBounded, LimitStart, LimitStepKeeps, PTL DEF LimitSpec


-----------------------------------------------------------------------------
(***************************************************************************)
(* StatusStream.  While the handler polls, what it compares the row with   *)
(* is what it last read and what the client was last sent.                 *)
(***************************************************************************)
PollInv ==
  /\ stream = "polling" => shown = lastRead /\ last = lastRead
  /\ stream = "done" => lastRead.state \in Ended

StreamInv == StreamTypeOK /\ PollInv /\ ShownIsRead /\ ClosedAfterEnd

LEMMA StreamTypes ==
  ASSUME StreamTypeOK
  PROVE  /\ audit \in AuditRow /\ last \in AuditRow /\ shown \in AuditRow
         /\ lastRead \in AuditRow /\ moves \in 0..MaxMoves /\ MaxMoves \in Nat
BY StreamAssumption DEF StreamTypeOK

\* Rows that do not differ are the same.
LEMMA NothingDiffers ==
  ASSUME audit \in AuditRow, last \in AuditRow, ~Differs(audit)
  PROVE  last = audit
BY DEF AuditRow, Differs

\* At 100 percent a row keeps its state.
LEMMA WholeRow ==
  ASSUME NEW a \in AuditRow
  PROVE  /\ [a EXCEPT !.percent = 100] \in AuditRow
         /\ [a EXCEPT !.percent = 100].state = a.state
<1> DEFINE whole == 100
<1>1. whole \in Percents
  BY StreamAssumption
<1> HIDE DEF whole
<1>2. /\ [a EXCEPT !.percent = whole] \in AuditRow
      /\ [a EXCEPT !.percent = whole].state = a.state
  BY <1>1 DEF AuditRow
<1> QED BY <1>2 DEF whole

LEMMA StreamStart == StreamInit => StreamInv
<1> SUFFICES ASSUME StreamInit PROVE StreamInv
    OBVIOUS
<1> DEFINE steps == 0..MaxMoves
<1>1. {0} \subseteq steps /\ 0 \in steps
  BY StreamAssumption
<1>2. /\ audit \in [state : AuditStates, step : {0}, percent : Percents]
      /\ last = audit /\ shown = audit /\ lastRead = audit /\ moves = 0 /\ stream = "called"
  BY DEF StreamInit
<1>3. AuditRow = [state : AuditStates, step : steps, percent : Percents]
  BY DEF AuditRow
<1> HIDE DEF steps
<1>4. audit \in AuditRow
  BY <1>1, <1>2, <1>3
<1>5. StreamTypeOK
  BY <1>1, <1>2, <1>4 DEF StreamTypeOK, steps
<1> QED BY <1>2, <1>5 DEF StreamInv, PollInv, ShownIsRead, ClosedAfterEnd

LEMMA StreamStepKeeps == StreamInv /\ [StreamNext]_streamVars => StreamInv'
<1> SUFFICES ASSUME StreamInv, [StreamNext]_streamVars PROVE StreamInv'
    OBVIOUS
<1> USE DEF StreamInv, PollInv, ShownIsRead, ClosedAfterEnd
<1>0. StreamTypeOK /\ audit \in AuditRow /\ last \in AuditRow /\ shown \in AuditRow
      /\ lastRead \in AuditRow /\ moves \in 0..MaxMoves
  BY StreamTypes
<1>1. CASE UNCHANGED streamVars
  BY <1>1 DEF streamVars, StreamTypeOK
<1>2. CASE RowMoves
  <2>1. audit' \in AuditRow /\ moves' \in 0..MaxMoves
    <3> DEFINE steps == 0..MaxMoves
               next == moves + 1
    <3>1. next \in steps
      BY <1>0, <1>2, StreamTypes DEF RowMoves
    <3>2. audit.step \in steps
      BY <1>0 DEF AuditRow
    <3>3. /\ audit' \in [state : AuditStates, step : {audit.step, next}, percent : Percents]
          /\ moves' = next
      BY <1>2 DEF RowMoves
    <3>4. AuditRow = [state : AuditStates, step : steps, percent : Percents]
      BY DEF AuditRow
    <3> HIDE DEF steps, next
    <3>5. audit' \in [state : AuditStates, step : steps, percent : Percents]
      BY <3>1, <3>2, <3>3
    <3> QED BY <3>1, <3>3, <3>4, <3>5 DEF steps
  <2> QED BY <1>0, <1>2, <2>1 DEF RowMoves, StreamTypeOK
<1>3. CASE OpenStream
  <2>1. lastRead' = audit /\ last' = audit /\ UNCHANGED <<audit, moves>>
    BY <1>3 DEF OpenStream
  <2>2. CASE audit.state \in Ended /\ stream' = "done" /\ shown' = [audit EXCEPT !.percent = 100]
    <3>1. shown' \in AuditRow /\ shown'.state = audit.state
      BY <1>0, <2>2, WholeRow
    <3>2. StreamTypeOK'
      BY <1>0, <2>1, <2>2, <3>1 DEF StreamTypeOK
    <3> QED BY <2>1, <2>2, <3>1, <3>2
  <2>3. CASE audit.state \notin Ended /\ stream' = "polling" /\ shown' = audit
    BY <1>0, <2>1, <2>3 DEF StreamTypeOK
  <2>4. CASE audit.state \in Ended /\ stream' = "unheard" /\ UNCHANGED shown
    BY <1>0, <2>1, <2>4 DEF StreamTypeOK
  <2> QED BY <1>3, <2>2, <2>3, <2>4 DEF OpenStream
<1>4. CASE Poll
  <2>1. lastRead' = audit /\ UNCHANGED <<audit, moves>> /\ stream = "polling"
        /\ stream' = IF audit.state \in Ended THEN "done" ELSE "polling"
    BY <1>4 DEF Poll
  <2>2. shown' = audit /\ last' = audit
    <3>1. CASE Differs(audit)
      BY <1>4, <3>1 DEF Poll, Sends
    <3>2. CASE ~Differs(audit)
      BY <1>0, <1>4, <2>1, <3>2, NothingDiffers DEF Poll, Sends
    <3> QED BY <3>1, <3>2
  <2>3. stream' \in {"done", "polling"} /\ (stream' = "done" => audit.state \in Ended)
    BY <2>1
  <2> QED BY <1>0, <2>1, <2>2, <2>3 DEF StreamTypeOK
<1>5. CASE StreamFails \/ ClientLeaves
  BY <1>0, <1>5 DEF StreamFails, ClientLeaves, StreamTypeOK
<1> QED BY <1>1, <1>2, <1>3, <1>4, <1>5 DEF StreamNext

\* No change of the row that the handler reads is kept from the client, and a
\* stream that is closed without an error has told how the audit ended, for
\* any states, percentages and number of changes: what StreamTellsTheEnd says
\* beside its liveness.
THEOREM StreamIsTrue == StreamSpec => [](ShownIsRead /\ ClosedAfterEnd)
<1>1. StreamInv => ShownIsRead /\ ClosedAfterEnd
  BY DEF StreamInv
<1> QED BY <1>1, StreamStart, StreamStepKeeps, PTL DEF StreamSpec

-----------------------------------------------------------------------------
(***************************************************************************)
(* OrgPolicy.  The times of updated_at are drawn one per call, so no two   *)
(* policies and no two calls share one (Drawn).  Which policy is the       *)
(* newest is decided by the last call to deactivate: all policies that are *)
(* inactive are older than the time it has taken or will take, and after   *)
(* its insert older than a policy that is active (Leading).  That a set of *)
(* active policies has a newest one is carried along (Heads): it could not *)
(* be found afterwards.  How many may be active is counted (Counted).      *)
(***************************************************************************)
Policy == [active : BOOLEAN, updated : Nat]
OrgCall == [at : {"idle", "stamp", "create", "write"}, call : Nat, updated : Nat, row : Risks]
Creates(a) == admin[a].at = "create"
Stamping == {a \in Admins : admin[a].at = "stamp"}

Shape ==
  /\ policies \in Seq(Policy) /\ updates \in Nat /\ clock \in Nat
  /\ system \in System
  /\ admin \in [Admins -> OrgCall]

Drawn ==
  /\ \A p \in 1..Len(policies) : policies[p].updated \in 1..clock
  /\ \A a \in Admins : Creates(a) => admin[a].updated \in 1..clock
  /\ \A p, q \in 1..Len(policies) : policies[p].updated = policies[q].updated => p = q
  /\ \A a, b \in Admins :
       Creates(a) /\ Creates(b) /\ admin[a].updated = admin[b].updated => a = b
  /\ \A a \in Admins, p \in 1..Len(policies) :
       Creates(a) => admin[a].updated # policies[p].updated

InactiveBefore(time) ==
  \A q \in 1..Len(policies) : ~policies[q].active => policies[q].updated <= time

Leading ==
  LastStored =>
    \/ \E a \in Admins : admin[a].at = "stamp" /\ admin[a].call = updates
    \/ \E a \in Admins : Creates(a) /\ admin[a].call = updates /\ InactiveBefore(admin[a].updated)
    \/ \E p \in 1..Len(policies) : policies[p].active /\ InactiveBefore(policies[p].updated)

Heads ==
  (\E p \in 1..Len(policies) : policies[p].active) =>
    \E p \in 1..Len(policies) :
      /\ policies[p].active
      /\ \A q \in 1..Len(policies) : policies[q].active => policies[q].updated <= policies[p].updated

OrgInv == Shape /\ Drawn /\ Leading /\ Heads

\* Every stored policy took a call, and so does every one still to be stored;
\* every time taken did; and the policies that may yet be active together are
\* the calls that were between their statements at the last deactivation.
Counted ==
  /\ updates \in 0..MaxPolicies /\ width \in 0..updates /\ lost \in 0..updates
  /\ \A a \in Admins : admin[a].call <= updates /\ admin[a].updated <= clock
  /\ IsFiniteSet(Between) /\ IsFiniteSet(Stamping) /\ IsFiniteSet(Active)
  /\ Len(policies) + Cardinality(Between) <= updates
  /\ clock + Cardinality(Stamping) <= updates
  /\ Cardinality(Active) + Cardinality(Between) <= width

-----------------------------------------------------------------------------
LEMMA PoliciesAre ==
  ASSUME Shape
  PROVE  /\ Len(policies) \in Nat /\ DOMAIN policies = 1..Len(policies)
         /\ \A p \in 1..Len(policies) : policies[p] \in Policy
         /\ Active = {p \in 1..Len(policies) : policies[p].active}
<1>1. policies \in Seq(Policy)
  BY DEF Shape
<1>2. Len(policies) \in Nat /\ DOMAIN policies = 1..Len(policies)
  BY <1>1, LenProperties
<1>3. \A p \in 1..Len(policies) : policies[p] \in Policy
  BY <1>1, ElementOfSeq
<1> QED BY <1>2, <1>3 DEF Active

LEMMA NoCallIs ==
  ASSUME Shape
  PROVE  /\ NoCall \in OrgCall /\ NoCall.at = "idle"
         /\ NoCall.call = 0 /\ NoCall.updated = 0
<1>1. (CHOOSE r \in Risks : TRUE) \in Risks
  BY DEF Shape, System
<1> QED BY <1>1 DEF NoCall, OrgCall

\* What the invariant says of times, the property says of policies in force.
LEMMA OrgImplies == OrgInv /\ Counted => PolicyInForce /\ NoMoreThanCrossed /\ InForceIsNewest
<1> SUFFICES ASSUME OrgInv, Counted PROVE PolicyInForce /\ NoMoreThanCrossed /\ InForceIsNewest
    OBVIOUS
<1>1. /\ Len(policies) \in Nat /\ DOMAIN policies = 1..Len(policies)
      /\ \A p \in 1..Len(policies) : policies[p].updated \in Nat
      /\ Active = {p \in 1..Len(policies) : policies[p].active}
  BY PoliciesAre DEF OrgInv, Policy
\* A time belongs to one policy, so the newest active one is the only one.
<1>2. \A p, q \in GetActivePolicy(TRUE) : p = q
  <2> SUFFICES ASSUME NEW p \in GetActivePolicy(TRUE), NEW q \in GetActivePolicy(TRUE)
               PROVE  p = q
    OBVIOUS
  <2>1. p \in 1..Len(policies) /\ q \in 1..Len(policies)
    BY <1>1 DEF GetActivePolicy
  <2>2. policies[p].updated <= policies[q].updated /\ policies[q].updated <= policies[p].updated
    BY DEF GetActivePolicy
  <2>3. policies[p].updated \in Nat /\ policies[q].updated \in Nat
    BY <1>1, <2>1
  <2>4. policies[p].updated = policies[q].updated
    BY <2>2, <2>3
  <2> QED BY <2>1, <2>4 DEF OrgInv, Drawn
<1>3. NoMoreThanCrossed
  <2>1. /\ Cardinality(Active) \in Nat /\ Cardinality(Between) \in Nat /\ width \in Nat
        /\ Cardinality(Active) + Cardinality(Between) <= width
    BY FS_CardinalityType DEF Counted, OrgInv, Shape
  <2> QED BY <2>1 DEF NoMoreThanCrossed
<1>4. Active # {} => Cardinality(GetActivePolicy(TRUE)) = 1
  <2> SUFFICES ASSUME Active # {} PROVE Cardinality(GetActivePolicy(TRUE)) = 1
    OBVIOUS
  <2>1. PICK p \in 1..Len(policies) :
          /\ policies[p].active
          /\ \A q \in 1..Len(policies) :
               policies[q].active => policies[q].updated <= policies[p].updated
    BY <1>1 DEF OrgInv, Heads
  <2>2. p \in GetActivePolicy(TRUE)
    BY <1>1, <2>1 DEF GetActivePolicy
  <2>3. GetActivePolicy(TRUE) = {p}
    BY <1>2, <2>2
  <2> QED BY <2>3, FS_Singleton
\* When the calls have ended, the last one's policy or one behind it is newer
\* than all that are inactive.
<1>5. ASSUME Between = {}, LastStored
      PROVE  \E p \in 1..Len(policies) : policies[p].active /\ InactiveBefore(policies[p].updated)
  BY <1>5 DEF OrgInv, Leading, Between, Creates
<1>6. ASSUME Between = {}, LastStored,
             NEW p \in GetActivePolicy(TRUE), NEW q \in DOMAIN policies
      PROVE  policies[q].updated <= policies[p].updated
  <2>1. PICK r \in 1..Len(policies) : policies[r].active /\ InactiveBefore(policies[r].updated)
    BY <1>5, <1>6
  <2>2. /\ p \in 1..Len(policies) /\ q \in 1..Len(policies)
        /\ policies[r].updated <= policies[p].updated
        /\ policies[q].active => policies[q].updated <= policies[p].updated
    BY <1>1, <2>1, <1>6 DEF GetActivePolicy
  <2>3. ~policies[q].active => policies[q].updated <= policies[r].updated
    BY <2>1, <2>2 DEF InactiveBefore
  <2>4. /\ policies[p].updated \in Nat /\ policies[q].updated \in Nat
        /\ policies[r].updated \in Nat
    BY <1>1, <2>1, <2>2
  <2> QED BY <2>2, <2>3, <2>4
<1>7. InForceIsNewest
  BY <1>4, <1>6 DEF InForceIsNewest
<1>8. PolicyInForce
  BY <1>1, <1>5 DEF PolicyInForce
<1> QED BY <1>3, <1>7, <1>8

-----------------------------------------------------------------------------
LEMMA OrgStart == OrgInit => OrgInv /\ Counted
<1> SUFFICES ASSUME OrgInit PROVE OrgInv /\ Counted
    OBVIOUS
<1>1. /\ Len(policies) = 0 /\ 1..Len(policies) = {} /\ policies \in Seq(Policy)
      /\ updates = 0 /\ clock = 0 /\ width = 0 /\ lost = 0
  BY EmptySeq DEF OrgInit
<1>2. \A a \in Admins : admin[a] = NoCall
  BY DEF OrgInit
<1>3. NoCall.at = "idle" /\ NoCall.call = 0 /\ NoCall.updated = 0
  BY DEF NoCall
<1>4. Shape
  <2>1. system \in System
    BY DEF OrgInit, System
  <2>2. (CHOOSE r \in Risks : TRUE) \in Risks
    BY <2>1 DEF System
  <2>3. NoCall \in OrgCall
    BY <2>2 DEF NoCall, OrgCall
  <2> QED BY <1>1, <2>1, <2>3 DEF Shape, OrgInit
<1>5. \A a \in Admins : admin[a].at = "idle" /\ admin[a].call = 0 /\ admin[a].updated = 0
  BY <1>2, <1>3
<1>6. Drawn /\ Heads
  BY <1>1, <1>5 DEF Drawn, Heads, Creates
<1>7. Leading
  BY <1>1 DEF Leading, LastStored
<1>8. Between = {} /\ Stamping = {} /\ Active = {}
  BY <1>1, <1>4, <1>5, PoliciesAre DEF Between, Stamping
<1>9. Counted
  <2> DEFINE n == Len(policies)
             k == Cardinality(Between)
             s == Cardinality(Stamping)
             c == Cardinality(Active)
  <2>1. n = 0 /\ k = 0 /\ s = 0 /\ c = 0
    BY <1>1, <1>8, FS_EmptySet
  <2>2. IsFiniteSet(Between) /\ IsFiniteSet(Stamping) /\ IsFiniteSet(Active)
    BY <1>8, FS_EmptySet
  <2> HIDE DEF n, k, s, c
  <2>3. n + k <= updates /\ clock + s <= updates /\ c + k <= width
    BY <1>1, <2>1
  <2>4. \A a \in Admins : admin[a].call <= updates /\ admin[a].updated <= clock
    BY <1>1, <1>5
  <2> QED BY <1>1, <2>2, <2>3, <2>4, OrgAssumption DEF Counted, n, k, s, c
<1> QED BY <1>4, <1>6, <1>7, <1>9 DEF OrgInv

\* What a step finds, in numbers.
LEMMA CountedIs ==
  ASSUME OrgInv, Counted
  PROVE  /\ Len(policies) \in Nat /\ Cardinality(Between) \in Nat
         /\ Cardinality(Stamping) \in Nat /\ Cardinality(Active) \in Nat
         /\ updates \in Nat /\ clock \in Nat /\ width \in Nat /\ lost \in Nat
         /\ MaxPolicies \in Nat /\ updates <= MaxPolicies /\ lost <= updates /\ width <= updates
         /\ \A a \in Admins : admin[a].call \in Nat /\ admin[a].updated \in Nat
  BY PoliciesAre, OrgAssumption, FS_CardinalityType DEF OrgInv, Counted, Shape, OrgCall

\* A call is the latest now, and deactivates what there is.
LEMMA DeactivateKeeps ==
  ASSUME OrgInv, Counted, NEW a \in Admins, DeactivateOldPolicies(a)
  PROVE  (OrgInv /\ Counted)'
<1> DEFINE n == Len(policies)
           k == Cardinality(Between)
           s == Cardinality(Stamping)
           new == [admin[a] EXCEPT !.at = "stamp", !.call = updates + 1]
<1>1. /\ n \in Nat /\ DOMAIN policies = 1..n
      /\ \A p \in 1..n : policies[p] \in Policy
      /\ updates \in Nat /\ admin \in [Admins -> OrgCall]
  BY PoliciesAre DEF OrgInv, Shape
<1>2. /\ updates' = updates + 1 /\ system' = system /\ clock' = clock /\ lost' = lost
      /\ policies' = [p \in 1..n |-> [policies[p] EXCEPT !.active = FALSE]]
      /\ width' = k + 1 /\ updates < MaxPolicies /\ admin[a].at = "idle"
  BY <1>1 DEF DeactivateOldPolicies
<1>3. admin' = [admin EXCEPT ![a] = new]
  BY <1>1 DEF DeactivateOldPolicies
<1>4. /\ new.at = "stamp" /\ new.call = updates + 1 /\ new.updated = admin[a].updated
      /\ new \in OrgCall
  <2>1. updates + 1 \in Nat
    BY <1>1
  <2>2. admin[a] \in OrgCall
    BY <1>1
  <2> QED BY <2>1, <2>2 DEF OrgCall
<1> HIDE DEF new
<1>5. \A p \in 1..n : policies'[p].updated = policies[p].updated /\ policies'[p].active = FALSE
  BY <1>1, <1>2 DEF Policy
<1>6. policies' \in Seq(Policy) /\ Len(policies') = n
  <2>1. policies' \in [1..n -> Policy]
    BY <1>1, <1>2 DEF Policy
  <2> QED BY <1>1, <2>1, SeqDef
<1>7. /\ admin'[a] = new
      /\ \A b \in Admins : b # a => admin'[b] = admin[b]
  BY <1>1, <1>3
<1>8. Shape'
  BY <1>1, <1>2, <1>3, <1>4, <1>6 DEF OrgInv, Shape
<1>9. Drawn'
  <2>1. \A b \in Admins : Creates(b)' => Creates(b) /\ admin'[b] = admin[b]
    BY <1>4, <1>7 DEF Creates
  <2> QED BY <1>2, <1>5, <1>6, <2>1 DEF OrgInv, Drawn
<1>10. Leading'
  BY <1>2, <1>4, <1>7 DEF Leading
<1>11. Heads'
  BY <1>5, <1>6 DEF Heads
<1>12. /\ Between' = Between \cup {a} /\ a \notin Between
       /\ Stamping' = Stamping \cup {a} /\ a \notin Stamping
  BY <1>2, <1>4, <1>7 DEF Between, Stamping
<1>13. /\ IsFiniteSet(Between') /\ Cardinality(Between') = k + 1
       /\ IsFiniteSet(Stamping') /\ Cardinality(Stamping') = s + 1
  BY <1>12, FS_AddElement DEF Counted
<1>14. Active' = {} /\ IsFiniteSet(Active') /\ Cardinality(Active') = 0
  <2>1. DOMAIN policies' = 1..n
    BY <1>6, LenProperties
  <2>2. Active' = {}
    BY <1>5, <2>1 DEF Active
  <2> QED BY <2>2, FS_EmptySet
<1>15. /\ n \in Nat /\ k \in Nat /\ s \in Nat /\ clock \in Nat /\ lost \in Nat
       /\ MaxPolicies \in Nat /\ lost <= updates
       /\ n + k <= updates /\ clock + s <= updates
  BY CountedIs DEF Counted
<1>16. \A b \in Admins : admin'[b].call <= updates' /\ admin'[b].updated <= clock'
  <2> SUFFICES ASSUME NEW b \in Admins
               PROVE  admin'[b].call <= updates' /\ admin'[b].updated <= clock'
    OBVIOUS
  <2>1. /\ admin[b].call \in Nat /\ admin[b].call <= updates
        /\ admin[b].updated <= clock
    BY CountedIs DEF Counted
  <2>2. CASE b = a
    BY <1>1, <1>2, <1>4, <1>7, <2>1, <2>2
  <2>3. CASE b # a
    <3>1. admin'[b].call = admin[b].call /\ admin'[b].updated = admin[b].updated
      BY <1>7, <2>3
    <3> QED BY <1>1, <1>2, <2>1, <3>1
  <2> QED BY <2>2, <2>3
<1>17. Counted'
  <2> HIDE DEF n, k, s
  <2>0. /\ updates \in Nat /\ updates < MaxPolicies /\ updates' = updates + 1
        /\ width' = k + 1 /\ clock' = clock /\ lost' = lost
    BY <1>1, <1>2
  <2>1. /\ updates' \in 0..MaxPolicies /\ width' \in 0..updates' /\ lost' \in 0..updates'
        /\ n + (k + 1) <= updates' /\ clock' + (s + 1) <= updates' /\ 0 + (k + 1) <= width'
    BY <1>15, <2>0
  <2> QED BY <1>6, <1>13, <1>14, <1>16, <2>1 DEF Counted, n
<1> QED BY <1>8, <1>9, <1>10, <1>11, <1>17 DEF OrgInv

\* A call takes its time, later than all before it.
LEMMA StampKeeps ==
  ASSUME OrgInv, Counted, NEW a \in Admins, StampPolicy(a)
  PROVE  (OrgInv /\ Counted)'
<1> DEFINE n == Len(policies)
           k == Cardinality(Between)
           s == Cardinality(Stamping)
           c == Cardinality(Active)
           new == [admin[a] EXCEPT !.at = "create", !.updated = clock + 1]
<1>1. clock \in Nat /\ admin \in [Admins -> OrgCall] /\ n \in Nat
  BY PoliciesAre DEF OrgInv, Shape
<1>2. /\ policies' = policies /\ system' = system /\ updates' = updates
      /\ width' = width /\ lost' = lost /\ clock' = clock + 1
      /\ admin' = [admin EXCEPT ![a] = new] /\ admin[a].at = "stamp"
  BY <1>1 DEF StampPolicy
<1>3. /\ new.at = "create" /\ new.updated = clock + 1 /\ new.call = admin[a].call
      /\ new \in OrgCall
  <2>1. clock + 1 \in Nat /\ admin[a] \in OrgCall
    BY <1>1
  <2> QED BY <2>1 DEF OrgCall
<1> HIDE DEF new
<1>4. admin'[a] = new /\ \A b \in Admins : b # a => admin'[b] = admin[b]
  BY <1>1, <1>2
<1>5. Shape'
  BY <1>1, <1>2, <1>3 DEF OrgInv, Shape
<1>6. Drawn'
  <2>1. \A p \in 1..n : policies[p].updated \in 1..clock
    BY DEF OrgInv, Drawn
  <2>2. \A b \in Admins : b # a /\ Creates(b)' => Creates(b) /\ admin[b].updated \in 1..clock
    BY <1>4 DEF OrgInv, Drawn, Creates
  <2>3. \A p \in 1..n : policies[p].updated \in 1..clock' /\ policies[p].updated # clock + 1
    BY <1>1, <1>2, <2>1
  <2>4. \A b \in Admins : Creates(b)' => admin'[b].updated \in 1..clock'
    BY <1>1, <1>2, <1>3, <1>4, <2>2
  <2>5. \A b \in Admins : b # a /\ Creates(b)' => admin'[b].updated # clock + 1
    BY <1>1, <1>4, <2>2
  <2>6. \A b, d \in Admins :
          Creates(b)' /\ Creates(d)' /\ admin'[b].updated = admin'[d].updated => b = d
    BY <1>3, <1>4, <2>2, <2>5 DEF OrgInv, Drawn
  <2>7. \A b \in Admins, p \in 1..n : Creates(b)' => admin'[b].updated # policies[p].updated
    BY <1>3, <1>4, <2>2, <2>3 DEF OrgInv, Drawn
  <2>8. \A p, q \in 1..n : policies[p].updated = policies[q].updated => p = q
    BY DEF OrgInv, Drawn
  <2> QED BY <1>2, <2>3, <2>4, <2>6, <2>7, <2>8 DEF Drawn
<1>7. Leading'
  <2> SUFFICES ASSUME LastStored PROVE Leading'
    BY <1>2 DEF Leading, LastStored
  <2>1. InactiveBefore(clock + 1)
    <3>1. \A p \in 1..n : policies[p].updated \in 1..clock
      BY DEF OrgInv, Drawn
    <3> QED BY <1>1, <3>1 DEF InactiveBefore
  <2>2. \A time : InactiveBefore(time)' <=> InactiveBefore(time)
    BY <1>2 DEF InactiveBefore
  <2>3. CASE \E b \in Admins : admin[b].at = "stamp" /\ admin[b].call = updates
    <3>1. PICK b \in Admins : admin[b].at = "stamp" /\ admin[b].call = updates
      BY <2>3
    <3>2. CASE b = a
      <4>1. Creates(a)' /\ admin'[a].call = updates' /\ admin'[a].updated = clock + 1
        BY <1>2, <1>3, <1>4, <3>1, <3>2 DEF Creates
      <4>2. (InactiveBefore(admin[a].updated))'
        BY <1>2, <2>1, <4>1 DEF InactiveBefore
      <4> QED BY <4>1, <4>2 DEF Leading
    <3>3. CASE b # a
      BY <1>2, <1>4, <3>1, <3>3 DEF Leading
    <3> QED BY <3>2, <3>3
  <2>4. CASE \E b \in Admins : Creates(b) /\ admin[b].call = updates
                                /\ InactiveBefore(admin[b].updated)
    <3>1. PICK b \in Admins : Creates(b) /\ admin[b].call = updates
                               /\ InactiveBefore(admin[b].updated)
      BY <2>4
    <3>2. admin'[b] = admin[b]
      BY <1>2, <1>4, <3>1 DEF Creates
    <3>3. Creates(b)' /\ admin'[b].call = updates' /\ (InactiveBefore(admin[b].updated))'
      BY <1>2, <3>1, <3>2 DEF Creates, InactiveBefore
    <3> QED BY <3>3 DEF Leading
  <2>5. CASE \E p \in 1..n : policies[p].active /\ InactiveBefore(policies[p].updated)
    BY <1>2, <2>5 DEF Leading, InactiveBefore
  <2> QED BY <2>3, <2>4, <2>5 DEF OrgInv, Leading
<1>8. Heads' /\ Active' = Active
  BY <1>2 DEF OrgInv, Heads, Active
<1>9. Between' = Between /\ Stamping' = Stamping \ {a} /\ a \in Stamping
  BY <1>2, <1>3, <1>4 DEF Between, Stamping
<1>10. IsFiniteSet(Stamping') /\ Cardinality(Stamping') = s - 1
  BY <1>9, FS_RemoveElement DEF Counted
<1>11. \A b \in Admins : admin'[b].call <= updates' /\ admin'[b].updated <= clock'
  <2> SUFFICES ASSUME NEW b \in Admins
               PROVE  admin'[b].call <= updates' /\ admin'[b].updated <= clock'
    OBVIOUS
  <2>1. /\ admin[b].updated \in Nat /\ admin[b].call <= updates
        /\ admin[b].updated <= clock
    BY CountedIs DEF Counted
  <2>2. CASE b = a
    BY <1>1, <1>2, <1>3, <1>4, <2>1, <2>2
  <2>3. CASE b # a
    <3>1. admin'[b].call = admin[b].call /\ admin'[b].updated = admin[b].updated
      BY <1>4, <2>3
    <3> QED BY <1>1, <1>2, <2>1, <3>1
  <2> QED BY <2>2, <2>3
<1>12. Counted'
  <2>1. s \in Nat /\ clock \in Nat /\ updates \in Nat /\ clock + s <= updates
    BY CountedIs DEF Counted
  <2>2. (clock + 1) + (s - 1) <= updates
    <3> HIDE DEF s
    <3> QED BY <2>1
  <2> QED BY <1>2, <1>8, <1>9, <1>10, <1>11, <2>2 DEF Counted
<1> QED BY <1>5, <1>6, <1>7, <1>8, <1>12 DEF OrgInv

\* A call stores its policy, active, under its time, or loses it.
LEMMA CreateKeeps ==
  ASSUME OrgInv, Counted, NEW a \in Admins, CreatePolicy(a)
  PROVE  (OrgInv /\ Counted)'
<1> DEFINE n == Len(policies)
           u == admin[a].updated
           new == [active |-> TRUE, updated |-> u]
           k == Cardinality(Between)
           c == Cardinality(Active)
<1>1. /\ n \in Nat /\ \A p \in 1..n : policies[p] \in Policy
      /\ updates \in Nat /\ policies \in Seq(Policy)
      /\ admin \in [Admins -> OrgCall]
      /\ Active = {p \in 1..n : policies[p].active}
  BY PoliciesAre DEF OrgInv, Shape
<1>2. /\ updates' = updates /\ system' = system /\ clock' = clock /\ width' = width
      /\ admin' = [admin EXCEPT ![a] = NoCall] /\ Creates(a)
  BY DEF CreatePolicy, Creates
<1>3. u \in Nat /\ u \in 1..clock
  <2>1. u \in 1..clock /\ clock \in Nat
    BY <1>2 DEF OrgInv, Drawn, Shape
  <2> QED BY <2>1
<1>4. NoCall.at = "idle" /\ NoCall \in OrgCall /\ NoCall.call = 0 /\ NoCall.updated = 0
  BY NoCallIs DEF OrgInv
<1>5. \A b \in Admins : b # a => admin'[b] = admin[b]
  BY <1>1, <1>2
<1>6. admin'[a] = NoCall
  BY <1>1, <1>2
<1>7. \A b \in Admins : Creates(b)' => b # a /\ Creates(b) /\ admin'[b] = admin[b]
  BY <1>4, <1>5, <1>6 DEF Creates
<1>8. Between' = Between \ {a} /\ a \in Between /\ Stamping' = Stamping
  BY <1>2, <1>4, <1>5, <1>6 DEF Between, Stamping, Creates
<1>9. IsFiniteSet(Between') /\ Cardinality(Between') = k - 1
  BY <1>8, FS_RemoveElement DEF Counted
<1>10. /\ k \in Nat /\ c \in Nat /\ clock \in Nat /\ width \in Nat
       /\ n + k <= updates /\ c + k <= width
  BY CountedIs DEF Counted
<1>11. \A b \in Admins : admin'[b].call <= updates' /\ admin'[b].updated <= clock'
  <2> SUFFICES ASSUME NEW b \in Admins
               PROVE  admin'[b].call <= updates' /\ admin'[b].updated <= clock'
    OBVIOUS
  <2>1. CASE b = a
    BY <1>1, <1>2, <1>4, <1>6, <1>10, <2>1
  <2>2. CASE b # a
    <3>1. admin'[b] = admin[b]
      BY <1>5, <2>2
    <3> QED BY <1>2, <3>1 DEF Counted
  <2> QED BY <2>1, <2>2
<1>12. lost' \in 0..updates'
  BY <1>1, <1>2 DEF CreatePolicy, Counted
<1>13. CASE policies' = policies /\ lost' = IF admin[a].call = updates THEN updates ELSE lost
  <2>1. Shape' /\ Drawn' /\ Heads' /\ Active' = Active
    BY <1>1, <1>2, <1>4, <1>7, <1>13 DEF OrgInv, Shape, Drawn, Heads, Active
  <2>2. Leading'
    <3> SUFFICES ASSUME LastStored' PROVE Leading'
      BY DEF Leading
    <3>1. LastStored /\ admin[a].call # updates
      BY <1>2, <1>13 DEF LastStored
    <3>2. \A b \in Admins : admin[b].call = updates => admin'[b] = admin[b]
      BY <1>5, <3>1
    <3> QED BY <1>2, <1>13, <3>1, <3>2 DEF OrgInv, Leading, Creates, InactiveBefore
  <2>3. Counted'
    <3> HIDE DEF n, k, c
    <3>1. n + (k - 1) <= updates /\ c + (k - 1) <= width
      BY <1>1, <1>10
    <3> QED BY <1>2, <1>8, <1>9, <1>11, <1>12, <1>13, <2>1, <3>1 DEF Counted, n, c
  <2> QED BY <2>1, <2>2, <2>3 DEF OrgInv
<1>14. CASE policies' = Append(policies, new) /\ lost' = lost
  <2>1. new \in Policy /\ new.active = TRUE /\ new.updated = u
    BY <1>3 DEF Policy
  <2> HIDE DEF new
  <2>2. /\ policies' \in Seq(Policy) /\ Len(policies') = n + 1
        /\ \A p \in 1..n : policies'[p] = policies[p]
        /\ policies'[n + 1] = new
    BY <1>1, <1>14, <2>1, AppendProperties
  <2>3. policies'[n + 1].active = TRUE /\ policies'[n + 1].updated = u
    BY <2>1, <2>2
  <2>4. 1..Len(policies') = 1..n \cup {n + 1} /\ n + 1 \notin 1..n
    BY <1>1, <2>2
  <2>5. Shape'
    BY <1>1, <1>2, <1>4, <2>2 DEF OrgInv, Shape
  <2>6. Drawn'
    <3>1. \A p \in 1..n : policies[p].updated # u
      BY <1>2 DEF OrgInv, Drawn
    <3>2. \A b \in Admins : Creates(b)' => admin'[b].updated # u
      BY <1>2, <1>7 DEF OrgInv, Drawn
    <3>3. \A p \in 1..(n + 1) : policies'[p].updated \in 1..clock'
      BY <1>2, <1>3, <2>2, <2>3, <2>4 DEF OrgInv, Drawn
    <3>4. \A p, q \in 1..(n + 1) : policies'[p].updated = policies'[q].updated => p = q
      BY <2>2, <2>3, <2>4, <3>1 DEF OrgInv, Drawn
    <3>5. \A b \in Admins, p \in 1..(n + 1) :
            Creates(b)' => admin'[b].updated # policies'[p].updated
      BY <1>7, <2>2, <2>3, <2>4, <3>2 DEF OrgInv, Drawn
    <3>6. /\ \A b \in Admins : Creates(b)' => admin'[b].updated \in 1..clock'
          /\ \A b, d \in Admins :
               Creates(b)' /\ Creates(d)' /\ admin'[b].updated = admin'[d].updated => b = d
      BY <1>2, <1>7 DEF OrgInv, Drawn
    <3> QED BY <2>2, <3>3, <3>4, <3>5, <3>6 DEF Drawn
\* A policy that is stored active adds none that are inactive.
  <2>7. Leading'
    <3>1. \A time : (\A q \in 1..n : ~policies[q].active => policies[q].updated <= time)
            => \A q \in 1..(n + 1) : ~policies'[q].active => policies'[q].updated <= time
      BY <2>2, <2>3, <2>4
    <3> SUFFICES ASSUME LastStored PROVE Leading'
      BY <1>2, <1>14 DEF Leading, LastStored
    <3>2. CASE \E b \in Admins : admin[b].at = "stamp" /\ admin[b].call = updates
      <4>1. PICK b \in Admins : admin[b].at = "stamp" /\ admin[b].call = updates
        BY <3>2
      <4>2. b # a
        BY <1>2, <4>1 DEF Creates
      <4> QED BY <1>2, <1>5, <4>1, <4>2 DEF Leading
    <3>3. CASE \E b \in Admins : Creates(b) /\ admin[b].call = updates
                                  /\ InactiveBefore(admin[b].updated)
      <4>1. PICK b \in Admins : Creates(b) /\ admin[b].call = updates
                                 /\ InactiveBefore(admin[b].updated)
        BY <3>3
      <4>2. CASE b = a
        <5>1. n + 1 \in 1..Len(policies')
          BY <2>4
        <5>2. \A q \in 1..Len(policies') : ~policies'[q].active => policies'[q].updated <= u
          BY <2>2, <3>1, <4>1, <4>2 DEF InactiveBefore
        <5>3. \A q \in 1..Len(policies') :
                ~policies'[q].active => policies'[q].updated <= policies'[n + 1].updated
          BY <2>3, <5>2
        <5>4. (\E p \in 1..Len(policies) : policies[p].active /\ InactiveBefore(policies[p].updated))'
          BY <2>3, <5>1, <5>3 DEF InactiveBefore
        <5> QED BY <5>4 DEF Leading
      <4>3. CASE b # a
        <5>1. admin'[b] = admin[b]
          BY <1>5, <4>3
        <5>2. \A q \in 1..Len(policies') :
                ~policies'[q].active => policies'[q].updated <= admin'[b].updated
          BY <2>2, <3>1, <4>1, <5>1 DEF InactiveBefore
        <5>3. admin'[b].at = "create" /\ admin'[b].call = updates'
          BY <1>2, <4>1, <5>1 DEF Creates
        <5> QED BY <5>2, <5>3 DEF Leading, Creates, InactiveBefore
      <4> QED BY <4>2, <4>3
    <3>4. CASE \E p \in 1..n : policies[p].active /\ InactiveBefore(policies[p].updated)
      <4>1. PICK p \in 1..n : policies[p].active /\ InactiveBefore(policies[p].updated)
        BY <3>4
      <4>2. p \in 1..Len(policies') /\ policies'[p].active
        BY <2>2, <2>4, <4>1
      <4>3. \A q \in 1..Len(policies') :
              ~policies'[q].active => policies'[q].updated <= policies'[p].updated
        BY <2>2, <3>1, <4>1 DEF InactiveBefore
      <4> QED BY <4>2, <4>3 DEF Leading, InactiveBefore
    <3> QED BY <3>2, <3>3, <3>4 DEF OrgInv, Leading
  <2>8. Heads'
    <3> DEFINE Leads(h) == policies'[h].active /\
                 \A q \in 1..(n + 1) : policies'[q].active => policies'[q].updated <= policies'[h].updated
    <3>1. \A p \in 1..n : policies[p].updated \in Nat
      BY <1>1 DEF Policy
    <3>2. u <= u
      BY <1>3
    <3>3. ASSUME \A q \in 1..n : policies[q].active => policies[q].updated <= u
          PROVE  Leads(n + 1)
      BY <2>2, <2>3, <2>4, <3>2, <3>3
    <3>4. ASSUME NEW p \in 1..n, policies[p].active, u <= policies[p].updated,
                 \A q \in 1..n : policies[q].active => policies[q].updated <= policies[p].updated
          PROVE  Leads(p)
      BY <2>2, <2>3, <2>4, <3>4
    <3>5. \E h \in 1..(n + 1) : Leads(h)
      <4>1. CASE \E p \in 1..n : policies[p].active
        <5>1. PICK p \in 1..n :
                /\ policies[p].active
                /\ \A q \in 1..n : policies[q].active => policies[q].updated <= policies[p].updated
          BY <4>1 DEF OrgInv, Heads
        <5>2. CASE policies[p].updated <= u
          <6>1. \A q \in 1..n : policies[q].active => policies[q].updated <= u
            BY <1>3, <3>1, <5>1, <5>2
          <6>2. Leads(n + 1)
            BY <3>3, <6>1
          <6> QED BY <2>2, <2>4, <6>2
        <5>3. CASE ~(policies[p].updated <= u)
          <6>1. u <= policies[p].updated
            BY <1>3, <3>1, <5>3
          <6>2. Leads(p)
            BY <3>4, <5>1, <6>1
          <6> QED BY <2>2, <2>4, <6>2
        <5> QED BY <5>2, <5>3
      <4>2. CASE ~\E p \in 1..n : policies[p].active
        <5>1. Leads(n + 1)
          BY <3>3, <4>2
        <5> QED BY <2>2, <2>4, <5>1
      <4> QED BY <4>1, <4>2
    <3> QED BY <2>2, <3>5 DEF Heads
  <2>9. Active' = Active \cup {n + 1} /\ n + 1 \notin Active
    <3>1. Active' = {p \in 1..Len(policies') : policies'[p].active}
      <4>1. DOMAIN policies' = 1..Len(policies')
        BY <2>2, LenProperties
      <4> QED BY <4>1 DEF Active
    <3>2. \A p \in 1..Len(policies') : p \in Active' <=> policies'[p].active
      BY <3>1
    <3> QED BY <1>1, <2>2, <2>3, <2>4, <3>1, <3>2
  <2>10. IsFiniteSet(Active') /\ Cardinality(Active') = c + 1
    BY <2>9, FS_AddElement DEF Counted
  <2>11. Counted'
    <3> HIDE DEF n, k, c
    <3>1. (n + 1) + (k - 1) <= updates /\ (c + 1) + (k - 1) <= width
      BY <1>1, <1>10
    <3> QED BY <1>2, <1>8, <1>9, <1>11, <1>12, <2>2, <2>10, <3>1 DEF Counted
  <2> QED BY <2>5, <2>6, <2>7, <2>8, <2>11 DEF OrgInv
<1> QED BY <1>13, <1>14 DEF CreatePolicy

\* The calls about the AI system leave the policies alone.
LEMMA SystemKeeps ==
  ASSUME OrgInv, Counted,
         \/ \E a \in Admins : GetAISystem(a) \/ \E risk \in Risks : UpdateAISystem(a, risk)
         \/ SoftDeleteAISystem
         \/ UNCHANGED orgVars
  PROVE  (OrgInv /\ Counted)'
<1>1. UNCHANGED <<policies, updates, clock, width, lost>>
  BY DEF GetAISystem, UpdateAISystem, SoftDeleteAISystem, orgVars
<1>2. admin \in [Admins -> OrgCall] /\ system \in System
  BY DEF OrgInv, Shape
<1>3. /\ admin' \in [Admins -> OrgCall] /\ system' \in System
      /\ \A b \in Admins :
           \/ admin'[b] = admin[b]
           \/ /\ admin[b].at \in {"idle", "write"} /\ admin'[b].at \in {"idle", "write"}
              /\ admin'[b].call \in {0, admin[b].call}
              /\ admin'[b].updated \in {0, admin[b].updated}
  <2>1. CASE \E a \in Admins : GetAISystem(a)
    <3>1. PICK a \in Admins : GetAISystem(a)
      BY <2>1
    <3> DEFINE new == [admin[a] EXCEPT !.at = "write", !.row = system.risk]
    <3>2. /\ new.at = "write" /\ new \in OrgCall
          /\ new.call = admin[a].call /\ new.updated = admin[a].updated
      BY <1>2 DEF System, OrgCall
    <3>3. admin' = [admin EXCEPT ![a] = new] /\ system' = system /\ admin[a].at = "idle"
      BY <1>2, <3>1 DEF GetAISystem
    <3> HIDE DEF new
    <3> QED BY <1>2, <3>2, <3>3
  <2>2. CASE \E a \in Admins, risk \in Risks : UpdateAISystem(a, risk)
    <3>1. PICK a \in Admins, risk \in Risks : UpdateAISystem(a, risk)
      BY <2>2
    <3>2. admin' = [admin EXCEPT ![a] = NoCall] /\ admin[a].at = "write"
      BY <3>1 DEF UpdateAISystem
    <3>3. /\ NoCall.at = "idle" /\ NoCall \in OrgCall
          /\ NoCall.call = 0 /\ NoCall.updated = 0
      BY NoCallIs DEF OrgInv
    <3>4. system' \in System
      BY <1>2, <3>1 DEF UpdateAISystem, System, OrgCall
    <3> QED BY <1>2, <3>2, <3>3, <3>4
  <2>3. CASE SoftDeleteAISystem \/ UNCHANGED orgVars
    BY <1>2, <2>3 DEF SoftDeleteAISystem, orgVars, System
  <2> QED BY <2>1, <2>2, <2>3
<1>4. /\ \A b \in Admins : Creates(b)' \/ Creates(b) => admin'[b] = admin[b]
      /\ \A b \in Admins : admin[b].at = "stamp" => admin'[b] = admin[b]
      /\ Between' = Between /\ Stamping' = Stamping /\ Active' = Active
  BY <1>1, <1>3 DEF Creates, Between, Stamping, Active
<1>5. Shape'
  BY <1>1, <1>3 DEF OrgInv, Shape
<1>6. Drawn'
  BY <1>1, <1>4 DEF OrgInv, Drawn, Creates
<1>7. Leading'
  BY <1>1, <1>4 DEF OrgInv, Leading, LastStored, InactiveBefore, Creates
<1>8. Heads'
  BY <1>1 DEF OrgInv, Heads
<1>9. Counted'
  <2>1. \A b \in Admins : admin'[b].call <= updates /\ admin'[b].updated <= clock
    <3> SUFFICES ASSUME NEW b \in Admins
                 PROVE  admin'[b].call <= updates /\ admin'[b].updated <= clock
      OBVIOUS
    <3>1. /\ updates \in Nat /\ clock \in Nat
          /\ admin[b].call <= updates /\ admin[b].updated <= clock
      BY CountedIs DEF Counted
    <3>2. admin'[b].call \in {0, admin[b].call} /\ admin'[b].updated \in {0, admin[b].updated}
      BY <1>3
    <3> QED BY <3>1, <3>2
  <2> QED BY <1>1, <1>4, <2>1 DEF Counted
<1> QED BY <1>5, <1>6, <1>7, <1>8, <1>9 DEF OrgInv

LEMMA OrgStepKeeps == OrgInv /\ Counted /\ [OrgNext]_orgVars => (OrgInv /\ Counted)'
BY DeactivateKeeps, StampKeeps, CreateKeeps, SystemKeeps DEF OrgNext

\* No write of the system's row touches its deletion but the deletion itself.
LEMMA DeletionStep ==
  OrgInv /\ [OrgNext]_orgVars => (system.deleted => system'.deleted) \/ UNCHANGED orgVars
<1> SUFFICES ASSUME OrgInv, OrgNext, system.deleted PROVE system'.deleted
    OBVIOUS
<1>1. system \in System
  BY DEF OrgInv, Shape
<1>2. CASE SoftDeleteAISystem
  BY <1>1, <1>2 DEF SoftDeleteAISystem, System
<1>3. CASE \E a \in Admins, risk \in Risks : UpdateAISystem(a, risk)
  BY <1>1, <1>3 DEF UpdateAISystem, System
<1>4. CASE \E a \in Admins : DeactivateOldPolicies(a) \/ StampPolicy(a) \/ CreatePolicy(a)
                             \/ GetAISystem(a)
  BY <1>4 DEF DeactivateOldPolicies, StampPolicy, CreatePolicy, GetAISystem
<1> QED BY <1>2, <1>3, <1>4 DEF OrgNext

\* What administrators store survives calls that cross, whatever their number:
\* once they have ended the newest policy is in force, unless the last call to
\* deactivate lost its insert; no more are active than calls were between
\* their statements at the last deactivation; and a deleted system stays
\* deleted.
THEOREM RecordsAreKept == OrgSpec => OrgRecordsKept
<1>1. OrgInv /\ Counted => PolicyInForce /\ NoMoreThanCrossed /\ InForceIsNewest
  BY OrgImplies
<1>2. OrgInv /\ [OrgNext]_orgVars => [system.deleted => system'.deleted]_orgVars
  BY DeletionStep
<1> QED BY <1>1, <1>2, OrgStart, OrgStepKeeps, PTL DEF OrgSpec, OrgRecordsKept, DeletionIsKept

LEMMA OrgTyped == OrgInv /\ Counted => OrgTypeOK
<1> SUFFICES ASSUME OrgInv, Counted PROVE OrgTypeOK
    OBVIOUS
<1> DEFINE n == Len(policies)
           k == Cardinality(Between)
           s == Cardinality(Stamping)
           Numbers == 1..MaxPolicies
           Stored == [active : BOOLEAN, updated : Numbers]
<1>1. /\ policies \in Seq(Policy) /\ DOMAIN policies = 1..n
      /\ \A p \in 1..n : policies[p] \in Policy
  BY PoliciesAre DEF OrgInv, Shape
<1>2. /\ n \in Nat /\ k \in Nat /\ s \in Nat /\ clock \in Nat /\ updates \in Nat
      /\ MaxPolicies \in Nat /\ updates <= MaxPolicies
      /\ n + k <= updates /\ clock + s <= updates
  BY CountedIs DEF Counted
<1>3. n <= updates /\ clock \in 0..updates /\ clock <= MaxPolicies
  <2> HIDE DEF n, k, s
  <2> QED BY <1>2
<1>4. \A p \in 1..n : policies[p].updated \in Numbers
  <2> SUFFICES ASSUME NEW p \in 1..n PROVE policies[p].updated \in Numbers
    OBVIOUS
  <2>1. policies[p].updated \in 1..clock
    BY DEF OrgInv, Drawn
  <2> QED BY <1>2, <1>3, <2>1
<1>5. \A a \in Admins : admin[a].updated \in 0..MaxPolicies /\ admin[a].call \in 0..MaxPolicies
  <2> SUFFICES ASSUME NEW a \in Admins
               PROVE  admin[a].updated \in 0..MaxPolicies /\ admin[a].call \in 0..MaxPolicies
    OBVIOUS
  <2>1. /\ admin[a].updated \in Nat /\ admin[a].updated <= clock
        /\ admin[a].call \in Nat /\ admin[a].call <= updates
    BY CountedIs DEF Counted
  <2> QED BY <1>2, <1>3, <2>1
<1>6. policies \in Seq(Stored)
  <2> HIDE DEF Numbers
  <2>1. \A p \in 1..n : policies[p] \in Stored
    BY <1>1, <1>4 DEF Policy
  <2> HIDE DEF Stored
  <2>2. policies \in [1..n -> Stored]
    <3>1. policies = [p \in 1..n |-> policies[p]]
      BY <1>1
    <3> QED BY <2>1, <3>1
  <2> QED BY <1>2, <2>2
<1>7. admin \in [Admins -> [at : {"idle", "stamp", "create", "write"},
                            call : 0..MaxPolicies, updated : 0..MaxPolicies, row : Risks]]
  <2> DEFINE Up == 0..MaxPolicies
  <2>1. \A a \in Admins : admin[a].updated \in Up /\ admin[a].call \in Up
    BY <1>5
  <2> HIDE DEF Up
  <2>2. admin \in [Admins -> [at : {"idle", "stamp", "create", "write"},
                              call : Up, updated : Up, row : Risks]]
    BY <2>1 DEF OrgInv, Shape, OrgCall
  <2> QED BY <2>2 DEF Up
<1> QED BY <1>3, <1>6, <1>7 DEF OrgTypeOK, Stored, Numbers, Counted, OrgInv, Shape

-----------------------------------------------------------------------------
(***************************************************************************)
(* TenantPool.                                                             *)
(***************************************************************************)
\* A connection in nobody's transaction has no setting left over.
NoLeftover == \A n \in Connections : holder[n] = {} => setting[n] = NoTenant

\* A connection has one holder, who is in a transaction; its setting is that
\* of its holder's tenant once SET LOCAL has run.
HolderSets ==
  \A n \in Connections, c \in Callers :
    c \in holder[n] =>
      /\ holder[n] = {c}
      /\ call[c].at \in {"begun", "tenant"}
      /\ setting[n] = IF call[c].at = "tenant" THEN call[c].tenant ELSE NoTenant

\* A caller is in one transaction at a time.
OneTransaction ==
  \A n, m \in Connections, c \in Callers :
    c \in holder[n] /\ c \in holder[m] => n = m

\* What PoolTypeOK says, a connection's one holder being HolderSets' matter.
PoolTyped ==
  /\ role \in {"superuser", "member"}
  /\ setting \in [Connections -> Tenants \cup {NoTenant}]
  /\ holder \in [Connections -> SUBSET Callers]
  /\ call \in [Callers -> [at : {"idle", "direct", "begun", "tenant"},
                           tenant : Tenants \cup {NoTenant}]]
  /\ seen \in [Callers -> SUBSET Tenants] /\ missed \in BOOLEAN

PoolInv == PoolTyped /\ NoLeftover /\ HolderSets /\ OneTransaction

-----------------------------------------------------------------------------
\* The invariant holds of a fresh pool.
LEMMA PoolStart == PoolInit => PoolInv /\ TenantsApart
<1> SUFFICES ASSUME PoolInit PROVE PoolInv /\ TenantsApart
    OBVIOUS
<1> USE DEF PoolInit
<1>1. PoolTyped
  BY DEF PoolTyped
<1>2. NoLeftover /\ HolderSets /\ OneTransaction
  BY DEF NoLeftover, HolderSets, OneTransaction
<1>3. TenantsApart
  BY DEF TenantsApart, OwnRowsOnly, TxFindsOwnRows
<1> QED BY <1>1, <1>2, <1>3 DEF PoolInv

\* With the invariant a connection has one holder at most.
LEMMA PoolInvTypes == PoolInv => PoolTypeOK
<1> SUFFICES ASSUME PoolInv PROVE PoolTypeOK
    OBVIOUS
<1>1. ASSUME NEW n \in Connections PROVE Cardinality(holder[n]) <= 1
  <2>1. CASE holder[n] = {}
    BY <2>1, FS_EmptySet
  <2>2. CASE holder[n] # {}
    <3>1. PICK c \in Callers : c \in holder[n]
      BY <2>2 DEF PoolInv, PoolTyped
    <3>2. holder[n] = {c}
      BY <3>1 DEF PoolInv, HolderSets
    <3> QED BY <3>2, FS_Singleton
  <2> QED BY <2>1, <2>2
<1> QED BY <1>1 DEF PoolInv, PoolTyped, PoolTypeOK

\* Requests hold no connection when they come and when they go.
LEMMA RequestKeeps ==
  ASSUME PoolInv, NEW c \in Callers, NEW t \in Tenants \cup {NoTenant},
         Request(c, t) \/ Return(c)
  PROVE  PoolInv'
<1> USE DEF PoolInv, Request, Return
<1>1. \A n \in Connections : c \notin holder[n]
  BY DEF HolderSets
<1>2. PoolTyped'
  BY DEF PoolTyped
<1>3. NoLeftover' /\ OneTransaction'
  BY DEF NoLeftover, OneTransaction
<1>4. HolderSets'
  BY <1>1 DEF HolderSets, PoolTyped
<1> QED BY <1>2, <1>3, <1>4

LEMMA BeginKeeps ==
  ASSUME PoolInv, NEW c \in Callers, NEW n \in Connections, BeginTenantTx(c, n)
  PROVE  PoolInv'
<1> USE DEF PoolInv, BeginTenantTx
<1>1. \A m \in Connections : c \notin holder[m]
  BY DEF HolderSets
<1>2. holder[n] = {} /\ setting[n] = NoTenant
  BY DEF Free, NoLeftover
<1>3. PoolTyped'
  BY DEF PoolTyped
<1>4. NoLeftover' /\ OneTransaction'
  BY <1>1 DEF NoLeftover, OneTransaction, PoolTyped
<1>5. HolderSets'
  BY <1>1, <1>2 DEF HolderSets, PoolTyped
<1> QED BY <1>3, <1>4, <1>5

LEMMA SetLocalKeeps ==
  ASSUME PoolInv, NEW c \in Callers, NEW n \in Connections, SetLocal(c, n)
  PROVE  PoolInv'
<1> USE DEF PoolInv, SetLocal
<1>1. PoolTyped'
  BY DEF PoolTyped
<1>2. NoLeftover' /\ OneTransaction'
  BY DEF NoLeftover, OneTransaction, PoolTyped
<1>3. HolderSets'
  BY DEF HolderSets, OneTransaction, PoolTyped
<1> QED BY <1>1, <1>2, <1>3

LEMMA EndKeeps ==
  ASSUME PoolInv, NEW c \in Callers, NEW n \in Connections, EndTx(c, n)
  PROVE  PoolInv'
<1> USE DEF PoolInv, EndTx
<1>1. PoolTyped'
  BY DEF PoolTyped
<1>2. NoLeftover' /\ OneTransaction'
  BY DEF NoLeftover, OneTransaction, PoolTyped
<1>3. HolderSets'
  BY DEF HolderSets, OneTransaction, PoolTyped
<1> QED BY <1>1, <1>2, <1>3

LEMMA StatementKeeps ==
  ASSUME PoolInv, NEW c \in Callers, NEW n \in Connections, NEW t \in Tenants,
         StatementInTx(c, n, t) \/ DirectStatement(c, n, t)
  PROVE  PoolInv'
<1>1. PoolTyped'
  <2>1. /\ seen' = [seen EXCEPT ![c] = IF Visible(n, t) THEN @ \cup {t} ELSE @]
        /\ UNCHANGED <<role, setting, holder, call>>
    BY DEF StatementInTx, DirectStatement
  <2>2. seen' \in [Callers -> SUBSET Tenants]
    BY <2>1 DEF PoolInv, PoolTyped
  <2>3. missed' \in BOOLEAN
    <3>1. CASE StatementInTx(c, n, t)
      <4>1. missed' = (missed \/ (t = call[c].tenant /\ ~Visible(n, t)))
        BY <3>1 DEF StatementInTx
      <4> QED BY <4>1
    <3>2. CASE DirectStatement(c, n, t)
      BY <3>2 DEF DirectStatement, PoolInv, PoolTyped
    <3> QED BY <3>1, <3>2
  <2> QED BY <2>1, <2>2, <2>3 DEF PoolInv, PoolTyped
<1>2. NoLeftover' /\ HolderSets' /\ OneTransaction'
  BY DEF PoolInv, NoLeftover, HolderSets, OneTransaction, StatementInTx, DirectStatement
<1> QED BY <1>1, <1>2 DEF PoolInv

\* A statement finds rows of its caller's tenant only, and those it finds.
LEMMA StatementIsApart ==
  ASSUME PoolInv, TenantsApart, NEW c \in Callers, NEW n \in Connections, NEW t \in Tenants,
         StatementInTx(c, n, t) \/ DirectStatement(c, n, t)
  PROVE  TenantsApart'
<1> USE DEF TenantsApart
<1>1. CASE StatementInTx(c, n, t)
  <2>1. setting[n] = call[c].tenant
    BY <1>1 DEF StatementInTx, PoolInv, HolderSets
  <2>2. TxFindsOwnRows'
    BY <1>1, <2>1 DEF StatementInTx, TxFindsOwnRows, Visible
  <2>3. OwnRowsOnly'
    BY <1>1, <2>1 DEF StatementInTx, OwnRowsOnly, Visible, PoolInv, PoolTyped
  <2> QED BY <2>2, <2>3
<1>2. CASE DirectStatement(c, n, t)
  <2>1. role = "member" => ~Visible(n, t)
    BY <1>2, TenantAssumption DEF DirectStatement, Free, PoolInv, NoLeftover, Visible
  <2>2. TxFindsOwnRows'
    BY <1>2 DEF DirectStatement, TxFindsOwnRows
  <2>3. OwnRowsOnly'
    BY <1>2, <2>1 DEF DirectStatement, OwnRowsOnly, PoolInv, PoolTyped
  <2> QED BY <2>2, <2>3
<1> QED BY <1>1, <1>2

LEMMA PoolStepKeeps ==
  ASSUME PoolInv, TenantsApart, [PoolNext]_poolVars
  PROVE  PoolInv' /\ TenantsApart'
<1>1. ASSUME NEW c \in Callers, NEW t \in Tenants \cup {NoTenant}, Request(c, t) \/ Return(c)
      PROVE  PoolInv' /\ TenantsApart'
  BY <1>1, RequestKeeps
     DEF Request, Return, TenantsApart, OwnRowsOnly, TxFindsOwnRows, PoolInv, PoolTyped
<1>2. ASSUME NEW c \in Callers, NEW n \in Connections,
             BeginTenantTx(c, n) \/ SetLocal(c, n) \/ EndTx(c, n)
      PROVE  PoolInv' /\ TenantsApart'
  <2>1. PoolInv'
    BY <1>2, BeginKeeps, SetLocalKeeps, EndKeeps
  <2>2. TenantsApart'
    BY <1>2 DEF BeginTenantTx, SetLocal, EndTx, TenantsApart, OwnRowsOnly,
                TxFindsOwnRows, PoolInv, PoolTyped
  <2> QED BY <2>1, <2>2
<1>3. ASSUME NEW c \in Callers, NEW n \in Connections, NEW t \in Tenants,
             StatementInTx(c, n, t) \/ DirectStatement(c, n, t)
      PROVE  PoolInv' /\ TenantsApart'
  BY <1>3, StatementKeeps, StatementIsApart
<1>4. CASE UNCHANGED poolVars
  BY <1>4 DEF poolVars, PoolInv, PoolTyped, NoLeftover, HolderSets, OneTransaction,
              TenantsApart, OwnRowsOnly, TxFindsOwnRows
<1>5. CASE PoolNext
  BY <1>1, <1>2, <1>3, <1>5 DEF PoolNext
<1> QED BY <1>4, <1>5

\* The pool is well formed: a connection is in one transaction at most, and a
\* setting never outlives it.
THEOREM PoolTypeCorrect == PoolSpec => [](PoolTypeOK /\ NoLeftover)
<1>1. PoolInit => PoolInv /\ TenantsApart
  BY PoolStart
<1>2. PoolInv /\ TenantsApart /\ [PoolNext]_poolVars => (PoolInv /\ TenantsApart)'
  BY PoolStepKeeps
<1>3. PoolInv => PoolTypeOK /\ NoLeftover
  BY PoolInvTypes DEF PoolInv
<1> QED BY <1>1, <1>2, <1>3, PTL DEF PoolSpec

\* A call that runs under a role which obeys the policies finds no row of
\* another tenant, in a transaction or outside one, and a transaction finds
\* those of its own.
THEOREM TenantsAreApart == PoolSpec => []TenantsApart
<1>1. PoolInit => PoolInv /\ TenantsApart
  BY PoolStart
<1>2. PoolInv /\ TenantsApart /\ [PoolNext]_poolVars => (PoolInv /\ TenantsApart)'
  BY PoolStepKeeps
<1> QED BY <1>1, <1>2, PTL DEF PoolSpec

-----------------------------------------------------------------------------
(***************************************************************************)
(* The services together.  A step of one leaves the others alone, so a     *)
(* behaviour of the whole is one of each.                                  *)
(***************************************************************************)

\* Whatever the services do together, each does what it does on its own: what
\* is proved of one is true of the instance that is model-checked.
THEOREM EachOnItsOwn ==
  FairSpec => OrgSpec /\ RepoSpec /\ NoteSpec /\ LimitSpec /\ StreamSpec /\ PoolSpec
<1>1. Init => OrgInit /\ RepoInit /\ NoteInit /\ LimitInit /\ StreamInit /\ PoolInit
  BY DEF Init
<1>2. [Next]_vars => /\ [OrgNext]_orgVars /\ [RepoNext]_repoVars /\ [NoteNext]_noteVars
                     /\ [LimitNext]_limitVars /\ [StreamNext]_streamVars
                     /\ [PoolNext]_poolVars
  BY DEF Next, vars, OrgStep, RepoStep, NotificationStep, LimiterStep, StreamStep, PoolStep
<1> QED BY <1>1, <1>2, PTL DEF FairSpec, OrgSpec, RepoSpec, NoteSpec, LimitSpec, StreamSpec,
                               PoolSpec

\* The state of every service keeps its shape: no bound of it is overrun.
THEOREM TypeCorrect == FairSpec => []TypeOK
<1>1. PoolInit => PoolInv /\ TenantsApart
  BY PoolStart
<1>2. PoolInv /\ TenantsApart /\ [PoolNext]_poolVars => (PoolInv /\ TenantsApart)'
  BY PoolStepKeeps
<1>3. OrgInv /\ Counted /\ RepoInv /\ NoteInv /\ LimitInv /\ StreamInv /\ PoolInv => TypeOK
  BY OrgTyped, PoolInvTypes DEF RepoInv, NoteInv, LimitInv, StreamInv, TypeOK
<1> QED BY <1>1, <1>2, <1>3, EachOnItsOwn, OrgStart, OrgStepKeeps, RepoStart, RepoStepKeeps,
           NoteStart, NoteStepKeeps, LimitStart, LimitStepKeeps, StreamStart, StreamStepKeeps,
           PTL DEF OrgSpec, RepoSpec, NoteSpec, LimitSpec, StreamSpec, PoolSpec
=============================================================================
