------------------------ MODULE AuditFindingsProofs ------------------------
(***************************************************************************)
(* Proofs about AuditFindings: what its sums over findings return, and an  *)
(* invariant from which follow the type invariant, what an audit has on    *)
(* record, its score and report, and where its findings are exact.         *)
(***************************************************************************)
EXTENDS AuditFindings, FiniteSetTheorems, SequenceTheorems, NumberInduction

-----------------------------------------------------------------------------
(***************************************************************************)
(* Sums.  The library folds a function over a set by taking one element    *)
(* after the other; what the proofs need is that the order does not        *)
(* matter: an element more adds its value.                                 *)
(***************************************************************************)
First(s) == CHOOSE x \in s : TRUE

\* g is the fold of f on every subset of U that has at most n elements.
FoldsUpTo(g, f, U, n) ==
  \A s \in SUBSET U :
    Cardinality(s) <= n => g[s] = IF s = {} THEN 0 ELSE f[First(s)] + g[s \ {First(s)}]

LEMMA FirstIsOne ==
  ASSUME NEW U, IsFiniteSet(U), NEW s \in SUBSET U, s # {}
  PROVE  /\ First(s) \in s /\ s \ {First(s)} \in SUBSET U
         /\ IsFiniteSet(s) /\ Cardinality(s) \in Nat \ {0}
         /\ Cardinality(s \ {First(s)}) = Cardinality(s) - 1
<1>1. First(s) \in s
  BY DEF First
<1>2. IsFiniteSet(s)
  BY FS_Subset
<1>3. Cardinality(s) \in Nat /\ Cardinality(s) # 0
  BY <1>2, FS_CardinalityType, FS_EmptySet
<1>4. Cardinality(s \ {First(s)}) = Cardinality(s) - 1
  BY <1>1, <1>2, FS_RemoveElement
<1> QED
  BY <1>1, <1>2, <1>3, <1>4

LEMMA FoldExists ==
  ASSUME NEW U, IsFiniteSet(U), NEW f, NEW n \in Nat
  PROVE  \E g : g = [s \in SUBSET U |-> g[s]] /\ FoldsUpTo(g, f, U, n)
<1> DEFINE S == {m \in Nat : \E g : g = [s \in SUBSET U |-> g[s]] /\ FoldsUpTo(g, f, U, m)}
<1>1. 0 \in S
  <2> DEFINE g == [s \in SUBSET U |-> 0]
  <2>1. ASSUME NEW s \in SUBSET U, Cardinality(s) <= 0 PROVE s = {}
    <3> SUFFICES ASSUME s # {} PROVE FALSE
      OBVIOUS
    <3>1. Cardinality(s) \in Nat \ {0}
      BY FirstIsOne
    <3> QED
      BY <2>1, <3>1
  <2>2. FoldsUpTo(g, f, U, 0)
    BY <2>1 DEF FoldsUpTo
  <2>3. g = [s \in SUBSET U |-> g[s]]
    OBVIOUS
  <2> QED
    BY <2>2, <2>3
<1>2. ASSUME NEW m \in Nat, m \in S PROVE m + 1 \in S
  <2>1. PICK g : g = [s \in SUBSET U |-> g[s]] /\ FoldsUpTo(g, f, U, m)
    BY <1>2
  <2> DEFINE h == [s \in SUBSET U |-> IF s = {} THEN 0 ELSE f[First(s)] + g[s \ {First(s)}]]
  <2>2. \A s \in SUBSET U : h[s] = IF s = {} THEN 0 ELSE f[First(s)] + g[s \ {First(s)}]
    OBVIOUS
  <2>3. h = [s \in SUBSET U |-> h[s]]
    OBVIOUS
  <2> HIDE DEF h
  <2>4. \A s \in SUBSET U : Cardinality(s) <= m => h[s] = g[s]
    BY <2>1, <2>2 DEF FoldsUpTo
  <2>5. ASSUME NEW s \in SUBSET U, Cardinality(s) <= m + 1, s # {}
        PROVE  h[s] = f[First(s)] + h[s \ {First(s)}]
    <3>1. s \ {First(s)} \in SUBSET U /\ Cardinality(s \ {First(s)}) <= m
      BY <2>5, FirstIsOne
    <3> QED
      BY <2>2, <2>4, <2>5, <3>1
  <2>6. FoldsUpTo(h, f, U, m + 1)
    BY <2>2, <2>5 DEF FoldsUpTo
  <2> QED
    BY <2>3, <2>6
<1>3. Nat \subseteq S
  <2> HIDE DEF S
  <2> QED
    BY <1>1, <1>2, NatSets
<1> QED
  BY <1>3

\* The fold over U, as the library defines it.
Fold(f, U) ==
  CHOOSE g : g = [s \in SUBSET U |-> IF s = {} THEN 0 ELSE f[First(s)] + g[s \ {First(s)}]]

LEMMA SumIsFold == ASSUME NEW f, NEW U PROVE SumFunctionOnSet(f, U) = Fold(f, U)[U]
BY DEF SumFunctionOnSet, FoldFunctionOnSet, MapThenFoldSet, Fold, First

LEMMA FoldIs ==
  ASSUME NEW U, IsFiniteSet(U), NEW f
  PROVE  \A s \in SUBSET U :
           Fold(f, U)[s] = IF s = {} THEN 0 ELSE f[First(s)] + Fold(f, U)[s \ {First(s)}]
<1> DEFINE n == Cardinality(U)
<1>1. n \in Nat /\ \A s \in SUBSET U : Cardinality(s) <= n
  BY FS_CardinalityType, FS_Subset
<1> HIDE DEF n
<1>2. PICK g : g = [s \in SUBSET U |-> g[s]] /\ FoldsUpTo(g, f, U, n)
  BY <1>1, FoldExists
<1>3. g = [s \in SUBSET U |-> IF s = {} THEN 0 ELSE f[First(s)] + g[s \ {First(s)}]]
  BY <1>1, <1>2 DEF FoldsUpTo
<1>4. Fold(f, U) = [s \in SUBSET U |-> IF s = {} THEN 0
                                      ELSE f[First(s)] + Fold(f, U)[s \ {First(s)}]]
  BY <1>3 DEF Fold
<1> QED
  BY <1>4

\* Induction over the subsets of a finite set, as a fact about sets.
LEMMA SubsetInduction ==
  ASSUME NEW U, IsFiniteSet(U), NEW C,
         \A s \in SUBSET U : (\A x \in s : s \ {x} \in C) => s \in C
  PROVE  SUBSET U \subseteq C
<1> DEFINE S == {n \in Nat : \A s \in SUBSET U : Cardinality(s) <= n => s \in C}
<1>1. 0 \in S
  <2>1. ASSUME NEW s \in SUBSET U, Cardinality(s) <= 0 PROVE s \in C
    <3>1. s = {}
      <4> SUFFICES ASSUME s # {} PROVE FALSE
        OBVIOUS
      <4>1. Cardinality(s) \in Nat \ {0}
        BY FirstIsOne
      <4> QED
        BY <2>1, <4>1
    <3> QED
      BY <3>1
  <2> QED
    BY <2>1
<1>2. ASSUME NEW m \in Nat, m \in S PROVE m + 1 \in S
  <2>1. ASSUME NEW s \in SUBSET U, Cardinality(s) <= m + 1 PROVE s \in C
    <3>1. ASSUME NEW x \in s PROVE s \ {x} \in C
      <4>1. IsFiniteSet(s)
        BY FS_Subset
      <4>2. Cardinality(s) \in Nat /\ Cardinality(s \ {x}) = Cardinality(s) - 1
        BY <4>1, FS_CardinalityType, FS_RemoveElement
      <4>3. s \ {x} \in SUBSET U /\ Cardinality(s \ {x}) <= m
        BY <2>1, <4>2
      <4> QED
        BY <1>2, <4>3
    <3> QED
      BY <3>1
  <2> QED
    BY <2>1
<1>3. Nat \subseteq S
  <2> HIDE DEF S
  <2> QED
    BY <1>1, <1>2, NatSets
<1>4. Cardinality(U) \in Nat /\ \A s \in SUBSET U : Cardinality(s) <= Cardinality(U)
  BY FS_CardinalityType, FS_Subset
<1> QED
  BY <1>3, <1>4

LEMMA FoldSame ==
  ASSUME NEW U, IsFiniteSet(U), NEW V \in SUBSET U, NEW f
  PROVE  \A s \in SUBSET V : Fold(f, V)[s] = Fold(f, U)[s]
<1> DEFINE C == {s \in SUBSET V : Fold(f, V)[s] = Fold(f, U)[s]}
<1>1. IsFiniteSet(V)
  BY FS_Subset
<1>2. ASSUME NEW s \in SUBSET V, \A x \in s : s \ {x} \in C PROVE s \in C
  <2>1. s \in SUBSET U
    OBVIOUS
  <2>2. CASE s = {}
    BY <1>1, <2>1, <2>2, FoldIs
  <2>3. CASE s # {}
    <3>1. First(s) \in s
      BY <2>3 DEF First
    <3>2. Fold(f, V)[s \ {First(s)}] = Fold(f, U)[s \ {First(s)}]
      BY <1>2, <3>1
    <3>3. Fold(f, V)[s] = f[First(s)] + Fold(f, V)[s \ {First(s)}]
      BY <1>1, <2>3, FoldIs
    <3>4. Fold(f, U)[s] = f[First(s)] + Fold(f, U)[s \ {First(s)}]
      BY <2>1, <2>3, FoldIs
    <3> QED
      BY <3>2, <3>3, <3>4
  <2> QED
    BY <2>2, <2>3
<1>3. SUBSET V \subseteq C
  <2> HIDE DEF C
  <2> QED
    BY <1>1, <1>2, SubsetInduction
<1> QED
  BY <1>3

LEMMA SumUnfolds ==
  ASSUME NEW S, IsFiniteSet(S), NEW f
  PROVE  SumFunctionOnSet(f, S)
           = IF S = {} THEN 0 ELSE f[First(S)] + SumFunctionOnSet(f, S \ {First(S)})
<1>1. CASE S = {}
  BY <1>1, FoldIs, SumIsFold
<1>2. CASE S # {}
  <2> DEFINE V == S \ {First(S)}
  <2>1. V \in SUBSET S
    OBVIOUS
  <2>2. Fold(f, V)[V] = Fold(f, S)[V]
    <3>1. V \in SUBSET V
      OBVIOUS
    <3> HIDE DEF V
    <3> QED
      BY <2>1, <3>1, FoldSame
  <2>3. Fold(f, S)[S] = f[First(S)] + Fold(f, S)[V]
    <3>1. S \in SUBSET S
      OBVIOUS
    <3> QED
      BY <1>2, <3>1, FoldIs
  <2>4. SumFunctionOnSet(f, V) = Fold(f, V)[V] /\ SumFunctionOnSet(f, S) = Fold(f, S)[S]
    BY SumIsFold
  <2> QED
    BY <1>2, <2>2, <2>3, <2>4
<1> QED
  BY <1>1, <1>2

LEMMA SumNatural ==
  ASSUME NEW S, IsFiniteSet(S), NEW f, \A x \in S : f[x] \in Nat
  PROVE  SumFunctionOnSet(f, S) \in Nat
<1> DEFINE C == {s \in SUBSET S : SumFunctionOnSet(f, s) \in Nat}
<1>1. ASSUME NEW s \in SUBSET S, \A x \in s : s \ {x} \in C PROVE s \in C
  <2>1. IsFiniteSet(s)
    BY FS_Subset
  <2>2. CASE s = {}
    <3>1. SumFunctionOnSet(f, s) = 0
      BY <2>1, <2>2, SumUnfolds
    <3> QED
      BY <3>1
  <2>3. CASE s # {}
    <3>1. First(s) \in s
      BY <2>3 DEF First
    <3>2. SumFunctionOnSet(f, s) = f[First(s)] + SumFunctionOnSet(f, s \ {First(s)})
      BY <2>1, <2>3, SumUnfolds
    <3> QED
      BY <1>1, <3>1, <3>2
  <2> QED
    BY <2>2, <2>3
<1>2. SUBSET S \subseteq C
  <2> HIDE DEF C
  <2> QED
    BY <1>1, SubsetInduction
<1> QED
  BY <1>2

LEMMA SumRemove ==
  ASSUME NEW S, IsFiniteSet(S), NEW f, \A x \in S : f[x] \in Nat
  PROVE  \A x \in S : SumFunctionOnSet(f, S) = f[x] + SumFunctionOnSet(f, S \ {x})
<1> DEFINE C == {s \in SUBSET S : \A x \in s :
                   SumFunctionOnSet(f, s) = f[x] + SumFunctionOnSet(f, s \ {x})}
<1>1. ASSUME NEW s \in SUBSET S, \A x \in s : s \ {x} \in C PROVE s \in C
  <2>1. IsFiniteSet(s)
    BY FS_Subset
  <2>2. ASSUME NEW x \in s
        PROVE  SumFunctionOnSet(f, s) = f[x] + SumFunctionOnSet(f, s \ {x})
    <3> DEFINE y == First(s)
    <3>1. y \in s
      BY DEF First
    <3>2. SumFunctionOnSet(f, s) = f[y] + SumFunctionOnSet(f, s \ {y})
      BY <2>1, <2>2, SumUnfolds
    <3>3. CASE x = y
      BY <3>2, <3>3
    <3>4. CASE x # y
      <4> HIDE DEF y
      <4>1. SumFunctionOnSet(f, s \ {y}) = f[x] + SumFunctionOnSet(f, (s \ {y}) \ {x})
        BY <1>1, <3>1, <3>4
      <4>2. SumFunctionOnSet(f, s \ {x}) = f[y] + SumFunctionOnSet(f, (s \ {x}) \ {y})
        BY <1>1, <3>1, <3>4
      <4>3. (s \ {y}) \ {x} = (s \ {x}) \ {y}
        OBVIOUS
      <4>4. f[x] \in Nat /\ f[y] \in Nat /\ SumFunctionOnSet(f, (s \ {x}) \ {y}) \in Nat
        <5>1. IsFiniteSet((s \ {x}) \ {y})
          BY FS_Subset
        <5> QED
          BY <3>1, <5>1, SumNatural
      <4> DEFINE p == f[x]
                 q == f[y]
                 r == SumFunctionOnSet(f, (s \ {x}) \ {y})
                 u == SumFunctionOnSet(f, s \ {x})
                 v == SumFunctionOnSet(f, s \ {y})
      <4>5. p \in Nat /\ q \in Nat /\ r \in Nat /\ u = q + r /\ v = p + r
        BY <4>1, <4>2, <4>3, <4>4
      <4>6. SumFunctionOnSet(f, s) = q + v
        BY <3>2
      <4> HIDE DEF p, q, r, u, v
      <4>7. q + v = p + u
        BY <4>5
      <4> QED
        BY <4>6, <4>7 DEF p, u
    <3> QED
      BY <3>3, <3>4
  <2> QED
    BY <2>2
<1>2. SUBSET S \subseteq C
  <2> HIDE DEF C
  <2> QED
    BY <1>1, SubsetInduction
<1> QED
  BY <1>2

LEMMA SumMonotone ==
  ASSUME NEW S, IsFiniteSet(S), NEW f, NEW g,
         \A x \in S : f[x] \in Nat /\ g[x] \in Nat /\ f[x] <= g[x]
  PROVE  SumFunctionOnSet(f, S) <= SumFunctionOnSet(g, S)
<1> DEFINE C == {s \in SUBSET S : SumFunctionOnSet(f, s) <= SumFunctionOnSet(g, s)}
<1>1. ASSUME NEW s \in SUBSET S, \A x \in s : s \ {x} \in C PROVE s \in C
  <2>1. IsFiniteSet(s)
    BY FS_Subset
  <2>2. CASE s = {}
    BY <2>1, <2>2, SumUnfolds
  <2>3. CASE s # {}
    <3> DEFINE y == First(s)
               r == s \ {y}
    <3>1. y \in s /\ r \in C
      BY <1>1, <2>3 DEF First
    <3>2. SumFunctionOnSet(f, s) = f[y] + SumFunctionOnSet(f, r)
      BY <2>1, <2>3, SumUnfolds
    <3>3. SumFunctionOnSet(g, s) = g[y] + SumFunctionOnSet(g, r)
      BY <2>1, <2>3, SumUnfolds
    <3>4. IsFiniteSet(r) /\ r \in SUBSET S
      BY FS_Subset
    <3> HIDE DEF y, r
    <3>5. SumFunctionOnSet(f, r) \in Nat /\ SumFunctionOnSet(g, r) \in Nat
      BY <3>4, SumNatural
    <3>6. f[y] \in Nat /\ g[y] \in Nat /\ f[y] <= g[y]
      BY <3>1
    <3> QED
      BY <3>1, <3>2, <3>3, <3>5, <3>6
  <2> QED
    BY <2>2, <2>3
<1>2. SUBSET S \subseteq C
  <2> HIDE DEF C
  <2> QED
    BY <1>1, SubsetInduction
<1> QED
  BY <1>2

\* Functions that agree on a set have the same sum over it.
LEMMA SumAgrees ==
  ASSUME NEW S, IsFiniteSet(S), NEW f, NEW g,
         \A x \in S : f[x] \in Nat /\ f[x] = g[x]
  PROVE  SumFunctionOnSet(f, S) = SumFunctionOnSet(g, S)
<1>1. SumFunctionOnSet(f, S) <= SumFunctionOnSet(g, S)
  BY SumMonotone
<1>2. SumFunctionOnSet(g, S) <= SumFunctionOnSet(f, S)
  BY SumMonotone
<1>3. SumFunctionOnSet(f, S) \in Nat /\ SumFunctionOnSet(g, S) \in Nat
  BY SumNatural
<1> QED
  BY <1>1, <1>2, <1>3

\* A function that changes at one element changes its sum by as much.
LEMMA SumChanges ==
  ASSUME NEW S, IsFiniteSet(S), NEW f, NEW g, NEW x \in S,
         \A y \in S : f[y] \in Nat /\ g[y] \in Nat,
         \A y \in S \ {x} : f[y] = g[y]
  PROVE  SumFunctionOnSet(g, S) = SumFunctionOnSet(f, S) + (g[x] - f[x])
<1> DEFINE r == S \ {x}
<1>1. IsFiniteSet(r)
  BY FS_Subset
<1>2. SumFunctionOnSet(f, r) = SumFunctionOnSet(g, r)
  BY <1>1, SumAgrees
<1>3. SumFunctionOnSet(f, S) = f[x] + SumFunctionOnSet(f, r)
  BY SumRemove
<1>4. SumFunctionOnSet(g, S) = g[x] + SumFunctionOnSet(g, r)
  BY SumRemove
<1>5. SumFunctionOnSet(f, r) \in Nat
  BY <1>1, SumNatural
<1> HIDE DEF r
<1> QED
  BY <1>2, <1>3, <1>4, <1>5

LEMMA SumPositive ==
  ASSUME NEW S, IsFiniteSet(S), NEW f, \A x \in S : f[x] \in Nat
  PROVE  SumFunctionOnSet(f, S) > 0 <=> \E x \in S : f[x] > 0
<1>1. ASSUME NEW x \in S, f[x] > 0 PROVE SumFunctionOnSet(f, S) > 0
  <2>1. SumFunctionOnSet(f, S) = f[x] + SumFunctionOnSet(f, S \ {x})
    BY SumRemove
  <2>2. SumFunctionOnSet(f, S \ {x}) \in Nat
    <3>1. IsFiniteSet(S \ {x})
      BY FS_Subset
    <3> QED
      BY <3>1, SumNatural
  <2> QED
    BY <1>1, <2>1, <2>2
<1>2. ASSUME \A x \in S : ~(f[x] > 0) PROVE ~(SumFunctionOnSet(f, S) > 0)
  <2> SUFFICES ASSUME S # {} PROVE ~(SumFunctionOnSet(f, S) > 0)
    BY SumUnfolds
  <2> DEFINE C == {s \in SUBSET S : SumFunctionOnSet(f, s) = 0}
  <2>1. ASSUME NEW s \in SUBSET S, \A x \in s : s \ {x} \in C PROVE s \in C
    <3>1. IsFiniteSet(s)
      BY FS_Subset
    <3>2. CASE s = {}
      BY <3>1, <3>2, SumUnfolds
    <3>3. CASE s # {}
      <4>1. First(s) \in s
        BY <3>3 DEF First
      <4>2. f[First(s)] = 0
        BY <1>2, <4>1
      <4>3. SumFunctionOnSet(f, s) = f[First(s)] + SumFunctionOnSet(f, s \ {First(s)})
        BY <3>1, <3>3, SumUnfolds
      <4> QED
        BY <2>1, <4>1, <4>2, <4>3
    <3> QED
      BY <3>2, <3>3
  <2>2. SUBSET S \subseteq C
    <3> HIDE DEF C
    <3> QED
      BY <2>1, SubsetInduction
  <2> QED
    BY <2>2
<1> QED
  BY <1>1, <1>2

-----------------------------------------------------------------------------
(***************************************************************************)
(* What the operators of AuditFindings return.                             *)
(***************************************************************************)
Bags == [Finding -> Nat]
AtPlace(p) == {f \in Finding : Place(f) = p}
OfSeverity(v) == {f \in Finding : f.sev = v}

LEMMA NormalIsAFinding ==
  ASSUME NEW i \in UNION Analyses
  PROVE  Normal(i) \in Finding
BY DEF Finding

LEMMA SeverityOfFinding ==
  ASSUME NEW f \in Finding
  PROVE  f.sev \in Severities
<1>1. PICK i \in UNION Analyses : f = Normal(i)
  BY DEF Finding
<1>2. f.sev = NormalSeverity(i.sev)
  BY <1>1 DEF Normal
<1> QED
  BY <1>2, FindingsAssumption DEF NormalSeverity

LEMMA FindingIsFinite == IsFiniteSet(Finding)
<1> DEFINE n == [i \in UNION Analyses |-> Normal(i)]
<1>1. n \in Surjection(UNION Analyses, Finding)
  BY DEF Surjection, Finding
<1> HIDE DEF n
<1>2. IsFiniteSet(UNION Analyses)
  BY FindingsAssumption
<1> QED
  BY <1>1, <1>2, FS_Surjection

LEMMA PartsAreFinite ==
  /\ \A p : IsFiniteSet(AtPlace(p)) /\ AtPlace(p) \in SUBSET Finding
  /\ \A v : IsFiniteSet(OfSeverity(v)) /\ OfSeverity(v) \in SUBSET Finding
<1>1. ASSUME NEW p PROVE IsFiniteSet(AtPlace(p)) /\ AtPlace(p) \in SUBSET Finding
  <2>1. AtPlace(p) \in SUBSET Finding
    BY DEF AtPlace
  <2> QED
    BY <2>1, FindingIsFinite, FS_Subset
<1>2. ASSUME NEW v PROVE IsFiniteSet(OfSeverity(v)) /\ OfSeverity(v) \in SUBSET Finding
  <2>1. OfSeverity(v) \in SUBSET Finding
    BY DEF OfSeverity
  <2> QED
    BY <2>1, FindingIsFinite, FS_Subset
<1> QED
  BY <1>1, <1>2

LEMMA AtIs ==
  ASSUME NEW bag \in Bags, NEW p
  PROVE  /\ At(bag, p) = SumFunctionOnSet(bag, AtPlace(p))
         /\ At(bag, p) \in Nat
         /\ At(bag, p) > 0 <=> p \in Held(bag)
<1>1. At(bag, p) = SumFunctionOnSet(bag, AtPlace(p))
  BY DEF At, AtPlace
<1>2. IsFiniteSet(AtPlace(p)) /\ \A f \in AtPlace(p) : bag[f] \in Nat
  BY PartsAreFinite DEF Bags
<1>3. SumFunctionOnSet(bag, AtPlace(p)) \in Nat
  BY <1>2, SumNatural
<1>4. SumFunctionOnSet(bag, AtPlace(p)) > 0 <=> \E f \in AtPlace(p) : bag[f] > 0
  BY <1>2, SumPositive
<1>5. (\E f \in AtPlace(p) : bag[f] > 0) <=> p \in Held(bag)
  BY DEF AtPlace, Held
<1> QED
  BY <1>1, <1>3, <1>4, <1>5

LEMMA TallyIs ==
  ASSUME NEW bag \in Bags
  PROVE  /\ Tally(bag) \in [Severities -> Nat]
         /\ \A v \in Severities : Tally(bag)[v] = SumFunctionOnSet(bag, OfSeverity(v))
<1>1. \A v \in Severities : Tally(bag)[v] = SumFunctionOnSet(bag, OfSeverity(v))
  BY DEF Tally, OfSeverity
<1>2. ASSUME NEW v \in Severities PROVE SumFunctionOnSet(bag, OfSeverity(v)) \in Nat
  <2>1. IsFiniteSet(OfSeverity(v)) /\ \A f \in OfSeverity(v) : bag[f] \in Nat
    BY PartsAreFinite DEF Bags
  <2> QED
    BY <2>1, SumNatural
<1>3. Tally(bag) = [v \in Severities |-> SumFunctionOnSet(bag, OfSeverity(v))]
  BY DEF Tally, OfSeverity
<1> QED
  BY <1>1, <1>2, <1>3

\* The bag with one finding more.
More(bag, f) == [bag EXCEPT ![f] = @ + 1]

LEMMA MoreIs ==
  ASSUME NEW bag \in Bags, NEW f \in Finding
  PROVE  /\ More(bag, f) \in Bags
         /\ More(bag, f)[f] = bag[f] + 1
         /\ \A g \in Finding : g # f => More(bag, f)[g] = bag[g]
         /\ \A g \in Finding : bag[g] <= More(bag, f)[g]
BY DEF More, Bags

LEMMA AtMore ==
  ASSUME NEW bag \in Bags, NEW f \in Finding, NEW p
  PROVE  At(More(bag, f), p) = IF Place(f) = p THEN At(bag, p) + 1 ELSE At(bag, p)
<1> DEFINE S == AtPlace(p)
           more == More(bag, f)
<1>1. IsFiniteSet(S) /\ S \in SUBSET Finding
  BY PartsAreFinite
<1>2. more \in Bags /\ more[f] = bag[f] + 1 /\ \A g \in Finding : g # f => more[g] = bag[g]
  BY MoreIs
<1>3. At(bag, p) = SumFunctionOnSet(bag, S) /\ At(more, p) = SumFunctionOnSet(more, S)
  BY <1>2, AtIs
<1>4. f \in S <=> Place(f) = p
  BY DEF AtPlace
<1> HIDE DEF S, more
<1>5. \A g \in S : bag[g] \in Nat /\ more[g] \in Nat
  BY <1>1, <1>2 DEF Bags
<1>6. CASE f \in S
  <2>1. \A g \in S \ {f} : bag[g] = more[g]
    BY <1>1, <1>2
  <2>2. SumFunctionOnSet(more, S) = SumFunctionOnSet(bag, S) + (more[f] - bag[f])
    BY <1>1, <1>5, <1>6, <2>1, SumChanges
  <2>3. SumFunctionOnSet(bag, S) \in Nat /\ bag[f] \in Nat
    BY <1>1, <1>5, <1>6, SumNatural
  <2>4. SumFunctionOnSet(more, S) = SumFunctionOnSet(bag, S) + 1
    BY <1>2, <2>2, <2>3
  <2> QED
    BY <1>3, <1>4, <1>6, <2>4 DEF more
<1>7. CASE f \notin S
  <2>1. \A g \in S : bag[g] \in Nat /\ bag[g] = more[g]
    BY <1>1, <1>2, <1>5, <1>7
  <2>2. SumFunctionOnSet(more, S) = SumFunctionOnSet(bag, S)
    BY <1>1, <2>1, SumAgrees
  <2> QED
    BY <1>3, <1>4, <1>7, <2>2 DEF more
<1> QED
  BY <1>6, <1>7

LEMMA TallyMore ==
  ASSUME NEW bag \in Bags, NEW f \in Finding
  PROVE  /\ Tally(More(bag, f))[f.sev] = Tally(bag)[f.sev] + 1
         /\ \A v \in Severities : v # f.sev => Tally(More(bag, f))[v] = Tally(bag)[v]
<1> DEFINE more == More(bag, f)
<1>1. more \in Bags /\ more[f] = bag[f] + 1 /\ \A g \in Finding : g # f => more[g] = bag[g]
  BY MoreIs
<1>2. f.sev \in Severities
  BY SeverityOfFinding
<1>3. /\ \A v \in Severities : Tally(bag)[v] = SumFunctionOnSet(bag, OfSeverity(v))
      /\ \A v \in Severities : Tally(more)[v] = SumFunctionOnSet(more, OfSeverity(v))
  BY <1>1, TallyIs
<1> HIDE DEF more
<1>4. ASSUME NEW v \in Severities
      PROVE  /\ IsFiniteSet(OfSeverity(v)) /\ OfSeverity(v) \in SUBSET Finding
             /\ \A g \in OfSeverity(v) : bag[g] \in Nat /\ more[g] \in Nat
             /\ SumFunctionOnSet(bag, OfSeverity(v)) \in Nat
  <2>1. IsFiniteSet(OfSeverity(v)) /\ OfSeverity(v) \in SUBSET Finding
    BY PartsAreFinite
  <2>2. \A g \in OfSeverity(v) : bag[g] \in Nat /\ more[g] \in Nat
    BY <1>1, <2>1 DEF Bags
  <2> QED
    BY <2>1, <2>2, SumNatural
<1>5. Tally(more)[f.sev] = Tally(bag)[f.sev] + 1
  <2> DEFINE S == OfSeverity(f.sev)
  <2>1. f \in S
    BY DEF OfSeverity
  <2>2. IsFiniteSet(S) /\ S \in SUBSET Finding
    BY <1>2, <1>4
  <2>3. \A g \in S : bag[g] \in Nat /\ more[g] \in Nat
    BY <1>2, <1>4
  <2>4. Tally(bag)[f.sev] = SumFunctionOnSet(bag, S) /\ Tally(more)[f.sev] = SumFunctionOnSet(more, S)
    BY <1>2, <1>3
  <2>5. SumFunctionOnSet(bag, S) \in Nat
    BY <1>2, <1>4
  <2> HIDE DEF S
  <2>6. \A g \in S \ {f} : bag[g] = more[g]
    BY <1>1, <2>2
  <2>7. SumFunctionOnSet(more, S) = SumFunctionOnSet(bag, S) + (more[f] - bag[f])
    BY <2>1, <2>2, <2>3, <2>6, SumChanges
  <2>8. SumFunctionOnSet(more, S) = SumFunctionOnSet(bag, S) + 1
    BY <1>1, <2>1, <2>3, <2>5, <2>7
  <2> QED
    BY <2>4, <2>8
<1>6. ASSUME NEW v \in Severities, v # f.sev PROVE Tally(more)[v] = Tally(bag)[v]
  <2> DEFINE S == OfSeverity(v)
  <2>1. f \notin S
    BY <1>6 DEF OfSeverity
  <2>2. IsFiniteSet(S) /\ S \in SUBSET Finding /\ \A g \in S : bag[g] \in Nat
    BY <1>4
  <2>3. \A g \in S : bag[g] = more[g]
    <3> HIDE DEF S
    <3> QED
      BY <1>1, <2>1, <2>2
  <2>4. SumFunctionOnSet(bag, S) = SumFunctionOnSet(more, S)
    <3> HIDE DEF S
    <3> QED
      BY <2>2, <2>3, SumAgrees
  <2> QED
    BY <1>3, <2>4
<1> QED
  BY <1>5, <1>6 DEF more

LEMMA TallyMonotone ==
  ASSUME NEW bag \in Bags, NEW big \in Bags, \A f \in Finding : bag[f] <= big[f]
  PROVE  \A v \in Severities : Tally(bag)[v] <= Tally(big)[v]
<1> SUFFICES ASSUME NEW v \in Severities PROVE Tally(bag)[v] <= Tally(big)[v]
  OBVIOUS
<1> DEFINE S == OfSeverity(v)
<1>1. IsFiniteSet(S) /\ S \in SUBSET Finding
  BY PartsAreFinite
<1>2. Tally(bag)[v] = SumFunctionOnSet(bag, S) /\ Tally(big)[v] = SumFunctionOnSet(big, S)
  BY TallyIs
<1> HIDE DEF S
<1>3. \A x \in S : bag[x] \in Nat /\ big[x] \in Nat /\ bag[x] <= big[x]
  BY <1>1 DEF Bags
<1>4. SumFunctionOnSet(bag, S) <= SumFunctionOnSet(big, S)
  BY <1>1, <1>3, SumMonotone
<1> QED
  BY <1>2, <1>4

(***************************************************************************)
(* Scores.                                                                 *)
(***************************************************************************)
Tallies == [Severities -> Nat]
Weighted(t) == [s \in Severities |-> t[s] * Weight[s]]
WeightedSum(t) == SumFunctionOnSet(Weighted(t), Severities)
WeightOf(is) == [i \in is |-> Weight[NormalSeverity(i.sev)]]

LEMMA Times ==
  /\ \A m, n \in Nat : m * n \in Nat
  /\ \A m, n, k \in Nat : m <= k => m * n <= k * n
  /\ \A m, n \in Nat : (m + 1) * n = m * n + n
  /\ \A n \in Nat : 0 * n = 0
OBVIOUS

LEMMA WeightedIs ==
  ASSUME NEW t \in Tallies
  PROVE  /\ \A s \in Severities : Weighted(t)[s] = t[s] * Weight[s] /\ Weighted(t)[s] \in Nat
         /\ WeightedSum(t) \in Nat
         /\ CalculateCompositeScore(t)
              = IF WeightedSum(t) > MaxScore THEN MaxScore ELSE WeightedSum(t)
<1>1. \A s \in Severities : Weighted(t)[s] = t[s] * Weight[s]
  BY DEF Weighted
<1>2. \A s \in Severities : t[s] \in Nat /\ Weight[s] \in Nat
  BY FindingsAssumption DEF Tallies
<1>3. \A s \in Severities : Weighted(t)[s] \in Nat
  BY <1>1, <1>2, Times
<1>4. WeightedSum(t) \in Nat
  BY <1>3, SumNatural, FindingsAssumption DEF WeightedSum
<1>5. SumFunction([s \in Severities |-> t[s] * Weight[s]]) = WeightedSum(t)
  BY DEF SumFunction, WeightedSum, Weighted
<1>6. CalculateCompositeScore(t)
        = IF WeightedSum(t) > MaxScore THEN MaxScore ELSE WeightedSum(t)
  BY <1>5 DEF CalculateCompositeScore
<1> QED
  BY <1>1, <1>3, <1>4, <1>6

\* The score is clamped, and never falls when there is more to count.
LEMMA ScoreInRange ==
  ASSUME NEW t \in Tallies
  PROVE  CalculateCompositeScore(t) \in 0..MaxScore
<1>1. WeightedSum(t) \in Nat /\ MaxScore \in Nat
  BY WeightedIs, FindingsAssumption
<1>2. CalculateCompositeScore(t) = IF WeightedSum(t) > MaxScore THEN MaxScore ELSE WeightedSum(t)
  BY WeightedIs
<1> QED
  BY <1>1, <1>2

LEMMA ScoreMonotone ==
  ASSUME NEW t \in Tallies, NEW u \in Tallies, \A s \in Severities : t[s] <= u[s]
  PROVE  CalculateCompositeScore(t) <= CalculateCompositeScore(u)
<1>1. WeightedSum(t) \in Nat /\ WeightedSum(u) \in Nat /\ MaxScore \in Nat
  BY WeightedIs, FindingsAssumption
<1>2. ASSUME NEW s \in Severities
      PROVE  /\ Weighted(t)[s] \in Nat /\ Weighted(u)[s] \in Nat
             /\ Weighted(t)[s] <= Weighted(u)[s]
  <2>1. t[s] \in Nat /\ u[s] \in Nat /\ Weight[s] \in Nat /\ t[s] <= u[s]
    BY FindingsAssumption DEF Tallies
  <2>2. t[s] * Weight[s] <= u[s] * Weight[s]
    BY <2>1, Times
  <2>3. /\ Weighted(t)[s] = t[s] * Weight[s] /\ Weighted(t)[s] \in Nat
        /\ Weighted(u)[s] = u[s] * Weight[s] /\ Weighted(u)[s] \in Nat
    BY WeightedIs
  <2> QED
    BY <2>2, <2>3
<1>3. WeightedSum(t) <= WeightedSum(u)
  BY <1>2, SumMonotone, FindingsAssumption DEF WeightedSum
<1>4. /\ CalculateCompositeScore(t) = IF WeightedSum(t) > MaxScore THEN MaxScore ELSE WeightedSum(t)
      /\ CalculateCompositeScore(u) = IF WeightedSum(u) > MaxScore THEN MaxScore ELSE WeightedSum(u)
  BY WeightedIs
<1> QED
  BY <1>1, <1>3, <1>4

LEMMA AnalysisIsFinite ==
  ASSUME NEW is \in Analyses \cup {{}}
  PROVE  is \in SUBSET (UNION Analyses) /\ IsFiniteSet(is)
<1>1. is \in SUBSET (UNION Analyses)
  OBVIOUS
<1>2. IsFiniteSet(UNION Analyses)
  BY FindingsAssumption
<1> QED
  BY <1>1, <1>2, FS_Subset

LEMMA FromAnalysisIs ==
  ASSUME NEW is, IsFiniteSet(is)
  PROVE  /\ FromAnalysis(is) \in Bags
         /\ \A f \in Finding : FromAnalysis(is)[f] > 0 <=> \E i \in is : Normal(i) = f
<1>1. ASSUME NEW f \in Finding
      PROVE  /\ Cardinality({i \in is : Normal(i) = f}) \in Nat
             /\ Cardinality({i \in is : Normal(i) = f}) > 0 <=> \E i \in is : Normal(i) = f
  <2> DEFINE S == {i \in is : Normal(i) = f}
  <2>1. IsFiniteSet(S)
    BY FS_Subset
  <2>2. (\E i \in is : Normal(i) = f) <=> S # {}
    OBVIOUS
  <2> HIDE DEF S
  <2>3. Cardinality(S) \in Nat /\ (Cardinality(S) = 0 <=> S = {})
    BY <2>1, FS_CardinalityType, FS_EmptySet
  <2> QED
    BY <2>2, <2>3 DEF S
<1> QED
  BY <1>1 DEF FromAnalysis, Bags

LEMMA FromAnalysisAdds ==
  ASSUME NEW is \in SUBSET (UNION Analyses), IsFiniteSet(is), NEW i \in is
  PROVE  FromAnalysis(is) = More(FromAnalysis(is \ {i}), Normal(i))
<1> DEFINE r == is \ {i}
           S(f) == {j \in is : Normal(j) = f}
           R(f) == {j \in r : Normal(j) = f}
<1>1. Normal(i) \in Finding
  BY NormalIsAFinding
<1>2. \A f : IsFiniteSet(S(f)) /\ IsFiniteSet(R(f))
  <2> SUFFICES ASSUME NEW f PROVE IsFiniteSet(S(f)) /\ IsFiniteSet(R(f))
    OBVIOUS
  <2>1. S(f) \in SUBSET is /\ R(f) \in SUBSET is
    OBVIOUS
  <2> QED
    BY <2>1, FS_Subset
<1>3. R(Normal(i)) = S(Normal(i)) \ {i} /\ i \in S(Normal(i))
  OBVIOUS
<1>4. Cardinality(S(Normal(i))) = Cardinality(R(Normal(i))) + 1
  <2> HIDE DEF S, R
  <2>1. Cardinality(R(Normal(i))) = Cardinality(S(Normal(i))) - 1
    BY <1>2, <1>3, FS_RemoveElement
  <2>2. Cardinality(S(Normal(i))) \in Nat
    BY <1>2, FS_CardinalityType
  <2> QED
    BY <2>1, <2>2
<1>5. \A f \in Finding : f # Normal(i) => S(f) = R(f)
  OBVIOUS
<1>6. FromAnalysis(is) = [f \in Finding |-> Cardinality(S(f))]
  BY DEF FromAnalysis
<1>7. FromAnalysis(r) = [f \in Finding |-> Cardinality(R(f))]
  BY DEF FromAnalysis
<1> HIDE DEF S, R, r
<1>8. \A f \in Finding :
        Cardinality(S(f)) = IF f = Normal(i) THEN Cardinality(R(f)) + 1 ELSE Cardinality(R(f))
  BY <1>4, <1>5
<1>9. More(FromAnalysis(r), Normal(i))
        = [f \in Finding |-> IF f = Normal(i) THEN Cardinality(R(f)) + 1 ELSE Cardinality(R(f))]
  BY <1>1, <1>7 DEF More
<1>10. FromAnalysis(is) = More(FromAnalysis(r), Normal(i))
  BY <1>6, <1>8, <1>9
<1> QED
  BY <1>10 DEF r

LEMMA NothingWeighsNothing == WeightedSum(Tally(FromAnalysis({}))) = 0
<1> DEFINE none == FromAnalysis({})
           t == Tally(none)
<1>1. none \in Bags /\ \A f \in Finding : ~(none[f] > 0)
  BY FromAnalysisIs, FS_EmptySet
<1> HIDE DEF none
<1>2. t \in Tallies
  BY <1>1, TallyIs DEF Tallies
<1>3. ASSUME NEW v \in Severities PROVE t[v] = 0
  <2>1. t[v] = SumFunctionOnSet(none, OfSeverity(v))
    BY <1>1, TallyIs
  <2>2. /\ IsFiniteSet(OfSeverity(v))
        /\ \A f \in OfSeverity(v) : none[f] \in Nat /\ ~(none[f] > 0)
    BY <1>1, PartsAreFinite DEF Bags
  <2>3. ~(SumFunctionOnSet(none, OfSeverity(v)) > 0)
    BY <2>2, SumPositive
  <2>4. t[v] \in Nat
    BY <1>2 DEF Tallies
  <2> HIDE DEF t
  <2> QED
    BY <2>1, <2>3, <2>4
<1> HIDE DEF t
<1>4. \A v \in Severities : Weighted(t)[v] \in Nat /\ ~(Weighted(t)[v] > 0)
  <2> SUFFICES ASSUME NEW v \in Severities PROVE Weighted(t)[v] \in Nat /\ ~(Weighted(t)[v] > 0)
    OBVIOUS
  <2>1. Weighted(t)[v] = t[v] * Weight[v]
    BY <1>2, WeightedIs
  <2>2. Weight[v] \in Nat
    BY FindingsAssumption
  <2>3. t[v] * Weight[v] = 0
    BY <1>3, <2>2, Times
  <2> QED
    BY <2>1, <2>3
<1>5. ~(WeightedSum(t) > 0) /\ WeightedSum(t) \in Nat
  BY <1>2, <1>4, SumPositive, WeightedIs, FindingsAssumption DEF WeightedSum
<1>6. WeightedSum(t) = 0
  BY <1>5
<1> QED
  BY <1>6 DEF t, none

LEMMA OneMoreIssue ==
  ASSUME NEW is \in SUBSET (UNION Analyses), IsFiniteSet(is), NEW i \in is
  PROVE  WeightedSum(Tally(FromAnalysis(is)))
           = WeightedSum(Tally(FromAnalysis(is \ {i}))) + Weight[NormalSeverity(i.sev)]
<1> DEFINE f == Normal(i)
           v == f.sev
           t == Tally(FromAnalysis(is \ {i}))
           u == Tally(FromAnalysis(is))
<1>1. f \in Finding /\ v \in Severities /\ v = NormalSeverity(i.sev)
  <2>1. f \in Finding
    BY NormalIsAFinding
  <2>2. v = NormalSeverity(i.sev)
    BY DEF Normal
  <2> QED
    BY <2>1, <2>2, SeverityOfFinding
<1>2. FromAnalysis(is \ {i}) \in Bags /\ FromAnalysis(is) \in Bags
  <2>1. IsFiniteSet(is \ {i})
    BY FS_RemoveElement
  <2> QED
    BY <2>1, FromAnalysisIs
<1>3. FromAnalysis(is) = More(FromAnalysis(is \ {i}), f)
  BY FromAnalysisAdds
<1>4. u[v] = t[v] + 1 /\ \A s \in Severities : s # v => u[s] = t[s]
  BY <1>1, <1>2, <1>3, TallyMore
<1>5. t \in Tallies /\ u \in Tallies
  BY <1>2, TallyIs DEF Tallies
<1> HIDE DEF f, v, t, u
<1>6. \A s \in Severities : Weighted(t)[s] \in Nat /\ Weighted(u)[s] \in Nat
  BY <1>5, WeightedIs
<1>7. \A s \in Severities \ {v} : Weighted(t)[s] = Weighted(u)[s]
  BY <1>4, <1>5, WeightedIs
<1>8. Weighted(u)[v] = Weighted(t)[v] + Weight[v]
  <2>1. t[v] \in Nat /\ Weight[v] \in Nat
    BY <1>1, <1>5, FindingsAssumption DEF Tallies
  <2>2. (t[v] + 1) * Weight[v] = t[v] * Weight[v] + Weight[v]
    BY <2>1, Times
  <2>3. Weighted(u)[v] = u[v] * Weight[v] /\ Weighted(t)[v] = t[v] * Weight[v]
    BY <1>1, <1>5, WeightedIs
  <2> QED
    BY <1>4, <2>2, <2>3
<1>9. SumFunctionOnSet(Weighted(u), Severities)
        = SumFunctionOnSet(Weighted(t), Severities) + (Weighted(u)[v] - Weighted(t)[v])
  <2>1. IsFiniteSet(Severities)
    BY FindingsAssumption
  <2> DEFINE g == Weighted(u)
             h == Weighted(t)
             S == Severities
  <2>2. v \in S /\ IsFiniteSet(S) /\ (\A s \in S : h[s] \in Nat /\ g[s] \in Nat)
    BY <1>1, <1>6, <2>1
  <2>3. \A s \in S \ {v} : h[s] = g[s]
    BY <1>7
  <2> HIDE DEF g, h, S
  <2>4. SumFunctionOnSet(g, S) = SumFunctionOnSet(h, S) + (g[v] - h[v])
    BY <2>2, <2>3, SumChanges
  <2> QED
    BY <2>4 DEF g, h, S
<1>10. WeightedSum(t) \in Nat /\ Weight[v] \in Nat /\ Weighted(t)[v] \in Nat
  BY <1>1, <1>5, <1>6, WeightedIs, FindingsAssumption
<1>11. WeightedSum(u) = WeightedSum(t) + Weight[v]
  BY <1>8, <1>9, <1>10 DEF WeightedSum
<1> QED
  BY <1>1, <1>11 DEF t, u

\* The weights of an analysis add up to those of the findings it stands for.
LEMMA IssuesWeighTheSame ==
  ASSUME NEW is \in Analyses \cup {{}}
  PROVE  SumFunctionOnSet(WeightOf(is), is) = WeightedSum(Tally(FromAnalysis(is)))
<1>1. is \in SUBSET (UNION Analyses) /\ IsFiniteSet(is)
  BY AnalysisIsFinite
<1> DEFINE w == WeightOf(is)
           C == {s \in SUBSET is : SumFunctionOnSet(w, s) = WeightedSum(Tally(FromAnalysis(s)))}
<1>2. \A i \in is : w[i] = Weight[NormalSeverity(i.sev)] /\ w[i] \in Nat
  BY FindingsAssumption DEF WeightOf, NormalSeverity
<1> HIDE DEF w
<1>3. ASSUME NEW s \in SUBSET is, \A x \in s : s \ {x} \in C PROVE s \in C
  <2>1. IsFiniteSet(s) /\ s \in SUBSET (UNION Analyses)
    BY <1>1, FS_Subset
  <2>2. CASE s = {}
    <3>1. SumFunctionOnSet(w, s) = 0
      BY <2>1, <2>2, SumUnfolds
    <3> QED
      BY <2>2, <3>1, NothingWeighsNothing
  <2>3. CASE s # {}
    <3>1. PICK i \in s : TRUE
      BY <2>3
    <3>2. SumFunctionOnSet(w, s) = w[i] + SumFunctionOnSet(w, s \ {i})
      BY <1>2, <2>1, <3>1, SumRemove
    <3>3. SumFunctionOnSet(w, s \ {i}) = WeightedSum(Tally(FromAnalysis(s \ {i})))
      BY <1>3, <3>1
    <3>4. WeightedSum(Tally(FromAnalysis(s)))
            = WeightedSum(Tally(FromAnalysis(s \ {i}))) + Weight[NormalSeverity(i.sev)]
      BY <2>1, <3>1, OneMoreIssue
    <3>5. w[i] = Weight[NormalSeverity(i.sev)] /\ w[i] \in Nat
      BY <1>2, <3>1
    <3>6. WeightedSum(Tally(FromAnalysis(s \ {i}))) \in Nat
      <4>1. IsFiniteSet(s \ {i})
        BY <2>1, FS_RemoveElement
      <4>2. Tally(FromAnalysis(s \ {i})) \in Tallies
        BY <4>1, FromAnalysisIs, TallyIs DEF Tallies
      <4> QED
        BY <4>2, WeightedIs
    <3>7. SumFunctionOnSet(w, s) = WeightedSum(Tally(FromAnalysis(s)))
      BY <3>2, <3>3, <3>4, <3>5, <3>6
    <3> QED
      BY <3>7
  <2> QED
    BY <2>2, <2>3
<1>4. SUBSET is \subseteq C
  <2> HIDE DEF C
  <2> QED
    BY <1>1, <1>3, SubsetInduction
<1> QED
  BY <1>4 DEF w

\* The risk of an analysis is the score of its findings.
LEMMA RiskIsScore ==
  ASSUME NEW is \in Analyses \cup {{}}
  PROVE  RiskOf(is) = CalculateCompositeScore(Tally(FromAnalysis(is)))
<1> DEFINE sum == WeightedSum(Tally(FromAnalysis(is)))
           max == MaxScore
<1>1. RiskOf(is) = Min({max, sum})
  <2>1. SumFunction([i \in is |-> Weight[NormalSeverity(i.sev)]]) = SumFunctionOnSet(WeightOf(is), is)
    BY DEF SumFunction, WeightOf
  <2> QED
    BY <2>1, IssuesWeighTheSame DEF RiskOf
<1>2. Tally(FromAnalysis(is)) \in Tallies
  BY AnalysisIsFinite, FromAnalysisIs, TallyIs DEF Tallies
<1>3. sum \in Nat /\ max \in Nat
  BY <1>2, WeightedIs, FindingsAssumption
<1>4. CalculateCompositeScore(Tally(FromAnalysis(is))) = IF sum > max THEN max ELSE sum
  BY <1>2, WeightedIs
<1> HIDE DEF sum, max
<1>5. Min({max, sum}) = IF sum > max THEN max ELSE sum
  BY <1>3 DEF Min
<1> QED
  BY <1>1, <1>4, <1>5

\* Findings that hold all of an analysis score at least its risk.
LEMMA HeldRiskIsScored ==
  ASSUME NEW is \in Analyses \cup {{}}, NEW bag \in Bags,
         \A f \in Finding : bag[f] >= FromAnalysis(is)[f]
  PROVE  CalculateCompositeScore(Tally(bag)) >= RiskOf(is)
<1> DEFINE new == FromAnalysis(is)
<1>1. new \in Bags
  BY AnalysisIsFinite, FromAnalysisIs
<1>2. RiskOf(is) = CalculateCompositeScore(Tally(new))
  BY RiskIsScore
<1> HIDE DEF new
<1>3. \A f \in Finding : new[f] <= bag[f]
  BY <1>1 DEF Bags, new
<1>4. Tally(new) \in Tallies /\ Tally(bag) \in Tallies
  BY <1>1, TallyIs DEF Tallies
<1>5. \A v \in Severities : Tally(new)[v] <= Tally(bag)[v]
  BY <1>1, <1>3, TallyMonotone
<1>6. CalculateCompositeScore(Tally(new)) <= CalculateCompositeScore(Tally(bag))
  BY <1>4, <1>5, ScoreMonotone
<1>7. /\ CalculateCompositeScore(Tally(new)) \in 0..MaxScore
      /\ CalculateCompositeScore(Tally(bag)) \in 0..MaxScore /\ MaxScore \in Nat
  BY <1>4, ScoreInRange, FindingsAssumption
<1> QED
  BY <1>2, <1>6, <1>7
-----------------------------------------------------------------------------
(***************************************************************************)
(* The invariant: what the attempts, the rows and the findings of an audit  *)
(* have to do with each other, part by part.                               *)
(***************************************************************************)
Early == {"none", "linked"}

\* What an attempt can be at, and what is still to come.
ShapeOK(t) ==
  /\ t.act = "none" => t = Idle
  /\ t.act = "load" => t.at \in {"begin", "copying", "ended"}
  /\ t.act = "generate" => t.at \in {"begin", "scanning", "insert", "ended"}
  /\ t.act = "score" => t.at \in {"begin", "counted", "ended"}
  /\ t.act = "complete" => t.at \in {"begin", "counted", "stored", "ended"}
  /\ t.at = "insert" => t.cur \in Finding
  /\ t.at \notin {"copying", "scanning", "insert"} => t.todo = NoFindings

\* The phases in which an attempt of an activity may be at work.
OrderOK(t, ph) ==
  /\ t.act = "load" => ph \in Activities \cup {"end"}
  /\ t.act = "generate" => ph \in {"generate", "score", "complete", "end"}
  /\ t.act = "score" => ph \in {"score", "complete", "end"}
  /\ t.act = "complete" => ph \in {"complete", "end"}

\* Attempts and phases agree: the awaited attempt is of the activity the
\* workflow is at, and the others only exist where one outlived its deadline.
FlowOf(a) ==
  /\ \A s \in Slots : ShapeOK(attempt[a][s]) /\ OrderOK(attempt[a][s], phase[a])
  /\ live[a] # NoSlot => /\ phase[a] \in Activities
                         /\ attempt[a][live[a]].act = phase[a]
  /\ \A s \in Slots : attempt[a][s].act # "none" /\ live[a] # s => a \in overlapped
  /\ phase[a] \in Early =>
       /\ a \notin {created[k] : k \in DOMAIN created}
       /\ row[a].status = "none" /\ table[a] = NoFindings /\ a \notin retried
  /\ phase[a] = "none" => row[a] = NoRow
  /\ row[a].status = "completed" => phase[a] \in {"complete", "end"}
  /\ row[a].type = "full" => row[a].prev = None /\ phase[a] # "load"

\* The audit this one builds on was completed before.
LinkOf(a) ==
  row[a].prev # None => /\ row[a].prev # a
                        /\ phase[row[a].prev] \in {"complete", "end"}
                        /\ row[a].type = "incremental"

\* GenerateFindings has returned, even if the workflow gave up afterwards.
Passed(a) ==
  \/ phase[a] \in {"score", "complete"} \/ row[a].status = "completed"
  \/ \E s \in Slots : attempt[a][s].act \in {"score", "complete"}

Pending(t, f) == t.todo[f] + (IF t.at = "insert" /\ t.cur = f THEN 1 ELSE 0)

\* Every issue is to come or has its finding; in a full audit one of its own.
OnRecord(t, type, bag) ==
  t.act = "generate" /\ t.at # "begin" =>
    \A f \in Finding :
      /\ type = "full" => bag[f] + Pending(t, f) >= FromAnalysis(t.src)[f]
      /\ FromAnalysis(t.src)[f] > 0 => Pending(t, f) > 0 \/ Place(f) \in Held(bag)

AllOnRecord(is, type, bag) ==
  \A f \in Finding :
    /\ type = "full" => bag[f] >= FromAnalysis(is)[f]
    /\ FromAnalysis(is)[f] > 0 => Place(f) \in Held(bag)

RecordedOf(a) ==
  /\ \A s \in Slots : OnRecord(attempt[a][s], row[a].type, table[a])
  /\ Passed(a) => AllOnRecord(reported[a], row[a].type, table[a])

\* Every finding of the previous audit is to come or was copied.
Copies(t, old, bag) ==
  t.act = "load" /\ t.at # "begin" =>
    \A f \in Finding : old[f] > 0 => t.todo[f] > 0 \/ bag[f] > 0

BaselineOf(a) ==
  row[a].prev # None /\ row[a].prev \notin overlapped =>
    /\ \A s \in Slots : Copies(attempt[a][s], table[row[a].prev], table[a])
    /\ phase[a] \in {"generate", "score", "complete"} =>
         \A f \in Finding : table[row[a].prev][f] > 0 => table[a][f] > 0

\* CalculateRiskScore has stored a score, even if the workflow gave up since.
Scored(a) ==
  \/ phase[a] = "complete" \/ row[a].status = "completed"
  \/ \E s \in Slots : LET t == attempt[a][s] IN
       t.act = "complete" \/ (t.act = "score" /\ t.at = "ended")

ScoreOf(a) ==
  row[a].type = "full" =>
    /\ \A s \in Slots : attempt[a][s].at = "counted" =>
         CalculateCompositeScore(attempt[a][s].seen) >= RiskOf(reported[a])
    /\ Scored(a) => row[a].score >= RiskOf(reported[a])

Matches(r, bag) ==
  r.counts = Tally(bag) /\ r.score = CalculateCompositeScore(Tally(bag))

ReportOf(a) ==
  a \notin overlapped =>
    /\ \A s \in Slots :
         /\ attempt[a][s].at = "counted" => attempt[a][s].seen = Tally(table[a])
         /\ attempt[a][s].act = "complete" /\ attempt[a][s].at \in {"stored", "ended"} =>
              Matches(row[a], table[a])
    /\ row[a].status = "completed" => Matches(row[a], table[a])

HasLoaded(a) == phase[a] \in {"generate", "score", "complete"} \/ row[a].status = "completed"

Allowed(n) == IF n = 0 THEN 1 ELSE n

GapsOf(a) ==
  a \notin overlapped /\ row[a].type = "incremental" =>
    /\ HasLoaded(a) =>
         /\ \A p \in Places : At(table[a], p) <= Allowed(At(carried[a], p))
         /\ \A f \in Finding : table[a][f] <= Allowed(carried[a][f])
    /\ \A s \in Slots : LET t == attempt[a][s] IN
         t.at = "insert" => At(table[a], Place(t.cur)) = 0

Old(a) == IF row[a].prev = None THEN NoFindings ELSE table[row[a].prev]

\* A full audit's attempt accounts for its issues one by one.
ScansExactly(t, bag) ==
  t.act = "generate" =>
    IF t.at = "begin" THEN bag = NoFindings
    ELSE \A f \in Finding : bag[f] + Pending(t, f) = FromAnalysis(t.src)[f]

\* An incremental audit's attempts copy what was there, and add what is new.
CopiesExactly(t, old, bag) ==
  t.act = "load" =>
    IF t.at = "begin" THEN bag = NoFindings
    ELSE \A f \in Finding : bag[f] + t.todo[f] = old[f]

OnlyNew(is, old, bag) ==
  \A f \in Finding :
    bag[f] > 0 => Place(f) \in Held(old) \/ FromAnalysis(is)[f] > 0

AddsOnlyNew(t, old, bag) ==
  t.act = "generate" =>
    IF t.at = "begin" THEN bag = old
    ELSE /\ \A f \in Finding : Pending(t, f) > 0 => FromAnalysis(t.src)[f] > 0
         /\ OnlyNew(t.src, old, bag)

ExactFull(a) ==
  /\ phase[a] = "generate" /\ live[a] = NoSlot => table[a] = NoFindings
  /\ \A s \in Slots : ScansExactly(attempt[a][s], table[a])
  /\ a \in Generated => table[a] = FromAnalysis(reported[a])

ExactIncremental(a) ==
  /\ phase[a] = "load" /\ live[a] = NoSlot => table[a] = NoFindings
  /\ \A s \in Slots : CopiesExactly(attempt[a][s], Old(a), table[a])
  /\ HasLoaded(a) =>
       /\ carried[a] = Old(a)
       /\ \A f \in Finding : Place(f) \in Held(Old(a)) => table[a][f] = Old(a)[f]
  /\ phase[a] = "generate" /\ live[a] = NoSlot => table[a] = Old(a)
  /\ \A s \in Slots : AddsOnlyNew(attempt[a][s], Old(a), table[a])
  /\ a \in Generated => OnlyNew(reported[a], Old(a), table[a])

\* The findings of an audit that lost no attempt, nor did the one it builds on.
ExactOf(a) ==
  a \notin retried /\ row[a].prev \notin retried =>
    /\ row[a].type = "full" => ExactFull(a)
    /\ row[a].type = "incremental" => ExactIncremental(a)

Inv ==
  /\ TypeOK
  /\ \A a \in Audits : /\ FlowOf(a) /\ LinkOf(a) /\ RecordedOf(a) /\ BaselineOf(a)
                       /\ ScoreOf(a) /\ ReportOf(a) /\ GapsOf(a) /\ ExactOf(a)

-----------------------------------------------------------------------------
(***************************************************************************)
(* The previous audit.                                                     *)
(***************************************************************************)
LEMMA GreatestIs ==
  ASSUME NEW n \in Nat, NEW S \in SUBSET (1..n), S # {}
  PROVE  Max(S) \in S
<1> DEFINE D == {k \in Nat : k <= n /\ n - k \in S}
<1>1. PICK x \in S : TRUE
  OBVIOUS
<1>2. D \in SUBSET Nat /\ D # {}
  <2>1. n - x \in Nat /\ n - x <= n /\ n - (n - x) = x
    OBVIOUS
  <2> QED
    BY <1>1, <2>1
<1>3. PICK d \in D : \A e \in D : d <= e
  <2> HIDE DEF D
  <2> QED
    BY <1>2, Least
<1>4. ASSUME NEW y \in S PROVE n - d >= y
  <2>1. y \in 1..n
    OBVIOUS
  <2>2. n - y \in Nat /\ n - y <= n /\ n - (n - y) = y
    BY <2>1
  <2>3. n - y \in D
    BY <2>2
  <2>4. d <= n - y /\ d \in Nat
    BY <1>3, <2>3
  <2> QED
    BY <2>1, <2>4
<1>5. n - d \in S /\ \A y \in S : n - d >= y
  BY <1>3, <1>4
<1> QED
  BY <1>5 DEF Max

LEMMA PreviousIs ==
  ASSUME TypeOK, GetPreviousCompletedAudit # None
  PROVE  \E k \in DOMAIN created :
           /\ GetPreviousCompletedAudit = created[k] /\ created[k] \in Audits
           /\ row[created[k]].status = "completed"
<1> DEFINE done == {k \in DOMAIN created : row[created[k]].status = "completed"}
<1>1. GetPreviousCompletedAudit = IF done = {} THEN None ELSE created[Max(done)]
  BY DEF GetPreviousCompletedAudit
<1>2. done # {} /\ GetPreviousCompletedAudit = created[Max(done)]
  BY <1>1
<1>3. created \in Seq(Audits)
  BY DEF TypeOK
<1>4. Len(created) \in Nat /\ DOMAIN created = 1..Len(created)
      /\ \A k \in DOMAIN created : created[k] \in Audits
  BY <1>3
<1>5. done \in SUBSET (1..Len(created))
  BY <1>4
<1>6. Max(done) \in done
  <2> HIDE DEF done
  <2> QED
    BY <1>2, <1>4, <1>5, GreatestIs
<1> QED
  BY <1>2, <1>4, <1>6

(***************************************************************************)
(* Types.                                                                  *)
(***************************************************************************)
Counters == [Severities -> Nat]

LEMMA SomeAttempts ==
  /\ NoFindings \in Bags /\ NoTally \in Counters
  /\ Idle \in Attempt
  /\ NoRow \in AuditJob
<1>1. NoFindings \in Bags /\ NoTally \in Counters
  BY DEF NoFindings, NoTally, Bags, Counters
<1>2. Idle \in Attempt
  BY <1>1 DEF Idle, Attempt, Bags, Counters, Positions, Activities
<1>3. NoRow \in AuditJob
  BY <1>1, FindingsAssumption DEF NoRow, AuditJob, Counters
<1> QED
  BY <1>1, <1>2, <1>3

\* The types of the fields of an attempt.
LEMMA AttemptIs ==
  ASSUME NEW t \in Attempt
  PROVE  /\ t.act \in Activities \cup {"none"} /\ t.at \in Positions
         /\ t.todo \in Bags /\ t.cur \in Finding \cup {None}
         /\ t.src \in Analyses \cup {{}} /\ t.seen \in Counters
BY DEF Attempt, Bags, Counters

\* An attempt that moves, or takes work off its list, is an attempt and only
\* differs in what changed.
LEMMA AttemptMoves ==
  ASSUME NEW t \in Attempt, NEW x \in Positions
  PROVE  LET n == [t EXCEPT !.at = x] IN
         /\ n \in Attempt /\ n.at = x /\ n.act = t.act /\ n.todo = t.todo
         /\ n.cur = t.cur /\ n.src = t.src /\ n.seen = t.seen
BY DEF Attempt

LEMMA AttemptTakes ==
  ASSUME NEW t \in Attempt, NEW bag \in Bags
  PROVE  LET n == [t EXCEPT !.todo = bag] IN
         /\ n \in Attempt /\ n.at = t.at /\ n.act = t.act /\ n.todo = bag
         /\ n.cur = t.cur /\ n.src = t.src /\ n.seen = t.seen
BY DEF Attempt, Bags

\* One finding less to do.
LEMMA DoneIs ==
  ASSUME NEW bag \in Bags, NEW f \in Finding, bag[f] > 0
  PROVE  /\ Done(bag, f) \in Bags
         /\ Done(bag, f)[f] = bag[f] - 1
         /\ \A g \in Finding : g # f => Done(bag, f)[g] = bag[g]
BY DEF Done, Bags

-----------------------------------------------------------------------------
(***************************************************************************)
(* The steps of an attempt, field by field.                                *)
(***************************************************************************)
Attempts == [Audits -> [Slots -> Attempt]]

\* Of all the attempts only the one in slot s of audit a changes.
OnlyOne(a, s) ==
  /\ attempt' \in Attempts
  /\ \A b \in Audits, r \in Slots : b # a \/ r # s => attempt'[b][r] = attempt[b][r]

Quiet == UNCHANGED <<created, phase, live, retrying, lost, story>>

LEMMA BecomesIs ==
  ASSUME TypeOK, NEW a \in Audits, NEW s \in Slots, NEW n \in Attempt, Becomes(a, s, n)
  PROVE  OnlyOne(a, s) /\ Quiet /\ attempt'[a][s] = n
<1>1. attempt \in Attempts
  BY DEF TypeOK, Attempts
<1>2. attempt' = [attempt EXCEPT ![a][s] = n]
  BY DEF Becomes
<1>3. attempt' \in Attempts /\ attempt'[a][s] = n
  BY <1>1, <1>2 DEF Attempts
<1>4. \A b \in Audits, r \in Slots : b # a \/ r # s => attempt'[b][r] = attempt[b][r]
  BY <1>1, <1>2 DEF Attempts
<1> QED
  BY <1>3, <1>4 DEF OnlyOne, Quiet, Becomes

LEMMA AuditTypes ==
  ASSUME TypeOK, NEW a \in Audits
  PROVE  /\ table[a] \in Bags /\ row[a] \in AuditJob
         /\ row[a].prev \in Audits \cup {None}
         /\ row[a].prev # None => table[row[a].prev] \in Bags
         /\ live[a] \in Slots \cup {NoSlot}
         /\ row[a].counts \in Counters /\ row[a].score \in 0..MaxScore
         /\ reported[a] \in Analyses \cup {{}}
         /\ carried[a] \in Bags
         /\ phase[a] \in Activities \cup {"none", "linked", "end"}
         /\ row[a].type \in {"full", "incremental"}
BY DEF TypeOK, Bags, AuditJob, Counters

LEMMA TypesAre ==
  ASSUME TypeOK, NEW a \in Audits, NEW s \in Slots
  PROVE  /\ attempt[a][s] \in Attempt /\ table[a] \in Bags /\ row[a] \in AuditJob
         /\ row[a].prev # None => table[row[a].prev] \in Bags
BY AuditTypes DEF TypeOK

\* Nothing changes but the audit's attempt s, which moves to x.
Moved(a, s, x) ==
  LET t == attempt[a][s]
      n == attempt'[a][s]
  IN  /\ OnlyOne(a, s) /\ Quiet
      /\ n.act = t.act /\ n.at = x /\ n.src = t.src
      /\ x \in Positions

LEMMA GetFindingsIs ==
  ASSUME TypeOK, NEW a \in Audits, NEW s \in Slots, GetFindingsForAudit(a, s)
  PROVE  LET t == attempt[a][s]
             n == attempt'[a][s]
         IN  /\ row' = row /\ table' = table
             /\ t.act = "load" /\ t.at = "begin"
             /\ n.seen = t.seen /\ n.cur = t.cur
             /\ \/ row[a].prev = None /\ Moved(a, s, "ended") /\ n.todo = t.todo
                \/ /\ row[a].prev # None /\ Moved(a, s, "copying")
                   /\ n.todo = table[row[a].prev]
<1> DEFINE t == attempt[a][s]
<1>1. t \in Attempt
  BY TypesAre
<1>2. t.act = "load" /\ t.at = "begin" /\ row' = row /\ table' = table
  BY DEF GetFindingsForAudit, Doing
<1>3. CASE row[a].prev = None
  <2> DEFINE m == [t EXCEPT !.at = "ended"]
  <2>1. /\ m \in Attempt /\ m.at = "ended" /\ m.act = t.act /\ m.todo = t.todo
        /\ m.cur = t.cur /\ m.src = t.src /\ m.seen = t.seen
    <3>1. "ended" \in Positions
      BY DEF Positions
    <3> HIDE DEF t
    <3> QED
      BY <1>1, <3>1, AttemptMoves
  <2>2. Becomes(a, s, m)
    BY <1>3 DEF GetFindingsForAudit
  <2> HIDE DEF m
  <2>3. OnlyOne(a, s) /\ Quiet /\ attempt'[a][s] = m
    BY <2>1, <2>2, BecomesIs
  <2> QED
    BY <1>2, <1>3, <2>1, <2>3 DEF Moved, Positions
<1>4. CASE row[a].prev # None
  <2> DEFINE m == [t EXCEPT !.at = "copying", !.todo = table[row[a].prev]]
  <2>1. /\ m \in Attempt /\ m.at = "copying" /\ m.act = t.act /\ m.todo = table[row[a].prev]
        /\ m.cur = t.cur /\ m.src = t.src /\ m.seen = t.seen
    <3>1. "copying" \in Positions
      BY DEF Positions
    <3> DEFINE bag == table[row[a].prev]
    <3>2. bag \in Bags
      BY <1>4, TypesAre
    <3> HIDE DEF t, bag
    <3>3. LET c == [t EXCEPT !.at = "copying", !.todo = bag] IN
          /\ c \in Attempt /\ c.at = "copying" /\ c.act = t.act /\ c.todo = bag
          /\ c.cur = t.cur /\ c.src = t.src /\ c.seen = t.seen
      BY <1>1, <3>1, <3>2 DEF Attempt, Bags
    <3> QED
      BY <3>3 DEF bag
  <2>2. Becomes(a, s, m)
    BY <1>4 DEF GetFindingsForAudit
  <2> HIDE DEF m
  <2>3. OnlyOne(a, s) /\ Quiet /\ attempt'[a][s] = m
    BY <2>1, <2>2, BecomesIs
  <2> QED
    BY <1>2, <1>4, <2>1, <2>3 DEF Moved, Positions
<1> QED
  BY <1>3, <1>4

\* The table of findings gets one more for an audit.
OneMore(a, f) ==
  /\ table' \in [Audits -> Bags] /\ table'[a] = More(table[a], f)
  /\ \A b \in Audits : b # a => table'[b] = table[b]

LEMMA OneMoreIs ==
  ASSUME TypeOK, NEW a \in Audits, NEW f \in Finding,
         table' = [table EXCEPT ![a][f] = @ + 1]
  PROVE  OneMore(a, f)
<1>1. table \in [Audits -> Bags]
  BY DEF TypeOK, Bags
<1>2. table[a] \in Bags /\ More(table[a], f) \in Bags
  BY <1>1, MoreIs
<1>3. table' = [table EXCEPT ![a] = More(table[a], f)]
  BY DEF More
<1> QED
  BY <1>1, <1>2, <1>3 DEF OneMore

LEMMA CopyFindingIs ==
  ASSUME TypeOK, NEW a \in Audits, NEW s \in Slots, CopyFinding(a, s)
  PROVE  LET t == attempt[a][s]
             n == attempt'[a][s]
         IN  /\ row' = row /\ t.act = "load" /\ t.at = "copying"
             /\ n.seen = t.seen /\ n.cur = t.cur /\ Moved(a, s, "copying")
             /\ \E f \in Finding :
                  t.todo[f] > 0 /\ n.todo = Done(t.todo, f) /\ OneMore(a, f)
<1> DEFINE t == attempt[a][s]
<1>1. t \in Attempt /\ t.todo \in Bags
  BY TypesAre, AttemptIs
<1>2. t.act = "load" /\ t.at = "copying" /\ row' = row
  BY DEF CopyFinding, Doing
<1>3. PICK f \in Finding : /\ t.todo[f] > 0
                           /\ table' = [table EXCEPT ![a][f] = @ + 1]
                           /\ Becomes(a, s, [t EXCEPT !.todo = Done(@, f)])
  BY DEF CopyFinding
<1> DEFINE bag == Done(t.todo, f)
           m == [t EXCEPT !.todo = bag]
<1>4. bag \in Bags
  BY <1>1, <1>3, DoneIs
<1>5. Becomes(a, s, m)
  BY <1>3
<1>6. /\ m \in Attempt /\ m.at = t.at /\ m.act = t.act /\ m.todo = bag
      /\ m.cur = t.cur /\ m.src = t.src /\ m.seen = t.seen
  <2> HIDE DEF t, bag
  <2> QED
    BY <1>1, <1>4, AttemptTakes
<1> HIDE DEF m
<1>7. OnlyOne(a, s) /\ Quiet /\ attempt'[a][s] = m
  BY <1>5, <1>6, BecomesIs
<1>8. OneMore(a, f)
  BY <1>3, OneMoreIs
<1>9. Moved(a, s, "copying")
  BY <1>2, <1>6, <1>7 DEF Moved, Positions
<1> QED
  BY <1>2, <1>3, <1>6, <1>7, <1>8, <1>9

LEMMA GetAnalysisIs ==
  ASSUME TypeOK, NEW a \in Audits, NEW s \in Slots, GetAnalysisResults(a, s)
  PROVE  LET t == attempt[a][s]
             n == attempt'[a][s]
         IN  /\ row' = row /\ table' = table /\ OnlyOne(a, s) /\ Quiet
             /\ t.act = "generate" /\ t.at = "begin" /\ n.act = t.act
             /\ n.seen = t.seen /\ n.cur = t.cur /\ n.at = "scanning"
             /\ n.src \in Analyses /\ n.todo = FromAnalysis(n.src)
<1> DEFINE t == attempt[a][s]
<1>1. t \in Attempt
  BY TypesAre
<1>2. t.act = "generate" /\ t.at = "begin" /\ row' = row /\ table' = table
  BY DEF GetAnalysisResults, Doing
<1>3. PICK is \in Analyses :
        Becomes(a, s, [t EXCEPT !.at = "scanning", !.src = is, !.todo = FromAnalysis(is)])
  BY DEF GetAnalysisResults
<1> DEFINE bag == FromAnalysis(is)
           m == [t EXCEPT !.at = "scanning", !.src = is, !.todo = bag]
<1>4. bag \in Bags
  BY <1>3, AnalysisIsFinite, FromAnalysisIs
<1>5. Becomes(a, s, m)
  BY <1>3
<1>6. /\ m \in Attempt /\ m.at = "scanning" /\ m.act = t.act /\ m.todo = bag
      /\ m.cur = t.cur /\ m.src = is /\ m.seen = t.seen
  <2>1. "scanning" \in Positions /\ is \in Analyses \cup {{}}
    BY DEF Positions
  <2> HIDE DEF t, bag
  <2> QED
    BY <1>1, <1>4, <2>1 DEF Attempt, Bags
<1> HIDE DEF m
<1>7. OnlyOne(a, s) /\ Quiet /\ attempt'[a][s] = m
  BY <1>5, <1>6, BecomesIs
<1> QED
  BY <1>2, <1>6, <1>7

LEMMA PlaceIsTaken ==
  ASSUME TypeOK, NEW a \in Audits, NEW f \in Finding
  PROVE  FindingExistsByLocation(a, f) <=> Place(f) \in Held(table[a])
<1>1. table[a] \in Bags
  BY DEF TypeOK, Bags
<1> QED
  BY <1>1, AtIs DEF FindingExistsByLocation

LEMMA NextIssueIs ==
  ASSUME TypeOK, NEW a \in Audits, NEW s \in Slots, NextIssue(a, s)
  PROVE  LET t == attempt[a][s]
             n == attempt'[a][s]
         IN  /\ row' = row /\ table' = table
             /\ t.act = "generate" /\ t.at = "scanning" /\ n.seen = t.seen
             /\ \E f \in Finding :
                  /\ t.todo[f] > 0 /\ n.todo = Done(t.todo, f)
                  /\ \/ /\ row[a].type = "incremental" /\ Place(f) \in Held(table[a])
                        /\ Moved(a, s, "scanning") /\ n.cur = t.cur
                     \/ /\ row[a].type # "incremental" \/ Place(f) \notin Held(table[a])
                        /\ Moved(a, s, "insert") /\ n.cur = f
<1> DEFINE t == attempt[a][s]
<1>1. t \in Attempt /\ t.todo \in Bags
  BY TypesAre, AttemptIs
<1>2. t.act = "generate" /\ t.at = "scanning" /\ row' = row /\ table' = table
  BY DEF NextIssue, Doing
<1>3. PICK f \in Finding :
        /\ t.todo[f] > 0
        /\ Becomes(a, s,
            IF row[a].type = "incremental" /\ FindingExistsByLocation(a, f)
              THEN [t EXCEPT !.todo = Done(@, f)]
              ELSE [t EXCEPT !.todo = Done(@, f), !.at = "insert", !.cur = f])
  BY DEF NextIssue
<1> DEFINE bag == Done(t.todo, f)
<1>4. bag \in Bags
  BY <1>1, <1>3, DoneIs
<1>5. CASE row[a].type = "incremental" /\ FindingExistsByLocation(a, f)
  <2> DEFINE m == [t EXCEPT !.todo = bag]
  <2>1. Becomes(a, s, m)
    BY <1>3, <1>5
  <2>2. /\ m \in Attempt /\ m.at = t.at /\ m.act = t.act /\ m.todo = bag
        /\ m.cur = t.cur /\ m.src = t.src /\ m.seen = t.seen
    <3> HIDE DEF t, bag
    <3> QED
      BY <1>1, <1>4, AttemptTakes
  <2> HIDE DEF m
  <2>3. OnlyOne(a, s) /\ Quiet /\ attempt'[a][s] = m
    BY <2>1, <2>2, BecomesIs
  <2>4. Moved(a, s, "scanning")
    BY <1>2, <2>2, <2>3 DEF Moved, Positions
  <2>5. Place(f) \in Held(table[a])
    BY <1>5, PlaceIsTaken
  <2> QED
    BY <1>2, <1>3, <1>5, <2>2, <2>3, <2>4, <2>5
<1>6. CASE ~(row[a].type = "incremental" /\ FindingExistsByLocation(a, f))
  <2> DEFINE m == [t EXCEPT !.todo = bag, !.at = "insert", !.cur = f]
  <2>1. Becomes(a, s, m)
    BY <1>3, <1>6
  <2>2. /\ m \in Attempt /\ m.at = "insert" /\ m.act = t.act /\ m.todo = bag
        /\ m.cur = f /\ m.src = t.src /\ m.seen = t.seen
    <3>1. "insert" \in Positions /\ f \in Finding \cup {None}
      BY DEF Positions
    <3> HIDE DEF t, bag
    <3> QED
      BY <1>1, <1>4, <3>1 DEF Attempt, Bags
  <2> HIDE DEF m
  <2>3. OnlyOne(a, s) /\ Quiet /\ attempt'[a][s] = m
    BY <2>1, <2>2, BecomesIs
  <2>4. Moved(a, s, "insert")
    BY <1>2, <2>2, <2>3 DEF Moved, Positions
  <2>5. row[a].type # "incremental" \/ Place(f) \notin Held(table[a])
    BY <1>6, PlaceIsTaken
  <2> QED
    BY <1>2, <1>3, <2>2, <2>3, <2>4, <2>5
<1> QED
  BY <1>5, <1>6

LEMMA CreateFindingIs ==
  ASSUME TypeOK, NEW a \in Audits, NEW s \in Slots, ShapeOK(attempt[a][s]),
         CreateFinding(a, s)
  PROVE  LET t == attempt[a][s]
             n == attempt'[a][s]
         IN  /\ row' = row /\ t.act = "generate" /\ t.at = "insert" /\ t.cur \in Finding
             /\ n.seen = t.seen /\ n.todo = t.todo /\ Moved(a, s, "scanning")
             /\ OneMore(a, t.cur)
<1> DEFINE t == attempt[a][s]
           m == [t EXCEPT !.at = "scanning", !.cur = None]
<1>1. t \in Attempt
  BY TypesAre
<1>2. t.act = "generate" /\ t.at = "insert" /\ row' = row
  BY DEF CreateFinding, Doing
<1>3. t.cur \in Finding
  BY <1>2 DEF ShapeOK
<1>4. Becomes(a, s, m)
  BY DEF CreateFinding
<1>5. /\ m \in Attempt /\ m.at = "scanning" /\ m.act = t.act /\ m.todo = t.todo
      /\ m.cur = None /\ m.src = t.src /\ m.seen = t.seen
  <2>1. "scanning" \in Positions /\ None \in Finding \cup {None}
    BY DEF Positions
  <2> HIDE DEF t
  <2> QED
    BY <1>1, <2>1 DEF Attempt
<1> HIDE DEF m
<1>6. OnlyOne(a, s) /\ Quiet /\ attempt'[a][s] = m
  BY <1>4, <1>5, BecomesIs
<1>7. OneMore(a, t.cur)
  BY <1>3, OneMoreIs DEF CreateFinding
<1>8. Moved(a, s, "scanning")
  BY <1>5, <1>6 DEF Moved, Positions
<1> QED
  BY <1>2, <1>3, <1>5, <1>6, <1>7, <1>8

LEMMA ListExhaustedIs ==
  ASSUME TypeOK, NEW a \in Audits, NEW s \in Slots, ListExhausted(a, s)
  PROVE  LET t == attempt[a][s]
             n == attempt'[a][s]
         IN  /\ row' = row /\ table' = table /\ t.at \in {"copying", "scanning"}
             /\ t.todo = NoFindings /\ Moved(a, s, "ended")
             /\ n.seen = t.seen /\ n.todo = t.todo /\ n.cur = t.cur
<1> DEFINE t == attempt[a][s]
           m == [t EXCEPT !.at = "ended"]
<1>1. t \in Attempt
  BY TypesAre
<1>2. t.at \in {"copying", "scanning"} /\ t.todo = NoFindings /\ row' = row /\ table' = table
  BY DEF ListExhausted
<1>3. Becomes(a, s, m)
  BY DEF ListExhausted
<1>4. /\ m \in Attempt /\ m.at = "ended" /\ m.act = t.act /\ m.todo = t.todo
      /\ m.cur = t.cur /\ m.src = t.src /\ m.seen = t.seen
  <2>1. "ended" \in Positions
    BY DEF Positions
  <2> HIDE DEF t
  <2> QED
    BY <1>1, <2>1, AttemptMoves
<1> HIDE DEF m
<1>5. OnlyOne(a, s) /\ Quiet /\ attempt'[a][s] = m
  BY <1>3, <1>4, BecomesIs
<1>6. Moved(a, s, "ended")
  BY <1>4, <1>5 DEF Moved, Positions
<1> QED
  BY <1>2, <1>4, <1>5, <1>6

LEMMA CountFindingsIs ==
  ASSUME TypeOK, NEW a \in Audits, NEW s \in Slots, CountFindingsBySeverity(a, s)
  PROVE  LET t == attempt[a][s]
             n == attempt'[a][s]
         IN  /\ row' = row /\ table' = table /\ t.at = "begin"
             /\ t.act \in {"score", "complete"} /\ Moved(a, s, "counted")
             /\ n.seen = Tally(table[a]) /\ n.todo = t.todo /\ n.cur = t.cur
<1> DEFINE t == attempt[a][s]
           c == Tally(table[a])
           m == [t EXCEPT !.at = "counted", !.seen = c]
<1>1. t \in Attempt /\ c \in Counters
  BY TypesAre, TallyIs DEF Counters
<1>2. t.act \in {"score", "complete"} /\ t.at = "begin" /\ row' = row /\ table' = table
  BY DEF CountFindingsBySeverity
<1>3. Becomes(a, s, m)
  BY DEF CountFindingsBySeverity
<1>4. /\ m \in Attempt /\ m.at = "counted" /\ m.act = t.act /\ m.todo = t.todo
      /\ m.cur = t.cur /\ m.src = t.src /\ m.seen = c
  <2>1. "counted" \in Positions
    BY DEF Positions
  <2> HIDE DEF t, c
  <2> QED
    BY <1>1, <2>1 DEF Attempt, Counters
<1> HIDE DEF m
<1>5. OnlyOne(a, s) /\ Quiet /\ attempt'[a][s] = m
  BY <1>3, <1>4, BecomesIs
<1>6. Moved(a, s, "counted")
  BY <1>4, <1>5 DEF Moved, Positions
<1> QED
  BY <1>2, <1>4, <1>5, <1>6

\* Of all the rows only that of audit a changes.
OnlyRow(a) ==
  /\ row' \in [Audits -> AuditJob]
  /\ \A b \in Audits : b # a => row'[b] = row[b]

LEMMA RowBecomes ==
  ASSUME TypeOK, NEW a \in Audits, NEW r \in AuditJob, row' = [row EXCEPT ![a] = r]
  PROVE  OnlyRow(a) /\ row'[a] = r
<1>1. row \in [Audits -> AuditJob]
  BY DEF TypeOK
<1> QED
  BY <1>1 DEF OnlyRow

LEMMA UpdateProgressIs ==
  ASSUME TypeOK, NEW a \in Audits, NEW s \in Slots, UpdateAuditProgress(a, s),
         ShapeOK(attempt[a][s])
  PROVE  LET t == attempt[a][s]
             n == attempt'[a][s]
         IN  /\ OnlyRow(a) /\ table' = table /\ t.at = "counted"
             /\ row'[a].counts = t.seen /\ row'[a].score = CalculateCompositeScore(t.seen)
             /\ row'[a].status = row[a].status /\ row'[a].type = row[a].type
             /\ row'[a].prev = row[a].prev
             /\ n.seen = t.seen /\ n.todo = t.todo /\ n.cur = t.cur
             /\ \/ t.act = "complete" /\ Moved(a, s, "stored")
                \/ t.act = "score" /\ Moved(a, s, "ended")
<1> DEFINE t == attempt[a][s]
           r == row[a]
           c == t.seen
           x == IF t.act = "complete" THEN "stored" ELSE "ended"
           k == CalculateCompositeScore(c)
           m == [t EXCEPT !.at = x]
           u == [r EXCEPT !.counts = c, !.score = k]
<1>1. t \in Attempt /\ r \in AuditJob /\ c \in Counters /\ k \in 0..MaxScore
  <2>1. t \in Attempt /\ r \in AuditJob
    BY TypesAre
  <2>2. c \in Counters
    BY <2>1, AttemptIs
  <2> QED
    BY <2>1, <2>2, ScoreInRange DEF Counters, Tallies
<1>2. t.at = "counted" /\ table' = table
  BY DEF UpdateAuditProgress
<1>3. t.act \in {"score", "complete"}
  <2>1. t.act \in Activities \cup {"none"}
    BY <1>1, AttemptIs
  <2>2. t.act # "none"
    BY <1>2 DEF ShapeOK, Idle
  <2> QED
    BY <1>2, <2>1, <2>2 DEF ShapeOK, Activities
<1>4. Becomes(a, s, m)
  BY DEF UpdateAuditProgress
<1>5. /\ m \in Attempt /\ m.at = x /\ m.act = t.act /\ m.todo = t.todo
      /\ m.cur = t.cur /\ m.src = t.src /\ m.seen = t.seen
  <2>1. x \in Positions
    BY DEF Positions
  <2> HIDE DEF t, x
  <2> QED
    BY <1>1, <2>1, AttemptMoves
<1>6. /\ u \in AuditJob /\ u.counts = c /\ u.score = k
      /\ u.status = r.status /\ u.type = r.type /\ u.prev = r.prev
  <2> HIDE DEF r, c, k
  <2> QED
    BY <1>1 DEF AuditJob, Counters
<1>7. row' = [row EXCEPT ![a] = u]
  BY DEF UpdateAuditProgress
<1> HIDE DEF m, u
<1>8. OnlyOne(a, s) /\ Quiet /\ attempt'[a][s] = m
  BY <1>4, <1>5, BecomesIs
<1>9. OnlyRow(a) /\ row'[a] = u
  BY <1>6, <1>7, RowBecomes
<1>10. Moved(a, s, x) /\ x \in Positions
  BY <1>5, <1>8 DEF Moved, Positions
<1>11. \/ t.act = "complete" /\ Moved(a, s, "stored")
       \/ t.act = "score" /\ Moved(a, s, "ended")
  BY <1>3, <1>10
<1> QED
  BY <1>2, <1>5, <1>6, <1>8, <1>9, <1>11

LEMMA UpdateStatusIs ==
  ASSUME TypeOK, NEW a \in Audits, NEW s \in Slots, UpdateAuditStatus(a, s),
         ShapeOK(attempt[a][s])
  PROVE  LET t == attempt[a][s]
             n == attempt'[a][s]
         IN  /\ OnlyRow(a) /\ table' = table /\ t.at = "stored" /\ t.act = "complete"
             /\ row'[a].status = "completed" /\ row'[a].type = row[a].type
             /\ row'[a].prev = row[a].prev /\ row'[a].counts = row[a].counts
             /\ row'[a].score = row[a].score
             /\ n.seen = t.seen /\ n.todo = t.todo /\ n.cur = t.cur
             /\ Moved(a, s, "ended")
<1> DEFINE t == attempt[a][s]
           r == row[a]
           m == [t EXCEPT !.at = "ended"]
           u == [r EXCEPT !.status = "completed"]
<1>1. t \in Attempt /\ r \in AuditJob
  BY TypesAre
<1>2. t.at = "stored" /\ table' = table
  BY DEF UpdateAuditStatus
<1>3. t.act = "complete"
  <2>1. t.act \in Activities \cup {"none"}
    BY <1>1, AttemptIs
  <2>2. t.act # "none"
    BY <1>2 DEF ShapeOK, Idle
  <2> QED
    BY <1>2, <2>1, <2>2 DEF ShapeOK, Activities
<1>4. Becomes(a, s, m)
  BY DEF UpdateAuditStatus
<1>5. /\ m \in Attempt /\ m.at = "ended" /\ m.act = t.act /\ m.todo = t.todo
      /\ m.cur = t.cur /\ m.src = t.src /\ m.seen = t.seen
  <2>1. "ended" \in Positions
    BY DEF Positions
  <2> HIDE DEF t
  <2> QED
    BY <1>1, <2>1, AttemptMoves
<1>6. /\ u \in AuditJob /\ u.status = "completed"
      /\ u.counts = r.counts /\ u.score = r.score /\ u.type = r.type /\ u.prev = r.prev
  <2> HIDE DEF r
  <2> QED
    BY <1>1 DEF AuditJob
<1>7. row' = [row EXCEPT ![a] = u]
  BY DEF UpdateAuditStatus
<1> HIDE DEF m, u
<1>8. OnlyOne(a, s) /\ Quiet /\ attempt'[a][s] = m
  BY <1>4, <1>5, BecomesIs
<1>9. OnlyRow(a) /\ row'[a] = u
  BY <1>6, <1>7, RowBecomes
<1>10. Moved(a, s, "ended")
  BY <1>5, <1>8 DEF Moved, Positions
<1> QED
  BY <1>2, <1>3, <1>5, <1>6, <1>8, <1>9, <1>10

LEMMA GiveUpIs ==
  ASSUME TypeOK, NEW a \in Audits, GiveUp(a)
  PROVE  /\ OnlyRow(a) /\ table' = table /\ attempt' = attempt /\ created' = created
         /\ phase[a] \in Activities /\ phase' = [phase EXCEPT ![a] = "end"]
         /\ live[a] = NoSlot /\ live' = live /\ reported' = reported /\ carried' = carried
         /\ retried' = retried /\ overlapped' = overlapped
         /\ row'[a].status = "failed" /\ row'[a].type = row[a].type
         /\ row'[a].prev = row[a].prev /\ row'[a].counts = row[a].counts
         /\ row'[a].score = row[a].score
<1> DEFINE r == row[a]
           u == [r EXCEPT !.status = "failed"]
<1>1. r \in AuditJob
  BY AuditTypes
<1>2. /\ u \in AuditJob /\ u.status = "failed"
      /\ u.counts = r.counts /\ u.score = r.score /\ u.type = r.type /\ u.prev = r.prev
  <2> HIDE DEF r
  <2> QED
    BY <1>1 DEF AuditJob
<1>3. row' = [row EXCEPT ![a] = u]
  BY DEF GiveUp
<1> HIDE DEF u
<1>4. OnlyRow(a) /\ row'[a] = u
  BY <1>2, <1>3, RowBecomes
<1> QED
  BY <1>2, <1>4 DEF GiveUp, story

LEMMA TriggerIs ==
  ASSUME TypeOK, NEW a \in Audits, NEW type \in {"full", "incremental"},
         TriggerAudit(a, type)
  PROVE  /\ OnlyRow(a) /\ table' = table /\ attempt' = attempt /\ created' = created
         /\ phase[a] = "none" /\ phase' = [phase EXCEPT ![a] = "linked"]
         /\ live' = live /\ reported' = reported /\ carried' = carried
         /\ retried' = retried /\ overlapped' = overlapped
         /\ row'[a].status = row[a].status /\ row'[a].type = type
         /\ row'[a].prev = IF type = "incremental" THEN GetPreviousCompletedAudit ELSE None
<1> DEFINE r == row[a]
           p == IF type = "incremental" THEN GetPreviousCompletedAudit ELSE None
           u == [r EXCEPT !.type = type, !.prev = p]
<1>1. r \in AuditJob
  BY AuditTypes
<1>2. p \in Audits \cup {None}
  BY PreviousIs
<1>3. /\ u \in AuditJob /\ u.status = r.status /\ u.type = type /\ u.prev = p
  <2> HIDE DEF r, p
  <2> QED
    BY <1>1, <1>2 DEF AuditJob
<1>4. row' = [row EXCEPT ![a] = u]
  BY DEF TriggerAudit
<1> HIDE DEF u
<1>5. OnlyRow(a) /\ row'[a] = u
  BY <1>3, <1>4, RowBecomes
<1> QED
  BY <1>3, <1>5 DEF TriggerAudit, story

LEMMA CreateIs ==
  ASSUME TypeOK, NEW a \in Audits, CreateAudit(a)
  PROVE  /\ OnlyRow(a) /\ table' = table /\ attempt' = attempt
         /\ created' = Append(created, a) /\ phase[a] = "linked"
         /\ phase' = [phase EXCEPT ![a] = IF row[a].type = "incremental"
                                            THEN "load" ELSE "generate"]
         /\ live' = live /\ reported' = reported /\ carried' = carried
         /\ retried' = retried /\ overlapped' = overlapped
         /\ row'[a].status = "running" /\ row'[a].type = row[a].type
         /\ row'[a].prev = row[a].prev
<1> DEFINE r == row[a]
           u == [r EXCEPT !.status = "running"]
<1>1. r \in AuditJob
  BY AuditTypes
<1>2. u \in AuditJob /\ u.status = "running" /\ u.type = r.type /\ u.prev = r.prev
  <2> HIDE DEF r
  <2> QED
    BY <1>1 DEF AuditJob
<1>3. row' = [row EXCEPT ![a] = u]
  BY DEF CreateAudit
<1> HIDE DEF u
<1>4. OnlyRow(a) /\ row'[a] = u
  BY <1>2, <1>3, RowBecomes
<1> QED
  BY <1>2, <1>4 DEF CreateAudit, story

LEMMA StartAttemptIs ==
  ASSUME TypeOK, NEW a \in Audits, NEW s \in Slots, StartAttempt(a, s)
  PROVE  LET n == attempt'[a][s] IN
         /\ row' = row /\ table' = table /\ created' = created /\ phase' = phase
         /\ phase[a] \in Activities /\ live[a] = NoSlot /\ live' = [live EXCEPT ![a] = s]
         /\ reported' = reported /\ carried' = carried
         /\ retried' = retried /\ overlapped' = overlapped
         /\ attempt[a][s] = Idle /\ OnlyOne(a, s)
         /\ n.act = phase[a] /\ n.at = "begin" /\ n.todo = NoFindings
<1> DEFINE t == attempt[a][s]
           m == [t EXCEPT !.act = phase[a], !.at = "begin"]
<1>1. t = Idle /\ phase[a] \in Activities
  BY DEF StartAttempt
<1>2. m \in Attempt /\ m.act = phase[a] /\ m.at = "begin" /\ m.todo = t.todo
  <2> DEFINE p == phase[a]
  <2>1. p \in Activities /\ "begin" \in Positions /\ t \in Attempt
    BY <1>1, TypesAre DEF Positions
  <2>2. LET c == [t EXCEPT !.act = p, !.at = "begin"] IN
        c \in Attempt /\ c.act = p /\ c.at = "begin" /\ c.todo = t.todo
    <3> HIDE DEF t, p
    <3> QED
      BY <2>1 DEF Attempt
  <2> QED
    BY <2>2
<1>3. t.todo = NoFindings
  BY <1>1 DEF Idle
<1>4. attempt \in Attempts
  BY DEF TypeOK, Attempts
<1>5. attempt' = [attempt EXCEPT ![a][s] = m]
  <2>1. attempt' = [attempt EXCEPT ![a][s].act = phase[a], ![a][s].at = "begin"]
    BY DEF StartAttempt
  <2>2. attempt[a] \in [Slots -> Attempt]
    BY <1>4 DEF Attempts
  <2> QED
    BY <1>4, <2>1, <2>2 DEF Attempts
<1> HIDE DEF m, t
<1>6. attempt'[a][s] = m /\ OnlyOne(a, s)
  BY <1>2, <1>4, <1>5 DEF Attempts, OnlyOne
<1> QED
  BY <1>1, <1>2, <1>3, <1>6 DEF StartAttempt, rows, story, t

LEMMA LoseAttemptIs ==
  ASSUME TypeOK, NEW a \in Audits, NEW goesOn \in BOOLEAN, LoseAttempt(a, goesOn)
  PROVE  /\ row' = row /\ table' = table /\ created' = created /\ phase' = phase
         /\ live[a] # NoSlot /\ live' = [live EXCEPT ![a] = NoSlot]
         /\ reported' = reported /\ carried' = carried /\ retried' = retried \cup {a}
         /\ \/ overlapped' = overlapped \cup {a} /\ attempt' = attempt
            \/ /\ overlapped' = overlapped
               /\ OnlyOne(a, live[a]) /\ attempt'[a][live[a]] = Idle
<1>1. CASE goesOn
  BY <1>1 DEF LoseAttempt, rows
<1>2. CASE ~goesOn
  <2> DEFINE s == live[a]
  <2>1. s \in Slots
    BY AuditTypes DEF LoseAttempt
  <2>2. attempt \in Attempts
    BY DEF TypeOK, Attempts
  <2>3. attempt' = [attempt EXCEPT ![a][s] = Idle]
    BY <1>2 DEF LoseAttempt
  <2> HIDE DEF s
  <2>4. attempt'[a][s] = Idle /\ OnlyOne(a, s)
    BY <2>1, <2>2, <2>3, SomeAttempts DEF Attempts, OnlyOne
  <2> QED
    BY <1>2, <2>4 DEF LoseAttempt, rows, s
<1> QED
  BY <1>1, <1>2

LEMMA AbandonedEndsIs ==
  ASSUME TypeOK, NEW a \in Audits, NEW s \in Slots, AbandonedAttemptEnds(a, s)
  PROVE  /\ row' = row /\ table' = table /\ Quiet
         /\ live[a] # s /\ attempt[a][s].at = "ended"
         /\ OnlyOne(a, s) /\ attempt'[a][s] = Idle
<1>1. attempt \in Attempts
  BY DEF TypeOK, Attempts
<1>2. attempt' = [attempt EXCEPT ![a][s] = Idle]
  BY DEF AbandonedAttemptEnds
<1>3. attempt'[a][s] = Idle /\ OnlyOne(a, s)
  BY <1>1, <1>2, SomeAttempts DEF Attempts, OnlyOne
<1> QED
  BY <1>3 DEF AbandonedAttemptEnds, rows, Quiet

LEMMA ContinuesIs ==
  ASSUME TypeOK, NEW a \in Audits, WorkflowContinues(a)
  PROVE  /\ row' = row /\ table' = table /\ created' = created
         /\ live[a] \in Slots /\ live[a] # NoSlot /\ attempt[a][live[a]].at = "ended"
         /\ phase' = [phase EXCEPT ![a] = NextPhase(phase[a])]
         /\ live' = [live EXCEPT ![a] = NoSlot]
         /\ retried' = retried /\ overlapped' = overlapped
         /\ reported' = IF phase[a] = "generate"
                          THEN [reported EXCEPT ![a] = attempt[a][live[a]].src]
                          ELSE reported
         /\ carried' = IF phase[a] = "load"
                         THEN [carried EXCEPT ![a] = table[a]] ELSE carried
         /\ OnlyOne(a, live[a]) /\ attempt'[a][live[a]] = Idle
<1> DEFINE s == live[a]
<1>1. s \in Slots /\ s # NoSlot
  BY AuditTypes DEF WorkflowContinues
<1>2. attempt \in Attempts /\ phase \in [Audits -> Activities \cup {"none", "linked", "end"}]
  BY DEF TypeOK, Attempts
<1>3. attempt' = [attempt EXCEPT ![a][s] = Idle]
  BY DEF WorkflowContinues
<1>4. phase' = [phase EXCEPT ![a] = NextPhase(phase[a])]
  BY <1>2 DEF WorkflowContinues
<1>5. attempt'[a][s] = Idle /\ OnlyOne(a, s)
  <2> HIDE DEF s
  <2> QED
    BY <1>1, <1>2, <1>3, SomeAttempts DEF Attempts, OnlyOne
<1> QED
  BY <1>1, <1>4, <1>5 DEF WorkflowContinues, rows

-----------------------------------------------------------------------------
(***************************************************************************)
(* Steps keep the types, and concern one audit.                            *)
(***************************************************************************)
\* A step of the audit a or of its workflow.
Act(a) ==
  \/ \E type \in {"full", "incremental"} : TriggerAudit(a, type)
  \/ CreateAudit(a)
  \/ \E goesOn \in BOOLEAN : LoseAttempt(a, goesOn)
  \/ GiveUp(a)
  \/ WorkflowContinues(a)
  \/ \E s \in Slots :
       StartAttempt(a, s) \/ AttemptStep(a, s) \/ AbandonedAttemptEnds(a, s)

LEMMA NextActs == ASSUME Next PROVE \E a \in Audits : Act(a)
BY DEF Next, Act

\* What every step of an attempt leaves alone.
LEMMA AttemptStepIs ==
  ASSUME TypeOK, NEW a \in Audits, NEW s \in Slots, AttemptStep(a, s),
         ShapeOK(attempt[a][s])
  PROVE  /\ OnlyOne(a, s) /\ Quiet /\ attempt'[a][s].act = attempt[a][s].act
         /\ row' = row \/ OnlyRow(a)
         /\ table' = table \/ \E f \in Finding : OneMore(a, f)
<1>1. CASE GetFindingsForAudit(a, s)
  BY <1>1, GetFindingsIs DEF Moved
<1>2. CASE CopyFinding(a, s)
  BY <1>2, CopyFindingIs DEF Moved
<1>3. CASE GetAnalysisResults(a, s)
  BY <1>3, GetAnalysisIs
<1>4. CASE NextIssue(a, s)
  BY <1>4, NextIssueIs DEF Moved
<1>5. CASE CreateFinding(a, s)
  BY <1>5, CreateFindingIs DEF Moved
<1>6. CASE ListExhausted(a, s)
  BY <1>6, ListExhaustedIs DEF Moved
<1>7. CASE CountFindingsBySeverity(a, s)
  BY <1>7, CountFindingsIs DEF Moved
<1>8. CASE UpdateAuditProgress(a, s)
  BY <1>8, UpdateProgressIs DEF Moved
<1>9. CASE UpdateAuditStatus(a, s)
  BY <1>9, UpdateStatusIs DEF Moved
<1> QED
  BY <1>1, <1>2, <1>3, <1>4, <1>5, <1>6, <1>7, <1>8, <1>9 DEF AttemptStep

StepTypes ==
  /\ row' \in [Audits -> AuditJob] /\ table' \in [Audits -> Bags] /\ attempt' \in Attempts

LEMMA NextPhaseIs ==
  ASSUME NEW p \in Activities
  PROVE  NextPhase(p) \in Activities \cup {"none", "linked", "end"}
BY DEF NextPhase, Activities

LEMMA TypeStep ==
  ASSUME TypeOK, NEW a \in Audits, FlowOf(a), Act(a)
  PROVE  TypeOK'
<1>1. /\ row \in [Audits -> AuditJob] /\ table \in [Audits -> Bags] /\ attempt \in Attempts
      /\ created \in Seq(Audits) /\ IsInjective(created)
      /\ phase \in [Audits -> Activities \cup {"none", "linked", "end"}]
      /\ live \in [Audits -> Slots \cup {NoSlot}]
      /\ retrying \in [Audits -> BOOLEAN] /\ lost \in 0..MaxLost
      /\ reported \in [Audits -> Analyses \cup {{}}] /\ carried \in [Audits -> Bags]
      /\ retried \subseteq Audits /\ overlapped \subseteq retried
  BY DEF TypeOK, Bags, Attempts
<1> SUFFICES
      /\ StepTypes
      /\ (created \in Seq(Audits) /\ IsInjective(created))'
      /\ phase' \in [Audits -> Activities \cup {"none", "linked", "end"}]
      /\ live' \in [Audits -> Slots \cup {NoSlot}]
      /\ retrying' \in [Audits -> BOOLEAN] /\ lost' \in 0..MaxLost
      /\ reported' \in [Audits -> Analyses \cup {{}}] /\ carried' \in [Audits -> Bags]
      /\ retried' \subseteq Audits /\ overlapped' \subseteq retried'
  BY DEF TypeOK, Bags, Attempts, StepTypes
<1>2. ASSUME NEW type \in {"full", "incremental"}, TriggerAudit(a, type)
      PROVE  /\ StepTypes /\ created' = created /\ live' = live /\ retrying' = retrying
             /\ lost' = lost /\ reported' = reported /\ carried' = carried
             /\ retried' = retried /\ overlapped' = overlapped
             /\ phase' \in [Audits -> Activities \cup {"none", "linked", "end"}]
  BY <1>1, <1>2, TriggerIs DEF StepTypes, OnlyRow, TriggerAudit
<1>3. ASSUME CreateAudit(a)
      PROVE  /\ StepTypes /\ live' = live /\ retrying' = retrying
             /\ lost' = lost /\ reported' = reported /\ carried' = carried
             /\ retried' = retried /\ overlapped' = overlapped
             /\ phase' \in [Audits -> Activities \cup {"none", "linked", "end"}]
             /\ (created \in Seq(Audits) /\ IsInjective(created))'
  <2>1. created' = Append(created, a) /\ phase[a] = "linked"
    BY <1>3, CreateIs
  <2>2. \A k \in DOMAIN created : created[k] # a
    BY <2>1 DEF FlowOf, Early
  <2>3. created' \in Seq(Audits)
    BY <1>1, <2>1
  <2>4. Len(created) \in Nat /\ DOMAIN created = 1..Len(created)
    BY <1>1
  <2>5. /\ DOMAIN created' = 1..(Len(created) + 1) /\ created'[Len(created) + 1] = a
        /\ \A k \in 1..Len(created) : created'[k] = created[k]
    BY <1>1, <2>1
  <2>6. IsInjective(created')
    <3> DEFINE n == Len(created)
               c == created
               d == created'
    <3>1. /\ n \in Nat /\ DOMAIN c = 1..n /\ DOMAIN d = 1..(n + 1) /\ d[n + 1] = a
          /\ \A k \in 1..n : d[k] = c[k] /\ c[k] # a
          /\ \A j, k \in 1..n : c[j] = c[k] => j = k
      BY <1>1, <2>2, <2>4, <2>5 DEF IsInjective
    <3> HIDE DEF n, c, d
    <3>2. \A k \in 1..(n + 1) : k \in 1..n \/ k = n + 1
      BY <3>1
    <3>3. \A j, k \in DOMAIN d : d[j] = d[k] => j = k
      BY <3>1, <3>2
    <3>4. IsInjective(d)
      BY <3>3 DEF IsInjective
    <3> QED
      BY <3>4 DEF d
  <2> QED
    BY <1>1, <1>3, <2>3, <2>6, CreateIs DEF StepTypes, OnlyRow, CreateAudit, Activities
<1>4. ASSUME NEW goesOn \in BOOLEAN, LoseAttempt(a, goesOn)
      PROVE  /\ StepTypes /\ created' = created /\ phase' = phase
             /\ live' \in [Audits -> Slots \cup {NoSlot}]
             /\ retrying' \in [Audits -> BOOLEAN] /\ lost' \in 0..MaxLost
             /\ reported' = reported /\ carried' = carried
             /\ retried' \subseteq Audits /\ overlapped' \subseteq retried'
  <2>1. StepTypes
    BY <1>1, <1>4, LoseAttemptIs DEF StepTypes, OnlyOne
  <2>2. lost' \in 0..MaxLost
    BY <1>1, <1>4, FindingsAssumption DEF LoseAttempt
  <2>3. retrying' \in [Audits -> BOOLEAN]
    BY <1>1, <1>4 DEF LoseAttempt
  <2> QED
    BY <1>1, <1>4, <2>1, <2>2, <2>3, LoseAttemptIs
<1>5. ASSUME GiveUp(a)
      PROVE  /\ StepTypes /\ created' = created /\ live' = live /\ retrying' = retrying
             /\ lost' = lost /\ reported' = reported /\ carried' = carried
             /\ retried' = retried /\ overlapped' = overlapped
             /\ phase' \in [Audits -> Activities \cup {"none", "linked", "end"}]
  BY <1>1, <1>5, GiveUpIs DEF StepTypes, OnlyRow, GiveUp
<1>6. ASSUME WorkflowContinues(a)
      PROVE  /\ StepTypes /\ created' = created /\ lost' = lost
             /\ live' \in [Audits -> Slots \cup {NoSlot}]
             /\ retrying' \in [Audits -> BOOLEAN]
             /\ reported' \in [Audits -> Analyses \cup {{}}] /\ carried' \in [Audits -> Bags]
             /\ retried' = retried /\ overlapped' = overlapped
             /\ phase' \in [Audits -> Activities \cup {"none", "linked", "end"}]
  <2>1. live[a] \in Slots /\ live[a] # NoSlot
    BY <1>6, ContinuesIs
  <2>2. attempt[a][live[a]].src \in Analyses \cup {{}}
    <3>1. attempt[a][live[a]] \in Attempt
      BY <2>1, TypesAre
    <3> QED
      BY <3>1, AttemptIs
  <2>3. reported' \in [Audits -> Analyses \cup {{}}]
    <3> DEFINE A == Analyses \cup {{}}
               x == attempt[a][live[a]].src
    <3>1. x \in A /\ reported \in [Audits -> A]
      BY <1>1, <2>2
    <3>2. reported' = reported \/ reported' = [reported EXCEPT ![a] = x]
      BY <1>6, ContinuesIs
    <3> HIDE DEF A, x
    <3>3. reported' \in [Audits -> A]
      BY <3>1, <3>2
    <3> QED
      BY <3>3 DEF A
  <2>4. carried' \in [Audits -> Bags]
    BY <1>1, <1>6, ContinuesIs
  <2>5. phase' \in [Audits -> Activities \cup {"none", "linked", "end"}]
    <3>1. NextPhase(phase[a]) \in Activities \cup {"none", "linked", "end"}
      BY <2>1, NextPhaseIs DEF FlowOf
    <3> QED
      BY <1>1, <1>6, <3>1, ContinuesIs
  <2>6. retrying' \in [Audits -> BOOLEAN] /\ lost' = lost
    BY <1>1, <1>6 DEF WorkflowContinues
  <2>7. live' \in [Audits -> Slots \cup {NoSlot}]
    BY <1>1, <1>6, ContinuesIs
  <2>8. StepTypes
    BY <1>1, <1>6, ContinuesIs DEF StepTypes, OnlyOne
  <2> QED
    BY <1>6, <2>3, <2>4, <2>5, <2>6, <2>7, <2>8, ContinuesIs
<1>7. ASSUME NEW s \in Slots, StartAttempt(a, s)
      PROVE  /\ StepTypes /\ created' = created /\ retrying' = retrying
             /\ lost' = lost /\ reported' = reported /\ carried' = carried
             /\ retried' = retried /\ overlapped' = overlapped /\ phase' = phase
             /\ live' \in [Audits -> Slots \cup {NoSlot}]
  BY <1>1, <1>7, StartAttemptIs DEF StepTypes, OnlyOne, StartAttempt
<1>8. ASSUME NEW s \in Slots, AttemptStep(a, s) \/ AbandonedAttemptEnds(a, s)
      PROVE  StepTypes /\ Quiet
  <2>1. ShapeOK(attempt[a][s])
    BY DEF FlowOf
  <2>2. CASE AttemptStep(a, s)
    BY <1>1, <2>1, <2>2, AttemptStepIs DEF StepTypes, OnlyOne, OnlyRow, OneMore
  <2>3. CASE AbandonedAttemptEnds(a, s)
    BY <1>1, <2>3, AbandonedEndsIs DEF StepTypes, OnlyOne
  <2> QED
    BY <1>8, <2>2, <2>3
<1>9. CASE \E type \in {"full", "incremental"} : TriggerAudit(a, type)
  BY <1>1, <1>2, <1>9
<1>10. CASE CreateAudit(a)
  BY <1>1, <1>3, <1>10
<1>11. CASE \E goesOn \in BOOLEAN : LoseAttempt(a, goesOn)
  BY <1>1, <1>4, <1>11
<1>12. CASE GiveUp(a)
  BY <1>1, <1>5, <1>12
<1>13. CASE WorkflowContinues(a)
  BY <1>1, <1>6, <1>13
<1>14. CASE \E s \in Slots : StartAttempt(a, s)
  BY <1>1, <1>7, <1>14
<1>15. CASE \E s \in Slots : AttemptStep(a, s) \/ AbandonedAttemptEnds(a, s)
  BY <1>1, <1>8, <1>15 DEF Quiet, story
<1> QED
  BY <1>9, <1>10, <1>11, <1>12, <1>13, <1>14, <1>15 DEF Act

\* Nothing happens to an audit.
Same(b) ==
  /\ row'[b] = row[b] /\ table'[b] = table[b] /\ phase'[b] = phase[b] /\ live'[b] = live[b]
  /\ \A s \in Slots : attempt'[b][s] = attempt[b][s]
  /\ reported'[b] = reported[b] /\ carried'[b] = carried[b]
  /\ (b \in retried') <=> (b \in retried)
  /\ (b \in overlapped') <=> (b \in overlapped)

LEMMA Elsewhere ==
  ASSUME TypeOK, NEW a \in Audits, FlowOf(a), Act(a)
  PROVE  \A b \in Audits : b # a => Same(b)
<1> SUFFICES ASSUME NEW b \in Audits, b # a PROVE Same(b)
  OBVIOUS
<1>0. /\ phase \in [Audits -> Activities \cup {"none", "linked", "end"}]
      /\ live \in [Audits -> Slots \cup {NoSlot}]
      /\ reported \in [Audits -> Analyses \cup {{}}] /\ carried \in [Audits -> Bags]
  BY DEF TypeOK, Bags
<1>1. ASSUME NEW type \in {"full", "incremental"}, TriggerAudit(a, type) PROVE Same(b)
  BY <1>0, <1>1, TriggerIs DEF Same, OnlyRow
<1>2. CASE CreateAudit(a)
  BY <1>0, <1>2, CreateIs DEF Same, OnlyRow
<1>3. ASSUME NEW goesOn \in BOOLEAN, LoseAttempt(a, goesOn) PROVE Same(b)
  <2>1. live[a] \in Slots
    BY <1>3, AuditTypes DEF LoseAttempt
  <2> QED
    BY <1>0, <1>3, <2>1, LoseAttemptIs DEF Same, OnlyOne
<1>4. CASE GiveUp(a)
  BY <1>0, <1>4, GiveUpIs DEF Same, OnlyRow
<1>5. CASE WorkflowContinues(a)
  <2> DEFINE s == live[a]
             x == attempt[a][s].src
             y == table[a]
             p == NextPhase(phase[a])
  <2>1. /\ row' = row /\ table' = table /\ s \in Slots /\ phase' = [phase EXCEPT ![a] = p]
        /\ live' = [live EXCEPT ![a] = NoSlot]
        /\ retried' = retried /\ overlapped' = overlapped /\ OnlyOne(a, s)
        /\ reported' = reported \/ reported' = [reported EXCEPT ![a] = x]
        /\ carried' = carried \/ carried' = [carried EXCEPT ![a] = y]
    BY <1>5, ContinuesIs
  <2> HIDE DEF s, x, y, p
  <2> QED
    BY <1>0, <2>1 DEF Same, OnlyOne
<1>6. ASSUME NEW s \in Slots, StartAttempt(a, s) PROVE Same(b)
  BY <1>0, <1>6, StartAttemptIs DEF Same, OnlyOne
<1>7. ASSUME NEW s \in Slots, AttemptStep(a, s) PROVE Same(b)
  <2>1. ShapeOK(attempt[a][s])
    BY DEF FlowOf
  <2> QED
    BY <1>7, <2>1, AttemptStepIs DEF Same, OnlyOne, OnlyRow, OneMore, Quiet, story
<1>8. ASSUME NEW s \in Slots, AbandonedAttemptEnds(a, s) PROVE Same(b)
  BY <1>8, AbandonedEndsIs DEF Same, OnlyOne, Quiet, story
<1> QED
  BY <1>1, <1>2, <1>3, <1>4, <1>5, <1>6, <1>7, <1>8 DEF Act

-----------------------------------------------------------------------------
(***************************************************************************)
(* Attempts and phases agree.                                              *)
(***************************************************************************)
LEMMA IdleIs ==
  /\ ShapeOK(Idle) /\ Idle.act = "none" /\ Idle.at = "idle" /\ Idle.todo = NoFindings
  /\ \A ph : OrderOK(Idle, ph)
BY DEF ShapeOK, OrderOK, Idle

\* Where an attempt stands tells what it does.
LEMMA ActIs ==
  ASSUME NEW t \in Attempt, ShapeOK(t)
  PROVE  /\ t.at = "copying" => t.act = "load"
         /\ t.at \in {"scanning", "insert"} => t.act = "generate"
         /\ t.at = "counted" => t.act \in {"score", "complete"}
         /\ t.at = "stored" => t.act = "complete"
         /\ t.at # "idle" => t.act # "none"
         /\ t.act = "none" => t.at = "idle"
<1>1. t.act \in Activities \cup {"none"}
  BY AttemptIs
<1>2. t.act = "none" => t.at = "idle"
  BY IdleIs DEF ShapeOK
<1> QED
  BY <1>1, <1>2 DEF ShapeOK, Activities

LEMMA ShapeStep ==
  ASSUME TypeOK, NEW a \in Audits, NEW s \in Slots, AttemptStep(a, s),
         ShapeOK(attempt[a][s])
  PROVE  ShapeOK(attempt'[a][s]) /\ attempt[a][s].act # "none"
<1> DEFINE t == attempt[a][s]
           n == attempt'[a][s]
<1>0. t \in Attempt /\ ShapeOK(t)
  BY TypesAre
<1>1. CASE GetFindingsForAudit(a, s)
  <2>1. /\ t.act = "load" /\ t.at = "begin" /\ n.act = "load"
        /\ (n.at = "copying" \/ (n.at = "ended" /\ n.todo = t.todo))
    BY <1>1, GetFindingsIs DEF Moved
  <2> HIDE DEF t, n
  <2> QED
    BY <1>0, <2>1 DEF ShapeOK, t, n
<1>2. CASE CopyFinding(a, s)
  <2>1. t.act = "load" /\ t.at = "copying" /\ n.act = "load" /\ n.at = "copying"
    BY <1>2, CopyFindingIs DEF Moved
  <2> HIDE DEF t, n
  <2> QED
    BY <1>0, <2>1 DEF ShapeOK, t, n
<1>3. CASE GetAnalysisResults(a, s)
  <2>1. t.act = "generate" /\ t.at = "begin" /\ n.act = "generate" /\ n.at = "scanning"
    BY <1>3, GetAnalysisIs
  <2> HIDE DEF t, n
  <2> QED
    BY <1>0, <2>1 DEF ShapeOK, t, n
<1>4. CASE NextIssue(a, s)
  <2>1. /\ t.act = "generate" /\ n.act = "generate"
        /\ n.at = "scanning" \/ (n.at = "insert" /\ n.cur \in Finding)
    BY <1>4, NextIssueIs DEF Moved
  <2> HIDE DEF t, n
  <2> QED
    BY <1>0, <2>1 DEF ShapeOK, t, n
<1>5. CASE CreateFinding(a, s)
  <2>1. t.act = "generate" /\ n.act = "generate" /\ n.at = "scanning"
    BY <1>0, <1>5, CreateFindingIs DEF Moved
  <2> HIDE DEF t, n
  <2> QED
    BY <1>0, <2>1 DEF ShapeOK, t, n
<1>6. CASE ListExhausted(a, s)
  <2>1. /\ t.at \in {"copying", "scanning"} /\ n.act = t.act /\ n.at = "ended"
        /\ n.todo = NoFindings
    BY <1>6, ListExhaustedIs DEF Moved
  <2>2. t.act \in {"load", "generate"}
    BY <1>0, <2>1, ActIs
  <2> HIDE DEF t, n
  <2> QED
    BY <1>0, <2>1, <2>2 DEF ShapeOK, t, n
<1>7. CASE CountFindingsBySeverity(a, s)
  <2>1. /\ t.act \in {"score", "complete"} /\ n.act = t.act /\ n.at = "counted"
        /\ t.at = "begin" /\ n.todo = t.todo
    BY <1>7, CountFindingsIs DEF Moved
  <2> HIDE DEF t, n
  <2> QED
    BY <1>0, <2>1 DEF ShapeOK, t, n
<1>8. CASE UpdateAuditProgress(a, s)
  <2>1. /\ t.at = "counted" /\ n.act = t.act /\ n.todo = t.todo
        /\ \/ t.act = "complete" /\ n.at = "stored"
           \/ t.act = "score" /\ n.at = "ended"
    BY <1>0, <1>8, UpdateProgressIs DEF Moved
  <2> HIDE DEF t, n
  <2> QED
    BY <1>0, <2>1 DEF ShapeOK, t, n
<1>9. CASE UpdateAuditStatus(a, s)
  <2>1. /\ t.at = "stored" /\ n.act = t.act /\ n.todo = t.todo
        /\ t.act = "complete" /\ n.at = "ended"
    BY <1>0, <1>9, UpdateStatusIs DEF Moved
  <2> HIDE DEF t, n
  <2> QED
    BY <1>0, <2>1 DEF ShapeOK, t, n
<1> QED
  BY <1>1, <1>2, <1>3, <1>4, <1>5, <1>6, <1>7, <1>8, <1>9 DEF AttemptStep

\* What a step of an attempt does to its audit's row: type and link stay.
LEMMA RowStep ==
  ASSUME TypeOK, NEW a \in Audits, NEW s \in Slots, AttemptStep(a, s),
         ShapeOK(attempt[a][s])
  PROVE  /\ row'[a].type = row[a].type /\ row'[a].prev = row[a].prev
         /\ \/ row'[a].status = row[a].status
            \/ attempt[a][s].act = "complete" /\ row'[a].status = "completed"
<1>1. CASE GetFindingsForAudit(a, s)
  BY <1>1, GetFindingsIs
<1>2. CASE CopyFinding(a, s)
  BY <1>2, CopyFindingIs
<1>3. CASE GetAnalysisResults(a, s)
  BY <1>3, GetAnalysisIs
<1>4. CASE NextIssue(a, s)
  BY <1>4, NextIssueIs
<1>5. CASE CreateFinding(a, s)
  BY <1>5, CreateFindingIs
<1>6. CASE ListExhausted(a, s)
  BY <1>6, ListExhaustedIs
<1>7. CASE CountFindingsBySeverity(a, s)
  BY <1>7, CountFindingsIs
<1>8. CASE UpdateAuditProgress(a, s)
  BY <1>8, UpdateProgressIs
<1>9. CASE UpdateAuditStatus(a, s)
  BY <1>9, UpdateStatusIs
<1> QED
  BY <1>1, <1>2, <1>3, <1>4, <1>5, <1>6, <1>7, <1>8, <1>9 DEF AttemptStep

LEMMA CreatedGrows ==
  ASSUME TypeOK, NEW a \in Audits, FlowOf(a), Act(a)
  PROVE  /\ \A k \in DOMAIN created' : \/ created'[k] = a
                                      \/ \E j \in DOMAIN created : created'[k] = created[j]
         /\ created' = created \/ CreateAudit(a)
<1>1. CASE CreateAudit(a)
  <2>1. created' = Append(created, a) /\ created \in Seq(Audits)
    BY <1>1, CreateIs DEF TypeOK
  <2>2. /\ Len(created) \in Nat /\ DOMAIN created = 1..Len(created)
        /\ DOMAIN created' = 1..(Len(created) + 1) /\ created'[Len(created) + 1] = a
        /\ \A k \in 1..Len(created) : created'[k] = created[k]
    BY <2>1
  <2>3. \A k \in 1..(Len(created) + 1) : k \in 1..Len(created) \/ k = Len(created) + 1
    BY <2>2
  <2> QED
    BY <1>1, <2>2, <2>3
<1>2. CASE created' = created
  BY <1>2
<1>3. created' = created \/ CreateAudit(a)
  <2>1. \A s \in Slots : AttemptStep(a, s) => created' = created
    BY AttemptStepIs DEF FlowOf, Quiet
  <2>2. \A s \in Slots : AbandonedAttemptEnds(a, s) => created' = created
    BY AbandonedEndsIs DEF Quiet
  <2> QED
    BY <2>1, <2>2 DEF Act, TriggerAudit, LoseAttempt, GiveUp, WorkflowContinues, StartAttempt,
      rows
<1> QED
  BY <1>1, <1>2, <1>3

LEMMA FlowStays ==
  ASSUME TypeOK, NEW a \in Audits, FlowOf(a), Act(a), NEW b \in Audits, b # a, FlowOf(b)
  PROVE  FlowOf(b)'
<1>1. Same(b)
  BY Elsewhere
<1>2. \A k \in DOMAIN created' : created'[k] = a \/ \E j \in DOMAIN created : created'[k] = created[j]
  BY CreatedGrows
<1>3. /\ \A s \in Slots : (ShapeOK(attempt[b][s]) /\ OrderOK(attempt[b][s], phase[b]))'
      /\ \A s \in Slots : (attempt[b][s].act # "none" /\ live[b] # s => b \in overlapped)'
  <2> SUFFICES ASSUME NEW s \in Slots
               PROVE  /\ ShapeOK(attempt[b][s])' /\ OrderOK(attempt[b][s], phase[b])'
                      /\ (attempt[b][s].act # "none" /\ live[b] # s => b \in overlapped)'
    OBVIOUS
  <2>1. /\ ShapeOK(attempt[b][s]) /\ OrderOK(attempt[b][s], phase[b])
        /\ attempt[b][s].act # "none" /\ live[b] # s => b \in overlapped
    BY DEF FlowOf
  <2>2. attempt'[b][s] = attempt[b][s] /\ phase'[b] = phase[b]
    BY <1>1 DEF Same
  <2>3. ShapeOK(attempt'[b][s]) /\ OrderOK(attempt'[b][s], phase'[b])
    BY <2>1, <2>2
  <2>4. (attempt[b][s].act # "none" /\ live[b] # s => b \in overlapped)'
    BY <1>1, <2>1 DEF Same
  <2> QED
    BY <2>3, <2>4 DEF ShapeOK, OrderOK
<1>4. (live[b] # NoSlot => /\ phase[b] \in Activities
                           /\ attempt[b][live[b]].act = phase[b])'
  <2>1. live[b] \in Slots \cup {NoSlot}
    BY AuditTypes
  <2>2. live[b] # NoSlot => phase[b] \in Activities /\ attempt[b][live[b]].act = phase[b]
    BY DEF FlowOf
  <2> QED
    BY <1>1, <2>1, <2>2 DEF Same
<1>5. (phase[b] \in Early =>
        /\ b \notin {created[k] : k \in DOMAIN created}
        /\ row[b].status = "none" /\ table[b] = NoFindings /\ b \notin retried)'
  <2>1. phase[b] \in Early =>
        /\ \A k \in DOMAIN created : created[k] # b
        /\ row[b].status = "none" /\ table[b] = NoFindings /\ b \notin retried
    BY DEF FlowOf
  <2>2. phase'[b] \in Early => \A k \in DOMAIN created' : created'[k] # b
    BY <1>1, <1>2, <2>1 DEF Same
  <2> QED
    BY <1>1, <2>1, <2>2 DEF Same, Early
<1>6. /\ (phase[b] = "none" => row[b] = NoRow)'
      /\ (row[b].status = "completed" => phase[b] \in {"complete", "end"})'
      /\ (row[b].type = "full" => row[b].prev = None /\ phase[b] # "load")'
  BY <1>1 DEF Same, FlowOf
<1> QED
  BY <1>3, <1>4, <1>5, <1>6 DEF FlowOf

\* FlowOf in two halves, for the audit that takes the step: what it says of
\* the attempts, and of the row.
FlowAttempts(a) ==
  /\ \A s \in Slots : ShapeOK(attempt[a][s]) /\ OrderOK(attempt[a][s], phase[a])
  /\ live[a] # NoSlot => /\ phase[a] \in Activities
                         /\ attempt[a][live[a]].act = phase[a]
  /\ \A s \in Slots : attempt[a][s].act # "none" /\ live[a] # s => a \in overlapped

FlowRow(a) ==
  /\ phase[a] \in Early =>
       /\ a \notin {created[k] : k \in DOMAIN created}
       /\ row[a].status = "none" /\ table[a] = NoFindings /\ a \notin retried
  /\ phase[a] = "none" => row[a] = NoRow
  /\ row[a].status = "completed" => phase[a] \in {"complete", "end"}
  /\ row[a].type = "full" => row[a].prev = None /\ phase[a] # "load"

\* An attempt can only be at work when the audit exists.
LEMMA OrderIs ==
  ASSUME NEW t \in Attempt, NEW ph, OrderOK(t, ph), t.act # "none"
  PROVE  ph \in Activities \cup {"end"}
<1>1. t.act \in Activities
  BY AttemptIs
<1> QED
  BY <1>1 DEF OrderOK, Activities

LEMMA IdleBefore ==
  ASSUME TypeOK, NEW a \in Audits, FlowOf(a), phase[a] \in Early
  PROVE  /\ \A s \in Slots : attempt[a][s] = Idle
         /\ live[a] = NoSlot
<1>1. ASSUME NEW s \in Slots PROVE attempt[a][s] = Idle
  <2>1. attempt[a][s] \in Attempt /\ OrderOK(attempt[a][s], phase[a]) /\ ShapeOK(attempt[a][s])
    BY TypesAre DEF FlowOf
  <2>2. attempt[a][s].act = "none"
    BY <2>1, OrderIs DEF Early, Activities
  <2> QED
    BY <2>1, <2>2 DEF ShapeOK
<1>2. live[a] = NoSlot
  BY DEF FlowOf, Early, Activities
<1> QED
  BY <1>1, <1>2

LEMMA FlowAttemptStep ==
  ASSUME TypeOK, NEW a \in Audits, FlowOf(a), NEW s \in Slots, AttemptStep(a, s)
  PROVE  FlowOf(a)'
<1>1. /\ ShapeOK(attempt'[a][s]) /\ attempt[a][s].act # "none"
      /\ OnlyOne(a, s) /\ Quiet /\ attempt'[a][s].act = attempt[a][s].act
  BY ShapeStep, AttemptStepIs DEF FlowOf
<1>2. phase' = phase /\ live' = live /\ overlapped' = overlapped /\ retried' = retried
      /\ created' = created
  BY <1>1 DEF Quiet, story
<1>3. FlowAttempts(a)'
  <2>1. ASSUME NEW r \in Slots
        PROVE  /\ ShapeOK(attempt'[a][r]) /\ OrderOK(attempt'[a][r], phase'[a])
               /\ attempt'[a][r].act = attempt[a][r].act
    <3>1. OrderOK(attempt[a][r], phase[a]) /\ ShapeOK(attempt[a][r])
      BY DEF FlowOf
    <3>2. CASE r = s
      BY <1>1, <1>2, <3>1, <3>2 DEF OrderOK
    <3>3. CASE r # s
      <4>1. attempt'[a][r] = attempt[a][r]
        BY <1>1, <3>3 DEF OnlyOne
      <4> QED
        BY <1>2, <3>1, <4>1
    <3> QED
      BY <3>2, <3>3
  <2>2. \A r \in Slots : (ShapeOK(attempt[a][r]) /\ OrderOK(attempt[a][r], phase[a]))'
    BY <2>1 DEF ShapeOK, OrderOK
  <2>3. live'[a] # NoSlot => phase'[a] \in Activities /\ attempt'[a][live'[a]].act = phase'[a]
    <3>1. live[a] # NoSlot => live[a] \in Slots /\ phase[a] \in Activities
                              /\ attempt[a][live[a]].act = phase[a]
      BY AuditTypes DEF FlowOf
    <3> QED
      BY <1>2, <2>1, <3>1
  <2>4. \A r \in Slots : attempt'[a][r].act # "none" /\ live'[a] # r => a \in overlapped'
    BY <1>2, <2>1 DEF FlowOf
  <2> QED
    BY <2>2, <2>3, <2>4 DEF FlowAttempts
<1>4. FlowRow(a)'
  <2>1. phase[a] \notin Early
    <3>1. attempt[a][s] \in Attempt /\ OrderOK(attempt[a][s], phase[a])
      BY TypesAre DEF FlowOf
    <3>2. phase[a] \in Activities \cup {"end"}
      BY <1>1, <3>1, OrderIs
    <3> QED
      BY <3>2 DEF Early, Activities
  <2>2. /\ row'[a].type = row[a].type /\ row'[a].prev = row[a].prev
        /\ \/ row'[a].status = row[a].status
           \/ attempt[a][s].act = "complete"
    BY RowStep DEF FlowOf
  <2>3. row'[a].status = "completed" => phase'[a] \in {"complete", "end"}
    BY <1>2, <2>2 DEF FlowOf, OrderOK
  <2>4. row'[a].type = "full" => row'[a].prev = None /\ phase'[a] # "load"
    BY <1>2, <2>2 DEF FlowOf
  <2> QED
    BY <1>2, <2>1, <2>3, <2>4 DEF FlowRow, Early
<1> QED
  BY <1>3, <1>4 DEF FlowOf, FlowAttempts, FlowRow

\* The workflow's own steps.
LEMMA OrderNext ==
  ASSUME NEW t, NEW ph \in Activities, OrderOK(t, ph)
  PROVE  OrderOK(t, NextPhase(ph)) /\ OrderOK(t, "end")
BY DEF OrderOK, NextPhase, Activities

LEMMA FlowAct ==
  ASSUME TypeOK, NEW a \in Audits, FlowOf(a), Act(a)
  PROVE  FlowOf(a)'
<1>0. /\ \A s \in Slots : /\ ShapeOK(attempt[a][s]) /\ OrderOK(attempt[a][s], phase[a])
                          /\ attempt[a][s] \in Attempt
      /\ live[a] \in Slots \cup {NoSlot}
      /\ phase \in [Audits -> Activities \cup {"none", "linked", "end"}]
      /\ live \in [Audits -> Slots \cup {NoSlot}] /\ NoSlot \notin Slots
  BY TypesAre, AuditTypes, FindingsAssumption DEF FlowOf, TypeOK
<1>1. ASSUME NEW type \in {"full", "incremental"}, TriggerAudit(a, type) PROVE FlowOf(a)'
  <2>1. /\ OnlyRow(a) /\ table' = table /\ attempt' = attempt /\ created' = created
        /\ phase[a] = "none" /\ phase'[a] = "linked" /\ live' = live
        /\ retried' = retried /\ overlapped' = overlapped
        /\ row'[a].status = row[a].status /\ row'[a].type = type
        /\ row'[a].prev = IF type = "incremental" THEN GetPreviousCompletedAudit ELSE None
    BY <1>0, <1>1, TriggerIs
  <2>2. (\A s \in Slots : attempt[a][s] = Idle) /\ live[a] = NoSlot
    BY <2>1, IdleBefore DEF Early
  <2>3. FlowAttempts(a)'
    <3>1. (\A s \in Slots : attempt'[a][s] = Idle) /\ live'[a] = NoSlot
      BY <2>1, <2>2
    <3>2. \A s \in Slots : (ShapeOK(attempt[a][s]) /\ OrderOK(attempt[a][s], phase[a]))'
      BY <3>1, IdleIs DEF ShapeOK, OrderOK
    <3> QED
      BY <3>1, <3>2, IdleIs DEF FlowAttempts
  <2>4. FlowRow(a)'
    BY <2>1 DEF FlowRow, FlowOf, Early
  <2> QED
    BY <2>3, <2>4 DEF FlowOf, FlowAttempts, FlowRow
<1>2. ASSUME CreateAudit(a) PROVE FlowOf(a)'
  <2>1. /\ OnlyRow(a) /\ attempt' = attempt /\ live' = live /\ phase[a] = "linked"
        /\ phase'[a] = (IF row[a].type = "incremental" THEN "load" ELSE "generate")
        /\ row'[a].status = "running" /\ row'[a].type = row[a].type
        /\ row'[a].prev = row[a].prev
    BY <1>0, <1>2, CreateIs
  <2>2. (\A s \in Slots : attempt[a][s] = Idle) /\ live[a] = NoSlot
    BY <2>1, IdleBefore DEF Early
  <2>3. FlowAttempts(a)'
    <3>1. (\A s \in Slots : attempt'[a][s] = Idle) /\ live'[a] = NoSlot
      BY <2>1, <2>2
    <3>2. \A s \in Slots : (ShapeOK(attempt[a][s]) /\ OrderOK(attempt[a][s], phase[a]))'
      BY <3>1, IdleIs DEF ShapeOK, OrderOK
    <3> QED
      BY <3>1, <3>2, IdleIs DEF FlowAttempts
  <2>4. FlowRow(a)'
    BY <2>1 DEF FlowRow, FlowOf, Early
  <2> QED
    BY <2>3, <2>4 DEF FlowOf, FlowAttempts, FlowRow
<1>3. ASSUME NEW goesOn \in BOOLEAN, LoseAttempt(a, goesOn) PROVE FlowOf(a)'
  <2> DEFINE s == live[a]
  <2>1. /\ row' = row /\ table' = table /\ created' = created /\ phase' = phase
        /\ s # NoSlot /\ live'[a] = NoSlot /\ retried' = retried \cup {a}
        /\ \/ overlapped' = overlapped \cup {a} /\ attempt' = attempt
           \/ /\ overlapped' = overlapped
              /\ OnlyOne(a, s) /\ attempt'[a][s] = Idle
    BY <1>0, <1>3, LoseAttemptIs
  <2>2. s \in Slots /\ phase[a] \in Activities
    BY <1>0, <2>1 DEF FlowOf
  <2> HIDE DEF s
  <2>3. ASSUME NEW r \in Slots
        PROVE  /\ (ShapeOK(attempt[a][r]) /\ OrderOK(attempt[a][r], phase[a]))'
               /\ attempt'[a][r].act # "none" => a \in overlapped'
    <3>1. /\ ShapeOK(attempt[a][r]) /\ OrderOK(attempt[a][r], phase[a])
          /\ attempt[a][r].act # "none" /\ s # r => a \in overlapped
      BY DEF FlowOf, s
    <3>2. CASE overlapped' = overlapped \cup {a} /\ attempt' = attempt
      BY <2>1, <3>1, <3>2 DEF ShapeOK, OrderOK
    <3>3. CASE /\ overlapped' = overlapped
               /\ OnlyOne(a, s) /\ attempt'[a][s] = Idle
      <4>1. attempt'[a][r] = IF r = s THEN Idle ELSE attempt[a][r]
        BY <3>3 DEF OnlyOne
      <4>2. ShapeOK(attempt'[a][r]) /\ OrderOK(attempt'[a][r], phase'[a])
        BY <2>1, <3>1, <4>1, IdleIs
      <4>3. attempt'[a][r].act # "none" => a \in overlapped'
        BY <3>1, <3>3, <4>1, IdleIs
      <4> QED
        BY <4>2, <4>3 DEF ShapeOK, OrderOK
    <3> QED
      BY <2>1, <3>2, <3>3
  <2>4. FlowAttempts(a)'
    BY <2>1, <2>3 DEF FlowAttempts
  <2>5. FlowRow(a)'
    BY <2>1, <2>2 DEF FlowRow, FlowOf, Early, Activities
  <2> QED
    BY <2>4, <2>5 DEF FlowOf, FlowAttempts, FlowRow
<1>4. ASSUME GiveUp(a) PROVE FlowOf(a)'
  <2>1. /\ attempt' = attempt /\ created' = created
        /\ phase[a] \in Activities /\ phase'[a] = "end"
        /\ live[a] = NoSlot /\ live' = live /\ overlapped' = overlapped
        /\ row'[a].status = "failed" /\ row'[a].type = row[a].type
        /\ row'[a].prev = row[a].prev
    BY <1>0, <1>4, GiveUpIs
  <2>2. \A r \in Slots : (ShapeOK(attempt[a][r]) /\ OrderOK(attempt[a][r], phase[a]))'
    BY <1>0, <2>1, OrderNext DEF ShapeOK, OrderOK
  <2>3. FlowAttempts(a)'
    BY <2>1, <2>2 DEF FlowAttempts, FlowOf
  <2>4. FlowRow(a)'
    BY <2>1 DEF FlowRow, FlowOf, Early
  <2> QED
    BY <2>3, <2>4 DEF FlowOf, FlowAttempts, FlowRow
<1>5. ASSUME WorkflowContinues(a) PROVE FlowOf(a)'
  <2> DEFINE s == live[a]
  <2>1. /\ row' = row /\ table' = table /\ created' = created /\ s \in Slots
        /\ s # NoSlot /\ live'[a] = NoSlot
        /\ phase'[a] = NextPhase(phase[a]) /\ overlapped' = overlapped /\ retried' = retried
        /\ OnlyOne(a, s) /\ attempt'[a][s] = Idle
    BY <1>0, <1>5, ContinuesIs
  <2>2. phase[a] \in Activities
    BY <2>1 DEF FlowOf
  <2> HIDE DEF s
  <2>3. ASSUME NEW r \in Slots
        PROVE  /\ (ShapeOK(attempt[a][r]) /\ OrderOK(attempt[a][r], phase[a]))'
               /\ attempt'[a][r].act # "none" => a \in overlapped'
    <3>1. /\ ShapeOK(attempt[a][r]) /\ OrderOK(attempt[a][r], phase[a])
          /\ attempt[a][r].act # "none" /\ s # r => a \in overlapped
      BY DEF FlowOf, s
    <3>2. attempt'[a][r] = IF r = s THEN Idle ELSE attempt[a][r]
      BY <2>1 DEF OnlyOne
    <3>3. OrderOK(attempt[a][r], phase'[a])
      BY <2>1, <2>2, <3>1, OrderNext
    <3>4. ShapeOK(attempt'[a][r]) /\ OrderOK(attempt'[a][r], phase'[a])
      BY <3>1, <3>2, <3>3, IdleIs
    <3>5. attempt'[a][r].act # "none" => a \in overlapped'
      BY <2>1, <3>1, <3>2, IdleIs
    <3> QED
      BY <3>4, <3>5 DEF ShapeOK, OrderOK
  <2>4. FlowAttempts(a)'
    BY <2>1, <2>3 DEF FlowAttempts
  <2>5. phase'[a] \notin Early \cup {"load"} /\ (phase[a] = "complete" => phase'[a] = "end")
    BY <2>1, <2>2 DEF NextPhase, Activities, Early
  <2>6. FlowRow(a)'
    BY <2>1, <2>2, <2>5 DEF FlowRow, FlowOf, Early, Activities
  <2> QED
    BY <2>4, <2>6 DEF FlowOf, FlowAttempts, FlowRow
<1>6. ASSUME NEW s \in Slots, StartAttempt(a, s) PROVE FlowOf(a)'
  <2> DEFINE n == attempt'[a][s]
  <2>1. /\ row' = row /\ table' = table /\ created' = created /\ phase' = phase
        /\ phase[a] \in Activities /\ live[a] = NoSlot /\ live'[a] = s
        /\ retried' = retried /\ overlapped' = overlapped /\ OnlyOne(a, s)
        /\ n.act = phase[a] /\ n.at = "begin" /\ n.todo = NoFindings
    BY <1>0, <1>6, StartAttemptIs
  <2>2. ShapeOK(n) /\ OrderOK(n, phase[a])
    <3> HIDE DEF n
    <3> QED
      BY <2>1 DEF ShapeOK, OrderOK, Activities
  <2>3. ASSUME NEW r \in Slots
        PROVE  /\ (ShapeOK(attempt[a][r]) /\ OrderOK(attempt[a][r], phase[a]))'
               /\ attempt'[a][r].act # "none" /\ s # r => a \in overlapped'
    <3>1. /\ ShapeOK(attempt[a][r]) /\ OrderOK(attempt[a][r], phase[a])
          /\ attempt[a][r].act # "none" /\ live[a] # r => a \in overlapped
      BY DEF FlowOf
    <3>2. attempt'[a][r] = IF r = s THEN n ELSE attempt[a][r]
      BY <2>1 DEF OnlyOne
    <3> HIDE DEF n
    <3>3. ShapeOK(attempt'[a][r]) /\ OrderOK(attempt'[a][r], phase'[a])
      BY <2>1, <2>2, <3>1, <3>2
    <3>4. attempt'[a][r].act # "none" /\ s # r => a \in overlapped'
      BY <1>0, <2>1, <3>1, <3>2
    <3> QED
      BY <3>3, <3>4 DEF ShapeOK, OrderOK
  <2>4. FlowAttempts(a)'
    BY <2>1, <2>3 DEF FlowAttempts
  <2>5. FlowRow(a)'
    BY <2>1 DEF FlowRow, FlowOf
  <2> QED
    BY <2>4, <2>5 DEF FlowOf, FlowAttempts, FlowRow
<1>7. ASSUME NEW s \in Slots, AbandonedAttemptEnds(a, s) PROVE FlowOf(a)'
  <2>1. /\ row' = row /\ table' = table /\ created' = created /\ phase' = phase
        /\ live' = live /\ retried' = retried /\ overlapped' = overlapped
        /\ live[a] # s /\ OnlyOne(a, s) /\ attempt'[a][s] = Idle
    BY <1>7, AbandonedEndsIs DEF Quiet, story
  <2>2. ASSUME NEW r \in Slots
        PROVE  /\ (ShapeOK(attempt[a][r]) /\ OrderOK(attempt[a][r], phase[a]))'
               /\ attempt'[a][r].act # "none" /\ live[a] # r => a \in overlapped'
    <3>1. /\ ShapeOK(attempt[a][r]) /\ OrderOK(attempt[a][r], phase[a])
          /\ attempt[a][r].act # "none" /\ live[a] # r => a \in overlapped
      BY DEF FlowOf
    <3>2. attempt'[a][r] = IF r = s THEN Idle ELSE attempt[a][r]
      BY <2>1 DEF OnlyOne
    <3>3. ShapeOK(attempt'[a][r]) /\ OrderOK(attempt'[a][r], phase'[a])
      BY <2>1, <3>1, <3>2, IdleIs
    <3>4. attempt'[a][r].act # "none" /\ live[a] # r => a \in overlapped'
      BY <2>1, <3>1, <3>2, IdleIs
    <3> QED
      BY <3>3, <3>4 DEF ShapeOK, OrderOK
  <2>3. live'[a] # NoSlot => phase'[a] \in Activities /\ attempt'[a][live'[a]].act = phase'[a]
    <3>1. live[a] # NoSlot => phase[a] \in Activities /\ attempt[a][live[a]].act = phase[a]
      BY DEF FlowOf
    <3>2. live[a] # NoSlot => attempt'[a][live[a]] = attempt[a][live[a]]
      BY <1>0, <2>1 DEF OnlyOne
    <3> QED
      BY <2>1, <3>1, <3>2
  <2>4. FlowAttempts(a)'
    BY <2>1, <2>2, <2>3 DEF FlowAttempts
  <2>5. FlowRow(a)'
    BY <2>1 DEF FlowRow, FlowOf
  <2> QED
    BY <2>4, <2>5 DEF FlowOf, FlowAttempts, FlowRow
<1>8. \A s \in Slots : AttemptStep(a, s) => FlowOf(a)'
  BY FlowAttemptStep
<1> QED
  BY <1>1, <1>2, <1>3, <1>4, <1>5, <1>6, <1>7, <1>8 DEF Act

-----------------------------------------------------------------------------
(***************************************************************************)
(* What a step changes: rows, tables, links.                               *)
(***************************************************************************)
\* Only TriggerAudit sets the type and the link of an audit.
LEMMA LinkKept ==
  ASSUME TypeOK, NEW a \in Audits, FlowOf(a), Act(a), phase[a] # "none"
  PROVE  row'[a].type = row[a].type /\ row'[a].prev = row[a].prev
<1>1. \A s \in Slots : AttemptStep(a, s) =>
        row'[a].type = row[a].type /\ row'[a].prev = row[a].prev
  BY RowStep DEF FlowOf
<1>2. CreateAudit(a) => row'[a].type = row[a].type /\ row'[a].prev = row[a].prev
  BY CreateIs
<1>3. GiveUp(a) => row'[a].type = row[a].type /\ row'[a].prev = row[a].prev
  BY GiveUpIs
<1> QED
  BY <1>1, <1>2, <1>3
  DEF Act, rows, TriggerAudit, LoseAttempt, WorkflowContinues, StartAttempt,
      AbandonedAttemptEnds

\* Only the attempts that copy or insert change the findings, and add one.
LEMMA TableSteps ==
  ASSUME TypeOK, NEW a \in Audits, FlowOf(a), Act(a)
  PROVE  \/ table' = table
         \/ \E s \in Slots : CopyFinding(a, s) \/ CreateFinding(a, s)
<1>1. \A s \in Slots : AttemptStep(a, s) =>
        table' = table \/ CopyFinding(a, s) \/ CreateFinding(a, s)
  BY DEF AttemptStep, GetFindingsForAudit, GetAnalysisResults, NextIssue, ListExhausted,
         CountFindingsBySeverity, UpdateAuditProgress, UpdateAuditStatus
<1> QED
  BY <1>1
  DEF Act, rows, TriggerAudit, CreateAudit, GiveUp, LoseAttempt, WorkflowContinues,
      StartAttempt, AbandonedAttemptEnds

\* Nobody inserts once the awaited attempts are past it, but for attempts that
\* outlived their deadline.
LEMMA TableKept ==
  ASSUME TypeOK, NEW a \in Audits, FlowOf(a), Act(a),
         phase[a] \notin {"load", "generate"}, a \notin overlapped'
  PROVE  table' = table
<1>1. ASSUME NEW s \in Slots, attempt[a][s].act \in {"load", "generate"}
      PROVE  a \in overlapped
  <2>1. live[a] # s
    BY <1>1, FindingsAssumption DEF FlowOf
  <2> QED
    BY <1>1, <2>1 DEF FlowOf
<1>2. ASSUME NEW s \in Slots, CopyFinding(a, s) \/ CreateFinding(a, s) PROVE FALSE
  <2>1. attempt[a][s].act \in {"load", "generate"}
    BY <1>2 DEF CopyFinding, CreateFinding, Doing
  <2>2. overlapped' = overlapped
    BY <1>2 DEF CopyFinding, CreateFinding, Becomes, story
  <2> QED
    BY <1>1, <2>1, <2>2
<1> QED
  BY <1>2, TableSteps

LEMMA PhaseSteps ==
  ASSUME TypeOK, NEW a \in Audits, FlowOf(a), Act(a)
  PROVE  \/ phase'[a] = phase[a]
         \/ phase[a] = "none" /\ phase'[a] = "linked"
         \/ /\ CreateAudit(a) /\ phase[a] = "linked"
            /\ phase'[a] = (IF row[a].type = "incremental" THEN "load" ELSE "generate")
         \/ GiveUp(a) /\ phase[a] \in Activities /\ phase'[a] = "end"
         \/ WorkflowContinues(a) /\ phase[a] \in Activities /\ phase'[a] = NextPhase(phase[a])
<1>0. phase \in [Audits -> Activities \cup {"none", "linked", "end"}]
  BY DEF TypeOK
<1>1. \A type \in {"full", "incremental"} : TriggerAudit(a, type) =>
        phase[a] = "none" /\ phase'[a] = "linked"
  BY <1>0, TriggerIs
<1>2. CreateAudit(a) =>
        /\ phase[a] = "linked"
        /\ phase'[a] = (IF row[a].type = "incremental" THEN "load" ELSE "generate")
  BY <1>0, CreateIs
<1>3. GiveUp(a) => phase[a] \in Activities /\ phase'[a] = "end"
  BY <1>0, GiveUpIs
<1>4. WorkflowContinues(a) => phase[a] \in Activities /\ phase'[a] = NextPhase(phase[a])
  BY <1>0, ContinuesIs DEF FlowOf
<1>5. \A s \in Slots : AttemptStep(a, s) => phase'[a] = phase[a]
  BY AttemptStepIs DEF FlowOf, Quiet
<1> QED
  BY <1>1, <1>2, <1>3, <1>4, <1>5
  DEF Act, LoseAttempt, StartAttempt, AbandonedAttemptEnds

\* An audit that was completed has its findings, and no phase of its own left
\* in which they change.
LEMMA SteadyIs ==
  ASSUME TypeOK, NEW a \in Audits, FlowOf(a), Act(a), NEW p \in Audits,
         phase[p] \in {"complete", "end"}
  PROVE  /\ phase'[p] \in {"complete", "end"}
         /\ p \notin overlapped' => table'[p] = table[p] /\ p \notin overlapped
         /\ p \notin retried' => p \notin retried
<1>1. CASE p = a
  <2>1. phase'[a] \in {"complete", "end"}
    BY <1>1, PhaseSteps DEF NextPhase, Activities
  <2>2. a \notin overlapped' => table'[a] = table[a]
    BY <1>1, TableKept
  <2>3. overlapped \subseteq overlapped' /\ retried \subseteq retried'
    <3>1. \A s \in Slots : AttemptStep(a, s) => overlapped' = overlapped /\ retried' = retried
      BY AttemptStepIs DEF FlowOf, Quiet, story
    <3> QED
      BY <3>1 DEF Act, TriggerAudit, CreateAudit, GiveUp, LoseAttempt, WorkflowContinues,
        StartAttempt, AbandonedAttemptEnds, story
  <2> QED
    BY <1>1, <2>1, <2>2, <2>3
<1>2. CASE p # a
  BY <1>2, Elsewhere DEF Same
<1> QED
  BY <1>1, <1>2

LEMMA LinkAct ==
  ASSUME TypeOK, \A b \in Audits : FlowOf(b) /\ LinkOf(b), NEW a \in Audits, Act(a),
         NEW b \in Audits
  PROVE  LinkOf(b)'
<1>1. ASSUME row'[b].prev = row[b].prev, row'[b].type = row[b].type PROVE LinkOf(b)'
  <2> SUFFICES ASSUME row[b].prev # None
               PROVE  /\ row[b].prev # b /\ row[b].type = "incremental"
                      /\ phase'[row[b].prev] \in {"complete", "end"}
    BY <1>1 DEF LinkOf
  <2>1. /\ row[b].prev # b /\ row[b].type = "incremental"
        /\ phase[row[b].prev] \in {"complete", "end"} /\ row[b].prev \in Audits
    BY AuditTypes DEF LinkOf
  <2>2. phase'[row[b].prev] \in {"complete", "end"}
    BY <2>1, SteadyIs
  <2> QED
    BY <2>1, <2>2
<1>2. CASE b # a
  BY <1>1, <1>2, Elsewhere DEF Same
<1>3. CASE b = a /\ phase[a] # "none"
  BY <1>1, <1>3, LinkKept
<1>4. CASE b = a /\ phase[a] = "none"
  <2>1. PICK type \in {"full", "incremental"} : TriggerAudit(a, type) \/ row' = row
    <3>1. \A s \in Slots : ~AttemptStep(a, s)
      <4> SUFFICES ASSUME NEW s \in Slots, AttemptStep(a, s) PROVE FALSE
        OBVIOUS
      <4>1. attempt[a][s] = Idle
        BY <1>4, IdleBefore DEF Early
      <4> QED
        BY <4>1, ShapeStep, IdleIs DEF FlowOf
    <3> QED
      BY <1>4, <3>1 DEF Act, rows, CreateAudit, LoseAttempt, GiveUp, WorkflowContinues,
        StartAttempt, AbandonedAttemptEnds, Activities
  <2>2. CASE row' = row
    BY <1>1, <2>2
  <2>3. CASE TriggerAudit(a, type)
    <3> SUFFICES ASSUME row'[a].prev # None
                 PROVE  /\ row'[a].prev # a /\ row'[a].type = "incremental"
                        /\ phase'[row'[a].prev] \in {"complete", "end"}
      BY <1>4 DEF LinkOf
    <3>1. /\ row'[a].type = type
          /\ row'[a].prev = IF type = "incremental" THEN GetPreviousCompletedAudit ELSE None
      BY <2>3, TriggerIs
    <3>2. type = "incremental" /\ row'[a].prev = GetPreviousCompletedAudit
      BY <3>1
    <3>3. PICK k \in DOMAIN created :
            /\ GetPreviousCompletedAudit = created[k] /\ created[k] \in Audits
            /\ row[created[k]].status = "completed"
      BY <3>2, PreviousIs
    <3>4. created[k] # a
      BY <1>4, <3>3 DEF FlowOf, Early
    <3>5. phase[created[k]] \in {"complete", "end"}
      BY <3>3 DEF FlowOf
    <3>6. phase'[created[k]] \in {"complete", "end"}
      BY <3>3, <3>5, SteadyIs
    <3> QED
      BY <3>1, <3>2, <3>3, <3>4, <3>6
  <2> QED
    BY <2>1, <2>2, <2>3
<1> QED
  BY <1>2, <1>3, <1>4

-----------------------------------------------------------------------------
(***************************************************************************)
(* Every issue has its finding.                                            *)
(***************************************************************************)
LEMMA PendingIs ==
  ASSUME NEW t \in Attempt, NEW f \in Finding
  PROVE  /\ Pending(t, f) \in Nat
         /\ t.at # "insert" => Pending(t, f) = t.todo[f]
         /\ t.at = "insert" => Pending(t, f) = IF t.cur = f THEN t.todo[f] + 1 ELSE t.todo[f]
<1>1. t.todo[f] \in Nat
  BY AttemptIs DEF Bags
<1> QED
  BY <1>1 DEF Pending

LEMMA HeldGrows ==
  ASSUME NEW bag \in Bags, NEW big \in Bags, \A f \in Finding : bag[f] <= big[f]
  PROVE  Held(bag) \subseteq Held(big)
<1>1. \A f \in Finding : bag[f] > 0 => big[f] > 0
  BY DEF Bags
<1> QED
  BY <1>1 DEF Held

LEMMA RecordGrows ==
  ASSUME NEW bag \in Bags, NEW big \in Bags, \A f \in Finding : bag[f] <= big[f],
         NEW type
  PROVE  /\ \A t \in Attempt : OnRecord(t, type, bag) => OnRecord(t, type, big)
         /\ \A is \in Analyses \cup {{}} :
              AllOnRecord(is, type, bag) => AllOnRecord(is, type, big)
<1>1. Held(bag) \subseteq Held(big)
  BY HeldGrows
<1>2. \A f \in Finding : bag[f] \in Nat /\ big[f] \in Nat /\ bag[f] <= big[f]
  BY DEF Bags
<1>3. ASSUME NEW is \in Analyses \cup {{}}, NEW f \in Finding
      PROVE  FromAnalysis(is)[f] \in Nat
  BY AnalysisIsFinite, FromAnalysisIs DEF Bags
<1>4. ASSUME NEW t \in Attempt, OnRecord(t, type, bag) PROVE OnRecord(t, type, big)
  <2> SUFFICES ASSUME t.act = "generate" /\ t.at # "begin", NEW f \in Finding
               PROVE  /\ type = "full" => big[f] + Pending(t, f) >= FromAnalysis(t.src)[f]
                      /\ FromAnalysis(t.src)[f] > 0 => Pending(t, f) > 0 \/ Place(f) \in Held(big)
    BY DEF OnRecord
  <2>1. /\ type = "full" => bag[f] + Pending(t, f) >= FromAnalysis(t.src)[f]
        /\ FromAnalysis(t.src)[f] > 0 => Pending(t, f) > 0 \/ Place(f) \in Held(bag)
    BY <1>4 DEF OnRecord
  <2>2. Pending(t, f) \in Nat /\ FromAnalysis(t.src)[f] \in Nat
    BY <1>3, PendingIs, AttemptIs
  <2>3. type = "full" => big[f] + Pending(t, f) >= FromAnalysis(t.src)[f]
    <3> DEFINE x == Pending(t, f)
               y == FromAnalysis(t.src)[f]
    <3>1. x \in Nat /\ y \in Nat /\ bag[f] \in Nat /\ big[f] \in Nat /\ bag[f] <= big[f]
      BY <1>2, <2>2
    <3>2. type = "full" => bag[f] + x >= y
      BY <2>1
    <3> HIDE DEF x, y
    <3>3. bag[f] + x >= y => big[f] + x >= y
      BY <3>1
    <3> QED
      BY <3>2, <3>3 DEF x, y
  <2> QED
    BY <1>1, <2>1, <2>3
<1>5. ASSUME NEW is \in Analyses \cup {{}}, AllOnRecord(is, type, bag)
      PROVE  AllOnRecord(is, type, big)
  <2> SUFFICES ASSUME NEW f \in Finding
               PROVE  /\ type = "full" => big[f] >= FromAnalysis(is)[f]
                      /\ FromAnalysis(is)[f] > 0 => Place(f) \in Held(big)
    BY DEF AllOnRecord
  <2>1. FromAnalysis(is)[f] \in Nat
    BY <1>3
  <2>2. /\ type = "full" => bag[f] >= FromAnalysis(is)[f]
        /\ FromAnalysis(is)[f] > 0 => Place(f) \in Held(bag)
    BY <1>5 DEF AllOnRecord
  <2>3. bag[f] >= FromAnalysis(is)[f] => big[f] >= FromAnalysis(is)[f]
    BY <1>2, <2>1
  <2> QED
    BY <1>1, <2>2, <2>3
<1> QED
  BY <1>4, <1>5

LEMMA MoreHolds ==
  ASSUME NEW bag \in Bags, NEW f \in Finding
  PROVE  Place(f) \in Held(More(bag, f)) /\ More(bag, f)[f] > 0
<1>1. More(bag, f)[f] = bag[f] + 1 /\ bag[f] \in Nat
  BY MoreIs DEF Bags
<1>2. More(bag, f)[f] > 0
  BY <1>1
<1> QED
  BY <1>2 DEF Held

\* Picking an issue, skipping one whose place is taken, inserting a finding.
LEMMA PickKeepsRecord ==
  ASSUME NEW t \in Attempt, NEW n \in Attempt, NEW f \in Finding, NEW bag \in Bags, NEW type,
         OnRecord(t, type, bag), t.act = "generate", t.at = "scanning",
         t.todo[f] > 0, n.todo = Done(t.todo, f), n.src = t.src, n.at = "insert", n.cur = f
  PROVE  OnRecord(n, type, bag)
<1>1. \A g \in Finding : Pending(n, g) = Pending(t, g)
  <2> SUFFICES ASSUME NEW g \in Finding PROVE Pending(n, g) = Pending(t, g)
    OBVIOUS
  <2>1. t.todo \in Bags /\ t.todo[f] \in Nat
    BY AttemptIs DEF Bags
  <2>2. n.todo[f] = t.todo[f] - 1 /\ (g # f => n.todo[g] = t.todo[g])
    BY <2>1, DoneIs
  <2>3. Pending(t, g) = t.todo[g]
    BY PendingIs
  <2>4. Pending(n, g) = IF g = f THEN n.todo[g] + 1 ELSE n.todo[g]
    BY PendingIs
  <2> QED
    BY <2>1, <2>2, <2>3, <2>4
<1> QED
  BY <1>1 DEF OnRecord

LEMMA SkipKeepsRecord ==
  ASSUME NEW t \in Attempt, NEW n \in Attempt, NEW f \in Finding, NEW bag \in Bags, NEW type,
         OnRecord(t, type, bag), t.act = "generate", t.at = "scanning",
         type = "incremental", Place(f) \in Held(bag),
         t.todo[f] > 0, n.todo = Done(t.todo, f), n.src = t.src, n.at = "scanning"
  PROVE  OnRecord(n, type, bag)
<1>1. \A g \in Finding : g # f => Pending(n, g) = Pending(t, g)
  <2>1. t.todo \in Bags
    BY AttemptIs
  <2>2. \A g \in Finding : g # f => n.todo[g] = t.todo[g]
    BY <2>1, DoneIs
  <2> QED
    BY <2>2, PendingIs
<1>2. \A g \in Finding : FromAnalysis(t.src)[g] > 0 => Pending(t, g) > 0 \/ Place(g) \in Held(bag)
  BY DEF OnRecord
<1>3. \A g \in Finding : FromAnalysis(t.src)[g] > 0 => Pending(n, g) > 0 \/ Place(g) \in Held(bag)
  BY <1>1, <1>2
<1> QED
  BY <1>3 DEF OnRecord

LEMMA InsertKeepsRecord ==
  ASSUME NEW t \in Attempt, NEW n \in Attempt, NEW bag \in Bags, NEW type,
         OnRecord(t, type, bag), t.act = "generate", t.at = "insert", t.cur \in Finding,
         n.todo = t.todo, n.src = t.src, n.at = "scanning"
  PROVE  OnRecord(n, type, More(bag, t.cur))
<1> DEFINE big == More(bag, t.cur)
           f == t.cur
<1>1. big \in Bags /\ big[f] = bag[f] + 1 /\ \A g \in Finding : g # f => big[g] = bag[g]
  BY MoreIs
<1>2. Place(f) \in Held(big) /\ Held(bag) \subseteq Held(big)
  <2>1. \A g \in Finding : bag[g] <= big[g]
    BY MoreIs
  <2> QED
    BY <1>1, <2>1, MoreHolds, HeldGrows
<1> HIDE DEF big
<1>3. ASSUME NEW g \in Finding PROVE big[g] + Pending(n, g) = bag[g] + Pending(t, g)
  <2>1. Pending(n, g) = t.todo[g] /\ Pending(t, g) = IF f = g THEN t.todo[g] + 1 ELSE t.todo[g]
    BY PendingIs
  <2>2. t.todo[g] \in Nat /\ bag[g] \in Nat /\ big[g] \in Nat
    BY <1>1, AttemptIs DEF Bags
  <2>3. big[g] = IF f = g THEN bag[g] + 1 ELSE bag[g]
    BY <1>1
  <2> HIDE DEF f
  <2> QED
    BY <2>1, <2>2, <2>3
<1>4. ASSUME NEW g \in Finding, FromAnalysis(t.src)[g] > 0
      PROVE  Pending(n, g) > 0 \/ Place(g) \in Held(big)
  <2>1. Pending(t, g) > 0 \/ Place(g) \in Held(bag)
    BY <1>4 DEF OnRecord
  <2>2. g # f => Pending(n, g) = Pending(t, g)
    BY PendingIs
  <2> QED
    BY <1>2, <2>1, <2>2
<1>5. type = "full" =>
        \A g \in Finding : big[g] + Pending(n, g) >= FromAnalysis(n.src)[g]
  BY <1>3 DEF OnRecord
<1>6. OnRecord(n, type, big)
  BY <1>4, <1>5 DEF OnRecord
<1> QED
  BY <1>6 DEF big

\* An attempt after a step: the same, gone, at its begin, or moved by its step.
LEMMA AttemptsAfter ==
  ASSUME TypeOK, NEW a \in Audits, FlowOf(a), Act(a), NEW r \in Slots
  PROVE  \/ attempt'[a][r] = attempt[a][r]
         \/ attempt'[a][r] = Idle
         \/ StartAttempt(a, r) /\ attempt'[a][r].at = "begin" /\ attempt'[a][r].act = phase[a]
         \/ AttemptStep(a, r) /\ attempt'[a][r].act = attempt[a][r].act
<1>1. (\E type \in {"full", "incremental"} : TriggerAudit(a, type)) => attempt' = attempt
  BY TriggerIs
<1>2. CreateAudit(a) => attempt' = attempt
  BY CreateIs
<1>3. ASSUME NEW goesOn \in BOOLEAN, LoseAttempt(a, goesOn)
      PROVE  attempt'[a][r] = attempt[a][r] \/ attempt'[a][r] = Idle
  <2>1. live[a] \in Slots
    BY <1>3, AuditTypes DEF LoseAttempt
  <2> QED
    BY <1>3, <2>1, LoseAttemptIs DEF OnlyOne
<1>4. GiveUp(a) => attempt' = attempt
  BY GiveUpIs
<1>5. WorkflowContinues(a) => attempt'[a][r] = attempt[a][r] \/ attempt'[a][r] = Idle
  BY ContinuesIs DEF OnlyOne
<1>6. ASSUME NEW s \in Slots, StartAttempt(a, s)
      PROVE  \/ attempt'[a][r] = attempt[a][r]
             \/ StartAttempt(a, r) /\ attempt'[a][r].at = "begin" /\ attempt'[a][r].act = phase[a]
  BY <1>6, StartAttemptIs DEF OnlyOne
<1>7. ASSUME NEW s \in Slots, AttemptStep(a, s)
      PROVE  \/ attempt'[a][r] = attempt[a][r]
             \/ AttemptStep(a, r) /\ attempt'[a][r].act = attempt[a][r].act
  <2>1. ShapeOK(attempt[a][s])
    BY DEF FlowOf
  <2> QED
    BY <1>7, <2>1, AttemptStepIs DEF OnlyOne
<1>8. ASSUME NEW s \in Slots, AbandonedAttemptEnds(a, s)
      PROVE  attempt'[a][r] = attempt[a][r] \/ attempt'[a][r] = Idle
  BY <1>8, AbandonedEndsIs DEF OnlyOne
<1> QED
  BY <1>1, <1>2, <1>3, <1>4, <1>5, <1>6, <1>7, <1>8 DEF Act

LEMMA StatusSteps ==
  ASSUME TypeOK, NEW a \in Audits, FlowOf(a), Act(a), row'[a].status = "completed"
  PROVE  \/ row[a].status = "completed"
         \/ \E s \in Slots : UpdateAuditStatus(a, s)
<1>1. ASSUME NEW s \in Slots, AttemptStep(a, s)
      PROVE  row[a].status = "completed" \/ UpdateAuditStatus(a, s)
  <2>1. UpdateAuditProgress(a, s) => row'[a].status = row[a].status
    BY UpdateProgressIs DEF FlowOf
  <2> QED
    BY <1>1, <2>1 DEF AttemptStep, GetFindingsForAudit, CopyFinding, GetAnalysisResults,
      NextIssue, CreateFinding, ListExhausted, CountFindingsBySeverity
<1>2. \A type \in {"full", "incremental"} : TriggerAudit(a, type) => row'[a].status = row[a].status
  BY TriggerIs
<1>3. CreateAudit(a) => row'[a].status = "running"
  BY CreateIs
<1>4. GiveUp(a) => row'[a].status = "failed"
  BY GiveUpIs
<1> QED
  BY <1>1, <1>2, <1>3, <1>4
  DEF Act, rows, LoseAttempt, WorkflowContinues, StartAttempt, AbandonedAttemptEnds

LEMMA UpdateStatusActs ==
  ASSUME TypeOK, NEW a \in Audits, FlowOf(a), NEW s \in Slots, UpdateAuditStatus(a, s)
  PROVE  attempt[a][s].act = "complete"
BY UpdateStatusIs DEF FlowOf

\* GenerateFindings has returned already, or returns in this step.
LEMMA PassedSteps ==
  ASSUME TypeOK, NEW a \in Audits, FlowOf(a), Act(a), Passed(a)'
  PROVE  Passed(a) \/ (WorkflowContinues(a) /\ phase[a] = "generate")
<1>1. CASE phase'[a] \in {"score", "complete"}
  <2>1. phase[a] \in {"score", "complete"} \/ (WorkflowContinues(a) /\ phase[a] = "generate")
    BY <1>1, PhaseSteps DEF NextPhase, Activities
  <2> QED
    BY <2>1 DEF Passed
<1>2. CASE row'[a].status = "completed"
  BY <1>2, StatusSteps, UpdateStatusActs DEF Passed
<1>3. ASSUME NEW s \in Slots, attempt'[a][s].act \in {"score", "complete"}
      PROVE  Passed(a)
  BY <1>3, AttemptsAfter, IdleIs DEF Passed
<1> QED
  BY <1>1, <1>2, <1>3 DEF Passed

\* What GenerateFindings reported stays, until it reports.
LEMMA ReportedKept ==
  ASSUME TypeOK, NEW a \in Audits, FlowOf(a), Act(a)
  PROVE  reported'[a] = reported[a] \/ (WorkflowContinues(a) /\ phase[a] = "generate")
<1>1. \A s \in Slots : AttemptStep(a, s) => reported' = reported
  BY AttemptStepIs DEF FlowOf, Quiet, story
<1> QED
  BY <1>1 DEF Act, TriggerAudit, CreateAudit, LoseAttempt, GiveUp, WorkflowContinues,
    StartAttempt, AbandonedAttemptEnds, story

LEMMA TableGrows ==
  ASSUME TypeOK, NEW a \in Audits, FlowOf(a), Act(a)
  PROVE  /\ table'[a] \in Bags /\ \A f \in Finding : table[a][f] <= table'[a][f]
         /\ table' = table \/ \E f \in Finding : OneMore(a, f)
<1>1. table[a] \in Bags
  BY AuditTypes
<1>2. CASE table' = table
  BY <1>1, <1>2 DEF Bags
<1>3. ASSUME NEW f \in Finding, OneMore(a, f)
      PROVE  table'[a] \in Bags /\ \A g \in Finding : table[a][g] <= table'[a][g]
  BY <1>1, <1>3, MoreIs DEF OneMore
<1>4. table' = table \/ \E f \in Finding : OneMore(a, f)
  <2>1. \A s \in Slots : CopyFinding(a, s) => \E f \in Finding : OneMore(a, f)
    BY CopyFindingIs
  <2>2. \A s \in Slots : CreateFinding(a, s) => \E f \in Finding : OneMore(a, f)
    BY CreateFindingIs DEF FlowOf
  <2> QED
    BY <2>1, <2>2, TableSteps
<1> QED
  BY <1>2, <1>3, <1>4

LEMMA RecordStep ==
  ASSUME TypeOK, NEW a \in Audits, FlowOf(a), NEW s \in Slots, AttemptStep(a, s),
         OnRecord(attempt[a][s], row[a].type, table[a])
  PROVE  OnRecord(attempt'[a][s], row[a].type, table'[a])
<1> DEFINE t == attempt[a][s]
           n == attempt'[a][s]
           bag == table[a]
           type == row[a].type
<1>0. /\ t \in Attempt /\ n \in Attempt /\ bag \in Bags /\ ShapeOK(t)
      /\ OnRecord(t, type, bag) /\ type \in {"full", "incremental"}
  <2>1. n \in Attempt
    BY AttemptStepIs DEF OnlyOne, FlowOf, Attempts
  <2> QED
    BY <2>1, TypesAre, AuditTypes DEF FlowOf
<1>1. CASE t.act # "generate"
  <2>1. n.act = t.act
    BY AttemptStepIs DEF FlowOf
  <2> QED
    BY <1>1, <2>1 DEF OnRecord
<1>2. CASE t.act = "generate" /\ GetAnalysisResults(a, s)
  <2>1. n.at = "scanning" /\ n.todo = FromAnalysis(n.src) /\ n.src \in Analyses /\ table' = table
    BY <1>2, GetAnalysisIs
  <2>2. \A f \in Finding : Pending(n, f) = FromAnalysis(n.src)[f] /\ Pending(n, f) \in Nat
    BY <1>0, <2>1, PendingIs
  <2>3. \A f \in Finding : bag[f] \in Nat
    BY <1>0 DEF Bags
  <2> HIDE DEF n, bag, type
  <2>4. OnRecord(n, type, bag)
    BY <2>2, <2>3 DEF OnRecord
  <2> QED
    BY <2>1, <2>4 DEF n, bag, type
<1>3. CASE t.act = "generate" /\ NextIssue(a, s)
  <2>1. PICK f \in Finding :
          /\ t.todo[f] > 0 /\ n.todo = Done(t.todo, f) /\ t.at = "scanning" /\ n.src = t.src
          /\ \/ type = "incremental" /\ Place(f) \in Held(bag) /\ n.at = "scanning"
             \/ n.at = "insert" /\ n.cur = f
    BY <1>3, NextIssueIs DEF Moved
  <2>2. table' = table
    BY <1>3, NextIssueIs
  <2> HIDE DEF t, n, bag, type
  <2>3. CASE type = "incremental" /\ Place(f) \in Held(bag) /\ n.at = "scanning"
    <3>1. OnRecord(n, type, bag)
      BY <1>0, <1>3, <2>1, <2>3, SkipKeepsRecord
    <3> QED
      BY <2>2, <3>1 DEF n, bag, type
  <2>4. CASE n.at = "insert" /\ n.cur = f
    <3>1. OnRecord(n, type, bag)
      BY <1>0, <1>3, <2>1, <2>4, PickKeepsRecord
    <3> QED
      BY <2>2, <3>1 DEF n, bag, type
  <2> QED
    BY <2>1, <2>3, <2>4
<1>4. CASE t.act = "generate" /\ CreateFinding(a, s)
  <2>1. /\ t.at = "insert" /\ t.cur \in Finding /\ n.todo = t.todo /\ n.src = t.src
        /\ n.at = "scanning" /\ table'[a] = More(bag, t.cur)
    BY <1>0, <1>4, CreateFindingIs DEF Moved, OneMore
  <2> HIDE DEF t, n, bag, type
  <2>2. OnRecord(n, type, More(bag, t.cur))
    BY <1>0, <1>4, <2>1, InsertKeepsRecord
  <2> QED
    BY <2>1, <2>2 DEF n, bag, type
<1>5. CASE t.act = "generate" /\ ListExhausted(a, s)
  <2>1. /\ t.at = "scanning" /\ n.at = "ended" /\ n.todo = t.todo /\ n.src = t.src
        /\ table' = table
    <3>1. /\ t.at \in {"copying", "scanning"} /\ n.at = "ended" /\ n.todo = t.todo
          /\ n.src = t.src /\ table' = table
      BY <1>5, ListExhaustedIs DEF Moved
    <3> QED
      BY <1>0, <1>5, <3>1, ActIs
  <2>2. \A f \in Finding : Pending(n, f) = Pending(t, f)
    BY <1>0, <2>1, PendingIs
  <2> HIDE DEF t, n, bag, type
  <2>3. OnRecord(n, type, bag)
    BY <1>0, <1>5, <2>1, <2>2 DEF OnRecord
  <2> QED
    BY <2>1, <2>3 DEF n, bag, type
<1>6. CASE t.act = "generate" /\ (GetFindingsForAudit(a, s) \/ CopyFinding(a, s))
  BY <1>6, GetFindingsIs, CopyFindingIs
<1>7. CASE t.act = "generate" /\ (CountFindingsBySeverity(a, s) \/ UpdateAuditProgress(a, s)
                                    \/ UpdateAuditStatus(a, s))
  BY <1>0, <1>7, ActIs DEF CountFindingsBySeverity, UpdateAuditProgress, UpdateAuditStatus
<1> QED
  BY <1>1, <1>2, <1>3, <1>4, <1>5, <1>6, <1>7 DEF AttemptStep

LEMMA RecordedAct ==
  ASSUME TypeOK, NEW a \in Audits, FlowOf(a), Act(a), RecordedOf(a)
  PROVE  RecordedOf(a)'
<1>0. /\ table[a] \in Bags /\ table'[a] \in Bags
      /\ \A f \in Finding : table[a][f] <= table'[a][f]
  BY AuditTypes, TableGrows
<1>1. ASSUME NEW r \in Slots PROVE OnRecord(attempt'[a][r], row'[a].type, table'[a])
  <2>1. attempt[a][r] \in Attempt /\ OnRecord(attempt[a][r], row[a].type, table[a])
        /\ ShapeOK(attempt[a][r])
    BY TypesAre DEF RecordedOf, FlowOf
  <2>2. CASE attempt'[a][r].act # "generate" \/ attempt'[a][r].at = "begin"
    BY <2>2 DEF OnRecord
  <2>3. CASE AttemptStep(a, r)
    <3>1. row'[a].type = row[a].type
      BY <2>3, RowStep DEF FlowOf
    <3> QED
      BY <2>1, <2>3, <3>1, RecordStep
  <2>4. CASE attempt'[a][r] = attempt[a][r] /\ attempt'[a][r].act = "generate"
    <3>1. phase[a] # "none"
      BY <2>4, IdleBefore, IdleIs DEF Early
    <3>2. row'[a].type = row[a].type
      BY <3>1, LinkKept
    <3>3. OnRecord(attempt[a][r], row[a].type, table'[a])
      BY <1>0, <2>1, RecordGrows
    <3> QED
      BY <2>4, <3>2, <3>3
  <2> QED
    BY <2>2, <2>3, <2>4, AttemptsAfter, IdleIs
<1>2. ASSUME Passed(a)' PROVE AllOnRecord(reported'[a], row'[a].type, table'[a])
  <2>1. CASE Passed(a) /\ reported'[a] = reported[a]
    <3>1. phase[a] # "none"
      BY <2>1, IdleBefore, IdleIs DEF Passed, FlowOf, Early
    <3>2. row'[a].type = row[a].type
      BY <3>1, LinkKept
    <3>3. AllOnRecord(reported[a], row[a].type, table[a]) /\ reported[a] \in Analyses \cup {{}}
      BY <2>1, AuditTypes DEF RecordedOf
    <3>4. AllOnRecord(reported[a], row[a].type, table'[a])
      BY <1>0, <3>3, RecordGrows
    <3> QED
      BY <2>1, <3>2, <3>4
  <2>2. CASE WorkflowContinues(a) /\ phase[a] = "generate"
    <3> DEFINE t == attempt[a][live[a]]
    <3>1. /\ live[a] \in Slots /\ live[a] # NoSlot /\ t.at = "ended"
          /\ row' = row /\ table' = table /\ reported'[a] = t.src
      <4>1. reported \in [Audits -> Analyses \cup {{}}]
        BY DEF TypeOK
      <4> QED
        BY <2>2, <4>1, ContinuesIs
    <3>2. /\ t \in Attempt /\ t.act = "generate" /\ ShapeOK(t)
          /\ OnRecord(t, row[a].type, table[a])
      BY <2>2, <3>1, TypesAre DEF FlowOf, RecordedOf
    <3>3. ASSUME NEW f \in Finding PROVE Pending(t, f) = 0
      <4>1. t.todo = NoFindings /\ t.at # "insert"
        BY <3>1, <3>2 DEF ShapeOK
      <4>2. Pending(t, f) = t.todo[f]
        BY <3>2, <4>1, PendingIs
      <4> QED
        BY <4>1, <4>2 DEF NoFindings
    <3>4. \A f \in Finding : table[a][f] \in Nat /\ FromAnalysis(t.src)[f] \in Nat
      BY <1>0, <3>2, AttemptIs, AnalysisIsFinite, FromAnalysisIs DEF Bags
    <3> HIDE DEF t
    <3>5. AllOnRecord(t.src, row[a].type, table[a])
      <4> SUFFICES ASSUME NEW f \in Finding
                   PROVE  /\ row[a].type = "full" => table[a][f] >= FromAnalysis(t.src)[f]
                          /\ FromAnalysis(t.src)[f] > 0 => Place(f) \in Held(table[a])
        BY DEF AllOnRecord
      <4>1. /\ row[a].type = "full" => table[a][f] + Pending(t, f) >= FromAnalysis(t.src)[f]
            /\ FromAnalysis(t.src)[f] > 0 => Pending(t, f) > 0 \/ Place(f) \in Held(table[a])
        BY <3>1, <3>2 DEF OnRecord
      <4>2. Pending(t, f) = 0 /\ table[a][f] \in Nat
        BY <3>3, <3>4
      <4>3. table[a][f] + Pending(t, f) = table[a][f] /\ ~(Pending(t, f) > 0)
        BY <4>2
      <4> QED
        BY <4>1, <4>3
    <3> QED
      BY <3>1, <3>5 DEF t
  <2> QED
    BY <1>2, <2>1, <2>2, PassedSteps, ReportedKept
<1> QED
  BY <1>1, <1>2 DEF RecordedOf

LEMMA RecordedStays ==
  ASSUME NEW b \in Audits, Same(b), RecordedOf(b)
  PROVE  RecordedOf(b)'
<1>1. \A s \in Slots : OnRecord(attempt'[b][s], row'[b].type, table'[b])
  BY DEF Same, RecordedOf
<1>2. Passed(b)' => Passed(b)
  BY DEF Same, Passed
<1> QED
  BY <1>1, <1>2 DEF Same, RecordedOf

-----------------------------------------------------------------------------
(***************************************************************************)
(* The baseline is carried over.                                           *)
(***************************************************************************)
LEMMA IdleAfter ==
  ASSUME TypeOK, NEW a \in Audits, FlowOf(a), Act(a), phase[a] \in Early, NEW r \in Slots
  PROVE  attempt'[a][r] = Idle
<1>1. attempt[a][r] = Idle
  BY IdleBefore
<1>2. ~StartAttempt(a, r)
  BY DEF StartAttempt, Early, Activities
<1>3. ~AttemptStep(a, r)
  BY <1>1, ShapeStep, IdleIs DEF FlowOf
<1> QED
  BY <1>1, <1>2, <1>3, AttemptsAfter

LEMMA CopyStep ==
  ASSUME TypeOK, NEW a \in Audits, FlowOf(a), NEW s \in Slots, AttemptStep(a, s),
         row[a].prev # None, row[a].prev # a,
         Copies(attempt[a][s], table[row[a].prev], table[a])
  PROVE  Copies(attempt'[a][s], table[row[a].prev], table'[a])
<1> DEFINE t == attempt[a][s]
           n == attempt'[a][s]
           bag == table[a]
           old == table[row[a].prev]
<1>0. /\ t \in Attempt /\ bag \in Bags /\ old \in Bags /\ ShapeOK(t)
      /\ Copies(t, old, bag) /\ n.act = t.act
  BY TypesAre, AuditTypes, AttemptStepIs DEF FlowOf
<1>1. CASE t.act # "load"
  BY <1>0, <1>1 DEF Copies
<1>2. CASE GetFindingsForAudit(a, s)
  <2>1. n.todo = old
    BY <1>2, GetFindingsIs
  <2> HIDE DEF n, old
  <2>2. Copies(n, old, table'[a])
    BY <2>1 DEF Copies
  <2> QED
    BY <2>2 DEF n, old
<1>3. CASE CopyFinding(a, s)
  <2>1. PICK f \in Finding : /\ t.todo[f] > 0 /\ n.todo = Done(t.todo, f)
                             /\ table'[a] = More(bag, f) /\ t.act = "load" /\ t.at = "copying"
    BY <1>3, CopyFindingIs DEF OneMore
  <2> DEFINE big == More(bag, f)
  <2>2. t.todo \in Bags
    BY <1>0, AttemptIs
  <2>3. \A g \in Finding : g # f => n.todo[g] = t.todo[g]
    BY <2>1, <2>2, DoneIs
  <2>4. big[f] > 0 /\ \A g \in Finding : g # f => big[g] = bag[g]
    BY <1>0, MoreIs, MoreHolds
  <2> HIDE DEF t, n, old, bag, big
  <2>5. Copies(n, old, big)
    BY <1>0, <2>1, <2>3, <2>4 DEF Copies
  <2> QED
    BY <2>1, <2>5 DEF n, old, big
<1>4. CASE ListExhausted(a, s) /\ t.act = "load"
  <2>1. n.todo = t.todo /\ table' = table /\ t.at # "begin"
    BY <1>4, ListExhaustedIs
  <2> HIDE DEF t, n, old, bag
  <2>2. Copies(n, old, bag)
    BY <1>0, <1>4, <2>1 DEF Copies
  <2> QED
    BY <2>1, <2>2 DEF n, old, bag
<1>5. CASE /\ t.act = "load"
           /\ \/ GetAnalysisResults(a, s) \/ NextIssue(a, s) \/ CreateFinding(a, s)
              \/ CountFindingsBySeverity(a, s) \/ UpdateAuditProgress(a, s)
              \/ UpdateAuditStatus(a, s)
  BY <1>0, <1>5, ActIs DEF GetAnalysisResults, NextIssue, CreateFinding, Doing,
    CountFindingsBySeverity, UpdateAuditProgress, UpdateAuditStatus
<1> QED
  BY <1>1, <1>2, <1>3, <1>4, <1>5 DEF AttemptStep

LEMMA BaselineAct ==
  ASSUME TypeOK, \A b \in Audits : FlowOf(b) /\ LinkOf(b), NEW a \in Audits, Act(a),
         NEW b \in Audits, BaselineOf(b)
  PROVE  BaselineOf(b)'
<1> SUFFICES ASSUME row'[b].prev # None, row'[b].prev \notin overlapped'
             PROVE  /\ \A s \in Slots :
                         Copies(attempt'[b][s], table'[row'[b].prev], table'[b])
                    /\ phase'[b] \in {"generate", "score", "complete"} =>
                         \A f \in Finding : table'[row'[b].prev][f] > 0 => table'[b][f] > 0
  BY DEF BaselineOf
<1>1. CASE b = a /\ phase[a] = "none"
  <2>1. \A s \in Slots : attempt'[a][s] = Idle
    BY <1>1, IdleAfter DEF Early
  <2>2. phase'[a] \notin {"generate", "score", "complete"}
    BY <1>1, PhaseSteps DEF Activities
  <2> QED
    BY <1>1, <2>1, <2>2, IdleIs DEF Copies
<1>2. CASE ~(b = a /\ phase[a] = "none")
  <2> DEFINE p == row[b].prev
  <2>1. row'[b].prev = p
    BY <1>2, Elsewhere, LinkKept DEF Same
  <2>2. p # None /\ p \in Audits /\ p # b /\ phase[p] \in {"complete", "end"}
        /\ row[b].type = "incremental"
    BY <2>1, AuditTypes DEF LinkOf
  <2>3. table'[p] = table[p] /\ p \notin overlapped
    BY <2>1, <2>2, SteadyIs
  <2>4. /\ \A s \in Slots : Copies(attempt[b][s], table[p], table[b])
        /\ phase[b] \in {"generate", "score", "complete"} =>
             \A f \in Finding : table[p][f] > 0 => table[b][f] > 0
    BY <2>2, <2>3 DEF BaselineOf
  <2> SUFFICES /\ \A s \in Slots : Copies(attempt'[b][s], table[p], table'[b])
               /\ phase'[b] \in {"generate", "score", "complete"} =>
                    \A f \in Finding : table[p][f] > 0 => table'[b][f] > 0
    BY <2>1, <2>3
  <2>5. CASE b # a
    BY <2>4, <2>5, Elsewhere DEF Same
  <2>6. CASE b = a
    <3>1. /\ table[a] \in Bags /\ table'[a] \in Bags
          /\ \A f \in Finding : table[a][f] <= table'[a][f]
      BY AuditTypes, TableGrows
    <3>2. \A f \in Finding : table[a][f] > 0 => table'[a][f] > 0
      BY <3>1 DEF Bags
    <3>3. ASSUME NEW r \in Slots PROVE Copies(attempt'[a][r], table[p], table'[a])
      <4>1. Copies(attempt[a][r], table[p], table[a])
        BY <2>4, <2>6
      <4>2. CASE attempt'[a][r] = attempt[a][r]
        BY <3>2, <4>1, <4>2 DEF Copies
      <4>3. CASE attempt'[a][r] = Idle \/ attempt'[a][r].at = "begin"
        BY <4>3, IdleIs DEF Copies
      <4>4. CASE AttemptStep(a, r)
        BY <2>2, <2>6, <4>1, <4>4, CopyStep
      <4> QED
        BY <4>2, <4>3, <4>4, AttemptsAfter
    <3>4. ASSUME phase'[a] \in {"generate", "score", "complete"},
                 NEW f \in Finding, table[p][f] > 0
          PROVE  table'[a][f] > 0
      <4>1. CASE phase[a] \in {"generate", "score", "complete"}
        BY <2>4, <2>6, <3>2, <3>4, <4>1
      <4>2. CASE phase[a] = "load" /\ WorkflowContinues(a)
        <5> DEFINE t == attempt[a][live[a]]
        <5>1. live[a] \in Slots /\ live[a] # NoSlot /\ t.at = "ended"
          BY <4>2, ContinuesIs
        <5>2. t.act = "load" /\ ShapeOK(t) /\ Copies(t, table[p], table[a])
          BY <2>4, <2>6, <4>2, <5>1 DEF FlowOf
        <5>3. t.todo[f] = 0
          BY <5>1, <5>2 DEF ShapeOK, NoFindings
        <5> HIDE DEF t
        <5>4. t.todo[f] > 0 \/ table[a][f] > 0
          BY <3>4, <5>1, <5>2 DEF Copies
        <5> QED
          BY <3>2, <5>3, <5>4
      <4>3. phase[a] \in {"generate", "score", "complete"}
              \/ (phase[a] = "load" /\ WorkflowContinues(a))
        BY <2>2, <2>6, <3>4, PhaseSteps DEF NextPhase, Activities
      <4> QED
        BY <4>1, <4>2, <4>3
    <3> QED
      BY <2>6, <3>3, <3>4
  <2> QED
    BY <2>5, <2>6
<1> QED
  BY <1>1, <1>2

-----------------------------------------------------------------------------
(***************************************************************************)
(* Scores are not understated, and reports add up.                         *)
(***************************************************************************)
\* Past its creation, only UpdateAuditProgress sets counters and score.
LEMMA CountsKept ==
  ASSUME TypeOK, NEW a \in Audits, FlowOf(a), Act(a), phase[a] \notin Early
  PROVE  \/ row'[a].counts = row[a].counts /\ row'[a].score = row[a].score
         \/ \E s \in Slots : UpdateAuditProgress(a, s)
<1>1. ~CreateAudit(a) /\ \A type \in {"full", "incremental"} : ~TriggerAudit(a, type)
  BY DEF CreateAudit, TriggerAudit, Early
<1>2. GiveUp(a) => row'[a].counts = row[a].counts /\ row'[a].score = row[a].score
  BY GiveUpIs
<1>3. ASSUME NEW s \in Slots, AttemptStep(a, s)
      PROVE  \/ row'[a].counts = row[a].counts /\ row'[a].score = row[a].score
             \/ UpdateAuditProgress(a, s)
  <2>1. UpdateAuditStatus(a, s) =>
          row'[a].counts = row[a].counts /\ row'[a].score = row[a].score
    BY UpdateStatusIs DEF FlowOf
  <2> QED
    BY <1>3, <2>1 DEF AttemptStep, GetFindingsForAudit, CopyFinding, GetAnalysisResults,
      NextIssue, CreateFinding, ListExhausted, CountFindingsBySeverity
<1> QED
  BY <1>1, <1>2, <1>3
  DEF Act, rows, LoseAttempt, WorkflowContinues, StartAttempt, AbandonedAttemptEnds

\* An attempt that counted, stored or ended had what it needed before.
LEMMA CountedStep ==
  ASSUME TypeOK, NEW a \in Audits, FlowOf(a), NEW s \in Slots, AttemptStep(a, s),
         attempt'[a][s].at = "counted"
  PROVE  CountFindingsBySeverity(a, s)
<1>1. \/ GetFindingsForAudit(a, s) \/ CopyFinding(a, s) \/ GetAnalysisResults(a, s)
      \/ NextIssue(a, s) \/ CreateFinding(a, s) \/ ListExhausted(a, s)
      => attempt'[a][s].at \in {"ended", "copying", "scanning", "insert"}
  BY GetFindingsIs, CopyFindingIs, GetAnalysisIs, NextIssueIs, CreateFindingIs,
     ListExhaustedIs DEF Moved, FlowOf
<1>2. UpdateAuditProgress(a, s) \/ UpdateAuditStatus(a, s)
      => attempt'[a][s].at \in {"stored", "ended"}
  BY UpdateProgressIs, UpdateStatusIs DEF Moved, FlowOf
<1> QED
  BY <1>1, <1>2 DEF AttemptStep

LEMMA EndedStep ==
  ASSUME TypeOK, NEW a \in Audits, FlowOf(a), NEW s \in Slots, AttemptStep(a, s),
         attempt'[a][s].act \in {"score", "complete"}, attempt'[a][s].at \in {"stored", "ended"}
  PROVE  UpdateAuditProgress(a, s) \/ UpdateAuditStatus(a, s)
<1>1. attempt[a][s].act \in {"score", "complete"} /\ ShapeOK(attempt[a][s])
      /\ attempt[a][s] \in Attempt
  BY AttemptStepIs, TypesAre DEF FlowOf
<1>2. ~ListExhausted(a, s)
  BY <1>1, ActIs DEF ListExhausted
<1>3. ~(\/ GetFindingsForAudit(a, s) \/ CopyFinding(a, s) \/ GetAnalysisResults(a, s)
        \/ NextIssue(a, s) \/ CreateFinding(a, s))
  BY <1>1 DEF GetFindingsForAudit, CopyFinding, GetAnalysisResults, NextIssue, CreateFinding, Doing
<1>4. ~CountFindingsBySeverity(a, s)
  BY CountFindingsIs DEF Moved
<1> QED
  BY <1>2, <1>3, <1>4 DEF AttemptStep

LEMMA ScoredSteps ==
  ASSUME TypeOK, NEW a \in Audits, FlowOf(a), Act(a), Scored(a)'
  PROVE  Scored(a) \/ \E s \in Slots : UpdateAuditProgress(a, s)
<1>1. CASE phase'[a] = "complete"
  <2>1. phase[a] = "complete" \/ (WorkflowContinues(a) /\ phase[a] = "score")
    BY <1>1, PhaseSteps DEF NextPhase, Activities
  <2>2. WorkflowContinues(a) /\ phase[a] = "score" => Scored(a)
    BY ContinuesIs DEF FlowOf, Scored
  <2> QED
    BY <2>1, <2>2 DEF Scored
<1>2. CASE row'[a].status = "completed"
  BY <1>2, StatusSteps, UpdateStatusActs DEF Scored
<1>3. ASSUME NEW s \in Slots, attempt'[a][s].act = "complete" PROVE Scored(a)
  BY <1>3, AttemptsAfter, IdleIs DEF Scored
<1>4. ASSUME NEW s \in Slots, attempt'[a][s].act = "score" /\ attempt'[a][s].at = "ended"
      PROVE  Scored(a) \/ UpdateAuditProgress(a, s)
  <2>1. AttemptStep(a, s) => UpdateAuditProgress(a, s) \/ UpdateAuditStatus(a, s)
    BY <1>4, EndedStep
  <2>2. UpdateAuditStatus(a, s) => Scored(a)
    BY UpdateStatusActs DEF Scored
  <2> QED
    BY <1>4, <2>1, <2>2, AttemptsAfter, IdleIs DEF Scored
<1> QED
  BY <1>1, <1>2, <1>3, <1>4 DEF Scored

LEMMA PassedIs ==
  ASSUME TypeOK, NEW a \in Audits, FlowOf(a), Passed(a)
  PROVE  phase[a] \in {"score", "complete", "end"}
BY DEF Passed, FlowOf, OrderOK

LEMMA ScoredIs ==
  ASSUME TypeOK, NEW a \in Audits, FlowOf(a), Scored(a)
  PROVE  Passed(a)
BY DEF Passed, Scored

LEMMA ScoreAct ==
  ASSUME TypeOK, NEW a \in Audits, FlowOf(a), Act(a), RecordedOf(a), ScoreOf(a)
  PROVE  ScoreOf(a)'
<1> SUFFICES ASSUME row'[a].type = "full"
             PROVE  /\ \A s \in Slots : attempt'[a][s].at = "counted" =>
                         CalculateCompositeScore(attempt'[a][s].seen) >= RiskOf(reported'[a])
                    /\ Scored(a)' => row'[a].score >= RiskOf(reported'[a])
  BY DEF ScoreOf
<1>1. ASSUME NEW s \in Slots, attempt[a][s].act \in {"score", "complete"}
      PROVE  /\ row[a].type = "full" /\ Passed(a) /\ reported'[a] = reported[a]
             /\ phase[a] \notin Early
  <2>1. Passed(a)
    BY <1>1 DEF Passed
  <2>2. phase[a] \in {"score", "complete", "end"}
    BY <2>1, PassedIs
  <2> QED
    BY <2>1, <2>2, LinkKept, ReportedKept DEF Early
<1>2. ASSUME NEW s \in Slots, attempt'[a][s].at = "counted"
      PROVE  CalculateCompositeScore(attempt'[a][s].seen) >= RiskOf(reported'[a])
  <2>1. CASE attempt'[a][s] = attempt[a][s]
    <3>1. attempt[a][s].act \in {"score", "complete"}
      BY <1>2, <2>1, ActIs, TypesAre DEF FlowOf
    <3> QED
      BY <1>1, <1>2, <2>1, <3>1 DEF ScoreOf
  <2>2. CASE AttemptStep(a, s)
    <3>1. /\ attempt[a][s].act \in {"score", "complete"}
          /\ attempt'[a][s].seen = Tally(table[a])
      BY <1>2, <2>2, CountedStep, CountFindingsIs
    <3>2. row[a].type = "full" /\ Passed(a) /\ reported'[a] = reported[a]
      BY <1>1, <3>1
    <3>3. /\ \A f \in Finding : table[a][f] >= FromAnalysis(reported[a])[f]
          /\ reported[a] \in Analyses \cup {{}} /\ table[a] \in Bags
      BY <3>2, AuditTypes DEF RecordedOf, AllOnRecord
    <3>4. CalculateCompositeScore(Tally(table[a])) >= RiskOf(reported[a])
      BY <3>3, HeldRiskIsScored
    <3> QED
      BY <3>1, <3>2, <3>4
  <2> QED
    BY <1>2, <2>1, <2>2, AttemptsAfter, IdleIs
<1>3. ASSUME Scored(a)' PROVE row'[a].score >= RiskOf(reported'[a])
  <2>1. ASSUME NEW s \in Slots, UpdateAuditProgress(a, s)
        PROVE  row'[a].score >= RiskOf(reported'[a])
    <3>1. /\ row'[a].score = CalculateCompositeScore(attempt[a][s].seen)
          /\ attempt[a][s].at = "counted" /\ attempt[a][s].act \in {"score", "complete"}
      BY <2>1, UpdateProgressIs DEF FlowOf
    <3>2. row[a].type = "full" /\ reported'[a] = reported[a]
      BY <1>1, <3>1
    <3> QED
      BY <3>1, <3>2 DEF ScoreOf
  <2>2. CASE Scored(a) /\ ~\E s \in Slots : UpdateAuditProgress(a, s)
    <3>1. phase[a] \in {"score", "complete", "end"}
      BY <2>2, ScoredIs, PassedIs
    <3>2. row[a].type = "full" /\ reported'[a] = reported[a] /\ row'[a].score = row[a].score
      BY <2>2, <3>1, LinkKept, ReportedKept, CountsKept DEF Early
    <3> QED
      BY <2>2, <3>2 DEF ScoreOf
  <2> QED
    BY <1>3, <2>1, <2>2, ScoredSteps
<1> QED
  BY <1>2, <1>3

LEMMA ScoreStays ==
  ASSUME NEW b \in Audits, Same(b), ScoreOf(b)
  PROVE  ScoreOf(b)'
<1>1. Scored(b)' => Scored(b)
  BY DEF Same, Scored
<1> QED
  BY <1>1 DEF Same, ScoreOf

\* Without an overlap the awaited attempt is the only one.
LEMMA OneAttempt ==
  ASSUME TypeOK, NEW a \in Audits, FlowOf(a), a \notin overlapped,
         NEW s \in Slots, attempt[a][s].act # "none"
  PROVE  /\ live[a] = s /\ phase[a] = attempt[a][s].act
         /\ \A r \in Slots : r # s => attempt[a][r].act = "none" /\ attempt[a][r] = Idle
<1>1. live[a] = s /\ s # NoSlot
  BY FindingsAssumption DEF FlowOf
<1> QED
  BY <1>1 DEF FlowOf, ShapeOK

LEMMA OverlapKept ==
  ASSUME TypeOK, NEW a \in Audits, FlowOf(a), Act(a)
  PROVE  overlapped \subseteq overlapped' /\ retried \subseteq retried'
<1>1. \A s \in Slots : AttemptStep(a, s) => overlapped' = overlapped /\ retried' = retried
  BY AttemptStepIs DEF FlowOf, Quiet, story
<1> QED
  BY <1>1 DEF Act, TriggerAudit, CreateAudit, GiveUp, LoseAttempt, WorkflowContinues,
    StartAttempt, AbandonedAttemptEnds, story

LEMMA ReportAct ==
  ASSUME TypeOK, NEW a \in Audits, FlowOf(a), FlowOf(a)', Act(a), ReportOf(a)
  PROVE  ReportOf(a)'
<1> SUFFICES ASSUME a \notin overlapped'
             PROVE  /\ \A s \in Slots :
                         /\ attempt'[a][s].at = "counted" =>
                              attempt'[a][s].seen = Tally(table'[a])
                         /\ attempt'[a][s].act = "complete"
                              /\ attempt'[a][s].at \in {"stored", "ended"} =>
                                 Matches(row'[a], table'[a])
                    /\ row'[a].status = "completed" => Matches(row'[a], table'[a])
  BY DEF ReportOf
<1>0. a \notin overlapped
  BY OverlapKept
<1>1. ASSUME NEW s \in Slots, attempt[a][s].act \in {"score", "complete"}
      PROVE  table' = table
  BY <1>0, <1>1, OneAttempt, TableKept
<1>2. ASSUME NEW s \in Slots, UpdateAuditProgress(a, s)
      PROVE  Matches(row'[a], table'[a])
  <2>1. /\ attempt[a][s].at = "counted" /\ row'[a].counts = attempt[a][s].seen
        /\ row'[a].score = CalculateCompositeScore(attempt[a][s].seen) /\ table' = table
    BY <1>2, UpdateProgressIs DEF FlowOf
  <2>2. attempt[a][s].seen = Tally(table[a])
    BY <1>0, <2>1 DEF ReportOf
  <2> QED
    BY <2>1, <2>2 DEF Matches
<1>3. ASSUME NEW s \in Slots, UpdateAuditStatus(a, s)
      PROVE  Matches(row'[a], table'[a])
  <2>1. /\ attempt[a][s].at = "stored" /\ attempt[a][s].act = "complete" /\ table' = table
        /\ row'[a].counts = row[a].counts /\ row'[a].score = row[a].score
    BY <1>3, UpdateStatusIs DEF FlowOf
  <2> QED
    BY <1>0, <2>1 DEF ReportOf, Matches
<1>4. ASSUME NEW s \in Slots, attempt'[a][s].at = "counted"
      PROVE  attempt'[a][s].seen = Tally(table'[a])
  <2>1. CASE attempt'[a][s] = attempt[a][s]
    <3>1. attempt[a][s].act \in {"score", "complete"}
      BY <1>4, <2>1, ActIs, TypesAre DEF FlowOf
    <3> QED
      BY <1>0, <1>1, <1>4, <2>1, <3>1 DEF ReportOf
  <2>2. CASE AttemptStep(a, s)
    BY <1>4, <2>2, CountedStep, CountFindingsIs
  <2> QED
    BY <1>4, <2>1, <2>2, AttemptsAfter, IdleIs
<1>5. ASSUME NEW s \in Slots, attempt'[a][s].act = "complete",
             attempt'[a][s].at \in {"stored", "ended"}
      PROVE  Matches(row'[a], table'[a])
  <2>1. CASE attempt'[a][s] = attempt[a][s]
    <3>1. table' = table /\ Matches(row[a], table[a]) /\ phase[a] = "complete"
      BY <1>0, <1>1, <1>5, <2>1, OneAttempt DEF ReportOf
    <3>2. CASE row'[a].counts = row[a].counts /\ row'[a].score = row[a].score
      BY <3>1, <3>2 DEF Matches
    <3> QED
      BY <1>2, <3>1, <3>2, CountsKept DEF Early
  <2>2. CASE AttemptStep(a, s)
    BY <1>2, <1>3, <1>5, <2>2, EndedStep
  <2> QED
    BY <1>5, <2>1, <2>2, AttemptsAfter, IdleIs
<1>6. ASSUME row'[a].status = "completed" PROVE Matches(row'[a], table'[a])
  <2>1. CASE row[a].status = "completed"
    <3>1. phase[a] \in {"complete", "end"} /\ Matches(row[a], table[a])
      BY <1>0, <2>1 DEF ReportOf, FlowOf
    <3>2. table' = table
      BY <3>1, TableKept
    <3>3. CASE row'[a].counts = row[a].counts /\ row'[a].score = row[a].score
      BY <3>1, <3>2, <3>3 DEF Matches
    <3> QED
      BY <1>2, <3>1, <3>3, CountsKept DEF Early
  <2> QED
    BY <1>3, <1>6, <2>1, StatusSteps
<1> QED
  BY <1>4, <1>5, <1>6

LEMMA ReportStays ==
  ASSUME NEW b \in Audits, Same(b), ReportOf(b)
  PROVE  ReportOf(b)'
BY DEF Same, ReportOf, Matches

-----------------------------------------------------------------------------
(***************************************************************************)
(* Incremental audits fill gaps.                                           *)
(***************************************************************************)
LEMMA LoadedSteps ==
  ASSUME TypeOK, NEW a \in Audits, FlowOf(a), Act(a), a \notin overlapped,
         row[a].type = "incremental", HasLoaded(a)'
  PROVE  HasLoaded(a) \/ (WorkflowContinues(a) /\ phase[a] = "load")
<1>1. CASE phase'[a] \in {"generate", "score", "complete"}
  BY <1>1, PhaseSteps DEF NextPhase, Activities, HasLoaded
<1>2. CASE row'[a].status = "completed"
  <2>1. ASSUME NEW s \in Slots, UpdateAuditStatus(a, s) PROVE phase[a] = "complete"
    BY <2>1, UpdateStatusActs, OneAttempt
  <2> QED
    BY <1>2, <2>1, StatusSteps DEF HasLoaded
<1> QED
  BY <1>1, <1>2 DEF HasLoaded

LEMMA CarriedKept ==
  ASSUME TypeOK, NEW a \in Audits, FlowOf(a), Act(a)
  PROVE  carried'[a] = carried[a] \/ (WorkflowContinues(a) /\ phase[a] = "load")
<1>1. \A s \in Slots : AttemptStep(a, s) => carried' = carried
  BY AttemptStepIs DEF FlowOf, Quiet, story
<1> QED
  BY <1>1 DEF Act, TriggerAudit, CreateAudit, LoseAttempt, GiveUp, WorkflowContinues,
    StartAttempt, AbandonedAttemptEnds, story

LEMMA PickedStep ==
  ASSUME TypeOK, NEW a \in Audits, FlowOf(a), NEW s \in Slots, AttemptStep(a, s),
         attempt'[a][s].at = "insert"
  PROVE  NextIssue(a, s)
<1>1. \/ GetFindingsForAudit(a, s) \/ CopyFinding(a, s) \/ GetAnalysisResults(a, s)
      \/ CreateFinding(a, s) \/ ListExhausted(a, s)
      => attempt'[a][s].at \in {"ended", "copying", "scanning"}
  BY GetFindingsIs, CopyFindingIs, GetAnalysisIs, CreateFindingIs, ListExhaustedIs DEF Moved, FlowOf
<1>2. CountFindingsBySeverity(a, s) \/ UpdateAuditProgress(a, s) \/ UpdateAuditStatus(a, s)
      => attempt'[a][s].at \in {"counted", "stored", "ended"}
  BY CountFindingsIs, UpdateProgressIs, UpdateStatusIs DEF Moved, FlowOf
<1> QED
  BY <1>1, <1>2 DEF AttemptStep

LEMMA GapsAct ==
  ASSUME TypeOK, NEW a \in Audits, FlowOf(a), FlowOf(a)', Act(a), GapsOf(a)
  PROVE  GapsOf(a)'
<1> SUFFICES ASSUME a \notin overlapped', row'[a].type = "incremental"
             PROVE  /\ HasLoaded(a)' =>
                         /\ \A p \in Places : At(table'[a], p) <= Allowed(At(carried'[a], p))
                         /\ \A f \in Finding : table'[a][f] <= Allowed(carried'[a][f])
                    /\ \A s \in Slots : attempt'[a][s].at = "insert" =>
                         At(table'[a], Place(attempt'[a][s].cur)) = 0
  BY DEF GapsOf
<1>0. a \notin overlapped
  BY OverlapKept
<1>1. CASE phase[a] \in Early
  <2>1. \A s \in Slots : attempt'[a][s] = Idle
    BY <1>1, IdleAfter
  <2>2. ~HasLoaded(a)'
    <3>1. phase'[a] \notin {"generate", "score", "complete"}
      <4>1. CASE CreateAudit(a)
        <5>1. row[a].type = "incremental"
          BY <4>1, CreateIs
        <5> QED
          BY <1>1, <4>1, <5>1, PhaseSteps DEF Early, Activities
      <4> QED
        BY <1>1, <4>1, PhaseSteps DEF Early, Activities
    <3>2. row'[a].status # "completed"
      BY <1>1, <3>1, PhaseSteps DEF FlowOf, Early, Activities
    <3> QED
      BY <3>1, <3>2 DEF HasLoaded
  <2> QED
    BY <2>1, <2>2, IdleIs
<1>2. CASE phase[a] \notin Early
  <2>1. row[a].type = "incremental"
    BY <1>2, LinkKept DEF Early
  <2>2. /\ table[a] \in Bags /\ carried[a] \in Bags
        /\ HasLoaded(a) => \A p \in Places : At(table[a], p) <= Allowed(At(carried[a], p))
        /\ HasLoaded(a) => \A f \in Finding : table[a][f] <= Allowed(carried[a][f])
        /\ \A s \in Slots : attempt[a][s].at = "insert" =>
             At(table[a], Place(attempt[a][s].cur)) = 0
    BY <1>0, <2>1, AuditTypes DEF GapsOf
  <2>3. ASSUME NEW s \in Slots, attempt'[a][s].at = "insert"
        PROVE  At(table'[a], Place(attempt'[a][s].cur)) = 0
    <3>1. CASE attempt'[a][s] = attempt[a][s]
      <4>1. attempt[a][s].act # "none"
        BY <2>3, <3>1, ActIs, TypesAre DEF FlowOf
      <4>2. ASSUME NEW r \in Slots, CopyFinding(a, r) \/ CreateFinding(a, r) PROVE FALSE
        <5>1. attempt[a][r].act # "none"
          BY <4>2 DEF CopyFinding, CreateFinding, Doing
        <5>2. r = s
          BY <1>0, <4>1, <5>1, OneAttempt
        <5>3. attempt'[a][s].at \in {"copying", "scanning"}
          BY <4>2, <5>2, CopyFindingIs, CreateFindingIs DEF FlowOf, Moved
        <5> QED
          BY <2>3, <5>3
      <4>3. table' = table
        BY <4>2, TableSteps
      <4> QED
        BY <2>2, <2>3, <3>1, <4>3
    <3>2. CASE AttemptStep(a, s)
      <4>1. NextIssue(a, s)
        BY <2>3, <3>2, PickedStep
      <4>2. /\ table' = table
            /\ Place(attempt'[a][s].cur) \notin Held(table[a])
        BY <2>1, <2>3, <4>1, NextIssueIs DEF Moved
      <4> DEFINE p == Place(attempt'[a][s].cur)
      <4>3. At(table[a], p) \in Nat /\ ~(At(table[a], p) > 0)
        BY <2>2, <4>2, AtIs
      <4> HIDE DEF p
      <4>4. At(table[a], p) = 0
        BY <4>3
      <4> QED
        BY <4>2, <4>4 DEF p
    <3> QED
      BY <2>3, <3>1, <3>2, AttemptsAfter, IdleIs
  <2>4. ASSUME HasLoaded(a)', NEW p \in Places
        PROVE  At(table'[a], p) <= Allowed(At(carried'[a], p))
    <3>1. CASE WorkflowContinues(a) /\ phase[a] = "load"
      <4>1. carried'[a] = table[a] /\ table' = table
        <5>1. carried \in [Audits -> Bags]
          BY DEF TypeOK, Bags
        <5> QED
          BY <3>1, <5>1, ContinuesIs
      <4>2. At(table[a], p) \in Nat
        BY <2>2, AtIs
      <4> QED
        BY <4>1, <4>2 DEF Allowed
    <3>2. CASE HasLoaded(a) /\ ~(WorkflowContinues(a) /\ phase[a] = "load")
      <4> DEFINE x == At(table[a], p)
                 y == At(table'[a], p)
                 z == At(carried[a], p)
      <4>1. carried'[a] = carried[a] /\ x <= Allowed(z) /\ x \in Nat /\ z \in Nat
        BY <2>2, <3>2, CarriedKept, AtIs
      <4>2. phase[a] # "load"
        BY <3>2 DEF HasLoaded, FlowOf
      <4>3. CASE table' = table
        BY <4>1, <4>3
      <4>4. ASSUME NEW s \in Slots, CreateFinding(a, s) PROVE y <= Allowed(z)
        <5> DEFINE f == attempt[a][s].cur
        <5>1. attempt[a][s].at = "insert" /\ f \in Finding /\ table'[a] = More(table[a], f)
          BY <4>4, CreateFindingIs DEF FlowOf, OneMore
        <5>2. At(table[a], Place(f)) = 0
          BY <2>2, <5>1
        <5>3. y = IF Place(f) = p THEN x + 1 ELSE x
          BY <2>2, <5>1, AtMore
        <5>4. y = x \/ y = 1
          BY <4>1, <5>2, <5>3
        <5> HIDE DEF x, y, z
        <5> QED
          BY <4>1, <5>4 DEF Allowed
      <4>5. ASSUME NEW s \in Slots, CopyFinding(a, s) PROVE FALSE
        <5>1. attempt[a][s].act = "load"
          BY <4>5 DEF CopyFinding, Doing
        <5> QED
          BY <1>0, <4>2, <5>1, OneAttempt
      <4> QED
        BY <4>1, <4>3, <4>4, <4>5, TableSteps
    <3> QED
      BY <1>0, <2>1, <2>4, <3>1, <3>2, LoadedSteps
  <2>5. ASSUME HasLoaded(a)', NEW f \in Finding
        PROVE  table'[a][f] <= Allowed(carried'[a][f])
    <3>1. CASE WorkflowContinues(a) /\ phase[a] = "load"
      <4>1. carried'[a] = table[a] /\ table' = table
        <5>1. carried \in [Audits -> Bags]
          BY DEF TypeOK, Bags
        <5> QED
          BY <3>1, <5>1, ContinuesIs
      <4>2. table[a][f] \in Nat
        BY <2>2 DEF Bags
      <4> QED
        BY <4>1, <4>2 DEF Allowed
    <3>2. CASE HasLoaded(a) /\ ~(WorkflowContinues(a) /\ phase[a] = "load")
      <4>1. /\ carried'[a] = carried[a] /\ table[a][f] <= Allowed(carried[a][f])
            /\ table[a][f] \in Nat /\ carried[a][f] \in Nat
        BY <2>2, <3>2, CarriedKept DEF Bags
      <4>2. phase[a] # "load"
        BY <3>2 DEF HasLoaded, FlowOf
      <4>3. CASE table' = table
        BY <4>1, <4>3
      <4>4. ASSUME NEW s \in Slots, CreateFinding(a, s)
            PROVE  table'[a][f] <= Allowed(carried[a][f])
        <5> DEFINE g == attempt[a][s].cur
        <5>1. attempt[a][s].at = "insert" /\ g \in Finding /\ table'[a] = More(table[a], g)
          BY <4>4, CreateFindingIs DEF FlowOf, OneMore
        <5>2. At(table[a], Place(g)) = 0
          BY <2>2, <5>1
        <5>3. /\ More(table[a], g)[g] = table[a][g] + 1
              /\ f # g => More(table[a], g)[f] = table[a][f]
          BY <2>2, <5>1, MoreIs
        <5>4. Place(g) \notin Held(table[a])
          <6>1. ~(At(table[a], Place(g)) > 0)
            BY <5>2
          <6> QED
            BY <2>2, <6>1, AtIs
        <5>5. table[a][g] = 0
          <6>1. table[a][g] \in Nat /\ ~(table[a][g] > 0)
            BY <2>2, <5>1, <5>4 DEF Held, Bags
          <6> QED
            BY <6>1
        <5> HIDE DEF g
        <5>6. table'[a][f] = table[a][f] \/ table'[a][f] = 1
          BY <5>1, <5>3, <5>5
        <5> QED
          BY <4>1, <5>6 DEF Allowed
      <4>5. ASSUME NEW s \in Slots, CopyFinding(a, s) PROVE FALSE
        <5>1. attempt[a][s].act = "load"
          BY <4>5 DEF CopyFinding, Doing
        <5> QED
          BY <1>0, <4>2, <5>1, OneAttempt
      <4> QED
        BY <4>1, <4>3, <4>4, <4>5, TableSteps
    <3> QED
      BY <1>0, <2>1, <2>5, <3>1, <3>2, LoadedSteps
  <2> QED
    BY <2>3, <2>4, <2>5
<1> QED
  BY <1>1, <1>2

LEMMA GapsStays ==
  ASSUME NEW b \in Audits, Same(b), GapsOf(b)
  PROVE  GapsOf(b)'
BY DEF Same, GapsOf, HasLoaded

-----------------------------------------------------------------------------
(***************************************************************************)
(* Where no attempt was lost, the findings are exact.                      *)
(***************************************************************************)
\* What an attempt still has to do only shrinks, and what it inserts is the
\* finding it had picked.
LEMMA PendingStep ==
  ASSUME TypeOK, NEW a \in Audits, FlowOf(a), NEW s \in Slots, AttemptStep(a, s),
         attempt[a][s].act = "generate"
  PROVE  LET t == attempt[a][s]
             n == attempt'[a][s]
             bag == table[a]
         IN  \/ /\ t.at = "begin" /\ n.at = "scanning" /\ table' = table
                /\ \A g \in Finding : Pending(n, g) = FromAnalysis(n.src)[g]
             \/ /\ t.at # "begin" /\ n.at # "begin" /\ n.src = t.src
                /\ \/ /\ table' = table
                      /\ \A g \in Finding : Pending(n, g) = Pending(t, g)
                   \/ /\ table' = table /\ row[a].type = "incremental"
                      /\ \A g \in Finding : Pending(n, g) > 0 => Pending(t, g) > 0
                   \/ /\ t.at = "insert" /\ t.cur \in Finding
                      /\ table'[a] = More(bag, t.cur) /\ Pending(t, t.cur) > 0
                      /\ \A g \in Finding :
                           /\ More(bag, t.cur)[g] + Pending(n, g) = bag[g] + Pending(t, g)
                           /\ Pending(n, g) > 0 => Pending(t, g) > 0
<1> DEFINE t == attempt[a][s]
           n == attempt'[a][s]
           bag == table[a]
<1>0. /\ t \in Attempt /\ n \in Attempt /\ bag \in Bags /\ ShapeOK(t) /\ t.act = "generate"
      /\ \A g \in Finding : t.todo[g] \in Nat /\ n.todo[g] \in Nat
  <2>1. t \in Attempt /\ n \in Attempt
    BY TypesAre, AttemptStepIs DEF OnlyOne, FlowOf, Attempts
  <2> QED
    BY <2>1, TypesAre, AttemptIs DEF FlowOf, Bags
<1>1. CASE GetAnalysisResults(a, s)
  <2>1. /\ n.at = "scanning" /\ n.todo = FromAnalysis(n.src) /\ table' = table
        /\ t.at = "begin"
    BY <1>1, GetAnalysisIs
  <2>2. \A f \in Finding : Pending(n, f) = FromAnalysis(n.src)[f]
    BY <1>0, <2>1, PendingIs
  <2> QED
    BY <2>1, <2>2
<1>2. CASE NextIssue(a, s)
  <2>1. PICK f \in Finding :
          /\ t.todo[f] > 0 /\ n.todo = Done(t.todo, f) /\ t.at = "scanning" /\ n.src = t.src
          /\ \/ row[a].type = "incremental" /\ n.at = "scanning"
             \/ n.at = "insert" /\ n.cur = f
    BY <1>2, NextIssueIs DEF Moved
  <2>2. table' = table
    BY <1>2, NextIssueIs
  <2>3. n.todo[f] = t.todo[f] - 1 /\ \A g \in Finding : g # f => n.todo[g] = t.todo[g]
    BY <1>0, <2>1, DoneIs, AttemptIs
  <2>4. \A g \in Finding : Pending(t, g) = t.todo[g]
    BY <1>0, <2>1, PendingIs
  <2>5. CASE n.at = "scanning" /\ row[a].type = "incremental"
    <3>1. \A g \in Finding : Pending(n, g) = n.todo[g]
      BY <1>0, <2>5, PendingIs
    <3>2. \A g \in Finding : Pending(n, g) > 0 => Pending(t, g) > 0
      BY <2>1, <2>3, <2>4, <3>1
    <3> QED
      BY <2>1, <2>2, <2>5, <3>2
  <2>6. CASE n.at = "insert" /\ n.cur = f
    <3>1. \A g \in Finding : Pending(n, g) = IF f = g THEN n.todo[g] + 1 ELSE n.todo[g]
      BY <1>0, <2>6, PendingIs
    <3>2. \A g \in Finding : Pending(n, g) = Pending(t, g)
      <4> SUFFICES ASSUME NEW g \in Finding PROVE Pending(n, g) = Pending(t, g)
        OBVIOUS
      <4> DEFINE x == t.todo[g]
                 y == n.todo[g]
      <4>1. x \in Nat /\ y = IF f = g THEN x - 1 ELSE x
        BY <1>0, <2>3
      <4> HIDE DEF x, y, t, n
      <4>2. (IF f = g THEN y + 1 ELSE y) = x
        BY <4>1
      <4> QED
        BY <2>4, <3>1, <4>2 DEF x, y
    <3> QED
      BY <2>1, <2>2, <2>6, <3>2
  <2> QED
    BY <2>1, <2>5, <2>6
<1>3. CASE CreateFinding(a, s)
  <2> DEFINE f == t.cur
             big == More(bag, f)
  <2>1. /\ t.at = "insert" /\ f \in Finding /\ n.todo = t.todo /\ n.src = t.src
        /\ n.at = "scanning" /\ table'[a] = big
    BY <1>0, <1>3, CreateFindingIs DEF Moved, OneMore
  <2>2. big \in Bags /\ big[f] = bag[f] + 1 /\ \A g \in Finding : g # f => big[g] = bag[g]
    BY <1>0, <2>1, MoreIs
  <2>3. ASSUME NEW g \in Finding
        PROVE  /\ big[g] + Pending(n, g) = bag[g] + Pending(t, g)
               /\ Pending(n, g) > 0 => Pending(t, g) > 0
               /\ g = f => Pending(t, g) > 0
    <3> DEFINE x == t.todo[g]
               y == bag[g]
               z == big[g]
    <3>1. Pending(n, g) = x /\ Pending(t, g) = IF f = g THEN x + 1 ELSE x
      BY <1>0, <2>1, PendingIs
    <3>2. x \in Nat /\ y \in Nat /\ z = IF f = g THEN y + 1 ELSE y
      BY <1>0, <2>2 DEF Bags
    <3> HIDE DEF x, y, z, f, t, n
    <3>3. /\ z + x = y + (IF f = g THEN x + 1 ELSE x)
          /\ x > 0 => (IF f = g THEN x + 1 ELSE x) > 0
          /\ g = f => (IF f = g THEN x + 1 ELSE x) > 0
      BY <3>2
    <3> QED
      BY <3>1, <3>3 DEF y, z
  <2> QED
    BY <2>1, <2>3
<1>4. CASE ListExhausted(a, s)
  <2>1. /\ t.at \in {"copying", "scanning"} /\ n.at = "ended" /\ n.todo = t.todo
        /\ n.src = t.src /\ table' = table
    BY <1>4, ListExhaustedIs DEF Moved
  <2>2. \A f \in Finding : Pending(n, f) = Pending(t, f)
    BY <1>0, <2>1, PendingIs
  <2> QED
    BY <2>1, <2>2
<1>5. ~(\/ GetFindingsForAudit(a, s) \/ CopyFinding(a, s) \/ CountFindingsBySeverity(a, s)
        \/ UpdateAuditProgress(a, s) \/ UpdateAuditStatus(a, s))
  BY <1>0, ActIs DEF GetFindingsForAudit, CopyFinding, Doing,
    CountFindingsBySeverity, UpdateAuditProgress, UpdateAuditStatus
<1> QED
  BY <1>1, <1>2, <1>3, <1>4, <1>5 DEF AttemptStep

LEMMA ScanStep ==
  ASSUME TypeOK, NEW a \in Audits, FlowOf(a), NEW s \in Slots, AttemptStep(a, s),
         row[a].type = "full", ScansExactly(attempt[a][s], table[a])
  PROVE  ScansExactly(attempt'[a][s], table'[a])
<1> DEFINE t == attempt[a][s]
           n == attempt'[a][s]
           bag == table[a]
<1>0. n.act = t.act /\ n \in Attempt /\ t \in Attempt
  BY TypesAre, AttemptStepIs DEF FlowOf, OnlyOne, Attempts
<1>1. CASE t.act # "generate"
  BY <1>0, <1>1 DEF ScansExactly
<1>2. CASE t.act = "generate" /\ t.at = "begin"
  <2>1. /\ n.at = "scanning" /\ table' = table /\ bag = NoFindings
        /\ \A g \in Finding : Pending(n, g) = FromAnalysis(n.src)[g]
    BY <1>2, PendingStep DEF ScansExactly
  <2>2. \A g \in Finding : bag[g] = 0 /\ Pending(n, g) \in Nat
    BY <1>0, <2>1, PendingIs DEF NoFindings
  <2>3. \A g \in Finding : bag[g] + Pending(n, g) = FromAnalysis(n.src)[g]
    <3> HIDE DEF bag, n
    <3> QED
      BY <2>1, <2>2
  <2> HIDE DEF n
  <2>4. ScansExactly(n, bag)
    BY <2>1, <2>3 DEF ScansExactly
  <2> QED
    BY <2>1, <2>4 DEF n
<1>3. CASE t.act = "generate" /\ t.at # "begin"
  <2>1. \A g \in Finding : bag[g] + Pending(t, g) = FromAnalysis(t.src)[g]
    BY <1>3 DEF ScansExactly
  <2>2. /\ n.at # "begin" /\ n.src = t.src
        /\ \A g \in Finding : table'[a][g] + Pending(n, g) = bag[g] + Pending(t, g)
    BY <1>3, PendingStep
  <2> HIDE DEF n, t
  <2> QED
    BY <2>1, <2>2 DEF ScansExactly, n, t
<1> QED
  BY <1>1, <1>2, <1>3

LEMMA AddStep ==
  ASSUME TypeOK, NEW a \in Audits, FlowOf(a), NEW s \in Slots, AttemptStep(a, s),
         NEW old \in Bags, AddsOnlyNew(attempt[a][s], old, table[a])
  PROVE  AddsOnlyNew(attempt'[a][s], old, table'[a])
<1> DEFINE t == attempt[a][s]
           n == attempt'[a][s]
           bag == table[a]
<1>0. n.act = t.act /\ n \in Attempt /\ t \in Attempt /\ bag \in Bags
  BY TypesAre, AttemptStepIs DEF FlowOf, OnlyOne, Attempts
<1>1. CASE t.act # "generate"
  BY <1>0, <1>1 DEF AddsOnlyNew
<1>2. CASE t.act = "generate" /\ t.at = "begin"
  <2>1. /\ n.at = "scanning" /\ table' = table /\ bag = old
        /\ \A g \in Finding : Pending(n, g) = FromAnalysis(n.src)[g]
    BY <1>2, PendingStep DEF AddsOnlyNew
  <2>2. OnlyNew(n.src, old, bag)
    BY <2>1 DEF OnlyNew, Held
  <2> HIDE DEF n, bag
  <2>3. AddsOnlyNew(n, old, bag)
    BY <2>1, <2>2 DEF AddsOnlyNew
  <2> QED
    BY <2>1, <2>3 DEF n, bag
<1>3. CASE t.act = "generate" /\ t.at # "begin"
  <2>1. /\ \A g \in Finding : Pending(t, g) > 0 => FromAnalysis(t.src)[g] > 0
        /\ OnlyNew(t.src, old, bag)
    BY <1>3 DEF AddsOnlyNew
  <2>2. /\ n.at # "begin" /\ n.src = t.src
        /\ \A g \in Finding : Pending(n, g) > 0 => Pending(t, g) > 0
        /\ \/ table' = table
           \/ /\ t.cur \in Finding /\ table'[a] = More(bag, t.cur) /\ Pending(t, t.cur) > 0
    BY <1>3, PendingStep
  <2>3. OnlyNew(t.src, old, table'[a])
    <3>1. CASE table' = table
      BY <2>1, <3>1
    <3>2. CASE t.cur \in Finding /\ table'[a] = More(bag, t.cur) /\ Pending(t, t.cur) > 0
      <4>1. \A g \in Finding : g # t.cur => table'[a][g] = bag[g]
        BY <1>0, <3>2, MoreIs
      <4>2. FromAnalysis(t.src)[t.cur] > 0
        BY <2>1, <3>2
      <4> HIDE DEF t, bag
      <4> QED
        BY <2>1, <4>1, <4>2 DEF OnlyNew
    <3> QED
      BY <2>2, <3>1, <3>2
  <2> HIDE DEF n, t
  <2> QED
    BY <2>1, <2>2, <2>3 DEF AddsOnlyNew, n
<1> QED
  BY <1>1, <1>2, <1>3

LEMMA CopyExactStep ==
  ASSUME TypeOK, NEW a \in Audits, FlowOf(a), NEW s \in Slots, AttemptStep(a, s),
         row[a].prev # a, CopiesExactly(attempt[a][s], Old(a), table[a])
  PROVE  CopiesExactly(attempt'[a][s], Old(a), table'[a])
<1> DEFINE t == attempt[a][s]
           n == attempt'[a][s]
           bag == table[a]
           old == Old(a)
<1>0. /\ t \in Attempt /\ bag \in Bags /\ old \in Bags /\ ShapeOK(t)
      /\ CopiesExactly(t, old, bag) /\ n.act = t.act
  BY TypesAre, AuditTypes, AttemptStepIs, SomeAttempts DEF FlowOf, Old
<1>1. CASE t.act # "load"
  BY <1>0, <1>1 DEF CopiesExactly
<1>2. CASE GetFindingsForAudit(a, s)
  <2>1. n.todo = old /\ n.at # "begin" /\ t.act = "load" /\ t.at = "begin" /\ table' = table
    <3>1. row[a].prev = None => n.todo = NoFindings
      BY <1>0, <1>2, GetFindingsIs DEF ShapeOK
    <3> QED
      BY <1>2, <3>1, GetFindingsIs DEF Old, Moved
  <2>2. bag = NoFindings
    BY <1>0, <2>1 DEF CopiesExactly
  <2>3. \A f \in Finding : bag[f] + old[f] = old[f]
    <3>1. \A f \in Finding : bag[f] = 0 /\ old[f] \in Nat
      BY <1>0, <2>2 DEF NoFindings, Bags
    <3> HIDE DEF bag, old
    <3> QED
      BY <3>1
  <2> HIDE DEF n, old, bag
  <2>4. CopiesExactly(n, old, bag)
    BY <2>1, <2>3 DEF CopiesExactly
  <2> QED
    BY <2>1, <2>4 DEF n, old, bag
<1>3. CASE CopyFinding(a, s)
  <2>1. PICK f \in Finding : /\ t.todo[f] > 0 /\ n.todo = Done(t.todo, f)
                             /\ table'[a] = More(bag, f) /\ t.act = "load"
                             /\ t.at = "copying" /\ n.at = "copying"
    BY <1>3, CopyFindingIs DEF OneMore, Moved
  <2> DEFINE big == More(bag, f)
  <2>2. t.todo \in Bags
    BY <1>0, AttemptIs
  <2>3. n.todo[f] = t.todo[f] - 1 /\ \A g \in Finding : g # f => n.todo[g] = t.todo[g]
    BY <2>1, <2>2, DoneIs
  <2>4. big[f] = bag[f] + 1 /\ \A g \in Finding : g # f => big[g] = bag[g]
    BY <1>0, MoreIs
  <2>5. \A g \in Finding : t.todo[g] \in Nat /\ bag[g] \in Nat
    BY <1>0, <2>2 DEF Bags
  <2>6. \A g \in Finding : bag[g] + t.todo[g] = old[g]
    BY <1>0, <2>1 DEF CopiesExactly
  <2> HIDE DEF t, n, old, bag, big
  <2>7. \A g \in Finding : big[g] + n.todo[g] = bag[g] + t.todo[g]
    BY <2>3, <2>4, <2>5
  <2>8. CopiesExactly(n, old, big)
    BY <1>0, <2>1, <2>6, <2>7 DEF CopiesExactly
  <2> QED
    BY <2>1, <2>8 DEF n, old, big
<1>4. CASE ListExhausted(a, s) /\ t.act = "load"
  <2>1. n.todo = t.todo /\ table' = table /\ t.at # "begin" /\ n.at # "begin"
    BY <1>4, ListExhaustedIs DEF Moved
  <2> HIDE DEF t, n, old, bag
  <2>2. CopiesExactly(n, old, bag)
    BY <1>0, <1>4, <2>1 DEF CopiesExactly
  <2> QED
    BY <2>1, <2>2 DEF n, old, bag
<1>5. CASE /\ t.act = "load"
           /\ \/ GetAnalysisResults(a, s) \/ NextIssue(a, s) \/ CreateFinding(a, s)
              \/ CountFindingsBySeverity(a, s) \/ UpdateAuditProgress(a, s)
              \/ UpdateAuditStatus(a, s)
  BY <1>0, <1>5, ActIs DEF GetAnalysisResults, NextIssue, CreateFinding, Doing,
    CountFindingsBySeverity, UpdateAuditProgress, UpdateAuditStatus
<1> QED
  BY <1>1, <1>2, <1>3, <1>4, <1>5 DEF AttemptStep

\* The awaited attempt stays the awaited one, unless it is lost, returns or starts.
LEMMA LiveSteps ==
  ASSUME TypeOK, NEW a \in Audits, FlowOf(a), Act(a), a \notin retried'
  PROVE  \/ live'[a] = live[a]
         \/ live'[a] # NoSlot
         \/ WorkflowContinues(a)
<1>1. \A s \in Slots : AttemptStep(a, s) \/ AbandonedAttemptEnds(a, s) => live' = live
  BY AttemptStepIs, AbandonedEndsIs DEF FlowOf, Quiet
<1>2. \A goesOn \in BOOLEAN : ~LoseAttempt(a, goesOn)
  BY LoseAttemptIs
<1>3. ASSUME NEW s \in Slots, StartAttempt(a, s) PROVE live'[a] # NoSlot
  <2>1. live' = [live EXCEPT ![a] = s] /\ live \in [Audits -> Slots \cup {NoSlot}]
    BY <1>3, StartAttemptIs DEF TypeOK
  <2> QED
    BY <2>1, FindingsAssumption
<1> QED
  BY <1>1, <1>2, <1>3 DEF Act, TriggerAudit, CreateAudit, GiveUp

\* While nobody is at work on an audit, its findings stay.
LEMMA RestingTable ==
  ASSUME TypeOK, NEW a \in Audits, FlowOf(a), Act(a), a \notin overlapped,
         live[a] = NoSlot
  PROVE  table' = table
<1>1. ASSUME NEW s \in Slots, CopyFinding(a, s) \/ CreateFinding(a, s) PROVE FALSE
  <2>1. attempt[a][s].act # "none"
    BY <1>1 DEF CopyFinding, CreateFinding, Doing
  <2> QED
    BY <2>1, OneAttempt, FindingsAssumption
<1> QED
  BY <1>1, TableSteps

\* An attempt at work is the same while the findings stay, or makes the step.
LEMMA SoleAttempt ==
  ASSUME TypeOK, NEW a \in Audits, FlowOf(a), Act(a), a \notin overlapped, NEW r \in Slots
  PROVE  \/ attempt'[a][r].act = "none"
         \/ /\ StartAttempt(a, r) /\ table' = table /\ live[a] = NoSlot
            /\ attempt'[a][r].at = "begin" /\ attempt'[a][r].act = phase[a]
         \/ attempt'[a][r] = attempt[a][r] /\ table' = table
         \/ AttemptStep(a, r)
<1>1. CASE attempt'[a][r] = attempt[a][r] /\ attempt[a][r].act # "none"
  <2>1. ASSUME NEW q \in Slots, CopyFinding(a, q) \/ CreateFinding(a, q)
        PROVE  AttemptStep(a, r)
    <3>1. attempt[a][q].act # "none" /\ AttemptStep(a, q)
      BY <2>1 DEF CopyFinding, CreateFinding, Doing, AttemptStep
    <3>2. q = r
      BY <1>1, <3>1, OneAttempt
    <3> QED
      BY <3>1, <3>2
  <2> QED
    BY <1>1, <2>1, TableSteps
<1>2. CASE StartAttempt(a, r)
  BY <1>2, StartAttemptIs
<1> QED
  BY <1>1, <1>2, AttemptsAfter, IdleIs

\* What an audit builds on stays as it is.
LEMMA OldKept ==
  ASSUME TypeOK, NEW a \in Audits, FlowOf(a), Act(a), NEW b \in Audits, LinkOf(b),
         ~(b = a /\ phase[a] = "none"), row'[b].prev \notin overlapped'
  PROVE  /\ row'[b].prev = row[b].prev /\ row'[b].type = row[b].type
         /\ Old(b)' = Old(b) /\ Old(b) \in Bags
         /\ row'[b].prev \notin retried' => row[b].prev \notin retried
<1>1. row'[b].prev = row[b].prev /\ row'[b].type = row[b].type
  BY Elsewhere, LinkKept DEF Same
<1>2. Old(b) \in Bags
  BY AuditTypes, SomeAttempts DEF Old
<1>3. row[b].prev \notin retried' => row[b].prev \notin retried
  BY OverlapKept
<1>4. Old(b)' = Old(b)
  <2>1. CASE row[b].prev = None
    BY <1>1, <2>1 DEF Old
  <2>2. CASE row[b].prev # None
    <3>1. row[b].prev \in Audits /\ phase[row[b].prev] \in {"complete", "end"}
      BY <2>2, AuditTypes DEF LinkOf
    <3>2. table'[row[b].prev] = table[row[b].prev]
      BY <1>1, <3>1, SteadyIs
    <3> QED
      BY <1>1, <2>2, <3>2 DEF Old
  <2> QED
    BY <2>1, <2>2
<1> QED
  BY <1>1, <1>2, <1>3, <1>4

\* GenerateFindings has returned already, or returns now.
LEMMA GeneratedSteps ==
  ASSUME TypeOK, NEW a \in Audits, FlowOf(a), Act(a), a \notin overlapped, a \in Generated'
  PROVE  \/ a \in Generated /\ phase[a] \in {"score", "complete", "end"}
         \/ WorkflowContinues(a) /\ phase[a] = "generate"
<1>1. CASE phase'[a] \in {"score", "complete"}
  BY <1>1, PhaseSteps DEF NextPhase, Activities, Generated
<1>2. CASE row'[a].status = "completed"
  <2>1. ASSUME NEW s \in Slots, UpdateAuditStatus(a, s) PROVE phase[a] = "complete"
    BY <2>1, UpdateStatusActs, OneAttempt
  <2>2. CASE row[a].status = "completed"
    BY <2>2 DEF Generated, FlowOf
  <2> QED
    BY <1>2, <2>1, <2>2, StatusSteps DEF Generated
<1> QED
  BY <1>1, <1>2 DEF Generated

\* An attempt that has ended has nothing left to do.
LEMMA NothingPending ==
  ASSUME NEW t \in Attempt, ShapeOK(t), t.at = "ended"
  PROVE  \A f \in Finding : t.todo[f] = 0 /\ Pending(t, f) = 0
<1>1. t.todo = NoFindings
  BY DEF ShapeOK
<1> QED
  BY <1>1, PendingIs DEF NoFindings

LEMMA SameBag ==
  ASSUME NEW b \in Bags, NEW c \in Bags, \A f \in Finding : b[f] = c[f]
  PROVE  b = c
BY DEF Bags

\* What is at hand when an audit's workflow goes on, or when the audit starts.
LEMMA ExactEarly ==
  ASSUME TypeOK, NEW a \in Audits, FlowOf(a), FlowOf(a)', Act(a), phase[a] \in Early
  PROVE  /\ table'[a] = NoFindings /\ \A s \in Slots : attempt'[a][s].act = "none"
         /\ phase'[a] \notin {"score", "complete"} /\ row'[a].status # "completed"
         /\ row'[a].type = "incremental" => phase'[a] # "generate"
<1>1. \A s \in Slots : attempt'[a][s].act = "none" /\ attempt[a][s].act = "none"
  BY IdleAfter, IdleBefore, IdleIs
<1>2. table' = table /\ table[a] = NoFindings
  <2>1. \A s \in Slots : ~CopyFinding(a, s) /\ ~CreateFinding(a, s)
    BY <1>1 DEF CopyFinding, CreateFinding, Doing
  <2> QED
    BY <2>1, TableSteps DEF FlowOf
<1>3. phase'[a] \notin {"score", "complete", "end"}
  BY PhaseSteps DEF Early, Activities
<1>4. row'[a].status # "completed"
  BY <1>3 DEF FlowOf
<1>5. row'[a].type = "incremental" => phase'[a] # "generate"
  <2>1. CreateAudit(a) => row'[a].type = row[a].type
    BY CreateIs
  <2> QED
    BY <2>1, PhaseSteps DEF Early, Activities
<1> QED
  BY <1>1, <1>2, <1>3, <1>4, <1>5

LEMMA FullAct ==
  ASSUME TypeOK, NEW a \in Audits, FlowOf(a), Act(a), phase[a] \notin Early,
         row[a].type = "full", a \notin retried', a \notin overlapped, ExactFull(a)
  PROVE  ExactFull(a)'
<1>1. /\ phase[a] = "generate" /\ live[a] = NoSlot => table[a] = NoFindings
      /\ \A s \in Slots : ScansExactly(attempt[a][s], table[a])
      /\ a \in Generated => table[a] = FromAnalysis(reported[a])
  BY DEF ExactFull
<1>2. ASSUME phase'[a] = "generate", live'[a] = NoSlot PROVE table'[a] = NoFindings
  <2>1. phase[a] = "generate" /\ ~WorkflowContinues(a)
    <3>1. phase \in [Audits -> Activities \cup {"none", "linked", "end"}]
      BY DEF TypeOK
    <3>2. WorkflowContinues(a) => phase'[a] = NextPhase(phase[a])
      BY <3>1, ContinuesIs
    <3>3. phase[a] # "load"
      BY DEF FlowOf
    <3> QED
      BY <1>2, <3>2, <3>3, PhaseSteps DEF NextPhase, Activities, Early
  <2>2. live[a] = NoSlot
    BY <1>2, <2>1, LiveSteps
  <2> QED
    BY <1>1, <2>1, <2>2, RestingTable
<1>3. ASSUME NEW r \in Slots PROVE ScansExactly(attempt'[a][r], table'[a])
  <2>1. ScansExactly(attempt[a][r], table[a])
    BY <1>1
  <2>2. CASE attempt'[a][r].act = "none"
    BY <2>2 DEF ScansExactly
  <2>3. CASE /\ table' = table /\ live[a] = NoSlot
             /\ attempt'[a][r].at = "begin" /\ attempt'[a][r].act = phase[a]
    BY <1>1, <2>3 DEF ScansExactly
  <2>4. CASE attempt'[a][r] = attempt[a][r] /\ table' = table
    BY <2>1, <2>4
  <2>5. CASE AttemptStep(a, r)
    BY <2>1, <2>5, ScanStep
  <2> QED
    BY <2>2, <2>3, <2>4, <2>5, SoleAttempt
<1>4. ASSUME a \in Generated' PROVE table'[a] = FromAnalysis(reported'[a])
  <2>1. CASE WorkflowContinues(a) /\ phase[a] = "generate"
    <3> DEFINE t == attempt[a][live[a]]
    <3>1. /\ live[a] \in Slots /\ live[a] # NoSlot /\ t.at = "ended" /\ table' = table
          /\ reported'[a] = t.src
      <4>1. reported \in [Audits -> Analyses \cup {{}}]
        BY DEF TypeOK
      <4> QED
        BY <2>1, <4>1, ContinuesIs
    <3>2. t.act = "generate" /\ ScansExactly(t, table[a]) /\ t \in Attempt /\ ShapeOK(t)
      BY <1>1, <2>1, <3>1, TypesAre DEF FlowOf
    <3>3. table[a] \in Bags /\ FromAnalysis(t.src) \in Bags
      BY <3>2, AuditTypes, AttemptIs, AnalysisIsFinite, FromAnalysisIs
    <3> HIDE DEF t
    <3>4. \A f \in Finding : table[a][f] + Pending(t, f) = FromAnalysis(t.src)[f]
      BY <3>1, <3>2 DEF ScansExactly
    <3>5. \A f \in Finding : Pending(t, f) = 0 /\ table[a][f] \in Nat
      BY <3>1, <3>2, <3>3, NothingPending DEF Bags
    <3>6. \A f \in Finding : table[a][f] = FromAnalysis(t.src)[f]
      BY <3>4, <3>5
    <3>7. table[a] = FromAnalysis(t.src)
      BY <3>3, <3>6, SameBag
    <3> QED
      BY <3>1, <3>7
  <2>2. CASE a \in Generated /\ phase[a] \in {"score", "complete", "end"}
    <3>1. a \notin overlapped'
      BY TypeStep DEF TypeOK
    <3>2. table' = table
      BY <2>2, <3>1, TableKept
    <3>3. reported'[a] = reported[a]
      BY <2>2, ReportedKept
    <3> QED
      BY <1>1, <2>2, <3>2, <3>3
  <2> QED
    BY <1>4, <2>1, <2>2, GeneratedSteps
<1> QED
  BY <1>2, <1>3, <1>4 DEF ExactFull

LEMMA IncrementalAct ==
  ASSUME TypeOK, NEW a \in Audits, FlowOf(a), LinkOf(a), GapsOf(a), Act(a),
         phase[a] \notin Early, row[a].type = "incremental", Old(a)' = Old(a),
         a \notin retried', a \notin overlapped, ExactIncremental(a)
  PROVE  ExactIncremental(a)'
<1> DEFINE old == Old(a)
<1>0. /\ phase[a] = "load" /\ live[a] = NoSlot => table[a] = NoFindings
      /\ \A s \in Slots : CopiesExactly(attempt[a][s], old, table[a])
      /\ HasLoaded(a) =>
           /\ carried[a] = old
           /\ \A f \in Finding : Place(f) \in Held(old) => table[a][f] = old[f]
      /\ phase[a] = "generate" /\ live[a] = NoSlot => table[a] = old
      /\ \A s \in Slots : AddsOnlyNew(attempt[a][s], old, table[a])
      /\ a \in Generated => OnlyNew(reported[a], old, table[a])
  BY DEF ExactIncremental
<1>1. /\ old \in Bags /\ table[a] \in Bags /\ row[a].prev # a
      /\ phase \in [Audits -> Activities \cup {"none", "linked", "end"}]
      /\ a \notin overlapped'
  <2>1. a \notin overlapped'
    BY TypeStep DEF TypeOK
  <2>2. row[a].prev # a
    BY FindingsAssumption DEF LinkOf
  <2>3. phase \in [Audits -> Activities \cup {"none", "linked", "end"}]
    BY DEF TypeOK
  <2> QED
    BY <2>1, <2>2, <2>3, AuditTypes, SomeAttempts DEF Old
\* LoadPreviousFindings has returned: the copies are all there.
<1>2. ASSUME WorkflowContinues(a), phase[a] = "load"
      PROVE  table[a] = old /\ table' = table /\ carried'[a] = table[a]
  <2> DEFINE t == attempt[a][live[a]]
  <2>1. /\ live[a] \in Slots /\ live[a] # NoSlot /\ t.at = "ended" /\ table' = table
        /\ carried'[a] = table[a]
    <3>1. carried \in [Audits -> Bags]
      BY DEF TypeOK, Bags
    <3> QED
      BY <1>2, <3>1, ContinuesIs
  <2>2. t.act = "load" /\ CopiesExactly(t, old, table[a]) /\ t \in Attempt /\ ShapeOK(t)
    BY <1>0, <1>2, <2>1, TypesAre DEF FlowOf
  <2> HIDE DEF t, old
  <2>3. \A f \in Finding : table[a][f] + t.todo[f] = old[f]
    BY <2>1, <2>2 DEF CopiesExactly
  <2>4. \A f \in Finding : t.todo[f] = 0 /\ table[a][f] \in Nat
    BY <1>1, <2>1, <2>2, NothingPending DEF Bags
  <2>5. \A f \in Finding : table[a][f] = old[f]
    BY <2>3, <2>4
  <2> QED
    BY <1>1, <2>1, <2>5, SameBag
<1>3. ASSUME phase'[a] = "load", live'[a] = NoSlot PROVE table'[a] = NoFindings
  <2>1. phase[a] = "load" /\ ~WorkflowContinues(a)
    <3>1. WorkflowContinues(a) => phase'[a] = NextPhase(phase[a])
      BY <1>1, ContinuesIs
    <3> QED
      BY <1>3, <3>1, PhaseSteps DEF NextPhase, Activities, Early
  <2>2. live[a] = NoSlot
    BY <1>3, <2>1, LiveSteps
  <2> QED
    BY <1>0, <2>1, <2>2, RestingTable
<1>4. ASSUME phase'[a] = "generate", live'[a] = NoSlot PROVE table'[a] = old
  <2>1. CASE WorkflowContinues(a)
    <3>1. phase[a] = "load"
      BY <1>1, <1>4, <2>1, ContinuesIs, PhaseSteps DEF NextPhase, Activities, Early
    <3> QED
      BY <1>2, <2>1, <3>1
  <2>2. CASE ~WorkflowContinues(a)
    <3>1. phase[a] = "generate"
      BY <1>4, <2>2, PhaseSteps DEF Activities, Early
    <3>2. live[a] = NoSlot
      BY <1>4, <2>2, LiveSteps
    <3> QED
      BY <1>0, <3>1, <3>2, RestingTable
  <2> QED
    BY <2>1, <2>2
<1>5. ASSUME NEW r \in Slots
      PROVE  /\ CopiesExactly(attempt'[a][r], old, table'[a])
             /\ AddsOnlyNew(attempt'[a][r], old, table'[a])
  <2>1. /\ CopiesExactly(attempt[a][r], old, table[a])
        /\ AddsOnlyNew(attempt[a][r], old, table[a])
    BY <1>0
  <2>2. CASE attempt'[a][r].act = "none"
    BY <2>2 DEF CopiesExactly, AddsOnlyNew
  <2>3. CASE /\ table' = table /\ live[a] = NoSlot
             /\ attempt'[a][r].at = "begin" /\ attempt'[a][r].act = phase[a]
    BY <1>0, <2>3 DEF CopiesExactly, AddsOnlyNew
  <2>4. CASE attempt'[a][r] = attempt[a][r] /\ table' = table
    BY <2>1, <2>4
  <2>5. CASE AttemptStep(a, r)
    BY <1>1, <2>1, <2>5, AddStep, CopyExactStep
  <2> QED
    BY <2>2, <2>3, <2>4, <2>5, SoleAttempt
<1>6. ASSUME HasLoaded(a)'
      PROVE  /\ carried'[a] = old
             /\ \A f \in Finding : Place(f) \in Held(old) => table'[a][f] = old[f]
  <2>1. CASE WorkflowContinues(a) /\ phase[a] = "load"
    BY <1>2, <2>1
  <2>2. CASE HasLoaded(a) /\ ~(WorkflowContinues(a) /\ phase[a] = "load")
    <3>1. /\ carried'[a] = old
          /\ \A f \in Finding : Place(f) \in Held(old) => table[a][f] = old[f]
      BY <1>0, <2>2, CarriedKept
    <3>2. phase[a] # "load"
      BY <2>2 DEF HasLoaded, FlowOf
    <3>3. ASSUME NEW s \in Slots, CreateFinding(a, s)
          PROVE  \A f \in Finding : Place(f) \in Held(old) => table'[a][f] = old[f]
      <4> DEFINE c == attempt[a][s].cur
      <4>1. attempt[a][s].at = "insert" /\ c \in Finding /\ table'[a] = More(table[a], c)
        BY <3>3, CreateFindingIs DEF FlowOf, OneMore
      <4>2. At(table[a], Place(c)) = 0
        BY <4>1 DEF GapsOf
      <4>3. Place(c) \notin Held(table[a])
        <5> HIDE DEF c
        <5>1. At(table[a], Place(c)) > 0 <=> Place(c) \in Held(table[a])
          BY <1>1, AtIs
        <5>2. ~(At(table[a], Place(c)) > 0)
          BY <4>2
        <5> QED
          BY <5>1, <5>2
      <4> HIDE DEF c, old
      <4>4. Place(c) \notin Held(old)
        <5> SUFFICES ASSUME NEW g \in Finding, old[g] > 0, Place(g) = Place(c) PROVE FALSE
          BY DEF Held
        <5>1. Place(g) \in Held(old)
          BY DEF Held
        <5>2. table[a][g] > 0
          BY <3>1, <5>1
        <5>3. Place(g) \in Held(table[a])
          BY <5>2 DEF Held
        <5> QED
          BY <4>3, <5>3
      <4>5. \A f \in Finding : f # c => table'[a][f] = table[a][f]
        BY <1>1, <4>1, MoreIs
      <4> QED
        BY <3>1, <4>4, <4>5
    <3>4. ASSUME NEW s \in Slots, CopyFinding(a, s) PROVE FALSE
      <4>1. attempt[a][s].act = "load"
        BY <3>4 DEF CopyFinding, Doing
      <4> QED
        BY <3>2, <4>1, OneAttempt
    <3> QED
      BY <3>1, <3>3, <3>4, TableSteps
  <2> QED
    BY <1>6, <2>1, <2>2, LoadedSteps
<1>7. ASSUME a \in Generated' PROVE OnlyNew(reported'[a], old, table'[a])
  <2>1. CASE WorkflowContinues(a) /\ phase[a] = "generate"
    <3> DEFINE t == attempt[a][live[a]]
    <3>1. /\ live[a] \in Slots /\ live[a] # NoSlot /\ t.at = "ended" /\ table' = table
          /\ reported'[a] = t.src
      <4>1. reported \in [Audits -> Analyses \cup {{}}]
        BY DEF TypeOK
      <4> QED
        BY <2>1, <4>1, ContinuesIs
    <3>2. t.act = "generate" /\ AddsOnlyNew(t, old, table[a])
      BY <1>0, <2>1, <3>1 DEF FlowOf
    <3> HIDE DEF t, old
    <3> QED
      BY <3>1, <3>2 DEF AddsOnlyNew
  <2>2. CASE a \in Generated /\ phase[a] \in {"score", "complete", "end"}
    <3>1. table' = table
      BY <1>1, <2>2, TableKept
    <3>2. reported'[a] = reported[a]
      BY <2>2, ReportedKept
    <3> QED
      BY <1>0, <2>2, <3>1, <3>2
  <2> QED
    BY <1>7, <2>1, <2>2, GeneratedSteps
<1> QED
  BY <1>3, <1>4, <1>5, <1>6, <1>7 DEF ExactIncremental

LEMMA ExactAct ==
  ASSUME TypeOK, NEW a \in Audits, FlowOf(a), FlowOf(a)', LinkOf(a), GapsOf(a), Act(a),
         ExactOf(a)
  PROVE  ExactOf(a)'
<1> SUFFICES ASSUME a \notin retried', row'[a].prev \notin retried'
             PROVE  /\ row'[a].type = "full" => ExactFull(a)'
                    /\ row'[a].type = "incremental" => ExactIncremental(a)'
  BY DEF ExactOf
<1>1. a \notin retried /\ a \notin overlapped /\ row'[a].prev \notin overlapped'
  BY OverlapKept, TypeStep DEF TypeOK
<1>2. CASE phase[a] \in Early
  <2>1. /\ table'[a] = NoFindings /\ \A s \in Slots : attempt'[a][s].act = "none"
        /\ phase'[a] \notin {"score", "complete"} /\ row'[a].status # "completed"
        /\ row'[a].type = "incremental" => phase'[a] # "generate"
    BY <1>2, ExactEarly
  <2>2. a \notin Generated' /\ (row'[a].type = "incremental" => ~HasLoaded(a)')
    BY <2>1 DEF Generated, HasLoaded
  <2>3. \A s \in Slots : ScansExactly(attempt'[a][s], table'[a])
    BY <2>1 DEF ScansExactly
  <2>4. \A s \in Slots : /\ CopiesExactly(attempt'[a][s], Old(a)', table'[a])
                         /\ AddsOnlyNew(attempt'[a][s], Old(a)', table'[a])
    BY <2>1 DEF CopiesExactly, AddsOnlyNew
  <2>5. ExactFull(a)'
    BY <2>1, <2>2, <2>3 DEF ExactFull
  <2>6. row'[a].type = "incremental" => ExactIncremental(a)'
    BY <2>1, <2>2, <2>4 DEF ExactIncremental
  <2> QED
    BY <2>5, <2>6
<1>3. CASE phase[a] \notin Early
  <2>1. /\ row'[a].prev = row[a].prev /\ row'[a].type = row[a].type /\ Old(a)' = Old(a)
        /\ row[a].prev \notin retried
    BY <1>1, <1>3, OldKept DEF Early
  <2>2. /\ row[a].type = "full" => ExactFull(a)
        /\ row[a].type = "incremental" => ExactIncremental(a)
    BY <1>1, <2>1 DEF ExactOf
  <2> QED
    BY <1>1, <1>3, <2>1, <2>2, FullAct, IncrementalAct
<1> QED
  BY <1>2, <1>3

LEMMA ExactStays ==
  ASSUME TypeOK, NEW a \in Audits, FlowOf(a), Act(a), NEW b \in Audits, b # a, LinkOf(b),
         TypeOK', ExactOf(b)
  PROVE  ExactOf(b)'
<1> SUFFICES ASSUME b \notin retried', row'[b].prev \notin retried'
             PROVE  /\ row'[b].type = "full" => ExactFull(b)'
                    /\ row'[b].type = "incremental" => ExactIncremental(b)'
  BY DEF ExactOf
<1>1. Same(b)
  BY Elsewhere
<1>2. row'[b].prev \notin overlapped'
  BY DEF TypeOK
<1>3. /\ row'[b].prev = row[b].prev /\ row'[b].type = row[b].type /\ Old(b)' = Old(b)
      /\ row[b].prev \notin retried
  BY <1>2, OldKept
<1>4. /\ row[b].type = "full" => ExactFull(b)
      /\ row[b].type = "incremental" => ExactIncremental(b)
  BY <1>1, <1>3 DEF Same, ExactOf
<1>5. b \in Generated' <=> b \in Generated
  BY <1>1 DEF Same, Generated
<1>6. HasLoaded(b)' <=> HasLoaded(b)
  BY <1>1 DEF Same, HasLoaded
<1>7. ExactFull(b) => ExactFull(b)'
  BY <1>1, <1>5 DEF Same, ExactFull
<1>8. ExactIncremental(b) => ExactIncremental(b)'
  BY <1>1, <1>3, <1>5, <1>6 DEF Same, ExactIncremental
<1> QED
  BY <1>3, <1>4, <1>7, <1>8

-----------------------------------------------------------------------------
(***************************************************************************)
(* The invariant holds in every behaviour.                                 *)
(***************************************************************************)
LEMMA InitTypes == ASSUME Init PROVE TypeOK
<1>1. NoFindings \in Bags /\ Idle \in Attempt /\ NoRow \in AuditJob
  BY SomeAttempts
<1>2. created \in Seq(Audits) /\ IsInjective(created)
  <2>1. created = <<>> /\ DOMAIN created = {}
    BY DEF Init
  <2> QED
    BY <2>1 DEF IsInjective
<1>3. /\ row \in [Audits -> AuditJob] /\ table \in [Audits -> [Finding -> Nat]]
      /\ attempt \in [Audits -> [Slots -> Attempt]] /\ carried \in [Audits -> [Finding -> Nat]]
  BY <1>1 DEF Init, Bags
<1>4. /\ phase \in [Audits -> Activities \cup {"none", "linked", "end"}]
      /\ live \in [Audits -> Slots \cup {NoSlot}]
      /\ retrying \in [Audits -> BOOLEAN] /\ lost \in 0..MaxLost
      /\ reported \in [Audits -> Analyses \cup {{}}]
      /\ retried \subseteq Audits /\ overlapped \subseteq retried
  BY FindingsAssumption DEF Init
<1> QED
  BY <1>2, <1>3, <1>4 DEF TypeOK

LEMMA InitInv == ASSUME Init PROVE Inv
<1> SUFFICES ASSUME NEW a \in Audits
             PROVE  /\ FlowOf(a) /\ LinkOf(a) /\ RecordedOf(a) /\ BaselineOf(a)
                    /\ ScoreOf(a) /\ ReportOf(a) /\ GapsOf(a) /\ ExactOf(a)
  BY InitTypes DEF Inv
<1>1. /\ row[a] = NoRow /\ created = <<>> /\ phase[a] = "none" /\ table[a] = NoFindings
      /\ \A s \in Slots : attempt[a][s] = Idle
      /\ live[a] = NoSlot /\ retried = {} /\ overlapped = {}
  BY DEF Init
<1>2. row[a].status = "none" /\ row[a].type = "full" /\ row[a].prev = None
  BY <1>1 DEF NoRow
<1>3. FlowOf(a)
  BY <1>1, <1>2, IdleIs DEF FlowOf
<1>4. LinkOf(a) /\ BaselineOf(a)
  BY <1>2 DEF LinkOf, BaselineOf
<1>5. RecordedOf(a)
  BY <1>1, <1>2, IdleIs DEF RecordedOf, OnRecord, Passed
<1>6. ScoreOf(a) /\ ReportOf(a) /\ GapsOf(a)
  BY <1>1, <1>2, IdleIs DEF ScoreOf, Scored, ReportOf, GapsOf
<1>7. ExactOf(a)
  BY <1>1, <1>2, IdleIs DEF ExactOf, ExactFull, ScansExactly, Generated
<1> QED
  BY <1>3, <1>4, <1>5, <1>6, <1>7

LEMMA InvStep == ASSUME Inv, Next PROVE Inv'
<1>1. PICK a \in Audits : Act(a)
  BY NextActs
<1>2. /\ TypeOK
      /\ \A b \in Audits : /\ FlowOf(b) /\ LinkOf(b) /\ RecordedOf(b) /\ BaselineOf(b)
                           /\ ScoreOf(b) /\ ReportOf(b) /\ GapsOf(b) /\ ExactOf(b)
  BY DEF Inv
<1>3. TypeOK' /\ FlowOf(a)'
  BY <1>1, <1>2, TypeStep, FlowAct
<1>4. ASSUME NEW b \in Audits
      PROVE  /\ FlowOf(b)' /\ LinkOf(b)' /\ RecordedOf(b)' /\ BaselineOf(b)'
             /\ ScoreOf(b)' /\ ReportOf(b)' /\ GapsOf(b)' /\ ExactOf(b)'
  <2>1. LinkOf(b)' /\ BaselineOf(b)'
    BY <1>1, <1>2, LinkAct, BaselineAct
  <2>2. CASE b = a
    <3>1. FlowOf(a)' /\ RecordedOf(a)' /\ ScoreOf(a)'
      BY <1>1, <1>2, <1>3, RecordedAct, ScoreAct
    <3>2. ReportOf(a)' /\ GapsOf(a)'
      BY <1>1, <1>2, <1>3, ReportAct, GapsAct
    <3>3. ExactOf(a)'
      BY <1>1, <1>2, <1>3, ExactAct
    <3> QED
      BY <2>1, <2>2, <3>1, <3>2, <3>3
  <2>3. CASE b # a
    <3>1. Same(b)
      BY <1>1, <1>2, <2>3, Elsewhere
    <3>2. FlowOf(b)' /\ RecordedOf(b)' /\ ScoreOf(b)'
      BY <1>1, <1>2, <2>3, <3>1, FlowStays, RecordedStays, ScoreStays
    <3>3. ReportOf(b)' /\ GapsOf(b)'
      BY <1>2, <3>1, ReportStays, GapsStays
    <3>4. ExactOf(b)'
      BY <1>1, <1>2, <1>3, <2>3, ExactStays
    <3> QED
      BY <2>1, <3>2, <3>3, <3>4
  <2> QED
    BY <2>2, <2>3
<1> QED
  BY <1>3, <1>4 DEF Inv

LEMMA InvStutter == ASSUME Inv, UNCHANGED vars PROVE Inv'
<1>1. /\ row' = row /\ created' = created /\ table' = table /\ phase' = phase
      /\ attempt' = attempt /\ live' = live /\ retrying' = retrying /\ lost' = lost
      /\ reported' = reported /\ carried' = carried /\ retried' = retried
      /\ overlapped' = overlapped
  BY DEF vars, rows, work, story
<1>2. TypeOK'
  BY <1>1 DEF Inv, TypeOK
<1>3. ASSUME NEW b \in Audits
      PROVE  /\ FlowOf(b)' /\ LinkOf(b)' /\ RecordedOf(b)' /\ BaselineOf(b)'
             /\ ScoreOf(b)' /\ ReportOf(b)' /\ GapsOf(b)' /\ ExactOf(b)'
  <2>1. /\ FlowOf(b) /\ LinkOf(b) /\ RecordedOf(b) /\ BaselineOf(b)
        /\ ScoreOf(b) /\ ReportOf(b) /\ GapsOf(b) /\ ExactOf(b)
    BY DEF Inv
  <2>2. Same(b)
    BY <1>1 DEF Same
  <2>3. FlowOf(b)'
    BY <1>1, <2>1 DEF FlowOf
  <2>4. LinkOf(b)' /\ BaselineOf(b)'
    BY <1>1, <2>1 DEF LinkOf, BaselineOf
  <2>5. RecordedOf(b)' /\ ScoreOf(b)' /\ ReportOf(b)' /\ GapsOf(b)'
    BY <2>1, <2>2, RecordedStays, ScoreStays, ReportStays, GapsStays
  <2>6. ExactOf(b)'
    BY <1>1, <2>1 DEF ExactOf, ExactFull, ExactIncremental, Generated, HasLoaded, Old
  <2> QED
    BY <2>3, <2>4, <2>5, <2>6
<1> QED
  BY <1>2, <1>3 DEF Inv

\* The inductive invariant holds in every reachable state.
THEOREM Invariance == Spec => []Inv
<1>1. Init => Inv
  BY InitInv
<1>2. Inv /\ [Next]_vars => Inv'
  BY InvStep, InvStutter
<1> QED
  BY <1>1, <1>2, PTL DEF Spec

-----------------------------------------------------------------------------
(***************************************************************************)
(* What follows.                                                           *)
(***************************************************************************)
\* The rows, the attempts and the history have their types, created_at orders
\* the audits without repetition, and only an audit that lost an attempt can
\* have had two attempts at work.
THEOREM TypeCorrect == Spec => []TypeOK
<1>1. Inv => TypeOK
  BY DEF Inv
<1> QED
  BY <1>1, Invariance, PTL

LEMMA IssuesRecorded == ASSUME Inv PROVE IssuesOnRecord
<1>1. ASSUME NEW a \in Generated, NEW i \in reported[a]
      PROVE  IF row[a].type = "full" THEN table[a][Normal(i)] > 0
             ELSE At(table[a], Place(Normal(i))) > 0
  <2> DEFINE f == Normal(i)
  <2>1. a \in Audits /\ Passed(a) /\ TypeOK /\ RecordedOf(a)
    BY DEF Generated, Passed, Inv
  <2>2. reported[a] \in Analyses \cup {{}} /\ table[a] \in Bags
    BY <2>1, AuditTypes
  <2>3. f \in Finding /\ FromAnalysis(reported[a]) \in Bags /\ FromAnalysis(reported[a])[f] > 0
    BY <2>2, AnalysisIsFinite, FromAnalysisIs, NormalIsAFinding
  <2> HIDE DEF f
  <2>4. /\ row[a].type = "full" => table[a][f] >= FromAnalysis(reported[a])[f]
        /\ Place(f) \in Held(table[a])
    BY <2>1, <2>3 DEF RecordedOf, AllOnRecord
  <2>5. At(table[a], Place(f)) > 0
    BY <2>2, <2>4, AtIs
  <2>6. row[a].type = "full" => table[a][f] > 0
    <3>1. table[a][f] \in Nat /\ FromAnalysis(reported[a])[f] \in Nat
      BY <2>2, <2>3 DEF Bags
    <3> QED
      BY <2>3, <2>4, <3>1
  <2> QED
    BY <2>5, <2>6 DEF f
<1>2. ASSUME NEW a \in Audits, row[a].prev # None,
             phase[a] \in {"generate", "score", "complete"}, row[a].prev \notin overlapped
      PROVE  Held(table[row[a].prev]) \subseteq Held(table[a])
  <2>1. BaselineOf(a)
    BY DEF Inv
  <2>2. \A f \in Finding : table[row[a].prev][f] > 0 => table[a][f] > 0
    BY <1>2, <2>1 DEF BaselineOf
  <2> QED
    BY <2>2 DEF Held
<1> QED
  BY <1>1, <1>2 DEF IssuesOnRecord, EveryIssueHasAFinding, BaselineCarried

\* Whatever attempts are lost, repeated or overlap: once GenerateFindings has
\* returned, every issue of the analysis it read has its finding, and an
\* incremental audit holds what the audit before it held.
THEOREM IssuesStayOnRecord == Spec => []IssuesOnRecord
BY Invariance, IssuesRecorded, PTL

LEMMA Scores == ASSUME Inv PROVE ScoreHolds
<1>1. \A a \in Audits : TypeOK /\ ScoreOf(a) /\ ReportOf(a)
  BY DEF Inv
<1>2. ScoreNotUnderstated
  BY <1>1 DEF ScoreNotUnderstated, ScoreOf, Scored
<1>3. ReportAddsUp
  BY <1>1 DEF ReportAddsUp, ReportOf, Matches
<1> QED
  BY <1>2, <1>3 DEF ScoreHolds

\* The score stored for a full audit is at least that of the analysis, and a
\* completed audit's counters and score are those of its findings, unless an
\* abandoned attempt went on inserting.
THEOREM ScoresHold == Spec => []ScoreHolds
BY Invariance, Scores, PTL

LEMMA ListedOnce == ASSUME Inv PROVE NothingListedTwice
<1> SUFFICES ASSUME NEW a \in Generated \ overlapped, row[a].type = "incremental",
                    NEW f \in Finding
             PROVE  table[a][f] <= 1 \/ table[a][f] <= carried[a][f]
  BY DEF NothingListedTwice
<1>1. a \in Audits /\ HasLoaded(a) /\ GapsOf(a)
  BY DEF Generated, HasLoaded, Inv
<1> QED
  BY <1>1 DEF GapsOf, Allowed

\* GenerateFindings of an incremental audit lists nothing that was carried over
\* once more and nothing new twice, however often it is retried, as long as no
\* attempt overlapped with its retry.
THEOREM NothingIsListedTwice == Spec => []NothingListedTwice
BY Invariance, ListedOnce, PTL

\* An audit builds on itself and on its previous audit.
LEMMA AncestorsHave ==
  ASSUME NEW a \in Audits, row[a].prev \in Audits \cup {None}
  PROVE  a \in Ancestors(a) /\ (row[a].prev # None => row[a].prev \in Ancestors(a))
<1> DEFINE closed == {S \in SUBSET Audits :
                        a \in S /\ \A b \in S : row[b].prev \in S \cup {None}}
<1>1. Ancestors(a) = {b \in Audits : \A S \in closed : b \in S}
  BY DEF Ancestors
<1>2. \A S \in closed : a \in S /\ row[a].prev \in S \cup {None}
  OBVIOUS
<1> HIDE DEF closed
<1> QED
  BY <1>1, <1>2

LEMMA Exact == ASSUME Inv PROVE UndisturbedIsExact
<1> SUFFICES ASSUME NEW a \in Generated, Ancestors(a) \cap retried = {}
             PROVE  IF row[a].type = "full" THEN table[a] = FromAnalysis(reported[a])
                    ELSE \A f \in Finding :
                      \/ table[a][f] = Old(a)[f]
                      \/ /\ Old(a)[f] = 0 /\ table[a][f] = 1
                         /\ FromAnalysis(reported[a])[f] > 0
  BY DEF UndisturbedIsExact, Old
<1> DEFINE old == Old(a)
           new == FromAnalysis(reported[a])
           bag == table[a]
<1>1. /\ a \in Audits /\ HasLoaded(a) /\ TypeOK /\ GapsOf(a) /\ ExactOf(a)
  BY DEF Generated, HasLoaded, Inv
<1>2. /\ bag \in Bags /\ old \in Bags /\ row[a].prev \in Audits \cup {None}
      /\ row[a].type \in {"full", "incremental"} /\ overlapped \subseteq retried
  BY <1>1, AuditTypes, SomeAttempts DEF Old, TypeOK
<1>3. a \notin retried /\ row[a].prev \notin retried /\ a \notin overlapped
  <2>1. retried \subseteq Audits
    BY <1>1 DEF TypeOK
  <2> QED
    BY <1>1, <1>2, <2>1, AncestorsHave, FindingsAssumption
<1>4. CASE row[a].type = "full"
  BY <1>1, <1>3, <1>4 DEF ExactOf, ExactFull
<1>5. CASE row[a].type = "incremental"
  <2>1. /\ carried[a] = old
        /\ \A f \in Finding : Place(f) \in Held(old) => bag[f] = old[f]
        /\ OnlyNew(reported[a], old, bag)
    BY <1>1, <1>3, <1>5 DEF ExactOf, ExactIncremental
  <2>2. \A f \in Finding : bag[f] <= Allowed(old[f])
    BY <1>1, <1>3, <1>5, <2>1 DEF GapsOf
  <2>3. \A f \in Finding : bag[f] > 0 => Place(f) \in Held(old) \/ new[f] > 0
    BY <2>1 DEF OnlyNew
  <2> HIDE DEF old, new, bag
  <2>4. ASSUME NEW f \in Finding
        PROVE  bag[f] = old[f] \/ (old[f] = 0 /\ bag[f] = 1 /\ new[f] > 0)
    <3>1. bag[f] \in Nat /\ old[f] \in Nat
      BY <1>2 DEF Bags
    <3>2. CASE Place(f) \in Held(old)
      BY <2>1, <3>2
    <3>3. CASE Place(f) \notin Held(old)
      <4>1. ~(old[f] > 0)
        BY <3>3 DEF Held
      <4>2. old[f] = 0 /\ bag[f] <= 1
        BY <2>2, <3>1, <4>1 DEF Allowed
      <4>3. bag[f] = 0 \/ bag[f] = 1
        BY <3>1, <4>2
      <4>4. bag[f] = 1 => new[f] > 0
        BY <2>3, <3>3
      <4> QED
        BY <4>2, <4>3, <4>4
    <3> QED
      BY <3>2, <3>3
  <2> QED
    BY <1>5, <2>4 DEF old, new, bag
<1> QED
  BY <1>2, <1>4, <1>5

\* Where no attempt was lost, in an audit and in those it builds on, a full
\* audit's findings are those of its analysis, and an incremental audit's are
\* the previous audit's and such as the analysis reports, once each.
THEOREM FindingsAreExact == Spec => []UndisturbedIsExact
BY Invariance, Exact, PTL
=============================================================================
