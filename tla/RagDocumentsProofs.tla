------------------------- MODULE RagDocumentsProofs -------------------------
(***************************************************************************)
(* Proofs about Chunker and RagDocuments: what the loop and the            *)
(* deduplication compute for every text, the type invariant, what the      *)
(* index holds while goroutines fill it, what a search finds, and that     *)
(* progress rises.                                                         *)
(***************************************************************************)
EXTENDS RagDocuments, SequenceTheorems, NumberInduction

-----------------------------------------------------------------------------
(***************************************************************************)
(* Deduplicate: what it returns is a choice of the chunks, in their order: *)
(* those that are long enough and repeat no earlier one.                   *)
(***************************************************************************)
FirstsUpTo(chunks, n) ==
  {k \in 1..n : /\ Len(chunks[k]) >= MinWords
                /\ \A j \in 1..(k - 1) : chunks[j] # chunks[k]}

Chosen(out, chunks, K) ==
  \E order \in [1..Len(out) -> K] :
    /\ \A i, j \in 1..Len(out) : i < j => order[i] < order[j]
    /\ \A k \in K : \E i \in 1..Len(out) : order[i] = k
    /\ \A i \in 1..Len(out) : out[i] = chunks[order[i]]

Takes(chunks, k, out) ==
  IF Len(chunks[k]) < MinWords \/ Contains(out, chunks[k]) THEN out ELSE Append(out, chunks[k])

TakesUpTo(f, chunks, n) ==
  f[0] = <<>> /\ \A k \in 0..n : k # 0 => f[k] = Takes(chunks, k, f[k - 1])

LEMMA TakesType ==
  ASSUME NEW T, NEW chunks \in Seq(T), NEW k \in 1..Len(chunks), NEW out \in Seq(T)
  PROVE  Takes(chunks, k, out) \in Seq(T)
<1>1. chunks[k] \in T
  OBVIOUS
<1>2. Append(out, chunks[k]) \in Seq(T)
  BY <1>1
<1> QED
  BY <1>2 DEF Takes

LEMMA TakesExists ==
  ASSUME NEW T, NEW chunks \in Seq(T), NEW n \in Nat, n <= Len(chunks)
  PROVE  \E f \in [0..n -> Seq(T)] : TakesUpTo(f, chunks, n)
<1> DEFINE S == {m \in Nat : m <= Len(chunks) =>
                   \E f \in [0..m -> Seq(T)] : TakesUpTo(f, chunks, m)}
<1>1. 0 \in S
  <2> DEFINE f == [k \in 0..0 |-> <<>>]
  <2>1. f \in [0..0 -> Seq(T)] /\ TakesUpTo(f, chunks, 0)
    BY DEF TakesUpTo
  <2> QED
    BY <2>1
<1>2. ASSUME NEW m \in Nat, m \in S PROVE m + 1 \in S
  <2> SUFFICES ASSUME m + 1 <= Len(chunks)
               PROVE  \E f \in [0..(m + 1) -> Seq(T)] : TakesUpTo(f, chunks, m + 1)
    OBVIOUS
  <2>1. PICK f \in [0..m -> Seq(T)] : TakesUpTo(f, chunks, m)
    BY <1>2
  <2> DEFINE x == Takes(chunks, m + 1, f[m])
             g == [k \in 0..(m + 1) |-> IF k = m + 1 THEN x ELSE f[k]]
  <2>2. x \in Seq(T)
    <3>1. m + 1 \in 1..Len(chunks) /\ f[m] \in Seq(T)
      OBVIOUS
    <3> QED
      BY <3>1, TakesType
  <2> HIDE DEF x
  <2>3. g \in [0..(m + 1) -> Seq(T)]
    BY <2>2
  <2>4. g[m + 1] = x /\ \A k \in 0..m : g[k] = f[k]
    OBVIOUS
  <2> HIDE DEF g
  <2>5. g[0] = <<>>
    BY <2>1, <2>4 DEF TakesUpTo
  <2>6. ASSUME NEW k \in 0..(m + 1), k # 0 PROVE g[k] = Takes(chunks, k, g[k - 1])
    <3>1. k - 1 \in 0..m
      BY <2>6
    <3>2. g[k - 1] = f[k - 1]
      BY <2>4, <3>1
    <3>3. CASE k = m + 1
      <4>1. k - 1 = m
        BY <3>3
      <4> QED
        BY <2>4, <3>2, <3>3, <4>1 DEF x
    <3>4. CASE k # m + 1
      <4>1. k \in 0..m
        BY <2>6, <3>4
      <4>2. f[k] = Takes(chunks, k, f[k - 1])
        BY <2>1, <2>6, <4>1 DEF TakesUpTo
      <4> QED
        BY <2>4, <3>2, <4>1, <4>2
    <3> QED
      BY <3>3, <3>4
  <2> QED
    BY <2>3, <2>5, <2>6 DEF TakesUpTo
<1> HIDE DEF S
<1>3. n \in S
  BY <1>1, <1>2, NatSets
<1> QED
  BY <1>3 DEF S

\* A chunk has a first one that equals it.
LEMMA FirstEqual ==
  ASSUME NEW chunks, NEW k \in Nat \ {0}
  PROVE  \E j \in 1..k : /\ chunks[j] = chunks[k]
                         /\ \A i \in 1..(j - 1) : chunks[i] # chunks[j]
<1> DEFINE S == {j \in 1..k : chunks[j] = chunks[k]}
<1>1. S \in SUBSET Nat /\ k \in S
  OBVIOUS
<1>2. PICK j \in S : \A i \in S : j <= i
  BY <1>1, Least
<1>3. ASSUME NEW i \in 1..(j - 1) PROVE chunks[i] # chunks[j]
  <2>1. i \in 1..k /\ ~(j <= i)
    BY <1>1
  <2> QED
    BY <1>2, <2>1
<1> QED
  BY <1>2, <1>3

\* One chunk more: it is passed over, or it comes last.
LEMMA ChosenSkips ==
  ASSUME NEW W, NEW chunks \in Seq(Seq(W)), NEW m \in Nat, m + 1 <= Len(chunks),
         NEW out \in Seq(Seq(W)), Chosen(out, chunks, FirstsUpTo(chunks, m)),
         Len(chunks[m + 1]) < MinWords \/ Contains(out, chunks[m + 1])
  PROVE  FirstsUpTo(chunks, m + 1) = FirstsUpTo(chunks, m)
<1>1. PICK order \in [1..Len(out) -> FirstsUpTo(chunks, m)] :
        \A i \in 1..Len(out) : out[i] = chunks[order[i]]
  BY DEF Chosen
<1>2. m + 1 \notin FirstsUpTo(chunks, m + 1)
  <2>1. CASE Len(chunks[m + 1]) < MinWords
    <3>1. chunks[m + 1] \in Seq(W)
      OBVIOUS
    <3>2. ~(Len(chunks[m + 1]) >= MinWords)
      BY <2>1, <3>1, ChunkerAssumption
    <3> QED
      BY <3>2 DEF FirstsUpTo
  <2>2. CASE Contains(out, chunks[m + 1])
    <3>1. PICK i \in 1..Len(out) : out[i] = chunks[m + 1]
      BY <2>2 DEF Contains
    <3>2. order[i] \in FirstsUpTo(chunks, m)
      BY <1>1
    <3>3. order[i] \in 1..m
      BY <3>2 DEF FirstsUpTo
    <3>4. order[i] \in 1..((m + 1) - 1)
      BY <3>3
    <3>5. chunks[order[i]] = chunks[m + 1]
      BY <1>1, <3>1
    <3> QED
      BY <3>4, <3>5 DEF FirstsUpTo
  <2> QED
    BY <2>1, <2>2
<1>3. \A k : k \in 1..(m + 1) <=> k \in 1..m \/ k = m + 1
  OBVIOUS
<1> QED
  BY <1>2, <1>3 DEF FirstsUpTo

LEMMA ChosenAdds ==
  ASSUME NEW W, NEW chunks \in Seq(Seq(W)), NEW m \in Nat, m + 1 <= Len(chunks),
         NEW out \in Seq(Seq(W)), Chosen(out, chunks, FirstsUpTo(chunks, m)),
         ~(Len(chunks[m + 1]) < MinWords), ~Contains(out, chunks[m + 1])
  PROVE  Chosen(Append(out, chunks[m + 1]), chunks, FirstsUpTo(chunks, m + 1))
<1> DEFINE K == FirstsUpTo(chunks, m)
           L == FirstsUpTo(chunks, m + 1)
           c == chunks[m + 1]
           o == Append(out, c)
<1>1. PICK order \in [1..Len(out) -> K] :
        /\ \A i, j \in 1..Len(out) : i < j => order[i] < order[j]
        /\ \A k \in K : \E i \in 1..Len(out) : order[i] = k
        /\ \A i \in 1..Len(out) : out[i] = chunks[order[i]]
  BY DEF Chosen
<1>2. K \subseteq 1..m /\ \A k \in 1..m : k \in L <=> k \in K
  BY DEF FirstsUpTo
<1>3. c \in Seq(W) /\ m + 1 \in 1..(m + 1)
  OBVIOUS
<1>4. ASSUME NEW j \in 1..m, chunks[j] = c PROVE FALSE
  <2>1. PICK f \in 1..j : chunks[f] = chunks[j] /\ \A i \in 1..(f - 1) : chunks[i] # chunks[f]
    <3>1. j \in Nat \ {0}
      OBVIOUS
    <3> QED
      BY <3>1, FirstEqual
  <2>2. Len(chunks[f]) >= MinWords
    BY <1>3, <1>4, <2>1, ChunkerAssumption
  <2>3. f \in K
    BY <2>1, <2>2 DEF FirstsUpTo
  <2>4. PICK i \in 1..Len(out) : order[i] = f
    BY <1>1, <2>3
  <2>5. out[i] = c
    BY <1>1, <1>4, <2>1, <2>4
  <2> QED
    BY <2>5 DEF Contains
<1>5. m + 1 \in L
  <2>1. Len(c) >= MinWords
    BY <1>3, ChunkerAssumption
  <2>2. \A j \in 1..((m + 1) - 1) : chunks[j] # c
    BY <1>4
  <2> QED
    BY <1>3, <2>1, <2>2 DEF FirstsUpTo
<1>6. L \subseteq K \cup {m + 1}
  <2>1. L \subseteq 1..(m + 1)
    BY DEF FirstsUpTo
  <2> QED
    BY <1>2, <2>1
<1>7. K \subseteq L
  BY <1>2
<1>8. Len(o) = Len(out) + 1 /\ o[Len(out) + 1] = c /\ \A i \in 1..Len(out) : o[i] = out[i]
  BY <1>3
<1> DEFINE n == Len(out)
           g == [i \in 1..(n + 1) |-> IF i = n + 1 THEN m + 1 ELSE order[i]]
<1>9. n \in Nat
  OBVIOUS
<1> HIDE DEF n, K, L, c, o
<1>10. g \in [1..(n + 1) -> L]
  BY <1>1, <1>5, <1>7, <1>9 DEF n
<1>11. g[n + 1] = m + 1 /\ \A i \in 1..n : g[i] = order[i]
  BY <1>9
<1>12. \A i \in 1..n : order[i] \in 1..m
  BY <1>1, <1>2 DEF n
<1> HIDE DEF g
<1>13. ASSUME NEW i \in 1..(n + 1), NEW j \in 1..(n + 1), i < j PROVE g[i] < g[j]
  <2>1. i \in 1..n
    BY <1>9, <1>13
  <2>2. CASE j = n + 1
    BY <1>11, <1>12, <2>1, <2>2
  <2>3. CASE j # n + 1
    <3>1. j \in 1..n
      BY <1>9, <2>3
    <3> QED
      BY <1>1, <1>11, <1>13, <2>1, <3>1 DEF n
  <2> QED
    BY <2>2, <2>3
<1>14. ASSUME NEW k \in L PROVE \E i \in 1..(n + 1) : g[i] = k
  <2>1. CASE k = m + 1
    BY <1>9, <1>11, <2>1
  <2>2. CASE k \in K
    <3>1. PICK i \in 1..n : order[i] = k
      BY <1>1, <2>2 DEF n
    <3>2. i \in 1..(n + 1)
      BY <1>9
    <3> QED
      BY <1>11, <3>1, <3>2
  <2> QED
    BY <1>6, <2>1, <2>2
<1>15. ASSUME NEW i \in 1..(n + 1) PROVE o[i] = chunks[g[i]]
  <2>1. CASE i = n + 1
    BY <1>8, <1>11, <2>1 DEF n, c
  <2>2. CASE i \in 1..n
    BY <1>1, <1>8, <1>11, <2>2 DEF n
  <2> QED
    BY <1>9, <2>1, <2>2
<1>16. Len(o) = n + 1
  BY <1>8 DEF n
<1>17. Chosen(o, chunks, L)
  <2>1. g \in [1..Len(o) -> L]
    BY <1>10, <1>16
  <2>2. \A i, j \in 1..Len(o) : i < j => g[i] < g[j]
    BY <1>13, <1>16
  <2>3. \A k \in L : \E i \in 1..Len(o) : g[i] = k
    BY <1>14, <1>16
  <2>4. \A i \in 1..Len(o) : o[i] = chunks[g[i]]
    BY <1>15, <1>16
  <2> QED
    BY <2>1, <2>2, <2>3, <2>4 DEF Chosen
<1> QED
  BY <1>17 DEF o, c, L

LEMMA TakesChooses ==
  ASSUME NEW W, NEW chunks \in Seq(Seq(W)), NEW n \in Nat, n <= Len(chunks),
         NEW f, TakesUpTo(f, chunks, n)
  PROVE  f[n] \in Seq(Seq(W)) /\ Chosen(f[n], chunks, FirstsUpTo(chunks, n))
<1> DEFINE S == {m \in Nat : m <= n =>
                   f[m] \in Seq(Seq(W)) /\ Chosen(f[m], chunks, FirstsUpTo(chunks, m))}
<1>1. 0 \in S
  <2>1. f[0] = <<>>
    BY DEF TakesUpTo
  <2>2. FirstsUpTo(chunks, 0) = {}
    BY DEF FirstsUpTo
  <2> DEFINE order == [i \in 1..Len(<<>>) |-> 0]
  <2>3. order \in [1..Len(<<>>) -> {}]
    OBVIOUS
  <2>4. Chosen(<<>>, chunks, {})
    BY <2>3 DEF Chosen
  <2>5. <<>> \in Seq(Seq(W))
    OBVIOUS
  <2> QED
    BY <2>1, <2>2, <2>4, <2>5
<1>2. ASSUME NEW m \in Nat, m \in S PROVE m + 1 \in S
  <2> SUFFICES ASSUME m + 1 <= n
               PROVE  /\ f[m + 1] \in Seq(Seq(W))
                      /\ Chosen(f[m + 1], chunks, FirstsUpTo(chunks, m + 1))
    OBVIOUS
  <2>1. f[m] \in Seq(Seq(W)) /\ Chosen(f[m], chunks, FirstsUpTo(chunks, m))
    BY <1>2
  <2>2. m + 1 \in 1..Len(chunks) /\ m + 1 <= Len(chunks) /\ m + 1 \in 0..n
    OBVIOUS
  <2>3. f[m + 1] = Takes(chunks, m + 1, f[m])
    <3>1. (m + 1) - 1 = m /\ m + 1 # 0
      OBVIOUS
    <3> QED
      BY <2>2, <3>1 DEF TakesUpTo
  <2>4. f[m + 1] \in Seq(Seq(W))
    BY <2>1, <2>2, <2>3, TakesType
  <2>5. CASE Len(chunks[m + 1]) < MinWords \/ Contains(f[m], chunks[m + 1])
    BY <2>1, <2>2, <2>3, <2>4, <2>5, ChosenSkips DEF Takes
  <2>6. CASE ~(Len(chunks[m + 1]) < MinWords \/ Contains(f[m], chunks[m + 1]))
    BY <2>1, <2>2, <2>3, <2>4, <2>6, ChosenAdds DEF Takes
  <2> QED
    BY <2>4, <2>5, <2>6
<1> HIDE DEF S
<1>3. n \in S
  BY <1>1, <1>2, NatSets
<1> QED
  BY <1>3 DEF S

(***************************************************************************)
(* deduplicateChunks, for chunks of any number and length.                 *)
(***************************************************************************)
LEMMA DeduplicateIs ==
  ASSUME NEW W, NEW chunks \in Seq(Seq(W))
  PROVE  /\ Deduplicate(chunks) \in Seq(Seq(W))
         /\ Chosen(Deduplicate(chunks), chunks, FirstsUpTo(chunks, Len(chunks)))
<1> DEFINE n == Len(chunks)
           F(f) == [k \in 0..n |->
                      IF k = 0 THEN <<>>
                      ELSE IF Len(chunks[k]) < MinWords \/ Contains(f[k - 1], chunks[k])
                             THEN f[k - 1] ELSE Append(f[k - 1], chunks[k])]
           s == CHOOSE f : f = F(f)
<1>0. n \in Nat
  OBVIOUS
<1>1. Deduplicate(chunks) = s[n]
  BY DEF Deduplicate
<1> HIDE DEF n
<1>2. PICK f \in [0..n -> Seq(Seq(W))] : TakesUpTo(f, chunks, n)
  BY <1>0, TakesExists DEF n
<1>3. f = F(f)
  <2>1. \A k \in 0..n : f[k] = F(f)[k]
    BY <1>2 DEF TakesUpTo, Takes
  <2>2. f = [k \in 0..n |-> f[k]]
    OBVIOUS
  <2>3. [k \in 0..n |-> f[k]] = [k \in 0..n |-> F(f)[k]]
    BY <2>1
  <2>4. [k \in 0..n |-> F(f)[k]] = F(f)
    OBVIOUS
  <2> QED
    BY <2>2, <2>3, <2>4
<1>4. s = F(s)
  BY <1>3
<1> HIDE DEF s
<1>5. TakesUpTo(s, chunks, n)
  <2>1. s[0] = <<>>
    BY <1>0, <1>4
  <2>2. ASSUME NEW k \in 0..n, k # 0 PROVE s[k] = Takes(chunks, k, s[k - 1])
    BY <1>4, <2>2 DEF Takes
  <2> QED
    BY <2>1, <2>2 DEF TakesUpTo
<1>6. s[n] \in Seq(Seq(W)) /\ Chosen(s[n], chunks, FirstsUpTo(chunks, n))
  BY <1>0, <1>5, TakesChooses DEF n
<1> QED
  BY <1>1, <1>6 DEF n

-----------------------------------------------------------------------------
(***************************************************************************)
(* The windows.  Arithmetic first: products and quotients.                 *)
(***************************************************************************)
LEMMA TimesUp == \A a, b \in Int, s \in Nat : a <= b => a * s <= b * s
<1> SUFFICES ASSUME NEW a \in Int, NEW b \in Int, NEW s \in Nat, a <= b PROVE a * s <= b * s
  OBVIOUS
<1>1. (b - a) * s >= 0
  OBVIOUS
<1>2. (b - a) * s = b * s - a * s
  OBVIOUS
<1> QED
  BY <1>1, <1>2

LEMMA TimesDown ==
  ASSUME NEW a \in Int, NEW b \in Int, NEW s \in Nat \ {0}, a * s < b * s
  PROVE  a < b
<1> SUFFICES ASSUME b <= a PROVE FALSE
  OBVIOUS
<1>1. b * s <= a * s
  BY TimesUp
<1>2. a * s \in Int /\ b * s \in Int
  OBVIOUS
<1> QED
  BY <1>1, <1>2

LEMMA TimesNext == \A a \in Int, s \in Int : (a + 1) * s = a * s + s /\ (a - 1) * s = a * s - s
OBVIOUS

LEMMA Quotient ==
  ASSUME NEW a \in Nat, NEW s \in Nat \ {0}
  PROVE  /\ a \div s \in Nat
         /\ (a \div s) * s <= a /\ a < (a \div s) * s + s
OBVIOUS

LEMMA StrideIs ==
  ASSUME Advances
  PROVE  /\ Stride \in Nat \ {0} /\ Stride + ChunkOverlap = ChunkSize
         /\ ChunkSize \in Nat \ {0} /\ ChunkOverlap \in Nat /\ MinWords \in Nat
BY ChunkerAssumption DEF Stride, Advances

(***************************************************************************)
(* A loop that advances does so by the stride, whatever its guard says; one *)
(* that does not stands still at the start or leaves the text.             *)
(***************************************************************************)
LEMMA NextIs ==
  ASSUME Advances, NEW start \in Nat, NEW n \in Nat
  PROVE  NextStart(start, n) = start + Stride
BY ChunkerAssumption DEF NextStart, WindowEnd, Stride, Advances

LEMMA NextStays ==
  ASSUME ~Advances, NEW n \in Nat
  PROVE  NextStart(0, n) \in Int /\ NextStart(0, n) <= 0
BY ChunkerAssumption DEF NextStart, WindowEnd, Advances

LEMMA EndIs ==
  ASSUME Advances, NEW start \in Nat, NEW n \in Nat, start < n
  PROVE  /\ WindowEnd(start, n) \in (start + 1)..n
         /\ WindowEnd(start, n) <= start + ChunkSize
         /\ WindowEnd(start, n) = start + ChunkSize \/ WindowEnd(start, n) = n
BY ChunkerAssumption DEF WindowEnd, Advances

LEMMA WindowIs ==
  ASSUME Advances, NEW W, NEW words \in Seq(W), NEW start \in Nat, start < Len(words)
  PROVE  /\ Window(words, start) \in Seq(W)
         /\ Len(Window(words, start)) = WindowEnd(start, Len(words)) - start
<1> DEFINE e == WindowEnd(start, Len(words))
<1>1. e \in (start + 1)..Len(words)
  BY EndIs
<1> HIDE DEF e
<1>2. \A i \in (start + 1)..e : words[i] \in W
  BY <1>1
<1>3. SubSeq(words, start + 1, e) \in Seq(W) /\ Len(SubSeq(words, start + 1, e)) = e - start
  BY <1>1, <1>2, SubSeqProperties
<1> QED
  BY <1>3 DEF Window, e

(***************************************************************************)
(* There is a window for every multiple of the stride below the length.    *)
(***************************************************************************)
Count(words) == (Len(words) + Stride - 1) \div Stride

LEMMA CountIs ==
  ASSUME Advances, NEW W, NEW words \in Seq(W)
  PROVE  /\ Count(words) \in Nat
         /\ WindowsOf(words) = [k \in 1..Count(words) |-> Window(words, (k - 1) * Stride)]
         /\ \A k \in Nat \ {0} : k <= Count(words) <=> (k - 1) * Stride < Len(words)
<1> DEFINE n == Len(words)
           a == n + Stride - 1
           q == a \div Stride
<1>0. n \in Nat /\ Stride \in Nat \ {0}
  BY StrideIs
<1>1. n \in Nat /\ a \in Nat /\ Stride \in Nat \ {0} /\ n = a - Stride + 1
  BY <1>0
<1> HIDE DEF a, n
<1>2. q \in Nat /\ q * Stride <= a /\ a < q * Stride + Stride
  BY <1>1, Quotient
<1>3. q = Count(words)
  BY DEF q, Count, n, a
<1> HIDE DEF q
<1>4. ASSUME NEW k \in Nat \ {0} PROVE k <= q <=> (k - 1) * Stride < n
  <2>1. (k - 1) * Stride = k * Stride - Stride /\ (q + 1) * Stride = q * Stride + Stride
    BY <1>1, <1>2, TimesNext
  <2>2. k * Stride \in Int /\ q * Stride \in Int /\ Stride \in Int
    BY <1>1, <1>2
  <2>3. k <= q => k * Stride <= q * Stride
    BY <1>1, <1>2, TimesUp
  <2>4. k <= q => (k - 1) * Stride < n
    BY <1>1, <1>2, <2>1, <2>2, <2>3
  <2>5. (k - 1) * Stride < n => k * Stride < (q + 1) * Stride
    BY <1>1, <1>2, <2>1, <2>2
  <2>6. (k - 1) * Stride < n => k < q + 1
    BY <1>1, <1>2, <2>5, TimesDown
  <2> QED
    BY <1>2, <2>4, <2>6
<1> QED
  BY <1>2, <1>3, <1>4 DEF WindowsOf, Count, n

LEMMA WindowsAre ==
  ASSUME Advances, NEW W, NEW words \in Seq(W)
  PROVE  /\ WindowsOf(words) \in Seq(Seq(W)) /\ Len(WindowsOf(words)) = Count(words)
         /\ DOMAIN WindowsOf(words) = 1..Count(words)
         /\ \A k \in 1..Count(words) :
              /\ (k - 1) * Stride \in Nat /\ (k - 1) * Stride < Len(words)
              /\ WindowsOf(words)[k] = Window(words, (k - 1) * Stride)
              /\ WindowsOf(words)[k] \in Seq(W)
              /\ Len(WindowsOf(words)[k])
                   = WindowEnd((k - 1) * Stride, Len(words)) - (k - 1) * Stride
<1> DEFINE n == Count(words)
           ws == WindowsOf(words)
<1>1. n \in Nat /\ ws = [k \in 1..n |-> Window(words, (k - 1) * Stride)]
      /\ \A k \in Nat \ {0} : k <= n <=> (k - 1) * Stride < Len(words)
  BY CountIs
<1> HIDE DEF n, ws
<1>2. ASSUME NEW k \in 1..n
      PROVE  /\ (k - 1) * Stride \in Nat /\ (k - 1) * Stride < Len(words)
             /\ ws[k] = Window(words, (k - 1) * Stride)
             /\ ws[k] \in Seq(W)
             /\ Len(ws[k]) = WindowEnd((k - 1) * Stride, Len(words)) - (k - 1) * Stride
  <2> DEFINE x == (k - 1) * Stride
  <2>1. k \in Nat \ {0} /\ k <= n /\ k - 1 \in Nat
    BY <1>1
  <2>2. x \in Nat
    BY <2>1, StrideIs
  <2>3. x < Len(words)
    BY <1>1, <2>1
  <2>4. ws[k] = Window(words, x)
    BY <1>1
  <2> HIDE DEF x
  <2>5. ws[k] \in Seq(W) /\ Len(ws[k]) = WindowEnd(x, Len(words)) - x
    BY <2>2, <2>3, <2>4, WindowIs
  <2> QED
    BY <2>2, <2>3, <2>4, <2>5 DEF x
<1>3. DOMAIN ws = 1..n
  BY <1>1
<1>4. ws \in [1..n -> Seq(W)]
  <2>1. ws = [k \in 1..n |-> ws[k]]
    BY <1>1
  <2> QED
    BY <1>2, <2>1
<1>5. ws \in Seq(Seq(W)) /\ Len(ws) = n
  BY <1>1, <1>4, SeqDef
<1> QED
  BY <1>2, <1>3, <1>5 DEF n, ws

LEMMA KeptAre ==
  ASSUME Advances, NEW W, NEW words \in Seq(W)
  PROVE  Kept(words) = FirstsUpTo(WindowsOf(words), Len(WindowsOf(words)))
BY WindowsAre DEF Kept, FirstsUpTo

LEMMA AreIsChosen ==
  ASSUME NEW W, NEW words \in Seq(W), NEW T, NEW chunks \in Seq(T)
  PROVE  AreChunksOf(chunks, words) <=> Chosen(chunks, WindowsOf(words), Kept(words))
<1>1. DOMAIN chunks = 1..Len(chunks)
  OBVIOUS
<1> QED
  BY <1>1 DEF AreChunksOf, Chosen

\* The windows, deduplicated, are the chunks of the text.
LEMMA DeduplicatedWindows ==
  ASSUME Advances, NEW W, NEW words \in Seq(W)
  PROVE  /\ Deduplicate(WindowsOf(words)) \in Seq(Seq(W))
         /\ AreChunksOf(Deduplicate(WindowsOf(words)), words)
<1>1. WindowsOf(words) \in Seq(Seq(W))
  BY WindowsAre
<1>2. /\ Deduplicate(WindowsOf(words)) \in Seq(Seq(W))
      /\ Chosen(Deduplicate(WindowsOf(words)), WindowsOf(words), Kept(words))
  BY <1>1, DeduplicateIs, KeptAre
<1> QED
  BY <1>2, AreIsChosen

\* Chunks of a text are different from each other and are windows of it.
LEMMA ChunksDiffer ==
  ASSUME Advances, NEW W, NEW words \in Seq(W), NEW chunks \in Seq(Seq(W)), AreChunksOf(chunks, words)
  PROVE  /\ \A i, j \in 1..Len(chunks) : chunks[i] = chunks[j] => i = j
         /\ \A i \in 1..Len(chunks) :
              chunks[i] \in {WindowsOf(words)[k] : k \in Kept(words)}
<1> DEFINE ws == WindowsOf(words)
<1>1. PICK order \in [1..Len(chunks) -> Kept(words)] :
        /\ \A i, j \in 1..Len(chunks) : i < j => order[i] < order[j]
        /\ \A i \in 1..Len(chunks) : chunks[i] = ws[order[i]]
  BY AreIsChosen DEF Chosen
<1>2. \A i \in 1..Len(chunks) : order[i] \in Nat
  <2>1. Kept(words) \subseteq 1..Len(ws)
    BY KeptAre DEF FirstsUpTo
  <2>2. \A i \in 1..Len(chunks) : order[i] \in Kept(words)
    BY <1>1
  <2>3. Kept(words) \subseteq Nat
    BY <2>1
  <2> QED
    BY <2>2, <2>3
<1> HIDE DEF ws
<1>3. ASSUME NEW i \in 1..Len(chunks), NEW j \in 1..Len(chunks), i < j, chunks[i] = chunks[j]
      PROVE  FALSE
  <2>1. order[i] < order[j] /\ ws[order[i]] = ws[order[j]]
    BY <1>1, <1>3
  <2>2. order[i] \in 1..(order[j] - 1)
    <3>1. order[i] \in 1..Len(ws)
      BY <1>1, KeptAre DEF FirstsUpTo, ws
    <3> QED
      BY <1>2, <2>1, <3>1
  <2>3. order[j] \in Kept(words)
    BY <1>1
  <2> QED
    BY <2>1, <2>2, <2>3 DEF Kept, ws
<1>4. \A i, j \in 1..Len(chunks) : chunks[i] = chunks[j] => i = j
  <2> SUFFICES ASSUME NEW i \in 1..Len(chunks), NEW j \in 1..Len(chunks),
                      chunks[i] = chunks[j], i # j
               PROVE  FALSE
    OBVIOUS
  <2>1. i < j \/ j < i
    OBVIOUS
  <2> QED
    BY <1>3, <2>1
<1>5. \A i \in 1..Len(chunks) : chunks[i] \in {ws[k] : k \in Kept(words)}
  BY <1>1
<1> QED
  BY <1>4, <1>5 DEF ws

(***************************************************************************)
(* No word is lost.  The first window that reaches a word is long enough:  *)
(* it is not cut, or it is longer than the overlap, since the one before   *)
(* it ended earlier, or it is the whole text.                              *)
(***************************************************************************)
LEMMA LongWindow ==
  ASSUME Advances, NEW W, NEW words \in Seq(W), NEW i \in 1..Len(words), Kept(words) # {},
         ChunkOverlap + 1 >= MinWords
  PROVE  \E k \in 1..Count(words) :
           /\ i \in ((k - 1) * Stride + 1)..WindowEnd((k - 1) * Stride, Len(words))
           /\ Len(WindowsOf(words)[k]) >= MinWords
<1> DEFINE n == Len(words)
           S == {k \in Nat \ {0} : i <= (k - 1) * Stride + ChunkSize}
<1>0. /\ n \in Nat /\ Stride \in Nat \ {0} /\ Stride + ChunkOverlap = ChunkSize
      /\ ChunkSize \in Nat \ {0} /\ ChunkOverlap \in Nat /\ MinWords \in Nat
      /\ i \in Nat /\ 1 <= i /\ i <= n
  BY StrideIs
<1>1. i + 1 \in S
  <2>1. i * Stride >= i * 1
    BY <1>0
  <2>2. (i + 1) - 1 = i
    BY <1>0
  <2> QED
    BY <1>0, <2>1, <2>2
<1>2. PICK k \in S : \A j \in S : k <= j
  BY <1>1, Least
<1> DEFINE x == (k - 1) * Stride
           e == WindowEnd(x, n)
<1>3. k \in Nat \ {0} /\ x \in Nat /\ i <= x + ChunkSize
  BY <1>0, <1>2
<1>4. k = 1 => x = 0
  BY <1>0
<1>5. k # 1 => x + ChunkOverlap < i
  <2> SUFFICES ASSUME k # 1 PROVE x + ChunkOverlap < i
    OBVIOUS
  <2>1. k - 1 \in Nat \ {0} /\ ~(k <= k - 1)
    BY <1>3
  <2>2. ~(i <= ((k - 1) - 1) * Stride + ChunkSize)
    BY <1>2, <2>1
  <2>3. ((k - 1) - 1) * Stride = x - Stride
    BY <1>0, <2>1, TimesNext
  <2> QED
    BY <1>0, <1>3, <2>2, <2>3
<1>6. x < i
  BY <1>0, <1>3, <1>4, <1>5
<1>7. k \in 1..Count(words)
  <2>1. x < n
    BY <1>0, <1>3, <1>6
  <2>2. Count(words) \in Nat /\ k <= Count(words)
    BY <1>3, <2>1, CountIs DEF n
  <2> QED
    BY <1>3, <2>2
<1>8. Len(WindowsOf(words)[k]) = e - x
  BY <1>7, WindowsAre
<1> HIDE DEF x
<1>9. e = IF x + ChunkSize < n THEN x + ChunkSize ELSE n
  BY DEF WindowEnd
<1> HIDE DEF e
<1>10. i \in (x + 1)..e
  BY <1>0, <1>3, <1>6, <1>9
<1>11. e - x >= MinWords
  <2>1. CASE e = x + ChunkSize
    BY <1>0, <1>3, <2>1
  <2>2. CASE e = n /\ k # 1
    BY <1>0, <1>3, <1>5, <2>2
  <2>3. CASE e = n /\ k = 1
    <3>1. PICK j \in Kept(words) : TRUE
      OBVIOUS
    <3>2. j \in 1..Count(words) /\ Len(WindowsOf(words)[j]) >= MinWords
      BY WindowsAre DEF Kept
    <3> DEFINE y == (j - 1) * Stride
               d == WindowEnd(y, n)
    <3>3. y \in Nat /\ y < n /\ Len(WindowsOf(words)[j]) = d - y
      BY <3>2, WindowsAre DEF n
    <3> HIDE DEF y
    <3>4. d \in (y + 1)..n
      BY <1>0, <3>3, EndIs
    <3> HIDE DEF d
    <3>5. n >= MinWords
      BY <1>0, <3>2, <3>3, <3>4
    <3> QED
      BY <1>0, <1>4, <2>3, <3>5
  <2> QED
    BY <1>9, <2>1, <2>2, <2>3
<1> QED
  BY <1>7, <1>8, <1>10, <1>11 DEF x, e, n

LEMMA ChunksCover ==
  ASSUME Advances, NEW W, NEW words \in Seq(W), NEW chunks \in Seq(Seq(W)), AreChunksOf(chunks, words),
         chunks # <<>>, ChunkOverlap + 1 >= MinWords
  PROVE  Covers(chunks, words)
<1> DEFINE ws == WindowsOf(words)
<1>0. Chosen(chunks, ws, Kept(words))
  BY AreIsChosen
<1>1. PICK order \in [1..Len(chunks) -> Kept(words)] :
        /\ \A k \in Kept(words) : \E i \in 1..Len(chunks) : order[i] = k
        /\ \A i \in 1..Len(chunks) : chunks[i] = ws[order[i]]
  BY <1>0 DEF Chosen
<1>2. Kept(words) # {}
  <2>1. 1 \in 1..Len(chunks)
    OBVIOUS
  <2>2. order[1] \in Kept(words)
    BY <1>1, <2>1
  <2> QED
    BY <2>2
<1>3. DOMAIN ws = 1..Count(words) /\ Count(words) \in Nat
  BY WindowsAre, CountIs
<1> HIDE DEF ws
<1>4. ASSUME NEW k \in 1..Count(words), Len(ws[k]) >= MinWords PROVE Contains(chunks, ws[k])
  <2>1. PICK j \in 1..k : ws[j] = ws[k] /\ \A i \in 1..(j - 1) : ws[i] # ws[j]
    <3>1. k \in Nat \ {0}
      OBVIOUS
    <3> QED
      BY <3>1, FirstEqual
  <2>2. j \in DOMAIN ws
    BY <1>3
  <2>3. j \in Kept(words)
    BY <1>4, <2>1, <2>2 DEF Kept, ws
  <2>4. PICK i \in 1..Len(chunks) : order[i] = j
    BY <1>1, <2>3
  <2>5. chunks[i] = ws[k]
    BY <1>1, <2>1, <2>4
  <2> QED
    BY <2>5 DEF Contains
<1>5. ASSUME NEW i \in 1..Len(words)
      PROVE  \E k \in DOMAIN ws :
               /\ i \in ((k - 1) * Stride + 1)..WindowEnd((k - 1) * Stride, Len(words))
               /\ Contains(chunks, ws[k])
  <2>1. PICK k \in 1..Count(words) :
          /\ i \in ((k - 1) * Stride + 1)..WindowEnd((k - 1) * Stride, Len(words))
          /\ Len(ws[k]) >= MinWords
    BY <1>2, LongWindow DEF ws
  <2> QED
    BY <1>3, <1>4, <2>1
<1> QED
  BY <1>5 DEF Covers, ws

-----------------------------------------------------------------------------
(***************************************************************************)
(* Progress: the share of a chunk is a percentage, and it rises.           *)
(***************************************************************************)
LEMMA ShareIs ==
  ASSUME NEW n \in Nat \ {0}, NEW total \in Nat, n <= total
  PROVE  Share(n, total) \in 10..100
<1> DEFINE q == (n * 90) \div total
<1>1. n * 90 \in Nat /\ total \in Nat \ {0}
  OBVIOUS
<1>2. q \in Nat /\ q * total <= n * 90
  BY <1>1, Quotient
<1>3. Share(n, total) = 10 + q
  BY DEF Share
<1> HIDE DEF q
<1>4. q * total < 91 * total
  BY <1>1, <1>2
<1>5. q < 91
  BY <1>1, <1>2, <1>4, TimesDown
<1> QED
  BY <1>2, <1>3, <1>5

LEMMA ShareRises ==
  ASSUME NEW n \in Nat \ {0}, NEW total \in Nat, n + 1 <= total
  PROVE  Share(n, total) <= Share(n + 1, total)
<1> DEFINE q == (n * 90) \div total
           r == ((n + 1) * 90) \div total
<1>1. n * 90 \in Nat /\ (n + 1) * 90 \in Nat /\ total \in Nat \ {0}
  OBVIOUS
<1>2. /\ q \in Nat /\ q * total <= n * 90
      /\ r \in Nat /\ (n + 1) * 90 < r * total + total
  BY <1>1, Quotient
<1>3. Share(n, total) = 10 + q /\ Share(n + 1, total) = 10 + r
  BY DEF Share
<1> HIDE DEF q, r
<1>4. (r + 1) * total = r * total + total
  BY <1>1, <1>2, TimesNext
<1>5. q * total < (r + 1) * total
  <2>1. q * total \in Int /\ r * total \in Int /\ n * 90 <= (n + 1) * 90
    BY <1>1, <1>2
  <2> QED
    BY <1>1, <1>2, <1>4, <2>1
<1>6. q < r + 1
  BY <1>1, <1>2, <1>5, TimesDown
<1> QED
  BY <1>2, <1>3, <1>6

-----------------------------------------------------------------------------
(***************************************************************************)
(* The record of a goroutine: what holds at each place of                  *)
(* processDocumentAsync.                                                   *)
(***************************************************************************)
Words == UNION {ToSet(t) : t \in Texts}
Stations == {"idle", "begin", "splitting", "fail", "extracted", "report", "embed", "finish",
             "conclude"}
Indexing == {"report", "embed", "finish", "conclude"}

SplitSoFar(r) ==
  /\ r.text # NoText /\ r.start < Len(r.text)
  /\ r.start = Len(r.pieces) * Stride
  /\ \A k \in 1..Len(r.pieces) : r.pieces[k] = Window(r.text, (k - 1) * Stride)

Works(r) ==
  /\ r.at \in {"begin", "splitting", "extracted"} => r.next = 1 /\ r.inserted = 0
  /\ r.at = "begin" => r.start = 0 /\ r.pieces = <<>>
  /\ r.at = "splitting" => SplitSoFar(r)
  /\ r.at \in Indexing \cup {"extracted"} => AreChunksOf(r.pieces, r.text) /\ r.pieces # <<>>
  /\ r.at \in {"report", "embed"} => r.next <= Len(r.pieces)
  /\ r.at \in {"finish", "conclude"} => r.next = Len(r.pieces) + 1

LEMMA TextTypes == \A t \in Texts \cup {NoText} : t \in Seq(Words)
<1>1. ASSUME NEW t \in Texts PROVE t \in Seq(Words)
  <2>1. t \in Seq(ToSet(t))
    BY DocumentsAssumption
  <2>2. ToSet(t) \subseteq Words
    BY DEF Words
  <2> QED
    BY <2>1, <2>2, SeqMonotonic
<1>2. NoText \in Seq(Words)
  BY EmptySeq DEF NoText
<1> QED
  BY <1>1, <1>2

LEMMA ChunkTypes == Chunks = Seq(Words)
BY DEF Chunks, Words

LEMMA GoroutineFields ==
  ASSUME NEW r \in Goroutine
  PROVE  /\ r.at \in Stations
         /\ r.text \in Texts \cup {NoText} /\ r.start \in Nat /\ r.pieces \in Seq(Chunks)
         /\ r.next \in Nat \ {0} /\ r.inserted \in Nat
BY DEF Goroutine, Stations

LEMMA RestingIs == Resting \in Goroutine /\ Resting.at = "idle" /\ Works(Resting)
<1>1. Resting \in Goroutine
  BY DEF Resting, Goroutine
<1>2. Resting.at = "idle"
  BY DEF Resting
<1> QED
  BY <1>1, <1>2 DEF Works, Indexing

LEMMA BegunIs ==
  ASSUME NEW t \in Texts \cup {NoText}
  PROVE  LET n == [Resting EXCEPT !.at = "begin", !.text = t]
         IN  n \in Goroutine /\ n.at = "begin" /\ n.text = t /\ n.inserted = 0 /\ Works(n)
<1> DEFINE n == [Resting EXCEPT !.at = "begin", !.text = t]
<1>1. n.at = "begin" /\ n.text = t /\ n.start = 0 /\ n.pieces = <<>> /\ n.next = 1
      /\ n.inserted = 0
  BY DEF Resting
<1>2. n \in Goroutine
  BY RestingIs DEF Goroutine
<1> HIDE DEF n
<1>3. Works(n)
  BY <1>1 DEF Works, Indexing
<1> QED
  BY <1>1, <1>2, <1>3 DEF n

\* The place alone changes.
LEMMA AtIs ==
  ASSUME NEW r \in Goroutine,
         NEW a \in Stations
  PROVE  LET n == [r EXCEPT !.at = a]
         IN  /\ n \in Goroutine /\ n.at = a /\ n.text = r.text /\ n.start = r.start
             /\ n.pieces = r.pieces /\ n.next = r.next /\ n.inserted = r.inserted
BY DEF Goroutine, Stations

LEMMA NextChunkIs ==
  ASSUME NEW r \in Goroutine,
         NEW a \in Stations
  PROVE  LET n == [r EXCEPT !.next = @ + 1, !.at = a]
         IN  /\ n \in Goroutine /\ n.at = a /\ n.text = r.text /\ n.start = r.start
             /\ n.pieces = r.pieces /\ n.next = r.next + 1 /\ n.inserted = r.inserted
<1>1. r.next + 1 \in Nat \ {0}
  BY DEF Goroutine, Stations
<1> QED
  BY <1>1 DEF Goroutine, Stations

LEMMA InsertedIs ==
  ASSUME NEW r \in Goroutine
  PROVE  LET n == [r EXCEPT !.inserted = @ + 1]
         IN  /\ n \in Goroutine /\ n.at = r.at /\ n.text = r.text /\ n.start = r.start
             /\ n.pieces = r.pieces /\ n.next = r.next /\ n.inserted = r.inserted + 1
<1>1. r.inserted + 1 \in Nat
  BY DEF Goroutine, Stations
<1> QED
  BY <1>1 DEF Goroutine, Stations

(***************************************************************************)
(* One iteration of the loop; after the last one the pieces are all the    *)
(* windows, and what is kept of them is the chunks of the text.            *)
(***************************************************************************)
LEMMA SplitMore ==
  ASSUME Advances, NEW r \in Goroutine, SplitSoFar(r)
  PROVE  LET pieces == Append(r.pieces, Window(r.text, r.start))
             next   == NextStart(r.start, Len(r.text))
         IN  /\ next \in Nat /\ next # r.start /\ next = Len(pieces) * Stride
             /\ pieces \in Seq(Chunks) /\ Len(pieces) = Len(r.pieces) + 1
             /\ \A k \in 1..Len(pieces) : pieces[k] = Window(r.text, (k - 1) * Stride)
             /\ next >= Len(r.text) => pieces = WindowsOf(r.text)
<1> DEFINE n == Len(r.pieces)
           w == Window(r.text, r.start)
           pieces == Append(r.pieces, w)
           next == NextStart(r.start, Len(r.text))
<1>1. r.text \in Seq(Words) /\ r.start \in Nat /\ r.pieces \in Seq(Seq(Words))
  BY GoroutineFields, TextTypes, ChunkTypes
<1>2. r.start < Len(r.text) /\ r.start = n * Stride
      /\ \A k \in 1..n : r.pieces[k] = Window(r.text, (k - 1) * Stride)
  BY DEF SplitSoFar
<1>3. n \in Nat /\ Len(r.text) \in Nat /\ Stride \in Nat \ {0}
  BY <1>1, StrideIs
<1>4. w \in Seq(Words)
  BY <1>1, <1>2, WindowIs
<1>5. pieces \in Seq(Seq(Words)) /\ Len(pieces) = n + 1 /\ pieces[n + 1] = w
      /\ \A k \in 1..n : pieces[k] = r.pieces[k]
  BY <1>1, <1>4, AppendProperties
<1>6. next = r.start + Stride
  BY <1>1, <1>3, NextIs
<1>7. next \in Nat /\ next # r.start
  BY <1>1, <1>3, <1>6
<1>8. next = (n + 1) * Stride
  BY <1>2, <1>3, <1>6, TimesNext
<1> HIDE DEF n, pieces, next
<1>9. ASSUME NEW k \in 1..(n + 1) PROVE pieces[k] = Window(r.text, (k - 1) * Stride)
  <2>1. CASE k = n + 1
    <3>1. (k - 1) * Stride = r.start
      <4>1. k - 1 = n
        BY <1>3, <2>1
      <4> QED
        BY <1>2, <4>1
    <3> QED
      BY <1>5, <2>1, <3>1 DEF w
  <2>2. CASE k \in 1..n
    BY <1>2, <1>5, <2>2
  <2> QED
    BY <1>3, <2>1, <2>2
<1>10. ASSUME next >= Len(r.text) PROVE pieces = WindowsOf(r.text)
  <2> DEFINE ws == WindowsOf(r.text)
             c == Count(r.text)
  <2>1. c \in Nat /\ \A k \in Nat \ {0} : k <= c <=> (k - 1) * Stride < Len(r.text)
    BY <1>1, CountIs
  <2>2. ws \in Seq(Seq(Words)) /\ Len(ws) = c
        /\ \A k \in 1..c : ws[k] = Window(r.text, (k - 1) * Stride)
    BY <1>1, WindowsAre
  <2> HIDE DEF ws, c
  <2>3. c = n + 1
    <3>1. n + 1 <= c
      <4>1. (n + 1) - 1 = n /\ n + 1 \in Nat \ {0}
        BY <1>3
      <4> QED
        BY <1>2, <2>1, <4>1
    <3>2. ~(n + 2 <= c)
      <4>1. (n + 2) - 1 = n + 1 /\ n + 2 \in Nat \ {0}
        BY <1>3
      <4>2. ~((n + 1) * Stride < Len(r.text))
        BY <1>3, <1>7, <1>8, <1>10
      <4> QED
        BY <2>1, <4>1, <4>2
    <3> QED
      BY <1>3, <2>1, <3>1, <3>2
  <2>4. \A k \in 1..Len(pieces) : pieces[k] = ws[k]
    BY <1>5, <1>9, <2>2, <2>3
  <2>5. pieces = ws
    BY <1>5, <2>2, <2>3, <2>4, SeqEqual
  <2> QED
    BY <2>5 DEF ws
<1>11. /\ pieces \in Seq(Chunks) /\ next = Len(pieces) * Stride
       /\ \A k \in 1..Len(pieces) : pieces[k] = Window(r.text, (k - 1) * Stride)
  BY <1>5, <1>8, <1>9, ChunkTypes
<1> QED
  BY <1>5, <1>7, <1>10, <1>11 DEF pieces, next, n, w

-----------------------------------------------------------------------------
(***************************************************************************)
(* The steps of a goroutine: what each leaves in its record, the row and   *)
(* the index.  The other goroutines and the handlers do not move.          *)
(***************************************************************************)
WorksInv == \A p \in Procs : Works(proc[p])
TypeInv == Advances /\ TypeOK /\ WorksInv

Moves(p) ==
  /\ proc' \in [Procs -> Goroutine] /\ Works(proc'[p])
  /\ \A q \in Procs : q # p => proc'[q] = proc[q]
  /\ proc'[p].at # "idle" => proc'[p].text = proc[p].text
  /\ UNCHANGED <<desk, runs, latest>>

\* It reads its document and splits the text.
Prepares(p) ==
  /\ proc[p].at \in {"begin", "splitting"}
  /\ proc'[p].at \in {"splitting", "fail", "extracted"}
  /\ proc'[p].inserted = proc[p].inserted
  /\ UNCHANGED <<row, emb, faults, harm>>

\* It leaves without a word.
Abandons(p) ==
  /\ proc[p].at = "begin" /\ proc'[p].at = "idle"
  /\ \/ ~Live /\ harm' = harm /\ faults' = faults
     \/ harm' = harm \cup {"unconcluded"} /\ Fault
  /\ UNCHANGED <<row, emb>>

\* It leaves with a status, or that write fails.
Ends(p, at, status) ==
  /\ proc[p].at = at /\ proc'[p].at = "idle"
  /\ \/ UpdateDocumentStatus(status) /\ harm' = harm /\ faults' = faults
     \/ row' = row /\ harm' = harm \cup {"unconcluded"} /\ Fault
  /\ emb' = emb

\* It reports a percentage, or that write fails.
Reports(p, at, percentage, then) ==
  /\ proc[p].at = at /\ proc'[p].at = then
  /\ proc'[p].pieces = proc[p].pieces /\ proc'[p].next = proc[p].next
  /\ proc'[p].inserted = proc[p].inserted
  /\ \/ /\ row' = IF Live THEN [row EXCEPT !.progress = percentage] ELSE row
        /\ faults' = faults
     \/ row' = row /\ Fault
  /\ UNCHANGED <<emb, harm>>

\* It is done with a chunk.
Turns(p) ==
  /\ proc[p].at = "embed" /\ proc'[p].at \in {"report", "finish"}
  /\ proc[p].next \in 1..Len(proc[p].pieces)
  /\ proc'[p].pieces = proc[p].pieces /\ proc'[p].next = proc[p].next + 1

Inserts(p) ==
  /\ Turns(p) /\ Live
  /\ proc'[p].inserted = proc[p].inserted + 1
  /\ emb' = Append(emb, proc[p].pieces[proc[p].next])
  /\ UNCHANGED <<row, faults, harm>>

Skips(p) ==
  /\ Turns(p)
  /\ proc'[p].inserted = proc[p].inserted
  /\ IF Live THEN Fault /\ harm' = harm \cup {"skipped"} ELSE harm' = harm /\ faults' = faults
  /\ UNCHANGED <<row, emb>>

LEMMA Types ==
  ASSUME TypeInv, NEW p \in Procs
  PROVE  /\ proc[p] \in Goroutine /\ Works(proc[p])
         /\ row \in Row /\ emb \in Seq(Chunks) /\ harm \subseteq Harms
BY DEF TypeInv, TypeOK, WorksInv

LEMMA GoesTo ==
  ASSUME TypeInv, NEW p \in Procs, NEW n \in Goroutine, Works(n), Goes(p, n),
         n.at # "idle" => n.text = proc[p].text
  PROVE  Moves(p) /\ proc'[p] = n
<1>1. proc \in [Procs -> Goroutine]
  BY DEF TypeInv, TypeOK
<1> QED
  BY <1>1 DEF Goes, Moves

LEMMA ReadStep ==
  ASSUME TypeInv, NEW p \in Procs, GetDocumentByID(p)
  PROVE  Moves(p) /\ (Prepares(p) \/ Abandons(p))
<1> DEFINE r == proc[p]
           a == IF r.text = NoText THEN "fail" ELSE "splitting"
           n == [r EXCEPT !.at = a]
<1>1. r \in Goroutine /\ Works(r) /\ r.at = "begin"
  BY Types DEF GetDocumentByID
<1>2. CASE Goes(p, n) /\ UNCHANGED <<row, emb, faults, harm>>
  <2>1. a \in {"fail", "splitting"} /\ a \in Stations
    BY DEF Stations
  <2> HIDE DEF a
  <2>2. n \in Goroutine /\ n.at = a /\ n.text = r.text /\ n.start = r.start
        /\ n.pieces = r.pieces /\ n.next = r.next /\ n.inserted = r.inserted
    BY <1>1, <2>1, AtIs
  <2> HIDE DEF n
  <2>3. r.start = 0 /\ r.pieces = <<>> /\ r.next = 1 /\ r.inserted = 0
    BY <1>1 DEF Works
  <2>4. a = "splitting" => SplitSoFar(n)
    <3> SUFFICES ASSUME a = "splitting" PROVE SplitSoFar(n)
      OBVIOUS
    <3>1. r.text # NoText
      BY DEF a
    <3>2. r.text \in Seq(Words)
      BY <1>1, GoroutineFields, TextTypes
    <3>3. Len(n.text) \in Nat \ {0}
      BY <2>2, <3>1, <3>2, EmptySeq DEF NoText
    <3>4. 0 * Stride = 0 /\ Len(n.pieces) = 0
      BY <2>2, <2>3, StrideIs DEF TypeInv
    <3> QED
      BY <2>2, <2>3, <3>1, <3>3, <3>4 DEF SplitSoFar
  <2>5. Works(n)
    BY <2>1, <2>2, <2>3, <2>4 DEF Works, Indexing
  <2>6. Moves(p) /\ proc'[p] = n
    BY <1>2, <2>2, <2>5, GoesTo
  <2>7. Prepares(p)
    BY <1>1, <1>2, <2>1, <2>2, <2>6 DEF Prepares
  <2> QED
    BY <2>6, <2>7
<1>3. CASE Goes(p, Resting)
  <2>1. Moves(p) /\ proc'[p] = Resting
    BY <1>3, RestingIs, GoesTo
  <2>0. proc[p].at = "begin" /\ proc'[p].at = "idle"
    BY <1>1, <2>1, RestingIs
  <2>2. ASSUME ~Live, UNCHANGED <<faults, harm>>, UNCHANGED <<row, emb>> PROVE Abandons(p)
    BY <2>0, <2>2 DEF Abandons
  <2>3. ASSUME Fault, harm' = harm \cup {"unconcluded"}, UNCHANGED <<row, emb>> PROVE Abandons(p)
    BY <2>0, <2>3 DEF Abandons
  <2>4. CASE Live /\ ~(Fault /\ harm' = harm \cup {"unconcluded"})
    BY <1>2, <2>4 DEF GetDocumentByID
  <2> QED
    BY <2>1, <2>2, <2>3, <2>4 DEF GetDocumentByID
<1> QED
  BY <1>2, <1>3 DEF GetDocumentByID

LEMMA SplitStep ==
  ASSUME TypeInv, NEW p \in Procs, SplitIntoChunks(p)
  PROVE  Moves(p) /\ Prepares(p)
<1> DEFINE r == proc[p]
           pieces == Append(r.pieces, Window(r.text, r.start))
           next == NextStart(r.start, Len(r.text))
           kept == Deduplicate(pieces)
           m == [r EXCEPT !.start = next, !.pieces = IF next = r.start THEN r.pieces ELSE pieces]
           a == IF kept = <<>> THEN "fail" ELSE "extracted"
           n == [r EXCEPT !.start = next, !.pieces = kept, !.at = a]
<1>1. r \in Goroutine /\ Works(r) /\ r.at = "splitting"
  BY Types DEF SplitIntoChunks
<1>2. SplitSoFar(r) /\ r.next = 1 /\ r.inserted = 0
  BY <1>1 DEF Works
<1>3. /\ ~(next < 0) => Goes(p, IF next < Len(r.text) THEN m ELSE n) /\ UNCHANGED harm
      /\ UNCHANGED <<row, emb, faults>>
  BY DEF SplitIntoChunks
<1>4. /\ next \in Nat /\ next # r.start /\ next = Len(pieces) * Stride
      /\ pieces \in Seq(Chunks)
      /\ \A k \in 1..Len(pieces) : pieces[k] = Window(r.text, (k - 1) * Stride)
      /\ next >= Len(r.text) => pieces = WindowsOf(r.text)
  BY <1>1, <1>2, SplitMore DEF TypeInv
<1>5. r.text \in Seq(Words) /\ Len(r.text) \in Nat
  BY <1>1, GoroutineFields, TextTypes
<1> HIDE DEF pieces, next
<1>6. Goes(p, IF next < Len(r.text) THEN m ELSE n) /\ UNCHANGED <<row, emb, faults, harm>>
  BY <1>3, <1>4
<1>7. CASE next < Len(r.text)
  <2> DEFINE k == [r EXCEPT !.start = next, !.pieces = pieces]
  <2>1. m = k
    BY <1>4
  <2>2. k \in Goroutine /\ k.at = r.at /\ k.text = r.text /\ k.start = next
        /\ k.pieces = pieces /\ k.next = r.next /\ k.inserted = r.inserted
    <3>1. r \in Goroutine /\ next \in Nat /\ pieces \in Seq(Chunks)
      BY <1>1, <1>4
    <3> HIDE DEF r
    <3> QED
      BY <3>1 DEF Goroutine, Stations
  <2> HIDE DEF k, m
  <2>3. SplitSoFar(k)
    BY <1>2, <1>4, <1>7, <2>2 DEF SplitSoFar
  <2>4. Works(k)
    BY <1>1, <1>2, <2>2, <2>3 DEF Works, Indexing
  <2>5. Moves(p) /\ proc'[p] = k
    BY <1>6, <1>7, <2>1, <2>2, <2>4, GoesTo
  <2> QED
    BY <1>1, <1>6, <2>2, <2>5 DEF Prepares
<1>8. CASE ~(next < Len(r.text))
  <2>1. next >= Len(r.text)
    BY <1>4, <1>5, <1>8
  <2>2. kept \in Seq(Chunks) /\ AreChunksOf(kept, r.text)
    BY <1>4, <1>5, <2>1, DeduplicatedWindows, ChunkTypes DEF TypeInv
  <2>3. a \in {"fail", "extracted"} /\ a \in Stations
    BY DEF Stations
  <2>4. a = "extracted" => kept # <<>>
    OBVIOUS
  <2> HIDE DEF kept, a
  <2>5. n \in Goroutine /\ n.at = a /\ n.text = r.text /\ n.start = next
        /\ n.pieces = kept /\ n.next = r.next /\ n.inserted = r.inserted
    <3>1. r \in Goroutine /\ next \in Nat /\ kept \in Seq(Chunks) /\ a \in Stations
      BY <1>1, <1>4, <2>2, <2>3
    <3> HIDE DEF r
    <3> QED
      BY <3>1 DEF Goroutine, Stations
  <2> HIDE DEF n
  <2>6. Works(n)
    BY <1>2, <2>2, <2>3, <2>4, <2>5 DEF Works, Indexing
  <2>7. Moves(p) /\ proc'[p] = n
    BY <1>6, <1>8, <2>5, <2>6, GoesTo
  <2> QED
    BY <1>1, <1>6, <2>3, <2>5, <2>7 DEF Prepares
<1> QED
  BY <1>7, <1>8

LEMMA FailStep ==
  ASSUME TypeInv, NEW p \in Procs, ProcessingFails(p)
  PROVE  Moves(p) /\ Ends(p, "fail", "failed")
<1>1. proc[p].at = "fail" /\ Goes(p, Resting)
  BY DEF ProcessingFails
<1>2. Moves(p) /\ proc'[p] = Resting
  BY <1>1, RestingIs, GoesTo
<1>3. proc'[p].at = "idle"
  BY <1>2, RestingIs
<1> QED
  BY <1>1, <1>2, <1>3 DEF ProcessingFails, Ends

LEMMA ConcludeStep ==
  ASSUME TypeInv, NEW p \in Procs, Conclude(p)
  PROVE  Moves(p)
         /\ Ends(p, "conclude", IF proc[p].inserted = 0 THEN "failed" ELSE "completed")
<1>1. proc[p].at = "conclude" /\ Goes(p, Resting)
  BY DEF Conclude
<1>2. Moves(p) /\ proc'[p] = Resting
  BY <1>1, RestingIs, GoesTo
<1>3. proc'[p].at = "idle"
  BY <1>2, RestingIs
<1> QED
  BY <1>1, <1>2, <1>3 DEF Conclude, Ends

LEMMA ReportStep ==
  ASSUME TypeInv, NEW p \in Procs, NEW x, NEW at, NEW then,
         <<at, then>> \in {<<"extracted", "report">>, <<"report", "embed">>,
                           <<"finish", "conclude">>},
         proc[p].at = at, UpdateDocumentProgress(p, x, then)
  PROVE  Moves(p) /\ Reports(p, at, x, then)
<1> DEFINE r == proc[p]
           n == [r EXCEPT !.at = then]
<1>1. r \in Goroutine /\ Works(r)
  BY Types
<1>2. \/ at = "extracted" /\ then = "report"
      \/ at = "report" /\ then = "embed"
      \/ at = "finish" /\ then = "conclude"
  OBVIOUS
<1>3. then \in Stations
  BY <1>2 DEF Stations
<1>4. n \in Goroutine /\ n.at = then /\ n.text = r.text /\ n.start = r.start
      /\ n.pieces = r.pieces /\ n.next = r.next /\ n.inserted = r.inserted
  BY <1>1, <1>3, AtIs
<1>5. Goes(p, n)
  BY DEF UpdateDocumentProgress
<1> HIDE DEF n
<1>6. AreChunksOf(r.pieces, r.text) /\ r.pieces # <<>>
  BY <1>1, <1>2 DEF Works, Indexing
<1>7. then = "report" => n.next <= Len(n.pieces)
  <2> SUFFICES ASSUME then = "report" PROVE n.next <= Len(n.pieces)
    OBVIOUS
  <2>1. r.next = 1
    BY <1>1, <1>2 DEF Works
  <2>2. r.pieces \in Seq(Chunks)
    BY <1>1, GoroutineFields
  <2>3. Len(r.pieces) \in Nat \ {0}
    BY <1>6, <2>2, EmptySeq
  <2> QED
    BY <1>4, <2>1, <2>3
<1>8. then = "embed" => n.next <= Len(n.pieces)
  BY <1>1, <1>2, <1>4 DEF Works
<1>9. then = "conclude" => n.next = Len(n.pieces) + 1
  BY <1>1, <1>2, <1>4 DEF Works
<1>10. Works(n)
  BY <1>2, <1>4, <1>6, <1>7, <1>8, <1>9 DEF Works, Indexing
<1>11. Moves(p) /\ proc'[p] = n
  BY <1>4, <1>5, <1>10, GoesTo
<1> QED
  BY <1>4, <1>11 DEF Reports, UpdateDocumentProgress

LEMMA TurnStep ==
  ASSUME TypeInv, NEW p \in Procs, proc[p].at = "embed"
  PROVE  LET n == AfterChunk(p)
         IN  /\ n \in Goroutine /\ Works(n) /\ n.at \in {"report", "finish"}
             /\ proc[p].next \in 1..Len(proc[p].pieces)
             /\ n.text = proc[p].text /\ n.pieces = proc[p].pieces
             /\ n.next = proc[p].next + 1 /\ n.inserted = proc[p].inserted
<1> DEFINE r == proc[p]
           a == IF r.next = Len(r.pieces) THEN "finish" ELSE "report"
           n == [r EXCEPT !.next = @ + 1, !.at = a]
<1>1. r \in Goroutine /\ Works(r) /\ r.at = "embed"
  BY Types
<1>2. r.next \in Nat \ {0} /\ r.next <= Len(r.pieces) /\ Len(r.pieces) \in Nat
  <2>1. r.next \in Nat \ {0} /\ r.pieces \in Seq(Chunks)
    BY <1>1, GoroutineFields
  <2> QED
    BY <1>1, <2>1 DEF Works
<1>3. a \in Stations /\ a \in {"report", "finish"}
  BY DEF Stations
<1>4. a = "report" => r.next + 1 <= Len(r.pieces)
  BY <1>2
<1>5. a = "finish" => r.next + 1 = Len(r.pieces) + 1
  BY <1>2
<1>6. n = AfterChunk(p)
  BY DEF AfterChunk
<1> HIDE DEF a
<1>7. n \in Goroutine /\ n.at = a /\ n.text = r.text /\ n.start = r.start
      /\ n.pieces = r.pieces /\ n.next = r.next + 1 /\ n.inserted = r.inserted
  BY <1>1, <1>3, NextChunkIs
<1> HIDE DEF n
<1>8. AreChunksOf(r.pieces, r.text) /\ r.pieces # <<>>
  BY <1>1 DEF Works, Indexing
<1>9. Works(n)
  BY <1>3, <1>4, <1>5, <1>7, <1>8 DEF Works, Indexing
<1>10. r.next \in 1..Len(r.pieces)
  BY <1>2
<1> QED
  BY <1>3, <1>6, <1>7, <1>9, <1>10

LEMMA InsertStep ==
  ASSUME TypeInv, NEW p \in Procs, InsertEmbedding(p)
  PROVE  Moves(p) /\ Inserts(p)
<1> DEFINE a == AfterChunk(p)
           n == [a EXCEPT !.inserted = @ + 1]
<1>1. /\ a \in Goroutine /\ Works(a) /\ a.at \in {"report", "finish"}
      /\ proc[p].next \in 1..Len(proc[p].pieces)
      /\ a.text = proc[p].text /\ a.pieces = proc[p].pieces
      /\ a.next = proc[p].next + 1 /\ a.inserted = proc[p].inserted
  BY TurnStep DEF InsertEmbedding
<1>2. Goes(p, n)
  BY DEF InsertEmbedding
<1> HIDE DEF a
<1>3. n \in Goroutine /\ n.at = a.at /\ n.text = a.text /\ n.start = a.start
      /\ n.pieces = a.pieces /\ n.next = a.next /\ n.inserted = a.inserted + 1
  BY <1>1, InsertedIs
<1> HIDE DEF n
<1>4. Works(n)
  BY <1>1, <1>3 DEF Works, Indexing
<1>5. Moves(p) /\ proc'[p] = n
  BY <1>1, <1>2, <1>3, <1>4, GoesTo
<1>6. Turns(p)
  BY <1>1, <1>3, <1>5 DEF InsertEmbedding, Turns
<1>7. proc'[p].inserted = proc[p].inserted + 1
  BY <1>1, <1>3, <1>5
<1> QED
  BY <1>5, <1>6, <1>7 DEF InsertEmbedding, Inserts

LEMMA SkipStep ==
  ASSUME TypeInv, NEW p \in Procs, SkipChunk(p)
  PROVE  Moves(p) /\ Skips(p)
<1> DEFINE n == AfterChunk(p)
<1>1. /\ n \in Goroutine /\ Works(n) /\ n.at \in {"report", "finish"}
      /\ proc[p].next \in 1..Len(proc[p].pieces)
      /\ n.text = proc[p].text /\ n.pieces = proc[p].pieces
      /\ n.next = proc[p].next + 1 /\ n.inserted = proc[p].inserted
  BY TurnStep DEF SkipChunk
<1>2. Goes(p, n)
  BY DEF SkipChunk
<1> HIDE DEF n
<1>3. Moves(p) /\ proc'[p] = n
  BY <1>1, <1>2, GoesTo
<1>4. Turns(p) /\ proc'[p].inserted = proc[p].inserted
  BY <1>1, <1>3 DEF SkipChunk, Turns
<1> QED
  BY <1>3, <1>4 DEF SkipChunk, Skips

\* Every step of a goroutine is one of these.
LEMMA ProcessStep ==
  ASSUME TypeInv, NEW p \in Procs, Process(p)
  PROVE  /\ Moves(p)
         /\ \/ Prepares(p) \/ Abandons(p) \/ Ends(p, "fail", "failed")
            \/ Ends(p, "conclude", IF proc[p].inserted = 0 THEN "failed" ELSE "completed")
            \/ Reports(p, "extracted", 10, "report")
            \/ Reports(p, "report", Share(proc[p].next, Len(proc[p].pieces)), "embed")
            \/ Reports(p, "finish", 100, "conclude")
            \/ Inserts(p) \/ Skips(p)
<1>1. CASE GetDocumentByID(p)
  BY <1>1, ReadStep
<1>2. CASE SplitIntoChunks(p)
  BY <1>2, SplitStep
<1>3. CASE ProcessingFails(p)
  BY <1>3, FailStep
<1>4. CASE ReportExtraction(p)
  BY <1>4, ReportStep DEF ReportExtraction
<1>5. CASE ReportChunk(p)
  BY <1>5, ReportStep DEF ReportChunk
<1>6. CASE InsertEmbedding(p)
  BY <1>6, InsertStep
<1>7. CASE SkipChunk(p)
  BY <1>7, SkipStep
<1>8. CASE FinishProgress(p)
  BY <1>8, ReportStep DEF FinishProgress
<1>9. CASE Conclude(p)
  BY <1>9, ConcludeStep
<1> QED
  BY <1>1, <1>2, <1>3, <1>4, <1>5, <1>6, <1>7, <1>8, <1>9 DEF Process

-----------------------------------------------------------------------------
(***************************************************************************)
(* The other steps, and the types.                                         *)
(***************************************************************************)
Enters(p, text) ==
  /\ p \in Free /\ proc' \in [Procs -> Goroutine]
  /\ \A q \in Procs : q # p => proc'[q] = proc[q]
  /\ proc'[p].at = "begin" /\ proc'[p].text = text /\ proc'[p].inserted = 0
  /\ Works(proc'[p])
  /\ runs < MaxRuns /\ runs' = runs + 1 /\ latest' = text

LEMMA SpawnStep ==
  ASSUME TypeOK, NEW t \in Texts \cup {NoText}, Spawn(t)
  PROVE  \E p \in Procs : Enters(p, t)
<1> DEFINE p == CHOOSE q \in Free : \A o \in Free : q <= o
           n == [Resting EXCEPT !.at = "begin", !.text = t]
<1>1. p \in Free
  <2>1. Free \in SUBSET Nat /\ Free # {}
    BY DocumentsAssumption DEF Free, Spawn
  <2>2. \E q \in Free : \A o \in Free : q <= o
    BY <2>1, Least
  <2> QED
    BY <2>2
<1>2. p \in Procs
  BY <1>1 DEF Free
<1>3. proc' = [proc EXCEPT ![p] = n] /\ runs < MaxRuns /\ runs' = runs + 1 /\ latest' = t
  BY DEF Spawn
<1>4. n \in Goroutine /\ n.at = "begin" /\ n.text = t /\ n.inserted = 0 /\ Works(n)
  BY BegunIs
<1>5. proc \in [Procs -> Goroutine]
  BY DEF TypeInv, TypeOK
<1> HIDE DEF p, n
<1>6. proc' \in [Procs -> Goroutine] /\ proc'[p] = n
      /\ \A q \in Procs : q # p => proc'[q] = proc[q]
  BY <1>2, <1>3, <1>4, <1>5
<1>7. Enters(p, t)
  BY <1>1, <1>3, <1>4, <1>6 DEF Enters
<1> QED
  BY <1>2, <1>7

LEMMA RowTypes ==
  ASSUME row \in Row
  PROVE  /\ \A s \in {"processing", "completed", "failed"} :
              UpdateDocumentStatus(s) => row' \in Row
         /\ \A x \in 0..100 :
              row' = (IF Live THEN [row EXCEPT !.progress = x] ELSE row) => row' \in Row
         /\ \A s \in {"absent", "live", "deleted"} :
              row' = [row EXCEPT !.state = s] => row' \in Row
BY DEF Row, UpdateDocumentStatus

LEMMA FaultTypes == ASSUME TypeOK, Fault PROVE faults' \in 0..MaxFaults
BY DocumentsAssumption DEF TypeInv, TypeOK, Fault

LEMMA InitType == ASSUME Advances, Init PROVE TypeInv
<1>1. row \in Row
  BY DEF Init, Row
<1>2. emb \in Seq(Chunks) /\ harm \subseteq Harms
  BY DEF Init
<1>3. proc \in [Procs -> Goroutine] /\ WorksInv
  BY RestingIs DEF Init, WorksInv
<1>4. desk \in [Desks -> Handler]
  <2>1. [at |-> "idle", text |-> NoText] \in Handler
    BY DEF Handler
  <2> QED
    BY <2>1 DEF Init
<1>5. runs \in 0..MaxRuns /\ faults \in 0..MaxFaults /\ latest \in Texts \cup {NoText}
  BY DocumentsAssumption DEF Init
<1> QED
  BY <1>1, <1>2, <1>3, <1>4, <1>5 DEF TypeInv, TypeOK

LEMMA DeskTypes ==
  ASSUME desk \in [Desks -> Handler], NEW d \in Desks
  PROVE  /\ \A t \in Texts \cup {NoText} : \A a \in {"idle", "delete"} :
              desk' = [desk EXCEPT ![d] = [at |-> a, text |-> t]] =>
                /\ desk' \in [Desks -> Handler] /\ desk'[d].at = a
                /\ \A e \in Desks : e # d => desk'[e] = desk[e]
         /\ desk' = [desk EXCEPT ![d].at = "mark"] =>
              /\ desk' \in [Desks -> Handler] /\ desk'[d].at = "mark"
              /\ \A e \in Desks : e # d => desk'[e] = desk[e]
<1>1. ASSUME NEW t \in Texts \cup {NoText}, NEW a \in {"idle", "delete"},
             desk' = [desk EXCEPT ![d] = [at |-> a, text |-> t]]
      PROVE  /\ desk' \in [Desks -> Handler] /\ desk'[d].at = a
             /\ \A e \in Desks : e # d => desk'[e] = desk[e]
  <2>1. [at |-> a, text |-> t] \in Handler
    BY DEF Handler
  <2> QED
    BY <1>1, <2>1
<1>2. ASSUME desk' = [desk EXCEPT ![d].at = "mark"]
      PROVE  /\ desk' \in [Desks -> Handler] /\ desk'[d].at = "mark"
             /\ \A e \in Desks : e # d => desk'[e] = desk[e]
  <2> DEFINE h == [desk[d] EXCEPT !.at = "mark"]
  <2>1. h \in Handler /\ h.at = "mark"
    BY DEF Handler
  <2>2. desk' = [desk EXCEPT ![d] = h]
    BY <1>2
  <2> HIDE DEF h
  <2> QED
    BY <2>1, <2>2
<1> QED
  BY <1>1, <1>2

\* The steps of a handler of ReprocessDocument, by what they do.
LEMMA BeginStep ==
  ASSUME TypeOK, NEW d \in Desks, NEW t \in Texts \cup {NoText}, BeginReprocess(d, t)
  PROVE  /\ desk' \in [Desks -> Handler] /\ desk[d].at = "idle" /\ desk'[d].at = "delete"
         /\ \A e \in Desks : e # d => desk'[e] = desk[e]
BY DeskTypes DEF BeginReprocess, TypeInv, TypeOK

LEMMA DeleteStep ==
  ASSUME TypeOK, NEW d \in Desks, DeleteEmbeddingsByDocument(d)
  PROVE  /\ desk' \in [Desks -> Handler] /\ desk[d].at = "delete" /\ desk'[d].at = "mark"
         /\ \A e \in Desks : e # d => desk'[e] = desk[e]
BY DeskTypes DEF DeleteEmbeddingsByDocument, TypeInv, TypeOK

LEMMA MarkStep ==
  ASSUME TypeOK, NEW d \in Desks, MarkProcessing(d)
  PROVE  /\ desk' \in [Desks -> Handler] /\ desk[d].at = "mark" /\ desk'[d].at = "idle"
         /\ \A e \in Desks : e # d => desk'[e] = desk[e]
         /\ \/ /\ UpdateDocumentStatus("processing")
               /\ \E p \in Procs : Enters(p, desk[d].text)
               /\ harm' = IF Busy # {} THEN harm \cup {"raced"} ELSE harm
               /\ faults' = faults
            \/ /\ Fault /\ harm' = harm \cup {"stranded"}
               /\ UNCHANGED <<row, proc, runs, latest>>
         /\ emb' = emb /\ desk[d].text \in Texts \cup {NoText}
<1>1. desk \in [Desks -> Handler]
  BY DEF TypeInv, TypeOK
<1>2. desk[d].text \in Texts \cup {NoText}
  BY <1>1 DEF Handler
<1>3. NoText \in Texts \cup {NoText}
  OBVIOUS
<1>4. /\ desk' \in [Desks -> Handler] /\ desk'[d].at = "idle"
      /\ \A e \in Desks : e # d => desk'[e] = desk[e]
  BY <1>1, <1>3, DeskTypes DEF MarkProcessing
<1>5. Spawn(desk[d].text) => \E p \in Procs : Enters(p, desk[d].text)
  BY <1>2, SpawnStep DEF TypeInv
<1> QED
  BY <1>2, <1>4, <1>5 DEF MarkProcessing

LEMMA RestartStep ==
  ASSUME TypeOK, ServiceRestarts
  PROVE  /\ proc' \in [Procs -> Goroutine] /\ desk' \in [Desks -> Handler]
         /\ \A p \in Procs : proc'[p].at = "idle" /\ Works(proc'[p])
         /\ \A d \in Desks : desk'[d].at = "idle"
<1>1. [at |-> "idle", text |-> NoText] \in Handler
  BY DEF Handler
<1> QED
  BY <1>1, RestingIs DEF ServiceRestarts, ProcessDies

LEMMA ProcessType == ASSUME TypeInv, NEW p \in Procs, Process(p) PROVE TypeInv'
<1>1. Moves(p)
  BY ProcessStep
<1>2. WorksInv' /\ proc' \in [Procs -> Goroutine]
  BY <1>1 DEF Moves, TypeInv, WorksInv
<1>3. UNCHANGED <<desk, runs, latest>>
  BY <1>1 DEF Moves
<1>4. row \in Row /\ emb \in Seq(Chunks) /\ harm \subseteq Harms /\ faults \in 0..MaxFaults
      /\ proc[p] \in Goroutine
  BY Types DEF TypeInv, TypeOK
<1> DEFINE G == row' \in Row /\ emb' \in Seq(Chunks) /\ harm' \subseteq Harms
                /\ faults' \in 0..MaxFaults
<1>5. ASSUME Prepares(p) PROVE G
  BY <1>4, <1>5 DEF Prepares
<1>6. ASSUME Abandons(p) PROVE G
  BY <1>4, <1>6, FaultTypes DEF TypeInv, Abandons, Harms
<1>7. ASSUME NEW at, NEW s \in {"processing", "completed", "failed"}, Ends(p, at, s) PROVE G
  BY <1>4, <1>7, FaultTypes, RowTypes DEF TypeInv, Ends, Harms
<1>8. ASSUME NEW at, NEW x \in 0..100, NEW then, Reports(p, at, x, then) PROVE G
  BY <1>4, <1>8, FaultTypes, RowTypes DEF TypeInv, Reports
<1>9. ASSUME Reports(p, "report", Share(proc[p].next, Len(proc[p].pieces)), "embed") PROVE G
  <2>1. proc[p].next \in Nat \ {0} /\ proc[p].pieces \in Seq(Chunks)
    BY <1>4, GoroutineFields
  <2>2. Len(proc[p].pieces) \in Nat /\ proc[p].next <= Len(proc[p].pieces)
    BY <1>9, <2>1, Types DEF Reports, Works
  <2>3. Share(proc[p].next, Len(proc[p].pieces)) \in 10..100
    BY <2>1, <2>2, ShareIs
  <2>4. Share(proc[p].next, Len(proc[p].pieces)) \in 0..100
    BY <2>3
  <2> QED
    BY <1>8, <1>9, <2>4
<1>10. ASSUME Inserts(p) PROVE G
  <2>1. proc[p].pieces \in Seq(Chunks) /\ proc[p].next \in 1..Len(proc[p].pieces)
    BY <1>4, <1>10, GoroutineFields DEF Inserts, Turns
  <2>2. proc[p].pieces[proc[p].next] \in Chunks
    BY <2>1
  <2>3. emb' \in Seq(Chunks)
    BY <1>4, <1>10, <2>2 DEF Inserts
  <2> QED
    BY <1>4, <1>10, <2>3 DEF Inserts
<1>11. ASSUME Skips(p) PROVE G
  BY <1>4, <1>11, FaultTypes DEF TypeInv, Skips, Harms
<1>12. G
  <2>1. 10 \in 0..100 /\ 100 \in 0..100
    OBVIOUS
  <2>2. \A s \in {"failed", "completed"} : \A at : Ends(p, at, s) => G
    BY <1>7
  <2>3. (IF proc[p].inserted = 0 THEN "failed" ELSE "completed") \in {"failed", "completed"}
    OBVIOUS
  <2> HIDE DEF G
  <2> QED
    BY <1>5, <1>6, <1>8, <1>9, <1>10, <1>11, <2>1, <2>2, <2>3, ProcessStep
<1>13. Advances'
  BY DEF TypeInv, Advances
<1> QED
  BY <1>2, <1>3, <1>12, <1>13 DEF TypeInv, TypeOK

LEMMA EntersType ==
  ASSUME TypeInv, NEW p \in Procs, NEW t \in Texts \cup {NoText}, Enters(p, t)
  PROVE  /\ proc' \in [Procs -> Goroutine] /\ WorksInv'
         /\ runs' \in 0..MaxRuns /\ latest' \in Texts \cup {NoText}
BY DocumentsAssumption DEF TypeInv, TypeOK, WorksInv, Enters

LEMMA NextType == ASSUME TypeInv, [Next]_vars PROVE TypeInv'
<1>1. Advances /\ TypeOK /\ WorksInv
  BY DEF TypeInv
<1>2. ASSUME NEW t \in Texts \cup {NoText}, UploadDocument(t) PROVE TypeInv'
  <2>1. PICK p \in Procs : Enters(p, t)
    BY <1>2, SpawnStep DEF TypeInv, UploadDocument
  <2>2. row' \in Row
    BY <1>1, <1>2, RowTypes DEF TypeOK, UploadDocument
  <2> QED
    BY <1>1, <1>2, <2>1, <2>2, EntersType DEF TypeInv, Advances, TypeOK, UploadDocument
<1>3. CASE DeleteDocument
  <2>1. row' \in Row
    BY <1>1, <1>3, RowTypes DEF TypeOK, DeleteDocument
  <2>2. emb' \in Seq(Chunks)
    BY <1>3 DEF DeleteDocument
  <2> QED
    BY <1>1, <1>3, <2>1, <2>2 DEF TypeInv, Advances, TypeOK, WorksInv, DeleteDocument
<1>4. ASSUME NEW d \in Desks, NEW t \in Texts \cup {NoText}, BeginReprocess(d, t) PROVE TypeInv'
  BY <1>1, <1>4, BeginStep DEF TypeInv, Advances, TypeOK, WorksInv, BeginReprocess
<1>5. ASSUME NEW d \in Desks, DeleteEmbeddingsByDocument(d) PROVE TypeInv'
  <2>1. desk' \in [Desks -> Handler]
    BY <1>5, DeleteStep DEF TypeInv
  <2>2. faults' \in 0..MaxFaults
    BY <1>1, <1>5, FaultTypes DEF TypeInv, Advances, TypeOK, DeleteEmbeddingsByDocument
  <2>3. emb' \in Seq(Chunks)
    <3>1. emb' = <<>> \/ emb' = emb
      BY <1>5 DEF DeleteEmbeddingsByDocument
    <3> QED
      BY <1>1, <3>1, EmptySeq DEF TypeOK
  <2>4. harm' \subseteq Harms
    BY <1>1, <1>5 DEF TypeOK, Harms, DeleteEmbeddingsByDocument
  <2> QED
    BY <1>1, <1>5, <2>1, <2>2, <2>3, <2>4
    DEF TypeInv, Advances, TypeOK, WorksInv, DeleteEmbeddingsByDocument
<1>6. ASSUME NEW d \in Desks, MarkProcessing(d) PROVE TypeInv'
  <2>1. desk' \in [Desks -> Handler] /\ emb' = emb /\ desk[d].text \in Texts \cup {NoText}
    BY <1>6, MarkStep DEF TypeInv
  <2>2. CASE /\ UpdateDocumentStatus("processing")
             /\ \E p \in Procs : Enters(p, desk[d].text)
             /\ harm' = IF Busy # {} THEN harm \cup {"raced"} ELSE harm
             /\ faults' = faults
    <3>1. /\ proc' \in [Procs -> Goroutine] /\ WorksInv'
          /\ runs' \in 0..MaxRuns /\ latest' \in Texts \cup {NoText}
      BY <2>1, <2>2, EntersType
    <3>2. row' \in Row
      BY <1>1, <2>2, RowTypes DEF TypeOK
    <3>3. harm' \subseteq Harms
      BY <1>1, <2>2 DEF TypeOK, Harms
    <3> QED
      BY <1>1, <2>1, <2>2, <3>1, <3>2, <3>3 DEF TypeInv, Advances, TypeOK
  <2>3. CASE /\ Fault /\ harm' = harm \cup {"stranded"}
             /\ UNCHANGED <<row, proc, runs, latest>>
    <3>1. harm' \subseteq Harms
      BY <1>1, <2>3 DEF TypeOK, Harms
    <3> QED
      BY <1>1, <2>1, <2>3, <3>1, FaultTypes DEF TypeInv, Advances, TypeOK, WorksInv
  <2> QED
    BY <1>6, <2>2, <2>3, MarkStep DEF TypeInv
<1>7. ASSUME NEW p \in Procs, Process(p) PROVE TypeInv'
  BY <1>7, ProcessType
<1>8. CASE ServiceRestarts
  <2>1. harm' \subseteq Harms
    BY <1>1, <1>8 DEF TypeOK, Harms, ServiceRestarts, ProcessDies
  <2>2. Fault /\ UNCHANGED <<row, emb, runs, latest>>
    BY <1>8 DEF ServiceRestarts, ProcessDies
  <2> QED
    BY <1>1, <1>8, <2>1, <2>2, FaultTypes, RestartStep DEF TypeInv, Advances, TypeOK, WorksInv
<1>9. CASE UNCHANGED vars
  BY <1>1, <1>9 DEF vars, TypeInv, Advances, TypeOK, WorksInv
<1> QED
  BY <1>2, <1>3, <1>4, <1>5, <1>6, <1>7, <1>8, <1>9 DEF Next

-----------------------------------------------------------------------------
(***************************************************************************)
(* An overlap of the chunk size or more: no goroutine gets past the loop   *)
(* that cuts its text, so nothing is indexed or completed.                 *)
(***************************************************************************)
Waits(r) ==
  /\ r.at \in {"idle", "begin", "splitting", "fail"} /\ r.start = 0 /\ r.pieces = <<>>
  /\ r.at = "splitting" => r.text # NoText

StuckInv ==
  /\ ~Advances /\ TypeOK
  /\ emb = <<>> /\ row.status # "completed" /\ row.progress = 0
  /\ \A p \in Procs : Waits(proc[p])

LEMMA RestingWaits == Waits(Resting)
BY DEF Waits, Resting

LEMMA InitStuck == ASSUME ~Advances, Init PROVE StuckInv
<1>1. row \in Row /\ row.status # "completed" /\ row.progress = 0
  BY DEF Init, Row
<1>2. emb = <<>> /\ emb \in Seq(Chunks) /\ harm \subseteq Harms
  BY DEF Init
<1>3. proc \in [Procs -> Goroutine] /\ \A p \in Procs : Waits(proc[p])
  BY RestingIs, RestingWaits DEF Init
<1>4. desk \in [Desks -> Handler]
  <2>1. [at |-> "idle", text |-> NoText] \in Handler
    BY DEF Handler
  <2> QED
    BY <2>1 DEF Init
<1>5. runs \in 0..MaxRuns /\ faults \in 0..MaxFaults /\ latest \in Texts \cup {NoText}
  BY DocumentsAssumption DEF Init
<1> QED
  BY <1>1, <1>2, <1>3, <1>4, <1>5 DEF StuckInv, TypeOK

\* The row keeps its state, and its status is not the one of an index.
LEMMA StuckRow ==
  ASSUME row \in Row, row.status # "completed", row.progress = 0
  PROVE  /\ \A s \in {"processing", "failed"} : UpdateDocumentStatus(s) =>
              row' \in Row /\ row'.status # "completed" /\ row'.progress = 0
         /\ \A s \in {"absent", "live", "deleted"} : row' = [row EXCEPT !.state = s] =>
              row' \in Row /\ row'.status # "completed" /\ row'.progress = 0
BY DEF Row, UpdateDocumentStatus

LEMMA GoesWaits ==
  ASSUME StuckInv, NEW p \in Procs, NEW n \in Goroutine, Waits(n), Goes(p, n)
  PROVE  /\ proc' \in [Procs -> Goroutine] /\ \A q \in Procs : Waits(proc'[q])
         /\ UNCHANGED <<desk, runs, latest>>
<1>1. proc \in [Procs -> Goroutine] /\ \A q \in Procs : Waits(proc[q])
  BY DEF StuckInv, TypeOK
<1> QED
  BY <1>1 DEF Goes

LEMMA EntersWaits ==
  ASSUME StuckInv, NEW p \in Procs, NEW t \in Texts \cup {NoText}, Enters(p, t)
  PROVE  /\ proc' \in [Procs -> Goroutine] /\ \A q \in Procs : Waits(proc'[q])
         /\ runs' \in 0..MaxRuns /\ latest' \in Texts \cup {NoText}
<1>1. proc' \in [Procs -> Goroutine] /\ runs' \in 0..MaxRuns /\ latest' \in Texts \cup {NoText}
  BY DocumentsAssumption DEF StuckInv, TypeOK, Enters
<1>2. Waits(proc'[p])
  BY DEF Enters, Works, Waits
<1>3. \A q \in Procs : q # p => Waits(proc'[q])
  BY DEF Enters, StuckInv
<1> QED
  BY <1>1, <1>2, <1>3

LEMMA DiesWaits ==
  ASSUME StuckInv, ProcessDies
  PROVE  /\ proc' \in [Procs -> Goroutine] /\ \A q \in Procs : Waits(proc'[q])
         /\ desk' \in [Desks -> Handler] /\ harm' \subseteq Harms
         /\ UNCHANGED <<runs, latest>>
<1>1. [at |-> "idle", text |-> NoText] \in Handler
  BY DEF Handler
<1>2. harm' \subseteq Harms
  BY DEF StuckInv, TypeOK, Harms, ProcessDies
<1> QED
  BY <1>1, <1>2, RestingIs, RestingWaits DEF ProcessDies

LEMMA ProcessStuck == ASSUME StuckInv, NEW p \in Procs, Process(p) PROVE StuckInv'
<1> DEFINE r == proc[p]
<1>1. r \in Goroutine /\ Waits(r)
  BY DEF StuckInv, TypeOK
<1>2. /\ ~Advances /\ row \in Row /\ emb = <<>> /\ row.status # "completed"
      /\ row.progress = 0 /\ desk \in [Desks -> Handler] /\ runs \in 0..MaxRuns
      /\ latest \in Texts \cup {NoText} /\ harm \subseteq Harms /\ faults \in 0..MaxFaults
      /\ TypeOK
  BY DEF StuckInv, TypeOK
<1>3. (~Advances)' /\ <<>> \in Seq(Chunks)
  BY <1>2 DEF Advances
<1>4. CASE GetDocumentByID(p)
  <2> DEFINE a == IF r.text = NoText THEN "fail" ELSE "splitting"
             n == [r EXCEPT !.at = a]
             m == IF Live THEN n ELSE Resting
  <2>1. a \in {"fail", "splitting"} /\ a \in Stations
    BY DEF Stations
  <2>2. a = "splitting" => r.text # NoText
    OBVIOUS
  <2>3. \/ Goes(p, m) /\ UNCHANGED <<faults, harm>>
        \/ Fault /\ harm' = harm \cup {"unconcluded"} /\ Goes(p, Resting)
    BY <1>4 DEF GetDocumentByID
  <2> HIDE DEF a
  <2>4. n \in Goroutine /\ n.at = a /\ n.text = r.text /\ n.start = r.start
        /\ n.pieces = r.pieces
    BY <1>1, <2>1, AtIs
  <2> HIDE DEF n
  <2>5. Waits(n)
    BY <1>1, <2>1, <2>2, <2>4 DEF Waits
  <2>6. m \in Goroutine /\ Waits(m) /\ Resting \in Goroutine /\ Waits(Resting)
    BY <2>4, <2>5, RestingIs, RestingWaits
  <2> HIDE DEF m
  <2>7. /\ proc' \in [Procs -> Goroutine] /\ \A q \in Procs : Waits(proc'[q])
        /\ UNCHANGED <<desk, runs, latest>>
    BY <2>3, <2>6, GoesWaits
  <2>8. faults' \in 0..MaxFaults /\ harm' \subseteq Harms
    BY <1>2, <2>3, FaultTypes DEF Harms
  <2>9. row' = row /\ emb' = emb
    BY <1>4 DEF GetDocumentByID
  <2> QED
    BY <1>2, <1>3, <2>7, <2>8, <2>9 DEF StuckInv, TypeOK
<1>5. CASE SplitIntoChunks(p)
  <2> DEFINE pieces == Append(r.pieces, Window(r.text, r.start))
             next == NextStart(r.start, Len(r.text))
             m == [r EXCEPT !.start = next,
                            !.pieces = IF next = r.start THEN r.pieces ELSE pieces]
  <2>1. r.at = "splitting" /\ r.start = 0 /\ r.text # NoText
    BY <1>1, <1>5 DEF SplitIntoChunks, Waits
  <2>2. Len(r.text) \in Nat \ {0}
    <3>1. r.text \in Seq(Words)
      BY <1>1, GoroutineFields, TextTypes
    <3> QED
      BY <2>1, <3>1, EmptySeq DEF NoText
  <2>3. next \in Int /\ next <= 0
    BY <1>2, <2>1, <2>2, NextStays
  <2>4. /\ UNCHANGED <<row, emb, faults>>
        /\ next < 0 => ProcessDies
        /\ ~(next < 0) /\ next < Len(r.text) => Goes(p, m) /\ UNCHANGED harm
    BY <1>5 DEF SplitIntoChunks
  <2> HIDE DEF pieces, next
  <2>5. CASE next < 0
    <3>1. ProcessDies
      BY <2>4, <2>5
    <3>2. /\ proc' \in [Procs -> Goroutine] /\ \A q \in Procs : Waits(proc'[q])
          /\ desk' \in [Desks -> Handler] /\ harm' \subseteq Harms
          /\ UNCHANGED <<runs, latest>>
      BY <3>1, DiesWaits
    <3> QED
      BY <1>2, <1>3, <2>4, <3>2 DEF StuckInv, TypeOK
  <2>6. CASE ~(next < 0)
    <3>1. next = 0 /\ next < Len(r.text)
      BY <2>2, <2>3, <2>6
    <3>2. m = r
      <4>1. m = [r EXCEPT !.start = r.start, !.pieces = r.pieces]
        BY <2>1, <3>1
      <4> HIDE DEF m
      <4> QED
        BY <1>1, <4>1 DEF Goroutine
    <3>3. Goes(p, r) /\ harm' = harm
      BY <2>4, <2>6, <3>1, <3>2
    <3> HIDE DEF r
    <3>4. /\ proc' \in [Procs -> Goroutine] /\ \A q \in Procs : Waits(proc'[q])
          /\ UNCHANGED <<desk, runs, latest>>
      BY <1>1, <3>3, GoesWaits
    <3> QED
      BY <1>2, <1>3, <2>4, <3>3, <3>4 DEF StuckInv, TypeOK
  <2> QED
    BY <2>5, <2>6
<1>6. CASE ProcessingFails(p)
  <2>1. /\ proc' \in [Procs -> Goroutine] /\ \A q \in Procs : Waits(proc'[q])
        /\ UNCHANGED <<desk, runs, latest>>
    BY <1>6, RestingIs, RestingWaits, GoesWaits DEF ProcessingFails
  <2>2. row' \in Row /\ row'.status # "completed" /\ row'.progress = 0
    BY <1>2, <1>6, StuckRow DEF ProcessingFails
  <2>3. faults' \in 0..MaxFaults /\ harm' \subseteq Harms /\ emb' = emb
    BY <1>2, <1>6, FaultTypes DEF ProcessingFails, Harms
  <2> QED
    BY <1>2, <1>3, <2>1, <2>2, <2>3 DEF StuckInv, TypeOK
<1>7. r.at \in {"begin", "splitting", "fail"}
  <2>1. r.at # "idle"
    BY DEF Process, GetDocumentByID, SplitIntoChunks, ProcessingFails, ReportExtraction,
           ReportChunk, InsertEmbedding, SkipChunk, FinishProgress, Conclude
  <2> QED
    BY <1>1, <2>1 DEF Waits
<1> QED
  BY <1>4, <1>5, <1>6, <1>7
  DEF Process, ReportExtraction, ReportChunk, InsertEmbedding, SkipChunk, FinishProgress, Conclude

LEMMA NextStuck == ASSUME StuckInv, [Next]_vars PROVE StuckInv'
<1>1. /\ ~Advances /\ TypeOK /\ row \in Row /\ emb = <<>> /\ row.status # "completed"
      /\ row.progress = 0 /\ desk \in [Desks -> Handler] /\ runs \in 0..MaxRuns
      /\ latest \in Texts \cup {NoText} /\ harm \subseteq Harms /\ faults \in 0..MaxFaults
      /\ proc \in [Procs -> Goroutine] /\ \A q \in Procs : Waits(proc[q])
  BY DEF StuckInv, TypeOK
<1>2. (~Advances)' /\ <<>> \in Seq(Chunks)
  BY <1>1 DEF Advances
<1>3. ASSUME NEW t \in Texts \cup {NoText}, UploadDocument(t) PROVE StuckInv'
  <2>1. PICK p \in Procs : Enters(p, t)
    BY <1>1, <1>3, SpawnStep DEF UploadDocument
  <2>2. row' \in Row /\ row'.status # "completed" /\ row'.progress = 0
    BY <1>1, <1>3, StuckRow DEF UploadDocument
  <2> QED
    BY <1>1, <1>2, <1>3, <2>1, <2>2, EntersWaits DEF StuckInv, TypeOK, UploadDocument
<1>4. CASE DeleteDocument
  <2>1. row' \in Row /\ row'.status # "completed" /\ row'.progress = 0
    BY <1>1, <1>4, StuckRow DEF DeleteDocument
  <2> QED
    BY <1>1, <1>2, <1>4, <2>1 DEF StuckInv, TypeOK, DeleteDocument
<1>5. ASSUME NEW d \in Desks, NEW t \in Texts \cup {NoText}, BeginReprocess(d, t) PROVE StuckInv'
  BY <1>1, <1>2, <1>5, BeginStep DEF StuckInv, TypeOK, BeginReprocess
<1>6. ASSUME NEW d \in Desks, DeleteEmbeddingsByDocument(d) PROVE StuckInv'
  <2>1. desk' \in [Desks -> Handler]
    BY <1>1, <1>6, DeleteStep
  <2>2. faults' \in 0..MaxFaults /\ harm' \subseteq Harms /\ emb' = <<>>
    BY <1>1, <1>6, FaultTypes DEF Harms, DeleteEmbeddingsByDocument
  <2> QED
    BY <1>1, <1>2, <1>6, <2>1, <2>2 DEF StuckInv, TypeOK, DeleteEmbeddingsByDocument
<1>7. ASSUME NEW d \in Desks, MarkProcessing(d) PROVE StuckInv'
  <2>1. desk' \in [Desks -> Handler] /\ emb' = emb /\ desk[d].text \in Texts \cup {NoText}
    BY <1>1, <1>7, MarkStep
  <2>2. CASE /\ UpdateDocumentStatus("processing")
             /\ \E p \in Procs : Enters(p, desk[d].text)
             /\ harm' = IF Busy # {} THEN harm \cup {"raced"} ELSE harm
             /\ faults' = faults
    <3>1. /\ proc' \in [Procs -> Goroutine] /\ \A q \in Procs : Waits(proc'[q])
          /\ runs' \in 0..MaxRuns /\ latest' \in Texts \cup {NoText}
      BY <2>1, <2>2, EntersWaits
    <3>2. row' \in Row /\ row'.status # "completed" /\ row'.progress = 0
      BY <1>1, <2>2, StuckRow
    <3>3. harm' \subseteq Harms
      BY <1>1, <2>2 DEF Harms
    <3> QED
      BY <1>1, <1>2, <2>1, <2>2, <3>1, <3>2, <3>3 DEF StuckInv, TypeOK
  <2>3. CASE /\ Fault /\ harm' = harm \cup {"stranded"}
             /\ UNCHANGED <<row, proc, runs, latest>>
    <3>1. harm' \subseteq Harms /\ faults' \in 0..MaxFaults
      BY <1>1, <2>3, FaultTypes DEF Harms
    <3> QED
      BY <1>1, <1>2, <2>1, <2>3, <3>1 DEF StuckInv, TypeOK
  <2> QED
    BY <1>1, <1>7, <2>2, <2>3, MarkStep
<1>8. ASSUME NEW p \in Procs, Process(p) PROVE StuckInv'
  BY <1>8, ProcessStuck
<1>9. CASE ServiceRestarts
  <2>1. ProcessDies /\ UNCHANGED <<row, emb>> /\ faults' \in 0..MaxFaults
    BY <1>1, <1>9, FaultTypes DEF ServiceRestarts, ProcessDies
  <2>2. /\ proc' \in [Procs -> Goroutine] /\ \A q \in Procs : Waits(proc'[q])
        /\ desk' \in [Desks -> Handler] /\ harm' \subseteq Harms
        /\ UNCHANGED <<runs, latest>>
    BY <2>1, DiesWaits
  <2> QED
    BY <1>1, <1>2, <2>1, <2>2 DEF StuckInv, TypeOK
<1>10. CASE UNCHANGED vars
  BY <1>1, <1>2, <1>10 DEF vars, StuckInv, TypeOK
<1> QED
  BY <1>3, <1>4, <1>5, <1>6, <1>7, <1>8, <1>9, <1>10 DEF Next

(***************************************************************************)
(* The row, the index, the goroutines and the handlers have their types in *)
(* every reachable state, for any texts, chunk sizes and overlaps, those   *)
(* with which the loop does not advance among them, and any number of      *)
(* goroutines and handlers; a percentage is one.                           *)
(***************************************************************************)
THEOREM TypeCorrect == Spec => []TypeOK
<1>1. ASSUME Init PROVE TypeInv \/ StuckInv
  BY <1>1, InitType, InitStuck
<1>2. ASSUME TypeInv \/ StuckInv, [Next]_vars PROVE TypeInv' \/ StuckInv'
  BY <1>2, NextType, NextStuck
<1>3. TypeInv \/ StuckInv => TypeOK
  BY DEF TypeInv, StuckInv
<1> QED
  BY <1>1, <1>2, <1>3, PTL DEF Spec

\* With an overlap of the chunk size or more (SplitIntoChunks then stands still
\* or panics) no document is ever completed and nothing is indexed.
THEOREM OverlapIndexesNothing ==
  ASSUME ChunkOverlap >= ChunkSize
  PROVE  Spec => [](emb = <<>> /\ ~Completed)
<1>1. Init => StuckInv
  BY ChunkerAssumption, InitStuck DEF Advances
<1>2. StuckInv /\ [Next]_vars => StuckInv'
  BY NextStuck
<1>3. StuckInv => emb = <<>> /\ ~Completed
  BY DEF StuckInv, Completed
<1> QED
  BY <1>1, <1>2, <1>3, PTL DEF Spec

-----------------------------------------------------------------------------
(***************************************************************************)
(* Who is at work after a step.                                            *)
(***************************************************************************)
LEMMA MovesBusy ==
  ASSUME NEW p \in Procs, Moves(p), proc[p].at # "idle"
  PROVE  /\ p \in Busy /\ Busy' \subseteq Busy
         /\ \A q \in Busy : q # p => q \in Busy' /\ proc'[q] = proc[q]
BY DEF Moves, Busy

LEMMA EntersBusy ==
  ASSUME NEW p \in Procs, NEW t, Enters(p, t)
  PROVE  /\ p \notin Busy /\ Busy' = Busy \cup {p}
         /\ \A q \in Busy : q # p /\ proc'[q] = proc[q]
BY DEF Enters, Busy, Free

LEMMA ProcessBusy == ASSUME TypeInv, NEW p \in Procs, Process(p) PROVE proc[p].at # "idle"
BY ProcessStep DEF Prepares, Abandons, Ends, Reports, Inserts, Skips, Turns

LEMMA StatusWrites ==
  ASSUME TypeInv
  PROVE  /\ \A s \in {"processing", "completed", "failed"} : UpdateDocumentStatus(s) =>
              /\ row'.state = row.state /\ row'.progress = row.progress
              /\ row'.status = IF Live THEN s ELSE row.status
         /\ \A x \in 0..100 : row' = (IF Live THEN [row EXCEPT !.progress = x] ELSE row) =>
              /\ row'.state = row.state /\ row'.status = row.status
              /\ row'.progress = IF Live THEN x ELSE row.progress
         /\ \A s \in {"absent", "live", "deleted"} : row' = [row EXCEPT !.state = s] =>
              row'.state = s /\ row'.status = row.status /\ row'.progress = row.progress
<1>1. row \in Row
  BY DEF TypeInv, TypeOK
<1> QED
  BY <1>1 DEF Row, UpdateDocumentStatus

\* What a goroutine does to the row's state: nothing.
LEMMA ProcessKeepsState ==
  ASSUME TypeInv, NEW p \in Procs, Process(p)
  PROVE  row'.state = row.state
<1>1. ASSUME NEW at, NEW s \in {"failed", "completed"}, Ends(p, at, s)
      PROVE  row'.state = row.state
  BY <1>1, StatusWrites DEF Ends
<1>2. ASSUME NEW at, NEW x \in 0..100, NEW then, Reports(p, at, x, then)
      PROVE  row'.state = row.state
  BY <1>2, StatusWrites DEF Reports
<1>3. ASSUME Reports(p, "report", Share(proc[p].next, Len(proc[p].pieces)), "embed")
      PROVE  row'.state = row.state
  <2>1. row \in Row
    BY Types
  <2> QED
    BY <1>3, <2>1 DEF Reports, Row
<1>4. Prepares(p) \/ Abandons(p) \/ Inserts(p) \/ Skips(p) => row'.state = row.state
  BY DEF Prepares, Abandons, Inserts, Skips
<1>5. \A s \in {"failed", "completed"} : \A at : Ends(p, at, s) => row'.state = row.state
  BY <1>1
<1>6. (IF proc[p].inserted = 0 THEN "failed" ELSE "completed") \in {"failed", "completed"}
      /\ 10 \in 0..100 /\ 100 \in 0..100
  OBVIOUS
<1> QED
  BY <1>2, <1>3, <1>4, <1>5, <1>6, ProcessStep

(***************************************************************************)
(* Before the upload and after the deletion there is no index, and before  *)
(* it nobody is at work.                                                   *)
(***************************************************************************)
StateInv ==
  /\ row.state # "live" => emb = <<>>
  /\ row.state = "absent" => /\ runs = 0 /\ Busy = {}
                             /\ row.progress = 0 /\ row.status = "processing"
                             /\ \A d \in Desks : desk[d].at = "idle"
  /\ row.state # "absent" => runs >= 1

LEMMA InitState == ASSUME Init PROVE StateInv
BY RestingIs DEF Init, StateInv, Busy

LEMMA NextState == ASSUME TypeInv, StateInv, [Next]_vars PROVE StateInv'
<1>0. runs \in Nat /\ row \in Row
  BY DocumentsAssumption DEF TypeInv, TypeOK
<1>1. ASSUME NEW t \in Texts \cup {NoText}, UploadDocument(t) PROVE StateInv'
  <2>1. PICK p \in Procs : Enters(p, t)
    BY <1>1, SpawnStep DEF TypeInv, UploadDocument
  <2>2. row'.state = "live"
    BY <1>1, StatusWrites DEF UploadDocument
  <2>3. runs' >= 1
    BY <1>0, <2>1 DEF Enters
  <2> QED
    BY <2>2, <2>3 DEF StateInv
<1>2. CASE DeleteDocument
  <2>1. row'.state = "deleted" /\ row.state = "live"
    BY <1>2, StatusWrites DEF DeleteDocument, Live
  <2> QED
    BY <1>2, <2>1 DEF StateInv, DeleteDocument
<1>3. ASSUME NEW d \in Desks, NEW t \in Texts \cup {NoText}, BeginReprocess(d, t)
      PROVE  StateInv'
  BY <1>3 DEF StateInv, BeginReprocess, Live
<1>4. ASSUME NEW d \in Desks, DeleteEmbeddingsByDocument(d) PROVE StateInv'
  <2>1. row.state # "absent"
    BY <1>4, DeleteStep DEF TypeInv, StateInv
  <2>2. emb' = <<>> \/ emb' = emb
    BY <1>4 DEF DeleteEmbeddingsByDocument
  <2> QED
    BY <1>4, <2>1, <2>2 DEF StateInv, DeleteEmbeddingsByDocument
<1>5. ASSUME NEW d \in Desks, MarkProcessing(d) PROVE StateInv'
  <2>1. row.state # "absent" /\ emb' = emb
    BY <1>5, MarkStep DEF TypeInv, StateInv
  <2>2. row'.state = row.state
    BY <1>5, MarkStep, StatusWrites DEF TypeInv
  <2>3. runs' = runs \/ runs' = runs + 1
    BY <1>5, MarkStep DEF TypeInv, Enters
  <2>4. runs >= 1
    BY <2>1 DEF StateInv
  <2>5. runs' >= 1
    BY <1>0, <2>3, <2>4
  <2> QED
    BY <2>1, <2>2, <2>5 DEF StateInv
<1>6. ASSUME NEW p \in Procs, Process(p) PROVE StateInv'
  <2>1. row'.state = row.state
    BY <1>6, ProcessKeepsState
  <2>2. row.state # "absent"
    BY <1>6, ProcessBusy DEF StateInv, Busy
  <2>3. Moves(p)
    BY <1>6, ProcessStep
  <2>4. row.state # "live" => emb' = emb
    BY <1>6, ProcessStep DEF Prepares, Abandons, Ends, Reports, Inserts, Skips, Live
  <2> QED
    BY <2>1, <2>2, <2>3, <2>4 DEF StateInv, Moves
<1>7. CASE ServiceRestarts
  <2>1. row.state # "absent"
    BY <1>7 DEF ServiceRestarts, ProcessDies, StateInv
  <2> QED
    BY <1>7, <2>1 DEF StateInv, ServiceRestarts, ProcessDies
<1>8. CASE UNCHANGED vars
  BY <1>8 DEF vars, StateInv, Busy
<1> QED
  BY <1>1, <1>2, <1>3, <1>4, <1>5, <1>6, <1>7, <1>8 DEF Next

(***************************************************************************)
(* Progress.  In the first run of a document there is one goroutine, and   *)
(* the row shows no more than what that one reports next.                  *)
(***************************************************************************)
Reached(p) ==
  /\ proc[p].at \in {"begin", "splitting", "extracted"} => row.progress = 0
  /\ proc[p].at \in {"report", "embed"} =>
       row.progress <= Share(proc[p].next, Len(proc[p].pieces))

FirstRunInv ==
  runs <= 1 => \A p \in Busy : Reached(p) /\ \A q \in Busy : p = q

LEMMA InitFirstRun == ASSUME Init PROVE FirstRunInv
BY RestingIs DEF Init, FirstRunInv, Busy

\* What a step of a goroutine in its first run does to the progress.
LEMMA ProcessReaches ==
  ASSUME TypeInv, NEW p \in Procs, Process(p), Reached(p)
  PROVE  Reached(p)' /\ row'.progress >= row.progress
<1>0. row \in Row /\ proc[p] \in Goroutine /\ Works(proc[p]) /\ Moves(p)
  BY Types, ProcessStep
<1>1. row.progress \in 0..100
  BY <1>0 DEF Row
<1>2. proc'[p] \in Goroutine /\ Works(proc'[p])
  BY <1>0 DEF Moves
<1> DEFINE r == proc[p]
           n == proc'[p]
           G == Reached(p)' /\ row'.progress >= row.progress
<1>3. r.next \in Nat \ {0} /\ Len(r.pieces) \in Nat /\ n.next \in Nat \ {0} /\ Len(n.pieces) \in Nat
  <2>1. r.pieces \in Seq(Chunks) /\ n.pieces \in Seq(Chunks)
    BY <1>0, <1>2, GoroutineFields
  <2> QED
    BY <1>0, <1>2, <2>1, GoroutineFields
<1>4. ASSUME Prepares(p) PROVE G
  BY <1>1, <1>4 DEF Prepares, Reached
<1>5. ASSUME Abandons(p) PROVE G
  BY <1>1, <1>5 DEF Abandons, Reached
<1>6. ASSUME NEW at, NEW s \in {"failed", "completed"}, Ends(p, at, s) PROVE G
  <2>1. row'.progress = row.progress
    BY <1>6, StatusWrites DEF Ends
  <2>2. row'.progress >= row.progress
    BY <1>1, <2>1
  <2>3. n.at = "idle"
    BY <1>6 DEF Ends
  <2> QED
    BY <2>2, <2>3 DEF Reached
<1>7. ASSUME Reports(p, "extracted", 10, "report") PROVE G
  <2>1. row.progress = 0
    BY <1>7 DEF Reports, Reached
  <2>2. row'.progress = 0 \/ row'.progress = 10
    <3>1. 10 \in 0..100
      OBVIOUS
    <3> QED
      BY <1>7, <2>1, <3>1, StatusWrites DEF Reports
  <2>3. n.at = "report" /\ n.next <= Len(n.pieces)
    BY <1>2, <1>7 DEF Reports, Works
  <2>4. Share(n.next, Len(n.pieces)) \in 10..100
    BY <1>3, <2>3, ShareIs
  <2> DEFINE x == Share(n.next, Len(n.pieces))
             y == row'.progress
  <2>5. x \in 10..100 /\ y \in {0, 10}
    BY <2>2, <2>4
  <2> HIDE DEF x, y
  <2>6. y <= x /\ y >= 0
    BY <2>5
  <2>7. y <= Share(n.next, Len(n.pieces)) /\ y >= row.progress
    BY <2>1, <2>6 DEF x
  <2> QED
    BY <2>3, <2>7 DEF Reached, y
<1>8. ASSUME Reports(p, "report", Share(r.next, Len(r.pieces)), "embed") PROVE G
  <2> DEFINE x == Share(r.next, Len(r.pieces))
  <2>1. row.progress <= x
    BY <1>8 DEF Reports, Reached
  <2>2. r.next <= Len(r.pieces)
    BY <1>0, <1>8 DEF Reports, Works
  <2>3. x \in 10..100 /\ x \in 0..100
    <3>1. x \in 10..100
      BY <1>3, <2>2, ShareIs
    <3> QED
      BY <3>1
  <2>4. Share(n.next, Len(n.pieces)) = x
    BY <1>8 DEF Reports
  <2> HIDE DEF x
  <2>5. row'.progress = x \/ row'.progress = row.progress
    BY <1>8, <2>3, StatusWrites DEF Reports, x
  <2>6. row'.progress <= x /\ row'.progress >= row.progress
    BY <1>1, <2>1, <2>3, <2>5
  <2>7. n.at = "embed"
    BY <1>8 DEF Reports
  <2> QED
    BY <2>4, <2>6, <2>7 DEF Reached
<1>9. ASSUME Reports(p, "finish", 100, "conclude") PROVE G
  <2>1. 100 \in 0..100
    OBVIOUS
  <2>2. row'.progress = 100 \/ row'.progress = row.progress
    BY <1>9, <2>1, StatusWrites DEF Reports
  <2>3. n.at = "conclude"
    BY <1>9 DEF Reports
  <2>4. row'.progress >= row.progress
    BY <1>1, <2>2
  <2> QED
    BY <2>3, <2>4 DEF Reached
<1>10. ASSUME Inserts(p) \/ Skips(p) PROVE G
  <2>1. Turns(p) /\ row' = row
    BY <1>10 DEF Inserts, Skips
  <2>2. n.at = "report" => row.progress <= Share(n.next, Len(n.pieces))
    <3> SUFFICES ASSUME n.at = "report" PROVE row.progress <= Share(n.next, Len(n.pieces))
      OBVIOUS
    <3>1. n.next <= Len(n.pieces) /\ n.next = r.next + 1 /\ n.pieces = r.pieces
      BY <1>2, <2>1 DEF Works, Turns
    <3> DEFINE x == Share(r.next, Len(r.pieces))
               y == Share(n.next, Len(n.pieces))
    <3>2. r.next + 1 <= Len(r.pieces) /\ r.next <= Len(r.pieces)
      BY <1>3, <3>1
    <3>3. y = Share(r.next + 1, Len(r.pieces))
      BY <3>1
    <3>4. x <= y
      BY <1>3, <3>2, <3>3, ShareRises
    <3>5. x \in 10..100 /\ y \in 10..100
      <4>1. r.next + 1 \in Nat \ {0}
        BY <1>3
      <4> QED
        BY <1>3, <3>2, <3>3, <4>1, ShareIs
    <3>6. row.progress <= x
      BY <2>1 DEF Turns, Reached
    <3> HIDE DEF x, y
    <3>7. row.progress <= y
      BY <1>1, <3>4, <3>5, <3>6
    <3> QED
      BY <3>7 DEF y
  <2>3. n.at \in {"report", "finish"} /\ row'.progress = row.progress
    BY <2>1 DEF Turns
  <2>4. row'.progress >= row.progress
    BY <1>1, <2>3
  <2> QED
    BY <2>2, <2>3, <2>4 DEF Reached
<1> HIDE DEF G
<1>11. \A s \in {"failed", "completed"} : \A at : Ends(p, at, s) => G
  BY <1>6
<1>12. (IF r.inserted = 0 THEN "failed" ELSE "completed") \in {"failed", "completed"}
  OBVIOUS
<1>13. G
  BY <1>4, <1>5, <1>7, <1>8, <1>9, <1>10, <1>11, <1>12, ProcessStep
<1> QED
  BY <1>13 DEF G

LEMMA NextFirstRun ==
  ASSUME TypeInv, StateInv, FirstRunInv, [Next]_vars
  PROVE  FirstRunInv'
<1>0. runs \in Nat /\ proc \in [Procs -> Goroutine]
  BY DocumentsAssumption DEF TypeInv, TypeOK
<1>1. ASSUME NEW t \in Texts \cup {NoText}, UploadDocument(t) PROVE FirstRunInv'
  <2>1. PICK p \in Procs : Enters(p, t)
    BY <1>1, SpawnStep DEF TypeInv, UploadDocument
  <2>2. Busy = {} /\ row.progress = 0
    BY <1>1 DEF UploadDocument, StateInv
  <2>3. Busy' = {p}
    BY <2>1, <2>2, EntersBusy
  <2>4. row'.progress = 0
    BY <1>1, <2>2, StatusWrites DEF UploadDocument
  <2>5. Reached(p)'
    BY <2>1, <2>4 DEF Enters, Reached
  <2> QED
    BY <2>3, <2>5 DEF FirstRunInv
<1>2. ASSUME UNCHANGED <<proc, runs>>, row'.progress = row.progress PROVE FirstRunInv'
  BY <1>2 DEF FirstRunInv, Reached, Busy
<1>3. CASE DeleteDocument
  BY <1>2, <1>3, StatusWrites DEF DeleteDocument
<1>4. ASSUME NEW d \in Desks, NEW t \in Texts \cup {NoText}, BeginReprocess(d, t)
      PROVE  FirstRunInv'
  BY <1>2, <1>4 DEF BeginReprocess
<1>5. ASSUME NEW d \in Desks, DeleteEmbeddingsByDocument(d) PROVE FirstRunInv'
  BY <1>2, <1>5 DEF DeleteEmbeddingsByDocument
<1>6. ASSUME NEW d \in Desks, MarkProcessing(d) PROVE FirstRunInv'
  <2>1. CASE UNCHANGED <<row, proc, runs, latest>>
    BY <1>2, <2>1
  <2>2. CASE \E p \in Procs : Enters(p, desk[d].text)
    <3>1. runs >= 1
      BY <1>6, MarkStep DEF TypeInv, StateInv
    <3>2. runs' = runs + 1
      BY <2>2 DEF Enters
    <3>3. ~(runs' <= 1)
      BY <1>0, <3>1, <3>2
    <3> QED
      BY <3>3 DEF FirstRunInv
  <2> QED
    BY <1>6, <2>1, <2>2, MarkStep DEF TypeInv
<1>7. ASSUME NEW p \in Procs, Process(p) PROVE FirstRunInv'
  <2> SUFFICES ASSUME runs' <= 1
               PROVE  \A q \in Busy' : Reached(q)' /\ \A o \in Busy' : q = o
    BY DEF FirstRunInv
  <2>1. Moves(p) /\ proc[p].at # "idle"
    BY <1>7, ProcessStep, ProcessBusy
  <2>2. runs' = runs
    BY <2>1 DEF Moves
  <2>3. p \in Busy /\ Busy' \subseteq Busy
    BY <2>1, MovesBusy
  <2>4. Reached(p) /\ \A q \in Busy : p = q
    BY <2>2, <2>3 DEF FirstRunInv
  <2>5. Reached(p)'
    BY <1>7, <2>4, ProcessReaches
  <2>6. \A q \in Busy' : q = p
    BY <2>3, <2>4
  <2> QED
    BY <2>5, <2>6
<1>8. CASE ServiceRestarts
  BY <1>8, RestartStep DEF TypeInv, FirstRunInv, Busy
<1>9. CASE UNCHANGED vars
  BY <1>2, <1>9 DEF vars
<1> QED
  BY <1>1, <1>3, <1>4, <1>5, <1>6, <1>7, <1>8, <1>9 DEF Next

(***************************************************************************)
(* Progress falls only for a reprocess, however long the document, and     *)
(* whatever share of the reports was lost.                                 *)
(***************************************************************************)
LEMMA RisesInStep ==
  ASSUME TypeInv, StateInv, FirstRunInv, TypeInv', [Next]_vars
  PROVE  [row'.progress < row.progress => runs > 1]_vars
<1>0. runs \in Nat /\ row \in Row /\ row' \in Row
  BY DocumentsAssumption DEF TypeInv, TypeOK
<1>1. row.progress \in 0..100 /\ row'.progress \in 0..100
  BY <1>0 DEF Row
<1>2. row'.progress = row.progress => ~(row'.progress < row.progress)
  BY <1>1
<1>3. ASSUME NEW t \in Texts \cup {NoText}, UploadDocument(t) PROVE row'.progress = row.progress
  BY <1>3, StatusWrites DEF UploadDocument
<1>4. DeleteDocument => row'.progress = row.progress
  BY StatusWrites DEF DeleteDocument
<1>5. ASSUME NEW d \in Desks, NEW t \in Texts \cup {NoText}, BeginReprocess(d, t)
      PROVE  row'.progress = row.progress
  BY <1>5 DEF BeginReprocess
<1>6. ASSUME NEW d \in Desks, DeleteEmbeddingsByDocument(d) PROVE row'.progress = row.progress
  BY <1>6 DEF DeleteEmbeddingsByDocument
<1>7. ASSUME NEW d \in Desks, MarkProcessing(d) PROVE row'.progress = row.progress
  BY <1>7, MarkStep, StatusWrites DEF TypeInv
<1>8. ASSUME NEW p \in Procs, Process(p), ~(runs > 1) PROVE ~(row'.progress < row.progress)
  <2>1. p \in Busy
    BY <1>8, ProcessBusy DEF Busy
  <2>2. runs <= 1
    BY <1>0, <1>8
  <2>3. Reached(p)
    BY <2>1, <2>2 DEF FirstRunInv
  <2>4. row'.progress >= row.progress
    BY <1>8, <2>3, ProcessReaches
  <2> QED
    BY <1>1, <2>4
<1>9. ServiceRestarts => row'.progress = row.progress
  BY DEF ServiceRestarts, ProcessDies
<1> QED
  BY <1>2, <1>3, <1>4, <1>5, <1>6, <1>7, <1>8, <1>9 DEF Next

RunInv == TypeInv /\ StateInv /\ FirstRunInv

\* The progress that a client polls never falls while a document is in its first
\* run (CreateDocument's goroutine, no reprocessing).
THEOREM ProgressGoesUp == Spec => ProgressRises
<1>1. ASSUME Init PROVE RunInv \/ StuckInv
  BY <1>1, InitType, InitState, InitFirstRun, InitStuck DEF RunInv
<1>2. ASSUME RunInv \/ StuckInv, [Next]_vars PROVE RunInv' \/ StuckInv'
  BY <1>2, NextType, NextState, NextFirstRun, NextStuck DEF RunInv
<1>3. ASSUME RunInv \/ StuckInv, RunInv' \/ StuckInv', [Next]_vars
      PROVE  [row'.progress < row.progress => runs > 1]_vars
  <2>1. CASE RunInv
    <3>1. TypeInv'
      BY <1>3, <2>1, NextType DEF RunInv
    <3> QED
      BY <1>3, <2>1, <3>1, RisesInStep DEF RunInv
  <2>2. CASE StuckInv
    <3>1. StuckInv'
      BY <1>3, <2>2, NextStuck
    <3> QED
      BY <2>2, <3>1 DEF StuckInv
  <2> QED
    BY <1>3, <2>1, <2>2
<1> QED
  BY <1>1, <1>2, <1>3, PTL DEF Spec, ProgressRises

-----------------------------------------------------------------------------
(***************************************************************************)
(* What a search finds.  A goroutine that has inserted a chunk will call   *)
(* its document completed: unless another run raced it, there is an index. *)
(***************************************************************************)
HasInserted ==
  "raced" \notin harm /\ Live =>
    \A p \in Busy : proc[p].inserted # 0 => emb # <<>>

FindsInv == HasInserted /\ CompletedIsSearchable

LEMMA InitFinds == ASSUME Init PROVE FindsInv
BY DEF Init, FindsInv, HasInserted, CompletedIsSearchable, Completed, Live

LEMMA ProcessFinds == ASSUME TypeInv, FindsInv, NEW p \in Procs, Process(p) PROVE FindsInv'
<1> DEFINE r == proc[p]
           n == proc'[p]
<1>0. Moves(p) /\ r.at # "idle" /\ emb \in Seq(Chunks) /\ row \in Row
  BY ProcessStep, ProcessBusy, Types
<1>1. p \in Busy /\ Busy' \subseteq Busy /\ \A q \in Busy : q # p => proc'[q] = proc[q]
  BY <1>0, MovesBusy
<1>2. desk' = desk /\ (n.at = "idle" => p \notin Busy')
  BY <1>0 DEF Moves, Busy
<1>3. ASSUME harm \subseteq harm', row'.state = row.state, emb' = emb,
             n.at = "idle" \/ n.inserted = r.inserted
      PROVE  HasInserted'
  <2> SUFFICES ASSUME "raced" \notin harm', Live', NEW q \in Busy', proc'[q].inserted # 0
               PROVE  emb' # <<>>
    BY DEF HasInserted
  <2>1. "raced" \notin harm /\ Live /\ q \in Busy
    BY <1>1, <1>3 DEF Live
  <2>2. proc[q].inserted # 0
    BY <1>1, <1>2, <1>3
  <2> QED
    BY <1>3, <2>1, <2>2 DEF FindsInv, HasInserted
<1>4. ASSUME harm \subseteq harm', row'.state = row.state, emb' = emb, row'.status = row.status
      PROVE  CompletedIsSearchable'
  BY <1>2, <1>4 DEF FindsInv, CompletedIsSearchable, Completed, Live
<1>5. ASSUME Prepares(p) PROVE FindsInv'
  BY <1>3, <1>4, <1>5 DEF Prepares, FindsInv
<1>6. ASSUME Abandons(p) PROVE FindsInv'
  BY <1>3, <1>4, <1>6 DEF Abandons, FindsInv
<1>7. ASSUME Ends(p, "fail", "failed") PROVE FindsInv'
  <2>1. harm \subseteq harm' /\ row'.state = row.state /\ emb' = emb /\ n.at = "idle"
    BY <1>7, StatusWrites DEF Ends
  <2>2. row'.status = row.status \/ row'.status = "failed"
    BY <1>7, StatusWrites DEF Ends
  <2>3. row'.status = "failed" => CompletedIsSearchable'
    BY DEF CompletedIsSearchable, Completed
  <2> QED
    BY <1>3, <1>4, <2>1, <2>2, <2>3 DEF FindsInv
<1>8. ASSUME Ends(p, "conclude", IF r.inserted = 0 THEN "failed" ELSE "completed")
      PROVE  FindsInv'
  <2> DEFINE s == IF r.inserted = 0 THEN "failed" ELSE "completed"
  <2>1. s \in {"processing", "failed", "completed"}
    OBVIOUS
  <2>2. harm \subseteq harm' /\ emb' = emb /\ n.at = "idle"
        /\ (row' = row \/ UpdateDocumentStatus(s))
    BY <1>8 DEF Ends
  <2>3. CASE row' = row
    BY <1>3, <1>4, <2>2, <2>3 DEF FindsInv
  <2>4. CASE UpdateDocumentStatus(s)
    <3>1. row'.state = row.state /\ row'.status = IF Live THEN s ELSE row.status
      BY <2>1, <2>4, StatusWrites
    <3>2. HasInserted'
      BY <1>3, <2>2, <3>1
    <3>3. CASE ~Live
      BY <1>4, <2>2, <3>1, <3>2, <3>3 DEF FindsInv
    <3>4. CASE Live /\ r.inserted = 0
      BY <3>1, <3>2, <3>4 DEF FindsInv, CompletedIsSearchable, Completed
    <3>5. CASE Live /\ r.inserted # 0
      <4>1. "raced" \notin harm => emb # <<>>
        BY <1>1, <3>5 DEF FindsInv, HasInserted
      <4> QED
        BY <2>2, <3>2, <4>1 DEF FindsInv, CompletedIsSearchable
    <3> QED
      BY <3>3, <3>4, <3>5
  <2> QED
    BY <2>2, <2>3, <2>4
<1>9. ASSUME NEW at, NEW x \in 0..100, NEW then, Reports(p, at, x, then) PROVE FindsInv'
  <2>1. row'.state = row.state /\ row'.status = row.status
    BY <1>9, StatusWrites DEF Reports
  <2> QED
    BY <1>3, <1>4, <1>9, <2>1 DEF Reports, FindsInv
<1>10. ASSUME Reports(p, "report", Share(r.next, Len(r.pieces)), "embed") PROVE FindsInv'
  <2>1. row'.state = row.state /\ row'.status = row.status
    BY <1>0, <1>10 DEF Reports, Row
  <2> QED
    BY <1>3, <1>4, <1>10, <2>1 DEF Reports, FindsInv
<1>11. ASSUME Inserts(p) PROVE FindsInv'
  <2>1. r.pieces \in Seq(Chunks) /\ r.next \in 1..Len(r.pieces)
    BY <1>11, Types, GoroutineFields DEF Inserts, Turns
  <2>2. emb' # <<>>
    BY <1>0, <1>11, <2>1 DEF Inserts
  <2> QED
    BY <2>2 DEF FindsInv, HasInserted, CompletedIsSearchable
<1>12. ASSUME Skips(p) PROVE FindsInv'
  BY <1>3, <1>4, <1>12 DEF Skips, FindsInv
<1>13. 10 \in 0..100 /\ 100 \in 0..100
  OBVIOUS
<1> QED
  BY <1>5, <1>6, <1>7, <1>8, <1>9, <1>10, <1>11, <1>12, <1>13, ProcessStep

LEMMA NextFinds == ASSUME TypeInv, StateInv, FindsInv, [Next]_vars PROVE FindsInv'
<1>1. ASSUME NEW t \in Texts \cup {NoText}, UploadDocument(t) PROVE FindsInv'
  <2>1. PICK p \in Procs : Enters(p, t)
    BY <1>1, SpawnStep DEF TypeInv, UploadDocument
  <2>2. Busy' = {p} /\ proc'[p].inserted = 0
    BY <1>1, <2>1, EntersBusy DEF UploadDocument, StateInv, Enters
  <2>3. row'.status = "processing"
    BY <1>1, StatusWrites DEF UploadDocument, StateInv
  <2> QED
    BY <2>2, <2>3 DEF FindsInv, HasInserted, CompletedIsSearchable, Completed
<1>2. CASE DeleteDocument
  <2>1. row'.state = "deleted"
    BY <1>2, StatusWrites DEF DeleteDocument
  <2> QED
    BY <2>1 DEF FindsInv, HasInserted, CompletedIsSearchable, Completed, Live
<1>3. ASSUME NEW d \in Desks, NEW t \in Texts \cup {NoText}, BeginReprocess(d, t) PROVE FindsInv'
  <2>1. \A e \in Desks : desk[e].at = "mark" => desk'[e].at = "mark"
    BY <1>3, BeginStep DEF TypeInv
  <2> QED
    BY <1>3, <2>1
    DEF BeginReprocess, FindsInv, HasInserted, CompletedIsSearchable, Completed, Live, Busy
<1>4. ASSUME NEW d \in Desks, DeleteEmbeddingsByDocument(d) PROVE FindsInv'
  <2>1. desk'[d].at = "mark"
    BY <1>4, DeleteStep DEF TypeInv
  <2>2. CompletedIsSearchable'
    BY <2>1 DEF CompletedIsSearchable
  <2>3. UNCHANGED <<row, proc>>
    BY <1>4 DEF DeleteEmbeddingsByDocument
  <2>4. HasInserted'
    <3>1. CASE emb' = emb /\ harm' = harm \cup {"undeleted"}
      BY <2>3, <3>1 DEF FindsInv, HasInserted, Live, Busy
    <3>2. CASE Busy = {}
      BY <2>3, <3>2 DEF HasInserted, Busy
    <3>3. CASE "raced" \in harm'
      BY <3>3 DEF HasInserted
    <3> QED
      BY <1>4, <3>1, <3>2, <3>3 DEF DeleteEmbeddingsByDocument
  <2> QED
    BY <2>2, <2>4 DEF FindsInv
<1>5. ASSUME NEW d \in Desks, MarkProcessing(d) PROVE FindsInv'
  <2>1. emb' = emb
    BY <1>5, MarkStep DEF TypeInv
  <2>2. CASE /\ UpdateDocumentStatus("processing")
             /\ \E p \in Procs : Enters(p, desk[d].text)
             /\ harm' = IF Busy # {} THEN harm \cup {"raced"} ELSE harm
             /\ faults' = faults
    <3>1. row'.state = row.state /\ (Live => row'.status = "processing")
      BY <2>2, StatusWrites
    <3>2. PICK p \in Procs : Enters(p, desk[d].text)
      BY <2>2
    <3>3. Busy' = Busy \cup {p} /\ proc'[p].inserted = 0 /\ \A q \in Busy : proc'[q] = proc[q]
      BY <3>2, EntersBusy DEF Enters
    <3>4. "raced" \notin harm' => "raced" \notin harm
      BY <2>2
    <3>5. HasInserted'
      BY <2>1, <3>1, <3>3, <3>4 DEF FindsInv, HasInserted, Live
    <3>6. CompletedIsSearchable'
      BY <3>1 DEF CompletedIsSearchable, Completed, Live
    <3> QED
      BY <3>5, <3>6 DEF FindsInv
  <2>3. CASE /\ Fault /\ harm' = harm \cup {"stranded"}
             /\ UNCHANGED <<row, proc, runs, latest>>
    <3>1. HasInserted'
      BY <2>1, <2>3 DEF FindsInv, HasInserted, Live, Busy
    <3>2. CompletedIsSearchable'
      BY <2>3 DEF CompletedIsSearchable
    <3> QED
      BY <3>1, <3>2 DEF FindsInv
  <2> QED
    BY <1>5, <2>2, <2>3, MarkStep DEF TypeInv
<1>6. ASSUME NEW p \in Procs, Process(p) PROVE FindsInv'
  BY <1>6, ProcessFinds
<1>7. CASE ServiceRestarts
  <2>1. HasInserted'
    BY <1>7, RestartStep DEF TypeInv, HasInserted, Busy
  <2>2. CompletedIsSearchable'
    <3>1. CASE \E d \in Desks : desk[d].at = "mark"
      <4>1. "stranded" \in harm'
        BY <1>7, <3>1 DEF ServiceRestarts, ProcessDies
      <4> QED
        BY <4>1 DEF CompletedIsSearchable
    <3>2. CASE ~\E d \in Desks : desk[d].at = "mark"
      BY <1>7, <3>2 DEF ServiceRestarts, ProcessDies, FindsInv, CompletedIsSearchable, Completed, Live
    <3> QED
      BY <3>1, <3>2
  <2> QED
    BY <2>1, <2>2 DEF FindsInv
<1>8. CASE UNCHANGED vars
  BY <1>8 DEF vars, FindsInv, HasInserted, CompletedIsSearchable, Completed, Live, Busy
<1> QED
  BY <1>1, <1>2, <1>3, <1>4, <1>5, <1>6, <1>7, <1>8 DEF Next

(***************************************************************************)
(* A search finds chunks of every completed document, with the exceptions  *)
(* the property names, and none of a deleted one, for any number of        *)
(* goroutines and handlers and any faults.                                 *)
(***************************************************************************)
SearchInv == TypeInv /\ StateInv /\ FindsInv

\* A completed document can be found by a search (but for the cases that
\* CompletedIsSearchable names), and a deleted one cannot.
THEOREM SearchFinds == Spec => []SearchFindsTheLiving
<1>1. ASSUME Init PROVE SearchInv \/ StuckInv
  BY <1>1, InitType, InitState, InitFinds, InitStuck DEF SearchInv
<1>2. ASSUME SearchInv \/ StuckInv, [Next]_vars PROVE SearchInv' \/ StuckInv'
  BY <1>2, NextType, NextState, NextFinds, NextStuck DEF SearchInv
<1>3. SearchInv \/ StuckInv => SearchFindsTheLiving
  BY DEF SearchInv, StateInv, FindsInv, SearchFindsTheLiving, DeletedLeavesNothing,
         StuckInv, CompletedIsSearchable, Completed
<1> QED
  BY <1>1, <1>2, <1>3, PTL DEF Spec

-----------------------------------------------------------------------------
(***************************************************************************)
(* What the index holds.  While no two runs have overlapped and every old  *)
(* index could be deleted, it belongs to the one goroutine at work, which  *)
(* has the latest text: it is a choice of the pieces that one is done      *)
(* with, in their order.                                                   *)
(***************************************************************************)
Clean == harm \cap {"raced", "undeleted"} = {}

Taken(out, pieces, m) ==
  \E order \in [1..Len(out) -> 1..m] :
    /\ \A i, j \in 1..Len(out) : i < j => order[i] < order[j]
    /\ \A i \in 1..Len(out) : out[i] = pieces[order[i]]

Filled(p) ==
  IF proc[p].at \in Indexing THEN Taken(emb, proc[p].pieces, proc[p].next - 1) ELSE emb = <<>>

Once == IsInjective(emb) /\ ToSet(emb) \subseteq {WindowsOf(latest)[k] : k \in Kept(latest)}

Marking == {d \in Desks : desk[d].at = "mark"}

CleanInv ==
  Clean =>
    /\ \A d \in Marking : Busy = {} /\ emb = <<>> /\ \A e \in Marking : e = d
    /\ \A p \in Busy : proc[p].text = latest /\ Filled(p) /\ \A q \in Busy : q = p
    /\ Once

LEMMA TakenNone == ASSUME NEW pieces, NEW m \in Nat PROVE Taken(<<>>, pieces, m)
<1> DEFINE order == [i \in 1..Len(<<>>) |-> 0]
<1>1. order \in [1..Len(<<>>) -> 1..m] /\ 1..Len(<<>>) = {}
  OBVIOUS
<1> HIDE DEF order
<1> QED
  BY <1>1 DEF Taken

LEMMA TakenSkip ==
  ASSUME NEW out, NEW pieces, NEW m \in Nat, Taken(out, pieces, m)
  PROVE  Taken(out, pieces, m + 1)
<1>1. PICK order \in [1..Len(out) -> 1..m] :
        /\ \A i, j \in 1..Len(out) : i < j => order[i] < order[j]
        /\ \A i \in 1..Len(out) : out[i] = pieces[order[i]]
  BY DEF Taken
<1>2. 1..m \subseteq 1..(m + 1)
  OBVIOUS
<1>3. order \in [1..Len(out) -> 1..(m + 1)]
  BY <1>1, <1>2
<1> QED
  BY <1>1, <1>3 DEF Taken

LEMMA TakenMore ==
  ASSUME NEW T, NEW out \in Seq(T), NEW pieces, NEW m \in Nat, Taken(out, pieces, m),
         pieces[m + 1] \in T
  PROVE  Taken(Append(out, pieces[m + 1]), pieces, m + 1)
<1> DEFINE n == Len(out)
           c == pieces[m + 1]
           o == Append(out, c)
<1>1. PICK order \in [1..n -> 1..m] :
        /\ \A i, j \in 1..n : i < j => order[i] < order[j]
        /\ \A i \in 1..n : out[i] = pieces[order[i]]
  BY DEF Taken
<1>2. n \in Nat /\ Len(o) = n + 1 /\ o[n + 1] = c /\ \A i \in 1..n : o[i] = out[i]
  BY AppendProperties
<1> DEFINE g == [i \in 1..(n + 1) |-> IF i = n + 1 THEN m + 1 ELSE order[i]]
<1> HIDE DEF n, c, o
<1>3. \A i \in 1..n : order[i] \in 1..m
  BY <1>1
<1>4. g \in [1..(n + 1) -> 1..(m + 1)]
  <2>1. ASSUME NEW i \in 1..(n + 1)
        PROVE  (IF i = n + 1 THEN m + 1 ELSE order[i]) \in 1..(m + 1)
    <3>1. CASE i = n + 1
      BY <3>1
    <3>2. CASE i \in 1..n
      <4>1. order[i] \in 1..(m + 1) /\ i # n + 1
        BY <1>2, <1>3, <3>2
      <4> QED
        BY <4>1
    <3> QED
      BY <1>2, <3>1, <3>2
  <2> QED
    BY <2>1
<1>5. g[n + 1] = m + 1 /\ \A i \in 1..n : g[i] = order[i]
  BY <1>2
<1> HIDE DEF g
<1>6. ASSUME NEW i \in 1..(n + 1), NEW j \in 1..(n + 1), i < j PROVE g[i] < g[j]
  <2>1. i \in 1..n
    BY <1>2, <1>6
  <2>2. CASE j = n + 1
    BY <1>3, <1>5, <2>1, <2>2
  <2>3. CASE j \in 1..n
    BY <1>1, <1>5, <1>6, <2>1, <2>3
  <2> QED
    BY <1>2, <2>2, <2>3
<1>7. ASSUME NEW i \in 1..(n + 1) PROVE o[i] = pieces[g[i]]
  <2>1. CASE i = n + 1
    BY <1>2, <1>5, <2>1 DEF c
  <2>2. CASE i \in 1..n
    BY <1>1, <1>2, <1>5, <2>2
  <2> QED
    BY <1>2, <2>1, <2>2
<1>8. Taken(o, pieces, m + 1)
  <2>1. g \in [1..Len(o) -> 1..(m + 1)]
    BY <1>2, <1>4
  <2>2. \A i, j \in 1..Len(o) : i < j => g[i] < g[j]
    BY <1>2, <1>6
  <2>3. \A i \in 1..Len(o) : o[i] = pieces[g[i]]
    BY <1>2, <1>7
  <2> QED
    BY <2>1, <2>2, <2>3 DEF Taken
<1> QED
  BY <1>8 DEF o, c

\* Such a choice has no chunk twice and chunks of the text only.
LEMMA TakenOnce ==
  ASSUME Advances, NEW W, NEW words \in Seq(W), NEW pieces \in Seq(Seq(W)), AreChunksOf(pieces, words),
         NEW m \in 0..Len(pieces), NEW out \in Seq(Seq(W)), Taken(out, pieces, m)
  PROVE  IsInjective(out) /\ ToSet(out) \subseteq {WindowsOf(words)[k] : k \in Kept(words)}
<1>1. PICK order \in [1..Len(out) -> 1..m] :
        /\ \A i, j \in 1..Len(out) : i < j => order[i] < order[j]
        /\ \A i \in 1..Len(out) : out[i] = pieces[order[i]]
  BY DEF Taken
<1>2. DOMAIN out = 1..Len(out) /\ Len(out) \in Nat
  OBVIOUS
<1>3. \A i \in 1..Len(out) : order[i] \in 1..Len(pieces)
  BY <1>1
<1>4. /\ \A i, j \in 1..Len(pieces) : pieces[i] = pieces[j] => i = j
      /\ \A i \in 1..Len(pieces) :
           pieces[i] \in {WindowsOf(words)[k] : k \in Kept(words)}
  BY ChunksDiffer
<1>5. ASSUME NEW i \in 1..Len(out), NEW j \in 1..Len(out), out[i] = out[j] PROVE i = j
  <2>1. order[i] = order[j]
    <3>1. order[i] \in 1..Len(pieces) /\ order[j] \in 1..Len(pieces)
      BY <1>3
    <3>2. pieces[order[i]] = pieces[order[j]]
      BY <1>1, <1>5
    <3> QED
      BY <1>4, <3>1, <3>2
  <2>2. order[i] \in Int /\ order[j] \in Int
    BY <1>3
  <2>3. ~(order[i] < order[j]) /\ ~(order[j] < order[i])
    BY <2>1, <2>2
  <2>4. ~(i < j) /\ ~(j < i)
    BY <1>1, <2>3
  <2> QED
    BY <2>4
<1>6. \A i \in 1..Len(out) : out[i] \in {WindowsOf(words)[k] : k \in Kept(words)}
  BY <1>1, <1>3, <1>4
<1>7. IsInjective(out)
  BY <1>2, <1>5 DEF IsInjective
<1>8. ToSet(out) \subseteq {WindowsOf(words)[k] : k \in Kept(words)}
  BY <1>2, <1>6 DEF ToSet
<1> QED
  BY <1>7, <1>8

LEMMA OnceNone == emb = <<>> => Once
<1> SUFFICES ASSUME emb = <<>> PROVE Once
  OBVIOUS
<1>1. DOMAIN emb = {}
  OBVIOUS
<1> QED
  BY <1>1 DEF Once, IsInjective, ToSet


LEMMA ProcessHarm == ASSUME TypeInv, NEW p \in Procs, Process(p) PROVE harm \subseteq harm'
BY ProcessStep DEF Prepares, Abandons, Ends, Reports, Inserts, Skips

LEMMA ProcessClean ==
  ASSUME TypeInv, TypeInv', CleanInv, NEW p \in Procs, Process(p)
  PROVE  CleanInv'
<1> SUFFICES ASSUME Clean' PROVE CleanInv'
  BY DEF CleanInv
<1> DEFINE r == proc[p]
           n == proc'[p]
<1>0. Moves(p) /\ r.at # "idle" /\ emb \in Seq(Chunks) /\ harm \subseteq harm'
  BY ProcessStep, ProcessBusy, ProcessHarm, Types
<1>1. p \in Busy /\ Busy' \subseteq Busy
  BY <1>0, MovesBusy
<1>2. Clean
  BY <1>0 DEF Clean
<1>3. Marking = {} /\ r.text = latest /\ Filled(p) /\ (\A q \in Busy : q = p) /\ Once
  <2>1. Marking = {}
    BY <1>1, <1>2 DEF CleanInv
  <2>2. r.text = latest /\ Filled(p) /\ Once
    BY <1>1, <1>2 DEF CleanInv
  <2>3. \A q \in Busy : q = p
    BY <1>1, <1>2 DEF CleanInv
  <2> QED
    BY <2>1, <2>2, <2>3
<1>4. UNCHANGED <<desk, runs, latest>> /\ (n.at # "idle" => n.text = r.text)
  BY <1>0 DEF Moves
<1>5. Marking' = {}
  BY <1>3, <1>4 DEF Marking
<1>6. r \in Goroutine /\ n \in Goroutine /\ Works(r) /\ Works(n)
  BY <1>0, Types DEF Moves
<1>7. /\ r.pieces \in Seq(Chunks) /\ r.next \in Nat \ {0} /\ n.next \in Nat \ {0}
      /\ latest \in Seq(Words) /\ r.pieces \in Seq(Seq(Words))
  <2>1. latest \in Texts \cup {NoText}
    BY DEF TypeInv, TypeOK
  <2> QED
    BY <1>6, <2>1, GoroutineFields, TextTypes, ChunkTypes
<1> DEFINE Full == IF n.at \in Indexing THEN Taken(emb', n.pieces, n.next - 1) ELSE emb' = <<>>
           G == (n.at # "idle" => Full) /\ Once'
<1>8. emb' = emb => Once'
  BY <1>3, <1>4 DEF Once
<1>9. ASSUME Prepares(p) PROVE G
  <2>1. emb' = <<>> /\ n.at \notin Indexing
    BY <1>3, <1>9 DEF Prepares, Filled, Indexing
  <2> QED
    BY <1>8, <1>9, <2>1 DEF Prepares
<1>10. ASSUME Abandons(p) \/ \E at, s : Ends(p, at, s) PROVE G
  BY <1>8, <1>10 DEF Abandons, Ends
<1>11. ASSUME NEW x, Reports(p, "extracted", x, "report") PROVE G
  <2>1. emb' = <<>> /\ n.at = "report" /\ r.next = 1 /\ n.next = r.next
    BY <1>3, <1>6, <1>11 DEF Reports, Filled, Indexing, Works
  <2>2. n.next - 1 = 0 /\ 0 \in Nat
    BY <2>1
  <2>3. Taken(emb', n.pieces, n.next - 1)
    BY <2>1, <2>2, TakenNone
  <2> QED
    BY <1>8, <1>11, <2>1, <2>3 DEF Reports, Indexing
<1>12. ASSUME NEW x, NEW at \in {"report", "finish"}, NEW then \in {"embed", "conclude"},
              Reports(p, at, x, then)
       PROVE  G
  <2>1. emb' = emb /\ n.at \in Indexing /\ r.at \in Indexing
        /\ n.next = r.next /\ n.pieces = r.pieces
    BY <1>12 DEF Reports, Indexing
  <2>2. Taken(emb', n.pieces, n.next - 1)
    BY <1>3, <2>1 DEF Filled
  <2> QED
    BY <1>8, <2>1, <2>2
<1>13. ASSUME Skips(p) PROVE G
  <2>1. emb' = emb /\ n.at \in Indexing /\ r.at \in Indexing
        /\ n.next = r.next + 1 /\ n.pieces = r.pieces
    BY <1>13 DEF Skips, Turns, Indexing
  <2>2. r.next - 1 \in Nat /\ (r.next - 1) + 1 = n.next - 1
    BY <1>7, <2>1
  <2>3. Taken(emb, r.pieces, r.next - 1)
    BY <1>3, <2>1 DEF Filled
  <2>4. Taken(emb, r.pieces, (r.next - 1) + 1)
    BY <2>2, <2>3, TakenSkip
  <2> QED
    BY <1>8, <2>1, <2>2, <2>4
<1>14. ASSUME Inserts(p) PROVE G
  <2>1. n.at \in Indexing /\ r.at \in Indexing /\ n.at # "idle"
        /\ n.next = r.next + 1 /\ n.pieces = r.pieces /\ r.next \in 1..Len(r.pieces)
        /\ emb' = Append(emb, r.pieces[r.next])
    BY <1>14 DEF Inserts, Turns, Indexing
  <2>2. r.next - 1 \in Nat /\ (r.next - 1) + 1 = n.next - 1 /\ (r.next - 1) + 1 = r.next
    BY <1>7, <2>1
  <2>3. Taken(emb, r.pieces, r.next - 1)
    BY <1>3, <2>1 DEF Filled
  <2>4. r.pieces[(r.next - 1) + 1] \in Chunks
    BY <1>7, <2>1, <2>2
  <2>5. Taken(Append(emb, r.pieces[(r.next - 1) + 1]), r.pieces, (r.next - 1) + 1)
    BY <1>0, <2>2, <2>3, <2>4, TakenMore
  <2>6. Taken(emb', r.pieces, r.next)
    BY <2>1, <2>2, <2>5
  <2>7. AreChunksOf(r.pieces, latest)
    BY <1>3, <1>6, <2>1 DEF Works
  <2>8. emb' \in Seq(Seq(Words)) /\ r.next \in 0..Len(r.pieces)
    <3>1. emb' \in Seq(Seq(Words))
      BY ChunkTypes DEF TypeInv, TypeOK
    <3> QED
      BY <2>1, <3>1
  <2>9. IsInjective(emb') /\ ToSet(emb') \subseteq {WindowsOf(latest)[k] : k \in Kept(latest)}
    BY <1>7, <2>6, <2>7, <2>8, TakenOnce DEF TypeInv
  <2>10. Once'
    BY <1>4, <2>9 DEF Once
  <2> QED
    BY <2>1, <2>2, <2>6, <2>10
<1> HIDE DEF G
<1>15. \A x : Reports(p, "report", x, "embed") \/ Reports(p, "finish", x, "conclude") => G
  BY <1>12
<1>16. \A x : Reports(p, "extracted", x, "report") => G
  BY <1>11
<1>17. G
  BY <1>9, <1>10, <1>13, <1>14, <1>15, <1>16, ProcessStep
<1>18. \A q \in Busy' : q = p /\ n.at # "idle"
  BY <1>1, <1>3 DEF Busy
<1>19. \A q \in Busy' : proc'[q].text = latest' /\ Filled(q)' /\ \A o \in Busy' : o = q
  BY <1>3, <1>4, <1>17, <1>18 DEF G, Filled
<1> QED
  BY <1>5, <1>17, <1>19 DEF CleanInv, G

LEMMA InitClean == ASSUME Init PROVE CleanInv
<1>1. Marking = {} /\ Busy = {} /\ emb = <<>>
  BY RestingIs DEF Init, Marking, Busy
<1> QED
  BY <1>1, OnceNone DEF CleanInv

LEMMA NextClean ==
  ASSUME TypeInv, TypeInv', StateInv, CleanInv, [Next]_vars
  PROVE  CleanInv'
<1> SUFFICES ASSUME Clean' PROVE CleanInv'
  BY DEF CleanInv
<1>0. emb' = <<>> => Once'
  <2> SUFFICES ASSUME emb' = <<>> PROVE Once'
    OBVIOUS
  <2>1. DOMAIN emb' = {}
    OBVIOUS
  <2> QED
    BY <2>1 DEF Once, IsInjective, ToSet
<1>00. UNCHANGED <<emb, latest>> => Once' = Once
  BY DEF Once
<1>1. ASSUME NEW p \in Procs, NEW t \in Texts \cup {NoText}, Enters(p, t), Busy = {},
             emb' = <<>>, Marking' = {}
      PROVE  CleanInv'
  <2>1. Busy' = {p}
    BY <1>1, EntersBusy
  <2>2. proc'[p].text = latest' /\ Filled(p)'
    BY <1>1 DEF Enters, Filled, Indexing
  <2> QED
    BY <1>0, <1>1, <2>1, <2>2 DEF CleanInv
<1>2. ASSUME NEW t \in Texts \cup {NoText}, UploadDocument(t) PROVE CleanInv'
  <2>1. PICK p \in Procs : Enters(p, t)
    BY <1>2, SpawnStep DEF TypeInv, UploadDocument
  <2>2. Busy = {} /\ emb' = <<>>
    BY <1>2 DEF UploadDocument, StateInv
  <2>3. Marking' = {}
    BY <1>2 DEF UploadDocument, StateInv, Marking
  <2> QED
    BY <1>1, <2>1, <2>2, <2>3
<1>3. CASE DeleteDocument
  <2>1. Clean /\ emb' = <<>> /\ UNCHANGED <<proc, desk, latest>>
    BY <1>3 DEF DeleteDocument, Clean
  <2>2. Busy' = Busy /\ Marking' = Marking
    BY <2>1 DEF Busy, Marking
  <2>3. \A p \in Busy : Filled(p)'
    <3> SUFFICES ASSUME NEW p \in Busy PROVE Filled(p)'
      OBVIOUS
    <3>1. proc[p] \in Goroutine
      BY Types DEF Busy
    <3>2. proc[p].next - 1 \in Nat
      <4>1. proc[p].next \in Nat \ {0}
        BY <3>1, GoroutineFields
      <4> QED
        BY <4>1
    <3>3. Taken(<<>>, proc[p].pieces, proc[p].next - 1)
      BY <3>2, TakenNone
    <3> QED
      BY <2>1, <3>3 DEF Filled
  <2>4. \A p \in Busy : proc[p].text = latest /\ \A q \in Busy : q = p
    BY <2>1 DEF CleanInv
  <2>5. \A d \in Marking : Busy = {} /\ \A e \in Marking : e = d
    BY <2>1 DEF CleanInv
  <2> QED
    BY <1>0, <2>1, <2>2, <2>3, <2>4, <2>5 DEF CleanInv
<1>4. ASSUME UNCHANGED <<emb, proc, latest>>, harm \subseteq harm', Marking' \subseteq Marking
      PROVE  CleanInv'
  <2>1. Clean /\ Busy' = Busy
    BY <1>4 DEF Clean, Busy
  <2>2. \A p \in Busy : Filled(p)' <=> Filled(p)
    BY <1>4 DEF Filled
  <2> QED
    BY <1>00, <1>4, <2>1, <2>2 DEF CleanInv
<1>5. ASSUME NEW d \in Desks, NEW t \in Texts \cup {NoText}, BeginReprocess(d, t) PROVE CleanInv'
  <2>1. Marking' \subseteq Marking
    <3>1. desk'[d].at = "delete" /\ \A e \in Desks : e # d => desk'[e] = desk[e]
      BY <1>5, BeginStep DEF TypeInv
    <3> QED
      BY <3>1 DEF Marking
  <2> QED
    BY <1>4, <1>5, <2>1 DEF BeginReprocess
<1>6. ASSUME NEW d \in Desks, DeleteEmbeddingsByDocument(d) PROVE CleanInv'
  <2>1. emb' = <<>> /\ Busy = {} /\ Others(d) = {} /\ UNCHANGED <<proc, latest>>
    BY <1>6 DEF DeleteEmbeddingsByDocument, Clean
  <2>2. \A e \in Marking' : e = d
    <3>1. \A e \in Desks : e # d => desk'[e] = desk[e]
      BY <1>6, DeleteStep DEF TypeInv
    <3> QED
      BY <2>1, <3>1 DEF Others, Marking
  <2>3. Busy' = {}
    BY <2>1 DEF Busy
  <2> QED
    BY <1>0, <2>1, <2>2, <2>3 DEF CleanInv
<1>7. ASSUME NEW d \in Desks, MarkProcessing(d) PROVE CleanInv'
  <2>1. /\ desk[d].at = "mark" /\ desk'[d].at = "idle" /\ emb' = emb
        /\ \A e \in Desks : e # d => desk'[e] = desk[e]
        /\ desk[d].text \in Texts \cup {NoText}
    BY <1>7, MarkStep DEF TypeInv
  <2>2. d \in Marking /\ Marking' \subseteq Marking /\ d \notin Marking'
    BY <2>1 DEF Marking
  <2>3. CASE /\ \E p \in Procs : Enters(p, desk[d].text)
             /\ harm' = IF Busy # {} THEN harm \cup {"raced"} ELSE harm
    <3>1. Busy = {} /\ Clean
      BY <2>3 DEF Clean
    <3>2. emb = <<>> /\ \A e \in Marking : e = d
      BY <2>2, <3>1 DEF CleanInv
    <3>3. Marking' = {}
      BY <2>2, <3>2
    <3> QED
      BY <1>1, <2>1, <2>3, <3>1, <3>2, <3>3
  <2>4. CASE /\ Fault /\ harm' = harm \cup {"stranded"}
             /\ UNCHANGED <<row, proc, runs, latest>>
    BY <1>4, <2>1, <2>2, <2>4
  <2> QED
    BY <1>7, <2>3, <2>4, MarkStep DEF TypeInv
<1>8. ASSUME NEW p \in Procs, Process(p) PROVE CleanInv'
  BY <1>8, ProcessClean
<1>9. CASE ServiceRestarts
  <2>1. Busy' = {} /\ Marking' = {}
    BY <1>9, RestartStep DEF TypeInv, Busy, Marking
  <2>2. UNCHANGED <<emb, latest>> /\ Clean
    BY <1>9 DEF ServiceRestarts, ProcessDies, Clean
  <2> QED
    BY <1>00, <2>1, <2>2 DEF CleanInv
<1>10. CASE UNCHANGED vars
  BY <1>4, <1>10 DEF vars, Marking
<1> QED
  BY <1>2, <1>3, <1>5, <1>6, <1>7, <1>8, <1>9, <1>10 DEF Next

(***************************************************************************)
(* Whatever fails, no chunk is in the index twice, and none of an older    *)
(* text, unless two runs overlapped or the old embeddings stayed.          *)
(***************************************************************************)
OnceInv == TypeInv /\ StateInv /\ CleanInv

LEMMA InitOnce == ASSUME Advances, Init PROVE OnceInv
BY InitType, InitState, InitClean DEF OnceInv

LEMMA NextOnce == ASSUME OnceInv, [Next]_vars PROVE OnceInv'
BY NextType, NextState, NextClean DEF OnceInv

\* A run that fails half way and is repeated puts no chunk into the index twice,
\* unless runs overlapped or the old embeddings stayed.
THEOREM IndexedOnlyOnce == Spec => []IndexedOnce
<1>1. ASSUME Init PROVE OnceInv \/ StuckInv
  BY <1>1, InitOnce, InitStuck
<1>2. ASSUME OnceInv \/ StuckInv, [Next]_vars PROVE OnceInv' \/ StuckInv'
  BY <1>2, NextOnce, NextStuck
<1>3. OnceInv => IndexedOnce
  BY DEF OnceInv, CleanInv, Clean, Once, IndexedOnce, ToSet
<1>4. StuckInv => IndexedOnce
  BY DEF StuckInv, IndexedOnce, IsInjective
<1> QED
  BY <1>1, <1>2, <1>3, <1>4, PTL DEF Spec

-----------------------------------------------------------------------------
(***************************************************************************)
(* Where nothing at all went wrong, the goroutine at work has inserted     *)
(* every piece it is done with, and a document that was completed has all  *)
(* the chunks of its text.                                                 *)
(***************************************************************************)
Whole(out, pieces, m) == Len(out) = m /\ \A i \in 1..m : out[i] = pieces[i]

ExactInv ==
  harm = {} /\ Live =>
    /\ \A p \in Busy : proc[p].at \in Indexing =>
         Whole(emb, proc[p].pieces, proc[p].next - 1)
    /\ Busy = {} /\ Marking = {} /\ row.status = "completed" =>
         AreChunksOf(emb, latest) /\ emb # <<>>

LEMMA ProcessExact ==
  ASSUME TypeInv, CleanInv, ExactInv, NEW p \in Procs, Process(p)
  PROVE  ExactInv'
<1> SUFFICES ASSUME harm' = {}, Live' PROVE ExactInv'
  BY DEF ExactInv
<1> DEFINE r == proc[p]
           n == proc'[p]
<1>0. Moves(p) /\ r.at # "idle" /\ emb \in Seq(Chunks)
  BY ProcessStep, ProcessBusy, Types
<1>1. p \in Busy /\ Busy' \subseteq Busy
  BY <1>0, MovesBusy
<1>2. harm = {} /\ Clean
  BY ProcessHarm DEF Clean
<1>3. Live
  BY ProcessKeepsState DEF Live
<1>4. r.text = latest /\ Filled(p) /\ (\A q \in Busy : q = p)
  <2>1. r.text = latest /\ Filled(p)
    BY <1>1, <1>2 DEF CleanInv
  <2>2. \A q \in Busy : q = p
    BY <1>1, <1>2 DEF CleanInv
  <2> QED
    BY <2>1, <2>2
<1>5. r.at \in Indexing => Whole(emb, r.pieces, r.next - 1)
  BY <1>1, <1>2, <1>3 DEF ExactInv
<1>6. r \in Goroutine /\ n \in Goroutine /\ Works(r) /\ Works(n) /\ latest' = latest
  BY <1>0, Types DEF Moves
<1>7. r.pieces \in Seq(Chunks) /\ r.next \in Nat \ {0} /\ Len(r.pieces) \in Nat
  <2>1. r.pieces \in Seq(Chunks) /\ r.next \in Nat \ {0}
    BY <1>6, GoroutineFields
  <2> QED
    BY <2>1
<1> DEFINE I == n.at \in Indexing => Whole(emb', n.pieces, n.next - 1)
           R == n.at = "idle" /\ row'.status = "completed" =>
                  AreChunksOf(emb', latest) /\ emb' # <<>>
           G == I /\ R
<1>8. ASSUME Prepares(p) PROVE G
  BY <1>8 DEF Prepares, Indexing
<1>9. ASSUME Abandons(p) PROVE G
  <2>1. FALSE
    BY <1>3, <1>9 DEF Abandons
  <2> QED
    BY <2>1
<1>10. ASSUME Ends(p, "fail", "failed") PROVE G
  <2>1. row'.status = "failed" /\ n.at = "idle"
    BY <1>3, <1>10, StatusWrites DEF Ends
  <2> QED
    BY <2>1 DEF Indexing
<1>11. ASSUME NEW s, Ends(p, "conclude", s) PROVE G
  <2>1. emb' = emb /\ n.at = "idle" /\ r.at = "conclude"
    BY <1>11 DEF Ends
  <2>2. r.next = Len(r.pieces) + 1 /\ AreChunksOf(r.pieces, latest) /\ r.pieces # <<>>
    BY <1>4, <1>6, <2>1 DEF Works, Indexing
  <2>3. r.next - 1 = Len(r.pieces)
    BY <1>7, <2>2
  <2>4. Whole(emb, r.pieces, Len(r.pieces))
    BY <1>5, <2>1, <2>3 DEF Indexing
  <2>5. emb = r.pieces
    BY <1>0, <1>7, <2>4, SeqEqual DEF Whole
  <2> QED
    BY <2>1, <2>2, <2>5 DEF Indexing
<1>12. ASSUME NEW x, Reports(p, "extracted", x, "report") PROVE G
  <2>1. emb' = <<>> /\ n.at = "report" /\ r.next = 1 /\ n.next = r.next
    BY <1>4, <1>6, <1>12 DEF Reports, Filled, Indexing, Works
  <2>2. n.next - 1 = 0 /\ Len(emb') = 0
    BY <2>1
  <2>3. Whole(emb', n.pieces, n.next - 1)
    BY <2>2 DEF Whole
  <2> QED
    BY <2>1, <2>3
<1>13. ASSUME NEW x, NEW at \in {"report", "finish"}, NEW then \in {"embed", "conclude"},
              Reports(p, at, x, then)
       PROVE  G
  <2>1. emb' = emb /\ n.at # "idle" /\ r.at \in Indexing
        /\ n.next = r.next /\ n.pieces = r.pieces
    BY <1>13 DEF Reports, Indexing
  <2> QED
    BY <1>5, <2>1
<1>14. ASSUME Skips(p) PROVE G
  <2>1. FALSE
    BY <1>3, <1>14 DEF Skips
  <2> QED
    BY <2>1
<1>15. ASSUME Inserts(p) PROVE G
  <2>1. n.at \in Indexing /\ r.at \in Indexing /\ n.at # "idle"
        /\ n.next = r.next + 1 /\ n.pieces = r.pieces /\ r.next \in 1..Len(r.pieces)
        /\ emb' = Append(emb, r.pieces[r.next])
    BY <1>15 DEF Inserts, Turns, Indexing
  <2>2. Len(emb) = r.next - 1 /\ \A i \in 1..(r.next - 1) : emb[i] = r.pieces[i]
    BY <1>5, <2>1 DEF Whole
  <2> DEFINE c == r.pieces[r.next]
  <2>3. c \in Chunks
    BY <1>7, <2>1
  <2> HIDE DEF c
  <2>4. Len(emb') = Len(emb) + 1 /\ emb'[Len(emb) + 1] = c
        /\ \A i \in 1..Len(emb) : emb'[i] = emb[i]
    BY <1>0, <2>1, <2>3, AppendProperties DEF c
  <2>5. n.next - 1 = r.next /\ Len(emb) + 1 = r.next
    BY <1>7, <2>1, <2>2
  <2>6. ASSUME NEW i \in 1..r.next PROVE emb'[i] = r.pieces[i]
    <3>1. CASE i = r.next
      BY <2>4, <2>5, <3>1 DEF c
    <3>2. CASE i \in 1..(r.next - 1)
      BY <2>2, <2>4, <3>2
    <3> QED
      BY <1>7, <3>1, <3>2
  <2>7. Whole(emb', r.pieces, r.next)
    BY <2>4, <2>5, <2>6 DEF Whole
  <2> QED
    BY <2>1, <2>5, <2>7
<1> HIDE DEF G
<1>16. \A x : Reports(p, "report", x, "embed") \/ Reports(p, "finish", x, "conclude") => G
  BY <1>13
<1>17. \A x : Reports(p, "extracted", x, "report") => G
  BY <1>12
<1>18. \A s : Ends(p, "conclude", s) => G
  BY <1>11
<1>19. G
  BY <1>8, <1>9, <1>10, <1>14, <1>15, <1>16, <1>17, <1>18, ProcessStep
<1>20. \A q \in Busy' : proc'[q].at \in Indexing => Whole(emb', proc'[q].pieces, proc'[q].next - 1)
  BY <1>1, <1>4, <1>19 DEF G
<1>21. Busy' = {} => n.at = "idle"
  BY DEF Busy
<1> QED
  BY <1>6, <1>19, <1>20, <1>21 DEF ExactInv, G

LEMMA InitExact == ASSUME Init PROVE ExactInv
BY DEF Init, ExactInv, Live

LEMMA NextExact ==
  ASSUME TypeInv, StateInv, CleanInv, ExactInv, [Next]_vars
  PROVE  ExactInv'
<1> SUFFICES ASSUME harm' = {}, Live' PROVE ExactInv'
  BY DEF ExactInv
<1>1. ASSUME NEW p \in Procs, NEW t, Enters(p, t), Busy = {} PROVE ExactInv'
  <2>1. Busy' = {p} /\ proc'[p].at \notin Indexing
    BY <1>1, EntersBusy DEF Enters, Indexing
  <2> QED
    BY <2>1 DEF ExactInv
<1>2. ASSUME NEW t \in Texts \cup {NoText}, UploadDocument(t) PROVE ExactInv'
  <2>1. PICK p \in Procs : Enters(p, t)
    BY <1>2, SpawnStep DEF TypeInv, UploadDocument
  <2>2. Busy = {}
    BY <1>2 DEF UploadDocument, StateInv
  <2> QED
    BY <1>1, <2>1, <2>2
<1>3. CASE DeleteDocument
  BY <1>3, StatusWrites DEF DeleteDocument, Live
<1>4. ASSUME UNCHANGED <<row, emb, proc, latest>>, harm \subseteq harm', Marking' = Marking
      PROVE  ExactInv'
  BY <1>4 DEF ExactInv, Live, Busy
<1>5. ASSUME NEW d \in Desks, NEW t \in Texts \cup {NoText}, BeginReprocess(d, t) PROVE ExactInv'
  <2>1. Marking' = Marking
    <3>1. desk[d].at = "idle" /\ desk'[d].at = "delete"
          /\ \A e \in Desks : e # d => desk'[e] = desk[e]
      BY <1>5, BeginStep DEF TypeInv
    <3> QED
      BY <3>1 DEF Marking
  <2> QED
    BY <1>4, <1>5, <2>1 DEF BeginReprocess
<1>6. ASSUME NEW d \in Desks, DeleteEmbeddingsByDocument(d) PROVE ExactInv'
  <2>1. Busy = {} /\ proc' = proc
    BY <1>6 DEF DeleteEmbeddingsByDocument
  <2>2. d \in Marking'
    BY <1>6, DeleteStep DEF TypeInv, Marking
  <2>3. Busy' = {}
    BY <2>1 DEF Busy
  <2> QED
    BY <2>2, <2>3 DEF ExactInv
<1>7. ASSUME NEW d \in Desks, MarkProcessing(d) PROVE ExactInv'
  <2>1. CASE /\ \E p \in Procs : Enters(p, desk[d].text)
             /\ harm' = IF Busy # {} THEN harm \cup {"raced"} ELSE harm
    <3>1. Busy = {}
      BY <2>1
    <3> QED
      BY <1>1, <2>1, <3>1
  <2>2. CASE harm' = harm \cup {"stranded"}
    BY <2>2
  <2> QED
    BY <1>7, <2>1, <2>2, MarkStep DEF TypeInv
<1>8. ASSUME NEW p \in Procs, Process(p) PROVE ExactInv'
  BY <1>8, ProcessExact
<1>9. CASE ServiceRestarts
  <2>1. harm = {} /\ Busy = {} /\ Marking = {} /\ UNCHANGED <<row, emb, latest>>
    BY <1>9 DEF ServiceRestarts, ProcessDies, Marking
  <2>2. Busy' = {}
    BY <1>9, RestartStep DEF TypeInv, Busy
  <2> QED
    BY <2>1, <2>2 DEF ExactInv, Live
<1>10. CASE UNCHANGED vars
  BY <1>4, <1>10 DEF vars, Marking
<1> QED
  BY <1>2, <1>3, <1>5, <1>6, <1>7, <1>8, <1>9, <1>10 DEF Next

(***************************************************************************)
(* A completed document at rest, to which nothing went wrong (harm = {}),  *)
(* is indexed with exactly the chunks of its last text, in order, for      *)
(* texts of any length, every chunk size and every overlap (with one of    *)
(* the size or more no document is completed); and no word of it is        *)
(* missing where ChunkOverlap + 1 >= MinWords.                             *)
(***************************************************************************)
IndexInv == OnceInv /\ ExactInv

\* What an undisturbed completed document has in the index is its text, cut.
THEOREM IndexIsExact == Spec => []IndexIsTheText
<1>1. ASSUME Init PROVE IndexInv \/ StuckInv
  BY <1>1, InitOnce, InitExact, InitStuck DEF IndexInv
<1>2. ASSUME IndexInv \/ StuckInv, [Next]_vars PROVE IndexInv' \/ StuckInv'
  BY <1>2, NextOnce, NextExact, NextStuck DEF IndexInv, OnceInv
<1>3. IndexInv => IndexIsTheText
  <2> SUFFICES ASSUME IndexInv, Quiet, Completed, harm = {}
               PROVE  /\ AreChunksOf(emb, latest)
                      /\ ChunkOverlap + 1 >= MinWords => Covers(emb, latest)
    BY DEF IndexIsTheText, ExactIndex, IndexCoversText
  <2>1. Marking = {} /\ Busy = {} /\ Live /\ row.status = "completed"
    BY DEF Quiet, Completed, Marking
  <2>2. AreChunksOf(emb, latest) /\ emb # <<>>
    BY <2>1 DEF IndexInv, ExactInv
  <2>3. emb \in Seq(Seq(Words)) /\ latest \in Seq(Words)
    BY ChunkTypes, TextTypes DEF IndexInv, OnceInv, TypeInv, TypeOK
  <2> QED
    BY <2>2, <2>3, ChunksCover DEF IndexInv, OnceInv, TypeInv
<1>4. StuckInv => IndexIsTheText
  BY DEF StuckInv, IndexIsTheText, ExactIndex, IndexCoversText, Completed
<1> QED
  BY <1>1, <1>2, <1>3, <1>4, PTL DEF Spec
=============================================================================
