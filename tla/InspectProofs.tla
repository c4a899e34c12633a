---------------------------- MODULE InspectProofs ----------------------------
(***************************************************************************)
(* Theorems about Inspect and Planner, for any repository: the manifest      *)
(* holds what the repository declares and nothing else, and the graph of the *)
(* planner keeps, and runs, the best of what was mined.                      *)
(***************************************************************************)
EXTENDS Inspect, Planner, FiniteSetTheorems, SequenceTheorems, WellFoundedInduction, TLAPS

-----------------------------------------------------------------------------
(* Numbers.                                                                *)

\* Every nonempty set of numbers has a least one.
LEMMA LeastNumber ==
  ASSUME NEW K \in SUBSET Nat, K # {}
  PROVE  \E i \in K : \A j \in K : i <= j
<1> DEFINE R == OpToRel(<, Nat)
<1>1. \A i, j \in Nat : <<i, j>> \in R <=> i < j
  BY DEF OpToRel
<1>2. IsWellFoundedOn(R, Nat)
  BY NatLessThanWellFounded
<1> HIDE DEF R
<1>3. PICK i \in K : \A j \in K : ~ (<<j, i>> \in R)
  BY <1>2, WFMin
<1>4. \A j \in K : ~ (j < i)
  BY <1>1, <1>3
<1> QED
  BY <1>3, <1>4

LEMMA MinimumIsLeast ==
  ASSUME NEW K \in SUBSET Nat, K # {}
  PROVE  Minimum(K) \in K /\ \A j \in K : Minimum(K) <= j
BY LeastNumber DEF Minimum

\* A set of numbers with a bound has a greatest one.
LEMMA GreatestNumber ==
  ASSUME NEW b \in Nat, NEW K \in SUBSET (0 .. b), K # {}
  PROVE  \E i \in K : \A j \in K : j <= i
<1> DEFINE L == {b - i : i \in K}
<1>1. L \in SUBSET Nat /\ L # {}
  <2>1. \A i \in K : i \in 0 .. b
    OBVIOUS
  <2>2. \A i \in K : b - i \in Nat
    BY <2>1
  <2>3. L # {}
    OBVIOUS
  <2> QED
    BY <2>2, <2>3
<1>2. PICK l \in L : \A m \in L : l <= m
  BY <1>1, LeastNumber
<1>3. PICK i \in K : l = b - i
  BY <1>2
<1>4. \A j \in K : b - i <= b - j
  BY <1>2, <1>3
<1> QED
  BY <1>3, <1>4

-----------------------------------------------------------------------------
(* Sets in order.                                                          *)

\* A part of a finite set that is not the whole has fewer members.
LEMMA FewerMembers ==
  ASSUME NEW S, IsFiniteSet(S), NEW T \in SUBSET S, T # S
  PROVE  IsFiniteSet(T) /\ Cardinality(T) < Cardinality(S)
<1>1. IsFiniteSet(T) /\ Cardinality(T) <= Cardinality(S) /\ Cardinality(T) # Cardinality(S)
  BY FS_Subset
<1>2. Cardinality(T) \in Nat /\ Cardinality(S) \in Nat
  BY <1>1, FS_CardinalityType
<1> QED
  BY <1>1, <1>2

\* The members of a finite set in a strict total order, by how many stand
\* below each.
LEMMA Ranked ==
  ASSUME NEW S, IsFiniteSet(S), NEW below \in [S -> SUBSET S],
         \A x \in S : x \notin below[x],
         \A x, y \in S : x # y => x \in below[y] \/ y \in below[x],
         \A x, y \in S : x \in below[y] => below[x] \subseteq below[y]
  PROVE  /\ \A x \in S : Cardinality(below[x]) \in 0 .. Cardinality(S) - 1
         /\ \A x, y \in S : Cardinality(below[x]) = Cardinality(below[y]) => x = y
         /\ \A n \in 1 .. Cardinality(S) : \E x \in S : Cardinality(below[x]) = n - 1
<1>1. \A x \in S : below[x] \subseteq S /\ IsFiniteSet(below[x]) /\ Cardinality(below[x]) \in Nat
  BY FS_Subset, FS_CardinalityType
<1>2. Cardinality(S) \in Nat
  BY FS_CardinalityType
<1>3. ASSUME NEW x \in S
      PROVE  Cardinality(below[x]) < Cardinality(S)
  <2>1. below[x] \subseteq S /\ below[x] # S
    BY <1>1
  <2> QED
    BY <2>1, FewerMembers
<1>4. ASSUME NEW x \in S, NEW y \in S, x \in below[y]
      PROVE  Cardinality(below[x]) < Cardinality(below[y])
  <2>1. below[x] \subseteq below[y] /\ below[x] # below[y]
    BY <1>4
  <2> QED
    BY <1>1, <2>1, FewerMembers
<1>5. \A x, y \in S : Cardinality(below[x]) = Cardinality(below[y]) => x = y
  BY <1>1, <1>4
<1> DEFINE rank == [x \in S |-> Cardinality(below[x]) + 1]
<1>6. rank \in [S -> 1 .. Cardinality(S)]
  BY <1>1, <1>2, <1>3
<1>7. \A x, y \in S : rank[x] = rank[y] => x = y
  BY <1>1, <1>5
<1>8. ASSUME NEW n \in 1 .. Cardinality(S)
      PROVE  \E x \in S : Cardinality(below[x]) = n - 1
  <2> DEFINE U == (1 .. Cardinality(S)) \ {n}
  <2>1. IsFiniteSet(1 .. Cardinality(S)) /\ Cardinality(1 .. Cardinality(S)) = Cardinality(S)
    <3>1. IsFiniteSet(1 .. Cardinality(S))
          /\ Cardinality(1 .. Cardinality(S)) = IF 1 > Cardinality(S) THEN 0 ELSE Cardinality(S) - 1 + 1
      BY <1>2, FS_Interval
    <3> QED
      BY <1>2, <3>1
  <2>2. IsFiniteSet(U) /\ Cardinality(U) < Cardinality(S)
    <3>1. U \subseteq 1 .. Cardinality(S) /\ U # 1 .. Cardinality(S)
      OBVIOUS
    <3> HIDE DEF U
    <3> QED
      BY <2>1, <3>1, FewerMembers
  <2>3. SUFFICES ASSUME \A x \in S : rank[x] # n
                 PROVE  FALSE
    BY <1>1
  <2>4. rank \in [S -> U]
    BY <1>6, <2>3
  <2>5. \E x, y \in S : x # y /\ rank[x] = rank[y]
    <3> HIDE DEF rank, U
    <3> QED
      BY <2>2, <2>4, FS_PigeonHole
  <2> QED
    BY <1>7, <2>5
<1> QED
  BY <1>1, <1>2, <1>3, <1>5, <1>8

\* A sequence that puts each member of a finite set where as many stand below
\* it as come before: it holds them all, each once.
LEMMA Ordered ==
  ASSUME NEW S, IsFiniteSet(S), NEW below \in [S -> SUBSET S],
         \A x \in S : x \notin below[x],
         \A x, y \in S : x # y => x \in below[y] \/ y \in below[x],
         \A x, y \in S : x \in below[y] => below[x] \subseteq below[y],
         NEW seq \in [1 .. Cardinality(S) -> S],
         \A n \in 1 .. Cardinality(S) : Cardinality(below[seq[n]]) = n - 1
  PROVE  /\ seq \in Seq(S) /\ Len(seq) = Cardinality(S) /\ Range(seq) = S
         /\ \A i, j \in DOMAIN seq : seq[i] = seq[j] => i = j
<1>1. /\ \A x \in S : Cardinality(below[x]) \in 0 .. Cardinality(S) - 1
      /\ \A x, y \in S : Cardinality(below[x]) = Cardinality(below[y]) => x = y
      /\ \A n \in 1 .. Cardinality(S) : \E x \in S : Cardinality(below[x]) = n - 1
  BY Ranked
<1>2. Cardinality(S) \in Nat
  BY FS_CardinalityType
<1>3. \A n \in 1 .. Cardinality(S) : seq[n] \in S /\ Cardinality(below[seq[n]]) = n - 1
  OBVIOUS
<1>4. seq \in [1 .. Cardinality(S) -> S] /\ DOMAIN seq = 1 .. Cardinality(S)
  OBVIOUS
<1>5. seq \in Seq(S) /\ Len(seq) = Cardinality(S)
  BY <1>2, <1>4, SeqDef, LenProperties
<1>6. \A i, j \in 1 .. Cardinality(S) : seq[i] = seq[j] => i = j
  BY <1>2, <1>3
<1>7. \A x \in S : \E n \in 1 .. Cardinality(S) : seq[n] = x
  <2>1. TAKE x \in S
  <2> DEFINE n == Cardinality(below[x]) + 1
  <2>2. n \in 1 .. Cardinality(S) /\ Cardinality(below[x]) = n - 1
    BY <1>1, <1>2
  <2>3. seq[n] \in S /\ Cardinality(below[seq[n]]) = Cardinality(below[x])
    BY <1>3, <2>2
  <2>4. seq[n] = x
    BY <1>1, <2>3
  <2> QED
    BY <2>2, <2>4
<1>8. Range(seq) = S
  BY <1>3, <1>4, <1>7 DEF Range
<1> QED
  BY <1>4, <1>5, <1>6, <1>8

\* Numbers in their order.
LEMMA NumbersInOrder ==
  ASSUME NEW S, S \subseteq Nat, IsFiniteSet(S)
  PROVE  /\ InOrder(S, <) \in Seq(S) /\ Len(InOrder(S, <)) = Cardinality(S) /\ Range(InOrder(S, <)) = S
         /\ \A i, j \in DOMAIN InOrder(S, <) : InOrder(S, <)[i] = InOrder(S, <)[j] => i = j
<1> DEFINE below == [x \in S |-> {y \in S : y < x}]
           seq == InOrder(S, <)
<1>1. seq = [n \in 1 .. Cardinality(S) |-> CHOOSE x \in S : Cardinality({y \in S : y < x}) = n - 1]
  BY DEF InOrder
<1>2. \A x \in S : below[x] = {y \in S : y < x}
  OBVIOUS
<1>3. below \in [S -> SUBSET S]
  OBVIOUS
<1>4. \A x \in S : x \notin below[x]
  OBVIOUS
<1>5. \A x, y \in S : x # y => x \in below[y] \/ y \in below[x]
  OBVIOUS
<1>6. \A x, y \in S : x \in below[y] => below[x] \subseteq below[y]
  <2>1. TAKE x, y \in S
  <2>2. HAVE x \in below[y]
  <2>3. x \in Nat /\ y \in Nat /\ x < y
    BY <2>2
  <2>4. ASSUME NEW z \in below[x] PROVE z \in below[y]
    <3>1. z \in S /\ z \in Nat /\ z < x
      OBVIOUS
    <3> QED
      BY <2>3, <3>1
  <2> HIDE DEF below
  <2> QED
    BY <2>4
<1> HIDE DEF seq, below
<1>10. \A n \in 1 .. Cardinality(S) : \E x \in S : Cardinality(below[x]) = n - 1
  BY ONLY IsFiniteSet(S), <1>3, <1>4, <1>5, <1>6, Ranked
<1>7. \A n \in 1 .. Cardinality(S) : seq[n] \in S /\ Cardinality(below[seq[n]]) = n - 1
  <2>1. TAKE n \in 1 .. Cardinality(S)
  <2>2. \E x \in S : Cardinality(below[x]) = n - 1
    BY <1>10
  <2>3. \E x \in S : Cardinality({y \in S : y < x}) = n - 1
    BY <1>2, <2>2
  <2>4. seq[n] = CHOOSE x \in S : Cardinality({y \in S : y < x}) = n - 1
    BY <1>1, <2>1
  <2>5. seq[n] \in S /\ Cardinality({y \in S : y < seq[n]}) = n - 1
    BY <2>3, <2>4
  <2> QED
    BY <1>2, <2>5
<1>8. seq \in [1 .. Cardinality(S) -> S]
  BY <1>1, <1>7
<1>9. /\ seq \in Seq(S) /\ Len(seq) = Cardinality(S) /\ Range(seq) = S
      /\ \A i, j \in DOMAIN seq : seq[i] = seq[j] => i = j
  <2>1. \A n \in 1 .. Cardinality(S) : Cardinality(below[seq[n]]) = n - 1
    BY <1>7
  <2>2. seq \in Seq(S) /\ Len(seq) = Cardinality(S) /\ Range(seq) = S
    BY ONLY IsFiniteSet(S), <1>3, <1>4, <1>5, <1>6, <1>8, <2>1, Ordered
  <2>3. \A i, j \in DOMAIN seq : seq[i] = seq[j] => i = j
    BY ONLY IsFiniteSet(S), <1>3, <1>4, <1>5, <1>6, <1>8, <2>1, Ordered
  <2> QED
    BY <2>2, <2>3
<1> QED
  BY <1>9 DEF seq

\* Which members stand below which, by two numbers that tell them apart.
Below(S, major, minor, below) ==
  /\ IsFiniteSet(S) /\ major \in [S -> Nat] /\ minor \in [S -> Nat] /\ below \in [S -> SUBSET S]
  /\ \A x, y \in S : major[x] = major[y] /\ minor[x] = minor[y] => x = y
  /\ \A x, y \in S :
       y \in below[x] <=> major[y] < major[x] \/ (major[y] = major[x] /\ minor[y] < minor[x])

\* A function that gives each place a member with as many below it as come before.
Places(S, below, seq) ==
  /\ \E f : seq = [n \in 1 .. Cardinality(S) |-> f[n]]
  /\ \A n \in 1 .. Cardinality(S) :
       (\E x \in S : Cardinality(below[x]) = n - 1) =>
         seq[n] \in S /\ Cardinality(below[seq[n]]) = n - 1

\* A sequence of the members of a set, each once.
Lists(S, seq) ==
  /\ seq \in Seq(S) /\ Len(seq) = Cardinality(S) /\ Range(seq) = S
  /\ \A i, j \in DOMAIN seq : seq[i] = seq[j] => i = j

LEMMA KeysInOrder ==
  ASSUME NEW S, NEW major, NEW minor, NEW below, NEW seq,
         Below(S, major, minor, below), Places(S, below, seq)
  PROVE  Lists(S, seq)
<1>0. /\ IsFiniteSet(S) /\ major \in [S -> Nat] /\ minor \in [S -> Nat] /\ below \in [S -> SUBSET S]
      /\ \A x, y \in S : major[x] = major[y] /\ minor[x] = minor[y] => x = y
      /\ \A x, y \in S :
           y \in below[x] <=> major[y] < major[x] \/ (major[y] = major[x] /\ minor[y] < minor[x])
  BY DEF Below
<1>1. \A x \in S : x \notin below[x]
  <2>1. \A x \in S : major[x] \in Nat /\ minor[x] \in Nat
    BY <1>0
  <2> QED
    BY <1>0, <2>1
<1>2. \A x, y \in S : x # y => x \in below[y] \/ y \in below[x]
  <2>1. TAKE x, y \in S
  <2>2. major[x] \in Nat /\ minor[x] \in Nat /\ major[y] \in Nat /\ minor[y] \in Nat
    BY <1>0
  <2> QED
    BY <1>0, <2>2
<1>3. \A x, y \in S : x \in below[y] => below[x] \subseteq below[y]
  <2>1. TAKE x, y \in S
  <2>2. HAVE x \in below[y]
  <2>3. ASSUME NEW z \in below[x] PROVE z \in below[y]
    <3>1. z \in S
      BY <1>0
    <3>2. /\ major[x] \in Nat /\ minor[x] \in Nat /\ major[y] \in Nat /\ minor[y] \in Nat
          /\ major[z] \in Nat /\ minor[z] \in Nat
      BY <1>0, <3>1
    <3>3. major[x] < major[y] \/ (major[x] = major[y] /\ minor[x] < minor[y])
      BY <1>0, <2>2
    <3>4. major[z] < major[x] \/ (major[z] = major[x] /\ minor[z] < minor[x])
      BY <1>0, <3>1
    <3>5. major[z] < major[y] \/ (major[z] = major[y] /\ minor[z] < minor[y])
      BY <3>2, <3>3, <3>4
    <3> QED
      BY <1>0, <3>1, <3>5
  <2> QED
    BY <2>3
<1>4. \A n \in 1 .. Cardinality(S) : \E x \in S : Cardinality(below[x]) = n - 1
  BY ONLY <1>0, <1>1, <1>2, <1>3, Ranked
<1>5. \A n \in 1 .. Cardinality(S) : seq[n] \in S /\ Cardinality(below[seq[n]]) = n - 1
  BY <1>4 DEF Places
<1>6. seq \in [1 .. Cardinality(S) -> S]
  BY <1>5 DEF Places
<1>7. \A n \in 1 .. Cardinality(S) : Cardinality(below[seq[n]]) = n - 1
  BY <1>5
<1>8. seq \in Seq(S) /\ Len(seq) = Cardinality(S) /\ Range(seq) = S
  BY ONLY <1>0, <1>1, <1>2, <1>3, <1>6, <1>7, Ordered, ZenonT(60)
<1>9. \A i, j \in DOMAIN seq : seq[i] = seq[j] => i = j
  BY ONLY <1>0, <1>1, <1>2, <1>3, <1>6, <1>7, Ordered
<1> QED
  BY <1>8, <1>9 DEF Lists

-----------------------------------------------------------------------------
(* Sequences.                                                              *)

\* The members of a typed sequence.
LEMMA InRange ==
  ASSUME NEW T, NEW s \in Seq(T)
  PROVE  /\ DOMAIN s = 1 .. Len(s) /\ Len(s) \in Nat /\ Range(s) \subseteq T
         /\ \A i \in DOMAIN s : s[i] \in Range(s) /\ s[i] \in T
         /\ \A x \in Range(s) : \E i \in DOMAIN s : s[i] = x
<1>1. Len(s) \in Nat /\ s \in [1 .. Len(s) -> T] /\ DOMAIN s = 1 .. Len(s)
  BY LenProperties
<1> QED
  BY <1>1 DEF Range

\* A sequence of sequences, flattened: typed, with the members of each.
LEMMA Flattened ==
  ASSUME NEW T, NEW seqs \in Seq(Seq(T))
  PROVE  /\ FlattenSeq(seqs) \in Seq(T)
         /\ \A x : x \in Range(FlattenSeq(seqs)) <=> \E i \in DOMAIN seqs : x \in Range(seqs[i])
<1> DEFINE N == Len(seqs)
           Extends(f, n) == f = [i \in 1 .. n |-> IF i = 1 THEN seqs[i] ELSE f[i - 1] \o seqs[i]]
<1>1. N \in Nat /\ DOMAIN seqs = 1 .. N /\ \A i \in 1 .. N : seqs[i] \in Seq(T)
  BY LenProperties, ElementOfSeq
<1>0. FlattenSeq(seqs) = IF N = 0 THEN seqs ELSE (CHOOSE f : Extends(f, N))[N]
  BY DEF FlattenSeq
<1>01. N = 0 => seqs = <<>>
  BY EmptySeq
<1> HIDE DEF N
<1>2. CASE N = 0
  <2>1. seqs = <<>> /\ FlattenSeq(seqs) = seqs
    BY <1>2, <1>0, <1>01
  <2>2. FlattenSeq(seqs) \in Seq(T)
    BY <2>1, EmptySeq
  <2>3. Range(FlattenSeq(seqs)) = {} /\ DOMAIN seqs = {}
    BY <2>1 DEF Range
  <2> QED
    BY <2>2, <2>3
<1>3. CASE N # 0
  <2>1. \A n \in 1 .. N : \E f : Extends(f, n)
    <3> DEFINE K == {n \in 1 .. N : ~ \E f : Extends(f, n)}
    <3>1. SUFFICES ASSUME K # {} PROVE FALSE
      OBVIOUS
    <3>2. K \in SUBSET Nat
      <4>1. K \subseteq 1 .. N
        OBVIOUS
      <4> HIDE DEF K
      <4> QED
        BY <4>1
    <3>3. PICK n \in K : \A m \in K : n <= m
      <4> HIDE DEF K
      <4> QED
        BY <3>1, <3>2, LeastNumber
    <3>4. n \in 1 .. N /\ ~ \E f : Extends(f, n)
      OBVIOUS
    <3>5. CASE n = 1
      <4> DEFINE f == [i \in 1 .. 1 |-> seqs[i]]
      <4>1. Extends(f, 1)
        OBVIOUS
      <4> QED
        BY <3>4, <3>5, <4>1
    <3>6. CASE n # 1
      <4>1. n - 1 \in 1 .. N /\ n - 1 \notin K
        <5> HIDE DEF K, Extends
        <5> QED
          BY <1>1, <3>2, <3>3, <3>4, <3>6
      <4>2. PICK g : Extends(g, n - 1)
        BY <4>1
      <4> DEFINE f == [i \in 1 .. n |-> IF i = n THEN g[n - 1] \o seqs[n] ELSE g[i]]
      <4>3. \A i \in 1 .. n - 1 : f[i] = g[i] /\ g[i] = IF i = 1 THEN seqs[i] ELSE g[i - 1] \o seqs[i]
        <5>1. \A i \in 1 .. n - 1 : i \in 1 .. n /\ i # n
          BY <1>1, <3>4
        <5>2. \A i \in 1 .. n - 1 : g[i] = IF i = 1 THEN seqs[i] ELSE g[i - 1] \o seqs[i]
          BY <4>2
        <5> QED
          BY <5>1, <5>2
      <4>4. \A i \in 1 .. n : f[i] = IF i = 1 THEN seqs[i] ELSE f[i - 1] \o seqs[i]
        <5>1. TAKE i \in 1 .. n
        <5>2. CASE i = n
          <6>1. f[n - 1] = g[n - 1] /\ f[n] = g[n - 1] \o seqs[n]
            BY <1>1, <3>4, <3>6, <4>3
          <6> QED
            BY <3>6, <5>2, <6>1
        <5>3. CASE i = 1
          <6>1. 1 \in 1 .. n - 1
            BY <1>1, <3>4, <3>6
          <6>2. f[1] = seqs[1]
            BY <4>3, <6>1
          <6> QED
            BY <5>3, <6>2
        <5>4. CASE i # n /\ i # 1
          <6>1. i \in 1 .. n - 1 /\ i - 1 \in 1 .. n - 1
            BY <1>1, <3>4, <5>1, <5>4
          <6>2. f[i - 1] = g[i - 1] /\ f[i] = g[i] /\ g[i] = g[i - 1] \o seqs[i]
            BY <4>3, <5>4, <6>1
          <6> HIDE DEF f
          <6> QED
            BY <5>4, <6>2
        <5> QED
          BY <5>2, <5>3, <5>4
      <4>5. Extends(f, n)
        BY <4>4
      <4> QED
        BY <3>4, <4>5
    <3> QED
      BY <3>5, <3>6, Zenon
  <2> DEFINE F == CHOOSE f : Extends(f, N)
  <2>2. FlattenSeq(seqs) = F[N]
    BY <1>0, <1>3
  <2>3. Extends(F, N)
    <3>1. \E f : Extends(f, N)
      <4> HIDE DEF Extends
      <4> QED
        BY <1>1, <1>3, <2>1
    <3> HIDE DEF Extends
    <3> QED
      BY <3>1
  <2>4. \A i \in 1 .. N : F[i] = IF i = 1 THEN seqs[i] ELSE F[i - 1] \o seqs[i]
    <3> HIDE DEF F
    <3> QED
      BY <2>3
  <2> HIDE DEF F
  <2> DEFINE Good(i) == /\ F[i] \in Seq(T)
                        /\ \A x : x \in Range(F[i]) <=> \E j \in 1 .. i : x \in Range(seqs[j])
  <2>5. \A i \in 1 .. N : Good(i)
    <3> DEFINE K == {n \in 1 .. N : ~ Good(n)}
    <3>1. SUFFICES ASSUME K # {} PROVE FALSE
      OBVIOUS
    <3>2. K \in SUBSET Nat
      <4>1. K \subseteq 1 .. N
        OBVIOUS
      <4> HIDE DEF K
      <4> QED
        BY <4>1
    <3>3. PICK n \in K : \A m \in K : n <= m
      <4> HIDE DEF K
      <4> QED
        BY <3>1, <3>2, LeastNumber
    <3>4. n \in 1 .. N /\ ~ Good(n)
      OBVIOUS
    <3>5. CASE n = 1
      <4>1. F[n] = seqs[n] /\ seqs[n] \in Seq(T)
        BY <1>1, <2>4, <3>4, <3>5
      <4>2. \A j : j \in 1 .. n <=> j = n
        <5> HIDE DEF K
        <5> QED
          BY <3>5
      <4>3. Good(n)
        <5>1. F[n] \in Seq(T)
          BY <4>1
        <5>2. \A x : x \in Range(F[n]) <=> \E j \in 1 .. n : x \in Range(seqs[j])
          <6>1. TAKE x
          <6>2. Range(F[n]) = Range(seqs[n])
            BY <4>1
          <6>3. n \in 1 .. n
            BY <4>2
          <6> HIDE DEF K
          <6> QED
            BY <4>2, <6>2, <6>3
        <5> QED
          BY <5>1, <5>2
      <4> QED
        BY <3>4, <4>3
    <3>6. CASE n # 1
      <4>1. n - 1 \in 1 .. N /\ n - 1 \notin K
        <5> HIDE DEF K, Good
        <5> QED
          BY <1>1, <3>2, <3>3, <3>4, <3>6
      <4>2. Good(n - 1)
        BY <4>1
      <4>3. F[n] = F[n - 1] \o seqs[n] /\ seqs[n] \in Seq(T)
        BY <1>1, <2>4, <3>4, <3>6
      <4>4. F[n] \in Seq(T) /\ Range(F[n]) = Range(F[n - 1]) \cup Range(seqs[n])
        BY <4>2, <4>3, ConcatProperties, RangeConcatenation
      <4>5. \A j : j \in 1 .. n <=> j \in 1 .. n - 1 \/ j = n
        BY <1>1, <3>4
      <4> QED
        BY <3>4, <4>2, <4>4, <4>5
    <3> HIDE DEF K, Good
    <3> QED
      BY <3>5, <3>6
  <2>6. Good(N)
    <3> HIDE DEF Good
    <3> QED
      BY <1>1, <1>3, <2>5
  <2> QED
    BY <1>1, <2>2, <2>6
<1> QED
  BY <1>2, <1>3

-----------------------------------------------------------------------------
(* The planner: the actions pushed, and the graph made of them.             *)

Kinds  == ActionKind \cup {classify(c) : c \in Command}
Action == [id : Nat, command : Command, source : Source, kind : Kinds, score : 0 .. 100,
           prerequisites : SUBSET Nat]

\* An action that push() lets through has the score of its command, its source
\* and its kind.
Scored(a) ==
  /\ risk_penalty(a.command) \in {0, 40}
  /\ a.score = AtLeastZero(base_confidence[a.source]
                 + (IF a.kind = "test" THEN Adjustment(a.command) ELSE 0) - risk_penalty(a.command))

Pushed == {list \in Seq(Action) : \A i \in DOMAIN list : list[i].id = i /\ Scored(list[i])}

PInv ==
  /\ snapshot \subseteq File /\ miner \in 1 .. 7 /\ mined \in 0 .. MaxMined
  /\ actions \in Pushed
  /\ graph = IF miner = 7 THEN Graph(actions) ELSE <<>>

\* What a source is trusted, a suite gains, and a risk costs.
LEMMA Scores ==
  /\ \A source \in Source : base_confidence[source] \in 40 .. 85
  /\ \A c \in Command : Adjustment(c) \in {6, -6, 0} /\ risk_penalty(c) \in {100, 40, 0}
<1>1. \A source \in Source : base_confidence[source] \in 40 .. 85
  BY DEF Source, base_confidence
<1>2. \A c \in Command : Adjustment(c) \in {6, -6, 0}
  BY DEF Adjustment
<1>3. \A c \in Command : risk_penalty(c) \in {100, 40, 0}
  BY DEF risk_penalty
<1> QED
  BY <1>1, <1>2, <1>3

\* push() keeps the list typed, numbered and scored.
LEMMA PushKeeps ==
  ASSUME NEW list \in Pushed, NEW c \in Command, NEW source \in Source, NEW hint \in ActionKind \cup {"none"}
  PROVE  Push(list, Candidate(c, source, hint)) \in Pushed
<1> DEFINE a == Candidate(c, source, hint)
           kind == IF hint = "none" THEN classify(c) ELSE hint
           score == AtLeastZero(base_confidence[source]
                      + (IF kind = "test" THEN Adjustment(c) ELSE 0) - risk_penalty(c))
<1>1. a = [id |-> 0, command |-> c, source |-> source, kind |-> kind, score |-> score, prerequisites |-> {}]
  BY DEF Candidate
<1>2. kind \in Kinds
  BY DEF Kinds
<1>3. score \in 0 .. 100
  <2>1. base_confidence[source] \in 40 .. 85 /\ Adjustment(c) \in {6, -6, 0}
        /\ risk_penalty(c) \in {100, 40, 0}
    BY Scores
  <2>2. (IF kind = "test" THEN Adjustment(c) ELSE 0) \in {6, -6, 0}
    BY <2>1
  <2> DEFINE adj == IF kind = "test" THEN Adjustment(c) ELSE 0
  <2> HIDE DEF adj
  <2>3. AtLeastZero(base_confidence[source] + adj - risk_penalty(c)) \in 0 .. 100
    BY <2>1, <2>2 DEF AtLeastZero, adj
  <2> QED
    BY <2>3 DEF adj
<1>4. list \in Seq(Action) /\ \A i \in DOMAIN list : list[i].id = i /\ Scored(list[i])
  BY DEF Pushed
<1>5. ASSUME ~ Acceptable(c) PROVE Push(list, a) \in Pushed
  <2>1. Push(list, a) = list
    BY <1>1, <1>5 DEF Push
  <2> QED
    BY <2>1
<1>6. ASSUME Acceptable(c) PROVE Push(list, a) \in Pushed
  <2> DEFINE n == Len(list) + 1
             b == [id |-> n, command |-> c, source |-> source, kind |-> kind, score |-> score,
                   prerequisites |-> {}]
  <2> HIDE DEF kind, score, a
  <2>1. Push(list, a) = Append(list, b)
    <3>1. a.command = c
      BY <1>1
    <3>2. [a EXCEPT !.id = n] = b
      <4> HIDE DEF n
      <4> QED
        BY <1>1
    <3> HIDE DEF b
    <3> QED
      BY <1>6, <3>1, <3>2 DEF Push
  <2>2. Len(list) \in Nat /\ DOMAIN list = 1 .. Len(list)
    BY <1>4, LenProperties
  <2>3. b \in Action
    BY <1>2, <1>3, <2>2 DEF Action
  <2>4. Scored(b)
    <3>1. risk_penalty(c) \in {0, 40}
      BY <1>6, Scores DEF Acceptable
    <3> QED
      BY <3>1 DEF Scored, score
  <2>5. b.id = n
    OBVIOUS
  <2> HIDE DEF b
  <2>6. /\ Append(list, b) \in Seq(Action) /\ Len(Append(list, b)) = n
        /\ \A i \in 1 .. Len(list) : Append(list, b)[i] = list[i]
        /\ Append(list, b)[n] = b
    BY <1>4, <2>3, AppendProperties
  <2>7. DOMAIN Append(list, b) = 1 .. n
    BY <2>6, LenProperties
  <2>8. ASSUME NEW i \in 1 .. n
        PROVE  Append(list, b)[i].id = i /\ Scored(Append(list, b)[i])
    <3>1. CASE i = n
      BY <2>4, <2>5, <2>6, <3>1
    <3>2. CASE i # n
      <4>1. i \in 1 .. Len(list)
        BY <2>2, <3>2
      <4>2. Append(list, b)[i] = list[i] /\ list[i].id = i /\ Scored(list[i])
        BY <1>4, <2>2, <2>6, <4>1
      <4> QED
        BY <4>2
    <3> QED
      BY <3>1, <3>2
  <2>9. Append(list, b) \in Pushed
    BY <2>6, <2>7, <2>8 DEF Pushed
  <2> QED
    BY <2>1, <2>9
<1> HIDE DEF a
<1>7. Push(list, a) \in Pushed
  BY <1>5, <1>6
<1> QED
  BY <1>7 DEF a

\* The packs detected, each once: what they offer is typed.
LEMMA OffersType ==
  Offers \in Seq(Command \X ActionKind)
<1> DEFINE below == [q \in Detected |->
                       {p \in Detected : Priority(p) < Priority(q) \/ (Priority(p) = Priority(q) /\ p < q)}]
           major == [p \in Detected |-> Priority(p)]
           minor == [p \in Detected |-> p]
           seq == detect_runners
           N == Cardinality(Detected)
           At(n) == CHOOSE x \in Detected :
              Cardinality({y \in Detected : \/ Priority(y) < Priority(x)
                                            \/ (Priority(y) = Priority(x) /\ y < x)}) = n - 1
<1>1. /\ Recipe \in Seq([names : SUBSET File, extension : SUBSET File, make : BOOLEAN,
                         offers : Seq(Command \X ActionKind)])
      /\ Detected \subseteq DOMAIN Recipe /\ Len(Recipe) \in Nat /\ DOMAIN Recipe = 1 .. Len(Recipe)
  BY PlannerAssumption, LenProperties DEF Detected
<1>2. IsFiniteSet(Detected)
  <2>1. IsFiniteSet(DOMAIN Recipe)
    BY <1>1, FS_Interval
  <2> QED
    BY <1>1, <2>1, FS_Subset
<1>3. \A p \in Detected : Priority(p) \in Nat /\ p \in Nat
  BY <1>1 DEF Priority
<1>4. seq = [n \in 1 .. N |-> At(n)]
  BY DEF detect_runners, InOrder
<1>5. \A x \in Detected :
        below[x] = {y \in Detected : Priority(y) < Priority(x) \/ (Priority(y) = Priority(x) /\ y < x)}
  OBVIOUS
<1>6. major \in [Detected -> Nat] /\ minor \in [Detected -> Nat]
  BY <1>3
<1>7. \A x, y \in Detected : major[x] = major[y] /\ minor[x] = minor[y] => x = y
  OBVIOUS
<1>8. below \in [Detected -> SUBSET Detected]
  OBVIOUS
<1>9. \A x, y \in Detected :
        y \in below[x] <=> major[y] < major[x] \/ (major[y] = major[x] /\ minor[y] < minor[x])
  <2>1. TAKE x, y \in Detected
  <2>2. major[x] = Priority(x) /\ major[y] = Priority(y) /\ minor[x] = x /\ minor[y] = y
    OBVIOUS
  <2>3. y \in below[x] <=> Priority(y) < Priority(x) \/ (Priority(y) = Priority(x) /\ y < x)
    BY <1>5
  <2> HIDE DEF major, minor, below
  <2> QED
    BY <2>2, <2>3
<1>10. \E f : seq = [n \in 1 .. N |-> f[n]]
  <2> HIDE DEF seq, N, At
  <2>1. seq = [n \in 1 .. N |-> seq[n]]
    BY <1>4
  <2> QED
    BY <2>1, Zenon
<1> HIDE DEF below, major, minor, seq
<1>11. \A n \in 1 .. N : (\E x \in Detected : Cardinality(below[x]) = n - 1) =>
          seq[n] \in Detected /\ Cardinality(below[seq[n]]) = n - 1
  <2>1. TAKE n \in 1 .. N
  <2>2. HAVE \E x \in Detected : Cardinality(below[x]) = n - 1
  <2> DEFINE P(x) == Cardinality({y \in Detected : \/ Priority(y) < Priority(x)
                                                   \/ (Priority(y) = Priority(x) /\ y < x)}) = n - 1
  <2>3. \E x \in Detected : P(x)
    BY <1>5, <2>2
  <2>4. seq[n] = CHOOSE x \in Detected : P(x)
    BY <1>4, <2>1
  <2>5. seq[n] \in Detected /\ P(seq[n])
    <3> HIDE DEF P
    <3> QED
      BY <2>3, <2>4
  <2> QED
    BY <1>5, <2>5
<1>12. seq \in Seq(Detected)
  <2>1. Below(Detected, major, minor, below)
    BY <1>2, <1>6, <1>7, <1>8, <1>9 DEF Below
  <2>2. Places(Detected, below, seq)
    BY <1>10, <1>11 DEF Places
  <2> QED
    BY <2>1, <2>2, KeysInOrder DEF Lists
<1> DEFINE offers == [i \in DOMAIN seq |-> Recipe[seq[i]].offers]
<1>13. \A i \in DOMAIN seq : offers[i] \in Seq(Command \X ActionKind)
  <2>1. TAKE i \in DOMAIN seq
  <2>2. seq[i] \in DOMAIN Recipe
    BY <1>1, <1>12, InRange
  <2>3. Recipe[seq[i]] \in [names : SUBSET File, extension : SUBSET File, make : BOOLEAN,
                            offers : Seq(Command \X ActionKind)]
    BY <1>1, <2>2, ElementOfSeq
  <2> QED
    BY <2>1, <2>3
<1>14. offers \in Seq(Seq(Command \X ActionKind))
  <2>1. DOMAIN seq = 1 .. Len(seq) /\ Len(seq) \in Nat
    BY <1>12, LenProperties
  <2>2. offers \in [1 .. Len(seq) -> Seq(Command \X ActionKind)]
    BY <1>13, <2>1
  <2> HIDE DEF offers
  <2> QED
    BY <2>1, <2>2, SeqDef
<1>15. Offers = FlattenSeq(offers)
  BY DEF Offers, seq
<1> HIDE DEF offers
<1> QED
  BY <1>14, <1>15, Flattened

\* The recipes add to the list what push() lets through of their offers.
LEMMA RecipesKeep ==
  ASSUME actions \in Pushed
  PROVE  WithRecipes \in Pushed
<1> DEFINE N == Len(Offers)
           Next1(list, n) == Push(list, Candidate(Offers[n][1], "recipe", Offers[n][2]))
           Follows(f, n) == f = [i \in 0 .. n |-> IF i = 0 THEN actions ELSE Next1(f[i - 1], i)]
<1>1. N \in Nat
  BY OffersType, LenProperties
<1>2. \A list \in Pushed : \A n \in 1 .. N : Next1(list, n) \in Pushed
  <2>1. TAKE list \in Pushed
  <2>2. TAKE n \in 1 .. N
  <2>3. Offers[n] \in Command \X ActionKind
    BY <2>2, OffersType, ElementOfSeq
  <2>4. Offers[n][1] \in Command /\ Offers[n][2] \in ActionKind \cup {"none"} /\ "recipe" \in Source
    BY <2>3 DEF Source
  <2> QED
    BY <2>1, <2>4, PushKeeps
<1>3. WithRecipes = (CHOOSE f : Follows(f, N))[N]
  BY SMT DEF WithRecipes
<1> HIDE DEF N, Next1
<1>4. \A n \in 0 .. N : \E f : Follows(f, n)
  <2> DEFINE K == {n \in 0 .. N : ~ \E f : Follows(f, n)}
  <2>1. SUFFICES ASSUME K # {} PROVE FALSE
    OBVIOUS
  <2>2. K \in SUBSET Nat
    <3>1. K \subseteq 0 .. N
      OBVIOUS
    <3> HIDE DEF K
    <3> QED
      BY <3>1
  <2>3. PICK n \in K : \A m \in K : n <= m
    <3> HIDE DEF K
    <3> QED
      BY <2>1, <2>2, LeastNumber
  <2>4. n \in 0 .. N /\ ~ \E f : Follows(f, n)
    OBVIOUS
  <2>5. CASE n = 0
    <3> DEFINE f == [i \in 0 .. 0 |-> actions]
    <3>1. Follows(f, 0)
      OBVIOUS
    <3> QED
      BY <2>4, <2>5, <3>1
  <2>6. CASE n # 0
    <3>1. n - 1 \in 0 .. N /\ n - 1 \notin K
      <4> HIDE DEF K, Follows
      <4> QED
        BY <1>1, <2>2, <2>3, <2>4, <2>6
    <3>2. PICK g : Follows(g, n - 1)
      BY <3>1
    <3> DEFINE f == [i \in 0 .. n |-> IF i = n THEN Next1(g[n - 1], n) ELSE g[i]]
    <3>3. \A i \in 0 .. n - 1 : f[i] = g[i] /\ g[i] = IF i = 0 THEN actions ELSE Next1(g[i - 1], i)
      <4>1. \A i \in 0 .. n - 1 : i \in 0 .. n /\ i # n
        BY <1>1, <2>4
      <4>2. \A i \in 0 .. n - 1 : g[i] = IF i = 0 THEN actions ELSE Next1(g[i - 1], i)
        BY <3>2
      <4> QED
        BY <4>1, <4>2
    <3>4. \A i \in 0 .. n : f[i] = IF i = 0 THEN actions ELSE Next1(f[i - 1], i)
      <4>1. TAKE i \in 0 .. n
      <4>2. CASE i = n
        <5>1. n - 1 \in 0 .. n - 1
          BY <1>1, <2>4, <2>6
        <5>2. f[n - 1] = g[n - 1]
          BY <3>3, <5>1
        <5>3. f[n] = Next1(g[n - 1], n)
          BY <2>4
        <5> HIDE DEF f
        <5> QED
          BY <2>6, <4>2, <5>2, <5>3
      <4>3. CASE i = 0
        <5>1. 0 \in 0 .. n - 1
          BY <1>1, <2>4, <2>6
        <5>2. f[0] = actions
          BY <3>3, <5>1
        <5> HIDE DEF f
        <5> QED
          BY <4>3, <5>2
      <4>4. CASE i # n /\ i # 0
        <5>1. i \in 0 .. n - 1 /\ i - 1 \in 0 .. n - 1
          BY <1>1, <2>4, <4>1, <4>4
        <5>2. f[i - 1] = g[i - 1] /\ f[i] = g[i] /\ g[i] = Next1(g[i - 1], i)
          BY <3>3, <4>4, <5>1
        <5> HIDE DEF f
        <5> QED
          BY <4>4, <5>2
      <4> QED
        BY <4>2, <4>3, <4>4
    <3>5. Follows(f, n)
      BY <3>4
    <3> QED
      BY <2>4, <3>5
  <2> HIDE DEF K, Follows
  <2> QED
    BY <2>5, <2>6
<1> DEFINE F == CHOOSE f : Follows(f, N)
<1>5. Follows(F, N)
  <2>1. \E f : Follows(f, N)
    <3> HIDE DEF Follows
    <3> QED
      BY <1>1, <1>4
  <2> HIDE DEF Follows
  <2> QED
    BY <2>1
<1>6. \A i \in 0 .. N : F[i] = IF i = 0 THEN actions ELSE Next1(F[i - 1], i)
  <2> HIDE DEF F
  <2> QED
    BY <1>5
<1>7. WithRecipes = F[N]
  BY <1>3
<1> HIDE DEF F, Follows
<1>8. \A i \in 0 .. N : F[i] \in Pushed
  <2> DEFINE K == {n \in 0 .. N : F[n] \notin Pushed}
  <2>1. SUFFICES ASSUME K # {} PROVE FALSE
    OBVIOUS
  <2>2. K \in SUBSET Nat
    <3>1. K \subseteq 0 .. N
      OBVIOUS
    <3> HIDE DEF K
    <3> QED
      BY <3>1
  <2>3. PICK n \in K : \A m \in K : n <= m
    <3> HIDE DEF K
    <3> QED
      BY <2>1, <2>2, LeastNumber
  <2>4. n \in 0 .. N /\ F[n] \notin Pushed
    OBVIOUS
  <2>5. CASE n = 0
    BY <1>6, <2>4, <2>5
  <2>6. CASE n # 0
    <3>1. n - 1 \in 0 .. N /\ n \in 1 .. N /\ n - 1 \notin K
      <4> HIDE DEF K
      <4> QED
        BY <1>1, <2>2, <2>3, <2>4, <2>6
    <3>2. F[n - 1] \in Pushed /\ F[n] = Next1(F[n - 1], n)
      BY <1>6, <2>4, <2>6, <3>1
    <3> QED
      BY <1>2, <2>4, <3>1, <3>2
  <2> HIDE DEF K
  <2> QED
    BY <2>5, <2>6
<1> QED
  BY <1>1, <1>7, <1>8

\* Of the actions of one command, the one that is kept scores best.
LEMMA KeptIsBest ==
  ASSUME NEW list \in Seq(Action), NEW i \in DOMAIN list
  PROVE  \E j \in DOMAIN list : /\ Keep(list, i) = list[j] /\ list[j].command = list[i].command
                                /\ \A k \in DOMAIN list :
                                     list[k].command = list[i].command => list[k].score <= list[j].score
<1> DEFINE same == Same(list, i)
           Best1(j) == \A k \in same : list[k].score < list[j].score \/ (list[k].score = list[j].score /\ j <= k)
<1>1. /\ DOMAIN list = 1 .. Len(list) /\ Len(list) \in Nat
      /\ \A j \in DOMAIN list : list[j].score \in 0 .. 100 /\ list[j].score \in Nat
  <2>1. DOMAIN list = 1 .. Len(list) /\ Len(list) \in Nat
    BY LenProperties
  <2>2. \A j \in DOMAIN list : list[j] \in Action
    BY <2>1, ElementOfSeq
  <2>3. \A n \in 0 .. 100 : n \in Nat
    OBVIOUS
  <2>4. \A j \in DOMAIN list : list[j].score \in 0 .. 100
    BY <2>2 DEF Action
  <2> QED
    BY <2>1, <2>3, <2>4
<1>2. same = {j \in DOMAIN list : list[j].command = list[i].command} /\ i \in same
  BY DEF Same
<1> HIDE DEF same
<1> DEFINE scores == {list[j].score : j \in same}
<1>3. PICK s \in scores : \A t \in scores : t <= s
  <2>1. scores \in SUBSET (0 .. 100) /\ scores # {}
    BY <1>1, <1>2
  <2> HIDE DEF scores
  <2> QED
    BY <2>1, GreatestNumber
<1> DEFINE top == {j \in same : list[j].score = s}
<1>4. PICK j \in top : \A k \in top : j <= k
  <2>1. top \in SUBSET Nat /\ top # {}
    BY <1>1, <1>2, <1>3
  <2> HIDE DEF top
  <2> QED
    BY <2>1, LeastNumber
<1>10. j \in same
  BY <1>4
<1>5. Best1(j)
  <2>1. TAKE k \in same
  <2>2. list[k].score <= s /\ list[j].score = s /\ list[k].score \in Nat /\ s \in Nat
    <3>1. k \in DOMAIN list /\ j \in DOMAIN list /\ list[k].score \in scores /\ list[j].score = s
      BY <1>2, <1>4, <2>1
    <3>2. list[k].score \in Nat /\ list[j].score \in Nat
      BY <1>1, <3>1
    <3> HIDE DEF scores, same, top
    <3> QED
      BY <1>3, <3>1, <3>2
  <2>3. list[k].score = s => j <= k
    BY <1>4
  <2> HIDE DEF same, scores, top
  <2> QED
    BY <2>2, <2>3
<1>6. Keep(list, i) = list[CHOOSE k \in same : Best1(k)]
  BY DEF Keep, same
<1> DEFINE b == CHOOSE k \in same : Best1(k)
<1>7. b \in same /\ Best1(b)
  <2> HIDE DEF Best1
  <2> QED
    BY <1>5, <1>10
<1> HIDE DEF b
<1>8. b \in DOMAIN list /\ list[b].command = list[i].command
  BY <1>2, <1>7
<1>9. \A k \in DOMAIN list : list[k].command = list[i].command => list[k].score <= list[b].score
  <2>1. \A k \in same : list[k].score \in Nat
    BY <1>1, <1>2
  <2>2. list[b].score \in Nat
    BY <1>1, <1>8
  <2> QED
    BY <1>2, <1>7, <2>1, <2>2
<1> QED
  BY <1>6, <1>8, <1>9 DEF b

\* What deduplication leaves of a list.
Dedup(list, kept) ==
  /\ \E N \in Nat : DOMAIN kept = 1 .. N
  /\ \A n \in DOMAIN kept : \E k \in DOMAIN list : kept[n] = list[k]
  /\ \A m, n \in DOMAIN kept : kept[m].command = kept[n].command => m = n
  /\ \A i \in DOMAIN list : \E n \in DOMAIN kept :
       kept[n].command = list[i].command /\ list[i].score <= kept[n].score

LEMMA DedupedOnce ==
  ASSUME NEW list \in Pushed
  PROVE  Dedup(list, Deduped(list))
<1> DEFINE firsts == {i \in DOMAIN list : \A j \in Same(list, i) : i <= j}
           first == InOrder(firsts, <)
           kept == Deduped(list)
<1>1. list \in Seq(Action) /\ DOMAIN list = 1 .. Len(list) /\ Len(list) \in Nat
  BY LenProperties DEF Pushed
<1>2. \A i, j \in DOMAIN list : j \in Same(list, i) <=> list[j].command = list[i].command
  BY DEF Same
<1>3. firsts \subseteq Nat /\ firsts \subseteq DOMAIN list /\ IsFiniteSet(firsts)
  <2>1. firsts \subseteq DOMAIN list
    OBVIOUS
  <2>2. IsFiniteSet(DOMAIN list)
    BY <1>1, FS_Interval
  <2> HIDE DEF firsts
  <2>3. IsFiniteSet(firsts)
    BY <2>1, <2>2, FS_Subset
  <2> QED
    BY <1>1, <2>1, <2>3
<1>4. kept = [n \in DOMAIN first |-> Keep(list, first[n])]
  BY DEF Deduped
<1>5. \A i \in firsts : \A j \in DOMAIN list : list[j].command = list[i].command => i <= j
  BY <1>2
<1>6. \A i \in DOMAIN list : \E f \in firsts : list[f].command = list[i].command
  <2>1. TAKE i \in DOMAIN list
  <2> DEFINE same == {j \in DOMAIN list : list[j].command = list[i].command}
  <2>2. same \in SUBSET Nat /\ same # {}
    BY <1>1, <2>1
  <2>3. PICK f \in same : \A j \in same : f <= j
    <3> HIDE DEF same
    <3> QED
      BY <2>2, LeastNumber
  <2>4. f \in DOMAIN list /\ list[f].command = list[i].command
    OBVIOUS
  <2>5. \A j \in Same(list, f) : f <= j
    BY <2>3, <2>4 DEF Same
  <2> QED
    BY <2>4, <2>5
<1> HIDE DEF firsts
<1>7. /\ first \in Seq(firsts) /\ Len(first) = Cardinality(firsts) /\ Range(first) = firsts
      /\ \A i, j \in DOMAIN first : first[i] = first[j] => i = j
  BY <1>3, NumbersInOrder
<1> HIDE DEF first, kept
<1>8. /\ DOMAIN first = 1 .. Len(first) /\ Len(first) \in Nat
      /\ \A n \in DOMAIN first : first[n] \in firsts
      /\ \A i \in firsts : \E n \in DOMAIN first : first[n] = i
  BY <1>7, InRange
<1>9. DOMAIN kept = DOMAIN first /\ \A n \in DOMAIN kept : kept[n] = Keep(list, first[n])
  BY <1>4
<1>10. ASSUME NEW n \in DOMAIN kept
       PROVE  \E k \in DOMAIN list :
                /\ kept[n] = list[k] /\ list[k].command = list[first[n]].command
                /\ \A j \in DOMAIN list :
                     list[j].command = list[first[n]].command => list[j].score <= list[k].score
  <2>1. first[n] \in DOMAIN list /\ kept[n] = Keep(list, first[n])
    BY <1>3, <1>8, <1>9
  <2> DEFINE i == first[n]
  <2> HIDE DEF i
  <2>2. i \in DOMAIN list /\ list \in Seq(Action)
    BY <1>1, <2>1 DEF i
  <2>3. PICK k \in DOMAIN list :
          /\ Keep(list, i) = list[k] /\ list[k].command = list[i].command
          /\ \A j \in DOMAIN list : list[j].command = list[i].command => list[j].score <= list[k].score
    BY ONLY <2>2, KeptIsBest
  <2>4. kept[n] = list[k]
    BY <2>1, <2>3 DEF i
  <2> QED
    BY <2>3, <2>4 DEF i
<1>11. \A n \in DOMAIN kept : \E k \in DOMAIN list : kept[n] = list[k]
  BY <1>10
<1>12. \A m, n \in DOMAIN kept : kept[m].command = kept[n].command => m = n
  <2>1. TAKE m, n \in DOMAIN kept
  <2>2. HAVE kept[m].command = kept[n].command
  <2>3. list[first[m]].command = list[first[n]].command
    BY <1>10, <2>2
  <2>4. first[m] \in firsts /\ first[n] \in firsts
    BY <1>8, <1>9
  <2>5. first[m] <= first[n] /\ first[n] <= first[m]
    BY <1>3, <1>5, <2>3, <2>4
  <2>6. first[m] = first[n]
    <3>1. first[m] \in Nat /\ first[n] \in Nat
      BY <1>3, <2>4
    <3> QED
      BY <2>5, <3>1
  <2> QED
    BY <1>7, <1>9, <2>6
<1>13. \A i \in DOMAIN list : \E n \in DOMAIN kept :
         kept[n].command = list[i].command /\ list[i].score <= kept[n].score
  <2>1. TAKE i \in DOMAIN list
  <2>2. PICK f \in firsts : list[f].command = list[i].command
    BY <1>6
  <2>3. PICK n \in DOMAIN kept : first[n] = f
    BY <1>8, <1>9
  <2> QED
    BY <1>10, <2>2, <2>3
<1> QED
  BY <1>8, <1>9, <1>11, <1>12, <1>13 DEF Dedup, kept

\* What the graph of a list says of it.
OfList(list, g) ==
  /\ \E N \in Nat : DOMAIN g = 1 .. N
  /\ \A n \in DOMAIN g : \E k \in DOMAIN list :
       /\ g[n].id = k /\ g[n].command = list[k].command /\ g[n].kind = list[k].kind
       /\ g[n].score = list[k].score /\ g[n].source = list[k].source
  /\ \A m, n \in DOMAIN g : g[m].command = g[n].command => m = n
  /\ \A i \in DOMAIN list : \E n \in DOMAIN g :
       g[n].command = list[i].command /\ list[i].score <= g[n].score
  /\ \A n \in DOMAIN g :
       g[n].prerequisites =
         IF g[n].kind = "install" THEN {} ELSE {g[j].id : j \in {k \in DOMAIN g : g[k].kind = "install"}}

LEMMA GraphOfList ==
  ASSUME NEW list \in Pushed
  PROVE  OfList(list, Graph(list))
<1> DEFINE kept == Deduped(list)
           g == Graph(list)
           pre(i) == IF kept[i].kind = "install" THEN {} ELSE InstallIds(list)
<1>1. Dedup(list, kept)
  BY DedupedOnce
<1>2. g = [i \in DOMAIN kept |-> [kept[i] EXCEPT !.prerequisites = pre(i)]]
  BY DEF Graph
<1>3. InstallIds(list) = {kept[i].id : i \in {j \in DOMAIN kept : kept[j].kind = "install"}}
  BY DEF InstallIds, Installs
<1> HIDE DEF kept, g
<1>4. \A i \in DOMAIN list : list[i] \in Action /\ list[i].id = i
  <2>1. list \in Seq(Action) /\ \A i \in DOMAIN list : list[i].id = i
    BY DEF Pushed
  <2> QED
    BY <2>1, InRange
<1>5. \A i \in DOMAIN kept : kept[i] \in Action
  BY <1>1, <1>4 DEF Dedup
<1>6. DOMAIN g = DOMAIN kept
  BY <1>2
<1>7. ASSUME NEW i \in DOMAIN kept
      PROVE  /\ g[i].id = kept[i].id /\ g[i].command = kept[i].command /\ g[i].kind = kept[i].kind
             /\ g[i].score = kept[i].score /\ g[i].source = kept[i].source /\ g[i].prerequisites = pre(i)
  <2>1. kept[i] \in Action
    BY <1>5
  <2>2. g[i] = [kept[i] EXCEPT !.prerequisites = pre(i)]
    BY <1>2
  <2> HIDE DEF pre
  <2> QED
    BY <2>1, <2>2 DEF Action
<1> HIDE DEF pre
<1>8. {g[j].id : j \in {k \in DOMAIN g : g[k].kind = "install"}} = InstallIds(list)
  <2>1. {k \in DOMAIN g : g[k].kind = "install"} = {k \in DOMAIN kept : kept[k].kind = "install"}
    BY <1>6, <1>7
  <2>2. \A k \in DOMAIN kept : g[k].id = kept[k].id
    BY <1>7
  <2> QED
    BY <1>3, <2>1, <2>2
<1>9. \A n \in DOMAIN g :
        g[n].prerequisites =
          IF g[n].kind = "install" THEN {} ELSE {g[j].id : j \in {k \in DOMAIN g : g[k].kind = "install"}}
  BY <1>6, <1>7, <1>8 DEF pre
<1>10. \A n \in DOMAIN g : \E k \in DOMAIN list :
         /\ g[n].id = k /\ g[n].command = list[k].command /\ g[n].kind = list[k].kind
         /\ g[n].score = list[k].score /\ g[n].source = list[k].source
  <2>1. TAKE n \in DOMAIN g
  <2>2. PICK k \in DOMAIN list : kept[n] = list[k]
    BY <1>1, <1>6 DEF Dedup
  <2> QED
    BY <1>4, <1>6, <1>7, <2>2
<1>11. \A m, n \in DOMAIN g : g[m].command = g[n].command => m = n
  BY <1>1, <1>6, <1>7 DEF Dedup
<1>12. \A i \in DOMAIN list : \E n \in DOMAIN g :
         g[n].command = list[i].command /\ list[i].score <= g[n].score
  BY <1>1, <1>6, <1>7 DEF Dedup
<1>13. \E N \in Nat : DOMAIN g = 1 .. N
  BY <1>1, <1>6 DEF Dedup
<1>14. OfList(list, g)
  BY <1>9, <1>10, <1>11, <1>12, <1>13 DEF OfList
<1> QED
  BY <1>14 DEF g

LEMMA PInvInit ==
  PlannerInit => PInv
<1> SUFFICES ASSUME PlannerInit PROVE PInv
  OBVIOUS
<1>1. <<>> \in Pushed
  BY EmptySeq DEF Pushed
<1>2. 0 \in 0 .. MaxMined
  BY PlannerAssumption
<1>3. graph = IF miner = 7 THEN Graph(actions) ELSE <<>>
  BY DEF PlannerInit
<1> QED
  BY <1>1, <1>2, <1>3 DEF PlannerInit, PInv

\* What a miner pushes is typed, and nothing is mined once the graph is made.
LEMMA MineKeeps ==
  ASSUME PInv, NEW source \in Source, NEW c \in Command, NEW hint \in ActionKind \cup {"none"},
         Mine(source, c, hint)
  PROVE  PInv'
<1>1. actions' \in Pushed
  BY PushKeeps DEF Mine, PInv
<1>2. mined' \in 0 .. MaxMined
  BY PlannerAssumption DEF Mine, PInv
<1>3. miner # 7
  BY DEF Mine, Miners, Source
<1>4. graph' = IF miner' = 7 THEN Graph(actions)' ELSE <<>>
  BY <1>3 DEF Mine, PInv
<1> QED
  BY <1>1, <1>2, <1>4 DEF Mine, PInv

LEMMA PInvNext ==
  PInv /\ [PlannerNext]_plannerVars => PInv'
<1> SUFFICES ASSUME PInv, [PlannerNext]_plannerVars PROVE PInv'
  OBVIOUS
<1>1. CASE MineWorkflow
  BY <1>1, MineKeeps DEF MineWorkflow, Source
<1>2. CASE MineScripts
  <2>1. PICK s \in Script : Mine("script", s[1], s[2])
    BY <1>2 DEF MineScripts
  <2>2. s[1] \in Command /\ s[2] \in ActionKind \cup {"none"} /\ "script" \in Source
    BY PlannerAssumption DEF Source
  <2> QED
    BY <2>1, <2>2, MineKeeps
<1>3. CASE MineMakefile
  <2>1. PICK t \in Target : Mine("makefile", t[1], t[2])
    BY <1>3 DEF MineMakefile
  <2>2. t[1] \in Command /\ t[2] \in ActionKind \cup {"none"} /\ "makefile" \in Source
    BY PlannerAssumption DEF Source
  <2> QED
    BY <2>1, <2>2, MineKeeps
<1>4. CASE MineDockerfile
  BY <1>4, MineKeeps DEF MineDockerfile, Source, ActionKind
<1>5. CASE MineDocs
  BY <1>5, MineKeeps DEF MineDocs, Source
<1>6. CASE NextMiner
  BY <1>6 DEF NextMiner, PInv
<1>7. CASE UseRecipes
  <2>1. actions' \in Pushed
    BY <1>7, RecipesKeep DEF UseRecipes, PInv
  <2> QED
    BY <1>7, <2>1 DEF UseRecipes, PInv
<1>8. CASE UNCHANGED plannerVars
  BY <1>8 DEF plannerVars, PInv
<1> QED
  BY <1>1, <1>2, <1>3, <1>4, <1>5, <1>6, <1>7, <1>8 DEF PlannerNext

\* The graph, before it is made or after.
LEMMA GraphIs ==
  ASSUME PInv
  PROVE  /\ \E N \in Nat : DOMAIN graph = 1 .. N
         /\ miner # 7 => DOMAIN graph = {}
         /\ miner = 7 => OfList(actions, graph)
         /\ \A i \in DOMAIN graph : OfList(actions, graph)
<1>1. CASE miner = 7
  <2>1. OfList(actions, graph)
    BY <1>1, GraphOfList DEF PInv
  <2> QED
    BY <1>1, <2>1 DEF OfList
<1>2. CASE miner # 7
  <2>1. graph = <<>>
    BY <1>2 DEF PInv
  <2>2. DOMAIN graph = {} /\ DOMAIN graph = 1 .. 0
    BY <2>1
  <2> QED
    BY <1>2, <2>2
<1> QED
  BY <1>1, <1>2

\* What each action of the graph was when it was pushed.
LEMMA GraphActions ==
  ASSUME PInv, NEW i \in DOMAIN graph
  PROVE  /\ graph[i].id \in DOMAIN actions /\ graph[i].score \in 0 .. 100
         /\ graph[i].command \in Command /\ graph[i].source \in Source
         /\ actions[graph[i].id].command = graph[i].command
         /\ actions[graph[i].id].kind = graph[i].kind
         /\ actions[graph[i].id].score = graph[i].score
         /\ risk_penalty(graph[i].command) \in {0, 40}
         /\ graph[i].score = AtLeastZero(base_confidence[graph[i].source]
              + (IF graph[i].kind = "test" THEN Adjustment(graph[i].command) ELSE 0)
              - risk_penalty(graph[i].command))
<1>1. PICK k \in DOMAIN actions :
         /\ graph[i].id = k /\ graph[i].command = actions[k].command /\ graph[i].kind = actions[k].kind
         /\ graph[i].score = actions[k].score /\ graph[i].source = actions[k].source
  BY GraphIs DEF OfList
<1>2. actions \in Seq(Action) /\ Scored(actions[k])
  BY DEF PInv, Pushed
<1>3. actions[k] \in Action
  BY <1>2, InRange
<1>4. actions[k].command \in Command /\ actions[k].source \in Source /\ actions[k].score \in 0 .. 100
  BY <1>3 DEF Action
<1>5. /\ risk_penalty(graph[i].command) \in {0, 40}
      /\ graph[i].score = AtLeastZero(base_confidence[graph[i].source]
           + (IF graph[i].kind = "test" THEN Adjustment(graph[i].command) ELSE 0)
           - risk_penalty(graph[i].command))
  BY <1>1, <1>2 DEF Scored
<1> QED
  BY <1>1, <1>4, <1>5

\* A kind with an action has a best one, of the highest score.
LEMMA BestIsTop ==
  ASSUME PInv, NEW kind, OfKind(kind) # {}
  PROVE  /\ Best(kind) \in OfKind(kind) /\ Best(kind) \in Top(kind)
         /\ \A i \in OfKind(kind) : graph[i].score <= graph[Best(kind)].score
<1> DEFINE of == OfKind(kind)
           top == Top(kind)
<1>1. of = {i \in DOMAIN graph : graph[i].kind = kind}
  BY DEF OfKind
<1>2. top = {i \in of : \A j \in of : graph[j].score <= graph[i].score}
  BY DEF Top
<1>3. Best(kind) = CHOOSE i \in top : \A j \in top : j <= i
  BY DEF Best
<1>4. PICK N \in Nat : DOMAIN graph = 1 .. N
  BY GraphIs
<1>5. \A i \in of : graph[i].score \in 0 .. 100
  BY <1>1, GraphActions
<1>10. of # {}
  OBVIOUS
<1> HIDE DEF of, top
<1> DEFINE scores == {graph[i].score : i \in of}
<1>6. PICK s \in scores : \A t \in scores : t <= s
  <2>1. scores \in SUBSET (0 .. 100) /\ scores # {}
    BY <1>5, <1>10
  <2> HIDE DEF scores
  <2> QED
    BY <2>1, GreatestNumber
<1>7. PICK i \in of : graph[i].score = s
  OBVIOUS
<1>8. i \in top
  BY <1>2, <1>6, <1>7
<1>9. \E m \in top : \A j \in top : j <= m
  <2>1. top \in SUBSET (0 .. N) /\ top # {}
    BY <1>1, <1>2, <1>4, <1>8
  <2> QED
    BY <2>1, GreatestNumber
<1>11. Best(kind) \in top
  BY <1>3, <1>9
<1> QED
  BY <1>2, <1>11 DEF of, top

LEMMA GraphKeeps ==
  PInv => PlannerTypeOK /\ GraphKeepsTheBest
<1> SUFFICES ASSUME PInv PROVE PlannerTypeOK /\ GraphKeepsTheBest
  OBVIOUS
<1>1. PlannerTypeOK
  <2>1. actions \in Seq(Action) /\ \A i \in DOMAIN actions : actions[i].id = i
    BY DEF PInv, Pushed
  <2>2. \A i \in DOMAIN actions : actions[i] \in Action
    BY <2>1, InRange
  <2>3. \A i \in DOMAIN actions :
          actions[i].command \in Command /\ actions[i].source \in Source /\ actions[i].score \in 0 .. 100
    BY <2>2 DEF Action
  <2> QED
    BY <2>1, <2>3 DEF PlannerTypeOK, PInv
<1>2. \A i, j \in DOMAIN graph : graph[i].command = graph[j].command => i = j
  BY GraphIs DEF OfList
<1>3. miner = 7 => \A i \in DOMAIN actions : \E j \in DOMAIN graph :
        graph[j].command = actions[i].command /\ graph[j].score >= actions[i].score
  <2>1. SUFFICES ASSUME miner = 7, NEW i \in DOMAIN actions
                 PROVE  \E j \in DOMAIN graph :
                          graph[j].command = actions[i].command /\ graph[j].score >= actions[i].score
    OBVIOUS
  <2>2. PICK j \in DOMAIN graph : graph[j].command = actions[i].command /\ actions[i].score <= graph[j].score
    BY <2>1, GraphIs DEF OfList
  <2>3. graph[j].score \in 0 .. 100 /\ actions[i].score \in 0 .. 100
    BY <1>1, GraphActions DEF PlannerTypeOK
  <2>4. graph[j].score >= actions[i].score
    <3> DEFINE a == graph[j].score
               b == actions[i].score
    <3>1. a \in Nat /\ b \in Nat /\ b <= a
      BY <2>2, <2>3
    <3> HIDE DEF a, b
    <3>2. a >= b
      BY <3>1
    <3> QED
      BY <3>2 DEF a, b
  <2> QED
    BY <2>2, <2>4
<1>4. \A j \in DOMAIN graph :
        LET a == actions[graph[j].id]
        IN  a.command = graph[j].command /\ a.kind = graph[j].kind /\ a.score = graph[j].score
  BY GraphActions
<1> QED
  BY <1>1, <1>2, <1>3, <1>4 DEF GraphKeepsTheBest

LEMMA PrerequisitesAreThere ==
  PInv => PrerequisitesExist
<1> SUFFICES ASSUME PInv, NEW i \in DOMAIN graph
             PROVE  /\ graph[i].prerequisites \subseteq {graph[j].id : j \in OfKind("install")}
                    /\ graph[i].kind # "install" /\ i = Best(graph[i].kind) =>
                         \A a \in Provision(graph[i].kind) : a.id \in graph[i].prerequisites
  BY DEF PrerequisitesExist
<1>1. graph[i].prerequisites = IF graph[i].kind = "install" THEN {} ELSE {graph[j].id : j \in OfKind("install")}
  BY GraphIs DEF OfList, OfKind
<1>2. ASSUME graph[i].kind # "install", NEW a \in Provision(graph[i].kind)
      PROVE  a.id \in graph[i].prerequisites
  <2>1. PICK j \in FirstCandidate("install") : a = graph[j]
    BY DEF Provision
  <2>2. j \in OfKind("install")
    BY DEF FirstCandidate, Top
  <2> QED
    BY <1>1, <1>2, <2>1, <2>2
<1> QED
  BY <1>1, <1>2

LEMMA BestIsRun ==
  PInv => OffersAreRun
<1> SUFFICES ASSUME PInv PROVE OffersAreRun
  OBVIOUS
<1>1. ASSUME miner = 7, NEW i \in DOMAIN actions
      PROVE  \/ \E j \in DOMAIN graph :
                  /\ graph[j].command = actions[i].command /\ graph[j].kind # actions[i].kind
                  /\ graph[j].score >= actions[i].score
             \/ OfKind(actions[i].kind) # {} /\ WorkloadFor(actions[i].kind).score >= actions[i].score
  <2> DEFINE kind == actions[i].kind
  <2>1. PICK j \in DOMAIN graph : graph[j].command = actions[i].command /\ graph[j].score >= actions[i].score
    BY <1>1, GraphKeeps DEF GraphKeepsTheBest
  <2>2. CASE graph[j].kind # kind
    BY <2>1, <2>2
  <2>3. CASE graph[j].kind = kind
    <3>1. j \in OfKind(kind)
      BY <2>3 DEF OfKind
    <3>2. Best(kind) \in OfKind(kind) /\ graph[j].score <= graph[Best(kind)].score
      BY <3>1, BestIsTop
    <3>3. Best(kind) \in DOMAIN graph
      BY <3>2 DEF OfKind
    <3>4. graph[j].score \in 0 .. 100 /\ graph[Best(kind)].score \in 0 .. 100 /\ actions[i].score \in 0 .. 100
      BY <1>1, <3>3, GraphActions, GraphKeeps DEF PlannerTypeOK
    <3> DEFINE a == actions[i].score
               b == graph[j].score
               c == graph[Best(kind)].score
    <3>5. a \in Nat /\ b \in Nat /\ c \in Nat /\ b >= a /\ b <= c
      BY <2>1, <3>2, <3>4
    <3>6. c >= a
      <4> HIDE DEF a, b, c
      <4> QED
        BY <3>5
    <3> QED
      BY <3>1, <3>6 DEF WorkloadFor
  <2> QED
    BY <2>2, <2>3
<1>2. ASSUME NEW i \in DOMAIN graph, NEW j \in FirstCandidate(graph[i].kind)
      PROVE  graph[j].score = WorkloadFor(graph[i].kind).score
  <2> DEFINE kind == graph[i].kind
             a == graph[j].score
             b == graph[Best(kind)].score
  <2>1. i \in OfKind(kind)
    BY DEF OfKind
  <2>2. Best(kind) \in OfKind(kind) /\ Best(kind) \in Top(kind)
    BY <2>1, BestIsTop
  <2>3. j \in Top(kind) /\ j \in OfKind(kind)
    BY <1>2 DEF FirstCandidate, Top
  <2>4. a <= b /\ b <= a
    BY <2>2, <2>3 DEF Top
  <2>5. a \in 0 .. 100 /\ b \in 0 .. 100
    <3>1. Best(kind) \in DOMAIN graph /\ j \in DOMAIN graph
      BY <2>2, <2>3 DEF OfKind
    <3> QED
      BY <3>1, GraphActions
  <2>6. a = b
    <3> HIDE DEF a, b
    <3> QED
      BY <2>4, <2>5
  <2> QED
    BY <2>6 DEF WorkloadFor
<1> QED
  BY <1>1, <1>2 DEF OffersAreRun

LEMMA SuitesFirst ==
  PInv => SuitesBeforeLinters
<1> SUFFICES ASSUME PInv, OfKind("test") # {}, Adjustment(WorkloadFor("test").command) < 0,
                    NEW i \in OfKind("test"), is_test_runner(graph[i].command),
                    graph[i].source = WorkloadFor("test").source,
                    risk_penalty(graph[i].command) <= risk_penalty(WorkloadFor("test").command)
             PROVE  FALSE
  BY DEF SuitesBeforeLinters
<1> DEFINE w == Best("test")
           base == base_confidence[graph[w].source]
           pi == risk_penalty(graph[i].command)
           pw == risk_penalty(graph[w].command)
           si == graph[i].score
           sw == graph[w].score
<1>1. w \in OfKind("test") /\ si <= sw /\ WorkloadFor("test") = graph[w]
  BY BestIsTop DEF WorkloadFor
<1>2. i \in DOMAIN graph /\ w \in DOMAIN graph /\ graph[i].kind = "test" /\ graph[w].kind = "test"
  BY <1>1 DEF OfKind
<1>3. Adjustment(graph[i].command) = 6 /\ Adjustment(graph[w].command) < 0
  <2>1. Adjustment(graph[i].command) = 6
    BY DEF Adjustment
  <2> QED
    BY <1>1, <2>1
<1>4. Adjustment(graph[w].command) = -6
  <2>1. Adjustment(graph[w].command) \in {6, -6, 0}
    BY <1>2, GraphActions, Scores
  <2> QED
    BY <1>3, <2>1
<1>5. pi \in {0, 40} /\ pw \in {0, 40} /\ pi <= pw
  BY <1>1, <1>2, GraphActions
<1>6. base \in 40 .. 85 /\ graph[i].source = graph[w].source
  BY <1>1, <1>2, GraphActions, Scores
<1>7. si = AtLeastZero(base + 6 - pi)
  BY <1>2, <1>3, <1>6, GraphActions
<1>8. sw = AtLeastZero(base + (-6) - pw)
  BY <1>2, <1>4, GraphActions
<1> HIDE DEF base, pi, pw, si, sw
<1> QED
  BY <1>1, <1>5, <1>6, <1>7, <1>8 DEF AtLeastZero

\* The graph of the planner loses no command and no score, and holds what it
\* makes its actions wait for: what plan() returns, for any repository, any
\* commands and any recipes.
THEOREM GraphSound ==
  PlannerSpec => []GraphIsSound
<1>1. PInv => GraphIsSound
  BY GraphKeeps, PrerequisitesAreThere DEF GraphIsSound
<1> QED
  BY PInvInit, PInvNext, <1>1, PTL DEF PlannerSpec

\* What is run for a kind of workload is the best that any source offered for it,
\* and never a linter where a suite stands beside it: best() and candidates().
THEOREM BestRun ==
  PlannerSpec => []RunsTheBest
<1>1. PInv => RunsTheBest
  BY BestIsRun, SuitesFirst DEF RunsTheBest
<1> QED
  BY PInvInit, PInvNext, <1>1, PTL DEF PlannerSpec

-----------------------------------------------------------------------------
(* The inventory: what the scanners read, and what merging makes of it.     *)

Scopes == {"runtime", "dev", "build", "unknown"}
Entry1 == [ecosystem : {Ecosystem(kind) : kind \in STRING}, name : STRING, version : Nat, scope : Scopes,
           direct : BOOLEAN, declared : BOOLEAN, resolved : BOOLEAN, source : Nat]

\* What a rule says: only a manifest is direct, and what is not direct pins.
Says(says) ==
  /\ says \in [scope : Scopes, direct : BOOLEAN, resolved : BOOLEAN, pins : BOOLEAN]
  /\ says.direct => ~ says.resolved
  /\ ~ says.direct => says.pins

LEMMA RulesSay ==
  \A rule \in Scanner : Says(rule.says)
<1> DEFINE all == {Ranged(scope) : scope \in Scopes} \cup {Pinned(scope) : scope \in Scopes}
                  \cup {Locked, [Pinned("unknown") EXCEPT !.direct = FALSE], [Locked EXCEPT !.scope = "dev"]}
<1>1. \A scope \in Scopes : Says(Ranged(scope))
  BY DEF Says, Ranged
<1>2. \A scope \in Scopes : Says(Pinned(scope))
  BY DEF Says, Pinned, Ranged
<1>3. Says(Locked)
  BY DEF Says, Locked, Scopes
<1>4. Says([Pinned("unknown") EXCEPT !.direct = FALSE])
  BY DEF Says, Pinned, Ranged, Scopes
<1>5. Says([Locked EXCEPT !.scope = "dev"])
  BY DEF Says, Locked, Scopes
<1>6. \A says \in all : Says(says)
  BY <1>1, <1>2, <1>3, <1>4, <1>5
<1>7. \A rule \in cargo : rule.says \in all
  BY DEF cargo, Rule, Scopes
<1>8. \A rule \in node : rule.says \in all
  BY DEF node, Rule, Scopes
<1>9. \A rule \in python : rule.says \in all
  BY DEF python, Rule, Scopes
<1>10. \A rule \in golang : rule.says \in all
  BY DEF golang, Rule, Scopes
<1>11. \A rule \in java : rule.says \in all
  BY DEF java, Rule, Scopes
<1>12. \A rule \in ruby : rule.says \in all
  BY DEF ruby, Rule, Scopes
<1>13. \A rule \in php : rule.says \in all
  BY DEF php, Rule, Scopes
<1> HIDE DEF all
<1> QED
  BY <1>6, <1>7, <1>8, <1>9, <1>10, <1>11, <1>12, <1>13 DEF Scanner

\* What a scanner makes of an entry it can read.
Read1(c) ==
  /\ c \in Entry1
  /\ c.declared <=> ~ c.resolved
  /\ c.direct => c.declared
  /\ ~ c.direct => c.version # Unpinned

LEMMA ComponentRead ==
  ASSUME NEW kind \in STRING, NEW path \in Nat,
         NEW entry \in [section : STRING, name : STRING, version : Nat], Parses(kind, entry)
  PROVE  Read1(Component(kind, entry, path)) /\ Component(kind, entry, path).source = path
<1> DEFINE rule == (CHOOSE r \in RulesFor(kind, entry.section) : TRUE)
           says == rule.says
           eco == Ecosystem(kind)
           version == IF says.pins THEN entry.version ELSE Unpinned
<1>1. rule \in RulesFor(kind, entry.section)
  BY DEF Parses
<1>2. Says(says) /\ (says.direct \/ entry.version # Unpinned)
  BY <1>1, RulesSay DEF RulesFor, Parses
<1>3. Component(kind, entry, path) =
        [ecosystem |-> eco, name |-> entry.name, version |-> version,
         scope |-> says.scope, direct |-> says.direct,
         declared |-> ~ says.resolved, resolved |-> says.resolved, source |-> path]
  BY DEF Component
<1>4. eco \in {Ecosystem(k) : k \in STRING}
  OBVIOUS
<1> HIDE DEF says, eco
<1>5. version \in Nat /\ (~ says.direct => version # Unpinned)
  BY <1>2 DEF Unpinned, Says
<1> HIDE DEF version
<1>6. says.scope \in Scopes /\ says.direct \in BOOLEAN /\ says.resolved \in BOOLEAN /\ (says.direct => ~ says.resolved)
  BY <1>2 DEF Says
<1> DEFINE c == Component(kind, entry, path)
<1> HIDE DEF c
<1>7. c = [ecosystem |-> eco, name |-> entry.name, version |-> version,
           scope |-> says.scope, direct |-> says.direct,
           declared |-> ~ says.resolved, resolved |-> says.resolved, source |-> path]
  BY <1>3 DEF c
<1>8. c \in Entry1
  BY <1>4, <1>5, <1>6, <1>7 DEF Entry1
<1>9. /\ c.declared = (~ says.resolved) /\ c.resolved = says.resolved /\ c.direct = says.direct
      /\ c.version = version /\ c.source = path
  BY <1>7
<1>10. Read1(c)
  BY <1>5, <1>6, <1>8, <1>9 DEF Read1
<1> QED
  BY <1>9, <1>10 DEF c

\* The files of a repository that a scanner reads, each once.
Read2(source) == {path \in DOMAIN source : source[path].kind \in ManifestKind}

LEMMA ScannedFiles ==
  ASSUME NEW source \in Repositories
  PROVE  Lists(Read2(source), scanned_files(source))
<1> DEFINE S == Read2(source)
           place(p) == Place(source[p].kind)
           below == [q \in S |-> {p \in S : place(p) < place(q) \/ (source[p].kind = source[q].kind /\ p < q)}]
           major == [p \in S |-> place(p)]
           minor == [p \in S |-> p]
           seq == scanned_files(source)
           N == Cardinality(S)
           At(n) == CHOOSE x \in S :
              Cardinality({y \in S : \/ place(y) < place(x)
                                     \/ (source[y].kind = source[x].kind /\ y < x)}) = n - 1
<1>1. DOMAIN source \subseteq Nat /\ IsFiniteSet(DOMAIN source)
  BY RepositoryAssumption
<1>2. IsFiniteSet(S) /\ S \subseteq DOMAIN source
  <2>1. S \subseteq DOMAIN source
    BY DEF Read2
  <2> HIDE DEF S
  <2>2. IsFiniteSet(S)
    BY <1>1, <2>1, FS_Subset
  <2> QED
    BY <2>1, <2>2
<1>3. \A kind \in ManifestKind : Place(kind) \in DOMAIN ScanOrder /\ ScanOrder[Place(kind)] = kind
  BY DEF ManifestKind, Place
<1>4. \A kind \in ManifestKind : Place(kind) \in Nat
  <2>1. \A n \in DOMAIN ScanOrder : n \in Nat
    BY DEF ScanOrder
  <2> QED
    BY <1>3, <2>1
<1>5. \A p \in S : source[p].kind \in ManifestKind /\ p \in Nat /\ place(p) \in Nat
  BY <1>1, <1>4 DEF Read2
<1>6. \A p, q \in S : place(p) = place(q) => source[p].kind = source[q].kind
  BY <1>3, <1>5
<1>7. seq = [n \in 1 .. N |-> At(n)]
  BY DEF scanned_files, InOrder, Read2
<1> HIDE DEF S, seq
<1>8. \A x \in S :
        below[x] = {y \in S : place(y) < place(x) \/ (source[y].kind = source[x].kind /\ y < x)}
  OBVIOUS
<1>9. major \in [S -> Nat] /\ minor \in [S -> Nat]
  BY <1>5
<1>10. \A x, y \in S : major[x] = major[y] /\ minor[x] = minor[y] => x = y
  OBVIOUS
<1>11. below \in [S -> SUBSET S]
  OBVIOUS
<1>12. \A x, y \in S :
        y \in below[x] <=> major[y] < major[x] \/ (major[y] = major[x] /\ minor[y] < minor[x])
  <2>1. TAKE x, y \in S
  <2>2. major[x] = place(x) /\ major[y] = place(y) /\ minor[x] = x /\ minor[y] = y
    OBVIOUS
  <2>3. y \in below[x] <=> place(y) < place(x) \/ (source[y].kind = source[x].kind /\ y < x)
    BY <1>8
  <2>4. source[y].kind = source[x].kind <=> place(y) = place(x)
    BY <1>6
  <2> HIDE DEF major, minor, below, place
  <2> QED
    BY <2>2, <2>3, <2>4
<1>13. \E f : seq = [n \in 1 .. N |-> f[n]]
  <2> HIDE DEF N, At
  <2>1. seq = [n \in 1 .. N |-> seq[n]]
    BY <1>7
  <2> QED
    BY <2>1, Zenon
<1> HIDE DEF below, major, minor
<1>14. \A n \in 1 .. N : (\E x \in S : Cardinality(below[x]) = n - 1) =>
          seq[n] \in S /\ Cardinality(below[seq[n]]) = n - 1
  <2>1. TAKE n \in 1 .. N
  <2>2. HAVE \E x \in S : Cardinality(below[x]) = n - 1
  <2> DEFINE P(x) == Cardinality({y \in S : \/ place(y) < place(x)
                                            \/ (source[y].kind = source[x].kind /\ y < x)}) = n - 1
  <2>3. \E x \in S : P(x)
    BY <1>8, <2>2
  <2>4. seq[n] = CHOOSE x \in S : P(x)
    BY <1>7, <2>1
  <2>5. seq[n] \in S /\ P(seq[n])
    <3> HIDE DEF P
    <3> QED
      BY <2>3, <2>4
  <2> QED
    BY <1>8, <2>5
<1>15. Below(S, major, minor, below)
  BY <1>2, <1>9, <1>10, <1>11, <1>12 DEF Below
<1>16. Places(S, below, seq)
  BY <1>13, <1>14 DEF Places
<1>17. Lists(S, seq)
  BY <1>15, <1>16, KeysInOrder
<1> QED
  BY <1>17 DEF S, seq

\* Every component read was read of an entry, and names a scanned file.
LEMMA ComponentsRead ==
  ASSUME NEW source \in Repositories
  PROVE  ComponentsOf(source) \in Seq({c \in Entry1 : Read1(c) /\ c.source \in Range(scanned_files(source))})
<1> DEFINE files == scanned_files(source)
           T == {c \in Entry1 : Read1(c) /\ c.source \in Range(files)}
           lists == [n \in DOMAIN files |-> PackagesIn(source[files[n]], files[n])]
<1>1. files \in Seq(Read2(source)) /\ Range(files) = Read2(source)
  BY ScannedFiles DEF Lists
<1>2. ComponentsOf(source) = FlattenSeq(lists)
  BY DEF ComponentsOf
<1> HIDE DEF files
<1>3. DOMAIN files = 1 .. Len(files) /\ Len(files) \in Nat /\ \A n \in DOMAIN files : files[n] \in Read2(source)
  BY <1>1, InRange
<1>4. ASSUME NEW n \in DOMAIN files
      PROVE  PackagesIn(source[files[n]], files[n]) \in Seq(T)
  <2> DEFINE path == files[n]
             file == source[path]
             list == PackagesIn(file, path)
  <2>1. path \in DOMAIN source /\ path \in Nat /\ file.kind \in ManifestKind
    BY <1>3, RepositoryAssumption DEF Read2
  <2>2. file \in RepositoryFile /\ \A i \in DOMAIN file.packages : Parses(file.kind, file.packages[i])
    BY <2>1, RepositoryAssumption
  <2>3. file.kind \in STRING /\ file.packages \in Seq([section : STRING, name : STRING, version : Nat])
    BY <2>2 DEF RepositoryFile
  <2>4. /\ DOMAIN file.packages = 1 .. Len(file.packages) /\ Len(file.packages) \in Nat
        /\ \A i \in DOMAIN file.packages : file.packages[i] \in [section : STRING, name : STRING, version : Nat]
    <3> DEFINE packages == file.packages
               U == [section : STRING, name : STRING, version : Nat]
    <3>1. packages \in Seq(U)
      BY <2>3
    <3> HIDE DEF packages, U
    <3>2. /\ DOMAIN packages = 1 .. Len(packages) /\ Len(packages) \in Nat
          /\ \A i \in DOMAIN packages : packages[i] \in U
      BY <3>1, InRange
    <3> QED
      BY <3>2 DEF packages, U
  <2>5. path \in Range(files)
    BY <1>1, InRange
  <2>6. list = [i \in DOMAIN file.packages |-> Component(file.kind, file.packages[i], path)]
    BY DEF PackagesIn
  <2>7. \A i \in DOMAIN file.packages : Component(file.kind, file.packages[i], path) \in T
    <3>1. TAKE i \in DOMAIN file.packages
    <3>2. /\ Read1(Component(file.kind, file.packages[i], path))
          /\ Component(file.kind, file.packages[i], path).source = path
      BY <2>1, <2>2, <2>3, <2>4, ComponentRead
    <3> QED
      BY <2>5, <3>2 DEF Read1
  <2> HIDE DEF list, file, path, T
  <2>8. list \in [1 .. Len(file.packages) -> T]
    BY <2>4, <2>6, <2>7
  <2>9. list \in Seq(T)
    BY <2>4, <2>8, SeqDef
  <2> QED
    BY <2>9 DEF list, file, path
<1>5. lists \in Seq(Seq(T))
  <2> HIDE DEF T
  <2>1. lists \in [1 .. Len(files) -> Seq(T)]
    BY <1>3, <1>4
  <2> HIDE DEF lists
  <2> QED
    BY <1>3, <2>1, SeqDef
<1> HIDE DEF T, lists
<1>6. FlattenSeq(lists) \in Seq(T)
  BY <1>5, Flattened
<1> QED
  BY <1>2, <1>6 DEF T, files

\* What merging the entries of one version of one package gives.
MergedOf(list, c) ==
  /\ c \in Entry1
  /\ \E j \in Of(list, c) : c.source = list[j].source
  /\ c.resolved <=> \E j \in Of(list, c) : list[j].resolved
  /\ c.declared <=> \E j \in Of(list, c) : list[j].declared
  /\ c.direct <=> \E j \in Of(list, c) : list[j].direct
  /\ \/ c.scope # "unknown" /\ \E j \in Of(list, c) : list[j].scope = c.scope
     \/ c.scope = "unknown" /\ \A j \in Of(list, c) : list[j].scope = "unknown"

LEMMA FirstScopeOf ==
  ASSUME NEW list \in Seq(Entry1), NEW same \in SUBSET (DOMAIN list)
  PROVE  \/ FirstScope(list, same) \in Scopes \ {"unknown"} /\ \E j \in same : list[j].scope = FirstScope(list, same)
         \/ FirstScope(list, same) = "unknown" /\ \A j \in same : list[j].scope = "unknown"
<1> DEFINE scoped == {i \in same : list[i].scope # "unknown"}
<1>1. FirstScope(list, same) = IF scoped = {} THEN "unknown" ELSE list[Minimum(scoped)].scope
  BY DEF FirstScope
<1>2. CASE scoped = {}
  BY <1>1, <1>2
<1>3. CASE scoped # {}
  <2>1. scoped \in SUBSET Nat
    <3>1. DOMAIN list = 1 .. Len(list) /\ Len(list) \in Nat
      BY InRange
    <3>2. scoped \subseteq DOMAIN list /\ DOMAIN list \subseteq Nat
      BY <3>1
    <3> HIDE DEF scoped
    <3> QED
      BY <3>2
  <2>2. Minimum(scoped) \in scoped
    <3> HIDE DEF scoped
    <3> QED
      BY <1>3, <2>1, MinimumIsLeast
  <2>3. Minimum(scoped) \in same /\ list[Minimum(scoped)].scope # "unknown"
    BY <2>2
  <2>4. list[Minimum(scoped)].scope \in Scopes
    <3>1. list[Minimum(scoped)] \in Entry1
      BY <2>3, InRange
    <3> QED
      BY <3>1 DEF Entry1
  <2> QED
    BY <1>1, <1>3, <2>3, <2>4
<1> QED
  BY <1>2, <1>3

LEMMA MergedAtIs ==
  ASSUME NEW list \in Seq(Entry1), NEW i \in DOMAIN list
  PROVE  /\ MergedOf(list, MergedAt(list, i))
         /\ SamePackage(list[i], MergedAt(list, i)) /\ MergedAt(list, i).version = list[i].version
<1> DEFINE same == Of(list, list[i])
           first == list[Minimum(same)]
           c == MergedAt(list, i)
           scope == FirstScope(list, same)
           direct == \E j \in same : list[j].direct
           declared == \E j \in same : list[j].declared
           resolved == \E j \in same : list[j].resolved
<1>1. /\ \A j \in DOMAIN list : list[j] \in Entry1
      /\ DOMAIN list \subseteq Nat
  <2>1. DOMAIN list = 1 .. Len(list) /\ Len(list) \in Nat /\ \A j \in DOMAIN list : list[j] \in Entry1
    BY InRange
  <2> QED
    BY <2>1
<1>2. i \in same /\ same \subseteq DOMAIN list
  BY DEF Of, SamePackage
<1>3. Minimum(same) \in same
  <2>1. same \in SUBSET Nat /\ same # {}
    BY <1>1, <1>2
  <2> HIDE DEF same
  <2> QED
    BY <2>1, MinimumIsLeast
<1>4. \A j \in same : list[j].ecosystem = list[i].ecosystem /\ list[j].name = list[i].name
                     /\ list[j].version = list[i].version
  BY DEF Of, SamePackage
<1>5. first \in Entry1
  BY <1>1, <1>2, <1>3
<1>6. c = [first EXCEPT !.scope = scope, !.direct = direct, !.declared = declared, !.resolved = resolved]
  BY DEF MergedAt
<1>7. \/ scope \in Scopes \ {"unknown"} /\ \E j \in same : list[j].scope = scope
      \/ scope = "unknown" /\ \A j \in same : list[j].scope = "unknown"
  BY <1>2, FirstScopeOf
<1>8. scope \in Scopes
  BY <1>7 DEF Scopes
<1>9. direct \in BOOLEAN /\ declared \in BOOLEAN /\ resolved \in BOOLEAN
  OBVIOUS
<1>10. first.ecosystem = list[i].ecosystem /\ first.name = list[i].name /\ first.version = list[i].version
  BY <1>3, <1>4
<1> HIDE DEF same, first, c, scope, direct, declared, resolved
<1>11. /\ c \in Entry1 /\ c.ecosystem = first.ecosystem /\ c.name = first.name /\ c.version = first.version
       /\ c.source = first.source /\ c.scope = scope
  BY <1>5, <1>6, <1>8, <1>9 DEF Entry1
<1>12. c.direct = direct /\ c.declared = declared /\ c.resolved = resolved
  BY <1>5, <1>6, <1>8, <1>9 DEF Entry1
<1>13. Of(list, c) = same
  BY <1>10, <1>11 DEF Of, SamePackage, same
<1>14. c.resolved <=> \E j \in same : list[j].resolved
  BY <1>12 DEF resolved
<1>15. c.declared <=> \E j \in same : list[j].declared
  BY <1>12 DEF declared
<1>16. c.direct <=> \E j \in same : list[j].direct
  BY <1>12 DEF direct
<1>17. \E j \in same : c.source = list[j].source
  BY <1>3, <1>11 DEF first
<1>18. \/ c.scope # "unknown" /\ \E j \in same : list[j].scope = c.scope
       \/ c.scope = "unknown" /\ \A j \in same : list[j].scope = "unknown"
  BY <1>7, <1>11
<1>19. MergedOf(list, c)
  BY <1>11, <1>13, <1>14, <1>15, <1>16, <1>17, <1>18 DEF MergedOf
<1>20. SamePackage(list[i], c) /\ c.version = list[i].version
  BY <1>10, <1>11 DEF SamePackage
<1> QED
  BY <1>19, <1>20 DEF c

\* One component for each version of a package.
LEMMA MergedOnce ==
  ASSUME NEW list \in Seq(Entry1), NEW c \in Merged(list), NEW d \in Merged(list),
         SamePackage(c, d), c.version = d.version
  PROVE  c = d
<1> DEFINE M(same) == [list[Minimum(same)] EXCEPT !.scope = FirstScope(list, same),
                                                  !.direct = \E j \in same : list[j].direct,
                                                  !.declared = \E j \in same : list[j].declared,
                                                  !.resolved = \E j \in same : list[j].resolved]
<1>1. PICK i \in DOMAIN list : c = MergedAt(list, i)
  BY DEF Merged
<1>2. PICK j \in DOMAIN list : d = MergedAt(list, j)
  BY DEF Merged
<1>3. c = M(Of(list, list[i])) /\ d = M(Of(list, list[j]))
  BY <1>1, <1>2 DEF MergedAt
<1> HIDE DEF M
<1>4. /\ SamePackage(list[i], c) /\ c.version = list[i].version
      /\ SamePackage(list[j], d) /\ d.version = list[j].version
  BY <1>1, <1>2, MergedAtIs
<1>5. Of(list, list[i]) = Of(list, list[j])
  BY <1>4 DEF Of, SamePackage
<1> QED
  BY <1>3, <1>5

\* The entries that name a component: its version, or none.
NamedIn(list, x) == {j \in DOMAIN list : SamePackage(list[j], x) /\ list[j].version \in {x.version, Unpinned}}

AgreesWith(list, x) ==
  /\ x.resolved <=> \E j \in NamedIn(list, x) : list[j].resolved /\ list[j].version = x.version
  /\ x.declared <=> \E j \in NamedIn(list, x) : list[j].declared
  /\ x.direct <=> \E j \in NamedIn(list, x) : list[j].direct
  /\ \/ x.scope # "unknown" /\ \E j \in NamedIn(list, x) : list[j].scope = x.scope
     \/ x.scope = "unknown" /\ \A j \in NamedIn(list, x) : list[j].scope = "unknown"
  /\ \E j \in NamedIn(list, x) : x.source = list[j].source

\* An entry without a version that a component takes over, and what it says.
LEMMA TakenOver ==
  ASSUME NEW list \in Seq(Entry1), \A j \in DOMAIN list : Read1(list[j]),
         NEW c \in Merged(list)
  PROVE  /\ \A d \in Declared(Merged(list), c) :
              MergedOf(list, d) /\ Of(list, d) = {j \in DOMAIN list : SamePackage(list[j], c) /\ list[j].version = Unpinned}
         /\ \A j \in DOMAIN list :
              SamePackage(list[j], c) /\ list[j].version = Unpinned => Declared(Merged(list), c) # {}
<1>1. Declared(Merged(list), c) =
        {d \in Merged(list) : SamePackage(c, d) /\ d.version = Unpinned /\ d.declared}
  BY DEF Declared, Versionless
<1>2. ASSUME NEW d \in Declared(Merged(list), c)
      PROVE  MergedOf(list, d) /\ Of(list, d) = {j \in DOMAIN list : SamePackage(list[j], c) /\ list[j].version = Unpinned}
  <2>1. PICK i \in DOMAIN list : d = MergedAt(list, i)
    BY <1>1 DEF Merged
  <2>2. MergedOf(list, d)
    BY <2>1, MergedAtIs
  <2>3. SamePackage(c, d) /\ d.version = Unpinned
    BY <1>1
  <2> QED
    BY <2>2, <2>3 DEF Of, SamePackage
<1>3. ASSUME NEW j \in DOMAIN list, SamePackage(list[j], c), list[j].version = Unpinned
      PROVE  Declared(Merged(list), c) # {}
  <2> DEFINE d == MergedAt(list, j)
  <2>1. MergedOf(list, d) /\ SamePackage(list[j], d) /\ d.version = Unpinned
    BY <1>3, MergedAtIs
  <2>2. d \in Merged(list)
    BY DEF Merged
  <2> HIDE DEF d
  <2>3. j \in Of(list, d)
    BY <1>3, <2>1 DEF Of
  <2>4. list[j].declared
    BY <1>3 DEF Read1
  <2>5. d.declared
    BY <2>1, <2>3, <2>4 DEF MergedOf
  <2>6. SamePackage(c, d)
    BY <1>3, <2>1 DEF SamePackage
  <2> QED
    BY <1>1, <2>1, <2>2, <2>5, <2>6
<1> QED
  BY <1>2, <1>3

LEMMA ComponentAgrees ==
  ASSUME NEW list \in Seq(Entry1), \A j \in DOMAIN list : Read1(list[j]),
         NEW c \in Merged(list)
  PROVE  /\ AgreesWith(list, TakesOver(Merged(list), c))
         /\ SamePackage(c, TakesOver(Merged(list), c)) /\ TakesOver(Merged(list), c).version = c.version
<1> DEFINE x == TakesOver(Merged(list), c)
           taken == Declared(Merged(list), c)
           d == CHOOSE e \in taken : TRUE
           free == {j \in DOMAIN list : SamePackage(list[j], c) /\ list[j].version = Unpinned}
           scope == IF c.scope = "unknown" THEN d.scope ELSE c.scope
<1>1. MergedOf(list, c)
  <2>1. PICK i \in DOMAIN list : c = MergedAt(list, i)
    BY DEF Merged
  <2> QED
    BY <2>1, MergedAtIs
<1>2. \A e \in taken : MergedOf(list, e) /\ Of(list, e) = free
  BY TakenOver
<1>3. \A j \in free : taken # {}
  BY TakenOver
<1>4. x = IF taken = {} THEN c ELSE [c EXCEPT !.declared = TRUE, !.direct = TRUE, !.scope = scope]
  BY DEF TakesOver
<1>5. taken # {} => d \in taken
  OBVIOUS
<1> HIDE DEF taken, d, x
<1>6. Of(list, c) = {j \in DOMAIN list : SamePackage(list[j], c) /\ list[j].version = c.version}
  BY DEF Of
<1>7. CASE taken = {}
  <2>1. x = c /\ free = {}
    BY <1>3, <1>4, <1>7
  <2>2. NamedIn(list, x) = Of(list, c)
    BY <1>6, <2>1 DEF NamedIn
  <2>3. \A j \in Of(list, c) : list[j].version = c.version
    BY <1>6
  <2>4. AgreesWith(list, x)
    BY <1>1, <2>1, <2>2, <2>3 DEF AgreesWith, MergedOf
  <2> QED
    BY <2>1, <2>4 DEF SamePackage, x
<1>8. CASE taken # {}
  <2>1. x = [c EXCEPT !.declared = TRUE, !.direct = TRUE, !.scope = scope] /\ c \in Entry1
    BY <1>1, <1>4, <1>8 DEF MergedOf
  <2> HIDE DEF scope
  <2>2. /\ x.ecosystem = c.ecosystem /\ x.name = c.name /\ x.version = c.version /\ x.source = c.source
        /\ x.scope = scope
    BY <2>1 DEF Entry1
  <2>3. x.declared = TRUE /\ x.direct = TRUE /\ x.resolved = c.resolved
    BY <2>1 DEF Entry1
  <2>4. NamedIn(list, x) = Of(list, c) \cup free
    BY <1>6, <2>2 DEF NamedIn, SamePackage
  <2>5. MergedOf(list, d) /\ Of(list, d) = free
    BY <1>2, <1>5, <1>8
  <2>6. d.version = Unpinned /\ d.declared
    BY <1>5, <1>8 DEF taken, Declared, Versionless
  <2>7. PICK k \in free : list[k].declared
    BY <2>5, <2>6 DEF MergedOf
  <2>8. list[k].direct
    BY <2>7 DEF Read1
  <2>9. \A j \in free : ~ list[j].resolved
    <3>1. TAKE j \in free
    <3>2. Read1(list[j]) /\ list[j].version = Unpinned
      OBVIOUS
    <3> QED
      BY <3>2 DEF Read1
  <2>10. x.resolved <=> \E j \in NamedIn(list, x) : list[j].resolved /\ list[j].version = x.version
    <3>1. c.resolved <=> \E j \in Of(list, c) : list[j].resolved
      BY <1>1 DEF MergedOf
    <3>2. \A j \in Of(list, c) : list[j].version = x.version
      BY <1>6, <2>2
    <3> HIDE DEF free
    <3> QED
      BY <2>3, <2>4, <2>9, <3>1, <3>2
  <2>11. x.declared <=> \E j \in NamedIn(list, x) : list[j].declared
    BY <2>3, <2>4, <2>7
  <2>12. x.direct <=> \E j \in NamedIn(list, x) : list[j].direct
    BY <2>3, <2>4, <2>7, <2>8
  <2>13. \/ x.scope # "unknown" /\ \E j \in NamedIn(list, x) : list[j].scope = x.scope
         \/ x.scope = "unknown" /\ \A j \in NamedIn(list, x) : list[j].scope = "unknown"
    <3>1. \/ c.scope # "unknown" /\ \E j \in Of(list, c) : list[j].scope = c.scope
          \/ c.scope = "unknown" /\ \A j \in Of(list, c) : list[j].scope = "unknown"
      BY <1>1 DEF MergedOf
    <3>2. \/ d.scope # "unknown" /\ \E j \in free : list[j].scope = d.scope
          \/ d.scope = "unknown" /\ \A j \in free : list[j].scope = "unknown"
      BY <2>5 DEF MergedOf
    <3> HIDE DEF free
    <3> QED
      BY <2>2, <2>4, <3>1, <3>2 DEF scope
  <2>14. \E j \in NamedIn(list, x) : x.source = list[j].source
    BY <1>1, <2>2, <2>4 DEF MergedOf
  <2>15. AgreesWith(list, x)
    BY <2>10, <2>11, <2>12, <2>13, <2>14 DEF AgreesWith
  <2> QED
    BY <2>2, <2>15 DEF SamePackage, x
<1> QED
  BY <1>7, <1>8 DEF x

\* What merge_components makes of a list: every entry is named, one component for
\* a version or none, and each says what its entries say.
LEMMA MergedComponents ==
  ASSUME NEW list \in Seq(Entry1), \A j \in DOMAIN list : Read1(list[j])
  PROVE  /\ \A x \in merge_components(list) : AgreesWith(list, x)
         /\ \A j \in DOMAIN list : \E x \in merge_components(list) :
              SamePackage(list[j], x) /\ list[j].version \in {x.version, Unpinned}
         /\ \A x, y \in merge_components(list) :
              SamePackage(x, y) /\ x.version \in {y.version, Unpinned} => x = y
<1> DEFINE merged == Merged(list)
           kept == {c \in merged : c.version # Unpinned \/ ~ Versioned(merged, c)}
           F(c) == TakesOver(merged, c)
           comps == merge_components(list)
<1>1. comps = {F(c) : c \in kept}
  BY DEF merge_components
<1>2. ASSUME NEW c \in merged
      PROVE  AgreesWith(list, F(c)) /\ SamePackage(c, F(c)) /\ F(c).version = c.version
  BY ComponentAgrees
<1> HIDE DEF F, comps
<1>3. \A x \in comps : \E c \in kept : x = F(c)
  BY <1>1
<1>4. \A c \in kept : F(c) \in comps
  BY <1>1
<1>5. \A x \in comps : AgreesWith(list, x)
  BY <1>2, <1>3
<1>6. ASSUME NEW j \in DOMAIN list
      PROVE  \E x \in comps : SamePackage(list[j], x) /\ list[j].version \in {x.version, Unpinned}
  <2> DEFINE c == MergedAt(list, j)
  <2>1. c \in merged /\ SamePackage(list[j], c) /\ c.version = list[j].version
    BY MergedAtIs DEF Merged
  <2> HIDE DEF c, merged
  <2>2. CASE c.version # Unpinned \/ ~ Versioned(merged, c)
    <3>1. F(c) \in comps /\ SamePackage(c, F(c)) /\ F(c).version = c.version
      BY <1>2, <1>4, <2>1, <2>2
    <3> QED
      BY <2>1, <3>1 DEF SamePackage
  <2>3. CASE ~ (c.version # Unpinned \/ ~ Versioned(merged, c))
    <3>1. PICK d \in merged : SamePackage(c, d) /\ d.version # Unpinned
      BY <2>3 DEF Versioned
    <3>2. F(d) \in comps /\ SamePackage(d, F(d))
      BY <1>2, <1>4, <3>1
    <3>3. SamePackage(list[j], F(d))
      BY <2>1, <3>1, <3>2 DEF SamePackage
    <3> QED
      BY <2>1, <2>3, <3>2, <3>3
  <2> QED
    BY <2>2, <2>3
<1>7. ASSUME NEW x \in comps, NEW y \in comps, SamePackage(x, y), x.version \in {y.version, Unpinned}
      PROVE  x = y
  <2>1. PICK c \in kept : x = F(c)
    BY <1>3
  <2>2. PICK d \in kept : y = F(d)
    BY <1>3
  <2>3. /\ SamePackage(c, x) /\ x.version = c.version /\ SamePackage(d, y) /\ y.version = d.version
        /\ c \in merged /\ d \in merged
    BY <1>2, <2>1, <2>2
  <2>4. SamePackage(c, d)
    BY <1>7, <2>3 DEF SamePackage
  <2>5. CASE x.version = y.version
    <3>1. c.version = d.version
      BY <2>3, <2>5
    <3>2. c = d
      BY <2>3, <2>4, <3>1, MergedOnce
    <3> QED
      BY <2>1, <2>2, <3>2
  <2>6. CASE x.version # y.version
    <3>1. c.version = Unpinned /\ d.version # Unpinned
      BY <1>7, <2>3, <2>6
    <3>2. Versioned(merged, c)
      BY <2>3, <2>4, <3>1 DEF Versioned
    <3> QED
      BY <2>1, <3>1, <3>2
  <2> QED
    BY <2>5, <2>6
<1> QED
  BY <1>5, <1>6, <1>7 DEF comps

\* The components of a repository, as the property puts it.
LEMMA InventoryOf ==
  ASSUME NEW source \in Repositories
  PROVE  LET read == ComponentsOf(source)
             all  == {read[n] : n \in DOMAIN read}
             comps == merge_components(read)
             Named(c) == {p \in all : SamePackage(p, c) /\ p.version \in {c.version, Unpinned}}
             Scopes1(c) == {p.scope : p \in Named(c)} \ {"unknown"}
         IN  /\ \A p \in all : \E c \in comps : SamePackage(p, c) /\ p.version \in {c.version, Unpinned}
             /\ \A c, d \in comps : SamePackage(c, d) /\ c.version \in {d.version, Unpinned} => c = d
             /\ \A c \in comps :
                  /\ c.resolved <=> \E p \in Named(c) : p.resolved /\ p.version = c.version
                  /\ c.declared <=> \E p \in Named(c) : p.declared
                  /\ c.direct <=> \E p \in Named(c) : p.direct
                  /\ c.scope \in Scopes1(c) \/ (c.scope = "unknown" /\ Scopes1(c) = {})
                  /\ \E p \in Named(c) : c.source = p.source
                  /\ c.source \in Range(scanned_files(source))
<1> DEFINE read == ComponentsOf(source)
           all  == {read[n] : n \in DOMAIN read}
           comps == merge_components(read)
           Named(c) == {p \in all : SamePackage(p, c) /\ p.version \in {c.version, Unpinned}}
           Scopes1(c) == {p.scope : p \in Named(c)} \ {"unknown"}
           files == Range(scanned_files(source))
<1>1. read \in Seq({c \in Entry1 : Read1(c) /\ c.source \in files})
  BY ComponentsRead
<1> HIDE DEF read, files
<1>2. /\ \A j \in DOMAIN read : read[j] \in {c \in Entry1 : Read1(c) /\ c.source \in files}
      /\ DOMAIN read = 1 .. Len(read) /\ Len(read) \in Nat
  BY <1>1, InRange
<1>3. read \in Seq(Entry1) /\ \A j \in DOMAIN read : Read1(read[j]) /\ read[j].source \in files
  <2>1. read \in Seq(Entry1)
    BY <1>1, SeqMonotonic
  <2> QED
    BY <1>2, <2>1
<1> HIDE DEF comps
<1>4. /\ \A x \in comps : AgreesWith(read, x)
      /\ \A j \in DOMAIN read : \E x \in comps :
           SamePackage(read[j], x) /\ read[j].version \in {x.version, Unpinned}
      /\ \A x, y \in comps :
           SamePackage(x, y) /\ x.version \in {y.version, Unpinned} => x = y
  BY <1>3, MergedComponents DEF comps
<1>5. ASSUME NEW c \in comps
      PROVE  /\ c.resolved <=> \E p \in Named(c) : p.resolved /\ p.version = c.version
             /\ c.declared <=> \E p \in Named(c) : p.declared
             /\ c.direct <=> \E p \in Named(c) : p.direct
             /\ c.scope \in Scopes1(c) \/ (c.scope = "unknown" /\ Scopes1(c) = {})
             /\ \E p \in Named(c) : c.source = p.source
             /\ c.source \in files
  <2>1. AgreesWith(read, c)
    BY <1>4
  <2>2. \A j \in NamedIn(read, c) : read[j] \in Named(c)
    BY DEF NamedIn
  <2>3. \A p \in Named(c) : \E j \in NamedIn(read, c) : p = read[j]
    BY DEF NamedIn
  <2> HIDE DEF Named
  <2>4. c.resolved <=> \E p \in Named(c) : p.resolved /\ p.version = c.version
    BY <2>1, <2>2, <2>3 DEF AgreesWith
  <2>5. c.declared <=> \E p \in Named(c) : p.declared
    BY <2>1, <2>2, <2>3 DEF AgreesWith
  <2>6. c.direct <=> \E p \in Named(c) : p.direct
    BY <2>1, <2>2, <2>3 DEF AgreesWith
  <2>7. c.scope \in Scopes1(c) \/ (c.scope = "unknown" /\ Scopes1(c) = {})
    BY <2>1, <2>2, <2>3 DEF AgreesWith
  <2>8. PICK j \in NamedIn(read, c) : c.source = read[j].source
    BY <2>1 DEF AgreesWith
  <2>9. c.source \in files
    BY <1>3, <2>8 DEF NamedIn
  <2> QED
    BY <2>2, <2>4, <2>5, <2>6, <2>7, <2>8, <2>9
<1>6. \A p \in all : \E c \in comps : SamePackage(p, c) /\ p.version \in {c.version, Unpinned}
  BY <1>4
<1>7. \A c, d \in comps : SamePackage(c, d) /\ c.version \in {d.version, Unpinned} => c = d
  BY <1>4
<1> HIDE DEF all, Named, Scopes1
<1> QED
  BY <1>5, <1>6, <1>7 DEF read, all, comps, Named, Scopes1, files

-----------------------------------------------------------------------------
(* The endpoints: what mining the files of a repository finds.              *)

Names == Host \cup Variable
Texts == STRING \cup {""}
Endpoint1 == [name : Names, known : BOOLEAN, scheme : Texts, port : Nat, path : Texts,
              credentials : SUBSET Names, sources : SUBSET Nat, origin : {"config", "source"}]

\* A mapping declares an endpoint of a name.
Beside(mapping, p, name) ==
  \E k \in DOMAIN mapping : classify_config_value(mapping[k], p) # <<>> /\ mapping[k].name = name

\* An endpoint as it is mined: its host is known if its name is that of a host,
\* what is read in the source is not, and its credentials stand beside it.
Mined1(source) ==
  {x \in Endpoint1 :
     /\ x.known <=> x.name \in Host
     /\ x.origin = "source" => ~ x.known
     /\ x.sources \subseteq DOMAIN source
     /\ \A v \in x.credentials : \E p \in DOMAIN source : \E i \in DOMAIN source[p].mappings :
          v \in Credentials(source[p].mappings[i]) /\ Beside(source[p].mappings[i], p, x.name)}

\* What one entry of a file gives, before it gets its credentials.
Bare1(p) ==
  {x \in Endpoint1 : (x.known <=> x.name \in Host) /\ x.origin = "config" /\ x.credentials = {} /\ x.sources = {p}}

LEMMA NamesDiffer ==
  Names \subseteq Nat /\ NoName \notin Names /\ \A v \in Variable : v \in Names /\ v \notin Host
BY EndpointAssumption, NoNameAssumption DEF Names

LEMMA FoundIs ==
  ASSUME NEW entry, entry.name \in Names, entry.scheme \in Texts, entry.port \in Nat, entry.path \in Texts,
         NEW known \in BOOLEAN, NEW p \in Nat, NEW origin \in {"config", "source"}
  PROVE  /\ Found(entry, known, p, origin) \in Endpoint1
         /\ Found(entry, known, p, origin).name = entry.name
         /\ Found(entry, known, p, origin).known = known
         /\ Found(entry, known, p, origin).origin = origin
         /\ Found(entry, known, p, origin).credentials = {}
         /\ Found(entry, known, p, origin).sources = {p}
<1> DEFINE x == Found(entry, known, p, origin)
<1>1. x = [name |-> entry.name, known |-> known, scheme |-> entry.scheme, port |-> entry.port,
           path |-> entry.path, credentials |-> {}, sources |-> {p}, origin |-> origin]
  BY DEF Found
<1> HIDE DEF x
<1>2. x \in Endpoint1
  BY <1>1 DEF Endpoint1
<1>3. x.name = entry.name /\ x.known = known /\ x.origin = origin /\ x.credentials = {} /\ x.sources = {p}
  BY <1>1
<1> QED
  BY <1>2, <1>3 DEF x

LEMMA ConfigEntryIs ==
  ASSUME NEW entry \in ConfigEntry
  PROVE  /\ entry.name \in Names /\ entry.scheme \in Texts /\ entry.port \in Nat /\ entry.path \in Texts
         /\ entry.form \in {"placeholder", "name", "read"} => entry.name \in Variable
<1>1. /\ entry \in [key : SUBSET {"endpoint", "endpoint_env", "credential_env"},
                    form : {"url", "placeholder", "name", "read", "text"},
                    name : Host \cup Variable, scheme : STRING, port : Nat, path : STRING]
      /\ entry.form \in {"placeholder", "name", "read"} => entry.name \in Variable
  BY DEF ConfigEntry
<1> QED
  BY <1>1 DEF Names, Texts

LEMMA Classified ==
  ASSUME NEW entry \in ConfigEntry, NEW p \in Nat
  PROVE  /\ classify_config_value(entry, p) \in Seq(Bare1(p))
         /\ \A x \in Range(classify_config_value(entry, p)) : x.name = entry.name
         /\ classify_config_value(entry, p) # <<>> => Range(classify_config_value(entry, p)) # {}
<1> DEFINE known == entry.name \in Host
           stripped == [entry EXCEPT !.scheme = "", !.port = 0, !.path = ""]
           result == classify_config_value(entry, p)
           a == Found(entry, known, p, "config")
           b == Found(stripped, FALSE, p, "config")
<1>1. /\ entry.name \in Names /\ entry.scheme \in Texts /\ entry.port \in Nat /\ entry.path \in Texts
      /\ entry.form \in {"placeholder", "name", "read"} => entry.name \in Variable
  BY ConfigEntryIs
<1>2. result \in {<<>>, <<a>>} \/ (NamesVariable(entry) /\ result = <<b>>)
  <2>1. CASE IsServiceUrl(entry) /\ entry.name \in Uninteresting
    BY <2>1 DEF classify_config_value
  <2>2. CASE IsServiceUrl(entry) /\ entry.name \notin Uninteresting
    BY <2>2 DEF classify_config_value
  <2>3. CASE ~ IsServiceUrl(entry) /\ NamesVariable(entry)
    BY <2>3 DEF classify_config_value
  <2>4. CASE ~ IsServiceUrl(entry) /\ ~ NamesVariable(entry)
    BY <2>4 DEF classify_config_value
  <2> QED
    BY <2>1, <2>2, <2>3, <2>4
<1>3. a \in Bare1(p) /\ a.name = entry.name
  <2>1. /\ a \in Endpoint1 /\ a.name = entry.name /\ a.known = known /\ a.origin = "config"
        /\ a.credentials = {} /\ a.sources = {p}
    <3>1. known \in BOOLEAN /\ "config" \in {"config", "source"}
      OBVIOUS
    <3> HIDE DEF known
    <3> QED
      BY <1>1, <3>1, FoundIs
  <2> HIDE DEF a
  <2> QED
    BY <2>1 DEF Bare1
<1>4. NamesVariable(entry) => b \in Bare1(p) /\ b.name = entry.name
  <2> SUFFICES ASSUME NamesVariable(entry) PROVE b \in Bare1(p) /\ b.name = entry.name
    OBVIOUS
  <2>1. entry.name \in Variable /\ entry.name \notin Host
    BY <1>1, NamesDiffer DEF NamesVariable
  <2>2. stripped.name = entry.name /\ stripped.scheme = "" /\ stripped.port = 0 /\ stripped.path = ""
    BY DEF ConfigEntry
  <2>3. stripped.scheme \in Texts /\ stripped.port \in Nat /\ stripped.path \in Texts /\ stripped.name \in Names
    <3>1. "" \in Texts /\ 0 \in Nat
      BY DEF Texts
    <3> HIDE DEF stripped
    <3> QED
      BY <1>1, <2>2, <3>1
  <2> HIDE DEF stripped
  <2>4. /\ b \in Endpoint1 /\ b.name = stripped.name /\ b.known = FALSE /\ b.origin = "config"
        /\ b.credentials = {} /\ b.sources = {p}
    <3> DEFINE unknown == FALSE
    <3>1. unknown \in BOOLEAN /\ "config" \in {"config", "source"}
      OBVIOUS
    <3>2. b = Found(stripped, unknown, p, "config")
      OBVIOUS
    <3> HIDE DEF unknown, b
    <3>3. /\ b \in Endpoint1 /\ b.name = stripped.name /\ b.known = unknown /\ b.origin = "config"
          /\ b.credentials = {} /\ b.sources = {p}
      BY <2>3, <3>1, <3>2, FoundIs
    <3> QED
      BY <3>3 DEF unknown
  <2> HIDE DEF b
  <2> QED
    BY <2>1, <2>2, <2>4 DEF Bare1
<1> HIDE DEF a, b, result
<1>5. \A x : x \in Bare1(p) => <<x>> \in Seq(Bare1(p)) /\ Range(<<x>>) = {x} /\ <<x>> # <<>>
  BY DEF Range
<1>6. <<>> \in Seq(Bare1(p)) /\ Range(<<>>) = {}
  BY EmptySeq DEF Range
<1>7. /\ result \in Seq(Bare1(p))
      /\ \A x \in Range(result) : x.name = entry.name
      /\ result # <<>> => Range(result) # {}
  BY <1>2, <1>3, <1>4, <1>5, <1>6
<1> QED
  BY <1>7 DEF result

\* Sequences of sequences, from their members.
LEMMA ListOfLists ==
  ASSUME NEW T, NEW D, \E N \in Nat : D = 1 .. N, NEW f \in [D -> Seq(T)]
  PROVE  f \in Seq(Seq(T)) /\ DOMAIN f = D
<1>1. PICK N \in Nat : D = 1 .. N
  OBVIOUS
<1> QED
  BY <1>1, SeqDef

LEMMA EntriesMined ==
  ASSUME NEW entries \in Seq(ConfigEntry), NEW p \in Nat
  PROVE  /\ MineEntries(entries, p) \in Seq(Bare1(p))
         /\ \A x \in Range(MineEntries(entries, p)) : Beside(entries, p, x.name)
         /\ \A name : Beside(entries, p, name) => \E x \in Range(MineEntries(entries, p)) : x.name = name
<1> DEFINE f == [i \in DOMAIN entries |-> classify_config_value(entries[i], p)]
           result == MineEntries(entries, p)
<1>1. /\ DOMAIN entries = 1 .. Len(entries) /\ Len(entries) \in Nat
      /\ \A i \in DOMAIN entries : entries[i] \in ConfigEntry
  BY InRange
<1>2. \A i \in DOMAIN entries :
        /\ f[i] \in Seq(Bare1(p)) /\ f[i] = classify_config_value(entries[i], p)
        /\ \A x \in Range(f[i]) : x.name = entries[i].name
        /\ f[i] # <<>> => Range(f[i]) # {}
  BY <1>1, Classified
<1>3. f \in [DOMAIN entries -> Seq(Bare1(p))]
  BY <1>2
<1>4. result = FlattenSeq(f)
  BY DEF MineEntries
<1> HIDE DEF f, result
<1>5. f \in Seq(Seq(Bare1(p))) /\ DOMAIN f = DOMAIN entries
  BY <1>1, <1>3, ListOfLists
<1>6. /\ result \in Seq(Bare1(p))
      /\ \A x : x \in Range(result) <=> \E i \in DOMAIN entries : x \in Range(f[i])
  BY <1>4, <1>5, Flattened
<1>7. ASSUME NEW x \in Range(result) PROVE Beside(entries, p, x.name)
  <2>1. PICK i \in DOMAIN entries : x \in Range(f[i])
    BY <1>6
  <2>2. f[i] # <<>>
    BY <2>1 DEF Range
  <2> QED
    BY <1>2, <2>1, <2>2 DEF Beside
<1>8. ASSUME NEW name, Beside(entries, p, name) PROVE \E x \in Range(result) : x.name = name
  <2>1. PICK i \in DOMAIN entries : classify_config_value(entries[i], p) # <<>> /\ entries[i].name = name
    BY <1>8 DEF Beside
  <2>2. PICK x \in Range(f[i]) : TRUE
    BY <1>2, <2>1
  <2> QED
    BY <1>2, <1>6, <2>1, <2>2
<1> QED
  BY <1>6, <1>7, <1>8 DEF result

LEMMA CredentialsAreNames ==
  ASSUME NEW mapping \in Seq(ConfigEntry)
  PROVE  Credentials(mapping) \in SUBSET Names
<1>1. \A i \in DOMAIN mapping : mapping[i] \in ConfigEntry
  BY InRange
<1>2. \A i \in DOMAIN mapping : mapping[i].name \in Names
  BY <1>1, ConfigEntryIs
<1> QED
  BY <1>2 DEF Credentials

\* A configuration file: each mapping gives its endpoints its credentials.
LEMMA ConfigMined ==
  ASSUME NEW source \in Repositories, NEW p \in DOMAIN source
  PROVE  /\ walk_config(source[p].mappings, p) \in Seq(Mined1(source))
         /\ \A i \in DOMAIN source[p].mappings : \A name : Beside(source[p].mappings[i], p, name) =>
              \E x \in Range(walk_config(source[p].mappings, p)) :
                x.name = name /\ x.credentials = Credentials(source[p].mappings[i])
<1> DEFINE mappings == source[p].mappings
           local(i) == MineEntries(mappings[i], p)
           with(i) == [k \in DOMAIN local(i) |-> [local(i)[k] EXCEPT !.credentials = Credentials(mappings[i])]]
           f == [i \in DOMAIN mappings |-> with(i)]
           result == walk_config(mappings, p)
           T == Mined1(source)
<1>1. p \in Nat /\ source[p] \in RepositoryFile
  BY RepositoryAssumption
<1>2. mappings \in Seq(Seq(ConfigEntry))
  BY <1>1 DEF RepositoryFile
<1>3. /\ DOMAIN mappings = 1 .. Len(mappings) /\ Len(mappings) \in Nat
      /\ \A i \in DOMAIN mappings : mappings[i] \in Seq(ConfigEntry)
  <2> HIDE DEF mappings
  <2> QED
    BY <1>2, InRange
<1>4. result = FlattenSeq(f)
  BY DEF walk_config, CredentialsBeside
<1>5. ASSUME NEW i \in DOMAIN mappings
      PROVE  /\ with(i) \in Seq(T)
             /\ \A name : Beside(mappings[i], p, name) =>
                  \E x \in Range(with(i)) : x.name = name /\ x.credentials = Credentials(mappings[i])
  <2> DEFINE m == mappings[i]
             l == local(i)
             w == with(i)
             cs == Credentials(m)
  <2>1. m \in Seq(ConfigEntry) /\ cs \in SUBSET Names
    BY <1>3, CredentialsAreNames
  <2>2. /\ l \in Seq(Bare1(p))
        /\ \A x \in Range(l) : Beside(m, p, x.name)
        /\ \A name : Beside(m, p, name) => \E x \in Range(l) : x.name = name
    BY <1>1, <2>1, EntriesMined
  <2>3. w = [k \in DOMAIN l |-> [l[k] EXCEPT !.credentials = cs]]
    OBVIOUS
  <2>4. \A v \in cs : \A name : Beside(m, p, name) => \E q \in DOMAIN source : \E j \in DOMAIN source[q].mappings :
          v \in Credentials(source[q].mappings[j]) /\ Beside(source[q].mappings[j], q, name)
    OBVIOUS
  <2> HIDE DEF m, l, w, cs
  <2>5. DOMAIN l = 1 .. Len(l) /\ Len(l) \in Nat /\ \A k \in DOMAIN l : l[k] \in Bare1(p) /\ l[k] \in Range(l)
    BY <2>2, InRange
  <2>6. ASSUME NEW k \in DOMAIN l
        PROVE  w[k] \in T /\ w[k].name = l[k].name /\ w[k].credentials = cs
    <3> DEFINE x == l[k]
               y == w[k]
    <3>1. x \in Endpoint1 /\ (x.known <=> x.name \in Host) /\ x.origin = "config" /\ x.sources = {p}
      BY <2>5 DEF Bare1
    <3>2. y = [x EXCEPT !.credentials = cs]
      BY <2>3
    <3> HIDE DEF x, y
    <3>3. /\ y \in Endpoint1 /\ y.name = x.name /\ y.origin = x.origin /\ y.credentials = cs
          /\ y.sources = x.sources
      BY <2>1, <3>1, <3>2 DEF Endpoint1
    <3>4. y.known = x.known
      BY <2>1, <3>1, <3>2 DEF Endpoint1
    <3>5. Beside(m, p, x.name)
      BY <2>2, <2>5 DEF x
    <3>6. y \in T
      BY <2>4, <3>1, <3>3, <3>4, <3>5 DEF Mined1
    <3> QED
      BY <3>3, <3>6 DEF x, y
  <2>7. DOMAIN w = DOMAIN l
    BY <2>3
  <2>8. w \in Seq(T)
    <3> HIDE DEF T
    <3>1. w \in [1 .. Len(l) -> T]
      BY <2>3, <2>5, <2>6
    <3> QED
      BY <2>5, <3>1, SeqDef
  <2>9. \A name : Beside(m, p, name) => \E x \in Range(w) : x.name = name /\ x.credentials = cs
    <3>1. \A x \in Range(l) : \E k \in DOMAIN l : l[k] = x
      BY <2>2, InRange
    <3>2. \A k \in DOMAIN w : w[k] \in Range(w)
      BY DEF Range
    <3> QED
      BY <2>2, <2>6, <2>7, <3>1, <3>2
  <2> QED
    BY <2>8, <2>9 DEF m, w, cs
<1> HIDE DEF with, T
<1>6. f \in [DOMAIN mappings -> Seq(T)] /\ \A i \in DOMAIN mappings : f[i] = with(i)
  BY <1>5
<1> HIDE DEF f, result, mappings
<1>7. f \in Seq(Seq(T)) /\ DOMAIN f = DOMAIN mappings
  BY <1>3, <1>6, ListOfLists
<1>8. /\ result \in Seq(T)
      /\ \A x : x \in Range(result) <=> \E i \in DOMAIN mappings : x \in Range(f[i])
  BY <1>4, <1>7, Flattened
<1>9. \A i \in DOMAIN mappings : \A name : Beside(mappings[i], p, name) =>
        \E x \in Range(result) : x.name = name /\ x.credentials = Credentials(mappings[i])
  BY <1>5, <1>6, <1>8
<1> QED
  BY <1>8, <1>9 DEF result, mappings, T

\* A source file: what it reads is not known.
LEMMA SourceMined ==
  ASSUME NEW source \in Repositories, NEW p \in DOMAIN source
  PROVE  scan_source(source[p].reads, p) \in Seq(Mined1(source))
<1> DEFINE reads == source[p].reads
           at(i) == IF "endpoint" \in reads[i].key THEN <<Found(reads[i], FALSE, p, "source")>> ELSE <<>>
           f == [i \in DOMAIN reads |-> at(i)]
           result == scan_source(reads, p)
           T == Mined1(source)
<1>1. p \in Nat /\ source[p] \in RepositoryFile
  BY RepositoryAssumption
<1>2. reads \in Seq(SourceRead)
  BY <1>1 DEF RepositoryFile
<1>3. result = FlattenSeq(f)
  BY DEF scan_source
<1> HIDE DEF reads
<1>4. /\ DOMAIN reads = 1 .. Len(reads) /\ Len(reads) \in Nat
      /\ \A i \in DOMAIN reads : reads[i] \in SourceRead
  BY <1>2, InRange
<1>5. ASSUME NEW i \in DOMAIN reads PROVE at(i) \in Seq(T)
  <2> DEFINE entry == reads[i]
             unknown == FALSE
             x == Found(entry, unknown, p, "source")
  <2>1. entry \in ConfigEntry /\ entry.form = "read"
    BY <1>4 DEF SourceRead
  <2>2. at(i) \in {<<>>, <<x>>}
    OBVIOUS
  <2>3. unknown \in BOOLEAN /\ "source" \in {"config", "source"} /\ unknown = FALSE
    OBVIOUS
  <2> HIDE DEF entry, unknown
  <2>4. /\ entry.name \in Names /\ entry.scheme \in Texts /\ entry.port \in Nat /\ entry.path \in Texts
        /\ entry.name \in Variable
    BY <2>1, ConfigEntryIs
  <2>5. /\ x \in Endpoint1 /\ x.name = entry.name /\ x.known = unknown /\ x.origin = "source"
        /\ x.credentials = {} /\ x.sources = {p}
    BY <1>1, <2>3, <2>4, FoundIs
  <2>6. entry.name \notin Host
    BY <2>4, NamesDiffer
  <2> HIDE DEF x
  <2>7. x \in T
    BY <2>3, <2>5, <2>6 DEF Mined1
  <2> HIDE DEF T, at
  <2>8. <<>> \in Seq(T) /\ <<x>> \in Seq(T)
    BY <2>7, EmptySeq
  <2> QED
    BY <2>2, <2>8
<1> HIDE DEF at, T
<1>6. f \in [DOMAIN reads -> Seq(T)]
  BY <1>5
<1> HIDE DEF f, result
<1>7. f \in Seq(Seq(T))
  BY <1>4, <1>6, ListOfLists
<1>8. result \in Seq(T)
  BY <1>3, <1>7, Flattened
<1> QED
  BY <1>8 DEF result, reads, T

\* One file after another: the members of the parts are those of the whole.
LEMMA Joined ==
  ASSUME NEW T, NEW r \in Seq(T), NEW s \in Seq(T)
  PROVE  r \o s \in Seq(T) /\ Range(r \o s) = Range(r) \cup Range(s)
BY ConcatProperties, RangeConcatenation

LEMMA FileMined ==
  ASSUME NEW source \in Repositories, NEW p \in DOMAIN source
  PROVE  /\ MineFile(source[p], p) \in Seq(Mined1(source))
         /\ \A i \in DOMAIN source[p].mappings : \A name : Beside(source[p].mappings[i], p, name) =>
              \E x \in Range(MineFile(source[p], p)) :
                x.name = name /\ x.credentials = Credentials(source[p].mappings[i])
<1> DEFINE T == Mined1(source)
           a == walk_config(source[p].mappings, p)
           b == MineEntries(source[p].lines, p)
           c == scan_source(source[p].reads, p)
           result == MineFile(source[p], p)
<1>1. p \in Nat /\ source[p] \in RepositoryFile
  BY RepositoryAssumption
<1>2. source[p].lines \in Seq(ConfigEntry)
  BY <1>1 DEF RepositoryFile
<1>3. b \in Seq(Bare1(p))
  BY <1>1, <1>2, EntriesMined
<1>4. Bare1(p) \subseteq T
  BY DEF Bare1, Mined1
<1>5. result = (a \o b) \o c
  BY DEF MineFile
<1>6. a \in Seq(T) /\ c \in Seq(T)
  BY ConfigMined, SourceMined
<1>7. \A i \in DOMAIN source[p].mappings : \A name : Beside(source[p].mappings[i], p, name) =>
        \E x \in Range(a) : x.name = name /\ x.credentials = Credentials(source[p].mappings[i])
  BY ConfigMined
<1> HIDE DEF T, a, b, c, result
<1>8. b \in Seq(T)
  BY <1>3, <1>4, SeqMonotonic
<1>9. a \o b \in Seq(T) /\ Range(a \o b) = Range(a) \cup Range(b)
  BY <1>6, <1>8, Joined
<1>10. result \in Seq(T) /\ Range(a) \subseteq Range(result)
  <2> DEFINE ab == a \o b
  <2>1. ab \in Seq(T) /\ result = ab \o c /\ Range(a) \subseteq Range(ab)
    BY <1>5, <1>9
  <2> HIDE DEF ab
  <2>2. ab \o c \in Seq(T) /\ Range(ab \o c) = Range(ab) \cup Range(c)
    BY <1>6, <2>1, Joined
  <2> QED
    BY <2>1, <2>2
<1> QED
  BY <1>7, <1>10 DEF result, T

\* The files of a repository, in the order of their paths.
LEMMA PathsOf ==
  ASSUME NEW source \in Repositories
  PROVE  /\ DOMAIN Paths(source) = 1 .. Len(Paths(source)) /\ Len(Paths(source)) \in Nat
         /\ Range(Paths(source)) = DOMAIN source
         /\ \A n \in DOMAIN Paths(source) : Paths(source)[n] \in DOMAIN source
<1> DEFINE S == DOMAIN source
           seq == Paths(source)
<1>1. S \subseteq Nat /\ IsFiniteSet(S) /\ seq = InOrder(S, <)
  BY RepositoryAssumption DEF Paths
<1> HIDE DEF S, seq
<1>2. seq \in Seq(S) /\ Range(seq) = S
  BY <1>1, NumbersInOrder
<1> QED
  BY <1>2, InRange DEF S, seq

MinedIn(source) == FlattenSeq([n \in DOMAIN Paths(source) |-> MineAt(source, n)])

\* The scan finds what there is, all of it unless the limit stopped it.
LEMMA Scanning ==
  ASSUME NEW source \in Repositories
  PROVE  /\ Scan(source) \in Seq(Mined1(source)) /\ MinedIn(source) \in Seq(Mined1(source))
         /\ Range(Scan(source)) \subseteq Range(MinedIn(source))
         /\ ~ Truncated(source) => Range(Scan(source)) = Range(MinedIn(source))
         /\ \A p \in DOMAIN source : \A i \in DOMAIN source[p].mappings : \A name :
              Beside(source[p].mappings[i], p, name) =>
                \E x \in Range(MinedIn(source)) :
                  x.name = name /\ x.credentials = Credentials(source[p].mappings[i])
<1> DEFINE T == Mined1(source)
           paths == Paths(source)
           D == DOMAIN paths
           f == [n \in D |-> MineAt(source, n)]
           g == [n \in D |-> IF LookedAt(source, n) THEN MineAt(source, n) ELSE <<>>]
           R == Scan(source)
           M == MinedIn(source)
<1>1. /\ D = 1 .. Len(paths) /\ Len(paths) \in Nat
      /\ Range(paths) = DOMAIN source
      /\ \A n \in D : paths[n] \in DOMAIN source
  BY PathsOf
<1>2. R = FlattenSeq(g) /\ M = FlattenSeq(f)
  BY DEF Scan, MinedIn
<1>3. \A n \in D : f[n] = MineFile(source[paths[n]], paths[n]) /\ g[n] \in {f[n], <<>>}
  BY DEF MineAt
<1>4. ~ Truncated(source) => \A n \in D : g[n] = f[n]
  BY DEF Truncated
<1>5. \A n \in D : f[n] \in Seq(T)
  BY <1>1, <1>3, FileMined
<1>6. <<>> \in Seq(T) /\ Range(<<>>) = {}
  BY EmptySeq DEF Range
<1>7. \A n \in D : g[n] \in Seq(T) /\ Range(g[n]) \subseteq Range(f[n])
  BY <1>3, <1>5, <1>6
<1>8. f \in [D -> Seq(T)]
  <2> HIDE DEF T
  <2> QED
    BY <1>5
<1>9. g \in [D -> Seq(T)]
  <2> HIDE DEF T
  <2> QED
    BY <1>7
<1> HIDE DEF T, paths, D, f, g, R, M
<1>10. f \in Seq(Seq(T)) /\ DOMAIN f = D /\ g \in Seq(Seq(T)) /\ DOMAIN g = D
  BY <1>1, <1>8, <1>9, ListOfLists
<1>11. R \in Seq(T) /\ \A x : x \in Range(R) <=> \E n \in D : x \in Range(g[n])
  BY <1>2, <1>10, Flattened
<1>12. M \in Seq(T) /\ \A x : x \in Range(M) <=> \E n \in D : x \in Range(f[n])
  BY <1>2, <1>10, Flattened
<1>13. Range(R) \subseteq Range(M)
  BY <1>7, <1>11, <1>12
<1>14. ~ Truncated(source) => Range(R) = Range(M)
  BY <1>4, <1>11, <1>12
<1>15. \A p \in DOMAIN source : \A i \in DOMAIN source[p].mappings : \A name :
         Beside(source[p].mappings[i], p, name) =>
           \E x \in Range(MineFile(source[p], p)) : x.name = name /\ x.credentials = Credentials(source[p].mappings[i])
  BY FileMined
<1>16. ASSUME NEW p \in DOMAIN source, NEW i \in DOMAIN source[p].mappings, NEW name,
              Beside(source[p].mappings[i], p, name)
       PROVE  \E x \in Range(M) : x.name = name /\ x.credentials = Credentials(source[p].mappings[i])
  <2>1. PICK n \in D : paths[n] = p
    BY <1>1 DEF Range, D
  <2>2. \E x \in Range(MineFile(source[p], p)) : x.name = name /\ x.credentials = Credentials(source[p].mappings[i])
    BY <1>16, <1>15
  <2>3. f[n] = MineFile(source[p], p)
    BY <1>3, <2>1
  <2> QED
    BY <1>12, <2>2, <2>3
<1> QED
  BY <1>11, <1>12, <1>13, <1>14, <1>16 DEF R, M, T

-----------------------------------------------------------------------------
(* The endpoints: what merging the declarations keeps.                      *)

\* Keys in the order of their first part, then of their second.
LEMMA PairsInOrder ==
  ASSUME NEW S, S \subseteq Nat \X Nat, IsFiniteSet(S)
  PROVE  Lists(S, InOrder(S, Before))
<1> DEFINE below == [q \in S |-> {p \in S : Before(p, q)}]
           major == [p \in S |-> p[1]]
           minor == [p \in S |-> p[2]]
           seq == InOrder(S, Before)
           N == Cardinality(S)
           At(n) == CHOOSE x \in S : Cardinality({y \in S : Before(y, x)}) = n - 1
<1>1. \A p \in S : p[1] \in Nat /\ p[2] \in Nat /\ p = <<p[1], p[2]>>
  OBVIOUS
<1>2. seq = [n \in 1 .. N |-> At(n)]
  BY DEF InOrder
<1> HIDE DEF seq
<1>3. \A x \in S : below[x] = {y \in S : Before(y, x)}
  OBVIOUS
<1>4. major \in [S -> Nat] /\ minor \in [S -> Nat]
  BY <1>1
<1>5. \A x, y \in S : major[x] = major[y] /\ minor[x] = minor[y] => x = y
  BY <1>1
<1>6. below \in [S -> SUBSET S]
  OBVIOUS
<1>7. \A x, y \in S :
        y \in below[x] <=> major[y] < major[x] \/ (major[y] = major[x] /\ minor[y] < minor[x])
  BY DEF Before
<1>8. \E f : seq = [n \in 1 .. N |-> f[n]]
  <2> HIDE DEF N, At
  <2>1. seq = [n \in 1 .. N |-> seq[n]]
    BY <1>2
  <2> QED
    BY <2>1, Zenon
<1> HIDE DEF below, major, minor
<1>9. \A n \in 1 .. N : (\E x \in S : Cardinality(below[x]) = n - 1) =>
         seq[n] \in S /\ Cardinality(below[seq[n]]) = n - 1
  <2>1. TAKE n \in 1 .. N
  <2>2. HAVE \E x \in S : Cardinality(below[x]) = n - 1
  <2> DEFINE P(x) == Cardinality({y \in S : Before(y, x)}) = n - 1
  <2>3. \E x \in S : P(x)
    BY <1>3, <2>2
  <2>4. seq[n] = CHOOSE x \in S : P(x)
    BY <1>2, <2>1
  <2>5. seq[n] \in S /\ P(seq[n])
    <3> HIDE DEF P
    <3> QED
      BY <2>3, <2>4
  <2> QED
    BY <1>3, <2>5
<1>10. Below(S, major, minor, below)
  BY <1>4, <1>5, <1>6, <1>7 DEF Below
<1>11. Places(S, below, seq)
  BY <1>8, <1>9 DEF Places
<1>12. Lists(S, seq)
  BY <1>10, <1>11, KeysInOrder
<1> QED
  BY <1>12 DEF seq

\* The members of a sequence, as keys: a finite set of them.
LEMMA FiniteKeys ==
  ASSUME NEW T, NEW found \in Seq(T)
  PROVE  IsFiniteSet({Identity(found[i]) : i \in DOMAIN found})
<1> DEFINE D == DOMAIN found
           K == {Identity(found[i]) : i \in D}
           f == [i \in D |-> Identity(found[i])]
<1>1. D = 1 .. Len(found) /\ Len(found) \in Nat
  BY InRange
<1>2. IsFiniteSet(D)
  BY <1>1, FS_Interval
<1>3. f \in Surjection(D, K)
  BY DEF Surjection
<1> HIDE DEF D, K, f
<1>4. IsFiniteSet(K)
  BY <1>2, <1>3, FS_Surjection
<1> QED
  BY <1>4 DEF K, D

\* The first value that is there is that of a member, and none only if none has one.
LEMMA FirstKnownIs ==
  ASSUME NEW group \in SUBSET Nat, group # {}, NEW values, DOMAIN values = group, NEW none
  PROVE  /\ \E i \in group : FirstStated(values, none) = values[i]
         /\ FirstStated(values, none) = none => \A i \in group : values[i] = none
<1> DEFINE known == {i \in group : values[i] # none}
<1>1. FirstStated(values, none) = IF known = {} THEN none ELSE values[Minimum(known)]
  BY DEF FirstStated
<1>2. known # {} => Minimum(known) \in known
  <2>1. known \in SUBSET Nat
    OBVIOUS
  <2> HIDE DEF known
  <2> QED
    BY <2>1, MinimumIsLeast
<1>3. CASE known = {}
  BY <1>1, <1>3
<1>4. CASE known # {}
  BY <1>1, <1>2, <1>4
<1> QED
  BY <1>3, <1>4

\* A merged endpoint says what some declaration of its name says, and is only read
\* in the source if every one is.
OneOf(X, e) ==
  /\ e.known <=> e.name \in Host
  /\ \E x \in X : x.name = e.name /\ x.scheme = e.scheme
  /\ \E x \in X : x.name = e.name /\ x.port = e.port
  /\ \E x \in X : x.name = e.name /\ x.path = e.path
  /\ \A v \in e.credentials : \E x \in X : x.name = e.name /\ v \in x.credentials
  /\ \A v \in e.sources : \E x \in X : v \in x.sources
  /\ e.origin = "source" <=> ~ e.known /\ \A x \in X : x.name = e.name => x.origin = "source"

\* A declaration is in the merged endpoint.
TakenIn(x, e) ==
  /\ e.name = x.name /\ x.credentials \subseteq e.credentials
  /\ e.path = "" => x.path = ""

\* The group of a key: the endpoint it becomes.
LEMMA GroupMerged ==
  ASSUME NEW source, NEW found \in Seq(Mined1(source)), DOMAIN source \subseteq Nat, NEW o \in DOMAIN found
  PROVE  LET group == {i \in DOMAIN found : Identity(found[i]) = Identity(found[o])}
             e == MergeGroup(found, group)
         IN  /\ e \in Endpoint1 /\ OneOf(Range(found), e)
             /\ \A i \in group : TakenIn(found[i], e)
             /\ e.name = found[o].name /\ e.known = found[o].known
<1> DEFINE group == {i \in DOMAIN found : Identity(found[i]) = Identity(found[o])}
           e == MergeGroup(found, group)
           first == Minimum(group)
           base == found[first]
           scheme == FirstStated([i \in group |-> found[i].scheme], "")
           path == FirstStated([i \in group |-> found[i].path], "")
           port == FirstStated([i \in group |-> found[i].port], 0)
           origin == AnyConfig(found, group)
           credentials == UNION {found[i].credentials : i \in group}
           sources == KeepSources(found, group)
<1>1. /\ DOMAIN found = 1 .. Len(found) /\ Len(found) \in Nat
      /\ \A i \in DOMAIN found : found[i] \in Mined1(source) /\ found[i] \in Range(found)
      /\ \A x \in Range(found) : \E i \in DOMAIN found : found[i] = x
  BY InRange
<1>2. \A i \in DOMAIN found :
        /\ found[i] \in Endpoint1
        /\ found[i].known <=> found[i].name \in Host
        /\ found[i].origin = "source" => ~ found[i].known
        /\ found[i].sources \subseteq Nat
  BY <1>1 DEF Mined1
<1>3. \A i \in DOMAIN found :
        /\ found[i].name \in Names /\ found[i].known \in BOOLEAN /\ found[i].scheme \in Texts
        /\ found[i].port \in Nat /\ found[i].path \in Texts /\ found[i].credentials \in SUBSET Names
        /\ found[i].origin \in {"config", "source"}
  BY <1>2 DEF Endpoint1
<1>4. /\ group \in SUBSET Nat /\ group # {} /\ group \subseteq DOMAIN found /\ o \in group
  BY <1>1
<1>5. \A i \in group : found[i].name = found[o].name
  BY DEF Identity
<1>6. \A i \in DOMAIN found : found[i].name = found[o].name /\ ~ found[o].known => i \in group
  BY <1>2 DEF Identity
<1>7. e = [base EXCEPT !.scheme = scheme, !.path = path, !.port = port, !.origin = origin,
                       !.credentials = credentials, !.sources = sources]
  BY DEF MergeGroup
<1> HIDE DEF group, e
<1>8. first \in group
  BY <1>4, MinimumIsLeast
<1>9. /\ \E i \in group : scheme = found[i].scheme
      /\ scheme = "" => \A i \in group : found[i].scheme = ""
  <2> DEFINE values == [i \in group |-> found[i].scheme]
             none == ""
  <2>1. /\ DOMAIN values = group /\ \A i \in group : values[i] = found[i].scheme
        /\ scheme = FirstStated(values, none)
    OBVIOUS
  <2>2. none = ""
    OBVIOUS
  <2> HIDE DEF values, none, scheme
  <2>3. \E i \in group : FirstStated(values, none) = values[i]
    BY <1>4, <2>1, FirstKnownIs
  <2>4. FirstStated(values, none) = none => \A i \in group : values[i] = none
    BY <1>4, <2>1, FirstKnownIs
  <2> QED
    BY <2>1, <2>2, <2>3, <2>4
<1>10. /\ \E i \in group : path = found[i].path
       /\ path = "" => \A i \in group : found[i].path = ""
  <2> DEFINE values == [i \in group |-> found[i].path]
             none == ""
  <2>1. /\ DOMAIN values = group /\ \A i \in group : values[i] = found[i].path
        /\ path = FirstStated(values, none)
    OBVIOUS
  <2>2. none = ""
    OBVIOUS
  <2> HIDE DEF values, none, path
  <2>3. \E i \in group : FirstStated(values, none) = values[i]
    BY <1>4, <2>1, FirstKnownIs
  <2>4. FirstStated(values, none) = none => \A i \in group : values[i] = none
    BY <1>4, <2>1, FirstKnownIs
  <2> QED
    BY <2>1, <2>2, <2>3, <2>4
<1>11. \E i \in group : port = found[i].port
  <2> DEFINE values == [i \in group |-> found[i].port]
  <2>1. /\ DOMAIN values = group /\ \A i \in group : values[i] = found[i].port
        /\ port = FirstStated(values, 0)
    OBVIOUS
  <2> HIDE DEF values, port
  <2>2. /\ \E i \in group : FirstStated(values, 0) = values[i]
        /\ FirstStated(values, 0) = 0 => \A i \in group : values[i] = 0
    BY <1>4, <2>1, FirstKnownIs
  <2> QED
    BY <2>1, <2>2
<1>12. /\ origin \in {"config", "source"}
       /\ origin = "source" <=> \A i \in group : found[i].origin = "source"
  <2>1. \A i \in group : found[i].origin \in {"config", "source"}
    BY <1>3, <1>4
  <2> QED
    BY <2>1 DEF AnyConfig
<1>13. credentials \in SUBSET Names /\ \A i \in group : found[i].credentials \subseteq credentials
  BY <1>3, <1>4
<1>14. sources \in SUBSET Nat /\ \A v \in sources : \E i \in group : v \in found[i].sources
  <2>1. \A v \in sources : \E i \in group : v \in found[i].sources
    BY DEF KeepSources, SourcesOf
  <2> QED
    BY <1>2, <1>4, <2>1
<1>15. /\ base \in Endpoint1 /\ base.name = found[o].name
       /\ base.known <=> base.name \in Host
  BY <1>2, <1>4, <1>5, <1>8
<1>16. \A v \in credentials : \E i \in group : v \in found[i].credentials
  OBVIOUS
<1>17. scheme \in Texts /\ path \in Texts /\ port \in Nat
  BY <1>3, <1>4, <1>9, <1>10, <1>11
<1> HIDE DEF base, scheme, path, port, origin, credentials, sources
<1>18. /\ e \in Endpoint1 /\ e.name = base.name /\ e.scheme = scheme /\ e.path = path /\ e.port = port
       /\ e.origin = origin /\ e.credentials = credentials /\ e.sources = sources
  BY <1>7, <1>12, <1>13, <1>14, <1>15, <1>17 DEF Endpoint1
<1>19. e.known = base.known
  BY <1>7, <1>15 DEF Endpoint1
<1>20. e.known <=> e.name \in Host
  BY <1>15, <1>18, <1>19
<1>21. e.known = found[o].known
  <2>1. e.known \in BOOLEAN
    BY <1>18 DEF Endpoint1
  <2>2. found[o].known \in BOOLEAN /\ (found[o].known <=> found[o].name \in Host)
    BY <1>2, <1>3, <1>4
  <2>3. e.known <=> found[o].known
    BY <1>15, <1>18, <1>20, <2>2
  <2> QED
    BY <2>1, <2>2, <2>3
<1>22. e.name = found[o].name
  BY <1>15, <1>18
<1>23. \A i \in group : found[i] \in Range(found) /\ found[i].name = e.name
  BY <1>1, <1>4, <1>5, <1>22
<1>24. e.origin = "source" <=> ~ e.known /\ \A x \in Range(found) : x.name = e.name => x.origin = "source"
  <2>1. ASSUME e.origin = "source"
        PROVE  ~ e.known /\ \A x \in Range(found) : x.name = e.name => x.origin = "source"
    <3>1. found[o].origin = "source"
      BY <1>4, <1>12, <1>18, <2>1
    <3>2. ~ found[o].known
      BY <1>2, <3>1
    <3>3. ASSUME NEW x \in Range(found), x.name = e.name PROVE x.origin = "source"
      <4>1. PICK i \in DOMAIN found : found[i] = x
        BY <1>1
      <4>2. i \in group
        BY <1>6, <1>22, <3>2, <3>3, <4>1
      <4> QED
        BY <1>12, <1>18, <2>1, <4>1, <4>2
    <3> QED
      BY <1>21, <3>2, <3>3
  <2>2. ASSUME \A x \in Range(found) : x.name = e.name => x.origin = "source"
        PROVE  e.origin = "source"
    BY <1>12, <1>18, <1>23, <2>2
  <2> QED
    BY <2>1, <2>2
<1>25. OneOf(Range(found), e)
  <2>1. \E x \in Range(found) : x.name = e.name /\ x.scheme = e.scheme
    BY <1>9, <1>18, <1>23
  <2>2. \E x \in Range(found) : x.name = e.name /\ x.port = e.port
    BY <1>11, <1>18, <1>23
  <2>3. \E x \in Range(found) : x.name = e.name /\ x.path = e.path
    BY <1>10, <1>18, <1>23
  <2>4. \A v \in e.credentials : \E x \in Range(found) : x.name = e.name /\ v \in x.credentials
    BY <1>16, <1>18, <1>23
  <2>5. \A v \in e.sources : \E x \in Range(found) : v \in x.sources
    BY <1>14, <1>18, <1>23
  <2> QED
    BY <1>20, <1>24, <2>1, <2>2, <2>3, <2>4, <2>5 DEF OneOf
<1>26. \A i \in group : TakenIn(found[i], e)
  BY <1>10, <1>13, <1>18, <1>23 DEF TakenIn
<1> QED
  BY <1>18, <1>21, <1>22, <1>25, <1>26 DEF group, e

\* Merging: every group becomes one endpoint, every declaration is in one.
LEMMA Merging ==
  ASSUME NEW source, NEW found \in Seq(Mined1(source)), DOMAIN source \subseteq Nat
  PROVE  /\ merge(found) \in Seq({e \in Endpoint1 : OneOf(Range(found), e)})
         /\ \A x \in Range(found) : \E e \in Range(merge(found)) : TakenIn(x, e)
         /\ \A i, j \in DOMAIN merge(found) :
              i # j /\ ~ merge(found)[i].known /\ ~ merge(found)[j].known =>
                merge(found)[i].name # merge(found)[j].name
<1> DEFINE S == {Identity(found[i]) : i \in DOMAIN found}
           keys == InOrder(S, Before)
           T == {e \in Endpoint1 : OneOf(Range(found), e)}
           group(k) == {i \in DOMAIN found : Identity(found[i]) = keys[k]}
           result == merge(found)
<1>1. /\ DOMAIN found = 1 .. Len(found) /\ Len(found) \in Nat
      /\ \A i \in DOMAIN found : found[i] \in Mined1(source) /\ found[i] \in Range(found)
      /\ \A x \in Range(found) : \E i \in DOMAIN found : found[i] = x
  BY InRange
<1>2. \A i \in DOMAIN found : /\ found[i].name \in Nat /\ found[i].known \in BOOLEAN /\ found[i].port \in Nat
  BY <1>1, NamesDiffer DEF Mined1, Endpoint1
<1>3. \A i \in DOMAIN found : Identity(found[i]) \in Nat \X Nat
  BY <1>2 DEF Identity
<1>4. S \subseteq Nat \X Nat
  BY <1>3
<1>5. IsFiniteSet(S)
  BY FiniteKeys
<1>6. result = [k \in DOMAIN keys |-> MergeGroup(found, group(k))]
  BY DEF merge
<1>7. \A i \in DOMAIN found : Identity(found[i]) \in S
  OBVIOUS
<1>8. \A key \in S : \E i \in DOMAIN found : Identity(found[i]) = key
  OBVIOUS
<1> HIDE DEF S
<1>9. Lists(S, keys)
  BY <1>4, <1>5, PairsInOrder
<1> HIDE DEF keys, result
<1>10. /\ DOMAIN keys = 1 .. Len(keys) /\ Len(keys) \in Nat /\ Range(keys) = S
       /\ \A k \in DOMAIN keys : keys[k] \in S
       /\ \A key \in S : \E k \in DOMAIN keys : keys[k] = key
       /\ \A i, j \in DOMAIN keys : keys[i] = keys[j] => i = j
  <2>1. keys \in Seq(S) /\ Range(keys) = S /\ \A i, j \in DOMAIN keys : keys[i] = keys[j] => i = j
    BY <1>9 DEF Lists
  <2> QED
    BY <2>1, InRange
<1>11. ASSUME NEW k \in DOMAIN keys, NEW o \in DOMAIN found, Identity(found[o]) = keys[k]
       PROVE  /\ result[k] \in T
              /\ TakenIn(found[o], result[k])
              /\ result[k].name = found[o].name /\ result[k].known = found[o].known
  <2> DEFINE same == {i \in DOMAIN found : Identity(found[i]) = Identity(found[o])}
             e == MergeGroup(found, same)
  <2>1. same = group(k)
    BY <1>11
  <2>2. result[k] = e
    BY <1>6, <2>1
  <2>3. /\ e \in Endpoint1 /\ OneOf(Range(found), e)
        /\ \A i \in same : TakenIn(found[i], e)
        /\ e.name = found[o].name /\ e.known = found[o].known
    BY GroupMerged
  <2>4. o \in same
    OBVIOUS
  <2> HIDE DEF e, same
  <2> QED
    BY <2>2, <2>3, <2>4
<1>12. \A k \in DOMAIN keys : \E o \in DOMAIN found : Identity(found[o]) = keys[k]
  BY <1>8, <1>10
<1>13. result \in Seq(T)
  <2>1. \A k \in DOMAIN keys : result[k] \in T
    BY <1>11, <1>12
  <2> HIDE DEF T
  <2>2. result \in [1 .. Len(keys) -> T]
    BY <1>6, <1>10, <2>1
  <2> QED
    BY <1>10, <2>2, SeqDef
<1>14. DOMAIN result = DOMAIN keys
  BY <1>6
<1>15. ASSUME NEW x \in Range(found) PROVE \E e \in Range(result) : TakenIn(x, e)
  <2>1. PICK o \in DOMAIN found : found[o] = x
    BY <1>1
  <2>2. PICK k \in DOMAIN keys : keys[k] = Identity(found[o])
    BY <1>7, <1>10
  <2>3. TakenIn(x, result[k])
    BY <1>11, <2>1, <2>2
  <2>4. result[k] \in Range(result)
    BY <1>14 DEF Range
  <2> QED
    BY <2>3, <2>4
<1>16. ASSUME NEW i \in DOMAIN result, NEW j \in DOMAIN result, i # j,
              ~ result[i].known, ~ result[j].known
       PROVE  result[i].name # result[j].name
  <2>1. PICK o \in DOMAIN found : Identity(found[o]) = keys[i]
    BY <1>12, <1>14
  <2>2. PICK q \in DOMAIN found : Identity(found[q]) = keys[j]
    BY <1>12, <1>14
  <2>3. /\ result[i].name = found[o].name /\ result[i].known = found[o].known
        /\ result[j].name = found[q].name /\ result[j].known = found[q].known
    BY <1>11, <1>14, <2>1, <2>2
  <2>4. keys[i] = <<found[o].name, 0>> /\ keys[j] = <<found[q].name, 0>>
    BY <1>16, <2>1, <2>2, <2>3 DEF Identity
  <2>5. keys[i] # keys[j]
    BY <1>10, <1>14, <1>16
  <2> QED
    BY <2>3, <2>4, <2>5
<1> QED
  BY <1>13, <1>15, <1>16 DEF result, T

-----------------------------------------------------------------------------
(* What a repository declares.                                             *)

\* What is said of an endpoint, and where it is declared.
Declares(source, e) ==
  LET X == Range(MinedIn(source)) IN
  /\ e.known <=> e.name \in Host
  /\ e.sources \subseteq DOMAIN source
  /\ \E x \in X : x.name = e.name /\ x.scheme = e.scheme
  /\ \E x \in X : x.name = e.name /\ x.port = e.port
  /\ \E x \in X : x.name = e.name /\ x.path = e.path
  /\ \A v \in e.credentials : \E p \in DOMAIN source : \E i \in DOMAIN source[p].mappings :
       v \in Credentials(source[p].mappings[i]) /\ Beside(source[p].mappings[i], p, e.name)
  /\ e.origin = "source" => ~ e.known
  /\ ~ Truncated(source) /\ ~ e.known =>
       (e.origin = "source" <=> \A x \in X : x.name = e.name => x.origin = "source")

LEMMA EndpointsOf ==
  ASSUME NEW source \in Repositories
  PROVE  /\ scan_endpoints(source) \in Seq({e \in Endpoint1 : Declares(source, e)})
         /\ \A i, j \in DOMAIN scan_endpoints(source) :
              i # j /\ ~ scan_endpoints(source)[i].known /\ ~ scan_endpoints(source)[j].known =>
                scan_endpoints(source)[i].name # scan_endpoints(source)[j].name
         /\ ~ Truncated(source) =>
              /\ \A x \in Range(MinedIn(source)) : \E e \in Range(scan_endpoints(source)) : TakenIn(x, e)
              /\ \A p \in DOMAIN source : \A i \in DOMAIN source[p].mappings : \A name :
                   Beside(source[p].mappings[i], p, name) =>
                     \E e \in Range(scan_endpoints(source)) :
                       e.name = name /\ Credentials(source[p].mappings[i]) \subseteq e.credentials
<1> DEFINE found == Scan(source)
           X == Range(MinedIn(source))
           Y == Range(found)
           T == {e \in Endpoint1 : OneOf(Y, e)}
           R == scan_endpoints(source)
<1>1. DOMAIN source \subseteq Nat
  BY RepositoryAssumption
<1>2. /\ found \in Seq(Mined1(source)) /\ MinedIn(source) \in Seq(Mined1(source)) /\ Y \subseteq X
      /\ ~ Truncated(source) => Y = X
  BY Scanning
<1>3. \A p \in DOMAIN source : \A i \in DOMAIN source[p].mappings : \A name :
         Beside(source[p].mappings[i], p, name) =>
           \E x \in X : x.name = name /\ x.credentials = Credentials(source[p].mappings[i])
  BY Scanning
<1>4. R = merge(found)
  BY DEF scan_endpoints
<1> HIDE DEF found, R
<1>5. /\ R \in Seq(T)
      /\ \A x \in Y : \E e \in Range(R) : TakenIn(x, e)
      /\ \A i, j \in DOMAIN R : i # j /\ ~ R[i].known /\ ~ R[j].known => R[i].name # R[j].name
  BY <1>1, <1>2, <1>4, Merging
<1>6. Y \subseteq Mined1(source)
  BY <1>2, InRange
<1> HIDE DEF X, Y
<1>7. ASSUME NEW e \in T PROVE e \in Endpoint1 /\ Declares(source, e)
  <2>1. e \in Endpoint1 /\ OneOf(Y, e)
    OBVIOUS
  <2>2. \A x \in Y : /\ x.sources \subseteq DOMAIN source
                     /\ \A v \in x.credentials : \E p \in DOMAIN source : \E i \in DOMAIN source[p].mappings :
                          v \in Credentials(source[p].mappings[i]) /\ Beside(source[p].mappings[i], p, x.name)
    BY <1>6 DEF Mined1
  <2>3. e.sources \subseteq DOMAIN source
    BY <2>1, <2>2 DEF OneOf
  <2>4. ASSUME NEW v \in e.credentials
        PROVE  \E p \in DOMAIN source : \E i \in DOMAIN source[p].mappings :
                 v \in Credentials(source[p].mappings[i]) /\ Beside(source[p].mappings[i], p, e.name)
    <3>1. PICK x \in Y : x.name = e.name /\ v \in x.credentials
      BY <2>1 DEF OneOf
    <3>2. \E p \in DOMAIN source : \E i \in DOMAIN source[p].mappings :
            v \in Credentials(source[p].mappings[i]) /\ Beside(source[p].mappings[i], p, x.name)
      BY <2>2, <3>1
    <3> QED
      BY <3>1, <3>2
  <2>5. e.known <=> e.name \in Host
    BY <2>1 DEF OneOf
  <2>6. \E x \in X : x.name = e.name /\ x.scheme = e.scheme
    BY <1>2, <2>1 DEF OneOf
  <2>7. \E x \in X : x.name = e.name /\ x.port = e.port
    BY <1>2, <2>1 DEF OneOf
  <2>8. \E x \in X : x.name = e.name /\ x.path = e.path
    BY <1>2, <2>1 DEF OneOf
  <2>9. e.origin = "source" => ~ e.known
    BY <2>1 DEF OneOf
  <2>10. ASSUME ~ Truncated(source), ~ e.known
         PROVE  e.origin = "source" <=> \A x \in X : x.name = e.name => x.origin = "source"
    BY <1>2, <2>1, <2>10 DEF OneOf
  <2> QED
    BY <2>1, <2>3, <2>4, <2>5, <2>6, <2>7, <2>8, <2>9, <2>10 DEF Declares, X
<1>8. R \in Seq({e \in Endpoint1 : Declares(source, e)})
  <2> DEFINE U == {e \in Endpoint1 : Declares(source, e)}
  <2>1. T \subseteq U
    BY <1>7
  <2> HIDE DEF T, U
  <2>2. R \in Seq(U)
    BY <1>5, <2>1, SeqMonotonic
  <2> QED
    BY <2>2 DEF U
<1>9. ~ Truncated(source) => \A x \in X : \E e \in Range(R) : TakenIn(x, e)
  BY <1>2, <1>5
<1>10. ASSUME ~ Truncated(source), NEW p \in DOMAIN source, NEW i \in DOMAIN source[p].mappings, NEW name,
             Beside(source[p].mappings[i], p, name)
      PROVE  \E e \in Range(R) : e.name = name /\ Credentials(source[p].mappings[i]) \subseteq e.credentials
  <2>1. PICK x \in X : x.name = name /\ x.credentials = Credentials(source[p].mappings[i])
    BY <1>10, <1>3
  <2>2. PICK e \in Range(R) : TakenIn(x, e)
    BY <1>9, <1>10
  <2> QED
    BY <2>1, <2>2 DEF TakenIn
<1> QED
  BY <1>5, <1>8, <1>9, <1>10 DEF R, X

Service1(source) == [name : Host, ports : Seq(Nat \ {0}), source : DOMAIN source]

\* The services of all files, file by file.
LEMMA ServicesFound ==
  ASSUME NEW source \in Repositories
  PROVE  AllServices(source) \in Seq(Service1(source))
<1> DEFINE paths == Paths(source)
           D == DOMAIN paths
           T == Service1(source)
           f == [n \in D |-> ServicesOf(source[paths[n]].services, paths[n])]
           result == AllServices(source)
<1>1. /\ D = 1 .. Len(paths) /\ Len(paths) \in Nat
      /\ \A n \in D : paths[n] \in DOMAIN source
  BY PathsOf
<1>2. result = FlattenSeq(f)
  BY DEF AllServices
<1>3. ASSUME NEW p \in DOMAIN source PROVE ServicesOf(source[p].services, p) \in Seq(T)
  <2> DEFINE services == source[p].services
             w == ServicesOf(services, p)
  <2>1. source[p] \in RepositoryFile
    BY RepositoryAssumption
  <2>2. services \in Seq(ServiceEntry)
    BY <2>1 DEF RepositoryFile
  <2>3. w = [i \in DOMAIN services |->
               [name |-> services[i].name, ports |-> services[i].ports, source |-> p]]
    BY DEF ServicesOf
  <2> HIDE DEF services, w
  <2>4. /\ DOMAIN services = 1 .. Len(services) /\ Len(services) \in Nat
        /\ \A i \in DOMAIN services : services[i] \in ServiceEntry
    BY <2>2, InRange
  <2>5. \A i \in DOMAIN services : services[i].name \in Host /\ services[i].ports \in Seq(Nat \ {0})
    BY <2>4 DEF ServiceEntry
  <2>6. \A i \in DOMAIN services : w[i] \in T
    BY <2>3, <2>5 DEF Service1
  <2> HIDE DEF T
  <2>7. w \in [1 .. Len(services) -> T]
    BY <2>3, <2>4, <2>6
  <2> QED
    BY <2>4, <2>7, SeqDef DEF w, services
<1> HIDE DEF T
<1>4. f \in [D -> Seq(T)]
  BY <1>1, <1>3
<1> HIDE DEF f, result, D, paths
<1>5. f \in Seq(Seq(T))
  BY <1>1, <1>4, ListOfLists
<1>6. result \in Seq(T)
  BY <1>2, <1>5, Flattened
<1> QED
  BY <1>6 DEF result, T

LEMMA ServicesInOrder ==
  ASSUME NEW source \in Repositories
  PROVE  scan_compose(source) \in Seq(Service1(source))
<1> DEFINE all == AllServices(source)
           S == DOMAIN all
           below == [q \in S |-> {p \in S : Before(<<all[p].name, p>>, <<all[q].name, q>>)}]
           major == [p \in S |-> all[p].name]
           minor == [p \in S |-> p]
           seq == InOrder(S, LAMBDA i, j : Before(<<all[i].name, i>>, <<all[j].name, j>>))
           N == Cardinality(S)
           At(n) == CHOOSE x \in S : Cardinality({y \in S : Before(<<all[y].name, y>>, <<all[x].name, x>>)}) = n - 1
           T == Service1(source)
           result == scan_compose(source)
<1>1. all \in Seq(T)
  BY ServicesFound
<1>2. seq = [n \in 1 .. N |-> At(n)]
  BY DEF InOrder
<1>3. result = [n \in DOMAIN seq |-> all[seq[n]]]
  BY DEF scan_compose
<1> HIDE DEF all, seq, result
<1>4. S = 1 .. Len(all) /\ Len(all) \in Nat /\ \A i \in S : all[i] \in T
  BY <1>1, InRange
<1>5. \A i \in S : i \in Nat /\ all[i].name \in Nat
  <2>1. \A i \in S : all[i].name \in Host
    BY <1>4 DEF Service1
  <2>2. Host \subseteq Nat
    BY EndpointAssumption
  <2>3. \A i \in 1 .. Len(all) : i \in Nat
    BY <1>4
  <2> QED
    BY <1>4, <2>1, <2>2, <2>3
<1>6. IsFiniteSet(S)
  BY <1>4, FS_Interval
<1>7. \A x \in S : below[x] = {y \in S : Before(<<all[y].name, y>>, <<all[x].name, x>>)}
  OBVIOUS
<1>8. major \in [S -> Nat] /\ minor \in [S -> Nat]
  BY <1>5
<1>9. \A x, y \in S : major[x] = major[y] /\ minor[x] = minor[y] => x = y
  OBVIOUS
<1>10. below \in [S -> SUBSET S]
  OBVIOUS
<1>11. \A x, y \in S :
        y \in below[x] <=> major[y] < major[x] \/ (major[y] = major[x] /\ minor[y] < minor[x])
  BY DEF Before
<1>12. \E f : seq = [n \in 1 .. N |-> f[n]]
  <2> HIDE DEF N, At
  <2>1. seq = [n \in 1 .. N |-> seq[n]]
    BY <1>2
  <2> QED
    BY <2>1, Zenon
<1> HIDE DEF below, major, minor, S
<1>13. \A n \in 1 .. N : (\E x \in S : Cardinality(below[x]) = n - 1) =>
         seq[n] \in S /\ Cardinality(below[seq[n]]) = n - 1
  <2>1. TAKE n \in 1 .. N
  <2>2. HAVE \E x \in S : Cardinality(below[x]) = n - 1
  <2> DEFINE P(x) == Cardinality({y \in S : Before(<<all[y].name, y>>, <<all[x].name, x>>)}) = n - 1
  <2>3. \E x \in S : P(x)
    BY <1>7, <2>2
  <2>4. seq[n] = CHOOSE x \in S : P(x)
    BY <1>2, <2>1
  <2>5. seq[n] \in S /\ P(seq[n])
    <3> HIDE DEF P
    <3> QED
      BY <2>3, <2>4
  <2> QED
    BY <1>7, <2>5
<1>14. Below(S, major, minor, below)
  BY <1>6, <1>8, <1>9, <1>10, <1>11 DEF Below
<1>15. Places(S, below, seq)
  BY <1>12, <1>13 DEF Places
<1>16. Lists(S, seq)
  BY <1>14, <1>15, KeysInOrder
<1>17. DOMAIN seq = 1 .. Len(seq) /\ Len(seq) \in Nat /\ \A n \in DOMAIN seq : seq[n] \in S
  <2>1. seq \in Seq(S)
    BY <1>16 DEF Lists
  <2> QED
    BY <2>1, InRange
<1>18. \A n \in DOMAIN seq : result[n] \in T
  BY <1>3, <1>4, <1>17
<1> HIDE DEF T
<1>19. result \in [1 .. Len(seq) -> T]
  BY <1>3, <1>17, <1>18
<1>20. result \in Seq(T)
  BY <1>17, <1>19, SeqDef
<1> QED
  BY <1>20 DEF result, T

-----------------------------------------------------------------------------
(* Absorbing the declarations, one at a time: the inductive invariant.       *)

Declared1 == Range(scan_endpoints(repository))
Served1 == Range(scan_compose(repository))

Ports == {DefaultPort[scheme] : scheme \in Texts} \cup Nat
SystemId == {<<name>> : name \in Names} \cup {<<name, port>> : name \in Names, port \in Ports}
System1 ==
  [id : SystemId, address : Names, dns : Names \cup {NoName},
   identity : {"declared", "env-parameterized", "template-placeholder"},
   port : Ports, path : Texts, credentials : SUBSET Names, sources : SUBSET Nat, evidence : SUBSET Nat]

TypeI ==
  /\ repository \in Repositories
  /\ stage \in {"inventory", "services", "endpoints", "done"}
  /\ status \in {"partial", "complete", "complete-with-unresolved"}
  /\ ledger \in Seq({"T4", "T5"})
  /\ systems \in Seq(System1)
  /\ stage = "services" => todo \in Seq(Served1)
  /\ stage = "endpoints" => todo \in Seq(Declared1)

\* The files scanned come first in the ledger, and every later record is the
\* evidence of one system.
LedgerI ==
  /\ stage = "inventory" => ledger = <<>> /\ systems = <<>> /\ claims = {} /\ unresolved = {}
  /\ stage # "inventory" => DOMAIN Scanned \subseteq DOMAIN ledger
  /\ \A i, j \in DOMAIN systems : i # j => systems[i].evidence \cap systems[j].evidence = {}
  /\ stage # "inventory" =>
       \A n : n \in DOMAIN ledger \ DOMAIN Scanned <=> \E i \in DOMAIN systems : n \in systems[i].evidence

\* A name has one system, and what is still to come under a variable has none.
NamesI ==
  /\ \A i, j \in DOMAIN systems : i # j => systems[i].address # systems[j].address
  /\ stage = "services" =>
       \A i \in DOMAIN systems :
         systems[i].address \in Host /\ systems[i].id = <<systems[i].address>> /\ systems[i].identity = "declared"
  /\ stage = "endpoints" =>
       \A k \in DOMAIN todo : ~ todo[k].known =>
         /\ \A i \in DOMAIN systems : systems[i].address # todo[k].name
         /\ \A l \in DOMAIN todo : l # k /\ ~ todo[l].known => todo[l].name # todo[k].name

\* What is said of a system was declared of its name.
Own(s) ==
  /\ s.dns = IF s.identity = "declared" THEN s.address ELSE NoName
  /\ s.path = "" \/ \E e \in Declared1 : e.name = s.address /\ e.path = s.path
  /\ \/ s.port = 0
     \/ \E e \in Declared1 : e.name = s.address /\ s.port = Port(e)
     \/ \E d \in Served1 : d.name = s.address /\ s.port \in Range(d.ports)
  /\ \A v \in s.credentials : \E e \in Declared1 : e.name = s.address /\ v \in e.credentials
  /\ s.sources \subseteq DOMAIN repository
  /\ (\E d \in Served1 : d.name = s.address) \/ (\E e \in Declared1 : e.name = s.address)

OwnI == \A i \in DOMAIN systems : Own(systems[i])

\* A declaration that was absorbed is in the system of its name.
Served(d) == \E i \in DOMAIN systems : systems[i].address = d.name
Kept(e) ==
  \E i \in DOMAIN systems :
    /\ systems[i].address = e.name /\ e.credentials \subseteq systems[i].credentials
    /\ systems[i].path = "" => e.path = ""

KeptI ==
  /\ stage = "services" => \A d \in Served1 : d \in Range(todo) \/ Served(d)
  /\ stage \in {"endpoints", "done"} => \A d \in Served1 : Served(d)
  /\ stage = "endpoints" => \A e \in Declared1 : e \in Range(todo) \/ Kept(e)
  /\ stage = "done" => \A e \in Declared1 : Kept(e)

FlaggedI ==
  /\ \A id : id \in unresolved <=> \E i \in DOMAIN systems : systems[i].identity # "declared" /\ systems[i].id = id
  /\ stage = "done" =>
       /\ summary = {FindingOf(systems[i]) : i \in DOMAIN systems}
       /\ status = IF unresolved = {} THEN "complete" ELSE "complete-with-unresolved"

\* A claim is of a package, of a service, or of an endpoint; only the last may be
\* a proposal, when its declaration is only read in the source.
Says1(claim) ==
  \/ claim.object[1] = "package" /\ claim.cap = "declared"
  \/ claim.object[1] = "service" /\ claim.object[2] \in Host /\ claim.cap = "declared"
  \/ \E e \in Declared1 :
       /\ claim.object[1] = "service" /\ claim.object[2] = e.name
       /\ claim.cap = "proposal" <=> e.origin = "source"

ClaimsI ==
  /\ \A claim \in claims : claim.supports \subseteq DOMAIN ledger /\ Says1(claim)
  /\ stage # "inventory" =>
       \A c \in Components : \E claim \in claims :
         claim.object = Package(c) /\ claim.supports = {EvidenceOf(c.source)}

AbsorbInv == TypeI /\ LedgerI /\ NamesI /\ OwnI /\ KeptI /\ FlaggedI /\ ClaimsI

LEMMA WhatIsDeclared ==
  ASSUME repository \in Repositories
  PROVE  /\ scan_endpoints(repository) \in Seq(Declared1) /\ scan_compose(repository) \in Seq(Served1)
         /\ \A e \in Declared1 : e \in Endpoint1 /\ Declares(repository, e)
         /\ \A d \in Served1 : d.name \in Host /\ d.ports \in Seq(Nat \ {0}) /\ d.source \in DOMAIN repository
<1> DEFINE E == scan_endpoints(repository)
           S == scan_compose(repository)
           T == {e \in Endpoint1 : Declares(repository, e)}
           U == Service1(repository)
<1>1. E \in Seq(T)
  BY EndpointsOf
<1>2. S \in Seq(U)
  BY ServicesInOrder
<1>3. Declared1 = Range(E) /\ Served1 = Range(S)
  BY DEF Declared1, Served1
<1> HIDE DEF E, S, T, U
<1>4. E \in Seq(Range(E)) /\ Range(E) \subseteq T
  <2>1. /\ DOMAIN E = 1 .. Len(E) /\ Len(E) \in Nat /\ Range(E) \subseteq T
        /\ \A i \in DOMAIN E : E[i] \in Range(E)
    BY <1>1, InRange
  <2>2. E \in [1 .. Len(E) -> Range(E)]
    BY <1>1, <2>1, LenProperties
  <2> QED
    BY <2>1, <2>2, SeqDef
<1>5. S \in Seq(Range(S)) /\ Range(S) \subseteq U
  <2>1. /\ DOMAIN S = 1 .. Len(S) /\ Len(S) \in Nat /\ Range(S) \subseteq U
        /\ \A i \in DOMAIN S : S[i] \in Range(S)
    BY <1>2, InRange
  <2>2. S \in [1 .. Len(S) -> Range(S)]
    BY <1>2, <2>1, LenProperties
  <2> QED
    BY <2>1, <2>2, SeqDef
<1>6. \A e \in Declared1 : e \in Endpoint1 /\ Declares(repository, e)
  BY <1>3, <1>4 DEF T
<1>7. \A d \in Served1 : d.name \in Host /\ d.ports \in Seq(Nat \ {0}) /\ d.source \in DOMAIN repository
  BY <1>3, <1>5 DEF U, Service1
<1> QED
  BY <1>3, <1>4, <1>5, <1>6, <1>7 DEF E, S

LEMMA AbsorbInit == InspectInit => AbsorbInv
<1> SUFFICES ASSUME InspectInit PROVE AbsorbInv
  OBVIOUS
<1> USE DEF InspectInit
<1>1. <<>> \in Seq({"T4", "T5"}) /\ <<>> \in Seq(System1) /\ DOMAIN <<>> = {}
  OBVIOUS
<1>2. TypeI
  BY <1>1 DEF TypeI
<1>3. LedgerI
  BY <1>1 DEF LedgerI
<1>4. NamesI
  BY <1>1 DEF NamesI
<1>5. OwnI
  BY <1>1 DEF OwnI
<1>6. KeptI
  BY DEF KeptI
<1>7. FlaggedI
  BY <1>1 DEF FlaggedI
<1>8. ClaimsI
  BY DEF ClaimsI
<1> QED
  BY <1>2, <1>3, <1>4, <1>5, <1>6, <1>7, <1>8 DEF AbsorbInv

\* The scanned files, by their places.
LEMMA ScannedIs ==
  ASSUME repository \in Repositories
  PROVE  /\ DOMAIN Scanned = 1 .. Len(Scanned) /\ Len(Scanned) \in Nat
         /\ \A c \in Components : EvidenceOf(c.source) \in DOMAIN Scanned /\ Scanned[EvidenceOf(c.source)] = c.source
<1>1. Lists(Read2(repository), Scanned)
  BY ScannedFiles DEF Scanned
<1>2. Scanned \in Seq(Read2(repository))
  BY <1>1 DEF Lists
<1>3. DOMAIN Scanned = 1 .. Len(Scanned) /\ Len(Scanned) \in Nat
  BY <1>2, InRange
<1>4. \A c \in Components : c.source \in Range(Scanned)
  BY InventoryOf DEF Components, Scanned
<1>5. \A c \in Components : \E e \in DOMAIN Scanned : Scanned[e] = c.source
  BY <1>4 DEF Range
<1>6. \A c \in Components : EvidenceOf(c.source) \in DOMAIN Scanned /\ Scanned[EvidenceOf(c.source)] = c.source
  BY <1>5 DEF EvidenceOf
<1> QED
  BY <1>3, <1>6

LEMMA RecordKeeps ==
  ASSUME AbsorbInv, RecordInventory
  PROVE  AbsorbInv'
<1> USE DEF RecordInventory
<1>1. /\ repository \in Repositories /\ repository' = repository
      /\ systems = <<>> /\ systems' = systems /\ claims = {} /\ unresolved = {} /\ unresolved' = {}
      /\ stage' = "services" /\ DOMAIN systems = {}
      /\ systems \in Seq(System1) /\ status' = status
      /\ status \in {"partial", "complete", "complete-with-unresolved"}
  BY DEF AbsorbInv, TypeI, LedgerI
<1>2. DOMAIN Scanned = 1 .. Len(Scanned) /\ Len(Scanned) \in Nat
  BY <1>1, ScannedIs
<1>3. ledger' \in Seq({"T4", "T5"}) /\ DOMAIN ledger' = DOMAIN Scanned /\ \A e \in DOMAIN Scanned : ledger'[e] = "T4"
  <2>1. ledger' = [e \in DOMAIN Scanned |-> "T4"]
    OBVIOUS
  <2>2. ledger' \in [1 .. Len(Scanned) -> {"T4", "T5"}]
    BY <1>2, <2>1
  <2> QED
    BY <1>2, <2>1, <2>2, SeqDef
<1>4. scan_compose(repository) \in Seq(Served1) /\ Served1' = Served1 /\ Declared1' = Declared1
  BY <1>1, WhatIsDeclared DEF Served1, Declared1
<1>5. todo' = scan_compose(repository)
  OBVIOUS
<1>6. TypeI'
  BY <1>1, <1>3, <1>4, <1>5 DEF TypeI
<1>7. Scanned' = Scanned /\ Components' = Components
  BY <1>1 DEF Scanned, Components
<1>8. LedgerI'
  BY <1>1, <1>3, <1>7 DEF LedgerI
<1>9. NamesI'
  BY <1>1 DEF NamesI
<1>10. OwnI'
  BY <1>1 DEF OwnI
<1>11. KeptI'
  BY <1>1, <1>4, <1>5 DEF KeptI, Served1
<1>12. FlaggedI'
  BY <1>1 DEF FlaggedI
<1>13. ClaimsI'
  <2> DEFINE said(c) == Claim(Package(c), {EvidenceOf(c.source)}, ledger')
  <2>1. claims' = {said(c) : c \in Components}
    OBVIOUS
  <2>2. ASSUME NEW c \in Components
        PROVE  /\ said(c).object = Package(c) /\ said(c).supports = {EvidenceOf(c.source)}
               /\ said(c).cap = "declared"
    <3> DEFINE found == {EvidenceOf(c.source)} \cap DOMAIN ledger'
    <3>1. \A e \in found : ledger'[e] = "T4"
      BY <1>3
    <3>2. ~ (found # {} /\ \A e \in found : ledger'[e] = "T5")
      BY <3>1
    <3> QED
      BY <3>2 DEF Claim
  <2>3. \A c \in Components : EvidenceOf(c.source) \in DOMAIN ledger'
    BY <1>1, <1>3, ScannedIs
  <2>4. \A c \in Components : Package(c)[1] = "package"
    BY DEF Package
  <2> HIDE DEF said
  <2>5. \A claim \in claims' : /\ claim.supports \subseteq DOMAIN ledger'
                               /\ claim.object[1] = "package" /\ claim.cap = "declared"
    <3>1. TAKE claim \in claims'
    <3>2. PICK c \in Components : claim = said(c)
      BY <2>1
    <3>3. claim.supports \subseteq DOMAIN ledger'
      BY <2>2, <2>3, <3>2
    <3>4. claim.object = Package(c) /\ Package(c)[1] = "package"
      BY <2>2, <2>4, <3>2
    <3>5. claim.cap = "declared"
      BY <2>2, <3>2
    <3> QED
      BY <3>3, <3>4, <3>5
  <2>6. \A c \in Components : \E claim \in claims' :
          claim.object = Package(c) /\ claim.supports = {EvidenceOf(c.source)}
    BY <2>1, <2>2
  <2>7. \A path : EvidenceOf(path)' = EvidenceOf(path)
    BY <1>7 DEF EvidenceOf
  <2> QED
    BY <1>7, <2>5, <2>6, <2>7 DEF ClaimsI, Says1, Package
<1> QED
  BY <1>6, <1>8, <1>9, <1>10, <1>11, <1>12, <1>13 DEF AbsorbInv

\* A system that goes on as another: the same one, with what was added.
Extends(s, x) ==
  /\ x.id = s.id /\ x.address = s.address /\ x.dns = s.dns /\ x.identity = s.identity
  /\ s.credentials \subseteq x.credentials
  /\ x.path = "" => s.path = ""

\* A step that puts a system at a place, a new one or one that was there, with a
\* new record for its evidence.
Absorbs(n, x) ==
  /\ x \in System1 /\ systems' \in Seq(System1)
  /\ DOMAIN systems' = DOMAIN systems \cup {n}
  /\ systems'[n] = x /\ \A i \in DOMAIN systems : i # n => systems'[i] = systems[i]
  /\ x.evidence = {NextEvidence} \cup UNION {systems[i].evidence : i \in DOMAIN systems \cap {n}}
  /\ n \in DOMAIN systems => Extends(systems[n], x)
  /\ n \notin DOMAIN systems => \A i \in DOMAIN systems : systems[i].address # x.address
  /\ ledger' \in Seq({"T4", "T5"}) /\ DOMAIN ledger' = DOMAIN ledger \cup {NextEvidence}
  /\ NextEvidence \notin DOMAIN ledger
  /\ repository' = repository

\* A sequence with one more member, or with another in a place.
LEMMA Longer ==
  ASSUME NEW T, NEW list \in Seq(T), NEW x \in T
  PROVE  /\ Append(list, x) \in Seq(T) /\ DOMAIN Append(list, x) = DOMAIN list \cup {Len(list) + 1}
         /\ Append(list, x)[Len(list) + 1] = x
         /\ \A i \in DOMAIN list : Append(list, x)[i] = list[i]
         /\ Len(list) + 1 \notin DOMAIN list
<1>1. DOMAIN list = 1 .. Len(list) /\ Len(list) \in Nat
  BY InRange
<1>2. /\ Append(list, x) \in Seq(T) /\ Len(Append(list, x)) = Len(list) + 1
      /\ \A i \in 1 .. Len(list) : Append(list, x)[i] = list[i]
      /\ Append(list, x)[Len(list) + 1] = x
  BY AppendProperties
<1>3. DOMAIN Append(list, x) = 1 .. Len(list) + 1
  BY <1>2, LenProperties
<1> QED
  BY <1>1, <1>2, <1>3

LEMMA Replaced ==
  ASSUME NEW T, NEW list \in Seq(T), NEW n \in DOMAIN list, NEW x \in T
  PROVE  /\ [list EXCEPT ![n] = x] \in Seq(T) /\ DOMAIN [list EXCEPT ![n] = x] = DOMAIN list
         /\ [list EXCEPT ![n] = x][n] = x
         /\ \A i \in DOMAIN list : i # n => [list EXCEPT ![n] = x][i] = list[i]
<1>1. DOMAIN list = 1 .. Len(list) /\ Len(list) \in Nat /\ list \in [1 .. Len(list) -> T]
  BY LenProperties
<1>2. [list EXCEPT ![n] = x] \in [1 .. Len(list) -> T]
  BY <1>1
<1>3. [list EXCEPT ![n] = x] \in Seq(T)
  BY <1>1, <1>2, SeqDef
<1> QED
  BY <1>1, <1>3

\* What a match is: the first place of the set, or none.
LEMMA FirstIs ==
  ASSUME NEW list, DOMAIN list \subseteq Nat \ {0}, NEW S \in SUBSET DOMAIN list
  PROVE  /\ First(S) # 0 => First(S) \in S
         /\ First(S) = 0 => S = {}
<1>1. CASE S = {}
  BY <1>1 DEF First
<1>2. CASE S # {}
  <2>1. S \in SUBSET Nat
    OBVIOUS
  <2>2. Minimum(S) \in S
    BY <1>2, <2>1, MinimumIsLeast
  <2> QED
    BY <1>2, <2>2 DEF First
<1> QED
  BY <1>1, <1>2

LEMMA EvidenceIsNew ==
  ASSUME TypeI
  PROVE  /\ NextEvidence \in Nat /\ NextEvidence \notin DOMAIN ledger /\ DOMAIN ledger \subseteq Nat
         /\ \A tier \in {"T4", "T5"} :
              /\ Append(ledger, tier) \in Seq({"T4", "T5"})
              /\ DOMAIN Append(ledger, tier) = DOMAIN ledger \cup {NextEvidence}
              /\ Append(ledger, tier)[NextEvidence] = tier
<1>1. ledger \in Seq({"T4", "T5"})
  BY DEF TypeI
<1>2. DOMAIN ledger = 1 .. Len(ledger) /\ Len(ledger) \in Nat
  BY <1>1, InRange
<1>3. \A tier \in {"T4", "T5"} :
        /\ Append(ledger, tier) \in Seq({"T4", "T5"})
        /\ DOMAIN Append(ledger, tier) = DOMAIN ledger \cup {Len(ledger) + 1}
        /\ Append(ledger, tier)[Len(ledger) + 1] = tier
  BY <1>1, Longer
<1> QED
  BY <1>2, <1>3 DEF NextEvidence

LEMMA AbsorbsLedger ==
  ASSUME TypeI, LedgerI, stage # "inventory", stage' # "inventory", NEW n, NEW x, Absorbs(n, x)
  PROVE  LedgerI'
<1>1. /\ DOMAIN systems' = DOMAIN systems \cup {n}
      /\ systems'[n] = x /\ \A i \in DOMAIN systems : i # n => systems'[i] = systems[i]
      /\ x.evidence = {NextEvidence} \cup UNION {systems[i].evidence : i \in DOMAIN systems \cap {n}}
      /\ DOMAIN ledger' = DOMAIN ledger \cup {NextEvidence} /\ NextEvidence \notin DOMAIN ledger
  BY DEF Absorbs
<1>2. Scanned' = Scanned
  BY DEF Absorbs, Scanned
<1>3. DOMAIN Scanned \subseteq DOMAIN ledger
  BY DEF LedgerI
<1>4. \A m : m \in DOMAIN ledger \ DOMAIN Scanned <=> \E i \in DOMAIN systems : m \in systems[i].evidence
  BY DEF LedgerI
<1>5. \A i, j \in DOMAIN systems : i # j => systems[i].evidence \cap systems[j].evidence = {}
  BY DEF LedgerI
<1>6. \A m : m \in x.evidence <=> m = NextEvidence \/ (n \in DOMAIN systems /\ m \in systems[n].evidence)
  BY <1>1
<1>7. \A i \in DOMAIN systems : NextEvidence \notin systems[i].evidence
  BY <1>1, <1>4
<1>8. \A i \in DOMAIN systems' : i # n => i \in DOMAIN systems /\ systems'[i] = systems[i]
  BY <1>1
<1>9. \A i \in DOMAIN systems' : i # n => systems'[i].evidence \cap systems'[n].evidence = {}
  BY <1>1, <1>5, <1>6, <1>7, <1>8
<1>10. \A i, j \in DOMAIN systems' : i # j => systems'[i].evidence \cap systems'[j].evidence = {}
  BY <1>5, <1>8, <1>9
<1>11. ASSUME NEW m
       PROVE  m \in DOMAIN ledger' \ DOMAIN Scanned' <=> \E i \in DOMAIN systems' : m \in systems'[i].evidence
  <2>1. CASE m = NextEvidence
    <3>1. m \in DOMAIN ledger' \ DOMAIN Scanned'
      BY <1>1, <1>2, <1>3, <2>1
    <3>2. n \in DOMAIN systems' /\ m \in systems'[n].evidence
      BY <1>1, <1>6, <2>1
    <3> QED
      BY <3>1, <3>2
  <2>2. CASE m # NextEvidence
    <3>1. m \in DOMAIN ledger' \ DOMAIN Scanned' <=> m \in DOMAIN ledger \ DOMAIN Scanned
      BY <1>1, <1>2, <2>2
    <3>2. ASSUME NEW i \in DOMAIN systems, m \in systems[i].evidence
          PROVE  \E k \in DOMAIN systems' : m \in systems'[k].evidence
      BY <1>1, <1>6, <3>2
    <3>3. ASSUME NEW k \in DOMAIN systems', m \in systems'[k].evidence
          PROVE  \E i \in DOMAIN systems : m \in systems[i].evidence
      BY <1>1, <1>6, <1>8, <2>2, <3>3
    <3> QED
      BY <1>4, <3>1, <3>2, <3>3
  <2> QED
    BY <2>1, <2>2
<1>12. DOMAIN Scanned' \subseteq DOMAIN ledger'
  BY <1>1, <1>2, <1>3
<1> QED
  BY <1>10, <1>11, <1>12 DEF LedgerI

LEMMA AbsorbsNames ==
  ASSUME NamesI, NEW n, NEW x, Absorbs(n, x)
  PROVE  /\ \A i, j \in DOMAIN systems' : i # j => systems'[i].address # systems'[j].address
         /\ \A i \in DOMAIN systems' : systems'[i].address = x.address \/ (i \in DOMAIN systems /\ systems'[i] = systems[i])
<1>1. /\ DOMAIN systems' = DOMAIN systems \cup {n}
      /\ systems'[n] = x /\ \A i \in DOMAIN systems : i # n => systems'[i] = systems[i]
      /\ n \in DOMAIN systems => x.address = systems[n].address
      /\ n \notin DOMAIN systems => \A i \in DOMAIN systems : systems[i].address # x.address
  BY DEF Absorbs, Extends
<1>2. \A i, j \in DOMAIN systems : i # j => systems[i].address # systems[j].address
  BY DEF NamesI
<1>3. \A i \in DOMAIN systems : i # n => systems'[i] = systems[i] /\ systems[i].address # x.address
  BY <1>1, <1>2
<1> QED
  BY <1>1, <1>2, <1>3

LEMMA AbsorbsOwn ==
  ASSUME OwnI, NEW n, NEW x, Absorbs(n, x), Own(x)
  PROVE  OwnI'
<1>1. /\ DOMAIN systems' = DOMAIN systems \cup {n}
      /\ systems'[n] = x /\ \A i \in DOMAIN systems : i # n => systems'[i] = systems[i]
      /\ repository' = repository
  BY DEF Absorbs
<1>2. \A i \in DOMAIN systems' : Own(systems'[i])
  BY <1>1 DEF OwnI
<1>3. Declared1' = Declared1 /\ Served1' = Served1
  BY <1>1 DEF Declared1, Served1
<1> QED
  BY <1>1, <1>2, <1>3 DEF OwnI, Own, Port

LEMMA AbsorbsKept ==
  ASSUME NEW n, NEW x, Absorbs(n, x)
  PROVE  /\ \A d : Served(d) \/ d.name = x.address => Served(d)'
         /\ \A e : Kept(e) => Kept(e)'
         /\ \A e : e.name = x.address /\ e.credentials \subseteq x.credentials /\ (x.path = "" => e.path = "") => Kept(e)'
<1>1. /\ DOMAIN systems' = DOMAIN systems \cup {n}
      /\ systems'[n] = x /\ \A i \in DOMAIN systems : i # n => systems'[i] = systems[i]
      /\ n \in DOMAIN systems => Extends(systems[n], x)
  BY DEF Absorbs
<1>2. \A i \in DOMAIN systems : /\ i \in DOMAIN systems' /\ systems'[i].address = systems[i].address
                                /\ systems[i].credentials \subseteq systems'[i].credentials
                                /\ systems'[i].path = "" => systems[i].path = ""
  BY <1>1 DEF Extends
<1>3. n \in DOMAIN systems'
  BY <1>1
<1>4. \A d : Served(d) \/ d.name = x.address => Served(d)'
  BY <1>1, <1>2, <1>3 DEF Served
<1>5. \A e : Kept(e) => Kept(e)'
  BY <1>2 DEF Kept
<1>6. \A e : e.name = x.address /\ e.credentials \subseteq x.credentials /\ (x.path = "" => e.path = "") => Kept(e)'
  BY <1>1, <1>3 DEF Kept
<1> QED
  BY <1>4, <1>5, <1>6

\* A new claim rests on its record; the others stay as they are.
LEMMA ClaimAdded ==
  ASSUME AbsorbInv, NEW n, NEW x, Absorbs(n, x), NEW name, NEW tier \in {"T4", "T5"},
         ledger' = Append(ledger, tier), stage # "inventory",
         claims' = claims \cup {Claim(<<"service", name>>, {NextEvidence}, ledger')},
         \/ name \in Host /\ tier = "T4"
         \/ \E e \in Declared1 : e.name = name /\ (tier = "T5" <=> e.origin = "source")
  PROVE  ClaimsI'
<1> DEFINE new == Claim(<<"service", name>>, {NextEvidence}, ledger')
<1>1. DOMAIN ledger' = DOMAIN ledger \cup {NextEvidence} /\ ledger'[NextEvidence] = tier /\ repository' = repository
  BY EvidenceIsNew DEF AbsorbInv, Absorbs
<1>2. /\ new.object[1] = "service" /\ new.object[2] = name /\ new.supports = {NextEvidence}
      /\ new.cap = IF tier = "T5" THEN "proposal" ELSE "declared"
  <2> DEFINE found == {NextEvidence} \cap DOMAIN ledger'
  <2>1. found = {NextEvidence}
    BY <1>1
  <2>2. found # {} /\ \A e \in found : ledger'[e] = tier
    BY <1>1, <2>1
  <2>3. (found # {} /\ \A e \in found : ledger'[e] = "T5") <=> tier = "T5"
    BY <2>2
  <2>4. new = [object |-> <<"service", name>>, supports |-> {NextEvidence},
               cap |-> IF found # {} /\ \A e \in found : ledger'[e] = "T5" THEN "proposal" ELSE "declared"]
    BY DEF Claim
  <2> HIDE DEF new, found
  <2> QED
    BY <2>3, <2>4
<1>3. Declared1' = Declared1 /\ Scanned' = Scanned /\ Components' = Components
  BY <1>1 DEF Declared1, Scanned, Components
<1> HIDE DEF new
<1>4. Says1(new)
  BY <1>2 DEF Says1
<1>5. claims' = claims \cup {new}
  BY DEF new
<1>6. \A claim \in claims : claim.supports \subseteq DOMAIN ledger /\ Says1(claim)
  BY DEF AbsorbInv, ClaimsI
<1>7. \A claim \in claims' : claim.supports \subseteq DOMAIN ledger' /\ Says1(claim)
  BY <1>1, <1>2, <1>4, <1>5, <1>6
<1>8. \A claim : Says1(claim)' <=> Says1(claim)
  BY <1>3 DEF Says1
<1>9. \A path : EvidenceOf(path)' = EvidenceOf(path)
  BY <1>3 DEF EvidenceOf
<1>10. \A c \in Components : \E claim \in claims :
         claim.object = Package(c) /\ claim.supports = {EvidenceOf(c.source)}
  BY DEF AbsorbInv, ClaimsI
<1>11. \A c \in Components' : \E claim \in claims' :
         claim.object = Package(c) /\ claim.supports = {EvidenceOf(c.source)'}
  BY <1>3, <1>5, <1>9, <1>10
<1> QED
  BY <1>7, <1>8, <1>11 DEF ClaimsI, Package

LEMMA AbsorbsFlagged ==
  ASSUME FlaggedI, NEW n, NEW x, Absorbs(n, x), stage' # "done",
         unresolved' = unresolved \cup
           IF n \notin DOMAIN systems /\ x.identity # "declared" THEN {x.id} ELSE {}
  PROVE  FlaggedI'
<1>1. /\ DOMAIN systems' = DOMAIN systems \cup {n}
      /\ systems'[n] = x /\ \A i \in DOMAIN systems : i # n => systems'[i] = systems[i]
      /\ n \in DOMAIN systems => Extends(systems[n], x)
  BY DEF Absorbs
<1>2. \A id : id \in unresolved <=> \E i \in DOMAIN systems : systems[i].identity # "declared" /\ systems[i].id = id
  BY DEF FlaggedI
<1>3. \A i \in DOMAIN systems :
        i \in DOMAIN systems' /\ systems'[i].identity = systems[i].identity /\ systems'[i].id = systems[i].id
  BY <1>1 DEF Extends
<1>4. ASSUME NEW id, id \in unresolved'
      PROVE  \E i \in DOMAIN systems' : systems'[i].identity # "declared" /\ systems'[i].id = id
  <2>1. CASE id \in unresolved
    BY <1>2, <1>3, <2>1
  <2>2. CASE id \notin unresolved
    <3>1. n \notin DOMAIN systems /\ x.identity # "declared" /\ id = x.id
      BY <1>4, <2>2
    <3> QED
      BY <1>1, <3>1
  <2> QED
    BY <2>1, <2>2
<1>5. ASSUME NEW id, NEW i \in DOMAIN systems', systems'[i].identity # "declared", systems'[i].id = id
      PROVE  id \in unresolved'
  <2>1. CASE i \in DOMAIN systems
    BY <1>2, <1>3, <1>5, <2>1
  <2>2. CASE i \notin DOMAIN systems
    BY <1>1, <1>5, <2>2
  <2> QED
    BY <2>1, <2>2
<1> QED
  BY <1>4, <1>5 DEF FlaggedI

\* What is taken from the front, and what is left.
LEMMA HeadAndTail ==
  ASSUME NEW T, NEW list \in Seq(T), list # <<>>
  PROVE  /\ Head(list) \in T /\ Tail(list) \in Seq(T) /\ 1 \in DOMAIN list /\ Head(list) = list[1]
         /\ \A k \in DOMAIN Tail(list) : k + 1 \in DOMAIN list /\ k + 1 # 1 /\ Tail(list)[k] = list[k + 1]
         /\ \A k, l \in DOMAIN Tail(list) : k # l => k + 1 # l + 1
         /\ \A x \in Range(list) : x = Head(list) \/ x \in Range(Tail(list))
<1>1. DOMAIN list = 1 .. Len(list) /\ Len(list) \in Nat /\ \A i \in DOMAIN list : list[i] \in T
  BY InRange
<1>2. Len(list) # 0
  BY EmptySeq
<1>3. /\ Head(list) = list[1] /\ Tail(list) \in Seq(T) /\ Len(Tail(list)) = Len(list) - 1
      /\ \A i \in 1 .. Len(Tail(list)) : Tail(list)[i] = list[i + 1]
  BY HeadTailProperties
<1>4. DOMAIN Tail(list) = 1 .. Len(list) - 1
  BY <1>3, LenProperties
<1>5. ASSUME NEW x \in Range(list) PROVE x = Head(list) \/ x \in Range(Tail(list))
  <2>1. PICK i \in DOMAIN list : list[i] = x
    BY DEF Range
  <2>2. CASE i = 1
    BY <1>3, <2>1, <2>2
  <2>3. CASE i # 1
    <3>1. i - 1 \in DOMAIN Tail(list) /\ (i - 1) + 1 = i
      BY <1>1, <1>4, <2>3
    <3>2. Tail(list)[i - 1] = x
      BY <1>3, <1>4, <2>1, <3>1
    <3> QED
      BY <3>1, <3>2 DEF Range
  <2> QED
    BY <2>2, <2>3
<1>6. 1 \in DOMAIN list
  BY <1>1, <1>2
<1>7. \A k \in DOMAIN Tail(list) : k + 1 \in DOMAIN list /\ k + 1 # 1 /\ Tail(list)[k] = list[k + 1]
  BY <1>1, <1>3, <1>4
<1>8. \A k, l \in DOMAIN Tail(list) : k # l => k + 1 # l + 1
  BY <1>1, <1>4
<1> QED
  BY <1>1, <1>3, <1>5, <1>6, <1>7, <1>8

\* A declared service: a new system, or evidence for the one of its name.
LEMMA ServiceAbsorbs ==
  ASSUME AbsorbInv, AbsorbService
  PROVE  \E n, x : Absorbs(n, x) /\ Own(x) /\ x.address = Head(todo).name /\ x.identity = "declared" /\ x.id = <<x.address>>
<1> DEFINE service == Head(todo)
           M == {i \in DOMAIN systems : systems[i].id = <<service.name>> \/ systems[i].dns = service.name}
           i == ServiceMatch(service)
           new == ServiceSystem(service)
           more == [systems[i] EXCEPT !.evidence = systems[i].evidence \cup {NextEvidence}]
<1>1. /\ repository \in Repositories /\ systems \in Seq(System1) /\ todo \in Seq(Served1) /\ todo # <<>>
      /\ stage = "services" /\ repository' = repository
  BY DEF AbsorbInv, TypeI, AbsorbService
<1>2. /\ ledger' = Append(ledger, "T4")
      /\ systems' = IF i = 0 THEN Append(systems, new) ELSE [systems EXCEPT ![i] = more]
  <2>1. systems' = IF i = 0 THEN Append(systems, new)
                   ELSE [systems EXCEPT ![i].evidence = @ \cup {NextEvidence}]
    BY DEF AbsorbService
  <2>2. [systems EXCEPT ![i].evidence = @ \cup {NextEvidence}] = [systems EXCEPT ![i] = more]
    OBVIOUS
  <2> QED
    BY <2>1, <2>2 DEF AbsorbService
<1>3. service \in Served1
  BY <1>1, HeadAndTail
<1>4. /\ service.name \in Host /\ service.ports \in Seq(Nat \ {0}) /\ service.source \in DOMAIN repository
  BY <1>1, <1>3, WhatIsDeclared
<1>5. service.name \in Names /\ service.name # NoName /\ service.source \in Nat
  BY <1>1, <1>4, NamesDiffer, RepositoryAssumption DEF Names
<1>6. /\ DOMAIN systems = 1 .. Len(systems) /\ Len(systems) \in Nat
      /\ \A k \in DOMAIN systems : systems[k] \in System1
  BY <1>1, InRange
<1>7. /\ i # 0 => i \in M
      /\ i = 0 => M = {}
  <2>1. DOMAIN systems \subseteq Nat \ {0} /\ M \in SUBSET DOMAIN systems /\ i = First(M)
    BY <1>6 DEF ServiceMatch
  <2> HIDE DEF M, i
  <2> QED
    BY <2>1, FirstIs
<1>8. \A k \in DOMAIN systems :
        Own(systems[k]) /\ systems[k].id = <<systems[k].address>> /\ systems[k].identity = "declared"
  BY <1>1 DEF AbsorbInv, OwnI, NamesI
<1>9. /\ NextEvidence \in Nat /\ NextEvidence \notin DOMAIN ledger
      /\ ledger' \in Seq({"T4", "T5"}) /\ DOMAIN ledger' = DOMAIN ledger \cup {NextEvidence}
  <2>1. "T4" \in {"T4", "T5"}
    OBVIOUS
  <2> QED
    BY <1>2, <2>1, EvidenceIsNew DEF AbsorbInv
<1>10. CASE i = 0
  <2> DEFINE n == Len(systems) + 1
             port == IF service.ports = <<>> THEN 0 ELSE service.ports[1]
  <2>1. port \in Nat /\ (port = 0 \/ port \in Range(service.ports))
    <3>1. CASE service.ports = <<>>
      BY <3>1
    <3>2. CASE service.ports # <<>>
      <4>1. 1 \in DOMAIN service.ports
        BY <1>4, <3>2, HeadAndTail
      <4>2. service.ports[1] \in Nat \ {0} /\ service.ports[1] \in Range(service.ports)
        BY <1>4, <4>1, InRange
      <4> QED
        BY <3>2, <4>2
    <3> QED
      BY <3>1, <3>2
  <2>2. new = [id |-> <<service.name>>, address |-> service.name, dns |-> service.name, identity |-> "declared",
               port |-> port, path |-> "", credentials |-> {}, sources |-> {service.source}, evidence |-> {NextEvidence}]
    BY DEF ServiceSystem
  <2> HIDE DEF new, port, service
  <2>3. <<service.name>> \in SystemId /\ port \in Ports /\ "" \in Texts
    <3>1. <<service.name>> \in SystemId
      BY <1>5 DEF SystemId
    <3>2. port \in Ports /\ "" \in Texts
      BY <2>1 DEF Ports, Texts
    <3> QED
      BY <3>1, <3>2
  <2>4. new \in System1
    BY <1>5, <1>9, <2>2, <2>3 DEF System1
  <2>5. /\ new.address = service.name /\ new.identity = "declared" /\ new.evidence = {NextEvidence} /\ new.dns = service.name
        /\ new.id = <<service.name>> /\ new.port = port /\ new.path = "" /\ new.credentials = {}
        /\ new.sources = {service.source}
    BY <2>2
  <2>6. Own(new)
    BY <1>3, <1>4, <2>1, <2>5 DEF Own
  <2>7. /\ systems' \in Seq(System1) /\ DOMAIN systems' = DOMAIN systems \cup {n}
        /\ systems'[n] = new /\ \A k \in DOMAIN systems : systems'[k] = systems[k]
        /\ n \notin DOMAIN systems
    BY <1>1, <1>2, <1>10, <2>4, Longer
  <2>8. \A k \in DOMAIN systems : systems[k].address # service.name
    BY <1>7, <1>8, <1>10
  <2> HIDE DEF n
  <2>9. new.evidence = {NextEvidence} \cup UNION {systems[k].evidence : k \in DOMAIN systems \cap {n}}
    <3>1. DOMAIN systems \cap {n} = {}
      BY <2>7
    <3> QED
      BY <2>5, <3>1
  <2>10. Absorbs(n, new)
    BY <1>1, <1>9, <2>4, <2>5, <2>7, <2>8, <2>9 DEF Absorbs
  <2> QED
    BY <2>5, <2>6, <2>10 DEF service
<1>11. CASE i # 0
  <2> DEFINE s == systems[i]
  <2>1. i \in DOMAIN systems /\ s \in System1 /\ Own(s) /\ s.id = <<s.address>> /\ s.identity = "declared"
        /\ (s.id = <<service.name>> \/ s.dns = service.name)
    BY <1>6, <1>7, <1>8, <1>11
  <2>2. more = [s EXCEPT !.evidence = s.evidence \cup {NextEvidence}]
    OBVIOUS
  <2> HIDE DEF s, more, i, service
  <2>3. s.address = service.name /\ s.identity = "declared"
    <3>1. s.dns = s.address
      BY <2>1 DEF Own
    <3>2. CASE s.id = <<service.name>>
      <4>1. <<s.address>> = <<service.name>>
        BY <2>1, <3>2
      <4> QED
        BY <2>1, <4>1
    <3>3. CASE s.dns = service.name
      BY <2>1, <3>1, <3>3
    <3> QED
      BY <2>1, <3>2, <3>3
  <2>4. more \in System1
    BY <1>9, <2>1, <2>2 DEF System1
  <2>5. /\ more.id = s.id /\ more.address = s.address /\ more.dns = s.dns /\ more.identity = s.identity
        /\ more.port = s.port /\ more.path = s.path /\ more.credentials = s.credentials
        /\ more.sources = s.sources /\ more.evidence = s.evidence \cup {NextEvidence}
    BY <2>1, <2>2 DEF System1
  <2>6. Own(more)
    BY <2>1, <2>5 DEF Own
  <2>7. Extends(s, more)
    BY <2>5 DEF Extends
  <2>8. /\ systems' \in Seq(System1) /\ DOMAIN systems' = DOMAIN systems
        /\ systems'[i] = more /\ \A k \in DOMAIN systems : k # i => systems'[k] = systems[k]
    BY <1>1, <1>2, <1>11, <2>1, <2>4, Replaced
  <2>9. more.evidence = {NextEvidence} \cup UNION {systems[k].evidence : k \in DOMAIN systems \cap {i}}
    <3>1. DOMAIN systems \cap {i} = {i}
      BY <2>1
    <3> QED
      BY <2>5, <3>1 DEF s
  <2>10. Absorbs(i, more)
    BY <1>1, <1>9, <2>1, <2>4, <2>7, <2>8, <2>9 DEF Absorbs, s
  <2> QED
    BY <2>1, <2>3, <2>5, <2>6, <2>10 DEF service
<1> QED
  BY <1>10, <1>11

LEMMA ServiceKeeps ==
  ASSUME AbsorbInv, AbsorbService
  PROVE  AbsorbInv'
<1>1. PICK n, x : Absorbs(n, x) /\ Own(x) /\ x.address = Head(todo).name /\ x.identity = "declared" /\ x.id = <<x.address>>
  BY ServiceAbsorbs
<1>2. /\ repository \in Repositories /\ repository' = repository /\ stage = "services" /\ stage' = "services"
      /\ todo \in Seq(Served1) /\ todo # <<>> /\ todo' = Tail(todo)
      /\ unresolved' = unresolved /\ status' = status /\ ledger' = Append(ledger, "T4")
      /\ claims' = claims \cup {Claim(<<"service", Head(todo).name>>, {NextEvidence}, ledger')}
  BY DEF AbsorbInv, TypeI, AbsorbService
<1>3. /\ Head(todo) \in Served1 /\ Tail(todo) \in Seq(Served1)
      /\ \A d \in Range(todo) : d = Head(todo) \/ d \in Range(Tail(todo))
  BY <1>2, HeadAndTail
<1>4. Head(todo).name \in Host
  BY <1>2, <1>3, WhatIsDeclared
<1>5. Served1' = Served1 /\ Declared1' = Declared1
  BY <1>2 DEF Served1, Declared1
<1>6. TypeI'
  BY <1>1, <1>2, <1>3, <1>5 DEF AbsorbInv, TypeI, Absorbs
<1>7. LedgerI'
  <2>1. stage # "inventory" /\ stage' # "inventory" /\ TypeI /\ LedgerI
    BY <1>2 DEF AbsorbInv
  <2> QED
    BY <1>1, <2>1, AbsorbsLedger
<1>8. NamesI'
  <2>1. /\ \A i, j \in DOMAIN systems' : i # j => systems'[i].address # systems'[j].address
        /\ \A i \in DOMAIN systems' : systems'[i].address = x.address \/ (i \in DOMAIN systems /\ systems'[i] = systems[i])
    BY <1>1, AbsorbsNames DEF AbsorbInv
  <2>2. \A i \in DOMAIN systems :
          systems[i].address \in Host /\ systems[i].id = <<systems[i].address>> /\ systems[i].identity = "declared"
    BY <1>2 DEF AbsorbInv, NamesI
  <2>3. ASSUME NEW i \in DOMAIN systems'
        PROVE  /\ systems'[i].address \in Host /\ systems'[i].id = <<systems'[i].address>>
               /\ systems'[i].identity = "declared"
    <3>1. CASE i = n
      BY <1>1, <1>4, <3>1 DEF Absorbs
    <3>2. CASE i # n
      BY <1>1, <2>2, <3>2 DEF Absorbs
    <3> QED
      BY <3>1, <3>2
  <2> QED
    BY <1>2, <2>1, <2>3 DEF NamesI
<1>9. OwnI'
  BY <1>1, AbsorbsOwn DEF AbsorbInv
<1>10. KeptI'
  <2>1. \A d \in Served1 : d \in Range(todo) \/ Served(d)
    BY <1>2 DEF AbsorbInv, KeptI
  <2>2. \A d : Served(d) \/ d.name = x.address => Served(d)'
    BY <1>1, AbsorbsKept
  <2>3. \A d \in Served1 : d \in Range(todo') \/ Served(d)'
    BY <1>1, <1>2, <1>3, <2>1, <2>2
  <2> QED
    BY <1>2, <1>5, <2>3 DEF KeptI
<1>11. FlaggedI'
  <2>1. unresolved' = unresolved \cup IF n \notin DOMAIN systems /\ x.identity # "declared" THEN {x.id} ELSE {}
    BY <1>1, <1>2
  <2>2. FlaggedI /\ stage' # "done"
    BY <1>2 DEF AbsorbInv
  <2> QED
    BY <1>1, <2>1, <2>2, AbsorbsFlagged
<1>12. ClaimsI'
  <2> DEFINE name == Head(todo).name
             tier == "T4"
  <2>1. /\ ledger' = Append(ledger, tier) /\ stage # "inventory"
        /\ claims' = claims \cup {Claim(<<"service", name>>, {NextEvidence}, ledger')}
    BY <1>2
  <2>2. tier \in {"T4", "T5"} /\ tier = "T4" /\ name \in Host
    BY <1>4
  <2> HIDE DEF name, tier
  <2> QED
    BY <1>1, <2>1, <2>2, ClaimAdded
<1> QED
  BY <1>6, <1>7, <1>8, <1>9, <1>10, <1>11, <1>12 DEF AbsorbInv

LEMMA ServicesDoneKeeps ==
  ASSUME AbsorbInv, ServicesDone
  PROVE  AbsorbInv'
<1>1. /\ repository \in Repositories /\ repository' = repository /\ stage = "services" /\ stage' = "endpoints"
      /\ todo = <<>> /\ todo' = scan_endpoints(repository)
      /\ ledger' = ledger /\ claims' = claims /\ systems' = systems /\ unresolved' = unresolved /\ status' = status
  BY DEF AbsorbInv, TypeI, ServicesDone
<1>2. /\ scan_endpoints(repository) \in Seq(Declared1)
      /\ \A e \in Declared1 : e \in Endpoint1 /\ Declares(repository, e)
  BY <1>1, WhatIsDeclared
<1>3. Served1' = Served1 /\ Declared1' = Declared1 /\ Scanned' = Scanned /\ Components' = Components
  BY <1>1 DEF Served1, Declared1, Scanned, Components
<1>4. TypeI'
  BY <1>1, <1>2, <1>3 DEF AbsorbInv, TypeI
<1>5. LedgerI'
  BY <1>1, <1>3 DEF AbsorbInv, LedgerI
<1>6. NamesI'
  <2> DEFINE E == scan_endpoints(repository)
  <2>1. \A k, l \in DOMAIN E : k # l /\ ~ E[k].known /\ ~ E[l].known => E[k].name # E[l].name
    BY <1>1, EndpointsOf
  <2>2. E \in Seq(Declared1) /\ todo' = E
    BY <1>1, <1>2
  <2> HIDE DEF E
  <2>3. \A k \in DOMAIN E : E[k] \in Declared1
    BY <2>2, InRange
  <2>4. \A k \in DOMAIN E : E[k].known <=> E[k].name \in Host
    BY <1>2, <2>3 DEF Declares
  <2>5. \A i \in DOMAIN systems : systems[i].address \in Host
    BY <1>1 DEF AbsorbInv, NamesI
  <2>6. \A i, j \in DOMAIN systems : i # j => systems[i].address # systems[j].address
    BY DEF AbsorbInv, NamesI
  <2> QED
    BY <1>1, <2>1, <2>2, <2>4, <2>5, <2>6 DEF NamesI
<1>7. OwnI'
  BY <1>1, <1>3 DEF AbsorbInv, OwnI, Own, Port
<1>8. KeptI'
  <2>1. \A d \in Served1 : Served(d)
    <3>1. Range(todo) = {}
      BY <1>1 DEF Range
    <3> QED
      BY <1>1, <3>1 DEF AbsorbInv, KeptI
  <2>2. \A d : Served(d)' <=> Served(d)
    BY <1>1 DEF Served
  <2> QED
    BY <1>1, <1>3, <2>1, <2>2 DEF KeptI, Declared1
<1>9. FlaggedI'
  BY <1>1 DEF AbsorbInv, FlaggedI
<1>10. ClaimsI'
  <2>1. \A path : EvidenceOf(path)' = EvidenceOf(path)
    BY <1>3 DEF EvidenceOf
  <2> QED
    BY <1>1, <1>3, <2>1 DEF AbsorbInv, ClaimsI, Says1, Package
<1> QED
  BY <1>4, <1>5, <1>6, <1>7, <1>8, <1>9, <1>10 DEF AbsorbInv

\* A declared endpoint: a new system, or more of the one of its name; flagged when
\* the name is not known.
LEMMA EndpointAbsorbs ==
  ASSUME AbsorbInv, AbsorbEndpoint
  PROVE  \E n, x :
           /\ Absorbs(n, x) /\ Own(x) /\ x.address = Head(todo).name
           /\ Head(todo).credentials \subseteq x.credentials /\ (x.path = "" => Head(todo).path = "")
           /\ unresolved' = unresolved \cup IF n \notin DOMAIN systems /\ x.identity # "declared" THEN {x.id} ELSE {}
<1> DEFINE e == Head(todo)
           M == {i \in DOMAIN systems : e.known /\ (systems[i].dns = e.name \/ systems[i].address = e.name)}
           i == EndpointMatch(e)
           new == EndpointSystem(e)
           more == Filled(systems[i], e)
           tier == IF e.origin = "config" THEN "T4" ELSE "T5"
<1>1. /\ repository \in Repositories /\ systems \in Seq(System1) /\ todo \in Seq(Declared1) /\ todo # <<>>
      /\ stage = "endpoints" /\ repository' = repository
  BY DEF AbsorbInv, TypeI, AbsorbEndpoint
<1>2. /\ ledger' = Append(ledger, tier)
      /\ systems' = IF i = 0 THEN Append(systems, new) ELSE [systems EXCEPT ![i] = more]
      /\ unresolved' = unresolved \cup IF i = 0 /\ Unknown(e) THEN {EndpointId(e)} ELSE {}
  <2>1. systems' = IF i = 0 THEN Append(systems, new) ELSE [systems EXCEPT ![i] = Filled(@, e)]
    BY DEF AbsorbEndpoint
  <2>2. [systems EXCEPT ![i] = Filled(@, e)] = [systems EXCEPT ![i] = more]
    OBVIOUS
  <2> QED
    BY <2>1, <2>2 DEF AbsorbEndpoint
<1>3. e \in Declared1 /\ e = todo[1] /\ 1 \in DOMAIN todo
  BY <1>1, HeadAndTail
<1>4. e \in Endpoint1 /\ Declares(repository, e)
  BY <1>1, <1>3, WhatIsDeclared
<1>5. /\ e.name \in Names /\ e.known \in BOOLEAN /\ e.scheme \in Texts /\ e.port \in Nat /\ e.path \in Texts
      /\ e.credentials \in SUBSET Names /\ e.sources \in SUBSET Nat
      /\ e.known <=> e.name \in Host
      /\ e.sources \subseteq DOMAIN repository
  BY <1>4 DEF Endpoint1, Declares
<1>6. /\ DOMAIN systems = 1 .. Len(systems) /\ Len(systems) \in Nat
      /\ \A k \in DOMAIN systems : systems[k] \in System1
  BY <1>1, InRange
<1>7. /\ i # 0 => i \in M
      /\ i = 0 => M = {}
  <2>1. DOMAIN systems \subseteq Nat \ {0} /\ M \in SUBSET DOMAIN systems /\ i = First(M)
    BY <1>6 DEF EndpointMatch
  <2> HIDE DEF M, i
  <2> QED
    BY <2>1, FirstIs
<1>8. \A k \in DOMAIN systems : Own(systems[k])
  BY DEF AbsorbInv, OwnI
<1>9. ~ e.known => \A k \in DOMAIN systems : systems[k].address # e.name
  BY <1>1, <1>3 DEF AbsorbInv, NamesI
<1>10. /\ NextEvidence \in Nat /\ NextEvidence \notin DOMAIN ledger
       /\ ledger' \in Seq({"T4", "T5"}) /\ DOMAIN ledger' = DOMAIN ledger \cup {NextEvidence}
  <2>1. tier \in {"T4", "T5"}
    OBVIOUS
  <2> HIDE DEF tier
  <2> QED
    BY <1>2, <2>1, EvidenceIsNew DEF AbsorbInv
<1>11. e.name # NoName
  BY <1>5, NamesDiffer
<1>12. Port(e) \in Ports
  BY <1>5 DEF Port, Ports
<1>13. CASE i = 0
  <2> DEFINE n == Len(systems) + 1
             id == EndpointId(e)
             port == Port(e)
             dns == IF e.known /\ e.name \notin Placeholder THEN e.name ELSE NoName
             identity == IdentityOf(e)
  <2>1. new = [id |-> id, address |-> e.name, dns |-> dns, identity |-> identity,
               port |-> port, path |-> e.path, credentials |-> e.credentials, sources |-> e.sources,
               evidence |-> {NextEvidence}]
    BY DEF EndpointSystem
  <2>2. id \in SystemId
    <3>1. <<e.name, Port(e)>> \in SystemId
      BY <1>5, <1>12 DEF SystemId
    <3>2. 0 \in Ports
      BY DEF Ports
    <3>3. <<e.name, 0>> \in SystemId
      BY <1>5, <3>2 DEF SystemId
    <3> QED
      BY <3>1, <3>3 DEF EndpointId
  <2>3. /\ identity \in {"declared", "env-parameterized", "template-placeholder"}
        /\ dns \in Names \cup {NoName}
        /\ dns = IF identity = "declared" THEN e.name ELSE NoName
    BY <1>5 DEF IdentityOf
  <2>4. port \in Ports
    BY <1>12
  <2>5. Unknown(e) <=> identity # "declared"
    BY DEF Unknown
  <2> HIDE DEF new, id, port, dns, identity, e
  <2>6. new \in System1
    BY <1>5, <1>10, <2>1, <2>2, <2>3, <2>4 DEF System1
  <2>7. /\ new.address = e.name /\ new.identity = identity /\ new.evidence = {NextEvidence} /\ new.dns = dns
        /\ new.id = id /\ new.port = port /\ new.path = e.path /\ new.credentials = e.credentials
        /\ new.sources = e.sources
    BY <2>1
  <2>8. Own(new)
    <3>1. port = Port(e)
      BY DEF port
    <3> QED
      BY <1>3, <1>5, <2>3, <2>7, <3>1 DEF Own
  <2>9. /\ systems' \in Seq(System1) /\ DOMAIN systems' = DOMAIN systems \cup {n}
        /\ systems'[n] = new /\ \A k \in DOMAIN systems : systems'[k] = systems[k]
        /\ n \notin DOMAIN systems
    BY <1>1, <1>2, <1>13, <2>6, Longer
  <2>10. \A k \in DOMAIN systems : systems[k].address # e.name
    BY <1>7, <1>9, <1>13
  <2> HIDE DEF n
  <2>11. new.evidence = {NextEvidence} \cup UNION {systems[k].evidence : k \in DOMAIN systems \cap {n}}
    <3>1. DOMAIN systems \cap {n} = {}
      BY <2>9
    <3> QED
      BY <2>7, <3>1
  <2>12. Absorbs(n, new)
    BY <1>1, <1>10, <2>6, <2>7, <2>9, <2>10, <2>11 DEF Absorbs
  <2>13. unresolved' = unresolved \cup IF n \notin DOMAIN systems /\ new.identity # "declared" THEN {new.id} ELSE {}
    <3>1. i = 0 /\ Unknown(e) <=> n \notin DOMAIN systems /\ new.identity # "declared"
      BY <1>13, <2>5, <2>7, <2>9
    <3>2. new.id = EndpointId(e)
      BY <2>7 DEF id
    <3> QED
      BY <1>2, <3>1, <3>2
  <2> QED
    BY <2>7, <2>8, <2>12, <2>13 DEF e
<1>14. CASE i # 0
  <2> DEFINE s == systems[i]
             path == IF s.path = "" THEN e.path ELSE s.path
  <2>1. /\ i \in DOMAIN systems /\ s \in System1 /\ Own(s)
        /\ s.dns = e.name \/ s.address = e.name
    BY <1>6, <1>7, <1>8, <1>14
  <2>2. more = [s EXCEPT !.path = path, !.credentials = s.credentials \cup e.credentials,
                         !.sources = s.sources \cup e.sources, !.evidence = s.evidence \cup {NextEvidence}]
    BY DEF Filled
  <2>3. s.address = e.name
    BY <1>11, <2>1 DEF Own
  <2>4. path \in Texts /\ (path = "" => s.path = "" /\ e.path = "") /\ path \in {s.path, e.path}
    BY <1>5, <2>1 DEF System1
  <2> HIDE DEF s, more, i, path, e
  <2>5. more \in System1
    BY <1>5, <1>10, <2>1, <2>2, <2>4 DEF System1
  <2>6. /\ more.id = s.id /\ more.address = s.address /\ more.dns = s.dns /\ more.identity = s.identity
        /\ more.port = s.port /\ more.path = path /\ more.credentials = s.credentials \cup e.credentials
        /\ more.sources = s.sources \cup e.sources /\ more.evidence = s.evidence \cup {NextEvidence}
    BY <2>1, <2>2 DEF System1
  <2>7. Own(more)
    <3>1. more.path = "" \/ \E d \in Declared1 : d.name = more.address /\ d.path = more.path
      BY <1>3, <2>1, <2>3, <2>4, <2>6 DEF Own
    <3>2. \A v \in more.credentials : \E d \in Declared1 : d.name = more.address /\ v \in d.credentials
      BY <1>3, <2>1, <2>3, <2>6 DEF Own
    <3>3. more.sources \subseteq DOMAIN repository
      BY <1>5, <2>1, <2>6 DEF Own
    <3> QED
      BY <2>1, <2>6, <3>1, <3>2, <3>3 DEF Own
  <2>8. Extends(s, more)
    BY <2>4, <2>6 DEF Extends
  <2>9. /\ systems' \in Seq(System1) /\ DOMAIN systems' = DOMAIN systems
        /\ systems'[i] = more /\ \A k \in DOMAIN systems : k # i => systems'[k] = systems[k]
    BY <1>1, <1>2, <1>14, <2>1, <2>5, Replaced
  <2>10. more.evidence = {NextEvidence} \cup UNION {systems[k].evidence : k \in DOMAIN systems \cap {i}}
    <3>1. DOMAIN systems \cap {i} = {i}
      BY <2>1
    <3> QED
      BY <2>6, <3>1 DEF s
  <2>11. Absorbs(i, more)
    BY <1>1, <1>10, <2>1, <2>5, <2>8, <2>9, <2>10 DEF Absorbs, s
  <2>12. unresolved' = unresolved \cup IF i \notin DOMAIN systems /\ more.identity # "declared" THEN {more.id} ELSE {}
    BY <1>2, <1>14, <2>1
  <2>13. more.address = e.name /\ e.credentials \subseteq more.credentials /\ (more.path = "" => e.path = "")
    BY <2>3, <2>4, <2>6
  <2> QED
    BY <2>7, <2>11, <2>12, <2>13 DEF e
<1> QED
  BY <1>13, <1>14

LEMMA EndpointKeeps ==
  ASSUME AbsorbInv, AbsorbEndpoint
  PROVE  AbsorbInv'
<1>1. PICK e : e = Head(todo)
  OBVIOUS
<1> DEFINE tier == IF e.origin = "config" THEN "T4" ELSE "T5"
<1>2. PICK n, x :
        /\ Absorbs(n, x) /\ Own(x) /\ x.address = e.name
        /\ e.credentials \subseteq x.credentials /\ (x.path = "" => e.path = "")
        /\ unresolved' = unresolved \cup IF n \notin DOMAIN systems /\ x.identity # "declared" THEN {x.id} ELSE {}
  BY <1>1, EndpointAbsorbs
<1>3. /\ repository \in Repositories /\ repository' = repository /\ stage = "endpoints" /\ stage' = "endpoints"
      /\ todo \in Seq(Declared1) /\ todo # <<>> /\ todo' = Tail(todo)
      /\ status' = status /\ ledger' = Append(ledger, tier)
      /\ claims' = claims \cup {Claim(<<"service", e.name>>, {NextEvidence}, ledger')}
  BY <1>1 DEF AbsorbInv, TypeI, AbsorbEndpoint
<1>4. /\ e \in Declared1 /\ Tail(todo) \in Seq(Declared1) /\ 1 \in DOMAIN todo /\ e = todo[1]
      /\ \A k \in DOMAIN Tail(todo) : k + 1 \in DOMAIN todo /\ k + 1 # 1 /\ Tail(todo)[k] = todo[k + 1]
      /\ \A k, l \in DOMAIN Tail(todo) : k # l => k + 1 # l + 1
      /\ \A d \in Range(todo) : d = e \/ d \in Range(Tail(todo))
  BY <1>1, <1>3, HeadAndTail
<1>5. \A d \in Declared1 : d \in Endpoint1 /\ (d.known <=> d.name \in Host)
  BY <1>3, WhatIsDeclared DEF Declares
<1>6. Served1' = Served1 /\ Declared1' = Declared1
  BY <1>3 DEF Served1, Declared1
<1>7. TypeI'
  BY <1>2, <1>3, <1>4, <1>6 DEF AbsorbInv, TypeI, Absorbs
<1>8. LedgerI'
  <2>1. stage # "inventory" /\ stage' # "inventory" /\ TypeI /\ LedgerI
    BY <1>3 DEF AbsorbInv
  <2> QED
    BY <1>2, <2>1, AbsorbsLedger
<1>9. NamesI'
  <2>1. /\ \A i, j \in DOMAIN systems' : i # j => systems'[i].address # systems'[j].address
        /\ \A i \in DOMAIN systems' : systems'[i].address = x.address \/ (i \in DOMAIN systems /\ systems'[i] = systems[i])
    BY <1>2, AbsorbsNames DEF AbsorbInv
  <2>2. \A k \in DOMAIN todo : ~ todo[k].known =>
          /\ \A i \in DOMAIN systems : systems[i].address # todo[k].name
          /\ \A l \in DOMAIN todo : l # k /\ ~ todo[l].known => todo[l].name # todo[k].name
    BY <1>3 DEF AbsorbInv, NamesI
  <2>3. \A k \in DOMAIN todo : todo[k].known <=> todo[k].name \in Host
    <3>1. \A k \in DOMAIN todo : todo[k] \in Declared1
      BY <1>3, InRange
    <3> QED
      BY <1>5, <3>1
  <2>4. ASSUME NEW k \in DOMAIN Tail(todo), ~ Tail(todo)[k].known
        PROVE  /\ \A i \in DOMAIN systems' : systems'[i].address # Tail(todo)[k].name
               /\ \A l \in DOMAIN Tail(todo) : l # k /\ ~ Tail(todo)[l].known => Tail(todo)[l].name # Tail(todo)[k].name
    <3>1. k + 1 \in DOMAIN todo /\ k + 1 # 1 /\ Tail(todo)[k] = todo[k + 1] /\ ~ todo[k + 1].known
      BY <1>4, <2>4
    <3>2. \A i \in DOMAIN systems : systems[i].address # todo[k + 1].name
      BY <2>2, <3>1
    <3>3. e.name # todo[k + 1].name
      <4>1. CASE e.known
        BY <1>4, <2>3, <3>1, <4>1
      <4>2. CASE ~ e.known
        BY <1>4, <2>2, <3>1, <4>2
      <4> QED
        BY <4>1, <4>2
    <3>4. \A i \in DOMAIN systems' : systems'[i].address # Tail(todo)[k].name
      BY <1>2, <2>1, <3>1, <3>2, <3>3
    <3>5. \A l \in DOMAIN Tail(todo) : l # k /\ ~ Tail(todo)[l].known => Tail(todo)[l].name # Tail(todo)[k].name
      <4>1. TAKE l \in DOMAIN Tail(todo)
      <4>2. HAVE l # k /\ ~ Tail(todo)[l].known
      <4>3. l + 1 \in DOMAIN todo /\ l + 1 # k + 1 /\ Tail(todo)[l] = todo[l + 1] /\ ~ todo[l + 1].known
        BY <1>4, <4>2
      <4> QED
        BY <2>2, <3>1, <4>3
    <3> QED
      BY <3>4, <3>5
  <2> QED
    BY <1>3, <2>1, <2>4 DEF NamesI
<1>10. OwnI'
  BY <1>2, AbsorbsOwn DEF AbsorbInv
<1>11. KeptI'
  <2>1. /\ \A d \in Served1 : Served(d)
        /\ \A d \in Declared1 : d \in Range(todo) \/ Kept(d)
    BY <1>3 DEF AbsorbInv, KeptI
  <2>2. /\ \A d : Served(d) \/ d.name = x.address => Served(d)'
        /\ \A d : Kept(d) => Kept(d)'
        /\ \A d : d.name = x.address /\ d.credentials \subseteq x.credentials /\ (x.path = "" => d.path = "") => Kept(d)'
    BY <1>2, AbsorbsKept
  <2>3. Kept(e)'
    BY <1>2, <2>2
  <2>4. \A d \in Declared1 : d \in Range(todo') \/ Kept(d)'
    BY <1>3, <1>4, <2>1, <2>2, <2>3
  <2>5. \A d \in Served1 : Served(d)'
    BY <2>1, <2>2
  <2> QED
    BY <1>3, <1>6, <2>4, <2>5 DEF KeptI
<1>12. FlaggedI'
  <2>1. FlaggedI /\ stage' # "done"
    BY <1>3 DEF AbsorbInv
  <2> QED
    BY <1>2, <2>1, AbsorbsFlagged
<1>13. ClaimsI'
  <2> DEFINE name == e.name
  <2>1. /\ ledger' = Append(ledger, tier) /\ stage # "inventory"
        /\ claims' = claims \cup {Claim(<<"service", name>>, {NextEvidence}, ledger')}
    BY <1>3
  <2>2. e.origin \in {"config", "source"}
    BY <1>4, <1>5 DEF Endpoint1
  <2>3. tier \in {"T4", "T5"} /\ (tier = "T5" <=> e.origin = "source")
    BY <2>2
  <2>4. \E d \in Declared1 : d.name = name /\ (tier = "T5" <=> d.origin = "source")
    BY <1>4, <2>3
  <2> HIDE DEF name, tier
  <2> QED
    BY <1>2, <2>1, <2>3, <2>4, ClaimAdded
<1> QED
  BY <1>7, <1>8, <1>9, <1>10, <1>11, <1>12, <1>13 DEF AbsorbInv

\* What stays when nothing is absorbed.
LEMMA FinalizeKeeps ==
  ASSUME AbsorbInv, FinishInspect
  PROVE  AbsorbInv'
<1>1. /\ repository \in Repositories /\ repository' = repository /\ stage = "endpoints" /\ stage' = "done"
      /\ todo = <<>> /\ todo' = todo
      /\ ledger' = ledger /\ claims' = claims /\ systems' = systems /\ unresolved' = unresolved
      /\ summary' = {FindingOf(systems[i]) : i \in DOMAIN systems}
      /\ status' = IF unresolved = {} THEN "complete" ELSE "complete-with-unresolved"
  BY DEF AbsorbInv, TypeI, FinishInspect
<1>2. Served1' = Served1 /\ Declared1' = Declared1 /\ Scanned' = Scanned /\ Components' = Components
  BY <1>1 DEF Served1, Declared1, Scanned, Components
<1>3. TypeI'
  BY <1>1, <1>2 DEF AbsorbInv, TypeI
<1>4. LedgerI'
  BY <1>1, <1>2 DEF AbsorbInv, LedgerI
<1>5. NamesI'
  BY <1>1 DEF AbsorbInv, NamesI
<1>6. OwnI'
  BY <1>1, <1>2 DEF AbsorbInv, OwnI, Own, Port
<1>7. KeptI'
  <2>1. (\A d \in Served1 : Served(d)) /\ (\A e \in Declared1 : Kept(e))
    <3>1. Range(todo) = {}
      BY <1>1 DEF Range
    <3> QED
      BY <1>1, <3>1 DEF AbsorbInv, KeptI
  <2>2. (\A d : Served(d)' <=> Served(d)) /\ (\A e : Kept(e)' <=> Kept(e))
    BY <1>1 DEF Served, Kept
  <2> QED
    BY <1>1, <1>2, <2>1, <2>2 DEF KeptI
<1>8. FlaggedI'
  BY <1>1 DEF AbsorbInv, FlaggedI, FindingOf
<1>9. ClaimsI'
  <2>1. \A path : EvidenceOf(path)' = EvidenceOf(path)
    BY <1>2 DEF EvidenceOf
  <2> QED
    BY <1>1, <1>2, <2>1 DEF AbsorbInv, ClaimsI, Says1, Package
<1> QED
  BY <1>3, <1>4, <1>5, <1>6, <1>7, <1>8, <1>9 DEF AbsorbInv

LEMMA AbsorbStutters ==
  ASSUME AbsorbInv, UNCHANGED inspectVars
  PROVE  AbsorbInv'
<1>1. /\ repository' = repository /\ stage' = stage /\ todo' = todo /\ ledger' = ledger /\ claims' = claims
      /\ systems' = systems /\ unresolved' = unresolved /\ summary' = summary /\ status' = status
  BY DEF inspectVars
<1>2. Served1' = Served1 /\ Declared1' = Declared1 /\ Scanned' = Scanned /\ Components' = Components
  BY <1>1 DEF Served1, Declared1, Scanned, Components
<1>3. TypeI'
  BY <1>1, <1>2 DEF AbsorbInv, TypeI
<1>4. LedgerI'
  BY <1>1, <1>2 DEF AbsorbInv, LedgerI
<1>5. NamesI'
  BY <1>1 DEF AbsorbInv, NamesI
<1>6. OwnI'
  BY <1>1, <1>2 DEF AbsorbInv, OwnI, Own, Port
<1>7. KeptI'
  BY <1>1, <1>2 DEF AbsorbInv, KeptI, Served, Kept
<1>8. FlaggedI'
  BY <1>1 DEF AbsorbInv, FlaggedI, FindingOf
<1>9. ClaimsI'
  <2>1. \A path : EvidenceOf(path)' = EvidenceOf(path)
    BY <1>2 DEF EvidenceOf
  <2> QED
    BY <1>1, <1>2, <2>1 DEF AbsorbInv, ClaimsI, Says1, Package
<1> QED
  BY <1>3, <1>4, <1>5, <1>6, <1>7, <1>8, <1>9 DEF AbsorbInv

LEMMA AbsorbNext == AbsorbInv /\ [InspectNext]_inspectVars => AbsorbInv'
<1> SUFFICES ASSUME AbsorbInv, [InspectNext]_inspectVars PROVE AbsorbInv'
  OBVIOUS
<1>1. CASE RecordInventory
  BY <1>1, RecordKeeps
<1>2. CASE AbsorbService
  BY <1>2, ServiceKeeps
<1>3. CASE ServicesDone
  BY <1>3, ServicesDoneKeeps
<1>4. CASE AbsorbEndpoint
  BY <1>4, EndpointKeeps
<1>5. CASE FinishInspect
  BY <1>5, FinalizeKeeps
<1>6. CASE UNCHANGED inspectVars
  BY <1>6, AbsorbStutters
<1> QED
  BY <1>1, <1>2, <1>3, <1>4, <1>5, <1>6 DEF InspectNext

\* The invariant that every theorem about `inspect` rests on.
THEOREM Absorbed == InspectSpec => []AbsorbInv
<1>1. AbsorbInv /\ [InspectNext]_inspectVars => AbsorbInv'
  BY AbsorbNext
<1> QED
  BY AbsorbInit, <1>1, PTL DEF InspectSpec

-----------------------------------------------------------------------------
(* What follows for the manifest.                                           *)

LEMMA EndpointIs == Endpoint = Range(MinedIn(repository)) /\ Service = Served1
BY DEF Endpoint, Mined, MinedIn, Service, Served1, Range

LEMMA AbsorbedInventory == AbsorbInv => InventoryAgrees
<1> SUFFICES ASSUME AbsorbInv, stage # "inventory" PROVE InventoryAgrees
  BY DEF InventoryAgrees
<1> DEFINE read == ComponentsOf(repository)
           all  == {read[n] : n \in DOMAIN read}
           Named(c) == {p \in all : SamePackage(p, c) /\ p.version \in {c.version, Unpinned}}
           Scoped(c) == {p.scope : p \in Named(c)} \ {"unknown"}
<1>1. repository \in Repositories
  BY DEF AbsorbInv, TypeI
<1>2. Components = merge_components(read)
  BY DEF Components
<1>3. /\ \A p \in all : \E c \in Components : SamePackage(p, c) /\ p.version \in {c.version, Unpinned}
      /\ \A c, d \in Components : SamePackage(c, d) /\ c.version \in {d.version, Unpinned} => c = d
      /\ \A c \in Components :
           /\ c.resolved <=> \E p \in Named(c) : p.resolved /\ p.version = c.version
           /\ c.declared <=> \E p \in Named(c) : p.declared
           /\ c.direct <=> \E p \in Named(c) : p.direct
           /\ c.scope \in Scoped(c) \/ (c.scope = "unknown" /\ Scoped(c) = {})
           /\ \E p \in Named(c) : c.source = p.source
           /\ c.source \in Range(scanned_files(repository))
  BY <1>1, <1>2, InventoryOf
<1>4. \A c \in Components : Scanned[EvidenceOf(c.source)] = c.source
  BY <1>1, ScannedIs
<1>5. \A c \in Components : \E claim \in claims :
        claim.object = Package(c) /\ claim.supports = {EvidenceOf(c.source)}
  BY DEF AbsorbInv, ClaimsI
<1> HIDE DEF all, Named, Scoped
<1>6. \A c \in Components : \E claim \in claims :
        /\ claim.object = Package(c)
        /\ \E e \in claim.supports : \E p \in Named(c) : Scanned[e] = p.source
  <2>1. TAKE c \in Components
  <2>2. PICK claim \in claims : claim.object = Package(c) /\ claim.supports = {EvidenceOf(c.source)}
    BY <1>5
  <2>3. PICK p \in Named(c) : c.source = p.source
    BY <1>3
  <2>4. Scanned[EvidenceOf(c.source)] = p.source
    BY <1>4, <2>3
  <2> QED
    BY <2>2, <2>3, <2>4
<1> QED
  BY <1>3, <1>6 DEF InventoryAgrees, all, Named, Scoped

LEMMA AbsorbedFlagged == AbsorbInv => UnknownIsFlagged
<1> SUFFICES ASSUME AbsorbInv, stage = "done" PROVE UnknownIsFlagged
  BY DEF UnknownIsFlagged
<1> DEFINE unknown == {s \in System : s.identity # "declared"}
<1>1. /\ repository \in Repositories /\ systems \in Seq(System1)
      /\ \A i \in DOMAIN systems : Own(systems[i])
      /\ \A id : id \in unresolved <=> \E i \in DOMAIN systems : systems[i].identity # "declared" /\ systems[i].id = id
      /\ summary = {FindingOf(systems[i]) : i \in DOMAIN systems}
      /\ status = IF unresolved = {} THEN "complete" ELSE "complete-with-unresolved"
  BY DEF AbsorbInv, TypeI, OwnI, FlaggedI
<1>2. \A s \in System : s \in System1 /\ Own(s)
  BY <1>1, InRange DEF System
<1>3. \A s \in System : s.address # NoName
  BY <1>2, NamesDiffer DEF System1
<1>4. \A s \in System : s.dns = NoName <=> s.identity # "declared"
  BY <1>2, <1>3 DEF Own
<1>5. {s.id : s \in unknown} = unresolved
  <2>1. \A s \in unknown : s.id \in unresolved
    BY <1>1 DEF System
  <2>2. \A id \in unresolved : \E s \in unknown : s.id = id
    BY <1>1 DEF System
  <2> QED
    BY <2>1, <2>2
<1>6. {f[2] : f \in {g \in summary : g[1] = "runtime-bound"}} = unresolved
  <2>1. \A i \in DOMAIN systems :
          /\ FindingOf(systems[i])[2] = systems[i].id
          /\ FindingOf(systems[i])[1] = "runtime-bound" <=> systems[i].identity # "declared"
    BY DEF FindingOf
  <2>2. \A f \in summary : f[1] = "runtime-bound" => f[2] \in unresolved
    BY <1>1, <2>1
  <2>3. \A id \in unresolved : \E f \in summary : f[1] = "runtime-bound" /\ f[2] = id
    BY <1>1, <2>1
  <2> QED
    BY <2>2, <2>3
<1>7. status = "complete" <=> unknown = {}
  <2>1. status = "complete" <=> unresolved = {}
    BY <1>1
  <2>2. unresolved = {} <=> unknown = {}
    BY <1>5
  <2> QED
    BY <2>1, <2>2
<1>8. \A s \in System : s.dns = NoName <=> s \in unknown
  BY <1>4
<1> QED
  BY <1>5, <1>6, <1>7, <1>8 DEF UnknownIsFlagged

LEMMA AbsorbedNames == AbsorbInv => NothingLost
<1> SUFFICES ASSUME AbsorbInv PROVE NothingLost
  OBVIOUS
<1>1. /\ repository \in Repositories /\ systems \in Seq(System1) /\ ledger \in Seq({"T4", "T5"})
      /\ stage \in {"inventory", "services", "endpoints", "done"}
      /\ status \in {"partial", "complete", "complete-with-unresolved"}
  BY DEF AbsorbInv, TypeI
<1>2. \A n : n \in DOMAIN ledger \ DOMAIN Scanned <=> \E i \in DOMAIN systems : n \in systems[i].evidence
  <2>1. CASE stage = "inventory"
    <3>1. systems = <<>> /\ ledger = <<>>
      BY <2>1 DEF AbsorbInv, LedgerI
    <3> QED
      BY <3>1
  <2>2. CASE stage # "inventory"
    BY <2>2 DEF AbsorbInv, LedgerI
  <2> QED
    BY <2>1, <2>2
<1>3. /\ \A i \in DOMAIN systems : Own(systems[i])
      /\ \A i, j \in DOMAIN systems : i # j => systems[i].address # systems[j].address
      /\ \A i, j \in DOMAIN systems : i # j => systems[i].evidence \cap systems[j].evidence = {}
      /\ \A claim \in claims : claim.supports \subseteq DOMAIN ledger
  BY DEF AbsorbInv, OwnI, NamesI, LedgerI, ClaimsI
<1>4. InspectTypeOK
  <2>1. \A e \in DOMAIN ledger : ledger[e] \in {"T4", "T5"}
    BY <1>1, InRange
  <2>2. \A s \in System : s.evidence \subseteq DOMAIN ledger
    BY <1>2 DEF System
  <2>3. \A s \in System : s.sources \subseteq DOMAIN repository
    BY <1>3 DEF System, Own
  <2> QED
    BY <1>1, <1>3, <2>1, <2>2, <2>3 DEF InspectTypeOK
<1>5. ASSUME stage = "done"
      PROVE  UNION {s.evidence : s \in System} = DOMAIN ledger \ DOMAIN Scanned
  <2>1. \A n : n \in UNION {s.evidence : s \in System} <=> \E i \in DOMAIN systems : n \in systems[i].evidence
    BY DEF System
  <2> QED
    BY <1>2, <2>1
<1>6. ASSUME stage = "done", ~ Truncated(repository)
      PROVE  {s.address : s \in System} = {s.name : s \in Service} \cup {e.name : e \in Endpoint}
  <2>1. Endpoint = Range(MinedIn(repository)) /\ Service = Served1
    BY EndpointIs
  <2>2. \A e \in Declared1 : \E x \in Endpoint : x.name = e.name
    BY <1>1, <2>1, WhatIsDeclared DEF Declares
  <2>3. \A x \in Endpoint : \E e \in Declared1 : TakenIn(x, e)
    BY <1>1, <1>6, <2>1, EndpointsOf DEF Declared1
  <2>4. \A s \in System : (\E d \in Service : d.name = s.address) \/ (\E x \in Endpoint : x.name = s.address)
    <3>1. \A i \in DOMAIN systems :
            (\E d \in Served1 : d.name = systems[i].address) \/ (\E e \in Declared1 : e.name = systems[i].address)
      BY <1>3 DEF Own
    <3> QED
      BY <2>1, <2>2, <3>1 DEF System
  <2>5. \A d \in Service : \E s \in System : s.address = d.name
    BY <1>6, <2>1 DEF AbsorbInv, KeptI, Served, System
  <2>6. \A e \in Declared1 : \E s \in System : s.address = e.name
    BY <1>6 DEF AbsorbInv, KeptI, Kept, System
  <2>7. ASSUME NEW x \in Endpoint PROVE \E s \in System : s.address = x.name
    <3>1. PICK e \in Declared1 : TakenIn(x, e)
      BY <2>3
    <3>2. PICK s \in System : s.address = e.name
      BY <2>6
    <3>3. e.name = x.name
      BY <3>1 DEF TakenIn
    <3> QED
      BY <3>2, <3>3
  <2> QED
    BY <2>4, <2>5, <2>7
<1>7. NamesAreKept
  BY <1>3, <1>5, <1>6 DEF NamesAreKept
<1> QED
  BY <1>4, <1>7 DEF NothingLost

LEMMA AbsorbedDetails == AbsorbInv => DetailsAreDeclared
<1> SUFFICES ASSUME AbsorbInv, stage = "done" PROVE DetailsAreDeclared
  BY DEF DetailsAreDeclared, DetailsAreOwn, CredentialsStayBeside
<1> DEFINE beside(s) ==
             UNION {{mapping \in {repository[p].mappings[i] : i \in DOMAIN repository[p].mappings} :
                       \E k \in DOMAIN mapping :
                         /\ classify_config_value(mapping[k], p) # <<>>
                         /\ mapping[k].name = s.address} : p \in DOMAIN repository}
<1>1. repository \in Repositories
  BY DEF AbsorbInv, TypeI
<1>2. Endpoint = Range(MinedIn(repository)) /\ Service = Served1
  BY EndpointIs
<1>3. /\ \A s \in System : Own(s)
      /\ \A s, t \in System : s.address = t.address => s = t
      /\ \A e \in Declared1 : \E s \in System :
           s.address = e.name /\ e.credentials \subseteq s.credentials /\ (s.path = "" => e.path = "")
  <2>1. \A s \in System : Own(s)
    BY DEF AbsorbInv, OwnI, System
  <2>2. \A s, t \in System : s.address = t.address => s = t
    BY DEF AbsorbInv, NamesI, System
  <2>3. \A e \in Declared1 : \E s \in System :
          s.address = e.name /\ e.credentials \subseteq s.credentials /\ (s.path = "" => e.path = "")
    BY DEF AbsorbInv, KeptI, Kept, System
  <2> QED
    BY <2>1, <2>2, <2>3
<1>4. \A e \in Declared1 : Declares(repository, e)
  BY <1>1, WhatIsDeclared
<1>5. ~ Truncated(repository) =>
        /\ \A x \in Endpoint : \E e \in Declared1 : TakenIn(x, e)
        /\ \A p \in DOMAIN repository : \A i \in DOMAIN repository[p].mappings : \A name :
             Beside(repository[p].mappings[i], p, name) =>
               \E e \in Declared1 : e.name = name /\ Credentials(repository[p].mappings[i]) \subseteq e.credentials
  BY <1>1, <1>2, EndpointsOf DEF Declared1
<1>6. ASSUME NEW s \in System
      PROVE  LET own == OfName(s.address) IN
             /\ s.path \in {e.path : e \in own} \cup {""}
             /\ s.path = "" /\ ~Truncated(repository) => \A e \in own : e.path = ""
             /\ s.port # 0 =>
                  \/ \E e \in own : s.port \in {e.port, DefaultPort[e.scheme]}
                  \/ \E d \in Service : d.name = s.address /\ s.port \in {d.ports[i] : i \in DOMAIN d.ports}
  <2> DEFINE own == OfName(s.address)
  <2>1. \A x : x \in own <=> x \in Endpoint /\ x.name = s.address
    BY DEF OfName
  <2>2. s.path \in {e.path : e \in own} \cup {""}
    <3>1. s.path = "" \/ \E e \in Declared1 : e.name = s.address /\ e.path = s.path
      BY <1>3 DEF Own
    <3>2. \A e \in Declared1 : \E x \in Endpoint : x.name = e.name /\ x.path = e.path
      BY <1>2, <1>4 DEF Declares
    <3> HIDE DEF own
    <3> QED
      BY <2>1, <3>1, <3>2
  <2>3. ASSUME s.path = "", ~ Truncated(repository), NEW x \in own PROVE x.path = ""
    <3>1. x \in Endpoint /\ x.name = s.address
      BY <2>1
    <3>2. PICK e \in Declared1 : e.name = x.name /\ (e.path = "" => x.path = "")
      BY <1>5, <2>3, <3>1 DEF TakenIn
    <3>3. PICK t \in System : t.address = e.name /\ (t.path = "" => e.path = "")
      BY <1>3
    <3>4. t = s
      BY <1>3, <3>1, <3>2, <3>3
    <3> QED
      BY <2>3, <3>2, <3>3, <3>4
  <2>4. ASSUME s.port # 0
        PROVE  \/ \E e \in own : s.port \in {e.port, DefaultPort[e.scheme]}
               \/ \E d \in Service : d.name = s.address /\ s.port \in {d.ports[i] : i \in DOMAIN d.ports}
    <3>1. \/ \E e \in Declared1 : e.name = s.address /\ s.port = Port(e)
          \/ \E d \in Served1 : d.name = s.address /\ s.port \in Range(d.ports)
      BY <1>3, <2>4 DEF Own
    <3>2. ASSUME NEW e \in Declared1, e.name = s.address, s.port = Port(e)
          PROVE  \E x \in own : s.port \in {x.port, DefaultPort[x.scheme]}
      <4>1. PICK x \in Endpoint : x.name = e.name /\ x.port = e.port
        BY <1>2, <1>4 DEF Declares
      <4>2. PICK y \in Endpoint : y.name = e.name /\ y.scheme = e.scheme
        BY <1>2, <1>4 DEF Declares
      <4>3. s.port = x.port \/ s.port = DefaultPort[y.scheme]
        BY <3>2, <4>1, <4>2 DEF Port
      <4> HIDE DEF own
      <4> QED
        BY <2>1, <3>2, <4>1, <4>2, <4>3
    <3>3. ASSUME NEW d \in Served1, d.name = s.address, s.port \in Range(d.ports)
          PROVE  \E t \in Service : t.name = s.address /\ s.port \in {t.ports[i] : i \in DOMAIN t.ports}
      BY <1>2, <3>3 DEF Range
    <3> HIDE DEF own
    <3> QED
      BY <3>1, <3>2, <3>3
  <2> HIDE DEF own
  <2> QED
    BY <2>2, <2>3, <2>4 DEF own
<1>7. \A s : \A m : m \in beside(s) <=>
        \E p \in DOMAIN repository : \E i \in DOMAIN repository[p].mappings :
          m = repository[p].mappings[i] /\ Beside(m, p, s.address)
  BY DEF Beside
<1> HIDE DEF beside
<1>8. ASSUME NEW s \in System
      PROVE  /\ s.credentials \subseteq UNION {Credentials(m) : m \in beside(s)}
             /\ ~ Truncated(repository) => UNION {Credentials(m) : m \in beside(s)} \subseteq s.credentials
  <2>1. ASSUME NEW v \in s.credentials PROVE \E m \in beside(s) : v \in Credentials(m)
    <3>1. PICK e \in Declared1 : e.name = s.address /\ v \in e.credentials
      BY <1>3 DEF Own
    <3>2. PICK p \in DOMAIN repository : \E i \in DOMAIN repository[p].mappings :
            v \in Credentials(repository[p].mappings[i]) /\ Beside(repository[p].mappings[i], p, e.name)
      BY <1>4, <3>1 DEF Declares
    <3> QED
      BY <1>7, <3>1, <3>2
  <2>2. ASSUME ~ Truncated(repository), NEW m \in beside(s) PROVE Credentials(m) \subseteq s.credentials
    <3>1. PICK p \in DOMAIN repository : \E i \in DOMAIN repository[p].mappings :
            m = repository[p].mappings[i] /\ Beside(m, p, s.address)
      BY <1>7
    <3>2. PICK e \in Declared1 : e.name = s.address /\ Credentials(m) \subseteq e.credentials
      BY <1>5, <2>2, <3>1
    <3>3. PICK t \in System : t.address = e.name /\ e.credentials \subseteq t.credentials
      BY <1>3
    <3>4. t = s
      BY <1>3, <3>2, <3>3
    <3> QED
      BY <3>2, <3>3, <3>4
  <2> QED
    BY <2>1, <2>2
<1>9. DetailsAreOwn
  BY <1>6 DEF DetailsAreOwn
<1>10. CredentialsStayBeside
  BY <1>8 DEF CredentialsStayBeside, beside
<1> QED
  BY <1>9, <1>10 DEF DetailsAreDeclared

LEMMA AbsorbedProposals == AbsorbInv => ProposalsStayProposals
<1> SUFFICES ASSUME AbsorbInv, stage = "done", ~ Truncated(repository), NEW claim \in claims
             PROVE  claim.cap = "proposal" <=>
                      /\ claim.object[1] = "service" /\ claim.object[2] \in Variable
                      /\ \A e \in OfName(claim.object[2]) : e.origin = "source"
  BY DEF ProposalsStayProposals
<1>1. repository \in Repositories /\ Says1(claim)
  BY DEF AbsorbInv, TypeI, ClaimsI
<1>2. Endpoint = Range(MinedIn(repository))
  BY EndpointIs
<1>3. \A e \in Declared1 : e \in Endpoint1 /\ Declares(repository, e)
  BY <1>1, WhatIsDeclared
<1>4. \A v \in Names : v \in Variable <=> v \notin Host
  BY EndpointAssumption DEF Names
<1>5. CASE claim.object[1] = "package" /\ claim.cap = "declared"
  BY <1>5
<1>6. CASE claim.object[1] = "service" /\ claim.object[2] \in Host /\ claim.cap = "declared"
  BY <1>4, <1>6 DEF Names
<1>7. ASSUME NEW e \in Declared1, claim.object[1] = "service", claim.object[2] = e.name,
             claim.cap = "proposal" <=> e.origin = "source"
      PROVE  claim.cap = "proposal" <=>
               /\ claim.object[1] = "service" /\ claim.object[2] \in Variable
               /\ \A x \in OfName(claim.object[2]) : x.origin = "source"
  <2>1. /\ e.name \in Names /\ (e.known <=> e.name \in Host)
        /\ e.origin = "source" => ~ e.known
        /\ ~ e.known => (e.origin = "source" <=> \A x \in Endpoint : x.name = e.name => x.origin = "source")
    BY <1>2, <1>3 DEF Endpoint1, Declares
  <2>2. (\A x \in OfName(e.name) : x.origin = "source") <=> \A x \in Endpoint : x.name = e.name => x.origin = "source"
    BY DEF OfName
  <2> QED
    BY <1>4, <1>7, <2>1, <2>2
<1> QED
  BY <1>1, <1>5, <1>6, <1>7 DEF Says1

-----------------------------------------------------------------------------
(* Theorems.                                                               *)

\* The inventory agrees with every file that was read, whatever their order, and
\* the claim of each component rests on the scan of a file that names it
\* (merge_components, record_inventory).
THEOREM InventoryStaysTrue == InspectSpec => []InventoryAgrees
BY Absorbed, AbsorbedInventory, PTL

\* Every name a repository declares is one system, and every record the evidence
\* of one (absorb_declared_services, absorb_declared_endpoints).
THEOREM NothingIsLost == InspectSpec => []NothingLost
BY Absorbed, AbsorbedNames, PTL

\* A name bound at run time is flagged in the system, the unresolved list, the
\* summary and the status alike (absorb_declared_endpoints, finalize).
THEOREM UnknownStaysFlagged == InspectSpec => []UnknownIsFlagged
BY Absorbed, AbsorbedFlagged, PTL

\* A system's path, port and credentials were declared of its name, however the
\* declarations were merged (merge, walk_config).
THEOREM DetailsStayDeclared == InspectSpec => []DetailsAreDeclared
BY Absorbed, AbsorbedDetails, PTL

\* A claim about a variable is a proposal exactly while only source code reads it
\* (merge, claim_cap).
THEOREM ProposalsStay == InspectSpec => []ProposalsStayProposals
BY Absorbed, AbsorbedProposals, PTL
=============================================================================
