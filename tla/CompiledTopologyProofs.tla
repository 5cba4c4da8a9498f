----------------------- MODULE CompiledTopologyProofs -----------------------
(***************************************************************************)
(* What a compilation makes of its packets, for any packets it accepts:    *)
(* why it refuses them, and what becomes of duplicates and candidates.     *)
(***************************************************************************)
EXTENDS CompilationProofs

-----------------------------------------------------------------------------
(* Sequences: their concatenation, and their first and last elements.       *)

\* f[k] is the concatenation of the first k sequences of s.
AreFlattened(f, s, n) ==
    f = [k \in 1 .. n |-> IF k = 1 THEN s[k] ELSE f[k - 1] \o s[k]]

LEMMA FlattenedExist ==
    ASSUME NEW s, NEW n \in Nat
    PROVE  \E f : AreFlattened(f, s, n)
<1> DEFINE Step(t, k) == t \o s[k]
           Are(f, m) == f = [k \in 1 .. m |-> IF k = 1 THEN s[k] ELSE Step(f[k - 1], k)]
           T == {m \in Nat : ~ \E f : Are(f, m)}
<1> HIDE DEF Step
<1>1. ASSUME T # {} PROVE FALSE
  <2>1. PICK m \in T : \A l \in T : m <= l
    <3>1. T \subseteq Nat
      OBVIOUS
    <3> HIDE DEF T
    <3> QED
      BY <1>1, <3>1, LeastExists
  <2>2. m \in Nat /\ ~ \E f : Are(f, m)
    OBVIOUS
  <2>3. CASE m \in {0, 1}
    <3> DEFINE f == [k \in 1 .. m |-> s[k]]
    <3>1. Are(f, m)
      BY <2>3
    <3> QED
      BY <2>2, <3>1
  <2>4. CASE m \notin {0, 1}
    <3>1. m - 1 \in Nat \ {0} /\ m - 1 \notin T
      <4>1. m \in Nat /\ m - 1 \in Nat \ {0} /\ ~ (m <= m - 1)
        BY <2>2, <2>4
      <4> HIDE DEF T
      <4> QED
        BY <2>1, <4>1
    <3>2. PICK g : Are(g, m - 1)
      BY <3>1
    <3> DEFINE f == [k \in 1 .. m |-> IF k = m THEN Step(g[m - 1], m) ELSE g[k]]
               h == [k \in 1 .. m |-> IF k = 1 THEN s[k] ELSE Step(f[k - 1], k)]
    <3>3. g[1] = s[1]
      BY <2>2, <3>1, <3>2
    <3>4. \A k \in 2 .. m - 1 : g[k] = Step(g[k - 1], k)
      BY <2>2, <3>1, <3>2
    <3> HIDE DEF Are
    <3>5. ASSUME NEW k \in 1 .. m PROVE f[k] = h[k]
      <4>1. CASE k = 1
        BY <2>2, <2>4, <3>3, <4>1
      <4>2. CASE k \in 2 .. m - 1
        <5>1. f[k] = g[k] /\ f[k - 1] = g[k - 1]
          BY <2>2, <4>2
        <5>2. h[k] = Step(f[k - 1], k)
          BY <2>2, <4>2
        <5> QED
          BY <3>4, <4>2, <5>1, <5>2
      <4>3. CASE k = m
        <5>1. f[k] = Step(g[m - 1], m) /\ f[k - 1] = g[m - 1]
          BY <2>2, <2>4, <4>3
        <5>2. h[k] = Step(f[k - 1], k)
          BY <2>2, <2>4, <4>3
        <5> QED
          BY <4>3, <5>1, <5>2
      <4> QED
        BY <2>2, <4>1, <4>2, <4>3
    <3>6. f = h
      BY <3>5
    <3>7. Are(f, m)
      BY <3>6 DEF Are
    <3> QED
      BY <2>2, <3>7
  <2> QED
    BY <2>3, <2>4
<1>2. \E f : Are(f, n)
  BY <1>1
<1> QED
  BY <1>2 DEF AreFlattened, Step

\* A sequence is one of its elements.
LEMMA OwnElements ==
    ASSUME NEW S, NEW s \in Seq(S)
    PROVE  s \in Seq(Elements(s))
<1>1. Len(s) \in Nat /\ DOMAIN s = 1 .. Len(s) /\ s = [i \in 1 .. Len(s) |-> s[i]]
  OBVIOUS
<1>2. \A i \in 1 .. Len(s) : s[i] \in Elements(s)
  BY <1>1 DEF Elements
<1> HIDE DEF Elements
<1> QED
  BY <1>1, <1>2

\* The elements of two sequences in a row.
LEMMA JoinedElements ==
    ASSUME NEW S, NEW a \in Seq(S), NEW b \in Seq(S)
    PROVE  a \o b \in Seq(S) /\ Elements(a \o b) = Elements(a) \cup Elements(b)
<1> DEFINE c == a \o b
<1>1. c \in Seq(S) /\ Len(c) = Len(a) + Len(b)
  OBVIOUS
<1>2. /\ \A i \in 1 .. Len(a) : c[i] = a[i]
      /\ \A i \in 1 .. Len(b) : c[Len(a) + i] = b[i]
  OBVIOUS
<1>3. /\ Len(a) \in Nat /\ DOMAIN a = 1 .. Len(a)
      /\ Len(b) \in Nat /\ DOMAIN b = 1 .. Len(b)
      /\ DOMAIN c = 1 .. Len(c)
  BY <1>1
<1> HIDE DEF c
<1>4. ASSUME NEW x \in Elements(c) PROVE x \in Elements(a) \cup Elements(b)
  <2>1. PICK i \in DOMAIN c : x = c[i]
    BY DEF Elements
  <2>2. CASE i <= Len(a)
    <3>1. i \in DOMAIN a
      BY <1>1, <1>3, <2>2
    <3> QED
      BY <1>2, <1>3, <2>1, <3>1 DEF Elements
  <2>3. CASE ~ (i <= Len(a))
    <3>1. i - Len(a) \in 1 .. Len(b) /\ Len(a) + (i - Len(a)) = i
      BY <1>1, <1>3, <2>3
    <3>2. c[i] = b[i - Len(a)]
      BY <1>2, <3>1
    <3> QED
      BY <1>3, <2>1, <3>1, <3>2 DEF Elements
  <2> QED
    BY <2>2, <2>3
<1>5. ASSUME NEW i \in DOMAIN a PROVE a[i] \in Elements(c)
  <2>1. i \in DOMAIN c
    BY <1>1, <1>3
  <2> QED
    BY <1>2, <1>3, <2>1 DEF Elements
<1>6. ASSUME NEW i \in DOMAIN b PROVE b[i] \in Elements(c)
  <2>1. Len(a) + i \in DOMAIN c
    BY <1>1, <1>3
  <2> QED
    BY <1>2, <1>3, <2>1 DEF Elements
<1>7. Elements(a) \cup Elements(b) \subseteq Elements(c)
  BY <1>5, <1>6 DEF Elements
<1> QED
  BY <1>1, <1>4, <1>7 DEF c

\* The elements of sequences one after the other.
LEMMA FlattenedElements ==
    ASSUME NEW S, NEW s \in Seq(Seq(S))
    PROVE  /\ Seqs!FlattenSeq(s) \in Seq(S)
           /\ \A x : x \in Elements(Seqs!FlattenSeq(s)) <=> \E i \in DOMAIN s : x \in Elements(s[i])
<1> DEFINE n == Len(s)
<1>1. n \in Nat /\ DOMAIN s = 1 .. n /\ \A i \in 1 .. n : s[i] \in Seq(S)
  OBVIOUS
<1>2. CASE n = 0
  <2>1. Seqs!FlattenSeq(s) = s
    BY <1>2 DEF Seqs!FlattenSeq
  <2>2. s = << >>
    BY <1>2
  <2> QED
    BY <1>1, <1>2, <2>1, <2>2 DEF Elements
<1>3. CASE n # 0
  <2> DEFINE all == CHOOSE f : AreFlattened(f, s, n)
             Step(t, k) == t \o s[k]
             Reaches(x, k) == \E i \in 1 .. k : x \in Elements(s[i])
             Right(k) == all[k] \in Seq(S) /\ \A x : x \in Elements(all[k]) <=> Reaches(x, k)
             T == {k \in 1 .. n : ~ Right(k)}
  <2>1. Seqs!FlattenSeq(s) = all[n]
    BY <1>3 DEF Seqs!FlattenSeq, AreFlattened
  <2>2. AreFlattened(all, s, n)
    <3>1. \E f : AreFlattened(f, s, n)
      BY <1>1, FlattenedExist
    <3> HIDE DEF n
    <3> QED
      BY <3>1, Zenon
  <2>3. all = [k \in 1 .. n |-> IF k = 1 THEN s[k] ELSE Step(all[k - 1], k)]
    <3> HIDE DEF all
    <3> QED
      BY <2>2 DEF AreFlattened
  <2>4. ASSUME NEW t \in Seq(S), NEW k \in 1 .. n
        PROVE  Step(t, k) \in Seq(S) /\ Elements(Step(t, k)) = Elements(t) \cup Elements(s[k])
    <3>1. s[k] \in Seq(S)
      BY <1>1
    <3> QED
      BY <3>1, JoinedElements
  <2> HIDE DEF all, n, Step
  <2>5. all[1] = s[1]
    BY <1>1, <1>3, <2>3
  <2>6. \A k \in 2 .. n : all[k] = Step(all[k - 1], k)
    BY <1>1, <2>3
  <2>7. Right(1)
    <3>1. \A i : i \in 1 .. 1 <=> i = 1
      OBVIOUS
    <3>2. s[1] \in Seq(S)
      BY <1>1, <1>3
    <3> QED
      BY <2>5, <3>1, <3>2
  <2>8. ASSUME NEW k \in 2 .. n, Right(k - 1) PROVE Right(k)
    <3>1. k \in 1 .. n
      BY <1>1
    <3>2. all[k] \in Seq(S) /\ Elements(all[k]) = Elements(all[k - 1]) \cup Elements(s[k])
      BY <2>4, <2>6, <2>8, <3>1
    <3>3. \A i : i \in 1 .. k <=> i \in 1 .. (k - 1) \/ i = k
      BY <1>1
    <3>4. \A x : Reaches(x, k) <=> Reaches(x, k - 1) \/ x \in Elements(s[k])
      BY <3>3
    <3> HIDE DEF Reaches
    <3> QED
      BY <2>8, <3>2, <3>4
  <2> HIDE DEF Right
  <2>9. ASSUME T # {} PROVE FALSE
    <3>1. PICK k \in T : \A l \in T : k <= l
      <4>1. T \subseteq Nat
        BY <1>1
      <4> HIDE DEF T
      <4> QED
        BY <2>9, <4>1, LeastExists
    <3>2. k \in 1 .. n /\ ~ Right(k)
      OBVIOUS
    <3>3. k \in 2 .. n
      BY <1>1, <2>7, <3>2
    <3>4. k - 1 \in 1 .. n /\ ~ (k <= k - 1)
      BY <1>1, <3>3
    <3>5. k - 1 \notin T
      <4> HIDE DEF T
      <4> QED
        BY <3>1, <3>4
    <3>6. Right(k - 1)
      BY <3>4, <3>5
    <3> QED
      BY <2>8, <3>2, <3>3, <3>6
  <2>10. n \in 1 .. n
    BY <1>1, <1>3
  <2>11. Right(n)
    BY <2>9, <2>10
  <2> QED
    BY <1>1, <2>1, <2>11 DEF Right
<1> QED
  BY <1>2, <1>3

\* The first element of a sequence that belongs to a set.
LEMMA FirstBelongs ==
    ASSUME NEW S, NEW s \in Seq(S), NEW U, Elements(s) \cap U # {}
    PROVE  FirstIn(s, U) \in Elements(s) /\ FirstIn(s, U) \in U
<1> DEFINE T == {i \in DOMAIN s : s[i] \in U}
<1>1. T # {} /\ T \subseteq Nat
  BY DEF Elements
<1>2. \E i \in T : \A j \in T : i <= j
  <2> HIDE DEF T
  <2> QED
    BY <1>1, LeastExists
<1>3. \E i \in DOMAIN s : s[i] \in U /\ \A j \in DOMAIN s : s[j] \in U => i <= j
  BY <1>2
<1> QED
  BY <1>3 DEF FirstIn, Elements

LEMMA LastBelongs ==
    ASSUME NEW S, NEW s \in Seq(S), NEW U, Elements(s) \cap U # {}
    PROVE  LastIn(s, U) \in Elements(s) /\ LastIn(s, U) \in U
<1> DEFINE T == {i \in DOMAIN s : s[i] \in U}
<1>1. T # {} /\ T \in SUBSET (0 .. Len(s)) /\ Len(s) \in Nat
  BY DEF Elements
<1>2. \E i \in T : \A j \in T : j <= i
  <2> HIDE DEF T
  <2> QED
    BY <1>1, GreatestExists
<1>3. \E i \in DOMAIN s : s[i] \in U /\ \A j \in DOMAIN s : s[j] \in U => j <= i
  BY <1>2
<1> QED
  BY <1>3 DEF LastIn, Elements

\* A sequence has finitely many elements.
LEMMA ElementsFinite ==
    ASSUME NEW S, NEW s \in Seq(S)
    PROVE  IsFiniteSet(Elements(s))
<1> DEFINE f == [i \in 1 .. Len(s) |-> s[i]]
<1>1. Len(s) \in Nat /\ DOMAIN s = 1 .. Len(s)
  OBVIOUS
<1>2. IsFiniteSet(1 .. Len(s))
  <2>1. Len(s) \in Int /\ 1 \in Int
    BY <1>1
  <2> QED
    BY <2>1, FS_Interval
<1>3. f \in Surjection(1 .. Len(s), Elements(s))
  BY <1>1 DEF Surjection, Elements
<1> HIDE DEF f
<1> QED
  BY <1>2, <1>3, FS_Surjection

\* Of finitely many identifiers one is the greatest, and one the least.
LEMMA GreatestRanked ==
    ASSUME NEW S \in SUBSET Identifiers, IsFiniteSet(S), S # {}
    PROVE  \E x \in S : \A y \in S : Rank[y] <= Rank[x]
<1> DEFINE Above(x) == {y \in S : Rank[x] < Rank[y]}
           T == {Cardinality(Above(x)) : x \in S}
<1>1. \A x \in S : Rank[x] \in Nat
  BY CorpusPacketsAssumption DEF Identifiers
<1>2. ASSUME NEW x \in S PROVE IsFiniteSet(Above(x)) /\ Cardinality(Above(x)) \in Nat
  <2>1. Above(x) \subseteq S
    OBVIOUS
  <2> HIDE DEF Above
  <2> QED
    BY <2>1, FS_Subset, FS_CardinalityType
<1>3. PICK n \in T : \A m \in T : n <= m
  <2>1. T \subseteq Nat /\ T # {}
    BY <1>2
  <2> HIDE DEF T
  <2> QED
    BY <2>1, LeastExists
<1>4. PICK x \in S : n = Cardinality(Above(x))
  OBVIOUS
<1>5. ASSUME NEW y \in S, Rank[x] < Rank[y] PROVE FALSE
  <2>1. Above(y) \subseteq Above(x) /\ y \in Above(x) /\ y \notin Above(y)
    BY <1>1, <1>5
  <2>2. Cardinality(Above(x)) <= Cardinality(Above(y))
    BY <1>3, <1>4
  <2> HIDE DEF Above, T
  <2>3. Cardinality(Above(y)) < Cardinality(Above(x))
    BY <1>2, <2>1, FS_Subset
  <2> QED
    BY <1>2, <2>2, <2>3
<1> QED
  BY <1>1, <1>5

LEMMA LeastRanked ==
    ASSUME NEW S \in SUBSET Identifiers, S # {}
    PROVE  Least(S) \in S /\ \A y \in S : Rank[Least(S)] <= Rank[y]
<1> DEFINE T == {Rank[x] : x \in S}
<1>1. T \subseteq Nat /\ T # {}
  BY CorpusPacketsAssumption DEF Identifiers
<1>2. \E x \in S : \A y \in S : Rank[x] <= Rank[y]
  <2>1. PICK n \in T : \A m \in T : n <= m
    <3> HIDE DEF T
    <3> QED
      BY <1>1, LeastExists
  <2> QED
    BY <2>1
<1> QED
  BY <1>2 DEF Least

\* The elements of any sequences one after the other.
LEMMA ConcatenatedElements ==
    ASSUME NEW n \in Nat, NEW of, of = [i \in 1 .. n |-> of[i]], \A i \in 1 .. n : IsSequence(of[i])
    PROVE  /\ IsSequence(Seqs!FlattenSeq(of))
           /\ \A x : x \in Elements(Seqs!FlattenSeq(of)) <=> \E i \in 1 .. n : x \in Elements(of[i])
<1> DEFINE S == UNION {Elements(of[i]) : i \in 1 .. n}
<1>1. ASSUME NEW i \in 1 .. n PROVE of[i] \in Seq(S)
  <2>1. Elements(of[i]) \subseteq S
    OBVIOUS
  <2>2. of[i] \in Seq(Elements(of[i]))
    BY DEF IsSequence
  <2> HIDE DEF S
  <2> QED
    BY <2>1, <2>2
<1> HIDE DEF S
<1>2. of \in Seq(Seq(S))
  BY <1>1
<1>3. DOMAIN of = 1 .. n
  OBVIOUS
<1>4. /\ Seqs!FlattenSeq(of) \in Seq(S)
      /\ \A x : x \in Elements(Seqs!FlattenSeq(of)) <=> \E i \in 1 .. n : x \in Elements(of[i])
  BY <1>2, <1>3, FlattenedElements
<1> QED
  BY <1>4, OwnElements DEF IsSequence

-----------------------------------------------------------------------------
(* What lies on the shelves.                                                *)

LEMMA WellFormedInputs ==
    ASSUME NEW R \in Seq(Editions(Shelf)), NEW C \in Seq(Editions(CorpusShelf))
    PROVE  /\ \A r \in Elements(R) : RepositoryPacketWellFormed(r)
           /\ \A c \in Elements(C) : CorpusPacketWellFormed(c)
<1>1. Elements(R) \subseteq Editions(Shelf) /\ Elements(C) \subseteq Editions(CorpusShelf)
  BY ElementsOf
<1> QED
  BY <1>1, CompilationAssumption DEF Editions

\* The records of all packets are the records of each of them.
LEMMA RelationsOfAll ==
    ASSUME NEW C \in Seq(Editions(CorpusShelf)), \A c \in Elements(C) : CorpusPacketWellFormed(c)
    PROVE  /\ IsSequence(Relations(C))
           /\ \A x : x \in Elements(Relations(C)) <=> \E c \in Elements(C) : x \in Records(c, "exact_duplicate_relations")
<1> DEFINE of == [i \in DOMAIN C |-> C[i].payload["exact_duplicate_relations"]]
<1>1. Len(C) \in Nat /\ DOMAIN C = 1 .. Len(C)
  OBVIOUS
<1>2. Relations(C) = Seqs!FlattenSeq(of)
  BY DEF Relations, Concatenated
<1>3. of = [i \in 1 .. Len(C) |-> of[i]]
  BY <1>1
<1>4. \A i \in 1 .. Len(C) : IsSequence(of[i])
  BY <1>1 DEF CorpusPacketWellFormed, PayloadFields, Elements
<1>5. \A i \in 1 .. Len(C) : C[i] \in Elements(C) /\ Elements(of[i]) = Records(C[i], "exact_duplicate_relations")
  BY <1>1 DEF Records, Elements
<1>6. \A c \in Elements(C) : \E i \in 1 .. Len(C) : c = C[i]
  BY <1>1 DEF Elements
<1> HIDE DEF of
<1>7. /\ IsSequence(Relations(C))
      /\ \A x : x \in Elements(Relations(C)) <=> \E i \in 1 .. Len(C) : x \in Elements(of[i])
  BY <1>1, <1>2, <1>3, <1>4, ConcatenatedElements
<1> QED
  BY <1>5, <1>6, <1>7

LEMMA RootsOfAll ==
    ASSUME NEW C \in Seq(Editions(CorpusShelf)), \A c \in Elements(C) : CorpusPacketWellFormed(c)
    PROVE  /\ IsSequence(Roots(C))
           /\ \A x : x \in Elements(Roots(C)) <=> \E c \in Elements(C) : x \in Elements(c.roots)
<1> DEFINE of == [i \in DOMAIN C |-> C[i].roots]
<1>1. Len(C) \in Nat /\ DOMAIN C = 1 .. Len(C)
  OBVIOUS
<1>2. Roots(C) = Seqs!FlattenSeq(of)
  BY DEF Roots, Concatenated
<1>3. of = [i \in 1 .. Len(C) |-> of[i]]
  BY <1>1
<1>4. \A i \in 1 .. Len(C) : IsSequence(of[i])
  BY <1>1 DEF CorpusPacketWellFormed, Elements
<1>5. \A i \in 1 .. Len(C) : C[i] \in Elements(C) /\ of[i] = C[i].roots
  BY <1>1 DEF Elements
<1>6. \A c \in Elements(C) : \E i \in 1 .. Len(C) : c = C[i]
  BY <1>1 DEF Elements
<1> HIDE DEF of
<1>7. /\ IsSequence(Roots(C))
      /\ \A x : x \in Elements(Roots(C)) <=> \E i \in 1 .. Len(C) : x \in Elements(of[i])
  BY <1>1, <1>2, <1>3, <1>4, ConcatenatedElements
<1> QED
  BY <1>5, <1>6, <1>7

LEMMA DeclarationsOfAll ==
    ASSUME NEW R \in Seq(Editions(Shelf)), \A r \in Elements(R) : RepositoryPacketWellFormed(r)
    PROVE  /\ IsSequence(Declared(R))
           /\ \A x : x \in Elements(Declared(R)) <=> \E r \in Elements(R) : x \in Elements(r.declares)
<1> DEFINE of == [i \in DOMAIN R |-> R[i].declares]
<1>1. Len(R) \in Nat /\ DOMAIN R = 1 .. Len(R)
  OBVIOUS
<1>2. Declared(R) = Seqs!FlattenSeq(of)
  BY DEF Declared, Concatenated
<1>3. of = [i \in 1 .. Len(R) |-> of[i]]
  BY <1>1
<1>4. \A i \in 1 .. Len(R) : IsSequence(of[i])
  BY <1>1 DEF RepositoryPacketWellFormed, Elements
<1>5. \A i \in 1 .. Len(R) : R[i] \in Elements(R) /\ of[i] = R[i].declares
  BY <1>1 DEF Elements
<1>6. \A r \in Elements(R) : \E i \in 1 .. Len(R) : r = R[i]
  BY <1>1 DEF Elements
<1> HIDE DEF of
<1>7. /\ IsSequence(Declared(R))
      /\ \A x : x \in Elements(Declared(R)) <=> \E i \in 1 .. Len(R) : x \in Elements(of[i])
  BY <1>1, <1>2, <1>3, <1>4, ConcatenatedElements
<1> QED
  BY <1>5, <1>6, <1>7

-----------------------------------------------------------------------------
(* Exact copies.                                                            *)

\* Packets that a compilation accepts, R with C.
Accepted(R, C) ==
    /\ R \in Seq(Editions(Shelf)) /\ C \in Seq(Editions(CorpusShelf))
    /\ CorpusInputsAccepted(R, C)

\* A relation joins two artifacts of the repositories.
LEMMA RelationJoinsTwo ==
    ASSUME NEW R, NEW C, Accepted(R, C), NEW x \in Elements(Relations(C))
    PROVE  /\ x.a \in Carried(R) /\ x.b \in Carried(R) /\ x.a # x.b
           /\ x.cluster \in Names
<1>1. PICK c \in Elements(C) : x \in Records(c, "exact_duplicate_relations")
  BY WellFormedInputs, RelationsOfAll DEF Accepted
<1> DEFINE P == {r \in Elements(R) : r.id \in c.inputs}
<1>2. CorpusSound(c, P)
  BY DEF Accepted, CorpusInputsAccepted
<1>3. Artifacts(P) \subseteq Carried(R)
  BY DEF Artifacts, Carried
<1> HIDE DEF P
<1>4. {x.a, x.b} \subseteq Artifacts(P)
  BY <1>1, <1>2 DEF CorpusSound, DuplicatesSound
<1>5. CorpusPacketWellFormed(c)
  BY WellFormedInputs DEF Accepted
<1>6. IsRecordOf("exact_duplicate_relations", x)
  BY <1>1, <1>5 DEF CorpusPacketWellFormed, PayloadFields, Records
<1>7. IsDuplicateRelation(x)
  BY <1>6 DEF IsRecordOf
<1> QED
  BY <1>3, <1>4, <1>7 DEF IsDuplicateRelation

\* What packets carry are documents.
LEMMA CarriedAreDocuments ==
    ASSUME NEW R, NEW C, Accepted(R, C) PROVE Carried(R) \subseteq Documents
  BY WellFormedInputs DEF Accepted, Carried, Artifacts, RepositoryPacketWellFormed

LEMMA PairHasTwo ==
    ASSUME NEW a, NEW b, a # b
    PROVE  IsFiniteSet({a, b}) /\ Cardinality({a, b}) = 2
<1>1. IsFiniteSet({a}) /\ Cardinality({a}) = 1
  BY FS_Singleton
<1>2. b \notin {a} /\ {a, b} = {a} \cup {b}
  OBVIOUS
<1> DEFINE A == {a}
<1>3. IsFiniteSet(A) /\ b \notin A /\ Cardinality(A) = 1
  BY <1>1, <1>2
<1> HIDE DEF A
<1>4. IsFiniteSet(A \cup {b}) /\ Cardinality(A \cup {b}) = Cardinality(A) + 1
  BY <1>3, FS_AddElement
<1>5. A \cup {b} = {a, b}
  BY DEF A
<1> QED
  BY <1>3, <1>4, <1>5

\* A cluster has a number of members, two at least.
LEMMA ClusterMembers ==
    ASSUME NEW R, NEW C, Accepted(R, C), NEW cluster \in Clusters(C)
    PROVE  /\ Members(C, cluster) \subseteq Carried(R)
           /\ Members(C, cluster) \subseteq Identifiers
           /\ IsFiniteSet(Members(C, cluster))
           /\ Cardinality(Members(C, cluster)) \in Nat /\ 2 <= Cardinality(Members(C, cluster))
<1> DEFINE rel == Elements(Relations(C))
           mine == {x \in rel : x.cluster = cluster}
           as == {x.a : x \in mine}
           bs == {x.b : x \in mine}
           f == [x \in mine |-> x.a]
           g == [x \in mine |-> x.b]
           M == Members(C, cluster)
<1>1. \A x \in rel : x.a \in Carried(R) /\ x.b \in Carried(R) /\ x.a # x.b
  BY RelationJoinsTwo
<1>2. M = as \cup bs
  BY DEF Members
<1>3. IsFiniteSet(mine)
  <2>1. IsSequence(Relations(C))
    BY WellFormedInputs, RelationsOfAll DEF Accepted
  <2>2. IsFiniteSet(rel)
    BY <2>1, ElementsFinite DEF IsSequence
  <2>3. mine \subseteq rel
    OBVIOUS
  <2> HIDE DEF rel, mine
  <2> QED
    BY <2>2, <2>3, FS_Subset
<1>4. f \in Surjection(mine, as) /\ g \in Surjection(mine, bs)
  BY DEF Surjection
<1>5. IsFiniteSet(M)
  <2> HIDE DEF mine, as, bs, f, g, M
  <2> QED
    BY <1>2, <1>3, <1>4, FS_Surjection, FS_Union
<1>6. PICK x \in mine : TRUE
  BY DEF Clusters
<1>7. {x.a, x.b} \subseteq M /\ x.a # x.b
  BY <1>1, <1>2
<1>8. M \subseteq Carried(R)
  BY <1>1, <1>2
<1>9. Carried(R) \subseteq Identifiers
  BY CarriedAreDocuments DEF Identifiers
<1> HIDE DEF M, mine
<1>10. IsFiniteSet({x.a, x.b}) /\ Cardinality({x.a, x.b}) = 2
  BY <1>7, PairHasTwo
<1>11. Cardinality({x.a, x.b}) <= Cardinality(M)
  BY <1>5, <1>7, FS_Subset
<1>12. Cardinality(M) \in Nat
  BY <1>5, FS_CardinalityType
<1> QED
  BY <1>5, <1>8, <1>9, <1>10, <1>11, <1>12 DEF M

\* There are finitely many clusters, and all have names.
LEMMA ClustersAreNamed ==
    ASSUME NEW R, NEW C, Accepted(R, C)
    PROVE  Clusters(C) \subseteq Identifiers /\ IsFiniteSet(Clusters(C))
<1> DEFINE rel == Elements(Relations(C))
           f == [x \in rel |-> x.cluster]
           K == Clusters(C)
<1>1. \A x \in rel : x.cluster \in Names
  BY RelationJoinsTwo
<1>2. K \subseteq Identifiers
  BY <1>1 DEF Clusters, Identifiers
<1>3. IsFiniteSet(rel)
  <2>1. IsSequence(Relations(C))
    BY WellFormedInputs, RelationsOfAll DEF Accepted
  <2> QED
    BY <2>1, ElementsFinite DEF IsSequence
<1>4. f \in Surjection(rel, K)
  BY DEF Surjection, Clusters
<1> HIDE DEF rel, f, K
<1>5. IsFiniteSet(K)
  BY <1>3, <1>4, FS_Surjection
<1> QED
  BY <1>2, <1>5 DEF K

\* An edge of a star.
LEMMA DuplicateEdgeSays ==
    ASSUME NEW C, NEW cluster, NEW m
    PROVE  LET e == DuplicateEdge(C, cluster, m)
           IN  /\ e.type = "DUPLICATE_OF" /\ e.source = Least(Members(C, cluster)) /\ e.target = m
               /\ e.cluster = cluster
               /\ {"source", "target"} \subseteq DOMAIN e
  BY DEF DuplicateEdge

\* Every member is joined to the centre of its cluster, whichever of the
\* clusters that draw the same edge keeps it.
LEMMA StarsAreDrawn ==
    ASSUME NEW R, NEW C, Accepted(R, C), NEW cluster \in Clusters(C),
           NEW m \in Members(C, cluster) \ {Least(Members(C, cluster))}
    PROVE  \E e \in DuplicateEdges(C) :
              /\ e.type = "DUPLICATE_OF" /\ e.source = Least(Members(C, cluster)) /\ e.target = m
              /\ {"source", "target"} \subseteq DOMAIN e
<1> DEFINE D == UNION {Star(C, k) : k \in Clusters(C)}
           e0 == DuplicateEdge(C, cluster, m)
           same == {f \in D : f.source = e0.source /\ f.target = e0.target /\ f.hash = e0.hash}
           K == {f.cluster : f \in same}
<1>1. e0 \in D
  <2>1. e0 \in Star(C, cluster)
    BY DEF Star
  <2> HIDE DEF e0
  <2> QED
    BY <2>1
<1>2. ASSUME NEW f \in D
      PROVE  f.type = "DUPLICATE_OF" /\ f.cluster \in Clusters(C) /\ {"source", "target"} \subseteq DOMAIN f
  <2>1. PICK k \in Clusters(C) : f \in Star(C, k)
    OBVIOUS
  <2>2. PICK n \in Members(C, k) : f = DuplicateEdge(C, k, n)
    BY <2>1 DEF Star
  <2> QED
    BY <2>2, DuplicateEdgeSays
<1> HIDE DEF D, e0
<1>3. K \subseteq Clusters(C) /\ K # {}
  BY <1>1, <1>2
<1>4. PICK k \in K : \A l \in K : Rank[l] <= Rank[k]
  <2>1. K \subseteq Identifiers /\ IsFiniteSet(K)
    BY <1>3, ClustersAreNamed, FS_Subset
  <2> HIDE DEF K
  <2> QED
    BY <1>3, <2>1, GreatestRanked
<1>5. PICK f \in same : k = f.cluster
  OBVIOUS
<1>6. \A g \in D : g.source = f.source /\ g.target = f.target /\ g.hash = f.hash => Rank[g.cluster] <= Rank[f.cluster]
  BY <1>4, <1>5
<1>7. f \in DuplicateEdges(C)
  BY <1>5, <1>6 DEF DuplicateEdges, D
<1>8. e0.source = Least(Members(C, cluster)) /\ e0.target = m
  BY DuplicateEdgeSays DEF e0
<1> QED
  BY <1>2, <1>5, <1>7, <1>8

\* What is drawn stays within a cluster.
LEMMA DrawnWithin ==
    ASSUME NEW R, NEW C, Accepted(R, C), NEW e \in DuplicateEdges(C)
    PROVE  /\ e.type = "DUPLICATE_OF"
           /\ \E cluster \in Clusters(C) : {e.source, e.target} \subseteq Members(C, cluster)
<1>1. PICK cluster \in Clusters(C) : e \in Star(C, cluster)
  BY DEF DuplicateEdges
<1>2. PICK m \in Members(C, cluster) : e = DuplicateEdge(C, cluster, m)
  BY <1>1 DEF Star
<1>3. e.type = "DUPLICATE_OF" /\ e.source = Least(Members(C, cluster)) /\ e.target = m
  BY <1>2, DuplicateEdgeSays
<1>4. Least(Members(C, cluster)) \in Members(C, cluster)
  BY ClusterMembers, <1>2, LeastRanked
<1> QED
  BY <1>3, <1>4

-----------------------------------------------------------------------------
(* Clusters are joined.                                                     *)

\* Longer walks reach more.
LEMMA LongerWalks ==
    ASSUME NEW E, NEW x, NEW direction, NEW m \in Nat \ {0}, NEW n \in Nat, m <= n
    PROVE  WalkEnds(E, x, direction, m) \subseteq WalkEnds(E, x, direction, n)
<1> DEFINE W(k) == WalkEnds(E, x, direction, k)
           T == {k \in Nat : m <= k /\ ~ (W(m) \subseteq W(k))}
<1>1. ASSUME NEW k \in Nat \ {0}, NEW l \in Nat, l = k + 1 PROVE W(k) \subseteq W(l)
  BY <1>1, NextWalks
<1> HIDE DEF W
<1>2. ASSUME T # {} PROVE FALSE
  <2>1. PICK k \in T : \A l \in T : k <= l
    <3>1. T \subseteq Nat
      OBVIOUS
    <3> HIDE DEF T
    <3> QED
      BY <1>2, <3>1, LeastExists
  <2>2. k \in Nat /\ m <= k /\ ~ (W(m) \subseteq W(k))
    OBVIOUS
  <2>3. k # m
    BY <2>2
  <2>4. k - 1 \in Nat \ {0} /\ m <= k - 1 /\ k = (k - 1) + 1 /\ ~ (k <= k - 1)
    BY <2>2, <2>3
  <2>5. k - 1 \notin T
    <3> HIDE DEF T
    <3> QED
      BY <2>1, <2>4
  <2>6. W(m) \subseteq W(k - 1)
    BY <2>4, <2>5
  <2>7. W(k - 1) \subseteq W(k)
    BY <1>1, <2>2, <2>4
  <2> QED
    BY <2>2, <2>6, <2>7
<1> QED
  BY <1>2 DEF W

\* What lies one step away, and two.
LEMMA ShortWalks ==
    ASSUME NEW E, NEW x, NEW direction, NEW n \in Nat, 2 <= n
    PROVE  /\ Beyond(E, {x}, direction) \subseteq WalkEnds(E, x, direction, n)
           /\ Beyond(E, Beyond(E, {x}, direction), direction) \subseteq WalkEnds(E, x, direction, n)
<1>1. WalkEnds(E, x, direction, 1) = Beyond(E, {x}, direction)
  BY FirstWalks
<1>2. WalkEnds(E, x, direction, 2) =
        WalkEnds(E, x, direction, 1) \cup Beyond(E, WalkEnds(E, x, direction, 1), direction)
  <2>1. 1 \in Nat \ {0} /\ 2 \in Nat /\ 2 = 1 + 1
    OBVIOUS
  <2> QED
    BY <2>1, NextWalks
<1>3. WalkEnds(E, x, direction, 2) \subseteq WalkEnds(E, x, direction, n)
  BY LongerWalks
<1> QED
  BY <1>1, <1>2, <1>3

\* A star joins its ends, if its edges may be walked both ways.
LEMMA StarJoins ==
    ASSUME NEW E, NEW M, NEW centre \in M,
           \A m \in M \ {centre} :
             \E e \in E : e.source = centre /\ e.target = m /\ {"source", "target"} \subseteq DOMAIN e,
           Cardinality(M) \in Nat, 2 <= Cardinality(M)
    PROVE  Joined(E, M)
<1> DEFINE B == BothWays(E)
           n == Cardinality(M)
<1>1. ASSUME NEW m \in M \ {centre}
      PROVE  \E e \in B : e.source = centre /\ e.target = m
  BY DEF BothWays
<1>2. ASSUME NEW m \in M \ {centre}
      PROVE  \E e \in B : e.source = m /\ e.target = centre
  <2>1. PICK e \in E : e.source = centre /\ e.target = m /\ {"source", "target"} \subseteq DOMAIN e
    OBVIOUS
  <2> DEFINE back == [e EXCEPT !.source = e.target, !.target = e.source]
  <2>2. back.source = e.target /\ back.target = e.source
    BY <2>1
  <2>3. back \in B
    BY DEF BothWays
  <2> HIDE DEF back, B
  <2> QED
    BY <2>1, <2>2, <2>3
<1> HIDE DEF B
<1>3. ASSUME NEW e \in B PROVE e.target \in Beyond(B, {e.source}, "upstream")
  BY DEF Beyond
<1>4. ASSUME NEW m \in M \ {centre}
      PROVE  m \in Beyond(B, {centre}, "upstream") /\ centre \in Beyond(B, {m}, "upstream")
  BY <1>1, <1>2, <1>3
<1>5. ASSUME NEW x \in M, NEW y \in M, x # y
      PROVE  y \in WalkEnds(B, x, "upstream", n)
  <2>1. CASE x = centre \/ y = centre
    <3>1. y \in Beyond(B, {x}, "upstream")
      BY <1>4, <1>5, <2>1
    <3> QED
      BY <3>1, ShortWalks
  <2>2. CASE ~ (x = centre \/ y = centre)
    <3>1. {centre} \subseteq Beyond(B, {x}, "upstream") /\ y \in Beyond(B, {centre}, "upstream")
      BY <1>4, <2>2
    <3>2. y \in Beyond(B, Beyond(B, {x}, "upstream"), "upstream")
      BY <3>1, BeyondJoins
    <3> QED
      BY <3>2, ShortWalks
  <2> QED
    BY <2>1, <2>2
<1> HIDE DEF n
<1>6. \A x \in M : M \subseteq {x} \cup WalkEnds(B, x, "upstream", n)
  BY <1>5
<1> QED
  BY <1>6 DEF Joined, B, n

-----------------------------------------------------------------------------
(* The ends of edges.                                                       *)

LEMMA EdgeSays ==
    ASSUME NEW type, NEW source, NEW target, NEW from, NEW resolution, NEW endpoint
    PROVE  LET e == Edge(type, source, target, from, resolution, endpoint)
           IN  e.type = type /\ e.source = source /\ e.target = target
  BY DEF Edge

LEMMA ContainmentSays ==
    ASSUME NEW x, NEW y
    PROVE  Containment(x, y).type = "CONTAINS" /\ Containment(x, y).source = x /\ Containment(x, y).target = y
  BY EdgeSays DEF Containment

\* Who draws the edges of the scope.
LEMMA ScopeIsDrawn ==
    ASSUME NEW C, NEW e \in ScopeEdges(C)
    PROVE  \/ \E c \in Elements(C) : \E root \in Elements(c.roots) : e = Containment(c.corpus, root.id)
           \/ \E id \in RootIds(C) : /\ RootOf(C, id).repository # Absent
                                    /\ e = Containment(id, RootOf(C, id).repository)
<1> DEFINE below == {Containment(id, RootOf(C, id).repository) :
                       id \in {x \in RootIds(C) : RootOf(C, x).repository # Absent}}
           above == UNION {{Containment(c.corpus, root.id) : root \in Elements(c.roots)} : c \in Elements(C)}
<1>1. ScopeEdges(C) = above \cup below
  BY DEF ScopeEdges
<1>2. ASSUME e \in below
      PROVE  \E id \in RootIds(C) : RootOf(C, id).repository # Absent /\ e = Containment(id, RootOf(C, id).repository)
  BY <1>2
<1>3. ASSUME e \in above
      PROVE  \E c \in Elements(C) : \E root \in Elements(c.roots) : e = Containment(c.corpus, root.id)
  BY <1>3
<1> HIDE DEF above, below
<1> QED
  BY <1>1, <1>2, <1>3

\* Of what the compiler derives, only the stars are copies.
LEMMA OnlyStarsAreCopies ==
    ASSUME NEW R, NEW C, NEW e \in GraphEdges(R, C) \ DeclaredEdges(R), e.type = "DUPLICATE_OF"
    PROVE  e \in DuplicateEdges(C)
<1>1. e \notin RepositoryEdges(R)
  BY EdgeSays DEF RepositoryEdges
<1>2. e \notin ArtifactEdges(R)
  BY EdgeSays, ContainmentSays DEF ArtifactEdges
<1>3. e \notin CapabilityLinks(R, C)
  BY EdgeSays DEF CapabilityLinks
<1>4. e \notin ClaimEdges(Pool(R, C))
  <2>1. ASSUME NEW c \in ReferenceClaims(Pool(R, C)) PROVE e # ClaimEdge(c)
    <3>1. EdgeType(c.predicate) # "DUPLICATE_OF"
      BY DEF EdgeType, ReferenceClaims, EdgePredicates
    <3>2. ClaimEdge(c).type = EdgeType(c.predicate)
      BY EdgeSays DEF ClaimEdge
    <3> QED
      BY <3>1, <3>2
  <2> QED
    BY <2>1 DEF ClaimEdges
<1>5. e \notin WorkEdges(Pool(R, C))
  <2>1. ASSUME NEW c \in WorkClaims(Pool(R, C)) PROVE e # WorkEdge(Pool(R, C), c)
    <3>1. WorkType(c.predicate) # "DUPLICATE_OF"
      BY DEF WorkType, WorkClaims, WorkPredicates
    <3>2. WorkEdge(Pool(R, C), c).type = WorkType(c.predicate)
      BY EdgeSays DEF WorkEdge
    <3> QED
      BY <3>1, <3>2
  <2> QED
    BY <2>1 DEF WorkEdges
<1>6. e \notin ScopeEdges(C)
  BY ContainmentSays, ScopeIsDrawn
<1> QED
  BY <1>1, <1>2, <1>3, <1>4, <1>5, <1>6 DEF GraphEdges

\* A repository that is looked up by name is one of those observed.
LEMMA TargetIsObserved ==
    ASSUME NEW R, NEW C, Accepted(R, C), NEW need, TargetOf(R, need) # Absent
    PROVE  TargetOf(R, need) \in RepositoryIds(R)
<1>1. \A r \in Elements(R) : r.repository \in Repositories
  BY WellFormedInputs DEF Accepted, RepositoryPacketWellFormed
<1>2. RepositoryIds(R) \subseteq Identifiers
  BY <1>1 DEF RepositoryIds, Identifiers
<1>3. IsFiniteSet(RepositoryIds(R))
  <2> DEFINE f == [r \in Elements(R) |-> r.repository]
             ids == RepositoryIds(R)
             packets == Elements(R)
  <2>1. f \in Surjection(packets, ids)
    BY DEF Surjection, RepositoryIds
  <2>2. IsFiniteSet(packets)
    BY ElementsFinite DEF Accepted
  <2> HIDE DEF f, ids, packets
  <2>3. IsFiniteSet(ids)
    BY <2>1, <2>2, FS_Surjection
  <2> QED
    BY <2>3 DEF ids
<1>4. ASSUME NEW name, Lookup(R, name) # Absent
      PROVE  Lookup(R, name) \in RepositoryIds(R)
  <2> DEFINE named == {id \in RepositoryIds(R) : name \in {NameOf(R, id), ShortName[id]}}
  <2>1. named # {} /\ Lookup(R, name) = Greatest(named)
    BY <1>4 DEF Lookup
  <2>2. named \subseteq RepositoryIds(R)
    OBVIOUS
  <2> HIDE DEF named
  <2>3. named \in SUBSET Identifiers /\ IsFiniteSet(named)
    BY <1>2, <1>3, <2>2, FS_Subset
  <2>4. \E x \in named : \A y \in named : Rank[y] <= Rank[x]
    BY <2>1, <2>3, GreatestRanked
  <2>5. Greatest(named) \in named
    BY <2>4 DEF Greatest
  <2> QED
    BY <2>1, <2>2, <2>5
<1> QED
  BY <1>4 DEF TargetOf

-----------------------------------------------------------------------------
(* Capabilities.                                                            *)

CapabilityFields == {"id", "text", "by", "exposed", "validated", "backed"}

\* Something lacks evidence that a packet should have given.
Unbacked(R) == ListedOnlyByArtifacts(R) \/ \E r \in Elements(R) : r.cites = "none"

\* The record of a capability that is declared or listed.
LEMMA ListedSays ==
    ASSUME NEW R, NEW C, Accepted(R, C), NEW id \in ListedIds(R)
    PROVE  LET k == Listed(R, id)
           IN  /\ DOMAIN k = CapabilityFields
               /\ k.id = id
               /\ k.by \subseteq Named(R, C) \cup RepositoryIds(R)
               /\ k.exposed \subseteq Named(R, C)
               /\ k.backed \/ Unbacked(R)
<1> DEFINE k == Listed(R, id)
<1>1. CASE id \in DeclaredIds(R)
  <2> DEFINE declared == {x \in Elements(Declared(R)) : x.id = id}
  <2>1. k = LastIn(Declared(R), declared)
    BY <1>1 DEF Listed, LastDeclared
  <2>2. \A r \in Elements(R) : RepositoryPacketWellFormed(r)
    BY WellFormedInputs DEF Accepted
  <2>3. Declared(R) \in Seq(Elements(Declared(R)))
    BY <2>2, DeclarationsOfAll DEF Accepted, IsSequence
  <2>4. Elements(Declared(R)) \cap declared # {}
    BY <1>1 DEF DeclaredIds
  <2> HIDE DEF k, declared
  <2>5. k \in Elements(Declared(R)) /\ k \in declared
    BY <2>1, <2>3, <2>4, LastBelongs
  <2>6. PICK r \in Elements(R) : k \in Elements(r.declares)
    BY <2>2, <2>5, DeclarationsOfAll DEF Accepted
  <2>7. IsCapability(k) /\ (k.backed \/ r.cites = "none")
    BY <2>2, <2>6 DEF RepositoryPacketWellFormed
  <2>8. k.by \cup k.exposed \subseteq Named(R, C)
    <3> DEFINE of == UNION {UNION {x.by \cup x.exposed : x \in Elements(y.declares)} : y \in Elements(R)}
    <3>1. k.by \cup k.exposed \subseteq of
      BY <2>6
    <3>2. of \subseteq Named(R, C)
      <4> DEFINE before == (UNION {y.upstream : y \in Elements(R)})
                             \cup UNION {UNION {{e.source, e.target} : e \in y.relations} : y \in Elements(R)}
                 after == {c.subject : c \in Claims(Pool(R, C))}
                 last == {root.repository : root \in Elements(Roots(C))} \ {Absent}
      <4>1. Named(R, C) = before \cup of \cup after \cup last
        BY DEF Named
      <4> HIDE DEF before, of, after, last
      <4> QED
        BY <4>1
    <3> HIDE DEF of
    <3> QED
      BY <3>1, <3>2
  <2>9. k.id = id
    BY <2>5 DEF declared
  <2>10. k.backed \/ Unbacked(R)
    BY <2>7 DEF Unbacked
  <2> QED
    BY <2>7, <2>8, <2>9, <2>10 DEF IsCapability, CapabilityFields, k
<1>2. CASE id \notin DeclaredIds(R) /\ Offering(R, id) = {}
  <2>1. k = CapabilityRecord(id, [listed |-> "artifacts"], {}, {}, {}, FALSE)
    BY <1>2 DEF Listed
  <2>2. ListedOnlyByArtifacts(R)
    <3> DEFINE offered == UNION {r.offers : r \in Elements(R)}
               byArtifacts == UNION {UNION {r.docs[d].offers : d \in DOMAIN r.docs} : r \in Elements(R)}
    <3>1. ListedIds(R) = DeclaredIds(R) \cup offered \cup byArtifacts
      BY DEF ListedIds
    <3>2. id \notin offered
      BY <1>2 DEF Offering
    <3>3. ASSUME id \in byArtifacts
          PROVE  \E r \in Elements(R) : \E d \in DOMAIN r.docs : id \in r.docs[d].offers
      BY <3>3
    <3> HIDE DEF offered, byArtifacts
    <3>4. PICK r \in Elements(R) : \E d \in DOMAIN r.docs : id \in r.docs[d].offers
      BY <1>2, <3>1, <3>2, <3>3
    <3>5. PICK d \in DOMAIN r.docs : id \in r.docs[d].offers
      BY <3>4
    <3>6. id \in r.docs[d].offers \ (offered \cup DeclaredIds(R))
      BY <1>2, <3>2, <3>5
    <3>7. ListedOnlyByArtifacts(R) <=>
            \E x \in Elements(R) : \E y \in DOMAIN x.docs : x.docs[y].offers \ (offered \cup DeclaredIds(R)) # {}
      BY DEF ListedOnlyByArtifacts, offered
    <3> QED
      BY <3>6, <3>7
  <2>3. DOMAIN k = CapabilityFields /\ k.id = id /\ k.by = {} /\ k.exposed = {}
    BY <2>1 DEF CapabilityRecord, CapabilityFields
  <2> QED
    BY <2>2, <2>3 DEF Unbacked
<1>3. CASE id \notin DeclaredIds(R) /\ Offering(R, id) # {}
  <2> DEFINE first == Least(Offering(R, id))
  <2>1. k = CapabilityRecord(id, [listed |-> NameOf(R, first)], {first}, {}, {}, TRUE)
    BY <1>3 DEF Listed
  <2>2. Offering(R, id) \subseteq RepositoryIds(R)
    BY DEF Offering, RepositoryIds
  <2>3. \A r \in Elements(R) : r.repository \in Identifiers
    BY WellFormedInputs DEF Accepted, RepositoryPacketWellFormed, Identifiers
  <2>4. Offering(R, id) \subseteq Identifiers
    BY <2>3 DEF Offering
  <2>5. first \in RepositoryIds(R)
    BY <1>3, <2>2, <2>4, LeastRanked
  <2> HIDE DEF first
  <2>6. DOMAIN k = CapabilityFields /\ k.id = id /\ k.by = {first} /\ k.exposed = {} /\ k.backed = TRUE
    BY <2>1 DEF CapabilityRecord, CapabilityFields
  <2> QED
    BY <2>5, <2>6
<1> QED
  BY <1>1, <1>2, <1>3

\* A capability that claims project.
LEMMA ProjectedSays ==
    ASSUME NEW R, NEW C, NEW p \in Projected(Pool(R, C))
    PROVE  p.by \subseteq Named(R, C) /\ p.exposed = {} /\ p.backed = TRUE
<1>1. PICK c \in CapabilityClaims(Pool(R, C)) :
        p = CapabilityRecord(Capability(c), [claimed |-> c.object], {c.subject}, {}, {}, TRUE)
  BY DEF Projected
<1>2. p.by = {c.subject} /\ p.exposed = {} /\ p.backed = TRUE
  BY <1>1 DEF CapabilityRecord
<1>3. c \in Claims(Pool(R, C))
  BY DEF CapabilityClaims, ProjectableClaims
<1>4. c.subject \in Named(R, C)
  BY <1>3 DEF Named
<1> QED
  BY <1>2, <1>4

\* A capability of the packets, with the artifacts that list it.
LEMMA BuiltSays ==
    ASSUME NEW R, NEW C, Accepted(R, C), NEW id \in ListedIds(R)
    PROVE  LET k == [Listed(R, id) EXCEPT !.by = @ \cup Implementing(R, id)]
           IN  /\ DOMAIN k = CapabilityFields
               /\ k.id = id
               /\ k.by \subseteq Named(R, C) \cup RepositoryIds(R) \cup Carried(R)
               /\ k.exposed \subseteq Named(R, C)
               /\ k.backed \/ Unbacked(R)
<1> DEFINE l == Listed(R, id)
           k == [l EXCEPT !.by = @ \cup Implementing(R, id)]
<1>1. /\ DOMAIN l = CapabilityFields /\ l.id = id
      /\ l.by \subseteq Named(R, C) \cup RepositoryIds(R) /\ l.exposed \subseteq Named(R, C)
      /\ l.backed \/ Unbacked(R)
  BY ListedSays
<1>2. Implementing(R, id) \subseteq Carried(R)
  BY DEF Implementing
<1> HIDE DEF l
<1>3. DOMAIN k = DOMAIN l /\ k.by = l.by \cup Implementing(R, id)
  BY <1>1 DEF CapabilityFields
<1>4. k.id = l.id /\ k.exposed = l.exposed /\ k.backed = l.backed
  BY <1>1 DEF CapabilityFields
<1> HIDE DEF k
<1>5. k.by \subseteq Named(R, C) \cup RepositoryIds(R) \cup Carried(R)
  BY <1>1, <1>2, <1>3
<1>6. k.backed \/ Unbacked(R)
  BY <1>1, <1>4
<1> QED
  BY <1>1, <1>3, <1>4, <1>5, <1>6 DEF k, l

\* A built capability after what claims project was merged into it.
LEMMA MergedSays ==
    ASSUME NEW b, DOMAIN b = CapabilityFields, NEW S
    PROVE  LET k == [b EXCEPT !.by = @ \cup S]
           IN  k.id = b.id /\ k.by = b.by \cup S /\ k.exposed = b.exposed /\ k.backed = b.backed
  BY DEF CapabilityFields

LEMMA CapabilitiesSay ==
    ASSUME NEW R, NEW C, Accepted(R, C), NEW k \in Capabilities(R, C)
    PROVE  /\ k.by \subseteq Named(R, C) \cup RepositoryIds(R) \cup Carried(R)
           /\ k.exposed \subseteq Named(R, C)
           /\ k.backed \/ Unbacked(R)
<1> DEFINE projected == Projected(Pool(R, C))
           more(b) == UNION {p.by : p \in {q \in projected : q.id = b.id}}
           merge(b) == [b EXCEPT !.by = @ \cup more(b)]
<1>1. k \in {merge(b) : b \in Built(R)} \/ k \in projected
  BY DEF Capabilities
<1>2. CASE k \in projected
  BY <1>2, ProjectedSays
<1>3. CASE k \in {merge(b) : b \in Built(R)}
  <2>1. PICK b \in Built(R) : k = merge(b)
    BY <1>3
  <2>2. PICK id \in ListedIds(R) : b = [Listed(R, id) EXCEPT !.by = @ \cup Implementing(R, id)]
    BY DEF Built
  <2>3. /\ DOMAIN b = CapabilityFields
        /\ b.by \subseteq Named(R, C) \cup RepositoryIds(R) \cup Carried(R)
        /\ b.exposed \subseteq Named(R, C)
        /\ b.backed \/ Unbacked(R)
    BY <2>2, BuiltSays
  <2>4. more(b) \subseteq Named(R, C)
    BY ProjectedSays
  <2> HIDE DEF more
  <2>5. k.by = b.by \cup more(b) /\ k.exposed = b.exposed /\ k.backed = b.backed
    BY <2>1, <2>3, MergedSays
  <2> QED
    BY <2>3, <2>4, <2>5
<1> QED
  BY <1>1, <1>2, <1>3

\* Whatever is listed is a capability.
LEMMA ListedAreThere ==
    ASSUME NEW R, NEW C, Accepted(R, C), NEW id \in ListedIds(R)
    PROVE  \E k \in Capabilities(R, C) : k.id = id
<1> DEFINE projected == Projected(Pool(R, C))
           more(b) == UNION {p.by : p \in {q \in projected : q.id = b.id}}
           merge(b) == [b EXCEPT !.by = @ \cup more(b)]
           b0 == [Listed(R, id) EXCEPT !.by = @ \cup Implementing(R, id)]
<1>1. b0 \in Built(R)
  BY DEF Built
<1>2. DOMAIN b0 = CapabilityFields /\ b0.id = id
  BY BuiltSays
<1> HIDE DEF b0
<1>3. merge(b0) \in Capabilities(R, C)
  BY <1>1 DEF Capabilities
<1> HIDE DEF more
<1>4. merge(b0).id = id
  BY <1>2, MergedSays
<1> QED
  BY <1>3, <1>4

\* What packets carry lies in a repository that was observed.
LEMMA CarriedIsHome ==
    ASSUME NEW R, NEW C, Accepted(R, C), NEW d \in Carried(R)
    PROVE  d \in Documents /\ Home[d] \in RepositoryIds(R)
<1>1. PICK r \in Elements(R) : d \in DOMAIN r.docs
  BY DEF Carried, Artifacts
<1>2. Home[d] = r.repository /\ d \in Documents
  BY <1>1, WellFormedInputs DEF Accepted, RepositoryPacketWellFormed
<1> QED
  BY <1>2 DEF RepositoryIds

\* The parts of the graph's nodes.
LEMMA NodesOfGraph ==
    ASSUME NEW R, NEW C
    PROVE  /\ \A c \in ReferenceClaims(Pool(R, C)) : Reference(c) \in GraphNodes(R, C)
           /\ \A c \in WorkClaims(Pool(R, C)) : WorkTarget(Pool(R, C), c.object) \in GraphNodes(R, C)
           /\ CorpusIds(C) \subseteq GraphNodes(R, C)
           /\ RootIds(C) \subseteq GraphNodes(R, C)
           /\ RepositoryIds(R) \subseteq GraphNodes(R, C)
           /\ \A id \in RepositoryIds(R) : Owners(R, id) \subseteq GraphNodes(R, C)
           /\ Carried(R) \subseteq GraphNodes(R, C)
           /\ \A k \in Capabilities(R, C) : k.id \in GraphNodes(R, C)
<1> DEFINE docs == Pool(R, C)
           references == {Reference(c) : c \in ReferenceClaims(docs)}
           targets == {WorkTarget(docs, c.object) : c \in WorkClaims(docs)}
           owners == UNION {Owners(R, id) : id \in RepositoryIds(R)}
           capabilities == {k.id : k \in Capabilities(R, C)}
<1>1. GraphNodes(R, C) =
        references \cup targets \cup CorpusIds(C) \cup RootIds(C) \cup RepositoryIds(R)
          \cup owners \cup Carried(R) \cup capabilities
  BY DEF GraphNodes
<1>2. /\ \A c \in ReferenceClaims(docs) : Reference(c) \in references
      /\ \A c \in WorkClaims(docs) : WorkTarget(docs, c.object) \in targets
      /\ \A id \in RepositoryIds(R) : Owners(R, id) \subseteq owners
      /\ \A k \in Capabilities(R, C) : k.id \in capabilities
  OBVIOUS
<1> HIDE DEF references, targets, owners, capabilities
<1> QED
  BY <1>1, <1>2

\* What packets name.
LEMMA WhatIsNamed ==
    ASSUME NEW R, NEW C
    PROVE  /\ \A r \in Elements(R) : r.upstream \subseteq Named(R, C)
           /\ \A e \in DeclaredEdges(R) : {e.source, e.target} \subseteq Named(R, C)
           /\ \A c \in Claims(Pool(R, C)) : c.subject \in Named(R, C)
           /\ \A root \in Elements(Roots(C)) : root.repository # Absent => root.repository \in Named(R, C)
<1> DEFINE upstream == UNION {r.upstream : r \in Elements(R)}
           related == UNION {UNION {{e.source, e.target} : e \in r.relations} : r \in Elements(R)}
           capable == UNION {UNION {k.by \cup k.exposed : k \in Elements(r.declares)} : r \in Elements(R)}
           subjects == {c.subject : c \in Claims(Pool(R, C))}
           rooted == {root.repository : root \in Elements(Roots(C))} \ {Absent}
<1>1. Named(R, C) = upstream \cup related \cup capable \cup subjects \cup rooted
  BY DEF Named
<1>2. /\ \A r \in Elements(R) : r.upstream \subseteq upstream
      /\ \A c \in Claims(Pool(R, C)) : c.subject \in subjects
      /\ \A root \in Elements(Roots(C)) : root.repository # Absent => root.repository \in rooted
  OBVIOUS
<1>3. ASSUME NEW e \in DeclaredEdges(R) PROVE {e.source, e.target} \subseteq related
  <2>1. PICK r \in Elements(R) : e \in r.relations
    BY DEF DeclaredEdges
  <2> QED
    BY <2>1
<1> HIDE DEF upstream, related, capable, subjects, rooted
<1> QED
  BY <1>1, <1>2, <1>3

\* Every end of an edge is a node or something a packet names.
LEMMA EndsOfGraph ==
    ASSUME NEW R, NEW C, Accepted(R, C), NEW e \in GraphEdges(R, C)
    PROVE  {e.source, e.target} \subseteq GraphNodes(R, C) \cup Named(R, C)
<1> DEFINE docs == Pool(R, C)
           N == GraphNodes(R, C) \cup Named(R, C)
<1>1. CASE e \in DeclaredEdges(R)
  BY <1>1, WhatIsNamed
<1>2. CASE e \in RepositoryEdges(R)
  <2>1. PICK id \in RepositoryIds(R) :
          \/ e \in {Edge("DEPENDS_ON", id, u, {}, "none", "none") : u \in Upstream(R, id)}
          \/ e \in {Edge("OWNED_BY", id, o, {}, "none", "none") : o \in Owners(R, id)}
    BY <1>2 DEF RepositoryEdges
  <2>2. Upstream(R, id) \subseteq N
    <3> DEFINE named == UNION {r.upstream : r \in Observing(R, id)}
    <3>1. Upstream(R, id) = named \cup Resolved(R, id)
      BY DEF Upstream
    <3>2. named \subseteq Named(R, C)
      BY WhatIsNamed DEF Observing
    <3>3. Resolved(R, id) \subseteq RepositoryIds(R)
      BY TargetIsObserved DEF Resolved, Unmet
    <3> HIDE DEF named
    <3> QED
      BY <3>1, <3>2, <3>3, NodesOfGraph
  <2>3. Owners(R, id) \subseteq N /\ id \in N
    BY NodesOfGraph
  <2>4. CASE e \in {Edge("DEPENDS_ON", id, u, {}, "none", "none") : u \in Upstream(R, id)}
    <3>1. e.source = id /\ e.target \in Upstream(R, id)
      BY <2>4, EdgeSays
    <3> HIDE DEF N
    <3> QED
      BY <2>2, <2>3, <3>1 DEF N
  <2>5. CASE e \in {Edge("OWNED_BY", id, o, {}, "none", "none") : o \in Owners(R, id)}
    <3>1. e.source = id /\ e.target \in Owners(R, id)
      BY <2>5, EdgeSays
    <3> HIDE DEF N
    <3> QED
      BY <2>3, <3>1 DEF N
  <2> QED
    BY <2>1, <2>4, <2>5
<1>3. CASE e \in ArtifactEdges(R)
  <2> DEFINE offered(d) == UNION {r.docs[d].offers : r \in Carriers(R, d)}
             listing(d) == {Edge("IMPLEMENTS", d, id, {}, "none", "none") : id \in offered(d)}
  <2>1. \/ \E d \in Carried(R) : e = Containment(Home[d], d)
        \/ \E d \in Carried(R) : e \in listing(d)
    BY <1>3 DEF ArtifactEdges
  <2>2. PICK d \in Carried(R) : e = Containment(Home[d], d) \/ e \in listing(d)
    BY <2>1
  <2>3. d \in N /\ Home[d] \in N
    BY CarriedIsHome, NodesOfGraph
  <2>4. offered(d) \subseteq ListedIds(R)
    <3> DEFINE listed == UNION {UNION {r.docs[x].offers : x \in DOMAIN r.docs} : r \in Elements(R)}
               others == DeclaredIds(R) \cup (UNION {r.offers : r \in Elements(R)})
    <3>1. ListedIds(R) = others \cup listed
      BY DEF ListedIds
    <3>2. offered(d) \subseteq listed
      BY DEF Carriers
    <3> HIDE DEF listed, others, offered
    <3> QED
      BY <3>1, <3>2
  <2>5. ASSUME NEW id \in offered(d) PROVE id \in N
    <3>1. PICK k \in Capabilities(R, C) : k.id = id
      BY <2>4, ListedAreThere
    <3> QED
      BY <3>1, NodesOfGraph
  <2>6. ASSUME e \in listing(d) PROVE e.source = d /\ e.target \in offered(d)
    BY <2>6, EdgeSays
  <2>7. ASSUME e = Containment(Home[d], d) PROVE e.source = Home[d] /\ e.target = d
    BY <2>7, ContainmentSays
  <2> HIDE DEF N, offered, listing
  <2> QED
    BY <2>2, <2>3, <2>5, <2>6, <2>7 DEF N
<1>4. CASE e \in CapabilityLinks(R, C)
  <2>1. PICK k \in Capabilities(R, C) :
          \/ e \in {Edge("IMPLEMENTS", x, k.id, {}, "none", "none") : x \in k.by}
          \/ e \in {Edge("EXPOSES", x, k.id, {}, "none", "none") : x \in k.exposed}
    BY <1>4 DEF CapabilityLinks
  <2>2. e.source \in k.by \cup k.exposed /\ e.target = k.id
    BY <2>1, EdgeSays
  <2> QED
    BY <2>2, CapabilitiesSay, NodesOfGraph
<1>5. CASE e \in ClaimEdges(docs)
  <2>1. PICK c \in ReferenceClaims(docs) : e = ClaimEdge(c)
    BY <1>5 DEF ClaimEdges
  <2>2. {e.source, e.target} = {Reference(c), c.subject}
    BY <2>1, EdgeSays DEF ClaimEdge
  <2>3. c \in Claims(docs)
    BY DEF ReferenceClaims, ProjectableClaims
  <2>4. c.subject \in Named(R, C) /\ Reference(c) \in GraphNodes(R, C)
    BY <2>3, WhatIsNamed, NodesOfGraph
  <2> QED
    BY <2>2, <2>4
<1>6. CASE e \in WorkEdges(docs)
  <2>1. PICK c \in WorkClaims(docs) : e = WorkEdge(docs, c)
    BY <1>6 DEF WorkEdges
  <2>2. {e.source, e.target} = {WorkTarget(docs, c.object), c.subject}
    BY <2>1, EdgeSays DEF WorkEdge
  <2>3. c \in Claims(docs)
    BY DEF WorkClaims, ProjectableClaims
  <2>4. c.subject \in Named(R, C) /\ WorkTarget(docs, c.object) \in GraphNodes(R, C)
    BY <2>3, WhatIsNamed, NodesOfGraph
  <2> QED
    BY <2>2, <2>4
<1>7. CASE e \in DuplicateEdges(C)
  <2>1. PICK cluster \in Clusters(C) : {e.source, e.target} \subseteq Members(C, cluster)
    BY <1>7, DrawnWithin
  <2>2. Members(C, cluster) \subseteq Carried(R)
    BY ClusterMembers
  <2> QED
    BY <2>1, <2>2, NodesOfGraph
<1>8. CASE e \in ScopeEdges(C)
  <2>0. /\ IsSequence(Roots(C))
        /\ \A x : x \in Elements(Roots(C)) <=> \E c \in Elements(C) : x \in Elements(c.roots)
    BY WellFormedInputs, RootsOfAll DEF Accepted
  <2>1. ASSUME NEW c \in Elements(C), NEW root \in Elements(c.roots), e = Containment(c.corpus, root.id)
        PROVE  {e.source, e.target} \subseteq N
    <3>1. e.source = c.corpus /\ e.target = root.id
      BY <2>1, ContainmentSays
    <3>2. c.corpus \in CorpusIds(C)
      BY DEF CorpusIds
    <3>3. root.id \in RootIds(C)
      BY <2>0 DEF RootIds
    <3> QED
      BY <3>1, <3>2, <3>3, NodesOfGraph
  <2>2. ASSUME NEW id \in RootIds(C), RootOf(C, id).repository # Absent,
               e = Containment(id, RootOf(C, id).repository)
        PROVE  {e.source, e.target} \subseteq N
    <3>1. e.source = id /\ e.target = RootOf(C, id).repository
      BY <2>2, ContainmentSays
    <3> DEFINE those == {root \in Elements(Roots(C)) : root.id = id}
    <3>2. Elements(Roots(C)) \cap those # {}
      BY DEF RootIds
    <3> HIDE DEF those
    <3>3. RootOf(C, id) = FirstIn(Roots(C), those)
      BY DEF RootOf, those
    <3>4. RootOf(C, id) \in Elements(Roots(C))
      BY <2>0, <3>2, <3>3, FirstBelongs DEF IsSequence
    <3> QED
      BY <2>2, <3>1, <3>4, NodesOfGraph, WhatIsNamed
  <2> QED
    BY <1>8, <2>1, <2>2, ScopeIsDrawn
<1> QED
  BY <1>1, <1>2, <1>3, <1>4, <1>5, <1>6, <1>7, <1>8 DEF GraphEdges

-----------------------------------------------------------------------------
(* Candidates.                                                              *)

\* The parts of a compiled topology that speak of candidates.
LEMMA CompiledParts ==
    ASSUME NEW R, NEW C
    PROVE  LET t == Compiled(R, C)
               v == View(R, C)
           IN  /\ t.edges = GraphEdges(R, C) /\ v.edges = GraphEdges(R, C)
               /\ t.conflicts = v.conflicts
               /\ t.clusters = Clustered(v, C) /\ t.routed = Routed(v, C)
  BY DEF Compiled, View

\* A cluster as the compiler draws it, seen alone.
LEMMA ClusterIsJoined ==
    ASSUME NEW R, NEW C, Accepted(R, C), NEW cluster \in Clusters(C),
           NEW t, t.edges = GraphEdges(R, C)
    PROVE  Joined(Within(t, "DUPLICATE_OF", Members(C, cluster)), Members(C, cluster))
<1> DEFINE M == Members(C, cluster)
           centre == Least(M)
           E == Within(t, "DUPLICATE_OF", M)
<1>1. /\ M \subseteq Identifiers /\ Cardinality(M) \in Nat /\ 2 <= Cardinality(M) /\ IsFiniteSet(M)
  BY ClusterMembers
<1>2. M # {}
  BY <1>1, FS_EmptySet
<1>3. centre \in M
  <2> HIDE DEF M
  <2> QED
    BY <1>1, <1>2, LeastRanked
<1>4. ASSUME NEW m \in M \ {centre}
      PROVE  \E e \in E : e.source = centre /\ e.target = m /\ {"source", "target"} \subseteq DOMAIN e
  <2>1. PICK e \in DuplicateEdges(C) :
          /\ e.type = "DUPLICATE_OF" /\ e.source = centre /\ e.target = m
          /\ {"source", "target"} \subseteq DOMAIN e
    BY StarsAreDrawn
  <2>2. e \in t.edges
    BY DEF GraphEdges
  <2>3. {e.source, e.target} \subseteq M
    BY <1>3, <2>1
  <2> QED
    BY <2>1, <2>2, <2>3 DEF Within
<1> HIDE DEF M, centre, E
<1>5. Joined(E, M)
  BY <1>1, <1>3, <1>4, StarJoins
<1> QED
  BY <1>5 DEF E, M

\* The records of a corpus packet that are candidates.
LEMMA CandidateSays ==
    ASSUME NEW R, NEW C, Accepted(R, C), NEW c \in Elements(C), NEW p \in Candidates(c)
    PROVE  p.class \in ConfidenceClasses
<1>1. PICK f \in CandidateFields : p \in Records(c, f)
  BY DEF Candidates
<1>2. CorpusPacketWellFormed(c)
  BY WellFormedInputs DEF Accepted
<1>3. f \in PayloadFields
  BY DEF CandidateFields, PayloadFields
<1>4. IsRecordOf(f, p)
  BY <1>1, <1>2, <1>3 DEF CorpusPacketWellFormed, Records
<1>5. IsCandidate(p, TypeOfField(f))
  BY <1>4 DEF IsRecordOf
<1> QED
  BY <1>5 DEF IsCandidate

\* Flags lower what the producer claimed, never raise it.
LEMMA ClassIsWeakened ==
    ASSUME NEW flags, NEW class \in ConfidenceClasses
    PROVE  ClassOrder[ClassOf(flags, class)] <= ClassOrder[class]
  BY DEF ClassOf, Weaken, ClassOrder, ConfidenceClasses

LEMMA ClusterSays ==
    ASSUME NEW v, NEW C, NEW k
    PROVE  LET cluster == Cluster(v, C, k)
           IN  /\ cluster.id = k.id /\ cluster.members = k.members
               /\ cluster.flags = Flags(v, C, k) /\ cluster.class = ClassOf(Flags(v, C, k), k.class)
  BY DEF Cluster

\* Something is in dispute about the members of a candidate.
Disputed(v, members) ==
    \/ \E x \in v.conflicts : x.subject \in members
    \/ SubjectsFor(members) \cap ConflictedSubjects(v) # {}

\* A dispute comes before everything structure explains.
LEMMA DisputedIsRouted ==
    ASSUME NEW v, NEW C, NEW p, Disputed(v, p.members)
    PROVE  Route(v, C, Cluster(v, C, p)) = "CONFLICT_RESOLUTION_ANALYSIS"
<1> DEFINE k == Cluster(v, C, p)
<1>1. k.members = p.members /\ k.flags = Flags(v, C, p)
  BY ClusterSays
<1>2. (\E x \in v.conflicts : x.subject \in k.members) \/ "conflicting_status" \in k.flags
  <2>1. CASE \E x \in v.conflicts : x.subject \in p.members
    BY <1>1, <2>1
  <2>2. CASE SubjectsFor(p.members) \cap ConflictedSubjects(v) # {}
    <3>1. "conflicting_status" \in Flags(v, C, p)
      BY <2>2 DEF Flags
    <3> QED
      BY <1>1, <3>1
  <2> QED
    BY <2>1, <2>2 DEF Disputed
<1> HIDE DEF k
<1>3. "confirmed_claim_conflict" \in Signals(v, k)
  BY <1>2 DEF Signals
<1>4. ~ Settled(v, k)
  BY <1>3 DEF Settled
<1>5. Route(v, C, k) = "CONFLICT_RESOLUTION_ANALYSIS"
  BY <1>3, <1>4 DEF Route
<1> QED
  BY <1>5 DEF k

\* What a compilation makes of candidates.
LEMMA CandidatesOfTheResult == ASSUME CompilationInv PROVE CandidatesNeverPromoted
<1> SUFFICES ASSUME result # Absent, result.status # "refused" PROVE CandidatesNeverPromoted
  BY DEF CandidatesNeverPromoted
<1> DEFINE t == result.topology
           R == result.packets
           C == result.corpora
           v == View(R, C)
           copies == {e \in t.edges \ DeclaredEdges(R) : e.type = "DUPLICATE_OF"}
<1>1. t = Compiled(R, C) /\ Accepted(R, C)
  BY DEF CompilationInv, IsAttempt, Accepted
<1> HIDE DEF t, R, C
<1>2. /\ t.edges = GraphEdges(R, C)
      /\ t.conflicts = v.conflicts /\ t.clusters = Clustered(v, C) /\ t.routed = Routed(v, C)
  BY <1>1, CompiledParts
<1>3. \A cluster \in Clusters(C) : Joined(Within(t, "DUPLICATE_OF", Members(C, cluster)), Members(C, cluster))
  BY <1>1, <1>2, ClusterIsJoined
<1>4. \A e \in copies : \E cluster \in Clusters(C) : {e.source, e.target} \subseteq Members(C, cluster)
  BY <1>1, <1>2, OnlyStarsAreCopies, DrawnWithin
<1>5. RepeatedNode(R, C) \/ \A e \in t.edges : {e.source, e.target} \cap CandidateNodes(C) \subseteq Named(R, C)
  BY <1>1, <1>2, EndsOfGraph DEF RepeatedNode
<1> HIDE DEF v
<1>6. ASSUME NEW k \in t.clusters
      PROVE  \E p \in UNION {Candidates(c) : c \in Elements(C)} :
               /\ p.id = k.id /\ p.members = k.members
               /\ ClassOrder[k.class] <= ClassOrder[p.class]
  <2>1. PICK c \in Elements(C) : \E p \in Candidates(c) : k = Cluster(v, C, p)
    BY <1>2 DEF Clustered
  <2>2. PICK p \in Candidates(c) : k = Cluster(v, C, p)
    BY <2>1
  <2>3. k.id = p.id /\ k.members = p.members /\ k.class = ClassOf(Flags(v, C, p), p.class)
    BY <2>2, ClusterSays
  <2>4. p.class \in ConfidenceClasses
    BY <1>1, CandidateSays
  <2>5. ClassOrder[k.class] <= ClassOrder[p.class]
    BY <2>3, <2>4, ClassIsWeakened
  <2>6. p \in UNION {Candidates(x) : x \in Elements(C)}
    OBVIOUS
  <2> QED
    BY <2>3, <2>5, <2>6
<1>7. ASSUME NEW k \in t.clusters, NEW q \in t.routed,
             q.candidate = k.id, q.members = k.members, Disputed(t, k.members)
      PROVE  q.type = "CONFLICT_RESOLUTION_ANALYSIS"
  <2>1. PICK l \in Clustered(v, C) : q.type = Route(v, C, l) /\ q.members = l.members
    BY <1>2 DEF Routed
  <2>2. PICK c \in Elements(C) : \E p \in Candidates(c) : l = Cluster(v, C, p)
    BY DEF Clustered
  <2>3. PICK p \in Candidates(c) : l = Cluster(v, C, p)
    BY <2>2
  <2>4. p.members = k.members
    BY <1>7, <2>1, <2>3, ClusterSays
  <2>5. Disputed(v, p.members)
    BY <1>2, <1>7, <2>4 DEF Disputed, ConflictedSubjects
  <2> QED
    BY <2>1, <2>3, <2>5, DisputedIsRouted
<1> QED
  BY <1>3, <1>4, <1>5, <1>6, <1>7 DEF CandidatesNeverPromoted, Disputed, t, R, C

\* No compilation promotes a candidate to more than its producer made of it.
THEOREM CompilationCandidates == Spec => []CandidatesNeverPromoted
  BY CompilationInvariant, CandidatesOfTheResult, PTL

-----------------------------------------------------------------------------
(* Why a compilation fails.                                                 *)

\* Two packets are two positions.
LEMMA TwoPositions ==
    ASSUME NEW R, NEW r \in Elements(R), NEW s \in Elements(R), r # s
    PROVE  \E i, j \in DOMAIN R : i # j /\ R[i] = r /\ R[j] = s
  BY DEF Elements

\* One artifact in two packets is one repository in both.
LEMMA RepeatedArtifactsHaveAReason ==
    ASSUME NEW R, NEW C, Accepted(R, C), RepeatedArtifact(R)
    PROVE  Reason("unique-artifact-ids", R, C)
<1>1. PICK i \in DOMAIN R, j \in DOMAIN R : i # j /\ DOMAIN R[i].docs \cap DOMAIN R[j].docs # {}
  BY DEF RepeatedArtifact
<1>2. PICK d : d \in DOMAIN R[i].docs /\ d \in DOMAIN R[j].docs
  BY <1>1
<1>3. R[i] \in Elements(R) /\ R[j] \in Elements(R)
  BY DEF Elements
<1>4. Home[d] = R[i].repository /\ Home[d] = R[j].repository
  BY <1>2, <1>3, WellFormedInputs DEF Accepted, RepositoryPacketWellFormed
<1>5. \E k, l \in DOMAIN R : k # l /\ R[k].repository = R[l].repository
  BY <1>1, <1>4
<1> QED
  BY <1>5 DEF Reason

\* Two observations of one repository disagree on its revision or name.
LEMMA BlockingHasAReason ==
    ASSUME NEW R, NEW C, NEW x \in AllConflicts(R, C), x.blocking
    PROVE  Reason("blocking-conflicts", R, C)
<1>1. \A subject, field : Conflict(subject, field, FALSE).blocking = FALSE
  BY DEF Conflict
<1>2. \A y, z : x # Conflict(y, z, FALSE)
  <2> SUFFICES ASSUME NEW y, NEW z, x = Conflict(y, z, FALSE) PROVE FALSE
    OBVIOUS
  <2>1. x.blocking = FALSE
    BY <1>1
  <2> QED
    BY <2>1, Zenon
<1>3. x \notin FieldConflicts(Facts(R, C)) /\ x \notin CapabilityConflicts(R, C)
  BY <1>2 DEF FieldConflicts, CapabilityConflicts
<1>4. x \notin {Conflict(y.subject, y.field, FALSE) : y \in Conflicts(Pool(R, C))}
  BY <1>2
<1>5. x \in RepositoryConflicts(R)
  <2> DEFINE last == {Conflict(y.subject, y.field, FALSE) : y \in Conflicts(Pool(R, C))}
  <2>1. AllConflicts(R, C) =
          FieldConflicts(Facts(R, C)) \cup RepositoryConflicts(R) \cup CapabilityConflicts(R, C) \cup last
    BY DEF AllConflicts
  <2> HIDE DEF last
  <2> QED
    BY <1>3, <1>4, <2>1 DEF last
<1>6. PICK r \in Elements(R), s \in Elements(R) :
        s.repository = r.repository /\ (s.revision # r.revision \/ s.name # r.name)
  BY <1>5 DEF RepositoryConflicts
<1>7. PICK i \in DOMAIN R, j \in DOMAIN R : i # j /\ R[i] = r /\ R[j] = s
  <2>1. r # s
    BY <1>6
  <2> QED
    BY <2>1, TwoPositions
<1>8. \E k, l \in DOMAIN R : k # l /\ R[k].repository = R[l].repository
  BY <1>6, <1>7
<1> QED
  BY <1>8 DEF Reason

\* An end of an edge that nobody observed was named by a packet.
LEMMA DanglingEdgesHaveAReason ==
    ASSUME NEW R, NEW C, Accepted(R, C), DanglingEdge(R, C, GraphEdges(R, C))
    PROVE  Reason("edge-endpoints", R, C)
<1>1. PICK e \in GraphEdges(R, C) : ~ {e.source, e.target} \subseteq GraphNodes(R, C) \cup CandidateNodes(C)
  BY DEF DanglingEdge
<1>2. PICK x \in {e.source, e.target} : x \notin GraphNodes(R, C)
  BY <1>1
<1>3. x \in Named(R, C)
  BY <1>2, EndsOfGraph
<1> DEFINE ids == {k.id : k \in Capabilities(R, C)}
           owners == UNION {r.owners : r \in Elements(R)}
<1>4. x \notin RepositoryIds(R) /\ x \notin Carried(R) /\ x \notin ids
  BY <1>2, NodesOfGraph
<1>5. x \notin owners
  <2> SUFFICES ASSUME NEW r \in Elements(R), x \in r.owners PROVE FALSE
    OBVIOUS
  <2>1. x \in Owners(R, r.repository) /\ r.repository \in RepositoryIds(R)
    BY DEF Owners, Observing, RepositoryIds
  <2> QED
    BY <1>2, <2>1, NodesOfGraph
<1>6. Unobserved(R, C) = Named(R, C) \ (RepositoryIds(R) \cup Carried(R) \cup ids \cup owners)
  BY DEF Unobserved
<1> HIDE DEF ids, owners
<1>7. Unobserved(R, C) # {}
  BY <1>3, <1>4, <1>5, <1>6
<1> QED
  BY <1>7 DEF Reason

LEMMA UnbackedHasAReason ==
    ASSUME NEW R, NEW C, Accepted(R, C),
           (\E r \in Elements(R) : r.cites = "none") \/ \E k \in Capabilities(R, C) : ~ k.backed
    PROVE  Reason("canonical-claims-backed", R, C)
<1>1. Unbacked(R)
  BY CapabilitiesSay DEF Unbacked
<1> QED
  BY <1>1 DEF Reason, Unbacked

LEMMA DanglingEvidenceHasAReason ==
    ASSUME NEW R, NEW C, DanglingEvidence(R, C)
    PROVE  Reason("references-resolve", R, C)
<1>1. (\E r \in Elements(R) : r.cites = "missing") \/ DanglingEvidence(<< >>, C)
  BY DEF DanglingEvidence
<1> QED
  BY <1>1 DEF Reason

\* Capabilities are merged by identity.
LEMMA CapabilitiesAreDistinct ==
    ASSUME NEW R, NEW C, Accepted(R, C) PROVE ~ RepeatedCapability(R, C)
<1> SUFFICES ASSUME NEW k \in Capabilities(R, C), NEW l \in Capabilities(R, C), k.id = l.id PROVE k = l
  BY DEF RepeatedCapability
<1> DEFINE projected == Projected(Pool(R, C))
           more(b) == UNION {p.by : p \in {q \in projected : q.id = b.id}}
           merge(b) == [b EXCEPT !.by = @ \cup more(b)]
           IsMerged(x) == \E b \in Built(R) : x = merge(b) /\ x.id = b.id
           IsProjected(x) == x \in projected /\ \A b \in Built(R) : b.id # x.id
<1>1. ASSUME NEW b \in Built(R)
      PROVE  merge(b).id = b.id /\ \A c \in Built(R) : b.id = c.id => b = c
  <2>1. PICK id \in ListedIds(R) : b = [Listed(R, id) EXCEPT !.by = @ \cup Implementing(R, id)]
    BY DEF Built
  <2>2. DOMAIN b = CapabilityFields /\ b.id = id
    BY <2>1, BuiltSays
  <2>3. ASSUME NEW c \in Built(R), b.id = c.id PROVE b = c
    <3>1. PICK n \in ListedIds(R) : c = [Listed(R, n) EXCEPT !.by = @ \cup Implementing(R, n)]
      BY DEF Built
    <3>2. c.id = n
      BY <3>1, BuiltSays
    <3> QED
      BY <2>1, <2>2, <2>3, <3>1, <3>2
  <2> HIDE DEF more
  <2> QED
    BY <2>2, <2>3, MergedSays
<1>2. ASSUME NEW x \in Capabilities(R, C) PROVE IsMerged(x) \/ IsProjected(x)
  <2>1. x \in {merge(b) : b \in Built(R)} \/ (x \in projected /\ \A b \in Built(R) : b.id # x.id)
    BY DEF Capabilities
  <2> HIDE DEF more, projected
  <2> QED
    BY <1>1, <2>1
<1>3. ASSUME IsProjected(k), IsProjected(l) PROVE k = l
  <2>1. PICK c \in CapabilityClaims(Pool(R, C)) :
          k = CapabilityRecord(Capability(c), [claimed |-> c.object], {c.subject}, {}, {}, TRUE)
    BY <1>3 DEF Projected
  <2>2. PICK d \in CapabilityClaims(Pool(R, C)) :
          l = CapabilityRecord(Capability(d), [claimed |-> d.object], {d.subject}, {}, {}, TRUE)
    BY <1>3 DEF Projected
  <2>3. Capability(c) = Capability(d)
    BY <2>1, <2>2 DEF CapabilityRecord
  <2>4. c.subject = d.subject /\ c.object = d.object
    BY <2>3 DEF Capability
  <2> QED
    BY <2>1, <2>2, <2>3, <2>4
<1> HIDE DEF merge, projected
<1> QED
  BY <1>1, <1>2, <1>3

LEMMA RepeatedRisksHaveAReason ==
    ASSUME NEW R, NEW C, RepeatedRisk(R) PROVE Reason("unique-risk-ids", R, C)
<1>1. \E p, q \in RiskRules : p # q /\ p.id = q.id
  BY DEF RepeatedRisk
<1> QED
  BY <1>1 DEF Reason

\* Two diagnostics of one identity are named alike, or a packet is there twice:
\* the position within the packet is part of an identity that nobody gave.
LEMMA DiagnosticsHaveAReason ==
    ASSUME NEW R, DeclaredTwice(R) PROVE GivenTwice(R) \/ NamedAlike(R)
<1>1. PICK i \in DOMAIN R, j \in DOMAIN R :
        \E k \in DOMAIN R[i].diagnostics, l \in DOMAIN R[j].diagnostics :
            (i # j \/ k # l) /\ DiagnosticId(R, i, k) = DiagnosticId(R, j, l)
  BY DEF DeclaredTwice
<1>2. PICK k \in DOMAIN R[i].diagnostics, l \in DOMAIN R[j].diagnostics :
        (i # j \/ k # l) /\ DiagnosticId(R, i, k) = DiagnosticId(R, j, l)
  BY <1>1
<1> DEFINE d == R[i].diagnostics[k]
           e == R[j].diagnostics[l]
<1>3. /\ d.id # Absent => DiagnosticId(R, i, k) = [given |-> d.id]
      /\ d.id = Absent => DiagnosticId(R, i, k) = [packet |-> R[i].id, index |-> k, raw |-> d]
      /\ e.id # Absent => DiagnosticId(R, j, l) = [given |-> e.id]
      /\ e.id = Absent => DiagnosticId(R, j, l) = [packet |-> R[j].id, index |-> l, raw |-> e]
  BY DEF DiagnosticId
<1>4. CASE d.id # Absent /\ e.id # Absent
  <2>1. [given |-> d.id] = [given |-> e.id]
    BY <1>2, <1>3, <1>4
  <2>3. d.id = e.id
    BY <2>1
  <2>2. \E a, b \in DOMAIN R : \E m \in DOMAIN R[a].diagnostics, n \in DOMAIN R[b].diagnostics :
          (a # b \/ m # n) /\ R[a].diagnostics[m].id = R[b].diagnostics[n].id /\ R[a].diagnostics[m].id # Absent
    BY <1>2, <1>4, <2>3
  <2> QED
    BY <2>2 DEF NamedAlike
<1>5. CASE d.id = Absent /\ e.id = Absent
  <2>1. [packet |-> R[i].id, index |-> k, raw |-> d] = [packet |-> R[j].id, index |-> l, raw |-> e]
    BY <1>2, <1>3, <1>5
  <2> HIDE DEF d, e
  <2>2. R[i].id = R[j].id /\ k = l
    BY <2>1
  <2> QED
    BY <1>2, <2>2 DEF GivenTwice
<1>6. ~ (d.id # Absent /\ e.id = Absent) /\ ~ (d.id = Absent /\ e.id # Absent)
  <2>1. \A x, p, n, y : [given |-> x] # [packet |-> p, index |-> n, raw |-> y]
    <3>1. \A x, p, n, y : DOMAIN [given |-> x] = {"given"} /\ "packet" \in DOMAIN [packet |-> p, index |-> n, raw |-> y]
      OBVIOUS
    <3> QED
      BY <3>1
  <2> HIDE DEF d, e
  <2> QED
    BY <1>2, <1>3, <2>1
<1> QED
  BY <1>4, <1>5, <1>6

LEMMA RepeatedUnknownsHaveAReason ==
    ASSUME NEW R, NEW C, RepeatedUnknown(R, C) PROVE Reason("unique-unknown-ids", R, C)
<1>1. CASE DeclaredTwice(R)
  BY <1>1, DiagnosticsHaveAReason DEF Reason
<1>2. CASE NotRunTwice(C)
  <2>1. GivenTwice(C)
    BY <1>2 DEF NotRunTwice, GivenTwice
  <2> QED
    BY <2>1 DEF Reason
<1>3. CASE UnknownBothWays(R, C)
  <2>1. PICK c \in Claims(Pool(R, C)) :
          /\ c.predicate \notin SupportedPredicates
          /\ Unknown(c.subject, c.predicate, "cardinality") \in FieldUnknowns(Facts(R, C))
    BY <1>3 DEF UnknownBothWays
  <2>2. PICK f \in {g \in Divergent(Facts(R, C)) : Cardinal(g.field) = "unknown"} :
          Unknown(c.subject, c.predicate, "cardinality") = Unknown(f.subject, f.field, "cardinality")
    BY <2>1 DEF FieldUnknowns
  <2>3. f \in Facts(R, C) /\ f.field \notin SingleFields \cup SetFields
    BY <2>2 DEF Divergent, Cardinal
  <2>4. f.subject = c.subject /\ f.field = c.predicate
    BY <2>2 DEF Unknown
  <2>5. ForeignName(R, C)
    BY <2>1, <2>3, <2>4 DEF ForeignName
  <2> QED
    BY <2>5 DEF Reason
<1> QED
  BY <1>1, <1>2, <1>3 DEF RepeatedUnknown

LEMMA MissingRevisionsHaveAReason ==
    ASSUME NEW R, NEW C, Accepted(R, C), WithoutRevision(R) PROVE Reason("source-revisions", R, C)
<1>1. PICK id \in RepositoryIds(R) : FirstIn(R, Observing(R, id)).revision = Absent
  BY DEF WithoutRevision
<1>2. Elements(R) \cap Observing(R, id) # {}
  BY DEF RepositoryIds, Observing
<1>3. FirstIn(R, Observing(R, id)) \in Elements(R)
  BY <1>2, FirstBelongs DEF Accepted
<1>4. \E r \in Elements(R) : r.revision = Absent
  BY <1>1, <1>3
<1> QED
  BY <1>4 DEF Reason

\* A packet whose records leave the root does not load.
LEMMA PathsArePortable ==
    ASSUME NEW R, NEW C, Accepted(R, C) PROVE \A d \in Carried(R) : Path[d] \in Portable
  BY WellFormedInputs DEF Accepted, Carried, Artifacts, RepositoryPacketWellFormed

\* The inputs of a compilation are those of its packets, position by position.
LEMMA InputsMatch ==
    ASSUME NEW R, NEW C, Accepted(R, C)
    PROVE  ~ Mismatched([i \in DOMAIN R |-> InputRef(R[i])], R)
<1> DEFINE inputs == [i \in DOMAIN R |-> InputRef(R[i])]
<1>1. SUFFICES ASSUME NEW i \in DOMAIN inputs, NEW k \in DOMAIN R,
                      IsLastOf(inputs, i), IsLastOf(R, k), inputs[i].id = R[k].id
               PROVE  inputs[i].hash = R[k].hash /\ inputs[i].revision = R[k].snapshot /\ inputs[i].status = "passed"
  BY DEF Mismatched
<1>2. DOMAIN inputs = DOMAIN R /\ DOMAIN R \subseteq Nat
  BY DEF Accepted
<1>3. \A j \in DOMAIN R :
        /\ inputs[j].id = R[j].id /\ inputs[j].hash = R[j].hash
        /\ inputs[j].revision = R[j].snapshot /\ inputs[j].status = R[j].status
  BY DEF InputRef
<1>4. \A j \in DOMAIN R : R[j].status = "passed"
  BY WellFormedInputs DEF Accepted, RepositoryPacketWellFormed, Elements
<1> HIDE DEF inputs
<1>5. i <= k /\ k <= i
  BY <1>1, <1>2, <1>3 DEF IsLastOf
<1>6. i = k
  BY <1>2, <1>5
<1> QED
  BY <1>1, <1>2, <1>3, <1>4, <1>6

-----------------------------------------------------------------------------
(* The pool of statements.                                                  *)

\* What all packets say of a document that one of them carries.
LEMMA GatheredIsContent ==
    ASSUME NEW R, NEW C, Accepted(R, C), NEW d
    PROVE  /\ Gathered(R, C, d).says \subseteq Statement
           /\ Gathered(R, C, d) # Absent
           /\ \A r \in Carriers(R, d) : r.docs[d].says \subseteq Gathered(R, C, d).says
           /\ \A s \in SignalsOf(C) : s.doc = d => s.says \in Gathered(R, C, d).says
<1> DEFINE editions == {r.docs[d].edition : r \in Carriers(R, d)}
           read == UNION {r.docs[d].says : r \in Carriers(R, d)}
           signalled == {s.says : s \in {t \in SignalsOf(C) : t.doc = d}}
           offers == UNION {r.docs[d].offers : r \in Carriers(R, d)}
           says == read \cup signalled
<1>1. Gathered(R, C, d) = [edition |-> editions, says |-> says, offers |-> offers]
  BY DEF Gathered
<1>2. \A r \in Carriers(R, d) : r.docs[d] \in Content
  BY WellFormedInputs DEF Accepted, Carriers, RepositoryPacketWellFormed
<1>3. ASSUME NEW s \in SignalsOf(C) PROVE s.says \in Statement
  <2>1. PICK c \in Elements(C) : s \in Records(c, "document_work_signals")
    BY DEF SignalsOf
  <2>2. CorpusPacketWellFormed(c)
    BY WellFormedInputs DEF Accepted
  <2>3. IsRecordOf("document_work_signals", s)
    BY <2>1, <2>2 DEF CorpusPacketWellFormed, PayloadFields, Records
  <2> QED
    BY <2>3 DEF IsRecordOf, IsWorkSignal
<1>4. editions \in SUBSET Nat /\ read \in SUBSET Statement /\ offers \in SUBSET Identifiers
  BY <1>2 DEF Content
<1>5. signalled \in SUBSET Statement
  BY <1>3
<1>6. /\ \A r \in Carriers(R, d) : r.docs[d].says \subseteq read
      /\ \A s \in SignalsOf(C) : s.doc = d => s.says \in signalled
  OBVIOUS
<1> HIDE DEF editions, read, signalled, offers
<1>7. says \in SUBSET Statement
  BY <1>4, <1>5
<1>8. Gathered(R, C, d).says = says
  BY <1>1
<1> HIDE DEF says
<1>9. Gathered(R, C, d) \in [edition : SUBSET Nat, says : SUBSET Statement, offers : SUBSET Identifiers]
  BY <1>1, <1>4, <1>7
<1>10. Gathered(R, C, d) # Absent
  BY <1>9, AbsentAssumption
<1>11. read \subseteq says /\ signalled \subseteq says
  BY DEF says
<1> QED
  BY <1>6, <1>7, <1>8, <1>10, <1>11

LEMMA PooledStatements ==
    ASSUME NEW R, NEW C, Accepted(R, C)
    PROVE  /\ Claims(Pool(R, C)) \subseteq Statement
           /\ \A d \in Carried(R) : Gathered(R, C, d).says \subseteq Claims(Pool(R, C))
<1> DEFINE docs == Pool(R, C)
<1>1. \A d \in Documents : docs[d] = IF d \in Carried(R) THEN Gathered(R, C, d) ELSE Absent
  BY DEF Pool
<1> HIDE DEF docs
<1>2. ASSUME NEW d \in Present(docs) PROVE docs[d].says \subseteq Statement
  <2>1. d \in Documents /\ d \in Carried(R) /\ docs[d] = Gathered(R, C, d)
    BY <1>1 DEF Present
  <2> QED
    BY <2>1, GatheredIsContent
<1>3. ASSUME NEW d \in Carried(R)
      PROVE  d \in Present(docs) /\ docs[d] = Gathered(R, C, d)
  <2>1. d \in Documents
    BY CarriedAreDocuments
  <2>2. docs[d] = Gathered(R, C, d)
    BY <1>1, <2>1
  <2> QED
    BY <2>1, <2>2, GatheredIsContent DEF Present
<1>4. Claims(docs) \subseteq Statement
  BY <1>2 DEF Claims
<1>5. \A d \in Carried(R) : Gathered(R, C, d).says \subseteq Claims(docs)
  BY <1>3 DEF Claims
<1> QED
  BY <1>4, <1>5 DEF docs

\* A signal is about a document that a repository packet carries.
LEMMA SignalsAreClaims ==
    ASSUME NEW R, NEW C, Accepted(R, C), NEW s \in SignalsOf(C)
    PROVE  s.says \in Claims(Pool(R, C)) /\ s.id \in Names
<1>1. PICK c \in Elements(C) : s \in Records(c, "document_work_signals")
  BY DEF SignalsOf
<1>2. CorpusPacketWellFormed(c)
  BY WellFormedInputs DEF Accepted
<1>3. IsRecordOf("document_work_signals", s)
  BY <1>1, <1>2 DEF CorpusPacketWellFormed, PayloadFields, Records
<1>4. s.id \in Names
  BY <1>3 DEF IsRecordOf, IsWorkSignal
<1> DEFINE P == {r \in Elements(R) : r.id \in c.inputs}
<1>5. CorpusSound(c, P)
  BY DEF Accepted, CorpusInputsAccepted
<1>6. Artifacts(P) \subseteq Carried(R)
  BY DEF Artifacts, Carried
<1> HIDE DEF P
<1>7. s.doc \in Carried(R)
  BY <1>1, <1>5, <1>6 DEF CorpusSound, SignalsSound
<1>8. s.says \in Gathered(R, C, s.doc).says
  BY GatheredIsContent
<1> QED
  BY <1>4, <1>7, <1>8, PooledStatements

\* No statement is lost on its way into the claims.
LEMMA StatementsAreCited ==
    ASSUME NEW R, NEW C, Accepted(R, C)
    PROVE  Cited(R, C) = Stated(Elements(R), C)
<1> DEFINE claims == Claims(Pool(R, C))
           kept(r, d) == {<<d, s>> : s \in {x \in r.docs[d].says : x \in claims}}
           all(r, d) == {<<d, s>> : s \in r.docs[d].says}
           signals == {s.id : s \in SignalsOf(C)}
           cited == {s.id : s \in {x \in SignalsOf(C) : x.says \in claims}}
           inRepositories == UNION {UNION {kept(r, d) : d \in DOMAIN r.docs} : r \in Elements(R)}
<1>1. Cited(R, C) = inRepositories \cup cited
  BY DEF Cited
<1>2. cited = signals
  BY SignalsAreClaims
<1>3. ASSUME NEW r \in Elements(R), NEW d \in DOMAIN r.docs
      PROVE  kept(r, d) = all(r, d)
  <2>1. r \in Carriers(R, d) /\ d \in Carried(R)
    BY DEF Carriers, Carried, Artifacts
  <2>2. r.docs[d].says \subseteq claims
    BY <2>1, GatheredIsContent, PooledStatements
  <2> HIDE DEF claims
  <2> QED
    BY <2>2
<1> HIDE DEF kept
<1>4. inRepositories = UNION {UNION {all(r, d) : d \in DOMAIN r.docs} : r \in Elements(R)}
  BY <1>3
<1>5. inRepositories = ReadIn(Elements(R))
  BY <1>4 DEF ReadIn
<1> HIDE DEF inRepositories, cited, signals
<1> QED
  BY <1>1, <1>2, <1>5 DEF Stated, signals

\* Candidates are known by names.
LEMMA CandidateNodesAreNames ==
    ASSUME NEW R, NEW C, Accepted(R, C) PROVE CandidateNodes(C) \subseteq Names
<1> SUFFICES ASSUME NEW c \in Elements(C), NEW n \in CandidateIds(c) \cup {r.id : r \in Records(c, "semantic_pair_relations")}
             PROVE  n \in Names
  BY DEF CandidateNodes
<1>1. CorpusPacketWellFormed(c)
  BY WellFormedInputs DEF Accepted
<1>2. CASE n \in CandidateIds(c)
  <2>1. PICK p \in Candidates(c) : n = p.id
    BY <1>2 DEF CandidateIds
  <2>2. PICK f \in CandidateFields : p \in Records(c, f)
    BY DEF Candidates
  <2>3. f \in PayloadFields
    BY DEF CandidateFields, PayloadFields
  <2>4. IsRecordOf(f, p)
    BY <1>1, <2>2, <2>3 DEF CorpusPacketWellFormed, Records
  <2>5. IsCandidate(p, TypeOfField(f))
    BY <2>4 DEF IsRecordOf
  <2> QED
    BY <2>1, <2>5 DEF IsCandidate
<1>3. CASE n \in {r.id : r \in Records(c, "semantic_pair_relations")}
  <2>1. PICK r \in Records(c, "semantic_pair_relations") : n = r.id
    BY <1>3
  <2>2. IsRecordOf("semantic_pair_relations", r)
    BY <1>1 DEF CorpusPacketWellFormed, Records, PayloadFields
  <2> QED
    BY <2>1, <2>2 DEF IsRecordOf, IsPairRelation
<1> QED
  BY <1>2, <1>3

\* The target of a work claim is a document or a reference.
LEMMA WorkTargetIs ==
    ASSUME NEW docs, NEW target
    PROVE  WorkTarget(docs, target) \in Documents \/ WorkTarget(docs, target) = External("work-reference", target)
<1> DEFINE M == Matches(docs, target)
<1>1. M \subseteq Documents
  BY DEF Matches, Present
<1>2. ASSUME Resolution(docs, target) = "exact-artifact" PROVE M # {}
  <2> SUFFICES ASSUME M = {} PROVE FALSE
    OBVIOUS
  <2>1. Cardinality(M) # 1
    BY FS_EmptySet
  <2> HIDE DEF M
  <2> QED
    BY <1>2, <2>1 DEF Resolution, M
<1> HIDE DEF M
<1>3. ASSUME M # {} PROVE (CHOOSE d \in M : TRUE) \in M
  BY <1>3
<1> QED
  BY <1>1, <1>2, <1>3 DEF WorkTarget, M

\* What a claim says.
LEMMA ProjectableSays ==
    ASSUME NEW R, NEW C, Accepted(R, C), NEW c \in ProjectableClaims(Pool(R, C))
    PROVE  c \in Statement /\ c.subject \in Identifiers \cup Objects /\ c.object \in Identifiers \cup Objects
<1>1. c \in Statement
  BY PooledStatements DEF ProjectableClaims
<1> QED
  BY <1>1 DEF Statement

\* Only an entity a packet names in so many words can have the name of a
\* candidate.
LEMMA NamedNodesAreTaken ==
    ASSUME NEW R, NEW C, Accepted(R, C), NEW n \in Names, n \in GraphNodes(R, C)
    PROVE  n \in Taken(R, C)
<1> DEFINE docs == Pool(R, C)
           references == {Reference(c) : c \in ReferenceClaims(docs)}
           targets == {WorkTarget(docs, c.object) : c \in WorkClaims(docs)}
           owners == UNION {Owners(R, id) : id \in RepositoryIds(R)}
           capabilities == {k.id : k \in Capabilities(R, C)}
           owned == UNION {r.owners : r \in Elements(R)}
<1>1. GraphNodes(R, C) =
        references \cup targets \cup CorpusIds(C) \cup RootIds(C) \cup RepositoryIds(R)
          \cup owners \cup Carried(R) \cup capabilities
  BY DEF GraphNodes
<1>2. Taken(R, C) = ListedIds(R) \cup CorpusIds(C) \cup RootIds(C) \cup owned
  BY DEF Taken
<1>3. n \in Identifiers /\ n \notin Documents /\ n \notin Repositories
  BY CorpusPacketsAssumption DEF Identifiers
<1>4. n \notin references
  <2> SUFFICES ASSUME NEW c \in ReferenceClaims(docs), n = Reference(c) PROVE FALSE
    OBVIOUS
  <2>1. c \in ProjectableClaims(docs) /\ c.predicate \in EdgePredicates
    BY DEF ReferenceClaims
  <2>2. c.object \in Identifiers \cup Objects
    BY <2>1, ProjectableSays
  <2>3. n = External(ReferenceKind(c.predicate), c.object)
    BY DEF Reference
  <2> QED
    BY <1>3, <2>1, <2>2, <2>3, PrefixesAssumption
<1>5. n \notin targets
  <2> SUFFICES ASSUME NEW c \in WorkClaims(docs), n = WorkTarget(docs, c.object) PROVE FALSE
    OBVIOUS
  <2>1. c \in ProjectableClaims(docs)
    BY DEF WorkClaims
  <2>2. c.object \in Identifiers \cup Objects
    BY <2>1, ProjectableSays
  <2>3. n = External("work-reference", c.object)
    BY <1>3, WorkTargetIs
  <2> QED
    BY <1>3, <2>2, <2>3, PrefixesAssumption
<1>6. n \notin RepositoryIds(R)
  BY <1>3, WellFormedInputs DEF RepositoryIds, Accepted, RepositoryPacketWellFormed
<1>7. n \notin Carried(R)
  BY <1>3, CarriedAreDocuments
<1>8. owners \subseteq owned
  BY DEF Owners, Observing
<1>9. ASSUME n \in capabilities PROVE n \in ListedIds(R)
  <2>1. PICK k \in Capabilities(R, C) : n = k.id
    BY <1>9
  <2> DEFINE projected == Projected(docs)
             more(b) == UNION {p.by : p \in {q \in projected : q.id = b.id}}
             merge(b) == [b EXCEPT !.by = @ \cup more(b)]
  <2>2. k \in {merge(b) : b \in Built(R)} \/ k \in projected
    BY DEF Capabilities
  <2>3. CASE k \in projected
    <3>1. PICK c \in CapabilityClaims(docs) :
            k = CapabilityRecord(Capability(c), [claimed |-> c.object], {c.subject}, {}, {}, TRUE)
      BY <2>3 DEF Projected
    <3>2. n = [ref |-> "capability", of |-> c.subject, name |-> c.object]
      BY <2>1, <3>1 DEF CapabilityRecord, Capability
    <3>3. c.subject \in Identifiers \cup Objects /\ c.object \in Identifiers \cup Objects
      BY ProjectableSays DEF CapabilityClaims
    <3> QED
      BY <1>3, <3>2, <3>3, PrefixesAssumption
  <2>4. CASE k \in {merge(b) : b \in Built(R)}
    <3>1. PICK b \in Built(R) : k = merge(b)
      BY <2>4
    <3>2. PICK id \in ListedIds(R) : b = [Listed(R, id) EXCEPT !.by = @ \cup Implementing(R, id)]
      BY DEF Built
    <3>3. DOMAIN b = CapabilityFields /\ b.id = id
      BY <3>2, BuiltSays
    <3> HIDE DEF more
    <3>4. k.id = b.id
      BY <3>1, <3>3, MergedSays
    <3> QED
      BY <2>1, <3>3, <3>4
  <2> QED
    BY <2>2, <2>3, <2>4
<1> HIDE DEF references, targets, owners, capabilities, owned
<1> QED
  BY <1>1, <1>2, <1>4, <1>5, <1>6, <1>7, <1>8, <1>9

LEMMA RepeatedNodesHaveAReason ==
    ASSUME NEW R, NEW C, Accepted(R, C), RepeatedNode(R, C)
    PROVE  Reason("unique-graph-ids", R, C)
<1>1. ~ Distinct(CandidateRecords(C)) \/ CandidateNodes(C) \cap Taken(R, C) # {}
  BY CandidateNodesAreNames, NamedNodesAreTaken DEF RepeatedNode
<1> QED
  BY <1>1 DEF Reason

-----------------------------------------------------------------------------
(* Flows.                                                                   *)

\* Who states a dependency: a declared relation, a repository record, a claim
\* about work, or a claim about a package.
DeclaredFlow(R, e) == e \in DeclaredEdges(R) /\ e.type = "DEPENDS_ON"

UpstreamFlow(R, e) ==
    \E id \in RepositoryIds(R) : \E u \in Upstream(R, id) : e = Edge("DEPENDS_ON", id, u, {}, "none", "none")

WorkFlow(docs, e) ==
    \E c \in WorkClaims(docs) : c.predicate = "work.depends_on" /\ e = WorkEdge(docs, c)

PackageFlow(docs, e) ==
    \E c \in ReferenceClaims(docs) : c.predicate = "package.dependency" /\ e = ClaimEdge(c)

LEMMA FlowIsStated ==
    ASSUME NEW R, NEW C, Accepted(R, C), NEW e \in FlowSources(GraphEdges(R, C))
    PROVE  DeclaredFlow(R, e) \/ UpstreamFlow(R, e) \/ WorkFlow(Pool(R, C), e) \/ PackageFlow(Pool(R, C), e)
<1> DEFINE docs == Pool(R, C)
<1>1. e \in GraphEdges(R, C) /\ e.type = "DEPENDS_ON"
  BY DEF FlowSources
<1>2. CASE e \in DeclaredEdges(R)
  BY <1>1, <1>2 DEF DeclaredFlow
<1>3. CASE e \in RepositoryEdges(R)
  <2>1. PICK id \in RepositoryIds(R) :
          \/ e \in {Edge("DEPENDS_ON", id, u, {}, "none", "none") : u \in Upstream(R, id)}
          \/ e \in {Edge("OWNED_BY", id, o, {}, "none", "none") : o \in Owners(R, id)}
    BY <1>3 DEF RepositoryEdges
  <2>2. e \notin {Edge("OWNED_BY", id, o, {}, "none", "none") : o \in Owners(R, id)}
    BY <1>1, EdgeSays
  <2> QED
    BY <2>1, <2>2 DEF UpstreamFlow
<1>4. e \notin ArtifactEdges(R)
  BY <1>1, EdgeSays, ContainmentSays DEF ArtifactEdges
<1>5. e \notin CapabilityLinks(R, C)
  BY <1>1, EdgeSays DEF CapabilityLinks
<1>6. CASE e \in ClaimEdges(docs)
  <2>1. PICK c \in ReferenceClaims(docs) : e = ClaimEdge(c)
    BY <1>6 DEF ClaimEdges
  <2>2. EdgeType(c.predicate) = "DEPENDS_ON"
    BY <1>1, <2>1, EdgeSays DEF ClaimEdge
  <2>3. c.predicate = "package.dependency"
    BY <2>2 DEF EdgeType, ReferenceClaims, EdgePredicates
  <2> QED
    BY <2>1, <2>3 DEF PackageFlow
<1>7. CASE e \in WorkEdges(docs)
  <2>1. PICK c \in WorkClaims(docs) : e = WorkEdge(docs, c)
    BY <1>7 DEF WorkEdges
  <2>2. WorkType(c.predicate) = "DEPENDS_ON"
    BY <1>1, <2>1, EdgeSays DEF WorkEdge
  <2>3. c.predicate = "work.depends_on"
    BY <2>2 DEF WorkType, WorkClaims, WorkPredicates
  <2> QED
    BY <2>1, <2>3 DEF WorkFlow
<1>8. e \notin DuplicateEdges(C)
  BY <1>1, DrawnWithin
<1>9. e \notin ScopeEdges(C)
  BY <1>1, ContainmentSays, ScopeIsDrawn
<1> QED
  BY <1>1, <1>2, <1>3, <1>4, <1>5, <1>6, <1>7, <1>8, <1>9 DEF GraphEdges

\* What every dependency rests on.
LEMMA DependenciesAre ==
    ASSUME NEW R, NEW C
    PROVE  /\ \A e : DeclaredFlow(R, e) => <<e, e.source, e.target>> \in Dependencies(R, C)
           /\ \A id \in RepositoryIds(R) : \A u \in Upstream(R, id) : <<[upstream |-> u], id, u>> \in Dependencies(R, C)
           /\ \A c \in WorkClaims(Pool(R, C)) : c.predicate = "work.depends_on" =>
                <<c, c.subject, WorkTarget(Pool(R, C), c.object)>> \in Dependencies(R, C)
<1> DEFINE docs == Pool(R, C)
           related(r) == {<<e, e.source, e.target>> : e \in {x \in r.relations : x.type = "DEPENDS_ON"}}
           above(id) == {<<[upstream |-> u], id, u>> : u \in Upstream(R, id)}
           stated == UNION {related(r) : r \in Elements(R)}
           known == UNION {above(id) : id \in RepositoryIds(R)}
           claimed == {<<c, c.subject, WorkTarget(docs, c.object)>> :
                         c \in {x \in WorkClaims(docs) : x.predicate = "work.depends_on"}}
<1>1. Dependencies(R, C) = stated \cup known \cup claimed
  BY DEF Dependencies
<1>2. ASSUME NEW e, DeclaredFlow(R, e) PROVE <<e, e.source, e.target>> \in stated
  <2>1. PICK r \in Elements(R) : e \in r.relations /\ e.type = "DEPENDS_ON"
    BY <1>2 DEF DeclaredFlow, DeclaredEdges
  <2>2. <<e, e.source, e.target>> \in related(r)
    BY <2>1
  <2> HIDE DEF related
  <2> QED
    BY <2>2
<1>3. ASSUME NEW id \in RepositoryIds(R), NEW u \in Upstream(R, id) PROVE <<[upstream |-> u], id, u>> \in known
  <2>1. <<[upstream |-> u], id, u>> \in above(id)
    OBVIOUS
  <2> HIDE DEF above
  <2> QED
    BY <2>1
<1>4. ASSUME NEW c \in WorkClaims(docs), c.predicate = "work.depends_on"
      PROVE  <<c, c.subject, WorkTarget(docs, c.object)>> \in claimed
  BY <1>4
<1> HIDE DEF stated, known, claimed, docs
<1> QED
  BY <1>1, <1>2, <1>3, <1>4 DEF docs

\* The ends of the four kinds of flows, and who says so.
LEMMA StatedBy ==
    ASSUME NEW R, NEW C, Accepted(R, C), NEW e,
           DeclaredFlow(R, e) \/ UpstreamFlow(R, e) \/ WorkFlow(Pool(R, C), e)
    PROVE  /\ e.target \in Identifiers \/ \E o : e.target = External("work-reference", o)
           /\ \E x : /\ <<x, e.source, e.target>> \in Dependencies(R, C)
                     /\ \/ DeclaredFlow(R, e) /\ x = e /\ IsRelation(x)
                        \/ UpstreamFlow(R, e) /\ x = [upstream |-> e.target]
                        \/ x \in Statement /\ e = WorkEdge(Pool(R, C), x)
<1>1. CASE DeclaredFlow(R, e)
  <2>1. PICK r \in Elements(R) : e \in r.relations
    BY <1>1 DEF DeclaredFlow, DeclaredEdges
  <2>2. IsRelation(e)
    BY <2>1, WellFormedInputs DEF Accepted, RepositoryPacketWellFormed
  <2>3. e.target \in Identifiers
    BY <2>2 DEF IsRelation
  <2> QED
    BY <1>1, <2>2, <2>3, DependenciesAre
<1>2. CASE UpstreamFlow(R, e)
  <2>1. PICK id \in RepositoryIds(R) : \E u \in Upstream(R, id) : e = Edge("DEPENDS_ON", id, u, {}, "none", "none")
    BY <1>2 DEF UpstreamFlow
  <2>2. PICK u \in Upstream(R, id) : e = Edge("DEPENDS_ON", id, u, {}, "none", "none")
    BY <2>1
  <2>3. e.source = id /\ e.target = u
    BY <2>2, EdgeSays
  <2>4. Upstream(R, id) \subseteq Identifiers
    <3> DEFINE named == UNION {r.upstream : r \in Observing(R, id)}
    <3>1. Upstream(R, id) = named \cup Resolved(R, id)
      BY DEF Upstream
    <3>2. named \subseteq Identifiers
      BY WellFormedInputs DEF Observing, Accepted, RepositoryPacketWellFormed
    <3>3. Resolved(R, id) \subseteq RepositoryIds(R)
      BY TargetIsObserved DEF Resolved, Unmet
    <3>4. RepositoryIds(R) \subseteq Identifiers
      BY WellFormedInputs DEF Accepted, RepositoryPacketWellFormed, RepositoryIds, Identifiers
    <3> HIDE DEF named
    <3> QED
      BY <3>1, <3>2, <3>3, <3>4
  <2>5. <<[upstream |-> u], id, u>> \in Dependencies(R, C)
    BY DependenciesAre
  <2> QED
    BY <1>2, <2>3, <2>4, <2>5
<1>3. CASE WorkFlow(Pool(R, C), e)
  <2>1. PICK c \in WorkClaims(Pool(R, C)) : c.predicate = "work.depends_on" /\ e = WorkEdge(Pool(R, C), c)
    BY <1>3 DEF WorkFlow
  <2>2. e.source = c.subject /\ e.target = WorkTarget(Pool(R, C), c.object)
    BY <2>1, EdgeSays DEF WorkEdge
  <2>3. e.target \in Identifiers \/ e.target = External("work-reference", c.object)
    BY <2>2, WorkTargetIs DEF Identifiers
  <2>4. c \in Statement
    BY ProjectableSays DEF WorkClaims
  <2>5. <<c, c.subject, WorkTarget(Pool(R, C), c.object)>> \in Dependencies(R, C)
    BY <2>1, DependenciesAre
  <2> QED
    BY <2>1, <2>2, <2>3, <2>4, <2>5
<1> QED
  BY <1>1, <1>2, <1>3

\* A dependency on a package has an end of its own.
LEMMA PackageSays ==
    ASSUME NEW R, NEW C, Accepted(R, C), NEW e, PackageFlow(Pool(R, C), e)
    PROVE  \E c \in Statement :
             /\ c.predicate = "package.dependency" /\ e = ClaimEdge(c)
             /\ e.source = c.subject /\ e.target = External("package", c.object)
             /\ c.object \in Identifiers \cup Objects
<1>1. PICK c \in ReferenceClaims(Pool(R, C)) : c.predicate = "package.dependency" /\ e = ClaimEdge(c)
  BY DEF PackageFlow
<1>2. c \in Statement /\ c.object \in Identifiers \cup Objects
  BY ProjectableSays DEF ReferenceClaims
<1>3. e.source = c.subject /\ e.target = Reference(c)
  BY <1>1, EdgeSays DEF ClaimEdge
<1>4. Reference(c) = External("package", c.object)
  BY <1>1 DEF Reference, ReferenceKind
<1> QED
  BY <1>1, <1>2, <1>3, <1>4

\* Two flows with the same ends were stated twice.
LEMMA RepeatedFlowsHaveAReason ==
    ASSUME NEW R, NEW C, Accepted(R, C), RepeatedFlow(GraphEdges(R, C))
    PROVE  Reason("unique-flow-ids", R, C)
<1> DEFINE docs == Pool(R, C)
           Inside(e) == DeclaredFlow(R, e) \/ UpstreamFlow(R, e) \/ WorkFlow(docs, e)
<1>1. PICK e \in FlowSources(GraphEdges(R, C)), f \in FlowSources(GraphEdges(R, C)) :
        e # f /\ FlowId(e) = FlowId(f)
  BY DEF RepeatedFlow
<1>2. e.source = f.source /\ e.target = f.target
  BY <1>1 DEF FlowId
<1>3. (Inside(e) \/ PackageFlow(docs, e)) /\ (Inside(f) \/ PackageFlow(docs, f))
  BY FlowIsStated
<1>4. ASSUME NEW g, NEW h, Inside(g), PackageFlow(docs, h) PROVE g.target # h.target
  <2>1. g.target \in Identifiers \/ \E o : g.target = External("work-reference", o)
    BY <1>4, StatedBy
  <2>2. PICK o \in Identifiers \cup Objects : h.target = External("package", o)
    BY <1>4, PackageSays
  <2>3. \A x : External("work-reference", x) # External("package", o)
    BY DEF External
  <2>4. External("package", o) \notin Identifiers
    <3>1. "package.dependency" \in EdgePredicates /\ ReferenceKind("package.dependency") = "package"
      BY DEF EdgePredicates, ReferenceKind
    <3> QED
      BY <3>1, PrefixesAssumption
  <2> QED
    BY <2>1, <2>2, <2>3, <2>4
<1>5. ~ (PackageFlow(docs, e) /\ PackageFlow(docs, f))
  <2> SUFFICES ASSUME PackageFlow(docs, e), PackageFlow(docs, f) PROVE FALSE
    OBVIOUS
  <2>1. PICK c \in Statement :
          c.predicate = "package.dependency" /\ e = ClaimEdge(c) /\ e.source = c.subject /\ e.target = External("package", c.object)
    BY PackageSays
  <2>2. PICK d \in Statement :
          d.predicate = "package.dependency" /\ f = ClaimEdge(d) /\ f.source = d.subject /\ f.target = External("package", d.object)
    BY PackageSays
  <2>3. c.subject = d.subject /\ c.object = d.object
    BY <1>2, <2>1, <2>2 DEF External
  <2>4. c = d
    BY <2>1, <2>2, <2>3 DEF Statement
  <2> QED
    BY <1>1, <2>1, <2>2, <2>4
<1>6. Inside(e) /\ Inside(f)
  BY <1>2, <1>3, <1>4, <1>5
<1>7. PICK x : /\ <<x, e.source, e.target>> \in Dependencies(R, C)
               /\ \/ DeclaredFlow(R, e) /\ x = e /\ IsRelation(x)
                  \/ UpstreamFlow(R, e) /\ x = [upstream |-> e.target]
                  \/ x \in Statement /\ e = WorkEdge(docs, x)
  BY <1>6, StatedBy
<1>8. PICK y : /\ <<y, f.source, f.target>> \in Dependencies(R, C)
               /\ \/ DeclaredFlow(R, f) /\ y = f /\ IsRelation(y)
                  \/ UpstreamFlow(R, f) /\ y = [upstream |-> f.target]
                  \/ y \in Statement /\ f = WorkEdge(docs, y)
  BY <1>6, StatedBy
<1>9. /\ \A z : IsRelation(z) => "type" \in DOMAIN z
      /\ \A z \in Statement : DOMAIN z = {"subject", "predicate", "object"}
      /\ \A u : DOMAIN [upstream |-> u] = {"upstream"}
  BY DEF IsRelation, Statement
<1>10. ASSUME UpstreamFlow(R, e), UpstreamFlow(R, f) PROVE FALSE
  <2>1. \A g : UpstreamFlow(R, g) => g = Edge("DEPENDS_ON", g.source, g.target, {}, "none", "none")
    BY DEF UpstreamFlow, Edge
  <2> QED
    BY <1>1, <1>2, <1>10, <2>1
<1>11. x # y
  BY <1>1, <1>7, <1>8, <1>9, <1>10
<1>12. <<x, e.source, e.target>> \in Dependencies(R, C) /\ <<y, e.source, e.target>> \in Dependencies(R, C)
  BY <1>2, <1>7, <1>8
<1>13. StatedTwice(R, C)
  BY <1>11, <1>12 DEF StatedTwice
<1> QED
  BY <1>13 DEF Reason

-----------------------------------------------------------------------------
(* Validation of what was compiled.                                         *)

\* Every failed check of the state has a reason in the packets.
LEMMA StateFailuresHaveReasons ==
    ASSUME NEW R, NEW C, Accepted(R, C), NEW check \in StateFailures(R, C, GraphEdges(R, C))
    PROVE  Reason(check, R, C)
<1>1. CASE check = "unique-artifact-ids"
  <2>1. RepeatedArtifact(R)
    BY <1>1 DEF StateFailures
  <2> QED
    BY <1>1, <2>1, RepeatedArtifactsHaveAReason
<1>2. CASE check = "unique-flow-ids"
  <2>1. RepeatedFlow(GraphEdges(R, C))
    BY <1>2 DEF StateFailures
  <2> QED
    BY <1>2, <2>1, RepeatedFlowsHaveAReason
<1>3. CASE check = "unique-graph-ids"
  <2>1. RepeatedNode(R, C)
    BY <1>3 DEF StateFailures
  <2> QED
    BY <1>3, <2>1, RepeatedNodesHaveAReason
<1>4. CASE check = "edge-endpoints"
  <2>1. DanglingEdge(R, C, GraphEdges(R, C))
    BY <1>4 DEF StateFailures
  <2> QED
    BY <1>4, <2>1, DanglingEdgesHaveAReason
<1>5. CASE check = "blocking-conflicts"
  <2>1. PICK x \in AllConflicts(R, C) : x.blocking
    BY <1>5 DEF StateFailures
  <2> QED
    BY <1>5, <2>1, BlockingHasAReason
<1>6. CASE check = "references-resolve"
  <2>1. DanglingEvidence(R, C)
    BY <1>6 DEF StateFailures
  <2> QED
    BY <1>6, <2>1, DanglingEvidenceHasAReason
<1>7. CASE check = "canonical-claims-backed"
  <2>1. (\E r \in Elements(R) : r.cites = "none") \/ \E k \in Capabilities(R, C) : ~ k.backed
    BY <1>7 DEF StateFailures
  <2> QED
    BY <1>7, <2>1, UnbackedHasAReason
<1>8. CASE check = "inference-labeling"
  <2>1. \E r \in Elements(R) : r.cites = "mislabelled"
    BY <1>8 DEF StateFailures
  <2> QED
    BY <1>8, <2>1 DEF Reason
<1>9. CASE check = "unique-capability-ids"
  <2>1. RepeatedCapability(R, C)
    BY <1>9 DEF StateFailures
  <2> QED
    BY <2>1, CapabilitiesAreDistinct
<1>10. CASE check = "unique-risk-ids"
  <2>1. RepeatedRisk(R)
    BY <1>10 DEF StateFailures
  <2> QED
    BY <1>10, <2>1, RepeatedRisksHaveAReason
<1>11. CASE check = "unique-unknown-ids"
  <2>1. RepeatedUnknown(R, C)
    BY <1>11 DEF StateFailures
  <2> QED
    BY <1>11, <2>1, RepeatedUnknownsHaveAReason
<1>12. CASE check = "source-revisions"
  <2>1. WithoutRevision(R)
    BY <1>12 DEF StateFailures
  <2> QED
    BY <1>12, <2>1, MissingRevisionsHaveAReason
<1>13. CASE check = "portable-paths"
  <2>1. \E d \in Carried(R) : Path[d] \notin Portable
    BY <1>13 DEF StateFailures
  <2> QED
    BY <2>1, PathsArePortable
<1> QED
  BY <1>1, <1>2, <1>3, <1>4, <1>5, <1>6, <1>7, <1>8, <1>9, <1>10, <1>11, <1>12, <1>13 DEF StateFailures

\* The parts of a compiled topology that account for the packets.
LEMMA AccountedParts ==
    ASSUME NEW R, NEW C
    PROVE  /\ Compiled(R, C).diagnostics = Diagnosed(Elements(R))
           /\ Compiled(R, C).cited = Cited(R, C)
           /\ Compiled(R, C).evidenced = Evidenced(R, C)
           /\ Compiled(R, C).inputs = [i \in DOMAIN R |-> InputRef(R[i])]
  BY DEF Compiled

\* Every statement has its evidence and its claim.
LEMMA StatementsAreKept ==
    ASSUME NEW R, NEW C, Accepted(R, C)
    PROVE  /\ Compiled(R, C).cited = Stated(Elements(R), C)
           /\ Compiled(R, C).evidenced = Stated(Elements(R), C)
<1>1. Compiled(R, C).cited = Cited(R, C) /\ Compiled(R, C).evidenced = Evidenced(R, C)
  BY AccountedParts
<1>2. Cited(R, C) = Stated(Elements(R), C)
  BY StatementsAreCited
<1>3. Evidenced(R, C) = Stated(Elements(R), C)
  BY DEF Evidenced, Stated
<1> QED
  BY <1>1, <1>2, <1>3

\* Against the packets of a compilation one check can fail: that of the
\* statements, when corpora are left out.
LEMMA CrossFailuresAre ==
    ASSUME NEW R, NEW C, Accepted(R, C), NEW D,
           NEW check \in CrossFailures(Compiled(R, C), R, D)
    PROVE  check = "assertion-conservation" /\ Stated(Elements(R), D) # Stated(Elements(R), C)
<1> DEFINE t == Compiled(R, C)
<1>1. /\ t.diagnostics = Diagnosed(Elements(R)) /\ t.cited = Stated(Elements(R), C)
      /\ t.evidenced = Stated(Elements(R), C)
      /\ t.inputs = [i \in DOMAIN R |-> InputRef(R[i])]
  BY AccountedParts, StatementsAreKept
<1> HIDE DEF t
<1>2. check \in CrossFailures(t, R, D)
  BY DEF t
<1>3. check # "diagnostic-conservation"
  BY <1>1, <1>2 DEF CrossFailures
<1>4. check # "input-packet-set"
  <2>1. \A i \in DOMAIN R : t.inputs[i].id = R[i].id
    BY <1>1 DEF InputRef
  <2>2. DOMAIN t.inputs = DOMAIN R
    BY <1>1
  <2>3. \A id : (\E i \in Elements(t.inputs) : i.id = id) <=> \E r \in Elements(R) : r.id = id
    BY <2>1, <2>2 DEF Elements
  <2>4. {i.id : i \in Elements(t.inputs)} = {r.id : r \in Elements(R)}
    BY <2>3
  <2> QED
    BY <1>2, <2>4 DEF CrossFailures
<1>5. check # "parent-validation"
  <2>1. \A r \in Elements(R) : r.status = "passed"
    BY WellFormedInputs DEF Accepted, RepositoryPacketWellFormed
  <2> QED
    BY <1>2, <2>1 DEF CrossFailures
<1>6. ASSUME check = "assertion-conservation" PROVE Stated(Elements(R), D) # Stated(Elements(R), C)
  BY <1>1, <1>2, <1>6 DEF CrossFailures
<1>7. check # "input-reference-integrity"
  <2>1. ~ Mismatched(t.inputs, R)
    BY <1>1, InputsMatch
  <2> QED
    BY <1>2, <2>1 DEF CrossFailures
<1> QED
  BY <1>2, <1>3, <1>4, <1>5, <1>6, <1>7 DEF CrossFailures

\* What the compiler derives fails none of its own checks.
LEMMA FailuresHaveReasons ==
    ASSUME NEW R, NEW C, Accepted(R, C), NEW check \in Failures(Compiled(R, C), R, C)
    PROVE  Reason(check, R, C)
<1>1. Compiled(R, C).edges = GraphEdges(R, C)
  BY CompiledParts
<1>2. CASE check \in StateFailures(R, C, GraphEdges(R, C))
  BY <1>2, StateFailuresHaveReasons
<1>3. CASE check \in CrossFailures(Compiled(R, C), R, C)
  BY <1>3, CrossFailuresAre
<1> QED
  BY <1>1, <1>2, <1>3 DEF Failures

\* The signals of a corpus are counted by their names, and the statements of
\* repositories by document.
LEMMA SignalsAreCounted ==
    ASSUME NEW R, NEW C, Accepted(R, C)
    PROVE  Stated(Elements(R), << >>) = Stated(Elements(R), C) <=> SignalsOf(C) = {}
<1> DEFINE P == Elements(R)
           ids == {s.id : s \in SignalsOf(C)}
<1>1. SignalsOf(<< >>) = {}
  BY DEF SignalsOf, Elements
<1>2. Stated(P, << >>) = ReadIn(P) /\ Stated(P, C) = ReadIn(P) \cup ids
  BY <1>1 DEF Stated
<1>3. ReadIn(P) \subseteq Documents \X Statement
  <2> SUFFICES ASSUME NEW r \in P, NEW d \in DOMAIN r.docs, NEW s \in r.docs[d].says
               PROVE  <<d, s>> \in Documents \X Statement
    BY DEF ReadIn
  <2>1. RepositoryPacketWellFormed(r)
    BY WellFormedInputs DEF Accepted
  <2>2. d \in Documents /\ r.docs[d] \in Content
    BY <2>1 DEF RepositoryPacketWellFormed
  <2> QED
    BY <2>2 DEF Content
<1>4. ids \subseteq Names
  BY SignalsAreClaims
<1>5. ReadIn(P) \cap ids = {}
  BY <1>3, <1>4, PrefixesAssumption
<1>6. ids = {} <=> SignalsOf(C) = {}
  OBVIOUS
<1> HIDE DEF ids
<1> QED
  BY <1>2, <1>5, <1>6

\* Another look at a bundle finds what is not shown to it, and nothing else.
LEMMA RevalidationFinds ==
    ASSUME NEW b, IsAttempt(b), b.status = "passed"
    PROVE  Revalidation(b, b.packets) =
             IF SignalsOf(b.corpora) = {} THEN {} ELSE {"assertion-conservation"}
<1> DEFINE R == b.packets
           C == b.corpora
           state == StateFailures(R, C, b.topology.edges)
           cross == CrossFailures(b.topology, R, C)
           again == CrossFailures(b.topology, R, << >>)
<1>1. Accepted(R, C) /\ b.topology = Compiled(R, C)
  BY DEF IsAttempt, Accepted
<1>2. state = {} /\ cross = {}
  <2>1. b.failures = {} /\ b.failures = Failures(b.topology, R, C)
    BY DEF IsAttempt
  <2> QED
    BY <2>1 DEF Failures
<1>3. Revalidation(b, R) = again
  BY <1>2 DEF Revalidation
<1>4. b.topology.cited = Stated(Elements(R), C) /\ b.topology.evidenced = Stated(Elements(R), C)
  BY <1>1, StatementsAreKept
<1>6. again \subseteq {"assertion-conservation"}
  BY <1>1, CrossFailuresAre
<1>7. "assertion-conservation" \in again <=> Stated(Elements(R), << >>) # Stated(Elements(R), C)
  BY <1>4 DEF CrossFailures
<1>8. "assertion-conservation" \in again <=> SignalsOf(C) # {}
  BY <1>1, <1>7, SignalsAreCounted
<1> HIDE DEF again
<1> QED
  BY <1>3, <1>6, <1>8

LEMMA RefusalsOfTheResult == ASSUME CompilationInv PROVE RefusedForNamedReasons
<1>1. ASSUME result # Absent, NEW check \in result.failures
      PROVE  Reason(check, result.packets, result.corpora)
  <2>1. IsAttempt(result) /\ result.status = "invalid"
    BY <1>1 DEF CompilationInv, IsAttempt
  <2>2. /\ Accepted(result.packets, result.corpora)
        /\ result.topology = Compiled(result.packets, result.corpora)
        /\ result.failures = Failures(result.topology, result.packets, result.corpora)
    BY <2>1 DEF IsAttempt, Accepted
  <2> QED
    BY <1>1, <2>2, FailuresHaveReasons
<1>2. ASSUME bundle # Absent
      PROVE  Revalidation(bundle, bundle.packets) =
               IF SignalsOf(bundle.corpora) = {} THEN {} ELSE {"assertion-conservation"}
  BY <1>2, RevalidationFinds DEF CompilationInv
<1> QED
  BY <1>1, <1>2 DEF RefusedForNamedReasons

\* A compilation of accepted packets fails for what its packets say and for
\* nothing the compiler made of them.
THEOREM CompilationRefusals == Spec => []RefusedForNamedReasons
  BY CompilationInvariant, RefusalsOfTheResult, PTL

=============================================================================
