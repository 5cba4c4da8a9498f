------------------------- MODULE CompilationProofs --------------------------
(***************************************************************************)
(* What readers of a committed topology may rely on, for any packets,      *)
(* selections and queries: proofs about Compilation.                       *)
(***************************************************************************)
EXTENDS Compilation, FiniteSetTheorems, WellFoundedInduction, TLAPS

-----------------------------------------------------------------------------
(* Least and greatest numbers.                                              *)

\* A set of naturals that is not empty has a least element (ranks, depths and
\* positions are taken in order).
LEMMA LeastExists ==
    ASSUME NEW T \in SUBSET Nat, T # {}
    PROVE  \E a \in T : \A b \in T : a <= b
<1> DEFINE R == {ss \in Nat \X Nat : ss[1] < ss[2]}
<1>1. OpToRel(<, Nat) = R
  BY DEF OpToRel
<1>2. IsWellFoundedOn(R, Nat)
  BY <1>1, NatLessThanWellFounded
<1>3. PICK a \in T : \A b \in T : ~ (<<b, a>> \in R)
  <2> HIDE DEF R
  <2> QED
    BY <1>2, WFMin
<1>4. ASSUME NEW b \in T, b < a PROVE FALSE
  <2>1. <<b, a>> \in Nat \X Nat /\ <<b, a>>[1] < <<b, a>>[2]
    BY <1>4
  <2> QED
    BY <1>3, <2>1
<1> QED
  BY <1>4

\* A set of naturals below a bound that is not empty has a greatest element.
LEMMA GreatestExists ==
    ASSUME NEW n \in Nat, NEW T \in SUBSET (0 .. n), T # {}
    PROVE  \E a \in T : \A b \in T : b <= a
<1> DEFINE U == {k \in Nat : \A b \in T : b <= k}
<1>1. n \in U
  OBVIOUS
<1>2. PICK m \in U : \A k \in U : m <= k
  <2> HIDE DEF U
  <2>1. U \subseteq Nat
    BY DEF U
  <2> QED
    BY <1>1, <2>1, LeastExists
<1>3. m \in T
  <2> SUFFICES ASSUME m \notin T PROVE FALSE
    OBVIOUS
  <2>1. \A b \in T : b <= m - 1
    BY <1>2
  <2>2. PICK b \in T : TRUE
    OBVIOUS
  <2>3. m - 1 \in Nat
    BY <1>2, <2>1, <2>2
  <2>4. m - 1 \in U
    BY <2>1, <2>3
  <2> QED
    BY <1>2, <2>4
<1> QED
  BY <1>2, <1>3

-----------------------------------------------------------------------------
(* Types.                                                                   *)

\* What a compilation returns, refused or not.
IsAttempt(a) ==
    /\ a.packets \in Seq(Editions(Shelf)) /\ a.corpora \in Seq(Editions(CorpusShelf))
    /\ a.status \in {"refused", "invalid", "passed"}
    /\ a.status = "refused" => a.topology = Absent
    /\ a.status # "refused" => a.topology = Compiled(a.packets, a.corpora)
    /\ a.failures = {} <=> a.status # "invalid"
    /\ a.status # "refused" =>
         /\ CorpusInputsAccepted(a.packets, a.corpora)
         /\ a.failures = Failures(a.topology, a.packets, a.corpora)

\* The inductive invariant of producers, operators and readers.
CompilationInv ==
    /\ \A path \in Shelf \cup CorpusShelf : shelf[path] \in Catalogue[path]
    /\ result # Absent => IsAttempt(result)
    /\ bundle # Absent => IsAttempt(bundle) /\ bundle.status = "passed"
    /\ session.open => bundle # Absent
    /\ produced \in 0 .. MaxProduced /\ compiles \in 0 .. MaxCompiles

\* The packets on selected paths are editions of those paths.
LEMMA SelectedEditions ==
    ASSUME \A path \in Shelf \cup CorpusShelf : shelf[path] \in Catalogue[path],
           NEW paths, NEW S \in {Shelf, CorpusShelf}, paths \in Seq(S)
    PROVE  At(paths) \in Seq(Editions(S))
<1>1. \A i \in DOMAIN paths : paths[i] \in S
  OBVIOUS
<1>2. \A path \in S : shelf[path] \in Editions(S)
  BY DEF Editions
<1>3. Len(paths) \in Nat /\ DOMAIN paths = 1 .. Len(paths)
  OBVIOUS
<1>4. \A i \in 1 .. Len(paths) : shelf[paths[i]] \in Editions(S)
  BY <1>1, <1>2, <1>3
<1> HIDE DEF Editions
<1>5. At(paths) = [i \in 1 .. Len(paths) |-> shelf[paths[i]]]
  BY <1>3 DEF At
<1> QED
  BY <1>3, <1>4, <1>5

\* An attempt on packets and corpora.
LEMMA AttemptTyped ==
    ASSUME NEW R \in Seq(Editions(Shelf)), NEW C \in Seq(Editions(CorpusShelf))
    PROVE  IsAttempt(Attempt(R, C))
<1>1. CASE R = << >> \/ ~ CorpusInputsAccepted(R, C)
  BY <1>1 DEF Attempt, IsAttempt
<1>2. CASE ~ (R = << >> \/ ~ CorpusInputsAccepted(R, C))
  <2> DEFINE t == Compiled(R, C)
             failures == Failures(t, R, C)
             status == IF failures = {} THEN "passed" ELSE "invalid"
  <2>1. Attempt(R, C) = [packets |-> R, corpora |-> C, status |-> status, topology |-> t, failures |-> failures]
    BY <1>2 DEF Attempt
  <2>2. status \in {"invalid", "passed"} /\ (failures = {} <=> status # "invalid")
    OBVIOUS
  <2> HIDE DEF status
  <2> QED
    BY <1>2, <2>1, <2>2 DEF IsAttempt
<1> QED
  BY <1>1, <1>2

LEMMA CompilationInit == Init => CompilationInv
  BY CompilationAssumption DEF Init, CompilationInv, Nobody

\* Producers, operators and readers keep the types.
LEMMA CompilationStep == CompilationInv /\ [Next]_vars => CompilationInv'
<1> SUFFICES ASSUME CompilationInv, [Next]_vars PROVE CompilationInv'
  OBVIOUS
<1> USE DEF CompilationInv
<1>1. ASSUME NEW path \in Shelf \cup CorpusShelf, NEW packet \in Catalogue[path], Produce(path, packet)
      PROVE  CompilationInv'
  <2>1. shelf' = [shelf EXCEPT ![path] = packet]
    BY <1>1 DEF Produce
  <2>2. \A p \in Shelf \cup CorpusShelf : shelf'[p] \in Catalogue[p]
    BY <2>1
  <2>3. produced' \in 0 .. MaxProduced
    BY <1>1, CompilationAssumption DEF Produce
  <2>4. UNCHANGED <<result, bundle, session, compiles>>
    BY <1>1 DEF Produce
  <2> QED
    BY <2>2, <2>3, <2>4
<1>2. ASSUME NEW selection \in Selections, Compile(selection)
      PROVE  CompilationInv'
  <2>1. /\ selection.packets \in Seq(Shelf) /\ selection.corpora \in Seq(CorpusShelf)
    BY CompilationAssumption
  <2>2. /\ At(selection.packets) \in Seq(Editions(Shelf))
        /\ At(selection.corpora) \in Seq(Editions(CorpusShelf))
    BY <2>1, SelectedEditions
  <2>3. IsAttempt(result')
    BY <1>2, <2>2, AttemptTyped DEF Compile
  <2>4. compiles' \in 0 .. MaxCompiles
    BY <1>2, CompilationAssumption DEF Compile
  <2>5. UNCHANGED <<shelf, bundle, session, produced>>
    BY <1>2 DEF Compile
  <2> QED
    BY <2>3, <2>4, <2>5
<1>3. CASE Commit
  BY <1>3 DEF Commit
<1>4. CASE End
  BY <1>4 DEF End
<1>5. ASSUME NEW query \in Queries, Ask(query) PROVE CompilationInv'
  BY <1>5 DEF Ask
<1>6. CASE NextPage
  BY <1>6 DEF NextPage
<1>7. CASE UNCHANGED vars
  BY <1>7 DEF vars
<1> QED
  BY <1>1, <1>2, <1>3, <1>4, <1>5, <1>6, <1>7 DEF Next

\* What the shelves, the compilation and the committed bundle are.
THEOREM CompilationInvariant == Spec => []CompilationInv
  BY CompilationInit, CompilationStep, PTL DEF Spec

\* The inputs of a topology are the packets it was compiled from.
LEMMA CompiledInputs ==
    ASSUME NEW R, NEW C PROVE Compiled(R, C).inputs = [i \in DOMAIN R |-> InputRef(R[i])]
  BY DEF Compiled

\* The elements of a sequence belong to its set.
LEMMA ElementsOf == ASSUME NEW S, NEW s \in Seq(S) PROVE Elements(s) \subseteq S
  BY DEF Elements

\* Every variable keeps its type, and only what passed validation is committed.
THEOREM CompilationTypeCorrect == Spec => []CompilationTypeOK
<1>1. CompilationInv => CompilationTypeOK
  <2> SUFFICES ASSUME CompilationInv PROVE CompilationTypeOK
    OBVIOUS
  <2>1. ASSUME NEW a, IsAttempt(a)
        PROVE  /\ Elements(a.packets) \subseteq Editions(Shelf)
               /\ Elements(a.corpora) \subseteq Editions(CorpusShelf)
               /\ a.status \in {"refused", "invalid", "passed"}
               /\ a.status = "refused" => a.topology = Absent
               /\ a.status # "refused" => a.topology.inputs = [i \in DOMAIN a.packets |-> InputRef(a.packets[i])]
               /\ a.failures = {} <=> a.status # "invalid"
    BY <2>1, ElementsOf, CompiledInputs DEF IsAttempt
  <2> QED
    BY <2>1 DEF CompilationInv, CompilationTypeOK
<1> QED
  BY <1>1, CompilationInvariant, PTL

-----------------------------------------------------------------------------
(* Pages.                                                                   *)

\* What a reader may assume of a topology: a claim says one thing, there are
\* finitely many, and every one has a rank.
Readable(t) ==
    /\ IsFiniteSet(Views(t))
    /\ Says(Views(t)) \subseteq DOMAIN ClaimRank
    /\ \A v, w \in Views(t) : v.says = w.says => v = w

\* Views that can be put in order.
Ordered(views) ==
    /\ IsFiniteSet(views)
    /\ \A v \in views : v.says \in DOMAIN ClaimRank /\ ClaimIdOf(v) \in 1 .. Cardinality(DOMAIN ClaimRank)
    /\ \A v, w \in views : ClaimIdOf(v) = ClaimIdOf(w) => v = w

LEMMA ReadableIsOrdered ==
    ASSUME NEW t, Readable(t), NEW views, views \subseteq Views(t)
    PROVE  Ordered(views)
<1>1. IsFiniteSet(views)
  BY FS_Subset DEF Readable
<1>2. \A v \in views : v.says \in DOMAIN ClaimRank
  BY DEF Readable, Says
<1>3. \A v \in views : ClaimIdOf(v) \in 1 .. Cardinality(DOMAIN ClaimRank)
  BY <1>2, ClaimViewAssumption DEF ClaimIdOf
<1>4. \A v, w \in views : ClaimIdOf(v) = ClaimIdOf(w) => v = w
  BY <1>2, ClaimViewAssumption DEF ClaimIdOf, Readable
<1> QED
  BY <1>1, <1>2, <1>3, <1>4 DEF Ordered

\* The first few of ordered views contain everything that comes before one of
\* them.
LEMMA FirstComeFirst ==
    ASSUME NEW views, Ordered(views), NEW limit \in Nat \ {0},
           NEW v \in FirstOf(views, limit), NEW w \in views, ClaimIdOf(w) <= ClaimIdOf(v)
    PROVE  w \in FirstOf(views, limit)
<1> DEFINE upto(u) == {other \in views : ClaimIdOf(other) <= ClaimIdOf(u)}
<1>1. v \in views
  BY DEF FirstOf
<1>2. \A u \in views : ClaimIdOf(u) \in Nat
  <2>1. Cardinality(DOMAIN ClaimRank) \in Nat
    BY ClaimViewAssumption, FS_CardinalityType
  <2> QED
    BY <2>1 DEF Ordered
<1>3. upto(w) \subseteq upto(v)
  BY <1>1, <1>2
<1>4. IsFiniteSet(upto(v)) /\ IsFiniteSet(upto(w)) /\ Cardinality(upto(w)) <= Cardinality(upto(v))
  <2>1. IsFiniteSet(views) /\ upto(v) \subseteq views
    BY DEF Ordered
  <2>2. IsFiniteSet(upto(v))
    BY <2>1, FS_Subset
  <2> HIDE DEF upto
  <2> QED
    BY <1>3, <2>2, FS_Subset
<1>5. Cardinality(upto(v)) <= limit
  BY DEF FirstOf
<1>6. Cardinality(upto(v)) \in Nat /\ Cardinality(upto(w)) \in Nat
  BY <1>4, FS_CardinalityType
<1>7. Cardinality(upto(w)) <= limit
  <2> HIDE DEF upto
  <2> QED
    BY <1>4, <1>5, <1>6
<1> QED
  BY <1>7 DEF FirstOf

\* Of ordered views that are not empty a page returns at least one.
LEMMA PageIsNotEmpty ==
    ASSUME NEW views, Ordered(views), views # {}, NEW limit \in Nat \ {0}
    PROVE  FirstOf(views, limit) # {}
<1> DEFINE ids == {ClaimIdOf(v) : v \in views}
<1>1. ids \subseteq Nat /\ ids # {}
  <2>1. Cardinality(DOMAIN ClaimRank) \in Nat
    BY ClaimViewAssumption, FS_CardinalityType
  <2> QED
    BY <2>1 DEF Ordered
<1>2. PICK least \in ids : \A id \in ids : least <= id
  <2> HIDE DEF ids
  <2> QED
    BY <1>1, LeastExists
<1>3. PICK v \in views : ClaimIdOf(v) = least
  OBVIOUS
<1>4. {other \in views : ClaimIdOf(other) <= ClaimIdOf(v)} = {v}
  <2>1. ASSUME NEW other \in views, ClaimIdOf(other) <= ClaimIdOf(v) PROVE other = v
    <3>1. ClaimIdOf(other) = ClaimIdOf(v)
      BY <1>1, <1>2, <1>3, <2>1
    <3> QED
      BY <3>1 DEF Ordered
  <2>2. ClaimIdOf(v) <= ClaimIdOf(v)
    BY <1>1, <1>3
  <2> QED
    BY <2>1, <2>2
<1>5. Cardinality({v}) <= limit
  BY FS_Singleton
<1> QED
  BY <1>4, <1>5 DEF FirstOf

\* The last of ordered views that are not empty.
LEMMA LastIsGreatest ==
    ASSUME NEW views, Ordered(views), views # {}
    PROVE  /\ LastId(views) \in Nat
           /\ \E v \in views : ClaimIdOf(v) = LastId(views)
           /\ \A v \in views : ClaimIdOf(v) <= LastId(views)
<1> DEFINE ids == {ClaimIdOf(v) : v \in views}
           n == Cardinality(DOMAIN ClaimRank)
<1>1. n \in Nat
  BY ClaimViewAssumption, FS_CardinalityType
<1>2. ids \subseteq 0 .. n /\ ids # {}
  BY <1>1 DEF Ordered
<1>3. \E id \in ids : \A other \in ids : other <= id
  <2> HIDE DEF ids, n
  <2> QED
    BY <1>1, <1>2, GreatestExists
<1>4. \E id \in ids : \A v \in views : ClaimIdOf(v) <= id
  BY <1>3
<1>5. LastId(views) \in ids /\ \A v \in views : ClaimIdOf(v) <= LastId(views)
  BY <1>4 DEF LastId
<1> QED
  BY <1>2, <1>5

\* A page returns matches past its start, in order and without a gap; it says
\* where the next one starts if something is left.
LEMMA PageIsExact ==
    ASSUME NEW t, Readable(t), NEW q \in ClaimQuery
    PROVE  LET p == Page(t, q)
               matched == Says(Matched(t, q))
           IN  /\ matched \subseteq DOMAIN ClaimRank
               /\ Says(p.claims) \subseteq matched
               /\ p.truncated \in BOOLEAN
               /\ \A c \in Says(p.claims) : ClaimRank[c] > q.after
               /\ p.truncated =>
                    /\ p.next_after \in Nat /\ p.next_after > q.after
                    /\ \A c \in Says(p.claims) : ClaimRank[c] <= p.next_after
                    /\ \A c \in matched :
                         q.after < ClaimRank[c] /\ ClaimRank[c] <= p.next_after => c \in Says(p.claims)
               /\ ~ p.truncated =>
                    \A c \in matched : q.after < ClaimRank[c] => c \in Says(p.claims)
<1> DEFINE rest == Remaining(t, q)
           returned == FirstOf(rest, q.limit)
           p == Page(t, q)
<1>1. rest \subseteq Matched(t, q) /\ Matched(t, q) \subseteq Views(t) /\ returned \subseteq rest
  BY DEF Remaining, Matched, FirstOf
<1>2. Ordered(rest) /\ Ordered(returned)
  <2> HIDE DEF rest, returned
  <2> QED
    BY <1>1, ReadableIsOrdered
<1>3. q.limit \in Nat \ {0} /\ q.after \in Nat
  BY DEF ClaimQuery
<1>4. p.claims = returned /\ p.truncated = (returned # rest)
      /\ (p.truncated => p.next_after = LastId(returned))
  BY DEF Page
<1>5. \A v \in rest : v.says \in DOMAIN ClaimRank /\ ClaimRank[v.says] = ClaimIdOf(v) /\ ClaimIdOf(v) \in Nat
  <2>1. Cardinality(DOMAIN ClaimRank) \in Nat
    BY ClaimViewAssumption, FS_CardinalityType
  <2> QED
    BY <1>2, <2>1 DEF Ordered, ClaimIdOf
<1>6. \A v \in rest : ClaimIdOf(v) > q.after
  BY DEF Remaining
<1>7. \A v \in Matched(t, q) : ClaimRank[v.says] > q.after => v \in rest
  BY DEF Remaining, ClaimIdOf
<1>8. Says(Matched(t, q)) \subseteq DOMAIN ClaimRank
  BY <1>1 DEF Says, Readable
<1> HIDE DEF rest, returned, p
<1>9. Says(p.claims) \subseteq Says(Matched(t, q)) /\ p.truncated \in BOOLEAN
  BY <1>1, <1>4 DEF Says
<1>10. \A c \in Says(p.claims) : ClaimRank[c] > q.after
  BY <1>1, <1>4, <1>5, <1>6 DEF Says
<1>11. ASSUME p.truncated
       PROVE  /\ p.next_after \in Nat /\ p.next_after > q.after
              /\ \A c \in Says(p.claims) : ClaimRank[c] <= p.next_after
              /\ \A c \in Says(Matched(t, q)) :
                   q.after < ClaimRank[c] /\ ClaimRank[c] <= p.next_after => c \in Says(p.claims)
  <2>1. rest # {}
    BY <1>1, <1>4, <1>11
  <2>2. returned # {}
    BY <1>2, <1>3, <2>1, PageIsNotEmpty DEF returned
  <2>3. PICK last \in returned : ClaimIdOf(last) = LastId(returned)
    BY <1>2, <2>2, LastIsGreatest
  <2>4. LastId(returned) \in Nat /\ \A v \in returned : ClaimIdOf(v) <= LastId(returned)
    BY <1>2, <2>2, LastIsGreatest
  <2>5. p.next_after = LastId(returned)
    BY <1>4, <1>11
  <2>6. LastId(returned) > q.after
    BY <1>1, <1>6, <2>3
  <2>7. \A c \in Says(p.claims) : ClaimRank[c] <= p.next_after
    BY <1>1, <1>4, <1>5, <2>4, <2>5 DEF Says
  <2>8. ASSUME NEW v \in Matched(t, q), q.after < ClaimRank[v.says], ClaimRank[v.says] <= p.next_after
        PROVE  v \in returned
    <3>1. v \in rest
      BY <1>3, <1>7, <1>8, <2>8, ClaimViewAssumption DEF Says
    <3>2. ClaimIdOf(v) <= ClaimIdOf(last)
      BY <1>5, <2>3, <2>5, <2>8, <3>1
    <3> QED
      BY <1>2, <1>3, <2>3, <3>1, <3>2, FirstComeFirst DEF returned
  <2> QED
    BY <1>4, <2>4, <2>5, <2>6, <2>7, <2>8 DEF Says
<1>12. ASSUME ~ p.truncated
       PROVE  \A c \in Says(Matched(t, q)) : q.after < ClaimRank[c] => c \in Says(p.claims)
  <2>1. returned = rest
    BY <1>4, <1>12
  <2>2. ASSUME NEW v \in Matched(t, q), q.after < ClaimRank[v.says] PROVE v \in rest
    <3>1. ClaimRank[v.says] \in Nat
      <4>1. v.says \in DOMAIN ClaimRank
        BY <1>8 DEF Says
      <4>2. Cardinality(DOMAIN ClaimRank) \in Nat
        BY ClaimViewAssumption, FS_CardinalityType
      <4> QED
        BY <4>1, <4>2, ClaimViewAssumption
    <3> QED
      BY <1>3, <1>7, <2>2, <3>1
  <2> QED
    BY <1>4, <2>1, <2>2 DEF Says
<1> QED
  BY <1>8, <1>9, <1>10, <1>11, <1>12 DEF p

-----------------------------------------------------------------------------
(* What was compiled can be read.                                           *)

\* Every statement of the packets, and of their corpora, has a rank.
LEMMA PooledClaims ==
    ASSUME NEW R \in Seq(Editions(Shelf)), NEW C \in Seq(Editions(CorpusShelf))
    PROVE  Claims(Pool(R, C)) \subseteq DOMAIN ClaimRank
<1>1. ASSUME NEW r \in Elements(R), NEW d \in DOMAIN r.docs
      PROVE  r.docs[d].says \subseteq DOMAIN ClaimRank
  <2>1. r \in Editions(Shelf)
    BY ElementsOf
  <2> QED
    BY <2>1, CompilationAssumption DEF Editions
<1>2. ASSUME NEW s \in SignalsOf(C)
      PROVE  s.says \in DOMAIN ClaimRank
  <2>1. PICK c \in Elements(C) : s \in Records(c, "document_work_signals")
    BY DEF SignalsOf
  <2>2. c \in Editions(CorpusShelf)
    BY ElementsOf
  <2> QED
    BY <2>1, <2>2, CompilationAssumption DEF Editions
<1>3. ASSUME NEW d \in Present(Pool(R, C)), NEW c \in Pool(R, C)[d].says
      PROVE  c \in DOMAIN ClaimRank
  <2>1. d \in Documents /\ Pool(R, C)[d] # Absent
    BY DEF Present
  <2> DEFINE read == UNION {r.docs[d].says : r \in Carriers(R, d)}
             signalled == {s.says : s \in {x \in SignalsOf(C) : x.doc = d}}
  <2>2. Pool(R, C)[d].says = read \cup signalled
    <3>1. d \in Carried(R)
      BY <2>1 DEF Pool
    <3>2. Pool(R, C)[d] = Gathered(R, C, d)
      BY <2>1, <3>1 DEF Pool
    <3> QED
      BY <3>2 DEF Gathered
  <2>3. ASSUME c \in read PROVE c \in DOMAIN ClaimRank
    <3>1. PICK r \in Carriers(R, d) : c \in r.docs[d].says
      BY <2>3
    <3>2. r \in Elements(R) /\ d \in DOMAIN r.docs
      BY DEF Carriers
    <3> QED
      BY <1>1, <3>1, <3>2
  <2>4. ASSUME c \in signalled PROVE c \in DOMAIN ClaimRank
    BY <1>2, <2>4
  <2> HIDE DEF read, signalled
  <2> QED
    BY <2>2, <2>3, <2>4
<1> QED
  BY <1>3 DEF Claims

\* The claims of a compiled topology, as views.
LEMMA CompiledViews ==
    ASSUME NEW R, NEW C
    PROVE  Views(Compiled(R, C)) = {Viewed(ClaimRecord(Pool(R, C), c)) : c \in Claims(Pool(R, C))}
<1>1. Compiled(R, C).claims = {ClaimRecord(Pool(R, C), c) : c \in Claims(Pool(R, C))}
  BY DEF Compiled, View
<1> QED
  BY <1>1 DEF Views

LEMMA ViewSays == ASSUME NEW docs, NEW c PROVE Viewed(ClaimRecord(docs, c)).says = c
  BY DEF Viewed, ClaimRecord

\* What a compilation returns can be read in order.
LEMMA CompiledIsReadable ==
    ASSUME NEW R \in Seq(Editions(Shelf)), NEW C \in Seq(Editions(CorpusShelf))
    PROVE  Readable(Compiled(R, C))
<1> DEFINE docs == Pool(R, C)
           t == Compiled(R, C)
           f == [v \in Views(t) |-> v.says]
<1>1. Claims(docs) \subseteq DOMAIN ClaimRank
  BY PooledClaims
<1>2. Views(t) = {Viewed(ClaimRecord(docs, c)) : c \in Claims(docs)}
  BY CompiledViews
<1> HIDE DEF docs, t
<1>3. \A v \in Views(t) : v.says \in Claims(docs) /\ v = Viewed(ClaimRecord(docs, v.says))
  BY <1>2, ViewSays
<1>4. \A v, w \in Views(t) : v.says = w.says => v = w
  BY <1>3
<1>5. f \in Injection(Views(t), DOMAIN ClaimRank)
  <2>1. f \in [Views(t) -> DOMAIN ClaimRank]
    BY <1>1, <1>3
  <2>2. \A v, w \in Views(t) : f[v] = f[w] => v = w
    BY <1>4
  <2> HIDE DEF f
  <2> QED
    BY <2>1, <2>2 DEF Injection, IsInjective
<1>6. IsFiniteSet(Views(t))
  <2>1. IsFiniteSet(DOMAIN ClaimRank)
    BY ClaimViewAssumption
  <2> HIDE DEF f
  <2> QED
    BY <1>5, <2>1, FS_Injection
<1>7. Says(Views(t)) \subseteq DOMAIN ClaimRank
  BY <1>1, <1>3 DEF Says
<1> QED
  BY <1>4, <1>6, <1>7 DEF Readable, t

\* A committed bundle can be read.
LEMMA BundleIsReadable ==
    ASSUME CompilationInv, bundle # Absent
    PROVE  Readable(bundle.topology)
  BY CompiledIsReadable DEF CompilationInv, IsAttempt

-----------------------------------------------------------------------------
(* A reader that follows the pages.                                         *)

\* The claims that matched in every topology the reader has read.
Common == {c \in DOMAIN ClaimRank : \A version \in session.versions : c \in version}

\* Up to where the next page starts nothing is missing, and beyond it nothing
\* has been seen; when the pages have ended nothing is missing at all.
SessionInv ==
    /\ session.returned \in Seq(SUBSET DOMAIN ClaimRank)
    /\ session.versions \subseteq SUBSET DOMAIN ClaimRank
    /\ session.open \in BOOLEAN
    /\ session.open =>
         /\ session.query \in ClaimQuery
         /\ \A c \in Seen : ClaimRank[c] <= session.query.after
         /\ \A c \in Common : ClaimRank[c] <= session.query.after => c \in Seen
    /\ \A i, j \in DOMAIN session.returned :
         i # j => session.returned[i] \cap session.returned[j] = {}
    /\ Seen \subseteq UNION session.versions
    /\ session.query # Absent /\ ~ session.open => Common \subseteq Seen

\* One more page: what was returned, and that no page repeats another.
LEMMA AppendedPage ==
    ASSUME NEW S, NEW s \in Seq(S), NEW x \in S
    PROVE  Elements(Append(s, x)) = Elements(s) \cup {x}
<1> DEFINE longer == Append(s, x)
<1>1. /\ Len(s) \in Nat /\ DOMAIN s = 1 .. Len(s)
      /\ DOMAIN longer = 1 .. Len(s) + 1
      /\ longer[Len(s) + 1] = x
      /\ \A i \in 1 .. Len(s) : longer[i] = s[i]
  OBVIOUS
<1> HIDE DEF longer
<1>2. ASSUME NEW i \in DOMAIN longer PROVE longer[i] \in Elements(s) \cup {x}
  <2>1. CASE i = Len(s) + 1
    BY <1>1, <2>1
  <2>2. CASE i \in 1 .. Len(s)
    BY <1>1, <2>2 DEF Elements
  <2> QED
    BY <1>1, <2>1, <2>2
<1>3. ASSUME NEW i \in DOMAIN s PROVE s[i] \in Elements(longer)
  <2>1. i \in DOMAIN longer /\ longer[i] = s[i]
    BY <1>1
  <2> QED
    BY <2>1 DEF Elements
<1>4. x \in Elements(longer)
  <2>1. Len(s) + 1 \in DOMAIN longer
    BY <1>1
  <2> QED
    BY <1>1, <2>1 DEF Elements
<1>5. Elements(longer) = Elements(s) \cup {x}
  BY <1>2, <1>3, <1>4 DEF Elements
<1> QED
  BY <1>5 DEF longer

LEMMA AppendedApart ==
    ASSUME NEW S, NEW s \in Seq(S), NEW x \in S,
           \A i, j \in DOMAIN s : i # j => s[i] \cap s[j] = {},
           (UNION Elements(s)) \cap x = {}
    PROVE  \A i, j \in DOMAIN Append(s, x) : i # j => Append(s, x)[i] \cap Append(s, x)[j] = {}
<1> DEFINE longer == Append(s, x)
<1>1. /\ Len(s) \in Nat /\ DOMAIN s = 1 .. Len(s)
      /\ DOMAIN longer = 1 .. Len(s) + 1
      /\ longer[Len(s) + 1] = x
      /\ \A i \in 1 .. Len(s) : longer[i] = s[i]
  OBVIOUS
<1> HIDE DEF longer
<1>2. \A k \in DOMAIN s : s[k] \cap x = {}
  BY DEF Elements
<1>3. ASSUME NEW i \in DOMAIN longer, NEW j \in DOMAIN longer, i # j
      PROVE  longer[i] \cap longer[j] = {}
  <2>1. CASE i \in DOMAIN s /\ j \in DOMAIN s
    BY <1>1, <1>3, <2>1
  <2>2. CASE i \in DOMAIN s /\ j = Len(s) + 1
    BY <1>1, <1>2, <2>2
  <2>3. CASE i = Len(s) + 1 /\ j \in DOMAIN s
    BY <1>1, <1>2, <2>3
  <2>4. i \in 1 .. Len(s) + 1 /\ j \in 1 .. Len(s) + 1
    BY <1>1
  <2> QED
    BY <1>1, <1>3, <2>1, <2>2, <2>3, <2>4
<1> QED
  BY <1>3 DEF longer

LEMMA SessionInit == Init => SessionInv
<1> SUFFICES ASSUME Init PROVE SessionInv
  OBVIOUS
<1>1. /\ session.query = Absent /\ session.returned = << >>
      /\ session.versions = {} /\ session.open = FALSE
  BY DEF Init, Nobody
<1>2. /\ session.returned \in Seq(SUBSET DOMAIN ClaimRank)
      /\ DOMAIN session.returned = {}
  BY <1>1
<1>3. Elements(session.returned) = {}
  BY <1>2 DEF Elements
<1>4. Seen = {}
  BY <1>3 DEF Seen
<1> QED
  BY <1>1, <1>2, <1>4 DEF SessionInv

\* A reader that asks has seen nothing, and every rank is at least one.
LEMMA SessionAsk ==
    ASSUME NEW query \in Queries, Ask(query) PROVE SessionInv'
<1>1. query \in ClaimQuery /\ query.after = 0
  BY CompilationAssumption
<1>2. /\ session'.query = query /\ session'.returned = << >>
      /\ session'.versions = {} /\ session'.open = TRUE
  BY DEF Ask
<1>3. /\ session'.returned \in Seq(SUBSET DOMAIN ClaimRank)
      /\ DOMAIN session'.returned = {}
      /\ Elements(session'.returned) = {}
  BY <1>2 DEF Elements
<1>4. Seen' = {}
  BY <1>3 DEF Seen
<1>5. \A c \in DOMAIN ClaimRank : ~ ClaimRank[c] <= 0
  <2>1. Cardinality(DOMAIN ClaimRank) \in Nat
    BY ClaimViewAssumption, FS_CardinalityType
  <2> QED
    BY <2>1, ClaimViewAssumption
<1>6. Common' \subseteq DOMAIN ClaimRank
  BY DEF Common
<1> QED
  BY <1>1, <1>2, <1>3, <1>4, <1>5, <1>6 DEF SessionInv

\* The next page: it lies past everything that was seen, and up to its end
\* nothing that matched in every topology is missing.
LEMMA SessionNextPage ==
    ASSUME CompilationInv, SessionInv, NextPage PROVE SessionInv'
<1> DEFINE q == session.query
           page == Page(bundle.topology, q)
           matched == Says(Matched(bundle.topology, q))
           returned == Says(page.claims)
<1>1. session.open /\ q \in ClaimQuery
  BY DEF NextPage, SessionInv
<1>2. Readable(bundle.topology)
  BY <1>1, BundleIsReadable DEF CompilationInv
<1>3. /\ matched \subseteq DOMAIN ClaimRank
      /\ returned \subseteq matched
      /\ page.truncated \in BOOLEAN
      /\ \A c \in returned : ClaimRank[c] > q.after
  BY <1>1, <1>2, PageIsExact
<1>4. page.truncated =>
        /\ page.next_after \in Nat /\ page.next_after > q.after
        /\ \A c \in returned : ClaimRank[c] <= page.next_after
        /\ \A c \in matched : q.after < ClaimRank[c] /\ ClaimRank[c] <= page.next_after => c \in returned
  BY <1>1, <1>2, PageIsExact
<1>5. ~ page.truncated => \A c \in matched : q.after < ClaimRank[c] => c \in returned
  BY <1>1, <1>2, PageIsExact
<1>6. q.after \in Nat /\ \A c \in DOMAIN ClaimRank : ClaimRank[c] \in Nat
  <2>1. Cardinality(DOMAIN ClaimRank) \in Nat
    BY ClaimViewAssumption, FS_CardinalityType
  <2> QED
    BY <1>1, <2>1, ClaimViewAssumption DEF ClaimQuery
<1>7. /\ session'.query = [q EXCEPT !.after = IF page.truncated THEN page.next_after ELSE @]
      /\ session'.returned = Append(session.returned, returned)
      /\ session'.versions = session.versions \cup {matched}
      /\ session'.open = page.truncated
  BY DEF NextPage
<1> HIDE DEF q, page, matched, returned
<1>8. /\ session'.query \in ClaimQuery
      /\ session'.query.after = IF page.truncated THEN page.next_after ELSE q.after
  <2>1. (IF page.truncated THEN page.next_after ELSE q.after) \in Nat
    BY <1>4, <1>6
  <2>2. session'.query = [q EXCEPT !.after = IF page.truncated THEN page.next_after ELSE q.after]
    BY <1>7
  <2> QED
    BY <1>1, <2>1, <2>2 DEF ClaimQuery
<1>9. /\ session.returned \in Seq(SUBSET DOMAIN ClaimRank)
      /\ \A c \in Seen : ClaimRank[c] <= q.after
      /\ \A c \in Common : ClaimRank[c] <= q.after => c \in Seen
      /\ \A i, j \in DOMAIN session.returned :
           i # j => session.returned[i] \cap session.returned[j] = {}
      /\ Seen \subseteq UNION session.versions
      /\ session.versions \subseteq SUBSET DOMAIN ClaimRank
  BY <1>1 DEF SessionInv, q
<1>10. Seen \subseteq DOMAIN ClaimRank
  BY <1>9
<1>11. Seen \cap returned = {}
  <2> SUFFICES ASSUME NEW c \in Seen, c \in returned PROVE FALSE
    OBVIOUS
  <2>1. ClaimRank[c] \in Nat /\ ClaimRank[c] <= q.after /\ ClaimRank[c] > q.after
    BY <1>3, <1>6, <1>9, <1>10
  <2> QED
    BY <1>6, <2>1
<1>12. /\ session'.returned \in Seq(SUBSET DOMAIN ClaimRank)
       /\ Elements(session'.returned) = Elements(session.returned) \cup {returned}
       /\ \A i, j \in DOMAIN session'.returned :
            i # j => session'.returned[i] \cap session'.returned[j] = {}
  <2>1. returned \in SUBSET DOMAIN ClaimRank
    BY <1>3
  <2>2. (UNION Elements(session.returned)) \cap returned = {}
    BY <1>11 DEF Seen
  <2> DEFINE longer == Append(session.returned, returned)
             P == SUBSET DOMAIN ClaimRank
  <2>3. session.returned \in Seq(P) /\ returned \in P
    BY <1>9, <2>1
  <2>4. longer \in Seq(P)
    BY <2>3
  <2>5. Elements(longer) = Elements(session.returned) \cup {returned}
    <3> HIDE DEF P
    <3> QED
      BY <2>3, AppendedPage
  <2>6. \A i, j \in DOMAIN longer : i # j => longer[i] \cap longer[j] = {}
    <3> HIDE DEF P
    <3> QED
      BY <1>9, <2>2, <2>3, AppendedApart
  <2>7. session'.returned = longer
    BY <1>7
  <2> HIDE DEF longer
  <2> QED
    BY <2>4, <2>5, <2>6, <2>7
<1>13. Seen' = Seen \cup returned
  BY <1>12 DEF Seen
<1>14. Common' \subseteq Common /\ Common' \subseteq matched
  BY <1>7 DEF Common
<1>15. Seen' \subseteq UNION session'.versions
  <2>1. returned \subseteq UNION session'.versions
    BY <1>3, <1>7
  <2>2. (UNION session.versions) \subseteq UNION session'.versions
    BY <1>7
  <2> QED
    BY <1>9, <1>13, <2>1, <2>2
<1>16. session'.versions \subseteq SUBSET DOMAIN ClaimRank
  BY <1>3, <1>7, <1>9
<1>17. ASSUME page.truncated
       PROVE  /\ \A c \in Seen' : ClaimRank[c] <= session'.query.after
              /\ \A c \in Common' : ClaimRank[c] <= session'.query.after => c \in Seen'
  <2>1. session'.query.after = page.next_after
    BY <1>8, <1>17
  <2>2. ASSUME NEW c \in Seen' PROVE ClaimRank[c] <= page.next_after
    <3>1. CASE c \in returned
      BY <1>4, <1>17, <3>1
    <3>2. CASE c \in Seen
      <4>1. ClaimRank[c] \in Nat /\ ClaimRank[c] <= q.after
        BY <1>6, <1>9, <1>10, <3>2
      <4> QED
        BY <1>4, <1>6, <1>17, <4>1
    <3> QED
      BY <1>13, <3>1, <3>2
  <2>3. ASSUME NEW c \in Common', ClaimRank[c] <= page.next_after PROVE c \in Seen'
    <3>1. c \in Common /\ c \in matched /\ ClaimRank[c] \in Nat
      BY <1>3, <1>6, <1>14
    <3>2. CASE ClaimRank[c] <= q.after
      BY <1>9, <1>13, <3>1, <3>2
    <3>3. CASE q.after < ClaimRank[c]
      BY <1>4, <1>13, <1>17, <2>3, <3>1, <3>3
    <3> QED
      BY <1>6, <3>1, <3>2, <3>3
  <2> QED
    BY <2>1, <2>2, <2>3
<1>18. ASSUME ~ page.truncated PROVE Common' \subseteq Seen'
  <2> SUFFICES ASSUME NEW c \in Common' PROVE c \in Seen'
    OBVIOUS
  <2>1. c \in Common /\ c \in matched /\ ClaimRank[c] \in Nat
    BY <1>3, <1>6, <1>14
  <2>2. CASE ClaimRank[c] <= q.after
    BY <1>9, <1>13, <2>1, <2>2
  <2>3. CASE q.after < ClaimRank[c]
    BY <1>5, <1>13, <1>18, <2>1, <2>3
  <2> QED
    BY <1>6, <2>1, <2>2, <2>3
<1>19. session'.open \in BOOLEAN /\ (session'.open <=> page.truncated)
  BY <1>3, <1>7
<1> QED
  BY <1>8, <1>12, <1>15, <1>16, <1>17, <1>18, <1>19 DEF SessionInv

LEMMA SessionStep ==
    ASSUME CompilationInv, SessionInv, [Next]_vars PROVE SessionInv'
<1>1. CASE UNCHANGED session
  <2>1. Seen' = Seen /\ Common' = Common
    BY <1>1 DEF Seen, Common
  <2> QED
    BY <1>1, <2>1 DEF SessionInv
<1>2. ASSUME NEW path, NEW packet, Produce(path, packet) PROVE UNCHANGED session
  BY <1>2 DEF Produce
<1>3. ASSUME NEW selection, Compile(selection) PROVE UNCHANGED session
  BY <1>3 DEF Compile
<1>4. Commit => UNCHANGED session
  BY DEF Commit
<1>5. End => UNCHANGED session
  BY DEF End
<1>6. UNCHANGED vars => UNCHANGED session
  BY DEF vars
<1> QED
  BY <1>1, <1>2, <1>3, <1>4, <1>5, <1>6, SessionAsk, SessionNextPage DEF Next

\* A reader that follows the pages sees no claim twice and, when they end, has
\* seen every claim that matched in all the topologies it read.
LEMMA SessionIsExact == ASSUME SessionInv PROVE PagesAreExact
<1>1. {c \in UNION session.versions : \A version \in session.versions : c \in version} \subseteq Common
  BY DEF SessionInv, Common
<1> QED
  BY <1>1 DEF SessionInv, PagesAreExact

THEOREM CompilationSession == Spec => []SessionInv
<1>1. CompilationInv /\ SessionInv /\ [Next]_vars => SessionInv'
  BY SessionStep
<1> QED
  BY <1>1, SessionInit, CompilationInvariant, PTL DEF Spec

-----------------------------------------------------------------------------
(* Comparison.                                                              *)

\* A query that looks only at what a claim says cannot tell two readings of it
\* apart.
LEMMA SameSaysSatisfies ==
    ASSUME NEW q, AboutStatements(q), NEW v, NEW w, v.says = w.says, Satisfies(v, q)
    PROVE  Satisfies(w, q)
<1>1. q.conflict = "any" /\ q.projection = "any" /\ q.path = Absent /\ q.minimum = 0
  BY DEF AboutStatements
<1> QED
  BY <1>1 DEF Satisfies

\* Views of claims are records, and tell whether a claim was projected by the
\* reason they give.
IsView(v) ==
    /\ v = [says |-> v.says, status |-> v.status, projected |-> v.projected, read |-> v.read,
            level |-> v.level, places |-> v.places, projection |-> v.projection]
    /\ v.projected \in BOOLEAN
    /\ v.projected <=> v.projection = "projected"

LEMMA CompiledAreViews ==
    ASSUME NEW R, NEW C, NEW v \in Views(Compiled(R, C))
    PROVE  IsView(v)
<1>1. PICK c \in Claims(Pool(R, C)) : v = Viewed(ClaimRecord(Pool(R, C), c))
  BY CompiledViews
<1> DEFINE claim == ClaimRecord(Pool(R, C), c)
<1>2. claim.projected = (c \in ProjectedClaims(Pool(R, C)))
  BY DEF ClaimRecord
<1>3. claim.projected \in BOOLEAN
  BY <1>2
<1> HIDE DEF claim
<1>4. ProjectionStatus(claim) = "projected" <=> claim.projected
  <2>1. CASE claim.projected
    BY <2>1 DEF ProjectionStatus
  <2>2. CASE ~ claim.projected
    <3>1. ProjectionStatus(claim) \in {"not-projectable", "withheld", "not-projected"}
      BY <2>2 DEF ProjectionStatus
    <3> QED
      BY <2>2, <3>1
  <2> QED
    BY <2>1, <2>2
<1>5. v = [says |-> claim.says, status |-> claim.status, projected |-> claim.projected, read |-> claim.read,
           level |-> claim.level, places |-> claim.places, projection |-> ProjectionStatus(claim)]
  BY <1>1 DEF Viewed, claim
<1> QED
  BY <1>3, <1>4, <1>5 DEF IsView

\* Readings of one claim without a category of difference are the same.
LEMMA NoCategoryNoDifference ==
    ASSUME NEW v, NEW w, IsView(v), IsView(w), v.says = w.says, Categories(v, w) = {}
    PROVE  v = w
<1>1. v.places = w.places /\ v.projection = w.projection
  BY DEF Categories
<1>2. <<v.read, v.level, v.status>> = <<w.read, w.level, w.status>>
  BY DEF Categories
<1>3. v.read = w.read /\ v.level = w.level /\ v.status = w.status
  BY <1>2
<1>4. v.projected = w.projected
  BY <1>1 DEF IsView
<1> QED
  BY <1>1, <1>3, <1>4 DEF IsView

\* Two topologies compared: nothing of either is lost.
LEMMA DifferentialIsExact ==
    ASSUME NEW t, NEW later, Readable(t), Readable(later),
           \A v \in Views(t) \cup Views(later) : IsView(v),
           NEW q, AboutStatements(q)
    PROVE  LET before == Matched(t, q)
               after == Matched(later, q)
               changes == Differential(t, later, q)
               same == {view \in before : view.says \notin {change.says : change \in changes.changed}} \ changes.removed
           IN  /\ Says(changes.removed) = Says(before) \ Says(Views(later))
               /\ Says(changes.added) = Says(after) \ Says(Views(t))
               /\ same \subseteq after
<1> DEFINE before == Matched(t, q)
           after == Matched(later, q)
           changes == Differential(t, later, q)
<1>1. before \subseteq Views(t) /\ after \subseteq Views(later)
  BY DEF Matched
<1>2. ASSUME NEW v \in before, v.says \in Says(Views(later)) PROVE v.says \in Says(after)
  <2>1. PICK w \in Views(later) : w.says = v.says
    BY <1>2 DEF Says
  <2>2. Satisfies(w, q)
    BY <2>1, SameSaysSatisfies DEF Matched
  <2> QED
    BY <2>1, <2>2 DEF Matched, Says
<1>3. ASSUME NEW v \in after, v.says \in Says(Views(t)) PROVE v.says \in Says(before)
  <2>1. PICK w \in Views(t) : w.says = v.says
    BY <1>3 DEF Says
  <2>2. Satisfies(w, q)
    BY <2>1, SameSaysSatisfies DEF Matched
  <2> QED
    BY <2>1, <2>2 DEF Matched, Says
<1>4. /\ changes.removed = {view \in before : view.says \notin Says(after)}
      /\ changes.added = {view \in after : view.says \notin Says(before)}
      /\ changes.changed = {[says |-> pair[1].says, categories |-> Categories(pair[1], pair[2])] :
                              pair \in Reread(before, after)}
  BY DEF Differential
<1> HIDE DEF before, after, changes
<1>5. Says(before) \subseteq Says(Views(t)) /\ Says(after) \subseteq Says(Views(later))
  BY <1>1 DEF Says
<1>6. Says(changes.removed) = Says(before) \ Says(Views(later))
  <2>1. ASSUME NEW v \in changes.removed
        PROVE  v.says \in Says(before) \ Says(Views(later))
    BY <1>2, <1>4 DEF Says
  <2>2. ASSUME NEW v \in before, v.says \notin Says(Views(later))
        PROVE  v \in changes.removed
    BY <1>4, <1>5, <2>2
  <2> QED
    BY <2>1, <2>2 DEF Says
<1>7. Says(changes.added) = Says(after) \ Says(Views(t))
  <2>1. ASSUME NEW v \in changes.added
        PROVE  v.says \in Says(after) \ Says(Views(t))
    BY <1>3, <1>4 DEF Says
  <2>2. ASSUME NEW v \in after, v.says \notin Says(Views(t))
        PROVE  v \in changes.added
    BY <1>4, <1>5, <2>2
  <2> QED
    BY <2>1, <2>2 DEF Says
<1>8. ASSUME NEW v \in before, v.says \notin {change.says : change \in changes.changed}, v \notin changes.removed
      PROVE  v \in after
  <2>1. PICK w \in after : w.says = v.says
    BY <1>4, <1>8 DEF Says
  <2>2. Categories(v, w) = {}
    <3> SUFFICES ASSUME Categories(v, w) # {} PROVE FALSE
      OBVIOUS
    <3> DEFINE pair == <<v, w>>
    <3>1. pair \in Reread(before, after)
      BY <2>1 DEF Reread
    <3>2. [says |-> pair[1].says, categories |-> Categories(pair[1], pair[2])] \in changes.changed
      BY <1>4, <3>1
    <3> QED
      BY <1>8, <3>2
  <2>3. IsView(v) /\ IsView(w)
    BY <1>1
  <2> QED
    BY <2>1, <2>2, <2>3, NoCategoryNoDifference
<1> QED
  BY <1>6, <1>7, <1>8 DEF before, after, changes

\* The differential of the committed bundle and a compilation accounts for
\* every claim of both.
LEMMA ComparisonIsExact == ASSUME CompilationInv PROVE DifferentialAccounts
<1> SUFFICES ASSUME bundle # Absent, result # Absent, result.status = "passed",
                    NEW q \in {x \in Queries : AboutStatements(x)}
             PROVE  LET before == Matched(bundle.topology, q)
                        after == Matched(result.topology, q)
                        changes == Differential(bundle.topology, result.topology, q)
                        same == {view \in before : view.says \notin {change.says : change \in changes.changed}}
                                  \ changes.removed
                    IN  /\ Says(changes.removed) = Says(before) \ Says(result.topology.claims)
                        /\ Says(changes.added) = Says(after) \ Says(bundle.topology.claims)
                        /\ same \subseteq after
  BY DEF DifferentialAccounts
<1>1. /\ bundle.topology = Compiled(bundle.packets, bundle.corpora)
      /\ bundle.packets \in Seq(Editions(Shelf)) /\ bundle.corpora \in Seq(Editions(CorpusShelf))
      /\ result.topology = Compiled(result.packets, result.corpora)
      /\ result.packets \in Seq(Editions(Shelf)) /\ result.corpora \in Seq(Editions(CorpusShelf))
  BY DEF CompilationInv, IsAttempt
<1>2. Readable(bundle.topology) /\ Readable(result.topology)
  BY <1>1, CompiledIsReadable
<1>3. \A v \in Views(bundle.topology) \cup Views(result.topology) : IsView(v)
  BY <1>1, CompiledAreViews
<1>4. ASSUME NEW t PROVE Says(Views(t)) = Says(t.claims)
  <2>1. \A claim \in t.claims : Viewed(claim) \in Views(t) /\ Viewed(claim).says = claim.says
    BY DEF Views, Viewed
  <2>2. \A v \in Views(t) : \E claim \in t.claims : v.says = claim.says
    BY <2>1 DEF Views
  <2> QED
    BY <2>1, <2>2 DEF Says
<1>5. AboutStatements(q)
  OBVIOUS
<1> QED
  BY <1>2, <1>3, <1>4, <1>5, DifferentialIsExact

-----------------------------------------------------------------------------
(* Gaps.                                                                    *)

\* The targets of edges of some types are what those edges lead into.
LEMMA IntoEnds ==
    ASSUME NEW E, NEW x, NEW types
    PROVE  Into(E, x, types) # {} <=> x \in {e.target : e \in {y \in E : y.type \in types}}
  BY DEF Into

LEMMA OutOfEnds ==
    ASSUME NEW E, NEW x, NEW types
    PROVE  OutOf(E, x, types) # {} <=> x \in {e.source : e \in {y \in E : y.type \in types}}
  BY DEF OutOf

\* Whoever the record of a capability names is joined to it by an edge.
Linked(E, k) ==
    /\ k.by # {} => Into(E, k.id, {"IMPLEMENTS"}) # {}
    /\ k.exposed # {} => Into(E, k.id, {"EXPOSES", "ROUTES_TO"}) # {}

LEMMA CapabilitiesAreLinked ==
    ASSUME NEW R, NEW C, NEW k \in Capabilities(R, C)
    PROVE  Linked(GraphEdges(R, C), k)
<1> DEFINE E == GraphEdges(R, C)
           implementing == {Edge("IMPLEMENTS", x, k.id, {}, "none", "none") : x \in k.by}
           exposing == {Edge("EXPOSES", x, k.id, {}, "none", "none") : x \in k.exposed}
<1>1. implementing \cup exposing \subseteq CapabilityLinks(R, C)
  BY DEF CapabilityLinks
<1>2. CapabilityLinks(R, C) \subseteq E
  BY DEF GraphEdges
<1> HIDE DEF E
<1>3. ASSUME NEW x \in k.by PROVE Into(E, k.id, {"IMPLEMENTS"}) # {}
  <2> DEFINE e == Edge("IMPLEMENTS", x, k.id, {}, "none", "none")
  <2>1. e \in E
    BY <1>1, <1>2
  <2>2. e.type = "IMPLEMENTS" /\ e.target = k.id
    BY DEF Edge
  <2> HIDE DEF e
  <2> QED
    BY <2>1, <2>2 DEF Into
<1>4. ASSUME NEW x \in k.exposed PROVE Into(E, k.id, {"EXPOSES", "ROUTES_TO"}) # {}
  <2> DEFINE e == Edge("EXPOSES", x, k.id, {}, "none", "none")
  <2>1. e \in E
    BY <1>1, <1>2
  <2>2. e.type = "EXPOSES" /\ e.target = k.id
    BY DEF Edge
  <2> HIDE DEF e
  <2> QED
    BY <2>1, <2>2 DEF Into
<1> QED
  BY <1>3, <1>4 DEF Linked, E

\* The gap of a capability is read off the edges.
LEMMA GapOfCapability ==
    ASSUME NEW E, NEW k, Linked(E, k)
    PROVE  LET used == Into(E, k.id, {"CONSUMES"}) # {}
               exposed == \/ Into(E, k.id, {"EXPOSES", "ROUTES_TO"}) # {}
                          \/ OutOf(E, k.id, {"ROUTES_TO"}) # {}
               built == Into(E, k.id, {"IMPLEMENTS"}) # {}
           IN  \A type : (\E gap \in CapabilityGap(E, k, << >>) : gap.gap = type)
                 <=> \/ type = "EXPOSED_UNCONSUMED" /\ ~ used /\ exposed
                     \/ type = "BUILT_UNREACHABLE" /\ ~ used /\ ~ exposed /\ built
<1> DEFINE used == Into(E, k.id, {"CONSUMES"}) # {}
           exposed == \/ Into(E, k.id, {"EXPOSES", "ROUTES_TO"}) # {}
                      \/ OutOf(E, k.id, {"ROUTES_TO"}) # {}
           built == Into(E, k.id, {"IMPLEMENTS"}) # {}
           exposers == k.exposed \cup Into(E, k.id, {"EXPOSES", "ROUTES_TO"}) \cup OutOf(E, k.id, {"ROUTES_TO"})
           validators == k.validated \cup Into(E, k.id, {"VALIDATED_BY"}) \cup OutOf(E, k.id, {"VALIDATED_BY"})
           state == IF validators = {} THEN "IMPLEMENTED" ELSE "VALIDATED"
<1>1. exposers # {} <=> exposed
  BY DEF Linked
<1>2. k.by \cup Into(E, k.id, {"IMPLEMENTS"}) # {} <=> built
  BY DEF Linked
<1>3. CapabilityGap(E, k, << >>) =
        IF used THEN {}
        ELSE IF exposers # {} THEN {BridgeGap(k.id, "EXPOSED_UNCONSUMED", "EXPOSED", << >>)}
        ELSE IF k.by \cup Into(E, k.id, {"IMPLEMENTS"}) # {}
        THEN {BridgeGap(k.id, "BUILT_UNREACHABLE", state, << >>)}
        ELSE {}
  BY DEF CapabilityGap
<1>4. \A x, type, observed : BridgeGap(x, type, observed, << >>).gap = type
  BY DEF BridgeGap
<1> HIDE DEF used, exposed, built, exposers, state
<1>5. CapabilityGap(E, k, << >>) =
        IF used THEN {}
        ELSE IF exposed THEN {BridgeGap(k.id, "EXPOSED_UNCONSUMED", "EXPOSED", << >>)}
        ELSE IF built THEN {BridgeGap(k.id, "BUILT_UNREACHABLE", state, << >>)}
        ELSE {}
  BY <1>1, <1>2, <1>3
<1>6. ASSUME NEW type
      PROVE  (\E gap \in CapabilityGap(E, k, << >>) : gap.gap = type)
               <=> \/ type = "EXPOSED_UNCONSUMED" /\ ~ used /\ exposed
                   \/ type = "BUILT_UNREACHABLE" /\ ~ used /\ ~ exposed /\ built
  BY <1>4, <1>5
<1> QED
  BY <1>6 DEF used, exposed, built

LEMMA GapIsAbout ==
    ASSUME NEW E, NEW k, NEW gap \in CapabilityGap(E, k, << >>) PROVE gap.subject = k.id
  BY DEF CapabilityGap, BridgeGap

\* The gaps of a graph in which capabilities are linked, by kind.
LEMMA GapsAreExact ==
    ASSUME NEW E, NEW capabilities, \A k \in capabilities : Linked(E, k)
    PROVE  LET ends(types) == {e.target : e \in {x \in E : x.type \in types}}
               used == ends({"CONSUMES"})
               exposed == ends({"EXPOSES", "ROUTES_TO"}) \cup {e.source : e \in {x \in E : x.type = "ROUTES_TO"}}
               ids == {k.id : k \in capabilities}
               reported(type) == {gap.subject : gap \in {x \in BridgeGaps(E, capabilities, << >>) : x.gap = type}}
           IN  /\ reported("BUILT_UNREACHABLE") = (ids \cap ends({"IMPLEMENTS"})) \ (exposed \cup used)
               /\ reported("EXPOSED_UNCONSUMED") = (ids \cap exposed) \ used
               /\ reported("ORPHAN_OUTPUT") = ends({"PRODUCES"}) \ (ids \cup used)
<1> DEFINE ends(types) == {e.target : e \in {x \in E : x.type \in types}}
           used == ends({"CONSUMES"})
           exposed == ends({"EXPOSES", "ROUTES_TO"}) \cup {e.source : e \in {x \in E : x.type = "ROUTES_TO"}}
           built == ends({"IMPLEMENTS"})
           outputs == ends({"PRODUCES"})
           ids == {k.id : k \in capabilities}
           gaps == BridgeGaps(E, capabilities, << >>)
           reported(type) == {gap.subject : gap \in {x \in gaps : x.gap = type}}
<1>1. \A x : /\ Into(E, x, {"CONSUMES"}) # {} <=> x \in used
             /\ Into(E, x, {"IMPLEMENTS"}) # {} <=> x \in built
             /\ (\/ Into(E, x, {"EXPOSES", "ROUTES_TO"}) # {}
                 \/ OutOf(E, x, {"ROUTES_TO"}) # {}) <=> x \in exposed
  <2>1. {y \in E : y.type \in {"ROUTES_TO"}} = {y \in E : y.type = "ROUTES_TO"}
    OBVIOUS
  <2> QED
    BY <2>1, IntoEnds, OutOfEnds
<1>2. ASSUME NEW k \in capabilities, NEW gap \in CapabilityGap(E, k, << >>)
      PROVE  /\ gap.subject = k.id
             /\ gap.gap = "BUILT_UNREACHABLE" => k.id \in built \ (exposed \cup used)
             /\ gap.gap = "EXPOSED_UNCONSUMED" => k.id \in exposed \ used
             /\ gap.gap # "ORPHAN_OUTPUT"
  <2> HIDE DEF used, exposed, built
  <2>1. gap.subject = k.id
    BY GapIsAbout
  <2>2. \/ gap.gap = "EXPOSED_UNCONSUMED" /\ k.id \notin used /\ k.id \in exposed
        \/ gap.gap = "BUILT_UNREACHABLE" /\ k.id \notin used /\ k.id \notin exposed /\ k.id \in built
    BY <1>1, GapOfCapability
  <2> QED
    BY <2>1, <2>2
<1>3. ASSUME NEW k \in capabilities
      PROVE  /\ k.id \in built \ (exposed \cup used) =>
                  \E gap \in CapabilityGap(E, k, << >>) : gap.gap = "BUILT_UNREACHABLE"
             /\ k.id \in exposed \ used =>
                  \E gap \in CapabilityGap(E, k, << >>) : gap.gap = "EXPOSED_UNCONSUMED"
  <2> HIDE DEF used, exposed, built
  <2> QED
    BY <1>1, GapOfCapability
<1>4. /\ \A gap \in OutputGaps(E, capabilities, << >>) :
           gap.gap = "ORPHAN_OUTPUT" /\ gap.subject \in outputs \ (ids \cup used)
      /\ \A x \in outputs \ (ids \cup used) :
           \E gap \in OutputGaps(E, capabilities, << >>) : gap.subject = x
  <2> DEFINE orphans == {e.target : e \in {y \in E : /\ y.type = "PRODUCES"
                                                     /\ y.target \notin {k.id : k \in capabilities}
                                                     /\ Into(E, y.target, {"CONSUMES"}) = {}}}
  <2>1. OutputGaps(E, capabilities, << >>) = {BridgeGap(x, "ORPHAN_OUTPUT", "PRODUCED", << >>) : x \in orphans}
    BY DEF OutputGaps
  <2>2. \A x : BridgeGap(x, "ORPHAN_OUTPUT", "PRODUCED", << >>).gap = "ORPHAN_OUTPUT"
               /\ BridgeGap(x, "ORPHAN_OUTPUT", "PRODUCED", << >>).subject = x
    BY DEF BridgeGap
  <2>3. orphans = outputs \ (ids \cup used)
    <3> HIDE DEF used
    <3>1. \A y \in E : Into(E, y.target, {"CONSUMES"}) = {} <=> y.target \notin used
      BY <1>1
    <3>2. {y \in E : y.type \in {"PRODUCES"}} = {y \in E : y.type = "PRODUCES"}
      OBVIOUS
    <3> QED
      BY <3>1, <3>2
  <2> HIDE DEF orphans, used, outputs, ids
  <2> QED
    BY <2>1, <2>2, <2>3
<1>5. \A gap : gap \in gaps <=> \/ gap \in OutputGaps(E, capabilities, << >>)
                                \/ \E k \in capabilities : gap \in CapabilityGap(E, k, << >>)
  BY DEF BridgeGaps
<1> HIDE DEF used, exposed, built, outputs, gaps
<1>6. reported("BUILT_UNREACHABLE") = (ids \cap built) \ (exposed \cup used)
  <2>1. ASSUME NEW gap \in gaps, gap.gap = "BUILT_UNREACHABLE"
        PROVE  gap.subject \in (ids \cap built) \ (exposed \cup used)
    BY <1>2, <1>4, <1>5, <2>1
  <2>2. ASSUME NEW k \in capabilities, k.id \in built \ (exposed \cup used)
        PROVE  \E gap \in gaps : gap.gap = "BUILT_UNREACHABLE" /\ gap.subject = k.id
    BY <1>2, <1>3, <1>5, <2>2
  <2> QED
    BY <2>1, <2>2
<1>7. reported("EXPOSED_UNCONSUMED") = (ids \cap exposed) \ used
  <2>1. ASSUME NEW gap \in gaps, gap.gap = "EXPOSED_UNCONSUMED"
        PROVE  gap.subject \in (ids \cap exposed) \ used
    BY <1>2, <1>4, <1>5, <2>1
  <2>2. ASSUME NEW k \in capabilities, k.id \in exposed \ used
        PROVE  \E gap \in gaps : gap.gap = "EXPOSED_UNCONSUMED" /\ gap.subject = k.id
    BY <1>2, <1>3, <1>5, <2>2
  <2> QED
    BY <2>1, <2>2
<1>8. reported("ORPHAN_OUTPUT") = outputs \ (ids \cup used)
  <2>1. ASSUME NEW gap \in gaps, gap.gap = "ORPHAN_OUTPUT"
        PROVE  gap.subject \in outputs \ (ids \cup used)
    BY <1>2, <1>4, <1>5, <2>1
  <2>2. ASSUME NEW x \in outputs \ (ids \cup used)
        PROVE  \E gap \in gaps : gap.gap = "ORPHAN_OUTPUT" /\ gap.subject = x
    BY <1>4, <1>5, <2>2
  <2> QED
    BY <2>1, <2>2
<1> QED
  BY <1>6, <1>7, <1>8 DEF used, exposed, built, outputs, gaps

\* The report of gaps of the committed bundle follows from its edges.
LEMMA GapsOfTheBundle == ASSUME CompilationInv PROVE GapsFollowTheGraph
<1> SUFFICES ASSUME bundle # Absent
             PROVE  \A k \in bundle.topology.capabilities : Linked(bundle.topology.edges, k)
  BY GapsAreExact DEF GapsFollowTheGraph
<1>1. bundle.topology = Compiled(bundle.packets, bundle.corpora)
  BY DEF CompilationInv, IsAttempt
<1>2. /\ bundle.topology.capabilities = Capabilities(bundle.packets, bundle.corpora)
      /\ bundle.topology.edges = GraphEdges(bundle.packets, bundle.corpora)
  BY <1>1 DEF Compiled, View
<1> QED
  BY <1>2, CapabilitiesAreLinked

\* What a reader takes from the committed bundle, in pages, by comparison and in
\* the report of gaps, is exactly what the bundle says.
THEOREM CompilationReadings == Spec => []ReadingsAreExact
<1>1. CompilationInv /\ SessionInv => ReadingsAreExact
  BY SessionIsExact, ComparisonIsExact, GapsOfTheBundle DEF ReadingsAreExact
<1> QED
  BY <1>1, CompilationInvariant, CompilationSession, PTL

-----------------------------------------------------------------------------
(* Impact.  The recursive functions exist for every length, by the least    *)
(* length for which one would not.                                          *)

AreLayers(f, E, x, direction, n) ==
    f = [k \in 0 .. n |-> IF k = 0 THEN [front |-> {x}, seen |-> {x}] ELSE Further(E, f[k - 1], direction)]

LEMMA LayersExist ==
    ASSUME NEW E, NEW x, NEW direction, NEW n \in Nat
    PROVE  \E f : AreLayers(f, E, x, direction, n)
<1> DEFINE start == [front |-> {x}, seen |-> {x}]
           Step(layer) == Further(E, layer, direction)
           Are(f, m) == f = [k \in 0 .. m |-> IF k = 0 THEN start ELSE Step(f[k - 1])]
           T == {m \in Nat : ~ \E f : Are(f, m)}
<1> HIDE DEF start, Step
<1>1. ASSUME T # {} PROVE FALSE
  <2>1. PICK m \in T : \A l \in T : m <= l
    <3>1. T \subseteq Nat
      OBVIOUS
    <3> HIDE DEF T
    <3> QED
      BY <1>1, <3>1, LeastExists
  <2>2. m \in Nat /\ ~ \E f : Are(f, m)
    OBVIOUS
  <2>3. CASE m = 0
    <3> DEFINE f == [k \in 0 .. m |-> start]
    <3>1. Are(f, m)
      BY <2>3
    <3> QED
      BY <2>2, <3>1
  <2>4. CASE m # 0
    <3>1. m - 1 \in Nat /\ m - 1 \notin T
      BY <2>1, <2>2, <2>4
    <3>2. PICK g : Are(g, m - 1)
      BY <3>1
    <3> DEFINE f == [k \in 0 .. m |-> IF k = m THEN Step(g[m - 1]) ELSE g[k]]
               h == [k \in 0 .. m |-> IF k = 0 THEN start ELSE Step(f[k - 1])]
    <3>3. g[0] = start
      BY <2>2, <3>1, <3>2
    <3>4. \A k \in 1 .. m - 1 : g[k] = Step(g[k - 1])
      BY <2>2, <3>1, <3>2
    <3> HIDE DEF Are
    <3>5. ASSUME NEW k \in 0 .. m PROVE f[k] = h[k]
      <4>1. CASE k = 0
        BY <2>2, <2>4, <3>3, <4>1
      <4>2. CASE k \in 1 .. m - 1
        <5>1. f[k] = g[k] /\ f[k - 1] = g[k - 1]
          BY <2>2, <4>2
        <5>2. h[k] = Step(f[k - 1])
          BY <2>2, <4>2
        <5> QED
          BY <3>4, <4>2, <5>1, <5>2
      <4>3. CASE k = m
        <5>1. f[k] = Step(g[m - 1]) /\ f[k - 1] = g[m - 1]
          BY <2>2, <2>4, <4>3
        <5>2. h[k] = Step(f[k - 1])
          BY <2>2, <2>4, <4>3
        <5> QED
          BY <5>1, <5>2
      <4> QED
        BY <2>2, <4>1, <4>2, <4>3
    <3>6. f = h
      BY <3>5
    <3>7. Are(f, m)
      BY <3>6 DEF Are
    <3> QED
      BY <2>2, <3>7
  <2> QED
    BY <2>3, <2>4
<1>2. \E f : Are(f, n)
  BY <1>1
<1> QED
  BY <1>2 DEF AreLayers, start, Step

LEMMA LayersAre ==
    ASSUME NEW E, NEW x, NEW direction, NEW n \in Nat
    PROVE  LET L == Layers(E, x, direction, n)
           IN  /\ L[0] = [front |-> {x}, seen |-> {x}]
               /\ \A k \in 1 .. n : L[k] = Further(E, L[k - 1], direction)
<1> DEFINE L == Layers(E, x, direction, n)
           start == [front |-> {x}, seen |-> {x}]
           Step(layer) == Further(E, layer, direction)
<1>1. L = [k \in 0 .. n |-> IF k = 0 THEN start ELSE Step(L[k - 1])]
  <2>1. L = CHOOSE f : AreLayers(f, E, x, direction, n)
    BY DEF Layers, AreLayers
  <2>2. \E f : AreLayers(f, E, x, direction, n)
    BY LayersExist
  <2> HIDE DEF L
  <2>3. AreLayers(L, E, x, direction, n)
    BY <2>1, <2>2, Zenon
  <2> QED
    BY <2>3 DEF AreLayers
<1> HIDE DEF L, start, Step
<1>2. L[0] = start
  BY <1>1
<1>3. ASSUME NEW k \in 1 .. n PROVE L[k] = Step(L[k - 1])
  <2>1. k \in 0 .. n /\ k # 0
    OBVIOUS
  <2> QED
    BY <1>1, <2>1
<1> QED
  BY <1>2, <1>3 DEF L, start, Step

\* Layers do not depend on how many more are asked for.
LEMMA LayersAgree ==
    ASSUME NEW E, NEW x, NEW direction, NEW m \in Nat, NEW n \in Nat, NEW k \in Nat, k <= m, k <= n
    PROVE  Layers(E, x, direction, m)[k] = Layers(E, x, direction, n)[k]
<1> DEFINE L(i) == Layers(E, x, direction, i)
           T == {j \in Nat : \E a, b \in Nat : j <= a /\ j <= b /\ L(a)[j] # L(b)[j]}
<1>1. ASSUME NEW a \in Nat
      PROVE  /\ L(a)[0] = [front |-> {x}, seen |-> {x}]
             /\ \A j \in 1 .. a : L(a)[j] = Further(E, L(a)[j - 1], direction)
  BY LayersAre
<1> HIDE DEF L
<1>2. ASSUME T # {} PROVE FALSE
  <2>1. PICK j \in T : \A l \in T : j <= l
    <3>1. T \subseteq Nat
      OBVIOUS
    <3> HIDE DEF T
    <3> QED
      BY <1>2, <3>1, LeastExists
  <2>2. PICK a \in Nat, b \in Nat : j <= a /\ j <= b /\ L(a)[j] # L(b)[j]
    OBVIOUS
  <2>3. j # 0
    BY <1>1, <2>2
  <2>4. j \in 1 .. a /\ j \in 1 .. b
    BY <2>2, <2>3
  <2>5. L(a)[j] = Further(E, L(a)[j - 1], direction) /\ L(b)[j] = Further(E, L(b)[j - 1], direction)
    BY <1>1, <2>4
  <2>6. L(a)[j - 1] = L(b)[j - 1]
    <3>1. j - 1 \in Nat /\ j - 1 \notin T /\ j - 1 <= a /\ j - 1 <= b
      BY <2>1, <2>4
    <3> QED
      BY <3>1
  <2> QED
    BY <2>2, <2>5, <2>6
<1> QED
  BY <1>2 DEF L

\* The first layer, and one more.
LEMMA FirstLayer ==
    ASSUME NEW E, NEW x, NEW direction
    PROVE  Layers(E, x, direction, 0)[0] = [front |-> {x}, seen |-> {x}]
<1>1. 0 \in Nat
  OBVIOUS
<1> QED
  BY <1>1, LayersAre

LEMMA NextLayer ==
    ASSUME NEW E, NEW x, NEW direction, NEW n \in Nat, NEW N \in Nat, N = n + 1
    PROVE  Layers(E, x, direction, N)[N] = Further(E, Layers(E, x, direction, n)[n], direction)
<1> DEFINE L(i) == Layers(E, x, direction, i)
<1>1. /\ L(N)[0] = [front |-> {x}, seen |-> {x}]
      /\ \A j \in 1 .. N : L(N)[j] = Further(E, L(N)[j - 1], direction)
  BY LayersAre
<1>2. L(N)[n] = L(n)[n]
  <2>1. n <= N /\ n <= n
    OBVIOUS
  <2> QED
    BY <2>1, LayersAgree
<1> HIDE DEF L
<1>3. N \in 1 .. N /\ N - 1 = n
  OBVIOUS
<1>4. L(N)[N] = Further(E, L(n)[n], direction)
  BY <1>1, <1>2, <1>3
<1> QED
  BY <1>4 DEF L

AreWalks(f, E, x, direction, n) ==
    f = [k \in 1 .. n |-> IF k = 1 THEN Beyond(E, {x}, direction) ELSE f[k - 1] \cup Beyond(E, f[k - 1], direction)]

LEMMA WalksExist ==
    ASSUME NEW E, NEW x, NEW direction, NEW n \in Nat
    PROVE  \E f : AreWalks(f, E, x, direction, n)
<1> DEFINE first == Beyond(E, {x}, direction)
           Step(ends) == ends \cup Beyond(E, ends, direction)
           Are(f, m) == f = [k \in 1 .. m |-> IF k = 1 THEN first ELSE Step(f[k - 1])]
           T == {m \in Nat : ~ \E f : Are(f, m)}
<1> HIDE DEF first, Step
<1>1. ASSUME T # {} PROVE FALSE
  <2>1. PICK m \in T : \A l \in T : m <= l
    <3>1. T \subseteq Nat
      OBVIOUS
    <3> HIDE DEF T
    <3> QED
      BY <1>1, <3>1, LeastExists
  <2>2. m \in Nat /\ ~ \E f : Are(f, m)
    OBVIOUS
  <2>3. CASE m \in {0, 1}
    <3> DEFINE f == [k \in 1 .. m |-> first]
    <3>1. Are(f, m)
      BY <2>3
    <3> QED
      BY <2>2, <3>1
  <2>4. CASE m \notin {0, 1}
    <3>1. m - 1 \in Nat \ {0} /\ m - 1 \notin T
      BY <2>1, <2>2, <2>4
    <3>2. PICK g : Are(g, m - 1)
      BY <3>1
    <3> DEFINE f == [k \in 1 .. m |-> IF k = m THEN Step(g[m - 1]) ELSE g[k]]
               h == [k \in 1 .. m |-> IF k = 1 THEN first ELSE Step(f[k - 1])]
    <3>3. g[1] = first
      BY <2>2, <3>1, <3>2
    <3>4. \A k \in 2 .. m - 1 : g[k] = Step(g[k - 1])
      BY <2>2, <3>1, <3>2
    <3> HIDE DEF Are
    <3>5. ASSUME NEW k \in 1 .. m PROVE f[k] = h[k]
      <4>1. CASE k = 1
        BY <2>2, <2>4, <3>3, <4>1
      <4>2. CASE k \in 2 .. m - 1
        <5>1. f[k] = g[k] /\ f[k - 1] = g[k - 1]
          BY <2>2, <4>2
        <5>2. h[k] = Step(f[k - 1])
          BY <2>2, <4>2
        <5> QED
          BY <3>4, <4>2, <5>1, <5>2
      <4>3. CASE k = m
        <5>1. f[k] = Step(g[m - 1]) /\ f[k - 1] = g[m - 1]
          BY <2>2, <2>4, <4>3
        <5>2. h[k] = Step(f[k - 1])
          BY <2>2, <2>4, <4>3
        <5> QED
          BY <5>1, <5>2
      <4> QED
        BY <2>2, <4>1, <4>2, <4>3
    <3>6. f = h
      BY <3>5
    <3>7. Are(f, m)
      BY <3>6 DEF Are
    <3> QED
      BY <2>2, <3>7
  <2> QED
    BY <2>3, <2>4
<1>2. \E f : Are(f, n)
  BY <1>1
<1> QED
  BY <1>2 DEF AreWalks, first, Step

LEMMA WalksAre ==
    ASSUME NEW E, NEW x, NEW direction, NEW n \in Nat \ {0}
    PROVE  LET W == Walks(E, x, direction, n)
           IN  /\ W[1] = Beyond(E, {x}, direction)
               /\ \A k \in 2 .. n : W[k] = W[k - 1] \cup Beyond(E, W[k - 1], direction)
<1> DEFINE W == Walks(E, x, direction, n)
           first == Beyond(E, {x}, direction)
           Step(ends) == ends \cup Beyond(E, ends, direction)
<1>1. W = [k \in 1 .. n |-> IF k = 1 THEN first ELSE Step(W[k - 1])]
  <2>1. W = CHOOSE f : AreWalks(f, E, x, direction, n)
    BY DEF Walks, AreWalks
  <2>2. \E f : AreWalks(f, E, x, direction, n)
    BY WalksExist
  <2> HIDE DEF W
  <2>3. AreWalks(W, E, x, direction, n)
    BY <2>1, <2>2, Zenon
  <2> QED
    BY <2>3 DEF AreWalks
<1> HIDE DEF W, first, Step
<1>2. W[1] = first
  BY <1>1
<1>3. ASSUME NEW k \in 2 .. n PROVE W[k] = Step(W[k - 1])
  <2>1. k \in 1 .. n /\ k # 1
    OBVIOUS
  <2> QED
    BY <1>1, <2>1
<1> QED
  BY <1>2, <1>3 DEF W, first, Step

LEMMA WalksAgree ==
    ASSUME NEW E, NEW x, NEW direction, NEW m \in Nat \ {0}, NEW n \in Nat \ {0},
           NEW k \in Nat \ {0}, k <= m, k <= n
    PROVE  Walks(E, x, direction, m)[k] = Walks(E, x, direction, n)[k]
<1> DEFINE W(i) == Walks(E, x, direction, i)
           Step(ends) == ends \cup Beyond(E, ends, direction)
           T == {j \in Nat \ {0} : \E a, b \in Nat \ {0} : j <= a /\ j <= b /\ W(a)[j] # W(b)[j]}
<1>1. ASSUME NEW a \in Nat \ {0}
      PROVE  /\ W(a)[1] = Beyond(E, {x}, direction)
             /\ \A j \in 2 .. a : W(a)[j] = Step(W(a)[j - 1])
  BY WalksAre
<1> HIDE DEF W, Step
<1>2. ASSUME T # {} PROVE FALSE
  <2>1. PICK j \in T : \A l \in T : j <= l
    <3>1. T \subseteq Nat
      OBVIOUS
    <3> HIDE DEF T
    <3> QED
      BY <1>2, <3>1, LeastExists
  <2>2. PICK a \in Nat \ {0}, b \in Nat \ {0} : j <= a /\ j <= b /\ W(a)[j] # W(b)[j]
    OBVIOUS
  <2>3. j # 1
    BY <1>1, <2>2
  <2>4. j \in 2 .. a /\ j \in 2 .. b
    BY <2>2, <2>3
  <2>5. W(a)[j] = Step(W(a)[j - 1]) /\ W(b)[j] = Step(W(b)[j - 1])
    BY <1>1, <2>4
  <2>6. W(a)[j - 1] = W(b)[j - 1]
    <3>1. j - 1 \in Nat \ {0} /\ j - 1 \notin T /\ j - 1 <= a /\ j - 1 <= b
      BY <2>1, <2>4
    <3> QED
      BY <3>1
  <2> QED
    BY <2>2, <2>5, <2>6
<1> QED
  BY <1>2 DEF W

\* Walks of one edge, and of one more.
LEMMA FirstWalks ==
    ASSUME NEW E, NEW x, NEW direction
    PROVE  WalkEnds(E, x, direction, 1) = Beyond(E, {x}, direction)
<1>1. 1 \in Nat \ {0}
  OBVIOUS
<1> QED
  BY <1>1, WalksAre DEF WalkEnds

LEMMA NextWalks ==
    ASSUME NEW E, NEW x, NEW direction, NEW n \in Nat \ {0}, NEW N \in Nat, N = n + 1
    PROVE  WalkEnds(E, x, direction, N) =
             WalkEnds(E, x, direction, n) \cup Beyond(E, WalkEnds(E, x, direction, n), direction)
<1> DEFINE W(i) == Walks(E, x, direction, i)
           Step(ends) == ends \cup Beyond(E, ends, direction)
<1>1. ASSUME NEW a \in Nat \ {0}
      PROVE  /\ W(a)[1] = Beyond(E, {x}, direction)
             /\ \A j \in 2 .. a : W(a)[j] = Step(W(a)[j - 1])
  BY WalksAre
<1>2. W(N)[n] = W(n)[n]
  <2>1. N \in Nat \ {0} /\ n <= N /\ n <= n
    OBVIOUS
  <2> QED
    BY <2>1, WalksAgree
<1> HIDE DEF W, Step
<1>3. N \in Nat \ {0} /\ N \in 2 .. N /\ N - 1 = n
  OBVIOUS
<1>4. W(N)[N] = Step(W(n)[n])
  BY <1>1, <1>2, <1>3
<1> QED
  BY <1>4 DEF W, Step, WalkEnds

\* What lies beyond some nodes lies beyond one of them.
LEMMA BeyondJoins ==
    ASSUME NEW E, NEW S, NEW T, NEW direction
    PROVE  /\ Beyond(E, S \cup T, direction) = Beyond(E, S, direction) \cup Beyond(E, T, direction)
           /\ S \subseteq T => Beyond(E, S, direction) \subseteq Beyond(E, T, direction)
           /\ Beyond(E, {}, direction) = {}
<1>1. CASE direction = "upstream"
  BY <1>1 DEF Beyond
<1>2. CASE direction # "upstream"
  BY <1>2 DEF Beyond
<1> QED
  BY <1>1, <1>2

\* The first step is among the ends of all walks, and every other end lies
\* beyond an end.
LEMMA WalksStart ==
    ASSUME NEW E, NEW x, NEW direction, NEW n \in Nat \ {0}
    PROVE  LET W(i) == WalkEnds(E, x, direction, i)
           IN  /\ Beyond(E, {x}, direction) \subseteq W(n)
               /\ W(n) \subseteq Beyond(E, {x}, direction) \cup Beyond(E, W(n), direction)
<1> DEFINE W(i) == WalkEnds(E, x, direction, i)
           B(S) == Beyond(E, S, direction)
           Good(i) == B({x}) \subseteq W(i) /\ W(i) \subseteq B({x}) \cup B(W(i))
           T == {i \in Nat \ {0} : ~ Good(i)}
<1>1. W(1) = B({x})
  BY FirstWalks
<1>2. ASSUME NEW i \in Nat \ {0}, NEW m \in Nat, m = i + 1 PROVE W(m) = W(i) \cup B(W(i))
  BY <1>2, NextWalks
<1>3. ASSUME NEW S, NEW U, S \subseteq U PROVE B(S) \subseteq B(U)
  BY <1>3, BeyondJoins
<1> HIDE DEF W, B
<1>4. ASSUME T # {} PROVE FALSE
  <2>1. PICK m \in T : \A l \in T : m <= l
    <3>1. T \subseteq Nat
      OBVIOUS
    <3> HIDE DEF T
    <3> QED
      BY <1>4, <3>1, LeastExists
  <2>2. m # 1
    BY <1>1
  <2> DEFINE i == m - 1
  <2>3. i \in Nat \ {0} /\ i + 1 = m /\ ~ m <= i
    BY <2>2
  <2> HIDE DEF i
  <2>4. Good(i)
    BY <2>1, <2>3
  <2>5. W(m) = W(i) \cup B(W(i))
    BY <1>2, <2>3
  <2>6. B(W(i)) \subseteq B(W(m))
    BY <1>3, <2>5
  <2> QED
    BY <2>4, <2>5, <2>6
<1> QED
  BY <1>4 DEF W, B

\* Expanding every node once meets the ends of all walks, and the start.
LEMMA LayersMeetWalks ==
    ASSUME NEW E, NEW x, NEW direction, NEW n \in Nat
    PROVE  LET layer == Layers(E, x, direction, n)[n]
           IN  /\ layer.seen = IF n = 0 THEN {x} ELSE {x} \cup WalkEnds(E, x, direction, n)
               /\ layer.front \subseteq layer.seen
               /\ Beyond(E, layer.seen \ layer.front, direction) \subseteq layer.seen
<1> DEFINE W(i) == WalkEnds(E, x, direction, i)
           B(S) == Beyond(E, S, direction)
           L(i) == Layers(E, x, direction, i)[i]
           Good(i) == /\ L(i).seen = IF i = 0 THEN {x} ELSE {x} \cup W(i)
                      /\ L(i).front \subseteq L(i).seen
                      /\ B(L(i).seen \ L(i).front) \subseteq L(i).seen
           T == {i \in Nat : ~ Good(i)}
<1>1. W(1) = B({x})
  BY FirstWalks
<1>2. ASSUME NEW i \in Nat \ {0}, NEW m \in Nat, m = i + 1
      PROVE  W(m) = W(i) \cup B(W(i)) /\ B({x}) \subseteq W(i)
  BY <1>2, NextWalks, WalksStart
<1>3. ASSUME NEW S, NEW U PROVE B(S \cup U) = B(S) \cup B(U) /\ B({}) = {}
  BY BeyondJoins
<1>4. L(0) = [front |-> {x}, seen |-> {x}]
  BY FirstLayer
<1>5. ASSUME NEW i \in Nat, NEW m \in Nat, m = i + 1
      PROVE  /\ L(m).front = B(L(i).front) \ L(i).seen
             /\ L(m).seen = L(i).seen \cup (B(L(i).front) \ L(i).seen)
  <2>1. L(m) = Further(E, L(i), direction)
    BY <1>5, NextLayer
  <2> HIDE DEF L
  <2> QED
    BY <2>1 DEF Further
<1> HIDE DEF W, B, L
<1>6. Good(0)
  <2>1. L(0).seen = {x} /\ L(0).front = {x}
    BY <1>4
  <2>2. L(0).seen \ L(0).front = {}
    BY <2>1
  <2> QED
    BY <1>3, <2>1, <2>2
<1>7. ASSUME NEW i \in Nat, Good(i), NEW m \in Nat, m = i + 1 PROVE Good(m)
  <2> DEFINE seen == L(i).seen
             front == L(i).front
             new == B(front) \ seen
  <2>1. L(m).front = new /\ L(m).seen = seen \cup new
    BY <1>5, <1>7
  <2>2. seen \cup new = seen \cup B(seen)
    <3>1. seen = (seen \ front) \cup front
      BY <1>7
    <3>2. B(seen) = B(seen \ front) \cup B(front)
      BY <1>3, <3>1
    <3> QED
      BY <1>7, <3>2
  <2>3. seen \cup B(seen) = {x} \cup W(m)
    <3>1. CASE i = 0
      <4>1. seen = {x} /\ m = 1
        BY <1>7, <3>1
      <4> QED
        BY <1>1, <4>1
    <3>2. CASE i # 0
      <4>1. seen = {x} \cup W(i)
        BY <1>7, <3>2
      <4>2. B(seen) = B({x}) \cup B(W(i))
        BY <1>3, <4>1
      <4>3. W(m) = W(i) \cup B(W(i)) /\ B({x}) \subseteq W(i)
        BY <1>7, <1>2, <3>2
      <4> QED
        BY <4>1, <4>2, <4>3
    <3> QED
      BY <3>1, <3>2
  <2>4. (seen \cup new) \ new = seen
    OBVIOUS
  <2>5. B((seen \cup new) \ new) \subseteq seen \cup new
    BY <2>2, <2>4
  <2>6. m # 0
    BY <1>7
  <2> HIDE DEF new, seen
  <2> QED
    BY <2>1, <2>2, <2>3, <2>5, <2>6
<1> HIDE DEF Good
<1>9. ASSUME T # {} PROVE FALSE
  <2>1. PICK m \in T : \A l \in T : m <= l
    <3>1. T \subseteq Nat
      OBVIOUS
    <3> HIDE DEF T
    <3> QED
      BY <1>9, <3>1, LeastExists
  <2>2. m # 0
    BY <1>6
  <2> DEFINE i == m - 1
  <2>3. i \in Nat /\ i + 1 = m /\ ~ m <= i
    BY <2>2
  <2> HIDE DEF i
  <2>4. Good(i)
    BY <2>1, <2>3
  <2> QED
    BY <1>7, <2>3, <2>4
<1> QED
  BY <1>9 DEF Good, W, B, L

\* The traversal reports the ends of all walks, although it expands every node
\* once; and what it expands is its start and the ends of all shorter walks.
LEMMA AffectedIsReachable ==
    ASSUME NEW E, NEW x, NEW direction, NEW n \in Nat \ {0}
    PROVE  /\ Affected(E, x, direction, n) = WalkEnds(E, x, direction, n)
           /\ Expanded(E, x, direction, n + 1) = {x} \cup WalkEnds(E, x, direction, n)
<1> DEFINE W(i) == WalkEnds(E, x, direction, i)
           B(S) == Beyond(E, S, direction)
           M(i) == Met(E, x, direction, i)
<1>1. M(0) = {x} /\ \A i \in Nat \ {0} : M(i) = {x} \cup W(i)
  BY LayersMeetWalks DEF Met
<1>2. W(1) = B({x})
  BY FirstWalks
<1>3. ASSUME NEW i \in Nat \ {0}, NEW m \in Nat, m = i + 1
      PROVE  W(m) = W(i) \cup B(W(i)) /\ B({x}) \subseteq W(i) /\ W(i) \subseteq B({x}) \cup B(W(i))
  BY <1>3, NextWalks, WalksStart
<1>4. ASSUME NEW S, NEW U PROVE B(S \cup U) = B(S) \cup B(U)
  BY BeyondJoins
<1>5. Expanded(E, x, direction, n + 1) = M(n)
  BY DEF Expanded
<1>6. Affected(E, x, direction, n) = B(M(n - 1))
  BY DEF Affected, Expanded
<1> HIDE DEF W, B, M
<1>7. B(M(n - 1)) = W(n)
  <2>1. CASE n = 1
    BY <1>1, <1>2, <2>1
  <2>2. CASE n # 1
    <3> DEFINE i == n - 1
    <3>1. i \in Nat \ {0} /\ i + 1 = n
      BY <2>2
    <3> HIDE DEF i
    <3>2. M(i) = {x} \cup W(i)
      BY <1>1, <3>1
    <3>3. B(M(i)) = B({x}) \cup B(W(i))
      BY <1>4, <3>2
    <3>4. W(n) = B({x}) \cup B(W(i))
      BY <1>3, <3>1
    <3> QED
      BY <3>3, <3>4 DEF i
  <2> QED
    BY <2>1, <2>2
<1> QED
  BY <1>1, <1>5, <1>6, <1>7 DEF W

\* Dependency impact is cut at the edges nobody resolved, and reports each of
\* them that it comes to.
LEMMA ResolvedImpactIsReachable ==
    ASSUME NEW E, NEW observed, NEW x, NEW direction
    PROVE  CutWhereUnresolved(E, observed, x, direction)
<1> DEFINE impact == ResolvedImpact(E, observed, x, direction)
           dependencies == {e \in E : e.type \in DependencyTypes}
           crossed == {e \in dependencies : EdgeIsResolved(e, observed)}
           met == {x} \cup WalkEnds(crossed, x, direction, Depth - 1)
           near(e) == IF direction = "upstream" THEN e.source ELSE e.target
<1>1. /\ impact.affected = Affected(crossed, x, direction, Depth)
      /\ impact.unresolved = {e \in dependencies \ crossed : near(e) \in Expanded(crossed, x, direction, Depth)}
  BY DEF ResolvedImpact
<1>2. Depth = 10
  BY DEF Depth
<1> HIDE DEF impact, dependencies, crossed
<1>3. Affected(crossed, x, direction, Depth) = WalkEnds(crossed, x, direction, Depth)
  <2>1. Depth \in Nat \ {0}
    BY <1>2
  <2> QED
    BY <2>1, AffectedIsReachable
<1>4. Expanded(crossed, x, direction, Depth) = met
  <2>1. 9 \in Nat \ {0} /\ 9 + 1 = Depth /\ Depth - 1 = 9
    BY <1>2
  <2>2. ASSUME NEW n \in Nat \ {0}
        PROVE  Expanded(crossed, x, direction, n + 1) = {x} \cup WalkEnds(crossed, x, direction, n)
    BY AffectedIsReachable
  <2>3. Expanded(crossed, x, direction, 9 + 1) = {x} \cup WalkEnds(crossed, x, direction, 9)
    BY <2>1, <2>2
  <2> QED
    BY <2>1, <2>3
<1>5. ASSUME NEW e PROVE Beyond({e}, met, direction) # {} <=> near(e) \in met
  <2> HIDE DEF met
  <2>1. CASE direction = "upstream"
    BY <2>1 DEF Beyond
  <2>2. CASE direction # "upstream"
    BY <2>2 DEF Beyond
  <2> QED
    BY <2>1, <2>2
<1> HIDE DEF met, near
<1>6. impact.unresolved = {e \in dependencies \ crossed : Beyond({e}, met, direction) # {}}
  BY <1>1, <1>4, <1>5
<1> QED
  BY <1>1, <1>3, <1>6 DEF CutWhereUnresolved, impact, dependencies, crossed, met

\* Every traversal of a compilation reports exactly what can be reached.
LEMMA ImpactOfTheResult == ASSUME CompilationInv PROVE ImpactIsReachability
<1> SUFFICES ASSUME result # Absent, result.status # "refused" PROVE ImpactIsReachability
  BY DEF ImpactIsReachability
<1> DEFINE t == result.topology
           R == result.packets
<1>1. t = Compiled(R, result.corpora)
  BY DEF CompilationInv, IsAttempt
<1>2. t.impacts = {[subject |-> id, affected |-> Impact(t.edges, id)] : id \in RepositoryIds(R)}
  BY <1>1 DEF Compiled
<1> HIDE DEF t, R
<1>3. ASSUME NEW E, NEW x, NEW direction, NEW n \in Nat \ {0}
      PROVE  Affected(E, x, direction, n) = WalkEnds(E, x, direction, n)
  BY AffectedIsReachable
<1>4. ASSUME NEW impact \in t.impacts
      PROVE  impact.affected = WalkEnds(Traversable(t.edges), impact.subject, "downstream", Depth)
  <2>1. PICK id \in RepositoryIds(R) : impact = [subject |-> id, affected |-> Impact(t.edges, id)]
    BY <1>2
  <2>2. impact.subject = id /\ impact.affected = Affected(Traversable(t.edges), id, "downstream", Depth)
    BY <2>1 DEF Impact
  <2>3. Depth \in Nat \ {0}
    BY DEF Depth
  <2> QED
    BY <1>3, <2>2, <2>3
<1>5. ASSUME NEW x, NEW direction, NEW n \in 1 .. 3
      PROVE  Affected(Traversable(t.edges), x, direction, n) = WalkEnds(Traversable(t.edges), x, direction, n)
  <2>1. n \in Nat \ {0}
    OBVIOUS
  <2> QED
    BY <1>3, <2>1
<1> QED
  BY <1>4, <1>5, ResolvedImpactIsReachable DEF ImpactIsReachability, t

\* The impact a compilation reports is the reachability it stands for.
THEOREM CompilationImpact == Spec => []ImpactIsReachability
  BY CompilationInvariant, ImpactOfTheResult, PTL

=============================================================================
