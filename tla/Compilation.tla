---------------------------- MODULE Compilation ----------------------------
(***************************************************************************)
(* The life of a topology bundle: producers replace the packets on their   *)
(* paths, an operator compiles a selection of them and commits the result, *)
(* and readers query the committed bundle.  Every command is a process of  *)
(* its own that starts from the files; a query that needs several pages is *)
(* several processes, and between two of them the operator may move the    *)
(* bundle away and have another one committed in its place.                *)
(*                                                                         *)
(* A compilation reads its inputs and computes in one step: a packet that  *)
(* is replaced while it is read is refused by the loader, and nothing      *)
(* else is shared.                                                         *)
(***************************************************************************)
EXTENDS ClaimView

CONSTANTS
    Shelf,          \* the paths of repository packets
    CorpusShelf,    \* the paths of corpus packets
    Catalogue,      \* the packets that may come to lie at each path
    FirstEditions,  \* the packets that lie there at first
    Selections,     \* what operators compile: [packets, corpora], paths in order
    Queries,        \* the queries of readers, from the first page
    MaxProduced,
    MaxCompiles

ASSUME CompilationAssumption ==
    /\ MaxProduced \in Nat /\ MaxCompiles \in Nat
    /\ \A path \in CorpusShelf : \A c \in Catalogue[path] :
         /\ CorpusPacketWellFormed(c)
         /\ {s.says : s \in Records(c, "document_work_signals")} \subseteq DOMAIN ClaimRank
    /\ \A path \in Shelf : \A r \in Catalogue[path] :
         /\ RepositoryPacketWellFormed(r)
         /\ \A d \in DOMAIN r.docs : r.docs[d].says \subseteq DOMAIN ClaimRank
    /\ \A path \in Shelf \cup CorpusShelf : FirstEditions[path] \in Catalogue[path]
    /\ \A s \in Selections : s.packets \in Seq(Shelf) /\ s.corpora \in Seq(CorpusShelf)
    /\ \A q \in Queries : q \in ClaimQuery /\ q.after = 0

VARIABLES
    shelf,          \* the packet at each path
    result,         \* the last compilation, if its process still holds one
    bundle,         \* the compilation that was committed last
    session,        \* a reader's query with the pages returned so far, in order
    produced, compiles

vars == <<shelf, result, bundle, session, produced, compiles>>

Nobody == [query |-> Absent, returned |-> << >>, versions |-> {}, open |-> FALSE]

Init ==
    /\ shelf = FirstEditions
    /\ result = Absent
    /\ bundle = Absent
    /\ session = Nobody
    /\ produced = 0 /\ compiles = 0

\* A producer publishes another edition of its packet.
Produce(path, packet) ==
    /\ produced < MaxProduced
    /\ packet # shelf[path]
    /\ shelf' = [shelf EXCEPT ![path] = packet]
    /\ produced' = produced + 1
    /\ UNCHANGED <<result, bundle, session, compiles>>

At(paths) == [i \in DOMAIN paths |-> shelf[paths[i]]]

\* Refused: no input, or a corpus packet that does not fit them.  Invalid: the
\* compiled topology fails a check.  Either way nothing is returned to commit.
Attempt(R, C) ==
    IF R = << >> \/ ~ CorpusInputsAccepted(R, C)
    THEN [packets |-> R, corpora |-> C, status |-> "refused", topology |-> Absent, failures |-> {}]
    ELSE LET t == Compiled(R, C)
             failures == Failures(t, R, C)
         IN  [packets |-> R, corpora |-> C, status |-> IF failures = {} THEN "passed" ELSE "invalid",
              topology |-> t, failures |-> failures]

Compile(selection) ==
    /\ compiles < MaxCompiles
    /\ result = Absent
    /\ result' = Attempt(At(selection.packets), At(selection.corpora))
    /\ compiles' = compiles + 1
    /\ UNCHANGED <<shelf, bundle, session, produced>>

\* Broken variant: what was compiled is committed, whatever its receipt says.
CommitAnything ==
    /\ result # Absent
    /\ result.status # "refused"
    /\ bundle' = result
    /\ result' = Absent
    /\ UNCHANGED <<shelf, session, produced, compiles>>

\* commit_compilation.  The sink replaces no bundle: where there is one, the
\* operator has moved it away, and the readers find the new one there.
Commit ==
    /\ result # Absent
    /\ result.status = "passed"
    /\ bundle' = result
    /\ result' = Absent
    /\ UNCHANGED <<shelf, session, produced, compiles>>

\* The process reports its failure, or the sink finds a bundle that nobody has
\* moved away.
End ==
    /\ result # Absent
    /\ result' = Absent
    /\ UNCHANGED <<shelf, bundle, session, produced, compiles>>

Ask(query) ==
    /\ bundle # Absent
    /\ session = Nobody
    /\ session' = [query |-> query, returned |-> << >>, versions |-> {}, open |-> TRUE]
    /\ UNCHANGED <<shelf, result, bundle, produced, compiles>>

\* The next page, of whatever lies in the output directory now.
NextPage ==
    LET page == Page(bundle.topology, session.query)
    IN  /\ session.open
        /\ session' = [query    |-> [session.query EXCEPT !.after = IF page.truncated THEN page.next_after ELSE @],
                       returned |-> Append(session.returned, Says(page.claims)),
                       versions |-> session.versions \cup {Says(Matched(bundle.topology, session.query))},
                       open     |-> page.truncated]
        /\ UNCHANGED <<shelf, result, bundle, produced, compiles>>

Next ==
    \/ \E path \in Shelf \cup CorpusShelf : \E packet \in Catalogue[path] : Produce(path, packet)
    \/ \E selection \in Selections : Compile(selection)
    \/ Commit
    \/ End
    \/ \E query \in Queries : Ask(query)
    \/ NextPage

Spec == Init /\ [][Next]_vars

-----------------------------------------------------------------------------
(* Validating the committed bundle once more, against packets: the state    *)
(* is checked again, and the corpus packets are not passed on.              *)

Revalidation(b, R) ==
    StateFailures(b.packets, b.corpora, b.topology.edges) \cup CrossFailures(b.topology, R, << >>)

-----------------------------------------------------------------------------
(* Properties.                                                              *)

Editions(paths) == UNION {Catalogue[path] : path \in paths}

\* Every variable has its type: packets are editions that were on the path, a
\* refusal has no topology and any other result that of its packets, and what
\* is committed passed.
CompilationTypeOK ==
    /\ \A path \in Shelf \cup CorpusShelf : shelf[path] \in Catalogue[path]
    /\ \A a \in {result, bundle} \ {Absent} :
         /\ Elements(a.packets) \subseteq Editions(Shelf)
         /\ Elements(a.corpora) \subseteq Editions(CorpusShelf)
         /\ a.status \in {"refused", "invalid", "passed"}
         /\ a.status = "refused" => a.topology = Absent
         /\ a.status # "refused" => a.topology.inputs = [i \in DOMAIN a.packets |-> InputRef(a.packets[i])]
         /\ a.failures = {} <=> a.status # "invalid"
    /\ bundle # Absent => bundle.status = "passed"
    /\ session.open => bundle # Absent
    /\ produced \in 0 .. MaxProduced /\ compiles \in 0 .. MaxCompiles

\* What the packets name, be it there or not.
Named(R, C) ==
    (UNION {r.upstream : r \in Elements(R)})
        \cup (UNION {UNION {{e.source, e.target} : e \in r.relations} : r \in Elements(R)})
        \cup (UNION {UNION {k.by \cup k.exposed : k \in Elements(r.declares)} : r \in Elements(R)})
        \cup {c.subject : c \in Claims(Pool(R, C))}
        \cup ({root.repository : root \in Elements(Roots(C))} \ {Absent})

Unobserved(R, C) ==
    Named(R, C) \ (RepositoryIds(R) \cup Carried(R) \cup {k.id : k \in Capabilities(R, C)}
                      \cup UNION {r.owners : r \in Elements(R)})

\* The ends of every dependency that somebody states, one for each statement.
Dependencies(R, C) ==
    LET docs == Pool(R, C)
    IN  (UNION {{<<e, e.source, e.target>> : e \in {x \in r.relations : x.type = "DEPENDS_ON"}} : r \in Elements(R)})
          \cup (UNION {{<<[upstream |-> u], id, u>> : u \in Upstream(R, id)} : id \in RepositoryIds(R)})
          \cup {<<c, c.subject, WorkTarget(docs, c.object)>> :
                  c \in {x \in WorkClaims(docs) : x.predicate = "work.depends_on"}}

StatedTwice(R, C) ==
    \E e, f \in Dependencies(R, C) : e[1] # f[1] /\ e[2] = f[2] /\ e[3] = f[3]

ListedOnlyByArtifacts(R) ==
    \E r \in Elements(R) : \E d \in DOMAIN r.docs :
        r.docs[d].offers \ ((UNION {o.offers : o \in Elements(R)}) \cup DeclaredIds(R)) # {}

\* The identities of entities that no packet may give to a candidate.
Taken(R, C) ==
    ListedIds(R) \cup CorpusIds(C) \cup RootIds(C) \cup UNION {r.owners : r \in Elements(R)}

\* One packet given twice, or two editions of it.
GivenTwice(packets) == \E i, j \in DOMAIN packets : i # j /\ packets[i].id = packets[j].id

\* Two diagnostics that their producers call alike.
NamedAlike(R) ==
    \E i, j \in DOMAIN R : \E k \in DOMAIN R[i].diagnostics, l \in DOMAIN R[j].diagnostics :
        (i # j \/ k # l) /\ R[i].diagnostics[k].id = R[j].diagnostics[l].id /\ R[i].diagnostics[k].id # Absent

\* A name that no registry knows is used for a field and for a predicate.
ForeignName(R, C) ==
    \E f \in Facts(R, C), c \in Claims(Pool(R, C)) :
        /\ f.subject = c.subject /\ f.field = c.predicate
        /\ f.field \notin SingleFields \cup SetFields \cup SupportedPredicates

\* What the packets, or the risk profile, say when a check fails.
Reason(check, R, C) ==
    CASE check \in {"unique-artifact-ids", "blocking-conflicts"} ->
           \E i, j \in DOMAIN R : i # j /\ R[i].repository = R[j].repository
      [] check = "unique-flow-ids" -> StatedTwice(R, C)
      [] check = "unique-graph-ids" -> ~ Distinct(CandidateRecords(C)) \/ CandidateNodes(C) \cap Taken(R, C) # {}
      [] check = "edge-endpoints" -> Unobserved(R, C) # {}
      [] check = "canonical-claims-backed" -> ListedOnlyByArtifacts(R) \/ \E r \in Elements(R) : r.cites = "none"
      [] check = "references-resolve" ->
           (\E r \in Elements(R) : r.cites = "missing") \/ DanglingEvidence(<< >>, C)
      [] check = "inference-labeling" -> \E r \in Elements(R) : r.cites = "mislabelled"
      [] check = "source-revisions" -> \E r \in Elements(R) : r.revision = Absent
      [] check = "unique-risk-ids" -> \E p, q \in RiskRules : p # q /\ p.id = q.id
      [] check = "unique-unknown-ids" -> GivenTwice(R) \/ GivenTwice(C) \/ NamedAlike(R) \/ ForeignName(R, C)
      [] OTHER -> FALSE

\* A compilation of accepted packets fails only for what its packets say: two
\* of them observe one thing, one of them names what nobody observed or no
\* revision, an artifact lists a capability that nobody declares, a dependency
\* is stated twice, a candidate has the identity of something else, records
\* cite evidence that is not there, one question is declared open twice, be it
\* by a packet given twice or under one name; or for a profile with two rules
\* of one id.  What the compiler itself derives (the relations of claims and
\* duplicates, references, merged capabilities, candidates beside the graph,
\* paths, the accounting of inputs, statements and diagnostics) never fails its
\* own validation.  And a committed bundle, validated once more against the packets
\* it came from, fails only for the signals of a corpus that is not passed on.
RefusedForNamedReasons ==
    /\ result # Absent => \A check \in result.failures : Reason(check, result.packets, result.corpora)
    /\ bundle # Absent =>
         Revalidation(bundle, bundle.packets) =
             IF SignalsOf(bundle.corpora) = {} THEN {} ELSE {"assertion-conservation"}

\* The ends of all walks of one to n edges from x.
Walks(E, x, direction, n) ==
    LET ends[k \in 1 .. n] ==
            IF k = 1 THEN Beyond(E, {x}, direction) ELSE ends[k - 1] \cup Beyond(E, ends[k - 1], direction)
    IN  ends

WalkEnds(E, x, direction, n) == Walks(E, x, direction, n)[n]

\* Dependency impact is cut at the edges nobody resolved, each of which is
\* reported if the walk comes to it.
CutWhereUnresolved(E, observed, x, direction) ==
    LET impact == ResolvedImpact(E, observed, x, direction)
        dependencies == {e \in E : e.type \in DependencyTypes}
        crossed == {e \in dependencies : EdgeIsResolved(e, observed)}
        met == {x} \cup WalkEnds(crossed, x, direction, Depth - 1)
    IN  /\ impact.affected = WalkEnds(crossed, x, direction, Depth)
        /\ impact.unresolved = {e \in dependencies \ crossed : Beyond({e}, met, direction) # {}}

\* The traversal reports the ends of all walks up to its depth, the subject
\* among them if it lies on a cycle, although it expands every node once; and
\* dependency impact crosses what was resolved and nothing else.
ImpactIsReachability ==
    result # Absent /\ result.status # "refused" =>
        LET t == result.topology
            E == Traversable(t.edges)
            observed == {r.id : r \in t.repositories} \cup t.artifacts
        IN  /\ \A impact \in t.impacts : impact.affected = WalkEnds(E, impact.subject, "downstream", Depth)
            /\ \A x \in t.nodes, direction \in Directions :
                 /\ \A n \in 1..3 : Affected(E, x, direction, n) = WalkEnds(E, x, direction, n)
                 /\ CutWhereUnresolved(t.edges, observed, x, direction)

BothWays(E) == E \cup {[e EXCEPT !.source = e.target, !.target = e.source] : e \in E}

Joined(E, members) ==
    \A x \in members : members \subseteq {x} \cup WalkEnds(BothWays(E), x, "upstream", Cardinality(members))

\* Exact copies are joined, and the compiler joins nothing else as a copy; a
\* candidate is never the end of an edge that no packet drew to it, and never
\* stronger than its producer claimed; and a candidate whose members, or the
\* repositories they lie in, are disputed goes to conflict resolution, however
\* well structure explains it.
CandidatesNeverPromoted ==
    result # Absent /\ result.status # "refused" =>
        LET t == result.topology
            R == result.packets
            C == result.corpora
            copies == {e \in t.edges \ DeclaredEdges(R) : e.type = "DUPLICATE_OF"}
            disputed(k) == \/ \E x \in t.conflicts : x.subject \in k.members
                           \/ SubjectsFor(k.members) \cap ConflictedSubjects(t) # {}
        IN  /\ \A cluster \in Clusters(C) : Joined(Within(t, "DUPLICATE_OF", Members(C, cluster)), Members(C, cluster))
            /\ \A e \in copies : \E cluster \in Clusters(C) : {e.source, e.target} \subseteq Members(C, cluster)
            /\ RepeatedNode(R, C) \/ \A e \in t.edges : {e.source, e.target} \cap CandidateNodes(C) \subseteq Named(R, C)
            /\ \A k \in t.clusters : \E p \in UNION {Candidates(c) : c \in Elements(C)} :
                 /\ p.id = k.id /\ p.members = k.members
                 /\ ClassOrder[k.class] <= ClassOrder[p.class]
            /\ \A k \in t.clusters, q \in t.routed :
                 q.candidate = k.id /\ q.members = k.members /\ disputed(k) => q.type = "CONFLICT_RESOLUTION_ANALYSIS"

\* A query that looks only at what a claim says.
AboutStatements(q) ==
    q.conflict = "any" /\ q.projection = "any" /\ q.path = Absent /\ q.minimum = 0

\* A reader that follows the pages sees no claim twice and only claims that
\* matched in some topology it read; when the pages end it has seen every claim
\* that matched in all of them, although the bundle was replaced in between.
Seen == UNION Elements(session.returned)
PagesAreExact ==
    /\ \A i, j \in DOMAIN session.returned :
         i # j => session.returned[i] \cap session.returned[j] = {}
    /\ Seen \subseteq UNION session.versions
    /\ session.query # Absent /\ ~ session.open =>
         {c \in UNION session.versions : \A version \in session.versions : c \in version}
             \subseteq Seen

\* The differential of two topologies accounts for every claim of both.
DifferentialAccounts ==
    bundle # Absent /\ result # Absent /\ result.status = "passed" =>
        \A q \in {x \in Queries : AboutStatements(x)} :
            LET before == Matched(bundle.topology, q)
                after == Matched(result.topology, q)
                changes == Differential(bundle.topology, result.topology, q)
                same == {view \in before : view.says \notin {change.says : change \in changes.changed}} \ changes.removed
            IN  /\ Says(changes.removed) = Says(before) \ Says(result.topology.claims)
                /\ Says(changes.added) = Says(after) \ Says(bundle.topology.claims)
                /\ same \subseteq after

\* The report of gaps follows from the edges alone, whatever the records of
\* capabilities say: built and neither exposed nor used, exposed and not used,
\* produced and not used.
GapsFollowTheGraph ==
    bundle # Absent =>
        LET t == bundle.topology
            ends(types) == {e.target : e \in {x \in t.edges : x.type \in types}}
            used == ends({"CONSUMES"})
            exposed == ends({"EXPOSES", "ROUTES_TO"}) \cup {e.source : e \in {x \in t.edges : x.type = "ROUTES_TO"}}
            ids == {k.id : k \in t.capabilities}
            reported(type) == {gap.subject : gap \in {x \in BridgeGaps(t.edges, t.capabilities, << >>) : x.gap = type}}
        IN  /\ reported("BUILT_UNREACHABLE") = (ids \cap ends({"IMPLEMENTS"})) \ (exposed \cup used)
            /\ reported("EXPOSED_UNCONSUMED") = (ids \cap exposed) \ used
            /\ reported("ORPHAN_OUTPUT") = ends({"PRODUCES"}) \ (ids \cup used)

\* What a reader takes from the committed bundle, in pages, by comparison and in
\* the report of gaps, is exactly what the bundle says.
ReadingsAreExact == PagesAreExact /\ DifferentialAccounts /\ GapsFollowTheGraph

\* What topology/reasoning_router.py says matters most: a candidate whose
\* members are exact copies of each other, with nothing open about them, does
\* not reach a reasoner.
ExactDuplicatesAreNotRouted ==
    result # Absent /\ result.status # "refused" =>
        \A q \in result.topology.routed :
            /\ Cardinality(q.members) > 1 /\ q.signals = {}
            /\ \E cluster \in Clusters(result.corpora) : q.members \subseteq Members(result.corpora, cluster)
            => q.type = "NONE"

=============================================================================
