------------------------- MODULE TopologyValidation -------------------------
(***************************************************************************)
(* The validation of a compiled topology.  A failed check is known by its  *)
(* name; one of them is enough for nothing to be committed.                 *)
(*                                                                         *)
(* A topology t is the record Compiled builds: what it was compiled from,  *)
(* and every domain of the packet.                                         *)
(***************************************************************************)
EXTENDS Assessment

-----------------------------------------------------------------------------
(* Checks of the state alone.                                               *)

RepeatedArtifact(R) == \E i, j \in DOMAIN R : i # j /\ DOMAIN R[i].docs \cap DOMAIN R[j].docs # {}

RepeatedFlow(E) == \E e, f \in FlowSources(E) : e # f /\ FlowId(e) = FlowId(f)

\* The nodes beside the canonical ones, once for every record.
CandidateRecords(C) ==
    LET ids(c, f) == [i \in DOMAIN c.payload[f] |-> c.payload[f][i].id]
    IN  Concatenated(C, LAMBDA c : ids(c, "topic_candidates") \o ids(c, "project_candidates")
                                     \o ids(c, "consolidation_candidates") \o ids(c, "semantic_pair_relations"))

RepeatedNode(R, C) ==
    \/ ~ Distinct(CandidateRecords(C))
    \/ CandidateNodes(C) \cap GraphNodes(R, C) # {}

\* Two records of one capability.
RepeatedCapability(R, C) ==
    \E k, l \in Capabilities(R, C) : k # l /\ k.id = l.id

\* A risk is known by its subject and rule, and a profile may hold two rules
\* (or two versions) of one id.
RepeatedRisk(R) ==
    \E id \in RepositoryIds(R) : \E p, q \in RiskRules :
        p # q /\ p.id = q.id /\ Triggered(R, id, p) /\ Triggered(R, id, q)

\* A diagnostic is known by what its producer calls it, or else by its packet
\* and its position there.
DiagnosticId(R, i, k) ==
    LET d == R[i].diagnostics[k]
    IN  IF d.id # Absent THEN [given |-> d.id] ELSE [packet |-> R[i].id, index |-> k, raw |-> d]

DeclaredTwice(R) ==
    \E i, j \in DOMAIN R : \E k \in DOMAIN R[i].diagnostics, l \in DOMAIN R[j].diagnostics :
        LET d == R[i].diagnostics[k]
            e == R[j].diagnostics[l]
        IN  /\ i # j \/ k # l
            /\ BearsUnknown(d) /\ BearsUnknown(e)
            /\ DiagnosticId(R, i, k) = DiagnosticId(R, j, l)
            /\ d.subject = e.subject /\ DeclaredField(d) = DeclaredField(e)

NotRunTwice(C) ==
    \E i, j \in DOMAIN C :
        i # j /\ C[i].id = C[j].id /\ C[i].corpus = C[j].corpus /\ NotRun(C[i]) \cap NotRun(C[j]) # {}

\* An unsupported predicate and a field of undeclared cardinality are known by
\* subject, name and values alike.
UnknownBothWays(R, C) ==
    LET docs == Pool(R, C)
        facts == Facts(R, C)
        values(c) == {f.value : f \in {g \in facts : g.subject = c.subject /\ g.field = c.predicate}}
    IN  \E c \in Claims(docs) :
            /\ c.predicate \notin SupportedPredicates
            /\ Unknown(c.subject, c.predicate, "cardinality") \in FieldUnknowns(facts)
            /\ values(c) = Answers(docs, c)

\* Every source of unknowns adds its own to one list.
RepeatedUnknown(R, C) == DeclaredTwice(R) \/ NotRunTwice(C) \/ UnknownBothWays(R, C)

\* Of several observations the first gives the record its revision.
WithoutRevision(R) ==
    \E id \in RepositoryIds(R) : FirstIn(R, Observing(R, id)).revision = Absent

DanglingEdge(R, C, E) ==
    LET nodes == GraphNodes(R, C) \cup CandidateNodes(C)
    IN  \E e \in E : ~ {e.source, e.target} \subseteq nodes

DanglingEvidence(R, C) ==
    \/ \E r \in Elements(R) : r.cites = "missing"
    \/ \E c \in Elements(C) : \E k \in Candidates(c) \cup Records(c, "semantic_pair_relations") : k.dangling

\* Dependency cycles are looked for and reported, and fail nothing.
Cyclic(E) == {e.source : e \in {x \in FlowSources(E) :
                x.source \in Affected(FlowSources(E), x.source, "upstream", Cardinality(FlowSources(E)))}}

\* Repositories, claims, conflicts and edges are built one for each key of a
\* map, so that the checks of their identities, which are left out, pass.
StateFailures(R, C, E) ==
    {check \in {"unique-artifact-ids", "unique-capability-ids", "unique-flow-ids", "unique-graph-ids",
                "unique-risk-ids", "unique-unknown-ids", "edge-endpoints", "source-revisions", "portable-paths",
                "blocking-conflicts", "references-resolve", "canonical-claims-backed", "inference-labeling"} :
        CASE check = "unique-artifact-ids" -> RepeatedArtifact(R)
          [] check = "unique-capability-ids" -> RepeatedCapability(R, C)
          [] check = "unique-flow-ids" -> RepeatedFlow(E)
          [] check = "unique-graph-ids" -> RepeatedNode(R, C)
          [] check = "unique-risk-ids" -> RepeatedRisk(R)
          [] check = "unique-unknown-ids" -> RepeatedUnknown(R, C)
          [] check = "source-revisions" -> WithoutRevision(R)
          [] check = "portable-paths" -> \E d \in Carried(R) : Path[d] \notin Portable
          [] check = "edge-endpoints" -> DanglingEdge(R, C, E)
          [] check = "blocking-conflicts" -> \E x \in AllConflicts(R, C) : x.blocking
          [] check = "references-resolve" -> DanglingEvidence(R, C)
          [] check = "canonical-claims-backed" ->
                \/ \E r \in Elements(R) : r.cites = "none"
                \/ \E k \in Capabilities(R, C) : ~ k.backed
          [] OTHER -> \E r \in Elements(R) : r.cites = "mislabelled"}

-----------------------------------------------------------------------------
(* Checks of the topology against the packets it is said to come from.      *)

InputRef(r) == [id |-> r.id, hash |-> r.hash, revision |-> r.snapshot, status |-> r.status]

\* Of several with one identity the last one is looked at, on either side.
IsLastOf(s, k) == \A j \in DOMAIN s : s[j].id = s[k].id => j <= k

Mismatched(inputs, R) ==
    \E i \in DOMAIN inputs, k \in DOMAIN R :
        /\ IsLastOf(inputs, i) /\ IsLastOf(R, k) /\ inputs[i].id = R[k].id
        /\ \/ inputs[i].hash # R[k].hash
           \/ inputs[i].revision # R[k].snapshot
           \/ inputs[i].status # "passed"

Diagnosed(P) == UNION {{<<r.id, k, r.diagnostics[k]>> : k \in DOMAIN r.diagnostics} : r \in P}

\* The statements that repository packets carry, by identity.
ReadIn(P) == UNION {UNION {{<<d, s>> : s \in r.docs[d].says} : d \in DOMAIN r.docs} : r \in P}

\* Broken variant: the statements of the corpus are not counted.
StatedByRepositories(P, C) == ReadIn(P)

\* The statements the inputs make.
Stated(P, C) == ReadIn(P) \cup {s.id : s \in SignalsOf(C)}

CrossFailures(t, R, C) ==
    LET P == Elements(R)
    IN  {check \in {"diagnostic-conservation", "assertion-conservation", "input-packet-set",
                "parent-validation", "input-reference-integrity"} :
        CASE check = "diagnostic-conservation" ->
                \/ Cardinality(Diagnosed(P)) # Cardinality(t.diagnostics)
                \/ ~ {d[1] : d \in Diagnosed(P)} \subseteq {d[1] : d \in t.diagnostics}
          [] check = "assertion-conservation" ->
                Stated(P, C) # t.cited \/ ~ Stated(P, C) \subseteq t.evidenced
          [] check = "input-packet-set" -> {r.id : r \in P} # {i.id : i \in Elements(t.inputs)}
          [] check = "parent-validation" -> \E r \in P : r.status # "passed"
          [] OTHER -> Mismatched(t.inputs, R)}

-----------------------------------------------------------------------------
(* The topology of R and C.                                                 *)

\* The statements the claims cite: every statement of a claim, whoever read it.
Cited(R, C) ==
    (UNION {UNION {{<<d, s>> : s \in {x \in r.docs[d].says : x \in Claims(Pool(R, C))}} : d \in DOMAIN r.docs} :
             r \in Elements(R)})
        \cup {s.id : s \in {x \in SignalsOf(C) : x.says \in Claims(Pool(R, C))}}

\* Every statement has an evidence record of its own.
Evidenced(R, C) == ReadIn(Elements(R)) \cup {s.id : s \in SignalsOf(C)}

ProjectedClaims(docs) == WorkClaims(docs) \cup ReferenceClaims(docs) \cup CapabilityClaims(docs)

ClaimRecord(docs, c) ==
    [says |-> c, status |-> ConflictStatus(docs, c), projected |-> c \in ProjectedClaims(docs),
     read |-> {Class[d] : d \in Support(docs, c)}, level |-> {Level[d] : d \in Support(docs, c)},
     places |-> {[path |-> Path[d], edition |-> docs[d].edition] : d \in Support(docs, c)}]

View(R, C) ==
    [docs |-> Pool(R, C), edges |-> GraphEdges(R, C), conflicts |-> AllConflicts(R, C), unknowns |-> AllUnknowns(R, C)]

Compiled(R, C) ==
    LET v == View(R, C)
    IN  [inputs       |-> [i \in DOMAIN R |-> InputRef(R[i])],
         corpora      |-> {c.id : c \in Elements(C)},
         repositories |-> {[id |-> id, primary |-> PrimaryRole(R, id), secondary |-> SecondaryRoles(R, id),
                            upstream |-> Upstream(R, id), downstream |-> Downstream(R, id)] : id \in RepositoryIds(R)},
         artifacts    |-> Carried(R),
         capabilities |-> Capabilities(R, C),
         claims       |-> {ClaimRecord(v.docs, c) : c \in Claims(v.docs)},
         edges        |-> v.edges,
         nodes        |-> GraphNodes(R, C),
         risks        |-> Risks(R),
         maturity     |-> Maturity(R, C),
         impacts      |-> {[subject |-> id, affected |-> Impact(v.edges, id)] : id \in RepositoryIds(R)},
         clusters     |-> Clustered(v, C),
         thin         |-> UNION {{m.id : m \in {x \in Records(c, "readiness_evidence") : Thin(x)}} : c \in Elements(C)},
         routed       |-> Routed(v, C),
         diagnostics  |-> Diagnosed(Elements(R)),
         cited        |-> Cited(R, C),
         evidenced    |-> Evidenced(R, C),
         cycles       |-> Cyclic(v.edges),
         conflicts    |-> v.conflicts,
         unknowns     |-> v.unknowns]

Failures(t, R, C) == StateFailures(R, C, t.edges) \cup CrossFailures(t, R, C)

=============================================================================
