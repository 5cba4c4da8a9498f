--------------------------- MODULE CorpusTopology ---------------------------
(***************************************************************************)
(* What a compilation makes of its packets before anything is assessed:    *)
(* the observations of all packets in one pool, the repositories and their *)
(* dependencies, the capabilities, the scope of the corpora, the exact     *)
(* duplicates, and the canonical graph.  R and C are the repository and    *)
(* the corpus packets in the order they were given.                        *)
(***************************************************************************)
EXTENDS CorpusPackets

Seqs == INSTANCE SequencesExt

CONSTANTS
    ShortName,      \* the identity of a repository without its prefix
    RoleSignals     \* the roles a name suggests, in the order of the taxonomy

ASSUME CorpusTopologyAssumption ==
    /\ ShortName \in [Repositories -> Objects]
    /\ \A n \in DOMAIN RoleSignals : RoleSignals[n] \in Seq(STRING)

Least(S) == CHOOSE x \in S : \A y \in S : Rank[x] <= Rank[y]

Greatest(S) == CHOOSE x \in S : \A y \in S : Rank[y] <= Rank[x]

Concatenated(P, f(_)) == Seqs!FlattenSeq([i \in DOMAIN P |-> f(P[i])])

\* The first and the last element of s that belongs to S.
FirstIn(s, S) == s[CHOOSE i \in DOMAIN s : s[i] \in S /\ \A j \in DOMAIN s : s[j] \in S => i <= j]

LastIn(s, S) == s[CHOOSE i \in DOMAIN s : s[i] \in S /\ \A j \in DOMAIN s : s[j] \in S => j <= i]

-----------------------------------------------------------------------------
(* Statements: those read in documents by the repository producers and the *)
(* work signals of the corpus producers enter one reconciliation.           *)

Carried(R) == Artifacts(Elements(R))

SignalsOf(C) == UNION {Records(c, "document_work_signals") : c \in Elements(C)}

Carriers(R, d) == {r \in Elements(R) : d \in DOMAIN r.docs}

Gathered(R, C, d) ==
    [edition |-> {r.docs[d].edition : r \in Carriers(R, d)},
     says    |-> (UNION {r.docs[d].says : r \in Carriers(R, d)})
                   \cup {s.says : s \in {t \in SignalsOf(C) : t.doc = d}},
     offers  |-> UNION {r.docs[d].offers : r \in Carriers(R, d)}]

Pool(R, C) == [d \in Documents |-> IF d \in Carried(R) THEN Gathered(R, C, d) ELSE Absent]

-----------------------------------------------------------------------------
(* Evidence of fields: several values conflict, aggregate or stay unknown   *)
(* by the cardinality of the field.  Statements are judged by predicate,    *)
(* and not here.                                                            *)

SingleFields == {"name", "source_revision", "primary_role", "description", "content_hash", "artifact_type"}

SetFields == {"artifact_ids", "languages", "capability_ids", "owner_ids", "upstream_repository_ids"}

Cardinal(field) ==
    CASE field \in SingleFields -> "single"
      [] field \in SetFields -> "set"
      [] OTHER -> "unknown"

Fact(subject, field, value) == [subject |-> subject, field |-> field, value |-> value, path |-> Absent]

DuplicateFacts(c) ==
    {Fact(r.cluster, "artifact_ids", {r.a, r.b}) : r \in Records(c, "exact_duplicate_relations")}

ScopeFacts(c) ==
    {Fact(c.corpus, "corpus_source_snapshot_id", c.snapshot)}
        \cup {Fact(root.id, "repository_model_packet_id", root.packet) : root \in Elements(c.roots)}

Facts(R, C) ==
    (UNION {r.facts : r \in Elements(R)}) \cup UNION {DuplicateFacts(c) \cup ScopeFacts(c) : c \in Elements(C)}

Divergent(facts) ==
    {f \in facts : \E g \in facts : g.subject = f.subject /\ g.field = f.field /\ g.value # f.value}

Conflict(subject, field, blocking) == [subject |-> subject, field |-> field, blocking |-> blocking]

Unknown(subject, field, why) == [subject |-> subject, field |-> field, why |-> why]

FieldConflicts(facts) ==
    {Conflict(f.subject, f.field, FALSE) : f \in {g \in Divergent(facts) : Cardinal(g.field) = "single"}}

FieldUnknowns(facts) ==
    {Unknown(f.subject, f.field, "cardinality") :
        f \in {g \in Divergent(facts) : Cardinal(g.field) = "unknown"}}

\* What producers say they could not establish: a diagnostic without a field
\* is an unknown about the whole subject.
BearsUnknown(d) == d.code \in {"inventory-unknown", "unsupported-by-evidence"} /\ d.subject # Absent

DeclaredField(d) == IF d.code = "inventory-unknown" THEN "artifact_type" ELSE d.field

DeclaredUnknowns(R) ==
    {Unknown(d.subject, DeclaredField(d), "declared") :
        d \in {e \in UNION {Elements(r.diagnostics) : r \in Elements(R)} : BearsUnknown(e)}}

\* A domain whose pass did not run is an open question, an empty one is not.
NotRunUnknowns(C) ==
    {Unknown(n[1].corpus, n[2], n[1].id) : n \in UNION {{c} \X NotRun(c) : c \in Elements(C)}}

-----------------------------------------------------------------------------
(* Repositories: several packets may observe one, and the first names it.   *)

Observing(R, id) == {r \in Elements(R) : r.repository = id}

RepositoryIds(R) == {r.repository : r \in Elements(R)}

NameOf(R, id) == FirstIn(R, Observing(R, id)).name

RepositoryConflicts(R) ==
    {Conflict(r.repository, "source_revision", TRUE) :
        r \in {x \in Elements(R) : \E y \in Elements(R) : y.repository = x.repository /\ y.revision # x.revision}}
    \cup {Conflict(r.repository, "name", TRUE) :
        r \in {x \in Elements(R) : \E y \in Elements(R) : y.repository = x.repository /\ y.name # x.name}}

\* Of several repositories with one name the last in order is found.
Lookup(R, name) ==
    LET named == {id \in RepositoryIds(R) : name \in {NameOf(R, id), ShortName[id]}}
    IN  IF named = {} THEN Absent ELSE Greatest(named)

TargetOf(R, need) ==
    IF Lookup(R, need.hyphen) # Absent THEN Lookup(R, need.hyphen) ELSE Lookup(R, need.plain)

Needs(R, id) == UNION {r.needs : r \in Observing(R, id)}

Unmet(R, id) == {n \in Needs(R, id) : TargetOf(R, n) \in {Absent, id}}

Resolved(R, id) == {TargetOf(R, n) : n \in Needs(R, id) \ Unmet(R, id)}

Upstream(R, id) == (UNION {r.upstream : r \in Observing(R, id)}) \cup Resolved(R, id)

\* Only a name that was resolved here has a way back.
Downstream(R, id) == {other \in RepositoryIds(R) : id \in Resolved(R, other)}

Owners(R, id) == UNION {r.owners : r \in Observing(R, id)}

RepositoryUnknowns(R) ==
    UNION {{Unknown(id, "upstream_repository_ids", n) : n \in Unmet(R, id)} : id \in RepositoryIds(R)}

\* A stated role stands; an unknown one is what the name suggests first.
PrimaryRole(R, id) ==
    LET first == FirstIn(R, Observing(R, id))
    IN  IF first.role = "unknown" /\ RoleSignals[first.name] # << >>
        THEN Head(RoleSignals[first.name])
        ELSE first.role

SecondaryRoles(R, id) == Elements(RoleSignals[NameOf(R, id)]) \ {PrimaryRole(R, id)}

-----------------------------------------------------------------------------
(* Capabilities: declared, listed by a repository, listed by an artifact,   *)
(* or projected from a claim.                                               *)

CapabilityRecord(id, text, by, exposed, validated, backed) ==
    [id |-> id, text |-> text, by |-> by, exposed |-> exposed, validated |-> validated, backed |-> backed]

Declared(R) == Concatenated(R, LAMBDA r : r.declares)

DeclaredIds(R) == {k.id : k \in Elements(Declared(R))}

LastDeclared(R, id) == LastIn(Declared(R), {k \in Elements(Declared(R)) : k.id = id})

Offering(R, id) == {r.repository : r \in {x \in Elements(R) : id \in x.offers}}

Implementing(R, id) == {d \in Carried(R) : \E r \in Carriers(R, d) : id \in r.docs[d].offers}

\* A capability that only artifacts list has no evidence behind it, and of
\* several repositories that list one nobody declares the first implements it.
Listed(R, id) ==
    IF id \in DeclaredIds(R) THEN LastDeclared(R, id)
    ELSE IF Offering(R, id) = {} THEN CapabilityRecord(id, [listed |-> "artifacts"], {}, {}, {}, FALSE)
    ELSE LET first == Least(Offering(R, id))
         IN  CapabilityRecord(id, [listed |-> NameOf(R, first)], {first}, {}, {}, TRUE)

ListedIds(R) ==
    DeclaredIds(R) \cup (UNION {r.offers : r \in Elements(R)})
        \cup UNION {UNION {r.docs[d].offers : d \in DOMAIN r.docs} : r \in Elements(R)}

Built(R) == {[Listed(R, id) EXCEPT !.by = @ \cup Implementing(R, id)] : id \in ListedIds(R)}

Projected(docs) ==
    {CapabilityRecord(Capability(c), [claimed |-> c.object], {c.subject}, {}, {}, TRUE) : c \in CapabilityClaims(docs)}

\* Merged by identity; the description of the built one comes first.
Capabilities(R, C) ==
    LET built == Built(R)
        projected == Projected(Pool(R, C))
        merge(k) == [k EXCEPT !.by = @ \cup UNION {p.by : p \in {q \in projected : q.id = k.id}}]
    IN  {merge(k) : k \in built} \cup {p \in projected : \A k \in built : k.id # p.id}

CapabilityConflicts(R, C) ==
    LET projected == Projected(Pool(R, C))
    IN  {Conflict(k.id, "description", FALSE) :
            k \in {b \in Built(R) : \E p \in projected : p.id = b.id /\ p.text # b.text}}

-----------------------------------------------------------------------------
(* The scope above repositories: a root is where bytes were read from, and  *)
(* contains a repository only if it observed one.                           *)

Roots(C) == Concatenated(C, LAMBDA c : c.roots)

RootIds(C) == {root.id : root \in Elements(Roots(C))}

RootOf(C, id) == FirstIn(Roots(C), {root \in Elements(Roots(C)) : root.id = id})

Containment(x, y) == Edge("CONTAINS", x, y, {}, "none", "none")

ScopeEdges(C) ==
    (UNION {{Containment(c.corpus, root.id) : root \in Elements(c.roots)} : c \in Elements(C)})
        \cup {Containment(id, RootOf(C, id).repository) :
                id \in {x \in RootIds(C) : RootOf(C, x).repository # Absent}}

\* The root above a document, through the repository that contains it.
RootAbove(C, d) ==
    LET above == {root \in Elements(Roots(C)) : root.repository = Home[d]}
    IN  IF above = {} THEN Absent ELSE FirstIn(Roots(C), above).id

-----------------------------------------------------------------------------
(* Exact duplicates: a cluster becomes a star around its least member.      *)

Relations(C) == Concatenated(C, LAMBDA c : c.payload["exact_duplicate_relations"])

Clusters(C) == {r.cluster : r \in Elements(Relations(C))}

Members(C, cluster) ==
    UNION {{r.a, r.b} : r \in {x \in Elements(Relations(C)) : x.cluster = cluster}}

HashOfCluster(C, cluster) ==
    LastIn(Relations(C), {r \in Elements(Relations(C)) : r.cluster = cluster}).hash

DuplicateEdge(C, cluster, member) ==
    [type |-> "DUPLICATE_OF", source |-> Least(Members(C, cluster)), target |-> member,
     from |-> {}, resolution |-> "none", endpoint |-> "none",
     cluster |-> cluster, hash |-> HashOfCluster(C, cluster)]

Star(C, cluster) ==
    {DuplicateEdge(C, cluster, m) : m \in Members(C, cluster) \ {Least(Members(C, cluster))}}

\* An edge is known by its pair and hash: of two clusters that draw one edge
\* the last one keeps it.
DuplicateEdges(C) ==
    LET drawn == UNION {Star(C, cluster) : cluster \in Clusters(C)}
    IN  {e \in drawn : \A f \in drawn :
            f.source = e.source /\ f.target = e.target /\ f.hash = e.hash => Rank[f.cluster] <= Rank[e.cluster]}

-----------------------------------------------------------------------------
(* The canonical graph.                                                     *)

RepositoryEdges(R) ==
    UNION {{Edge("DEPENDS_ON", id, u, {}, "none", "none") : u \in Upstream(R, id)}
             \cup {Edge("OWNED_BY", id, o, {}, "none", "none") : o \in Owners(R, id)} : id \in RepositoryIds(R)}

ArtifactEdges(R) ==
    {Containment(Home[d], d) : d \in Carried(R)}
        \cup UNION {{Edge("IMPLEMENTS", d, id, {}, "none", "none") : id \in UNION {r.docs[d].offers : r \in Carriers(R, d)}} :
                      d \in Carried(R)}

CapabilityLinks(R, C) ==
    UNION {{Edge("IMPLEMENTS", x, k.id, {}, "none", "none") : x \in k.by}
             \cup {Edge("EXPOSES", x, k.id, {}, "none", "none") : x \in k.exposed} : k \in Capabilities(R, C)}

DeclaredEdges(R) == UNION {r.relations : r \in Elements(R)}

GraphEdges(R, C) ==
    DeclaredEdges(R) \cup RepositoryEdges(R) \cup ArtifactEdges(R) \cup CapabilityLinks(R, C)
        \cup ClaimEdges(Pool(R, C)) \cup WorkEdges(Pool(R, C)) \cup DuplicateEdges(C) \cup ScopeEdges(C)

CorpusIds(C) == {c.corpus : c \in Elements(C)}

\* An observed entity replaces a reference of the same identity.
GraphNodes(R, C) ==
    LET docs == Pool(R, C)
    IN  {Reference(c) : c \in ReferenceClaims(docs)} \cup {WorkTarget(docs, c.object) : c \in WorkClaims(docs)}
          \cup CorpusIds(C) \cup RootIds(C)
          \cup RepositoryIds(R) \cup (UNION {Owners(R, id) : id \in RepositoryIds(R)})
          \cup Carried(R) \cup {k.id : k \in Capabilities(R, C)}

\* A flow is known by its endpoints only.
FlowSources(E) == {e \in E : e.type = "DEPENDS_ON"}

FlowId(e) == <<e.source, e.target>>

AllConflicts(R, C) ==
    FieldConflicts(Facts(R, C)) \cup RepositoryConflicts(R) \cup CapabilityConflicts(R, C)
        \cup {Conflict(x.subject, x.field, FALSE) : x \in Conflicts(Pool(R, C))}

\* What is unknown; whether two records say it under one identity is looked at
\* by the validation.
AllUnknowns(R, C) ==
    RepositoryUnknowns(R) \cup FieldUnknowns(Facts(R, C)) \cup DeclaredUnknowns(R) \cup NotRunUnknowns(C)
        \cup {Unknown(x.subject, x.field, "statements") : x \in Unknowns(Pool(R, C))}

=============================================================================
