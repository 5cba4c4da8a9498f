------------------------------ MODULE Topology ------------------------------
(***************************************************************************)
(* From what documents state to claims, conflicts and relations: the part  *)
(* of compile_topology that decides what several answers to one question   *)
(* mean and which of them become edges of the graph.                       *)
(*                                                                         *)
(* `docs` is what one compilation observes: for every document that is     *)
(* present, its content.  A content is the edition of the bytes (it stands *)
(* for their digest) and the statements a producer reads out of them.      *)
(* Every operator below is a function of `docs`: nothing else enters.      *)
(***************************************************************************)
EXTENDS Naturals, FiniteSets

CONSTANTS
    Documents,      \* artifacts, the subjects and targets of work relations
    Repositories,   \* the repositories of the corpus
    Home,           \* the repository that contains each document
    Objects,        \* what a statement can name: paths, packages, texts
    Path,           \* the portable source path of each document
    Level,          \* score of the confidence its extractor claims
    Class,          \* "declared" (prose) or "observed" (structure)
    Absent          \* not a content

\* A path names at most one document of a repository, and may name one in each.
ASSUME TopologyAssumption ==
    /\ Documents \cap Repositories = {}
    /\ Home \in [Documents -> Repositories]
    /\ Path \in [Documents -> Objects]
    /\ \A d, e \in Documents : Home[d] = Home[e] /\ Path[d] = Path[e] => d = e
    /\ Level \in [Documents -> Nat]
    /\ Class \in [Documents -> {"declared", "observed"}]

(* The predicate registry, reduced to the predicates that differ in what   *)
(* becomes of them; a predicate in none of the three sets is unsupported.  *)
WorkPredicates == {"work.depends_on", "work.blocked_by", "work.references",
                   "work.supersedes", "work.superseded_by"}
SetPredicates == WorkPredicates \cup
    {"package.dependency", "authority.canonical_contract", "service.action", "contract.invariant"}
SinglePredicates == {"repository.replaced_by", "repository.status", "work.status", "work.kind",
                     "meta.l9v1.identity.title"}
AuxiliaryPredicates == {"contract.declares_invariants", "meta.declaration.schema"}
DeclarationOnlyPredicates == {"meta.l9v1.identity.title", "meta.declaration.schema"}
SupportedPredicates == SetPredicates \cup SinglePredicates \cup AuxiliaryPredicates

IsProjectable(p) == p \in (SetPredicates \cup SinglePredicates) \ DeclarationOnlyPredicates

-----------------------------------------------------------------------------
(* Reconciliation.                                                          *)

Present(docs) == {d \in Documents : docs[d] # Absent}

\* One claim for each distinct triple, supported by every document that states it.
Claims(docs) == UNION {docs[d].says : d \in Present(docs)}

Support(docs, c) == {d \in Present(docs) : c \in docs[d].says}

\* The competing answers to the question c answers.
Answers(docs, c) ==
    {x.object : x \in {y \in Claims(docs) : y.subject = c.subject /\ y.predicate = c.predicate}}

Divided(docs, c) == \E o \in Answers(docs, c) : o # c.object

ConflictStatus(docs, c) ==
    IF ~ Divided(docs, c) THEN "none"
    ELSE IF c.predicate \in SinglePredicates THEN "confirmed"
    ELSE IF c.predicate \notin SupportedPredicates THEN "possible"
    ELSE "none"

\* Records against one field of one subject, as publication looks them up.
Conflicts(docs) ==
    {[subject |-> c.subject, field |-> c.predicate] :
        c \in {x \in Claims(docs) : ConflictStatus(docs, x) = "confirmed"}}

\* Broken variant: projection asks the registry only.
ProjectionIneligibleByRegistry(docs, c) == ~ IsProjectable(c.predicate)

\* The claim-level decision that every projector and the qualification of
\* relations consult.
ProjectionIneligible(docs, c) ==
    \/ ~ IsProjectable(c.predicate)
    \/ ConflictStatus(docs, c) # "none"

ProjectableClaims(docs) == {c \in Claims(docs) : ~ ProjectionIneligible(docs, c)}

-----------------------------------------------------------------------------
(* Work relations: the target is resolved by exact match or not at all.     *)

Matches(docs, target) ==
    IF target \in Present(docs) THEN {target}
    ELSE {d \in Present(docs) : Path[d] = target}

Resolution(docs, target) ==
    CASE Matches(docs, target) = {} -> "unresolved"
      [] Cardinality(Matches(docs, target)) = 1 -> "exact-artifact"
      [] OTHER -> "ambiguous"

External(kind, name) == [ref |-> kind, name |-> name]

WorkTarget(docs, target) ==
    IF Resolution(docs, target) = "exact-artifact"
    THEN CHOOSE d \in Matches(docs, target) : TRUE
    ELSE External("work-reference", target)

WorkType(p) == CASE p = "work.depends_on" -> "DEPENDS_ON"
                 [] p = "work.blocked_by" -> "BLOCKED_BY"
                 [] p = "work.references" -> "REFERENCES"
                 [] OTHER -> "SUPERSEDES"

\* An edge: `from` is the claim it was projected from, if any, and resolution
\* and endpoint are the properties projectors record ("none" if they do not).
Edge(type, source, target, from, resolution, endpoint) ==
    [type |-> type, source |-> source, target |-> target,
     from |-> from, resolution |-> resolution, endpoint |-> endpoint]

\* "A superseded_by B" is the edge from B to A.
WorkEdge(docs, c) ==
    LET target == WorkTarget(docs, c.object)
        reverse == c.predicate = "work.superseded_by"
    IN  Edge(WorkType(c.predicate),
             IF reverse THEN target ELSE c.subject,
             IF reverse THEN c.subject ELSE target,
             {c}, Resolution(docs, c.object), "none")

WorkClaims(docs) == {c \in ProjectableClaims(docs) : c.predicate \in WorkPredicates}

WorkEdges(docs) == {WorkEdge(docs, c) : c \in WorkClaims(docs)}

\* Unsupported predicates and ambiguous targets are open questions.
Unknowns(docs) ==
    {[subject |-> c.subject, field |-> c.predicate] :
        c \in {x \in Claims(docs) : x.predicate \notin SupportedPredicates}
              \cup {x \in WorkClaims(docs) : Resolution(docs, x.object) = "ambiguous"}}

-----------------------------------------------------------------------------
(* The other projections, and the edges of the graph builder.               *)

EdgePredicates == {"package.dependency", "authority.canonical_contract", "repository.replaced_by"}

\* What the projector of a predicate emits: the relation, the prefix of the
\* reference node it points at and the endpoint kind it records.
EdgeType(p) == CASE p = "package.dependency" -> "DEPENDS_ON"
                 [] p = "authority.canonical_contract" -> "GOVERNED_BY"
                 [] OTHER -> "SUPERSEDES"

ReferenceKind(p) == CASE p = "package.dependency" -> "package"
                      [] p = "authority.canonical_contract" -> "contract-reference"
                      [] OTHER -> "repository-reference"

EndpointKind(p) == CASE p = "package.dependency" -> "external-package-reference"
                     [] p = "authority.canonical_contract" -> "declared-contract-reference"
                     [] OTHER -> "declared-repository-reference"

Reference(c) == External(ReferenceKind(c.predicate), c.object)

\* "X replaced_by Y" is the edge from Y to X.
ClaimEdge(c) ==
    LET reverse == c.predicate = "repository.replaced_by"
    IN  Edge(EdgeType(c.predicate),
             IF reverse THEN Reference(c) ELSE c.subject,
             IF reverse THEN c.subject ELSE Reference(c),
             {c}, "none", EndpointKind(c.predicate))

ReferenceClaims(docs) == {c \in ProjectableClaims(docs) : c.predicate \in EdgePredicates}

ClaimEdges(docs) == {ClaimEdge(c) : c \in ReferenceClaims(docs)}

\* The reference nodes and capabilities are not observed entities.
ASSUME ReferencesAssumption ==
    \A o \in Documents \cup Repositories \cup Objects :
        /\ \A p \in EdgePredicates, name \in Documents \cup Objects :
             o # External(ReferenceKind(p), name) /\ o # External("work-reference", name)
        /\ \A of \in Documents \cup Repositories \cup Objects, name \in Documents \cup Objects :
             o # [ref |-> "capability", of |-> of, name |-> name]

\* A capability is known by the claim that declares it.
CapabilityClaims(docs) == {c \in ProjectableClaims(docs) : c.predicate = "service.action"}

Capability(c) == [ref |-> "capability", of |-> c.subject, name |-> c.object]

CapabilityEdges(docs) ==
    {Edge("IMPLEMENTS", c.subject, Capability(c), {}, "none", "none") : c \in CapabilityClaims(docs)}

ContainsEdges(docs) ==
    {Edge("CONTAINS", Home[d], d, {}, "none", "none") : d \in Present(docs)}

Edges(docs) == WorkEdges(docs) \cup ClaimEdges(docs) \cup CapabilityEdges(docs) \cup ContainsEdges(docs)

\* The nodes of the graph: what was observed, and a labelled node for each
\* external endpoint of a projected edge.
Observed(docs) == Repositories \cup Present(docs)

Nodes(docs) ==
    Observed(docs)
        \cup {Capability(c) : c \in CapabilityClaims(docs)}
        \cup {Reference(c) : c \in ReferenceClaims(docs)}
        \cup {WorkTarget(docs, c.object) : c \in WorkClaims(docs)}

\* The validation of the compiled topology, as far as it can fail here.
EndpointsExist(docs) == \A e \in Edges(docs) : {e.source, e.target} \subseteq Nodes(docs)

=============================================================================
