----------------------------- MODULE Assessment -----------------------------
(***************************************************************************)
(* What a compilation says about its graph: impact, risk and maturity of   *)
(* repositories, candidates measured against structure, readiness, routing *)
(* of candidates to a reasoner, and gaps between built and used.           *)
(*                                                                         *)
(* A view v is what one compilation derived: its documents (`docs`), edges,*)
(* conflicts and unknowns.                                                 *)
(***************************************************************************)
EXTENDS CorpusTopology

Sets == INSTANCE FiniteSetsExt

CONSTANTS
    RiskRules,      \* records [id, kind, field, threshold] of the risk profile
    Dimensions,     \* records [weight, field, needle, threshold] of the maturity profile
    MaximumScore,
    Bands           \* records [label, from] of the maturity profile

ASSUME AssessmentAssumption ==
    /\ \A r \in RiskRules : r.kind \in {"empty", "confidence_below"} /\ r.threshold \in 0..2
    /\ \A d \in Dimensions : d.weight \in Nat /\ d.threshold \in 0..3
    /\ MaximumScore \in Nat \ {0}
    /\ \A b \in Bands : b.from \in Nat
    /\ \E b \in Bands : b.from = 0

-----------------------------------------------------------------------------
(* Impact: breadth first, up to a depth.  A node is expanded once.          *)

Directions == {"upstream", "downstream"}

Beyond(E, S, direction) ==
    IF direction = "upstream"
    THEN {e.target : e \in {x \in E : x.source \in S}}
    ELSE {e.source : e \in {x \in E : x.target \in S}}

\* The nodes at one distance from where the walk began (`front`), and all that
\* were met up to there: those it had not met before are expanded next.
Further(E, layer, direction) ==
    LET new == Beyond(E, layer.front, direction) \ layer.seen
    IN  [front |-> new, seen |-> layer.seen \cup new]

Layers(E, x, direction, maximum) ==
    LET layer[k \in 0 .. maximum] ==
            IF k = 0 THEN [front |-> {x}, seen |-> {x}] ELSE Further(E, layer[k - 1], direction)
    IN  layer

Met(E, x, direction, maximum) == Layers(E, x, direction, maximum)[maximum].seen

Expanded(E, x, direction, maximum) == Met(E, x, direction, maximum - 1)

\* Broken variant: nodes that were met are not reported again.
AffectedOnce(E, x, direction, maximum) == Met(E, x, direction, maximum) \ {x}

\* What every edge out of an expanded node leads to, the subject included if a
\* cycle leads back to it.
Affected(E, x, direction, maximum) ==
    Beyond(E, Expanded(E, x, direction, maximum), direction)

NonTraversable == {"DUPLICATE_OF", "REFERENCES"}

Traversable(E) == {e \in E : e.type \notin NonTraversable}

Depth == 10

Impact(E, x) == Affected(Traversable(E), x, "downstream", Depth)

DependencyTypes == {"DEPENDS_ON", "BLOCKED_BY"}

\* The rule of the producer that emitted the edge; no evidence is no resolution.
EdgeIsResolved(e, observed) ==
    IF e.resolution # "none" THEN e.resolution = "exact-artifact"
    ELSE e.endpoint = "external-package-reference" \/ e.target \in observed

ResolvedImpact(E, observed, x, direction) ==
    LET dependencies == {e \in E : e.type \in DependencyTypes}
        resolved == {e \in dependencies : EdgeIsResolved(e, observed)}
        expanded == Expanded(resolved, x, direction, Depth)
    IN  [affected   |-> Affected(resolved, x, direction, Depth),
         unresolved |-> {e \in dependencies \ resolved :
                           (IF direction = "upstream" THEN e.source ELSE e.target) \in expanded}]

-----------------------------------------------------------------------------
(* Risk and maturity follow versioned profiles.                             *)

Holds(R, id, field) ==
    CASE field = "owner_ids" -> Owners(R, id) # {}
      [] field = "upstream_repository_ids" -> Upstream(R, id) # {}
      [] field = "artifact_ids" -> \E d \in Carried(R) : Home[d] = id
      [] OTHER -> \E r \in Observing(R, id) : field \in r.holds

LevelOf(R, id) == FirstIn(R, Observing(R, id)).level

Triggered(R, id, rule) ==
    IF rule.kind = "empty" THEN ~ Holds(R, id, rule.field) ELSE LevelOf(R, id) < rule.threshold

Risks(R) ==
    UNION {{[subject |-> id, rule |-> rule.id] : rule \in {x \in RiskRules : Triggered(R, id, x)}}
             \cup {[subject |-> id, unresolved |-> n] : n \in Unmet(R, id)} : id \in RepositoryIds(R)}

\* The rules of one dimension are alternatives; threshold 3 stands for none.
Awarded(R, C, id, d) ==
    IF \/ Holds(R, id, d.field)
       \/ \E f \in Facts(R, C) : f.subject = id /\ f.path # Absent /\ f.path = d.needle
       \/ LevelOf(R, id) >= d.threshold
    THEN d.weight ELSE 0

Least2(a, b) == IF a <= b THEN a ELSE b

Score(R, C, id) ==
    Least2(MaximumScore, Sets!FoldSet(LAMBDA d, sum : sum + Awarded(R, C, id, d), 0, Dimensions))

Band(score) ==
    (CHOOSE b \in Bands : b.from <= score /\ \A o \in Bands : o.from <= score => o.from <= b.from).label

Maturity(R, C) ==
    {[subject |-> id, score |-> Score(R, C, id), band |-> Band(Score(R, C, id))] : id \in RepositoryIds(R)}

-----------------------------------------------------------------------------
(* Candidates: structure may lower what the producer claimed, never raise.  *)

ClassOrder == [weak |-> 0, moderate |-> 1, strong |-> 2]

Weaken(current, proposed) == IF ClassOrder[current] <= ClassOrder[proposed] THEN current ELSE proposed

\* Pairs of distinct members that edges of one type join, in either direction.
InternalPairs(v, type, members) ==
    {{e.source, e.target} : e \in {x \in v.edges : x.type = type /\ x.source # x.target
                                                    /\ {x.source, x.target} \subseteq members}}

SupportTypes == {"DUPLICATE_OF", "REFERENCES", "DEPENDS_ON", "SUPERSEDES"}

\* Explicit links inside the group; a blocker is not one.
StructuralSupport(v, members) ==
    Sets!FoldSet(LAMBDA t, sum : sum + Cardinality(InternalPairs(v, t, members)), 0, SupportTypes)

\* The members and the repositories that contain them.
SubjectsFor(members) == members \cup {Home[d] : d \in members}

Distribution(v, members, predicate) ==
    {c.object : c \in {x \in Claims(v.docs) : x.subject \in SubjectsFor(members) /\ x.predicate = predicate}}

ConflictedSubjects(v) == {x.subject : x \in {y \in v.conflicts : y.field \in {"work.status", "work.kind"}}}

RootsAbove(C, members) == {RootAbove(C, d) : d \in members} \ {Absent}

Flags(v, C, k) ==
    k.flags
        \cup (IF SubjectsFor(k.members) \cap ConflictedSubjects(v) # {}
                 \/ Cardinality(Distribution(v, k.members, "work.status")) > 1
              THEN {"conflicting_status"} ELSE {})
        \cup (IF Cardinality(k.members) > 1 /\ StructuralSupport(v, k.members) = 0
              THEN {"structurally_disconnected_members"} ELSE {})
        \cup (IF Cardinality(RootsAbove(C, k.members)) > 1 THEN {"spans_multiple_roots"} ELSE {})

\* Broken variant: connected members confirm the group.
ClassConfirmed(flags, class) ==
    IF "conflicting_status" \in flags THEN Weaken(class, "weak")
    ELSE IF "structurally_disconnected_members" \in flags THEN Weaken(class, "moderate")
    ELSE "strong"

ClassOf(flags, class) ==
    IF "conflicting_status" \in flags THEN Weaken(class, "weak")
    ELSE IF "structurally_disconnected_members" \in flags THEN Weaken(class, "moderate")
    ELSE class

\* A measurement with too much that could not be read says so (more than a tenth).
Thin(m) == m.gaps * 10 > m.measured

\* Of several measurements of a subject: the first packet's, and there the least.
ReadinessOf(C, subject) ==
    LET of(c) == {m.id : m \in {x \in Records(c, "readiness_evidence") : x.subject = subject}}
        having == {i \in DOMAIN C : of(C[i]) # {}}
    IN  IF having = {} THEN Absent ELSE Least(of(C[Sets!Min(having)]))

Cluster(v, C, k) ==
    LET flags == Flags(v, C, k)
    IN  [id |-> k.id, type |-> k.type, members |-> k.members, flags |-> flags,
         class |-> ClassOf(flags, k.class),
         crosses |-> k.crosses \/ Cardinality(RootsAbove(C, k.members)) > 1,
         support |-> StructuralSupport(v, k.members),
         readiness |-> ReadinessOf(C, k.id), dangling |-> k.dangling]

Clustered(v, C) == UNION {{Cluster(v, C, k) : k \in Candidates(c)} : c \in Elements(C)}

\* Candidates enter the graph as nodes beside it, never as edges.
CandidateNodes(C) ==
    UNION {CandidateIds(c) \cup {r.id : r \in Records(c, "semantic_pair_relations")} : c \in Elements(C)}

-----------------------------------------------------------------------------
(* Routing: to a reasoner only what structure leaves open.                  *)

DefaultType(type) ==
    CASE type = "PROJECT_CANDIDATE" -> "SAME_BODY_OF_WORK_ADJUDICATION"
      [] type = "CONSOLIDATION_CANDIDATE" -> "CONSOLIDATION_ANALYSIS"
      [] OTHER -> "NONE"

Touching(v, type, members) ==
    {e \in v.edges : e.type = type /\ {e.source, e.target} \cap members # {}}

Within(v, type, members) == {e \in v.edges : e.type = type /\ {e.source, e.target} \subseteq members}

\* A statement about the target of a member's relation that matched several.
AmbiguousMember(v, members) ==
    \E c \in WorkClaims(v.docs) : c.subject \in members /\ Resolution(v.docs, c.object) = "ambiguous"

Signals(v, k) ==
    (IF (\E x \in v.conflicts : x.subject \in k.members) \/ "conflicting_status" \in k.flags
     THEN {"confirmed_claim_conflict"} ELSE {})
    \cup (IF AmbiguousMember(v, k.members) THEN {"unresolved_exact_reference"} ELSE {})
    \cup (IF \E e \in Touching(v, "SUPERSEDES", k.members) : e.resolution \in {"ambiguous", "unresolved"}
          THEN {"ambiguous_supersession"} ELSE {})
    \cup (IF k.type = "PROJECT_CANDIDATE" /\ "structurally_disconnected_members" \in k.flags
          THEN {"structurally_disconnected"} ELSE {})
    \cup (IF k.crosses /\ InternalPairs(v, "SUPERSEDES", k.members) # {}
          THEN {"spans_roots_and_versions"} ELSE {})

\* One cluster among the duplicates inside, and every member touched by one.
WhollyDuplicated(v, members) ==
    LET inside == Within(v, "DUPLICATE_OF", members)
    IN  /\ Cardinality(members) > 1
        /\ Cardinality({e.cluster : e \in {x \in inside : "cluster" \in DOMAIN x}}) = 1
        /\ UNION {{e.source, e.target} : e \in inside} = members

Explained(v, members) == \E e \in Within(v, "SUPERSEDES", members) : e.resolution = "exact-artifact"

Settled(v, k) == Signals(v, k) = {} /\ (WhollyDuplicated(v, k.members) \/ Explained(v, k.members))

\* The first request for a candidate, over all packets.
UpstreamType(C, id) ==
    LET all == Concatenated(C, LAMBDA c : c.payload["reasoning_candidates"])
        requests == {q \in Elements(all) : q.candidate = id}
    IN  IF requests = {} THEN Absent ELSE FirstIn(all, requests).type

Route(v, C, k) ==
    LET upstream == UpstreamType(C, k.id)
        escalate == Signals(v, k) # {}
    IN  IF Settled(v, k) THEN "NONE"
        ELSE IF "confirmed_claim_conflict" \in Signals(v, k) THEN "CONFLICT_RESOLUTION_ANALYSIS"
        ELSE IF upstream # Absent /\ (escalate => upstream # "NONE") THEN upstream
        ELSE IF escalate /\ DefaultType(k.type) = "NONE" THEN "SAME_BODY_OF_WORK_ADJUDICATION"
        ELSE DefaultType(k.type)

Neighbourhood(v, members) ==
    (UNION {{e.source, e.target} : e \in {x \in v.edges : {x.source, x.target} \cap members # {}}}) \ members

Routed(v, C) ==
    {[candidate |-> k.id, type |-> Route(v, C, k), members |-> k.members, signals |-> Signals(v, k),
      around |-> Neighbourhood(v, k.members)] : k \in Clustered(v, C)}

-----------------------------------------------------------------------------
(* Bridge gaps: what is built and cannot be reached, exposed and not used,  *)
(* produced and not consumed.  `intents` is what operators said of subjects.*)

Into(E, x, types) == {e.source : e \in {y \in E : y.target = x /\ y.type \in types}}

OutOf(E, x, types) == {e.target : e \in {y \in E : y.source = x /\ y.type \in types}}

Disposition(intents, x) ==
    LET intent == IF x \in DOMAIN intents THEN intents[x] ELSE "UNKNOWN"
    IN  CASE intent = "REQUIRED" -> "action_required"
          [] intent \in {"OPTIONAL", "DEFERRED"} -> "intentional_dormancy"
          [] intent = "PROHIBITED" -> "correctly_disconnected"
          [] OTHER -> "decision_required"

BridgeGap(x, type, state, intents) ==
    [subject |-> x, gap |-> type, observed |-> state, disposition |-> Disposition(intents, x)]

\* Use is stronger evidence of reachability than an exposure nobody recorded.
CapabilityGap(E, k, intents) ==
    LET exposers == k.exposed \cup Into(E, k.id, {"EXPOSES", "ROUTES_TO"}) \cup OutOf(E, k.id, {"ROUTES_TO"})
        validators == k.validated \cup Into(E, k.id, {"VALIDATED_BY"}) \cup OutOf(E, k.id, {"VALIDATED_BY"})
    IN  IF Into(E, k.id, {"CONSUMES"}) # {} THEN {}
        ELSE IF exposers # {} THEN {BridgeGap(k.id, "EXPOSED_UNCONSUMED", "EXPOSED", intents)}
        ELSE IF k.by \cup Into(E, k.id, {"IMPLEMENTS"}) # {}
        THEN {BridgeGap(k.id, "BUILT_UNREACHABLE",
                        IF validators = {} THEN "IMPLEMENTED" ELSE "VALIDATED", intents)}
        ELSE {}

OutputGaps(E, capabilities, intents) ==
    {BridgeGap(x, "ORPHAN_OUTPUT", "PRODUCED", intents) :
        x \in {e.target : e \in {y \in E : /\ y.type = "PRODUCES"
                                             /\ y.target \notin {k.id : k \in capabilities}
                                             /\ Into(E, y.target, {"CONSUMES"}) = {}}}}

BridgeGaps(E, capabilities, intents) ==
    (UNION {CapabilityGap(E, k, intents) : k \in capabilities}) \cup OutputGaps(E, capabilities, intents)

=============================================================================
