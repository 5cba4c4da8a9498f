---------------------------- MODULE Publication ----------------------------
(***************************************************************************)
(* Publication of a compiled topology into durable memory: which facts are *)
(* selected, which of them are held, and the key under which each write is *)
(* requested.                                                              *)
(*                                                                         *)
(* Commits change documents and move the revision.  A plan is built from   *)
(* the topology of one revision; the intents it carries are delivered one  *)
(* by one, each perhaps several times, and perhaps after further commits.  *)
(* The memory answers a key it knows with DUPLICATE and ignores the        *)
(* content.  One candidate is one fact of the topology.                    *)
(***************************************************************************)
EXTENDS Topology

CONSTANTS
    Contents,           \* what each document can contain
    MaxCommits,         \* bound on the number of commits
    Rank,               \* order of the evidence identifiers at each revision
    MaxEvidenceRefs,    \* maximum_evidence_refs_per_candidate
    ClaimPredicates,    \* eligible_claim_predicates
    EdgeTypes,          \* eligible_edge_types
    MaxAdmitted,        \* bound on the writes delivered
    NoPlan

ASSUME PublicationAssumption ==
    /\ IsFiniteSet(Documents)
    /\ MaxCommits \in Nat /\ MaxEvidenceRefs \in Nat \ {0} /\ MaxAdmitted \in Nat
    /\ Rank \in [0 .. MaxCommits -> [Documents -> Nat]]
    /\ ClaimPredicates \subseteq (SetPredicates \cup SinglePredicates) \ DeclarationOnlyPredicates
    /\ \A d \in Documents : \A content \in Contents[d] :
         content.says \subseteq [subject : Documents \cup Repositories \cup Objects,
                                 predicate : STRING, object : Documents \cup Objects]

VARIABLES
    docs,       \* the documents at the current revision
    revision,   \* number of commits so far
    plan,       \* the topology the current plan was built from
    memory      \* the writes admitted, each with its key

vars == <<docs, revision, plan, memory>>

\* What the documents can be at one revision.
Snapshots ==
    {ds \in [Documents -> (UNION {Contents[d] : d \in Documents}) \cup {Absent}] :
        \A d \in Documents : ds[d] \in Contents[d] \cup {Absent}}

-----------------------------------------------------------------------------
(* Qualification of relations (the strict policy): the producer of an edge *)
(* is read off what the edge records, then judged by that producer's rule. *)

Origin(ds, e) ==
    CASE e.resolution # "none" -> "work-projector"
      [] e.resolution = "none" /\ e.from # {} /\ e.endpoint # "none" -> "claim-projector"
      [] e.from = {} /\ e.type = "CONTAINS" /\ e.target \in Present(ds) /\ e.source = Home[e.target] ->
           "artifact-containment"
      [] e.from = {} /\ e.type = "IMPLEMENTS"
             /\ \E c \in CapabilityClaims(ds) : e.target = Capability(c) /\ e.source = c.subject ->
           "capability-record"
      [] OTHER -> "unrecognized"

AdmissibleOrigins(type) ==
    CASE type = "CONTAINS" -> {"artifact-containment"}
      [] type \in {"DEPENDS_ON", "SUPERSEDES"} -> {"work-projector", "claim-projector"}
      [] type \in {"BLOCKED_BY", "REFERENCES"} -> {"work-projector"}
      [] type = "GOVERNED_BY" -> {"claim-projector"}
      [] type = "IMPLEMENTS" -> {"capability-record"}
      [] OTHER -> {}

\* Broken variant: the row of one family is missing.
ExpectedEndpointNoRow(type) ==
    CASE type = "DEPENDS_ON" -> "external-package-reference"
      [] type = "GOVERNED_BY" -> "declared-contract-reference"
      [] OTHER -> "none"

\* The endpoint kind the claim projector records for each family it emits.
ExpectedEndpoint(type) ==
    CASE type = "DEPENDS_ON" -> "external-package-reference"
      [] type = "GOVERNED_BY" -> "declared-contract-reference"
      [] type = "SUPERSEDES" -> "declared-repository-reference"
      [] OTHER -> "none"

\* The claim an edge names must exist and still be projectable.
ClaimGate(ds, e) == \A c \in e.from : c \in Claims(ds) /\ ~ ProjectionIneligible(ds, c)

Qualified(ds, e) ==
    LET origin == Origin(ds, e) IN
    /\ origin \in AdmissibleOrigins(e.type)
    /\ origin = "work-projector" => ClaimGate(ds, e) /\ e.resolution = "exact-artifact"
    /\ origin = "claim-projector" => e.endpoint = ExpectedEndpoint(e.type) /\ ClaimGate(ds, e)

-----------------------------------------------------------------------------
(* The facts a plan lowers.  An unsupported predicate is lowered, and held. *)

Fact(kind, of) == [kind |-> kind, of |-> of]

ClaimSelected(c) == c.predicate \in SupportedPredicates => c.predicate \in ClaimPredicates

Candidates(ds) ==
    {Fact("claim", c) : c \in {x \in Claims(ds) : ClaimSelected(x)}}
        \cup {Fact("entity", c) : c \in CapabilityClaims(ds)}
        \cup {Fact("relationship", e) : e \in {x \in Edges(ds) : Qualified(ds, x) /\ x.type \in EdgeTypes}}

Entities(f) ==
    CASE f.kind = "claim" -> {f.of.subject}
      [] f.kind = "entity" -> {Capability(f.of)}
      [] OTHER -> {f.of.source, f.of.target}

\* Fields the lowering read: of those, only a claim's predicate can be the
\* field of a conflict or of an unknown here.
SourceFields(f) == IF f.kind = "claim" THEN {f.of.predicate} ELSE {}

\* Broken variant: a record about the subject holds every fact about it.
MaterialToSubject(records, f) == \E r \in records : r.subject \in Entities(f)

Material(records, f) == \E r \in records : r.subject \in Entities(f) /\ r.field \in SourceFields(f)

Unsupported(f) == f.kind = "claim" /\ f.of.predicate \notin SupportedPredicates

Decide(ds, f) ==
    IF ~ Entities(f) \subseteq Nodes(ds) THEN "rejected"
    ELSE IF Material(Conflicts(ds), f) \/ Material(Unknowns(ds), f) \/ Unsupported(f) THEN "held"
    ELSE "eligible"

Eligible(ds) == {f \in Candidates(ds) : Decide(ds, f) = "eligible"}

-----------------------------------------------------------------------------
(* What a candidate writes, and its two identities.                         *)

\* The claim whose evidence and confidence a fact carries.
Basis(f) == IF f.kind = "relationship" THEN f.of.from ELSE {f.of}

\* The claims a fact is supported through; the edge to a capability stands for
\* the claim that declares it.
Grounds(ds, f) ==
    IF Basis(f) # {} THEN Basis(f)
    ELSE {c \in CapabilityClaims(ds) : f.of.type = "IMPLEMENTS" /\ Capability(c) = f.of.target}

\* A containment is its document's own evidence.
Evidence(ds, f) ==
    IF f.kind = "relationship" /\ f.of.from = {} /\ f.of.type # "IMPLEMENTS"
    THEN {f.of.target}
    ELSE {d \in Present(ds) : \E c \in Grounds(ds, f) : d \in Support(ds, c)}

\* The first MaxEvidenceRefs records in the order of their identifiers, which
\* are hashes that include the revision.
Kept(ds, rev, f) ==
    {d \in Evidence(ds, f) :
        Cardinality({x \in Evidence(ds, f) : Rank[rev][x] < Rank[rev][d]}) < MaxEvidenceRefs}

\* Local evidence in terms of kind, digest of the bytes and path: a bag.
Semantics(ds, d) == [kind |-> Class[d], digest |-> ds[d], path |-> Path[d]]

EvidenceSemantics(ds, S) ==
    [m \in {Semantics(ds, d) : d \in S} |-> Cardinality({d \in S : Semantics(ds, d) = m})]

Status(ds, f) == IF f.kind = "claim" THEN ConflictStatus(ds, f.of) ELSE "none"

Ceiling(status) == CASE status = "none" -> 10 [] status = "possible" -> 5 [] OTHER -> 3

Least(S) == CHOOSE n \in S : \A m \in S : n <= m

Score(ds, f) == Least({Level[d] : d \in Evidence(ds, f)} \cup {Ceiling(Status(ds, f))})

Method(ds, f) ==
    IF \A d \in Evidence(ds, f) : Class[d] = "declared" THEN "extracted" ELSE "aggregated"

\* Lowering adds one reference of its own to aggregated facts.
Derived(ds, f) == Method(ds, f) = "aggregated"

Confidence(ds, rev, f) ==
    [score |-> Score(ds, f), method |-> Method(ds, f),
     count |-> Cardinality(Kept(ds, rev, f)) + (IF Derived(ds, f) THEN 1 ELSE 0)]

\* candidate_id: what the fact says, never how well it is known; the content
\* of a claim spells out its conflict status.
CandidateId(ds, f) ==
    CASE f.kind = "claim" -> Fact("claim", [triple |-> f.of, status |-> Status(ds, f)])
      [] f.kind = "entity" -> Fact("entity", Capability(f.of))
      [] OTHER -> Fact("relationship", [source |-> f.of.source, type |-> f.of.type, target |-> f.of.target])

\* Broken variants: the key names the revision (v1); the key names the fact
\* alone (v2).
KeyOfSnapshot(ds, rev, f) ==
    [candidate |-> CandidateId(ds, f), revision |-> rev,
     evidence |-> EvidenceSemantics(ds, Kept(ds, rev, f)), confidence |-> Confidence(ds, rev, f)]

KeyOfFact(ds, rev, f) == [candidate |-> CandidateId(ds, f)]

\* idempotency_key: the exact write requested.
Key(ds, rev, f) ==
    [candidate |-> CandidateId(ds, f),
     evidence |-> EvidenceSemantics(ds, Kept(ds, rev, f)),
     derived |-> Derived(ds, f),
     confidence |-> Confidence(ds, rev, f)]

\* The request itself, without the snapshot it came from: the derivation note
\* also says over how many records the fact was derived.
Write(ds, rev, f) ==
    [fact |-> CandidateId(ds, f),
     evidence |-> EvidenceSemantics(ds, Kept(ds, rev, f)),
     derivedOver |-> IF Derived(ds, f) THEN Cardinality(Evidence(ds, f)) ELSE 0,
     confidence |-> Confidence(ds, rev, f)]

-----------------------------------------------------------------------------
Init ==
    /\ docs \in Snapshots
    /\ revision = 0
    /\ plan = NoPlan
    /\ memory = {}

\* A commit gives one document new content, removes it, or changes something
\* outside all documents.
Commit(d, content) ==
    /\ revision < MaxCommits
    /\ revision' = revision + 1
    /\ docs' = [docs EXCEPT ![d] = content]
    /\ UNCHANGED <<plan, memory>>

\* Broken variant: the plan is stamped with a revision it was not built from.
BuildPlanAhead ==
    /\ EndpointsExist(docs)
    /\ plan' = [docs |-> docs, revision |-> revision + 1]
    /\ UNCHANGED <<docs, revision, memory>>

\* Only a topology that passed validation is planned.
BuildPlan ==
    /\ EndpointsExist(docs)
    /\ plan' = [docs |-> docs, revision |-> revision]
    /\ UNCHANGED <<docs, revision, memory>>

KnownKeys == {r.key : r \in memory}

PlanKey(f) == Key(plan.docs, plan.revision, f)
PlanWrite(f) == Write(plan.docs, plan.revision, f)
Intents == IF plan = NoPlan THEN {} ELSE Eligible(plan.docs)

\* The memory admits an intent whose key it does not know; the answer to any
\* other is DUPLICATE, and nothing changes.
Deliver(f) ==
    /\ Cardinality(memory) < MaxAdmitted
    /\ PlanKey(f) \notin KnownKeys
    /\ memory' = memory \cup {[key |-> PlanKey(f), write |-> PlanWrite(f)]}
    /\ UNCHANGED <<docs, revision, plan>>

Next ==
    \/ \E d \in Documents : \E content \in Contents[d] \cup {Absent} : Commit(d, content)
    \/ BuildPlan
    \/ \E f \in Intents : Deliver(f)

Spec == Init /\ [][Next]_vars

-----------------------------------------------------------------------------
(* Properties.                                                              *)

\* Every variable has its type, and a plan comes from a revision that existed.
PublicationTypeOK ==
    /\ docs \in Snapshots
    /\ revision \in 0 .. MaxCommits
    /\ plan # NoPlan => plan.docs \in Snapshots /\ plan.revision \in 0 .. revision
    /\ \A r \in memory : DOMAIN r = {"key", "write"}

\* Qualification (publication/qualification.py) reads the producer of an edge
\* off the record and judges it by tables kept apart from the projectors: of
\* all that the projectors and the graph builder emit it refuses exactly the
\* work relations whose target is not one observed document.
RefusedIsUnresolved ==
    \A e \in Edges(docs) : ~ Qualified(docs, e) <=> e.resolution \in {"unresolved", "ambiguous"}

\* No eligible claim, capability or relation of a plan rests on a claim that
\* another statement contradicts, or could, nor on a target that names several
\* documents; and an eligible work relation joins two documents the compilation
\* observed.  It takes the projection boundary, the qualification of relations
\* and the holds of decide() together.
NothingDisputedIsEligible ==
    \A f \in Intents : \A c \in Basis(f) :
        /\ c \in Claims(plan.docs)
        /\ ConflictStatus(plan.docs, c) = "none"

NothingAmbiguousIsEligible ==
    \A f \in Intents :
        /\ f.kind = "relationship" /\ f.of.resolution # "none"
             => {f.of.source, f.of.target} \subseteq Observed(plan.docs)
        /\ \A c \in Basis(f) :
             c.predicate \in WorkPredicates => Cardinality(Matches(plan.docs, c.object)) <= 1

NothingUnsettledIsEligible == NothingDisputedIsEligible /\ NothingAmbiguousIsEligible

\* What a write rests on: the bytes of the supporting documents, and whether
\* the claim is contested.
LocalState(ds, f) == <<[d \in Evidence(ds, f) |-> ds[d]], Status(ds, f)>>

Within(ds, f) == Cardinality(Evidence(ds, f)) <= MaxEvidenceRefs

Shared == Candidates(docs) \cap Candidates(docs')

\* As long as all evidence fits the ceiling, a commit moves the idempotency
\* key of a fact exactly when it moves what the write rests on: neither does a
\* snapshot re-key a write, nor does a revised write pass for a retry
\* (idempotency_key in publication/identity.py).
KeyFollowsLocalState ==
    [][\A f \in Shared :
         Within(docs, f) /\ Within(docs', f) =>
            (Key(docs, revision, f) = Key(docs', revision', f)
                <=> LocalState(docs, f) = LocalState(docs', f))]_<<docs, revision>>

\* The question a fact answers: the answers given, what they resolve to, and
\* which of the entities it names are there.
Question(ds, f) ==
    LET answers == UNION {Answers(ds, c) : c \in Basis(f)}
    IN  [matches |-> [o \in answers |-> Matches(ds, o)], known |-> Entities(f) \cap Nodes(ds)]

\* A commit that leaves the question of a fact alone leaves the decision on it
\* alone: a conflict or an unknown holds the facts of its own field, never the
\* other facts about the same subject (decide in publication/eligibility.py).
DisputeIsContained ==
    [][\A f \in Shared :
         Question(docs, f) = Question(docs', f) => Decide(docs, f) = Decide(docs', f)]_<<docs, revision>>

\* A write whose derivation note counts only records that the write can keep.
Complete(write) == write.derivedOver <= MaxEvidenceRefs

\* The memory drops the content of an intent whose key it knows: of writes that
\* keep all their evidence, the one it recorded under that key is the one
\* requested, however the fact was revised in between.  Above the ceiling it
\* need not be: the key tells the kept records only, the note counts all.
DuplicateIsTheSameWrite ==
    \A f \in Intents : \A r \in memory :
        r.key = PlanKey(f) /\ Complete(r.write) /\ Complete(PlanWrite(f))
            => r.write = PlanWrite(f)

=============================================================================
