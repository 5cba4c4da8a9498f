------------------------- MODULE PublicationProofs -------------------------
(***************************************************************************)
(* What every plan keeps out of the memory, whatever the documents, the    *)
(* policy's selections and the commits are: proofs about Publication.      *)
(***************************************************************************)
EXTENDS Publication, FiniteSetTheorems, TLAPS

\* The fields of the records that facts and edges are.
LEMMA Fields ==
    ASSUME NEW k, NEW o, NEW t, NEW s, NEW g, NEW c, NEW r, NEW p
    PROVE  /\ Fact(k, o).kind = k /\ Fact(k, o).of = o
           /\ Edge(t, s, g, c, r, p).type = t /\ Edge(t, s, g, c, r, p).source = s
           /\ Edge(t, s, g, c, r, p).target = g /\ Edge(t, s, g, c, r, p).from = c
           /\ Edge(t, s, g, c, r, p).resolution = r /\ Edge(t, s, g, c, r, p).endpoint = p
  BY DEF Fact, Edge

\* A claim that projects is uncontested (projection_ineligibility).
LEMMA ProjectableIsUncontested ==
    ASSUME NEW ds, NEW c \in ProjectableClaims(ds)
    PROVE  c \in Claims(ds) /\ ConflictStatus(ds, c) = "none" /\ ~ ProjectionIneligible(ds, c)
  BY DEF ProjectableClaims, ProjectionIneligible

\* An edge names only claims that project.
LEMMA EdgesRestOnProjectable ==
    ASSUME NEW ds, NEW e \in Edges(ds), NEW c \in e.from
    PROVE  c \in ProjectableClaims(ds)
<1>1. ASSUME NEW d \in WorkClaims(ds), e = WorkEdge(ds, d)
      PROVE  c \in ProjectableClaims(ds)
  <2>1. e.from = {d}
    BY <1>1 DEF WorkEdge, Edge
  <2> QED
    BY <2>1 DEF WorkClaims
<1>2. ASSUME NEW d \in ReferenceClaims(ds), e = ClaimEdge(d)
      PROVE  c \in ProjectableClaims(ds)
  <2>1. e.from = {d}
    BY <1>2 DEF ClaimEdge, Edge
  <2> QED
    BY <2>1 DEF ReferenceClaims
<1>3. CASE e \in CapabilityEdges(ds) \cup ContainsEdges(ds)
  BY <1>3, Fields DEF CapabilityEdges, ContainsEdges
<1> QED
  BY <1>1, <1>2, <1>3 DEF Edges, WorkEdges, ClaimEdges

\* The status of a claim is one of three.
LEMMA StatusCases ==
    ASSUME NEW ds, NEW c, ConflictStatus(ds, c) # "none"
    PROVE  \/ ConflictStatus(ds, c) = "confirmed"
           \/ c.predicate \notin SupportedPredicates
  BY DEF ConflictStatus

\* decide() holds a claim whose own field is in conflict, and a claim whose
\* predicate the registry does not declare.
LEMMA EligibleClaimIsUncontested ==
    ASSUME NEW ds, NEW c \in Claims(ds), Decide(ds, Fact("claim", c)) = "eligible"
    PROVE  ConflictStatus(ds, c) = "none"
<1> DEFINE f == Fact("claim", c)
<1>0. f.kind = "claim" /\ f.of = c
  BY Fields
<1>1. ~ Material(Conflicts(ds), f) /\ ~ Unsupported(f)
  BY DEF Decide
<1>2. c.predicate \in SupportedPredicates
  BY <1>0, <1>1 DEF Unsupported
<1>3. SUFFICES ASSUME ConflictStatus(ds, c) = "confirmed" PROVE FALSE
  BY <1>2, StatusCases
<1>4. [subject |-> c.subject, field |-> c.predicate] \in Conflicts(ds)
  BY <1>3 DEF Conflicts
<1>5. c.subject \in Entities(f) /\ c.predicate \in SourceFields(f)
  BY <1>0 DEF Entities, SourceFields
<1> QED
  BY <1>1, <1>4, <1>5 DEF Material

\* What an eligible fact rests on is stated and uncontested.
LEMMA EligibleIsUncontested ==
    ASSUME NEW ds, NEW f \in Eligible(ds), NEW c \in Basis(f)
    PROVE  c \in Claims(ds) /\ ConflictStatus(ds, c) = "none"
<1>0. f \in Candidates(ds) /\ Decide(ds, f) = "eligible"
  BY DEF Eligible
<1>1. ASSUME NEW d \in Claims(ds), f = Fact("claim", d)
      PROVE  c \in Claims(ds) /\ ConflictStatus(ds, c) = "none"
  <2>1. f.kind = "claim" /\ f.of = d
    BY <1>1, Fields
  <2>2. c = d
    BY <2>1 DEF Basis
  <2> QED
    BY <1>0, <1>1, <2>2, EligibleClaimIsUncontested
<1>2. ASSUME NEW d \in CapabilityClaims(ds), f = Fact("entity", d)
      PROVE  c \in Claims(ds) /\ ConflictStatus(ds, c) = "none"
  <2>1. f.kind = "entity" /\ f.of = d
    BY <1>2, Fields
  <2>2. c = d
    BY <2>1 DEF Basis
  <2> QED
    BY <2>2, ProjectableIsUncontested DEF CapabilityClaims
<1>3. ASSUME NEW e \in Edges(ds), f = Fact("relationship", e)
      PROVE  c \in Claims(ds) /\ ConflictStatus(ds, c) = "none"
  <2>1. f.kind = "relationship" /\ f.of = e
    BY <1>3, Fields
  <2>2. c \in e.from
    BY <2>1 DEF Basis
  <2> QED
    BY <2>2, EdgesRestOnProjectable, ProjectableIsUncontested
<1> QED
  BY <1>0, <1>1, <1>2, <1>3 DEF Candidates

\* No plan over any documents carries an eligible intent that rests on a
\* contested claim.
THEOREM PublicationUndisputed == Spec => []NothingDisputedIsEligible
<1>1. NothingDisputedIsEligible
  BY EligibleIsUncontested DEF NothingDisputedIsEligible, Intents
<1> QED
  BY <1>1, PTL

-----------------------------------------------------------------------------
(* Qualification agrees with the producers of edges.                        *)

\* The claims an edge names pass the gate that qualification applies again.
LEMMA GatePasses ==
    ASSUME NEW ds, NEW e \in Edges(ds) PROVE ClaimGate(ds, e)
  BY EdgesRestOnProjectable, ProjectableIsUncontested DEF ClaimGate

\* A work relation is recognized as one, and admitted exactly when resolved.
LEMMA WorkEdgeQualified ==
    ASSUME NEW ds, NEW e \in WorkEdges(ds)
    PROVE  ~ Qualified(ds, e) <=> e.resolution \in {"unresolved", "ambiguous"}
<1>1. PICK c \in WorkClaims(ds) : e = WorkEdge(ds, c)
  BY DEF WorkEdges
<1>2. /\ e.type = WorkType(c.predicate) /\ e.resolution = Resolution(ds, c.object)
      /\ e.from = {c}
  BY <1>1, Fields DEF WorkEdge
<1>3. e.resolution \in {"unresolved", "exact-artifact", "ambiguous"}
  BY <1>2 DEF Resolution
<1>4. Origin(ds, e) = "work-projector"
  BY <1>2, <1>3 DEF Origin
<1>5. e.type \in {"DEPENDS_ON", "BLOCKED_BY", "REFERENCES", "SUPERSEDES"}
  BY <1>2 DEF WorkType
<1>6. Origin(ds, e) \in AdmissibleOrigins(e.type)
  BY <1>4, <1>5 DEF AdmissibleOrigins
<1>7. ClaimGate(ds, e)
  BY GatePasses DEF Edges
<1> QED
  BY <1>3, <1>4, <1>6, <1>7 DEF Qualified

\* An edge to a reference node carries the endpoint kind its family expects.
LEMMA ClaimEdgeQualified ==
    ASSUME NEW ds, NEW e \in ClaimEdges(ds)
    PROVE  Qualified(ds, e) /\ e.resolution = "none"
<1>1. PICK c \in ReferenceClaims(ds) : e = ClaimEdge(c)
  BY DEF ClaimEdges
<1>2. /\ e.type = EdgeType(c.predicate) /\ e.resolution = "none"
      /\ e.from = {c} /\ e.endpoint = EndpointKind(c.predicate)
  BY <1>1, Fields DEF ClaimEdge
<1>3. c.predicate \in EdgePredicates
  BY DEF ReferenceClaims
<1>4. /\ e.type \in {"DEPENDS_ON", "GOVERNED_BY", "SUPERSEDES"}
      /\ e.endpoint = ExpectedEndpoint(e.type) /\ e.endpoint # "none"
  BY <1>2, <1>3 DEF EdgePredicates, EdgeType, EndpointKind, ExpectedEndpoint
<1>5. Origin(ds, e) = "claim-projector"
  BY <1>2, <1>4 DEF Origin
<1>6. Origin(ds, e) \in AdmissibleOrigins(e.type)
  BY <1>4, <1>5 DEF AdmissibleOrigins
<1>7. ClaimGate(ds, e)
  BY GatePasses DEF Edges
<1> QED
  BY <1>2, <1>4, <1>5, <1>6, <1>7 DEF Qualified

\* The edges of the graph builder mirror the records it was given.
LEMMA BuilderEdgeQualified ==
    ASSUME NEW ds, NEW e \in CapabilityEdges(ds) \cup ContainsEdges(ds)
    PROVE  Qualified(ds, e) /\ e.resolution = "none"
<1>1. ASSUME NEW c \in CapabilityClaims(ds),
             e = Edge("IMPLEMENTS", c.subject, Capability(c), {}, "none", "none")
      PROVE  Qualified(ds, e) /\ e.resolution = "none"
  <2>1. /\ e.type = "IMPLEMENTS" /\ e.source = c.subject /\ e.target = Capability(c)
        /\ e.from = {} /\ e.resolution = "none"
    BY <1>1, Fields
  <2>2. Origin(ds, e) = "capability-record"
    BY <2>1 DEF Origin
  <2> QED
    BY <2>1, <2>2 DEF Qualified, AdmissibleOrigins
<1>2. ASSUME NEW d \in Present(ds), e = Edge("CONTAINS", Home[d], d, {}, "none", "none")
      PROVE  Qualified(ds, e) /\ e.resolution = "none"
  <2>1. /\ e.type = "CONTAINS" /\ e.source = Home[e.target] /\ e.target \in Present(ds)
        /\ e.from = {} /\ e.resolution = "none"
    BY <1>2, Fields
  <2>2. Origin(ds, e) = "artifact-containment"
    BY <2>1 DEF Origin
  <2> QED
    BY <2>1, <2>2 DEF Qualified, AdmissibleOrigins
<1> QED
  BY <1>1, <1>2 DEF CapabilityEdges, ContainsEdges

\* Whatever is compiled, strict qualification refuses the work relations that
\* did not resolve and nothing else.
THEOREM PublicationRefusals == Spec => []RefusedIsUnresolved
<1>1. RefusedIsUnresolved
  BY WorkEdgeQualified, ClaimEdgeQualified, BuilderEdgeQualified
     DEF RefusedIsUnresolved, Edges
<1> QED
  BY <1>1, PTL

-----------------------------------------------------------------------------
(* Types.                                                                   *)

\* A document that gets other content, or is taken away, leaves a snapshot.
LEMMA CommittedSnapshot ==
    ASSUME NEW ds \in Snapshots, NEW d \in Documents,
           NEW content \in Contents[d] \cup {Absent}
    PROVE  [ds EXCEPT ![d] = content] \in Snapshots
<1> DEFINE All == (UNION {Contents[x] : x \in Documents}) \cup {Absent}
<1>1. content \in Contents[d] \/ content = Absent
  OBVIOUS
<1>2. \A x \in Documents : Contents[x] \subseteq All
  OBVIOUS
<1>3. Absent \in All
  OBVIOUS
<1>4. ds \in [Documents -> All] /\ \A x \in Documents : ds[x] \in Contents[x] \cup {Absent}
  BY DEF Snapshots
<1>5. content \in All
  <2> HIDE DEF All
  <2> QED
    BY <1>1, <1>2, <1>3
<1>6. [ds EXCEPT ![d] = content] \in [Documents -> All]
  <2> HIDE DEF All
  <2> QED
    BY <1>4, <1>5
<1>7. \A x \in Documents : [ds EXCEPT ![d] = content][x] \in Contents[x] \cup {Absent}
  BY <1>1, <1>4
<1> QED
  BY <1>6, <1>7 DEF Snapshots

\* The types of what a plan is built from, and of what the memory is told.
THEOREM PublicationTypeCorrect == Spec => []PublicationTypeOK
<1>1. Init => PublicationTypeOK
  BY PublicationAssumption DEF Init, PublicationTypeOK
<1>2. PublicationTypeOK /\ [Next]_vars => PublicationTypeOK'
  <2> SUFFICES ASSUME PublicationTypeOK, [Next]_vars PROVE PublicationTypeOK'
    OBVIOUS
  <2> USE PublicationAssumption DEF PublicationTypeOK
  <2>1. ASSUME NEW d \in Documents, NEW content \in Contents[d] \cup {Absent}, Commit(d, content)
        PROVE  PublicationTypeOK'
    <3>1. docs' \in Snapshots
      BY <2>1, CommittedSnapshot DEF Commit
    <3>2. revision' \in 0 .. MaxCommits /\ revision <= revision'
      BY <2>1 DEF Commit
    <3> QED
      BY <2>1, <3>1, <3>2 DEF Commit
  <2>2. CASE BuildPlan
    BY <2>2 DEF BuildPlan
  <2>3. ASSUME NEW f, Deliver(f)
        PROVE  PublicationTypeOK'
    <3>1. UNCHANGED <<docs, revision, plan>>
      BY <2>3 DEF Deliver
    <3>2. \A r \in memory' : DOMAIN r = {"key", "write"}
      BY <2>3 DEF Deliver
    <3> QED
      BY <3>1, <3>2
  <2>4. CASE UNCHANGED vars
    BY <2>4 DEF vars
  <2> QED
    BY <2>1, <2>2, <2>3, <2>4 DEF Next
<1> QED
  BY <1>1, <1>2, PTL DEF Spec

-----------------------------------------------------------------------------
(* Targets.                                                                 *)

\* What documents say is typed.
LEMMA ClaimTyped ==
    ASSUME NEW ds \in Snapshots, NEW c \in Claims(ds)
    PROVE  /\ c.subject \in Documents \cup Repositories \cup Objects
           /\ c.object \in Documents \cup Objects
<1>1. PICK d \in Documents : ds[d] # Absent /\ c \in ds[d].says
  BY DEF Claims, Present
<1>2. ds[d] \in Contents[d]
  BY <1>1 DEF Snapshots
<1> QED
  BY <1>1, <1>2, PublicationAssumption

\* A resolved target is one document that is there.
LEMMA ExactTarget ==
    ASSUME NEW ds, NEW t, Resolution(ds, t) = "exact-artifact"
    PROVE  WorkTarget(ds, t) \in Present(ds) /\ Cardinality(Matches(ds, t)) <= 1
<1>1. Matches(ds, t) # {} /\ Cardinality(Matches(ds, t)) = 1
  BY FS_EmptySet DEF Resolution
<1>2. Matches(ds, t) \subseteq Present(ds)
  BY DEF Matches
<1>3. WorkTarget(ds, t) \in Matches(ds, t)
  BY <1>1 DEF WorkTarget
<1> QED
  BY <1>1, <1>2, <1>3

\* A target that is not ambiguous matches at most one document.
LEMMA FewMatches ==
    ASSUME NEW ds, NEW t, Resolution(ds, t) # "ambiguous"
    PROVE  Cardinality(Matches(ds, t)) <= 1
<1>1. CASE Matches(ds, t) = {}
  BY <1>1, FS_EmptySet
<1>2. CASE Matches(ds, t) # {}
  BY <1>2, ExactTarget DEF Resolution
<1> QED
  BY <1>1, <1>2

\* An eligible claim about work has a target that is not ambiguous: an
\* ambiguous one is an unknown in the field the claim is about.
LEMMA EligibleWorkClaim ==
    ASSUME NEW ds, NEW c \in Claims(ds), c.predicate \in WorkPredicates,
           Decide(ds, Fact("claim", c)) = "eligible"
    PROVE  Resolution(ds, c.object) # "ambiguous"
<1> DEFINE f == Fact("claim", c)
<1>0. f.kind = "claim" /\ f.of = c
  BY Fields
<1>1. IsProjectable(c.predicate)
  BY DEF IsProjectable, WorkPredicates, SetPredicates, DeclarationOnlyPredicates
<1>2. c \in WorkClaims(ds)
  BY <1>1, EligibleClaimIsUncontested DEF WorkClaims, ProjectableClaims, ProjectionIneligible
<1>3. SUFFICES ASSUME Resolution(ds, c.object) = "ambiguous" PROVE FALSE
  OBVIOUS
<1>4. [subject |-> c.subject, field |-> c.predicate] \in Unknowns(ds)
  BY <1>2, <1>3 DEF Unknowns
<1>5. c.subject \in Entities(f) /\ c.predicate \in SourceFields(f)
  BY <1>0 DEF Entities, SourceFields
<1>6. ~ Material(Unknowns(ds), f)
  BY DEF Decide
<1> QED
  BY <1>4, <1>5, <1>6 DEF Material

\* What an edge with a recorded resolution is.
LEMMA ResolvedEdge ==
    ASSUME NEW ds, NEW e \in Edges(ds), e.resolution # "none" \/ (\E c \in e.from : c.predicate \in WorkPredicates)
    PROVE  \E c \in WorkClaims(ds) : e = WorkEdge(ds, c)
<1>1. CASE e \in ClaimEdges(ds)
  <2>1. PICK c \in ReferenceClaims(ds) : e = ClaimEdge(c)
    BY <1>1 DEF ClaimEdges
  <2>2. e.from = {c} /\ e.resolution = "none"
    BY <2>1, Fields DEF ClaimEdge
  <2>3. c.predicate \notin WorkPredicates
    BY DEF ReferenceClaims, EdgePredicates, WorkPredicates
  <2> QED
    BY <2>2, <2>3
<1>2. CASE e \in CapabilityEdges(ds) \cup ContainsEdges(ds)
  BY <1>2, Fields DEF CapabilityEdges, ContainsEdges
<1> QED
  BY <1>1, <1>2 DEF Edges, WorkEdges

\* A node with the name of a subject is an observed entity.
LEMMA SubjectObserved ==
    ASSUME NEW ds \in Snapshots, NEW s \in Documents \cup Repositories \cup Objects, s \in Nodes(ds)
    PROVE  s \in Observed(ds)
<1>1. ASSUME NEW c \in CapabilityClaims(ds) PROVE s # Capability(c)
  BY ClaimTyped, ReferencesAssumption DEF CapabilityClaims, ProjectableClaims, Capability
<1>2. ASSUME NEW c \in ReferenceClaims(ds) PROVE s # Reference(c)
  BY ClaimTyped, ReferencesAssumption DEF ReferenceClaims, ProjectableClaims, Reference
<1>3. ASSUME NEW c \in WorkClaims(ds), s = WorkTarget(ds, c.object) PROVE s \in Present(ds)
  <2>1. c.object \in Documents \cup Objects
    BY ClaimTyped DEF WorkClaims, ProjectableClaims
  <2>2. s # External("work-reference", c.object)
    BY <2>1, ReferencesAssumption DEF EdgePredicates
  <2> QED
    BY <1>3, <2>2, ExactTarget DEF WorkTarget
<1> QED
  BY <1>1, <1>2, <1>3 DEF Nodes, Observed

\* An eligible work relation joins observed entities and rests on one target.
LEMMA EligibleWorkEdge ==
    ASSUME NEW ds \in Snapshots, NEW c \in WorkClaims(ds), NEW e, e = WorkEdge(ds, c),
           Qualified(ds, e), {e.source, e.target} \subseteq Nodes(ds)
    PROVE  /\ {e.source, e.target} \subseteq Observed(ds)
           /\ Cardinality(Matches(ds, c.object)) <= 1
           /\ e.from = {c}
<1>1. e.from = {c} /\ e.resolution = Resolution(ds, c.object)
  BY Fields DEF WorkEdge
<1>2. {e.source, e.target} = {c.subject, WorkTarget(ds, c.object)}
  BY Fields DEF WorkEdge
<1>3. e.resolution \in {"unresolved", "exact-artifact", "ambiguous"}
  BY <1>1 DEF Resolution
<1>4. e \in WorkEdges(ds)
  BY DEF WorkEdges
<1>5. Resolution(ds, c.object) = "exact-artifact"
  BY <1>1, <1>3, <1>4, WorkEdgeQualified
<1>6. WorkTarget(ds, c.object) \in Observed(ds)
  BY <1>5, ExactTarget DEF Observed
<1>7. c.subject \in Documents \cup Repositories \cup Objects
  BY ClaimTyped DEF WorkClaims, ProjectableClaims
<1>8. c.subject \in Observed(ds)
  BY <1>2, <1>7, SubjectObserved
<1> QED
  BY <1>1, <1>2, <1>5, <1>6, <1>8, ExactTarget

\* What an eligible fact says of work is about observed entities.
LEMMA EligibleIsUnambiguous ==
    ASSUME NEW ds \in Snapshots, NEW f \in Eligible(ds)
    PROVE  /\ f.kind = "relationship" /\ f.of.resolution # "none"
                => {f.of.source, f.of.target} \subseteq Observed(ds)
           /\ \A c \in Basis(f) :
                c.predicate \in WorkPredicates => Cardinality(Matches(ds, c.object)) <= 1
<1>0. f \in Candidates(ds) /\ Decide(ds, f) = "eligible"
  BY DEF Eligible
<1>1. ASSUME NEW d \in Claims(ds), f = Fact("claim", d)
      PROVE  /\ f.kind = "claim" /\ Basis(f) = {d}
             /\ d.predicate \in WorkPredicates => Cardinality(Matches(ds, d.object)) <= 1
  BY <1>0, <1>1, Fields, EligibleWorkClaim, FewMatches DEF Basis
<1>2. ASSUME NEW d \in CapabilityClaims(ds), f = Fact("entity", d)
      PROVE  f.kind = "entity" /\ Basis(f) = {d} /\ d.predicate \notin WorkPredicates
  BY <1>2, Fields DEF Basis, CapabilityClaims, WorkPredicates
<1>3. ASSUME NEW e \in Edges(ds), Qualified(ds, e), f = Fact("relationship", e)
      PROVE  /\ e.resolution # "none" => {e.source, e.target} \subseteq Observed(ds)
             /\ \A c \in e.from :
                  c.predicate \in WorkPredicates => Cardinality(Matches(ds, c.object)) <= 1
  <2>1. f.kind = "relationship" /\ f.of = e
    BY <1>3, Fields
  <2>2. {e.source, e.target} \subseteq Nodes(ds)
    BY <1>0, <2>1 DEF Decide, Entities
  <2>3. SUFFICES ASSUME e.resolution # "none" \/ (\E c \in e.from : c.predicate \in WorkPredicates)
                 PROVE  /\ {e.source, e.target} \subseteq Observed(ds)
                        /\ \A c \in e.from : Cardinality(Matches(ds, c.object)) <= 1
    OBVIOUS
  <2>4. PICK c \in WorkClaims(ds) : e = WorkEdge(ds, c)
    BY <2>3, ResolvedEdge
  <2> QED
    BY <1>3, <2>2, <2>4, EligibleWorkEdge
<1>4. ASSUME NEW e, f = Fact("relationship", e)
      PROVE  f.kind = "relationship" /\ f.of = e /\ Basis(f) = e.from
  BY <1>4, Fields DEF Basis
<1> QED
  BY <1>0, <1>1, <1>2, <1>3, <1>4 DEF Candidates

\* Every eligible work relation of every plan joins entities that were
\* observed, and no eligible fact rests on a guess between several documents.
THEOREM PublicationUnambiguous == Spec => []NothingAmbiguousIsEligible
<1>1. PublicationTypeOK => NothingAmbiguousIsEligible
  BY EligibleIsUnambiguous DEF PublicationTypeOK, NothingAmbiguousIsEligible, Intents
<1> QED
  BY <1>1, PublicationTypeCorrect, PTL

\* The two together: what a plan offers for publication is settled.
THEOREM PublicationSettled == Spec => []NothingUnsettledIsEligible
<1> QED
  BY PublicationUndisputed, PublicationUnambiguous, PTL DEF NothingUnsettledIsEligible

-----------------------------------------------------------------------------
(* Disputes stay in their field.                                            *)

\* The claims that answer the question of a claim.
LEMMA AnswersAre ==
    ASSUME NEW ds, NEW c, NEW o
    PROVE  o \in Answers(ds, c) <=>
             \E x \in Claims(ds) : x.subject = c.subject /\ x.predicate = c.predicate /\ x.object = o
  BY DEF Answers

\* A field is in conflict when it has one value and several answers.
LEMMA ConflictIsDivision ==
    ASSUME NEW ds, NEW c
    PROVE  [subject |-> c.subject, field |-> c.predicate] \in Conflicts(ds) <=>
             /\ c.predicate \in SinglePredicates
             /\ \E o, q \in Answers(ds, c) : o # q
<1>1. ASSUME NEW x, x.subject = c.subject, x.predicate = c.predicate
      PROVE  Answers(ds, x) = Answers(ds, c)
  BY <1>1 DEF Answers
<1>2. ASSUME [subject |-> c.subject, field |-> c.predicate] \in Conflicts(ds)
      PROVE  c.predicate \in SinglePredicates /\ \E o, q \in Answers(ds, c) : o # q
  <2>1. PICK x \in Claims(ds) :
          /\ ConflictStatus(ds, x) = "confirmed"
          /\ [subject |-> c.subject, field |-> c.predicate] = [subject |-> x.subject, field |-> x.predicate]
    BY <1>2 DEF Conflicts
  <2>2. x.subject = c.subject /\ x.predicate = c.predicate
    BY <2>1
  <2>3. Divided(ds, x) /\ x.predicate \in SinglePredicates
    BY <2>1 DEF ConflictStatus
  <2>4. x.object \in Answers(ds, c)
    BY <2>2, AnswersAre
  <2> QED
    BY <1>1, <2>2, <2>3, <2>4 DEF Divided
<1>3. ASSUME c.predicate \in SinglePredicates, NEW o \in Answers(ds, c), NEW q \in Answers(ds, c), o # q
      PROVE  [subject |-> c.subject, field |-> c.predicate] \in Conflicts(ds)
  <2>1. PICK x \in Claims(ds) : x.subject = c.subject /\ x.predicate = c.predicate /\ x.object = o
    BY AnswersAre
  <2>2. Divided(ds, x)
    BY <1>1, <1>3, <2>1 DEF Divided
  <2>3. ConflictStatus(ds, x) = "confirmed"
    BY <1>3, <2>1, <2>2 DEF ConflictStatus
  <2> QED
    BY <2>1, <2>3 DEF Conflicts
<1> QED
  BY <1>2, <1>3

\* A field is unknown when its predicate is not supported or one of its answers
\* names several documents.
LEMMA UnknownIsAmbiguity ==
    ASSUME NEW ds, NEW c \in Claims(ds)
    PROVE  [subject |-> c.subject, field |-> c.predicate] \in Unknowns(ds) <=>
             \/ c.predicate \notin SupportedPredicates
             \/ /\ c.predicate \in WorkPredicates
                /\ \E o \in Answers(ds, c) : Resolution(ds, o) = "ambiguous"
<1>1. ASSUME NEW x \in Claims(ds), x.predicate \in WorkPredicates PROVE x \in WorkClaims(ds)
  <2>1. IsProjectable(x.predicate)
    BY <1>1 DEF IsProjectable, WorkPredicates, SetPredicates, DeclarationOnlyPredicates
  <2>2. x.predicate \notin SinglePredicates /\ x.predicate \in SupportedPredicates
    BY <1>1 DEF WorkPredicates, SinglePredicates, SupportedPredicates, SetPredicates
  <2>3. ConflictStatus(ds, x) = "none"
    BY <2>2 DEF ConflictStatus
  <2> QED
    BY <1>1, <2>1, <2>3 DEF WorkClaims, ProjectableClaims, ProjectionIneligible
<1>2. ASSUME [subject |-> c.subject, field |-> c.predicate] \in Unknowns(ds),
             c.predicate \in SupportedPredicates
      PROVE  /\ c.predicate \in WorkPredicates
             /\ \E o \in Answers(ds, c) : Resolution(ds, o) = "ambiguous"
  <2>1. PICK x : /\ \/ x \in Claims(ds) /\ x.predicate \notin SupportedPredicates
                    \/ x \in WorkClaims(ds) /\ Resolution(ds, x.object) = "ambiguous"
                 /\ [subject |-> c.subject, field |-> c.predicate] = [subject |-> x.subject, field |-> x.predicate]
    BY <1>2 DEF Unknowns
  <2>2. x.subject = c.subject /\ x.predicate = c.predicate
    BY <2>1
  <2>3. x \in WorkClaims(ds) /\ Resolution(ds, x.object) = "ambiguous"
    BY <1>2, <2>1, <2>2
  <2>4. x \in Claims(ds) /\ x.predicate \in WorkPredicates
    BY <2>3 DEF WorkClaims, ProjectableClaims
  <2> QED
    BY <2>2, <2>3, <2>4, AnswersAre
<1>3. ASSUME c.predicate \notin SupportedPredicates
      PROVE  [subject |-> c.subject, field |-> c.predicate] \in Unknowns(ds)
  BY <1>3 DEF Unknowns
<1>4. ASSUME c.predicate \in WorkPredicates, NEW o \in Answers(ds, c), Resolution(ds, o) = "ambiguous"
      PROVE  [subject |-> c.subject, field |-> c.predicate] \in Unknowns(ds)
  <2>1. PICK x \in Claims(ds) : x.subject = c.subject /\ x.predicate = c.predicate /\ x.object = o
    BY AnswersAre
  <2>2. x \in WorkClaims(ds) /\ Resolution(ds, x.object) = "ambiguous"
    BY <1>1, <1>4, <2>1
  <2> QED
    BY <2>1, <2>2 DEF Unknowns
<1> QED
  BY <1>2, <1>3, <1>4

\* What may hold a claim is a record of its own field; nothing of the kind may
\* hold a capability or a relation.
LEMMA HeldByOwnField ==
    ASSUME NEW f, NEW ds
    PROVE  /\ f.kind # "claim" => ~ Material(Conflicts(ds), f) /\ ~ Material(Unknowns(ds), f)
           /\ f.kind = "claim" =>
                /\ Material(Conflicts(ds), f) <=>
                     [subject |-> f.of.subject, field |-> f.of.predicate] \in Conflicts(ds)
                /\ Material(Unknowns(ds), f) <=>
                     [subject |-> f.of.subject, field |-> f.of.predicate] \in Unknowns(ds)
<1> DEFINE own == [subject |-> f.of.subject, field |-> f.of.predicate]
<1>1. ASSUME NEW r \in Conflicts(ds) \cup Unknowns(ds)
      PROVE  r = [subject |-> r.subject, field |-> r.field]
  BY DEF Conflicts, Unknowns
<1>2. own.subject = f.of.subject /\ own.field = f.of.predicate
  OBVIOUS
<1>3. ASSUME f.kind # "claim", NEW R PROVE ~ Material(R, f)
  BY <1>3 DEF Material, SourceFields
<1>4. ASSUME f.kind = "claim", NEW R
      PROVE  Material(R, f) <=> \E r \in R : r.subject = f.of.subject /\ r.field = f.of.predicate
  BY <1>4 DEF Material, SourceFields, Entities
<1>5. ASSUME NEW r \in Conflicts(ds) \cup Unknowns(ds), r.subject = f.of.subject, r.field = f.of.predicate
      PROVE  r = own
  BY <1>1, <1>5
<1> HIDE DEF own
<1>6. ASSUME f.kind = "claim"
      PROVE  /\ Material(Conflicts(ds), f) <=> own \in Conflicts(ds)
             /\ Material(Unknowns(ds), f) <=> own \in Unknowns(ds)
  <2>1. Material(Conflicts(ds), f) <=> own \in Conflicts(ds)
    BY <1>2, <1>4, <1>5, <1>6
  <2>2. Material(Unknowns(ds), f) <=> own \in Unknowns(ds)
    BY <1>2, <1>4, <1>5, <1>6
  <2> QED
    BY <2>1, <2>2
<1> QED
  BY <1>3, <1>6 DEF own

\* Two snapshots that give the question of a fact the same answers, the answers
\* the same matches and the fact the same known entities decide it alike.
LEMMA DecisionFollowsQuestion ==
    ASSUME NEW ds, NEW dt, NEW f \in Candidates(ds) \cap Candidates(dt),
           Question(ds, f) = Question(dt, f)
    PROVE  Decide(ds, f) = Decide(dt, f)
<1>1. Entities(f) \cap Nodes(ds) = Entities(f) \cap Nodes(dt)
  BY DEF Question
<1>2. Entities(f) \subseteq Nodes(ds) <=> Entities(f) \subseteq Nodes(dt)
  BY <1>1
<1>3. CASE f.kind # "claim"
  BY <1>2, <1>3, HeldByOwnField DEF Decide, Unsupported
<1>4. CASE f.kind = "claim"
  <2> DEFINE c == f.of
  <2>1. c \in Claims(ds) /\ c \in Claims(dt)
    BY <1>4, Fields DEF Candidates
  <2>2. Basis(f) = {c}
    BY <1>4 DEF Basis
  <2>3. [o \in Answers(ds, c) |-> Matches(ds, o)] = [o \in Answers(dt, c) |-> Matches(dt, o)]
    BY <2>2 DEF Question
  <2>4. Answers(ds, c) = Answers(dt, c) /\ \A o \in Answers(ds, c) : Matches(ds, o) = Matches(dt, o)
    <3> DEFINE g == [o \in Answers(ds, c) |-> Matches(ds, o)]
               h == [o \in Answers(dt, c) |-> Matches(dt, o)]
    <3>1. DOMAIN g = DOMAIN h /\ \A o \in Answers(ds, c) : g[o] = h[o]
      BY <2>3
    <3> QED
      BY <3>1
  <2>5. \A o \in Answers(ds, c) : Resolution(ds, o) = Resolution(dt, o)
    BY <2>4 DEF Resolution
  <2>6. Material(Conflicts(ds), f) <=> Material(Conflicts(dt), f)
    <3> DEFINE own == [subject |-> c.subject, field |-> c.predicate]
    <3>1. /\ Material(Conflicts(ds), f) <=> own \in Conflicts(ds)
          /\ Material(Conflicts(dt), f) <=> own \in Conflicts(dt)
      BY <1>4, HeldByOwnField
    <3>2. own \in Conflicts(ds) <=> c.predicate \in SinglePredicates /\ \E o, q \in Answers(ds, c) : o # q
      BY ConflictIsDivision
    <3>3. own \in Conflicts(dt) <=> c.predicate \in SinglePredicates /\ \E o, q \in Answers(dt, c) : o # q
      BY ConflictIsDivision
    <3> QED
      BY <2>4, <3>1, <3>2, <3>3
  <2>7. Material(Unknowns(ds), f) <=> Material(Unknowns(dt), f)
    BY <1>4, <2>1, <2>4, <2>5, HeldByOwnField, UnknownIsAmbiguity
  <2> QED
    BY <1>2, <2>6, <2>7 DEF Decide
<1> QED
  BY <1>3, <1>4

\* Whatever a commit changes, the decision on a fact moves only with its own
\* question.
THEOREM PublicationContained == Spec => DisputeIsContained
<1>1. [Next]_vars =>
        [\A f \in Shared : Question(docs, f) = Question(docs', f) => Decide(docs, f) = Decide(docs', f)]_<<docs, revision>>
  BY DecisionFollowsQuestion DEF Shared
<1> QED
  BY <1>1, PTL DEF Spec, DisputeIsContained

-----------------------------------------------------------------------------
(* What a key tells.                                                        *)

\* A capability is named by the one claim that declares it.
LEMMA CapabilityIsItsClaim ==
    ASSUME NEW ds \in Snapshots, NEW c \in CapabilityClaims(ds),
           NEW dt \in Snapshots, NEW d \in CapabilityClaims(dt), Capability(c) = Capability(d)
    PROVE  c = d
<1>1. ASSUME NEW es \in Snapshots, NEW x \in CapabilityClaims(es)
      PROVE  x = [subject |-> x.subject, predicate |-> x.predicate, object |-> x.object]
             /\ x.predicate = "service.action"
  <2>1. x \in Claims(es) /\ x.predicate = "service.action"
    BY DEF CapabilityClaims, ProjectableClaims
  <2>2. PICK a \in Documents : es[a] # Absent /\ x \in es[a].says
    BY <2>1 DEF Claims, Present
  <2>3. es[a] \in Contents[a]
    BY <2>2 DEF Snapshots
  <2> QED
    BY <2>1, <2>2, <2>3, PublicationAssumption
<1>2. c.subject = d.subject /\ c.object = d.object
  BY DEF Capability
<1> QED
  BY <1>1, <1>2

\* Edges without a claim are the graph builder's.
LEMMA UnclaimedEdge ==
    ASSUME NEW ds, NEW e \in Edges(ds), e.from = {}
    PROVE  \/ e.type = "IMPLEMENTS" /\ \E c \in CapabilityClaims(ds) : e.target = Capability(c)
           \/ e.type = "CONTAINS" /\ e.target \in Present(ds)
<1>1. ASSUME NEW c, e = WorkEdge(ds, c) \/ e = ClaimEdge(c) PROVE FALSE
  <2>1. e.from = {c}
    BY <1>1, Fields DEF WorkEdge, ClaimEdge
  <2> QED
    BY <2>1
<1>2. ASSUME NEW c \in CapabilityClaims(ds),
             e = Edge("IMPLEMENTS", c.subject, Capability(c), {}, "none", "none")
      PROVE  e.type = "IMPLEMENTS" /\ e.target = Capability(c)
  BY <1>2, Fields
<1>3. ASSUME NEW d \in Present(ds), e = Edge("CONTAINS", Home[d], d, {}, "none", "none")
      PROVE  e.type = "CONTAINS" /\ e.target = d
  BY <1>3, Fields
<1> QED
  BY <1>1, <1>2, <1>3 DEF Edges, WorkEdges, ClaimEdges, CapabilityEdges, ContainsEdges

\* The relation a fact is about is one of the graph.
LEMMA RelationOf ==
    ASSUME NEW ds, NEW f \in Candidates(ds), f.kind = "relationship"
    PROVE  f.of \in Edges(ds)
  BY Fields DEF Candidates

\* What a fact rests on is documents.
LEMMA EvidenceIsDocuments ==
    ASSUME NEW ds, NEW f \in Candidates(ds)
    PROVE  Evidence(ds, f) \subseteq Documents /\ IsFiniteSet(Evidence(ds, f))
<1>1. Present(ds) \subseteq Documents
  BY DEF Present
<1>2. CASE f.kind = "relationship" /\ f.of.from = {} /\ f.of.type # "IMPLEMENTS"
  <2>1. f.of.target \in Present(ds)
    BY <1>2, RelationOf, UnclaimedEdge
  <2> QED
    BY <1>1, <1>2, <2>1, FS_Subset, PublicationAssumption DEF Evidence
<1>3. CASE ~ (f.kind = "relationship" /\ f.of.from = {} /\ f.of.type # "IMPLEMENTS")
  <2>1. Evidence(ds, f) \subseteq Present(ds)
    BY <1>3 DEF Evidence
  <2> QED
    BY <1>1, <2>1, FS_Subset, PublicationAssumption
<1> QED
  BY <1>2, <1>3

\* Evidence that fits the ceiling is kept, whatever its identifiers are.
LEMMA WithinIsKept ==
    ASSUME NEW ds, NEW rev \in 0 .. MaxCommits, NEW f \in Candidates(ds), Within(ds, f)
    PROVE  Kept(ds, rev, f) = Evidence(ds, f)
<1> DEFINE E == Evidence(ds, f)
<1>1. E \subseteq Documents /\ IsFiniteSet(E) /\ Cardinality(E) <= MaxEvidenceRefs
  BY EvidenceIsDocuments DEF Within
<1>2. ASSUME NEW d \in E PROVE Cardinality({x \in E : Rank[rev][x] < Rank[rev][d]}) < MaxEvidenceRefs
  <2> DEFINE B == {x \in E : Rank[rev][x] < Rank[rev][d]}
  <2>1. d \notin B /\ B \subseteq E \ {d}
    BY <1>1, PublicationAssumption
  <2>2. IsFiniteSet(E \ {d}) /\ Cardinality(E \ {d}) = Cardinality(E) - 1
    BY <1>1, FS_RemoveElement
  <2>3. Cardinality(B) <= Cardinality(E \ {d}) /\ IsFiniteSet(B)
    BY <2>1, <2>2, FS_Subset
  <2>4. Cardinality(B) \in Nat /\ Cardinality(E) \in Nat
    BY <1>1, <2>3, FS_CardinalityType
  <2> HIDE DEF B, E
  <2> QED
    BY <1>1, <2>2, <2>3, <2>4, PublicationAssumption DEF B
<1> QED
  BY <1>2 DEF Kept

\* Two bags of evidence differ when they are over the same documents but for
\* one, and that one is missing or has other bytes in the second.
LEMMA BagsDiffer ==
    ASSUME NEW ds, NEW dt, NEW E, NEW F, IsFiniteSet(E), NEW d \in E,
           \A x : x # d => /\ x \in E <=> x \in F
                           /\ x \in E => ds[x] = dt[x],
           d \in F => dt[d] # ds[d]
    PROVE  EvidenceSemantics(ds, E) # EvidenceSemantics(dt, F)
<1> DEFINE m == Semantics(ds, d)
           A == {x \in E : Semantics(ds, x) = m}
           B == {x \in F : Semantics(dt, x) = m}
<1>1. ASSUME NEW x, x # d PROVE x \in A <=> x \in B
  BY <1>1 DEF Semantics
<1>2. d \in A
  OBVIOUS
<1>3. d \notin B
  BY DEF Semantics
<1>4. IsFiniteSet(A) /\ B = A \ {d}
  <2>1. A \subseteq E
    OBVIOUS
  <2>2. IsFiniteSet(A)
    BY <2>1, FS_Subset
  <2> HIDE DEF A, B
  <2> QED
    BY <1>1, <1>2, <1>3, <2>2
<1>5. Cardinality(B) = Cardinality(A) - 1 /\ Cardinality(A) \in Nat
  <2> HIDE DEF A, B
  <2> QED
    BY <1>2, <1>4, FS_RemoveElement, FS_CardinalityType
<1>6. m \in DOMAIN EvidenceSemantics(ds, E) /\ EvidenceSemantics(ds, E)[m] = Cardinality(A)
  BY DEF EvidenceSemantics
<1>7. m \in DOMAIN EvidenceSemantics(dt, F) => EvidenceSemantics(dt, F)[m] = Cardinality(B)
  BY DEF EvidenceSemantics
<1> HIDE DEF A, B, m
<1> QED
  BY <1>5, <1>6, <1>7

\* A fact of two snapshots is supported through the same claims in both.
LEMMA SameGrounds ==
    ASSUME NEW ds \in Snapshots, NEW dt \in Snapshots, NEW f \in Candidates(ds) \cap Candidates(dt)
    PROVE  Grounds(ds, f) = Grounds(dt, f)
<1>1. CASE Basis(f) # {}
  BY <1>1 DEF Grounds
<1>2. CASE Basis(f) = {}
  <2>1. f.kind = "relationship" /\ f.of.from = {}
    BY <1>2 DEF Basis
  <2>2. CASE f.of.type # "IMPLEMENTS"
    BY <1>2, <2>2 DEF Grounds
  <2>3. CASE f.of.type = "IMPLEMENTS"
    <3>1. PICK c \in CapabilityClaims(ds) : f.of.target = Capability(c)
      BY <2>1, <2>3, RelationOf, UnclaimedEdge
    <3>2. PICK d \in CapabilityClaims(dt) : f.of.target = Capability(d)
      BY <2>1, <2>3, RelationOf, UnclaimedEdge
    <3>3. \A y \in CapabilityClaims(ds) : Capability(y) = f.of.target => y = c
      BY <3>1, CapabilityIsItsClaim
    <3>4. \A y \in CapabilityClaims(dt) : Capability(y) = f.of.target => y = c
      BY <3>1, CapabilityIsItsClaim
    <3>5. d = c
      BY <3>2, <3>4
    <3>6. {y \in CapabilityClaims(ds) : f.of.type = "IMPLEMENTS" /\ Capability(y) = f.of.target} = {c}
      BY <2>3, <3>1, <3>3
    <3>7. {y \in CapabilityClaims(dt) : f.of.type = "IMPLEMENTS" /\ Capability(y) = f.of.target} = {c}
      BY <2>3, <3>2, <3>4, <3>5
    <3> QED
      BY <1>2, <3>6, <3>7 DEF Grounds
  <2> QED
    BY <2>2, <2>3
<1> QED
  BY <1>1, <1>2

\* Two snapshots that differ in one document support a fact of both alike, but
\* for that document.
LEMMA EvidenceElsewhere ==
    ASSUME NEW ds \in Snapshots, NEW dt \in Snapshots, NEW d,
           \A x \in Documents : x # d => ds[x] = dt[x],
           NEW f \in Candidates(ds) \cap Candidates(dt), NEW x, x # d
    PROVE  x \in Evidence(ds, f) <=> x \in Evidence(dt, f)
<1>1. x \in Present(ds) <=> x \in Present(dt)
  BY DEF Present
<1>2. ASSUME NEW c PROVE x \in Support(ds, c) <=> x \in Support(dt, c)
  BY DEF Support, Present
<1> QED
  BY <1>1, <1>2, SameGrounds DEF Evidence

\* The status of a claim is spelled out in what it is known by.
LEMMA CandidateTellsStatus ==
    ASSUME NEW ds, NEW dt, NEW f, CandidateId(ds, f) = CandidateId(dt, f)
    PROVE  Status(ds, f) = Status(dt, f)
<1>1. CASE f.kind = "claim"
  <2>1. /\ CandidateId(ds, f).of = [triple |-> f.of, status |-> Status(ds, f)]
        /\ CandidateId(dt, f).of = [triple |-> f.of, status |-> Status(dt, f)]
    BY <1>1 DEF CandidateId, Fact
  <2> QED
    BY <2>1
<1>2. CASE f.kind # "claim"
  BY <1>2 DEF Status
<1> QED
  BY <1>1, <1>2

\* Of one fact with one evidence, what is written follows the bytes and the
\* status: neither the rest of the snapshot nor the revision enters.
LEMMA SameStateSameKey ==
    ASSUME NEW ds, NEW rev \in 0 .. MaxCommits, NEW dt, NEW later \in 0 .. MaxCommits,
           NEW f \in Candidates(ds) \cap Candidates(dt), Within(ds, f), Within(dt, f),
           LocalState(ds, f) = LocalState(dt, f)
    PROVE  Key(ds, rev, f) = Key(dt, later, f)
<1> DEFINE E == Evidence(ds, f)
<1>1. /\ [d \in Evidence(ds, f) |-> ds[d]] = [d \in Evidence(dt, f) |-> dt[d]]
      /\ Status(ds, f) = Status(dt, f)
  BY DEF LocalState
<1>2. Evidence(dt, f) = E /\ \A d \in E : ds[d] = dt[d]
  <2> DEFINE g == [d \in Evidence(ds, f) |-> ds[d]]
             h == [d \in Evidence(dt, f) |-> dt[d]]
  <2>1. DOMAIN g = DOMAIN h /\ \A d \in E : g[d] = h[d]
    BY <1>1
  <2> QED
    BY <2>1
<1>3. Kept(ds, rev, f) = E /\ Kept(dt, later, f) = E
  BY <1>2, WithinIsKept
<1> HIDE DEF E
<1>4. CandidateId(ds, f) = CandidateId(dt, f)
  BY <1>1 DEF CandidateId
<1>5. EvidenceSemantics(ds, E) = EvidenceSemantics(dt, E)
  <2>1. \A d \in E : Semantics(ds, d) = Semantics(dt, d)
    BY <1>2 DEF Semantics
  <2>2. {Semantics(ds, d) : d \in E} = {Semantics(dt, d) : d \in E}
    BY <2>1
  <2>3. ASSUME NEW m PROVE {d \in E : Semantics(ds, d) = m} = {d \in E : Semantics(dt, d) = m}
    BY <2>1
  <2> QED
    BY <2>2, <2>3 DEF EvidenceSemantics
<1>6. Method(ds, f) = Method(dt, f) /\ Derived(ds, f) = Derived(dt, f)
  BY <1>2 DEF Method, Derived, E
<1>7. Score(ds, f) = Score(dt, f)
  BY <1>1, <1>2 DEF Score, E
<1>8. Confidence(ds, rev, f) = Confidence(dt, later, f)
  BY <1>3, <1>6, <1>7 DEF Confidence
<1> QED
  BY <1>3, <1>4, <1>5, <1>6, <1>8 DEF Key

\* When one document was changed, a key that stays tells that the bytes a fact
\* rests on, and its status, have stayed.
LEMMA SameKeySameState ==
    ASSUME NEW ds \in Snapshots, NEW rev \in 0 .. MaxCommits,
           NEW dt \in Snapshots, NEW later \in 0 .. MaxCommits,
           NEW d, \A x \in Documents : x # d => ds[x] = dt[x],
           NEW f \in Candidates(ds) \cap Candidates(dt), Within(ds, f), Within(dt, f),
           Key(ds, rev, f) = Key(dt, later, f)
    PROVE  LocalState(ds, f) = LocalState(dt, f)
<1> DEFINE E == Evidence(ds, f)
           F == Evidence(dt, f)
<1>1. /\ Key(ds, rev, f).candidate = CandidateId(ds, f)
      /\ Key(dt, later, f).candidate = CandidateId(dt, f)
      /\ Key(ds, rev, f).evidence = EvidenceSemantics(ds, E)
      /\ Key(dt, later, f).evidence = EvidenceSemantics(dt, F)
  BY WithinIsKept DEF Key
<1>2. Status(ds, f) = Status(dt, f)
  BY <1>1, CandidateTellsStatus
<1>3. EvidenceSemantics(ds, E) = EvidenceSemantics(dt, F)
  BY <1>1
<1>4. E \subseteq Documents /\ F \subseteq Documents /\ IsFiniteSet(E) /\ IsFiniteSet(F)
  BY EvidenceIsDocuments
<1>5. \A x : x # d => (x \in E <=> x \in F)
  BY EvidenceElsewhere
<1> HIDE DEF E, F
<1>6. \A x : x # d => (x \in E => ds[x] = dt[x]) /\ (x \in F => dt[x] = ds[x])
  BY <1>4
<1>7. d \in E => d \in F /\ dt[d] = ds[d]
  BY <1>3, <1>4, <1>5, <1>6, BagsDiffer
<1>8. d \in F => d \in E
  <2> SUFFICES ASSUME d \in F, d \notin E PROVE FALSE
    OBVIOUS
  <2>1. EvidenceSemantics(dt, F) # EvidenceSemantics(ds, E)
    BY <1>4, <1>5, <1>6, BagsDiffer
  <2> QED
    BY <1>3, <2>1
<1>9. E = F /\ \A x \in E : ds[x] = dt[x]
  BY <1>5, <1>6, <1>7, <1>8
<1>10. [x \in E |-> ds[x]] = [x \in F |-> dt[x]]
  BY <1>9
<1> QED
  BY <1>2, <1>10 DEF LocalState, E, F

\* A commit moves the key of a fact exactly when it moves what the write rests
\* on, whatever the documents, the revisions and the commit are.
THEOREM PublicationKeys == Spec => KeyFollowsLocalState
<1> DEFINE Follows ==
      \A f \in Shared :
         Within(docs, f) /\ Within(docs', f) =>
            (Key(docs, revision, f) = Key(docs', revision', f)
                <=> LocalState(docs, f) = LocalState(docs', f))
<1>1. PublicationTypeOK /\ PublicationTypeOK' /\ [Next]_vars => [Follows]_<<docs, revision>>
  <2> SUFFICES ASSUME PublicationTypeOK, PublicationTypeOK', [Next]_vars,
                      ~ UNCHANGED <<docs, revision>>
               PROVE  Follows
    OBVIOUS
  <2>1. PICK d \in Documents : \E content \in Contents[d] \cup {Absent} : Commit(d, content)
    BY DEF Next, vars, BuildPlan, Deliver
  <2>2. docs \in Snapshots /\ docs' \in Snapshots
        /\ revision \in 0 .. MaxCommits /\ revision' \in 0 .. MaxCommits
    BY DEF PublicationTypeOK
  <2>3. \A x \in Documents : x # d => docs[x] = docs'[x]
    BY <2>1, <2>2 DEF Commit, Snapshots
  <2>4. ASSUME NEW f \in Shared, Within(docs, f), Within(docs', f),
               Key(docs, revision, f) = Key(docs', revision', f)
        PROVE  LocalState(docs, f) = LocalState(docs', f)
    BY <2>2, <2>3, <2>4, SameKeySameState DEF Shared
  <2>5. ASSUME NEW f \in Shared, Within(docs, f), Within(docs', f),
               LocalState(docs, f) = LocalState(docs', f)
        PROVE  Key(docs, revision, f) = Key(docs', revision', f)
    BY <2>2, <2>5, SameStateSameKey DEF Shared
  <2> QED
    BY <2>4, <2>5
<1> QED
  BY <1>1, PublicationTypeCorrect, PTL DEF Spec, KeyFollowsLocalState

-----------------------------------------------------------------------------
(* What the memory drops.                                                   *)

\* Every write in the memory was requested, under its key, by the plan of some
\* snapshot.
Requested(r) ==
    \E ds \in Snapshots, rev \in 0 .. MaxCommits : \E f \in Candidates(ds) :
        r.key = Key(ds, rev, f) /\ r.write = Write(ds, rev, f)

MemoryInv == PublicationTypeOK /\ \A r \in memory : Requested(r)

\* A write whose note counts no more records than fit keeps what it counts, so
\* that its key tells the count.
LEMMA CountTold ==
    ASSUME NEW ds \in Snapshots, NEW rev \in 0 .. MaxCommits, NEW f \in Candidates(ds),
           Complete(Write(ds, rev, f))
    PROVE  Write(ds, rev, f).derivedOver =
             IF Key(ds, rev, f).derived THEN Key(ds, rev, f).confidence.count - 1 ELSE 0
<1>1. /\ Write(ds, rev, f).derivedOver = (IF Derived(ds, f) THEN Cardinality(Evidence(ds, f)) ELSE 0)
      /\ Key(ds, rev, f).derived = Derived(ds, f)
      /\ Key(ds, rev, f).confidence = Confidence(ds, rev, f)
  BY DEF Write, Key
<1>2. CASE ~ Derived(ds, f)
  BY <1>1, <1>2
<1>3. CASE Derived(ds, f)
  <2>1. Within(ds, f)
    BY <1>1, <1>3 DEF Within, Complete
  <2>2. Confidence(ds, rev, f).count = Cardinality(Evidence(ds, f)) + 1
    BY <1>3, <2>1, WithinIsKept DEF Confidence
  <2>3. Cardinality(Evidence(ds, f)) \in Nat
    BY EvidenceIsDocuments, FS_CardinalityType
  <2> QED
    BY <1>1, <1>3, <2>2, <2>3
<1> QED
  BY <1>2, <1>3

\* Equal keys stand for equal writes, as long as both keep what they count.
LEMMA SameKeySameWrite ==
    ASSUME NEW ds \in Snapshots, NEW rev \in 0 .. MaxCommits, NEW f \in Candidates(ds),
           NEW dt \in Snapshots, NEW later \in 0 .. MaxCommits, NEW g \in Candidates(dt),
           Key(ds, rev, f) = Key(dt, later, g),
           Complete(Write(ds, rev, f)), Complete(Write(dt, later, g))
    PROVE  Write(ds, rev, f) = Write(dt, later, g)
<1>1. Write(ds, rev, f).derivedOver = Write(dt, later, g).derivedOver
  BY CountTold
<1>2. ASSUME NEW es, NEW r, NEW h
      PROVE  Write(es, r, h) = [fact |-> Key(es, r, h).candidate, evidence |-> Key(es, r, h).evidence,
                                derivedOver |-> Write(es, r, h).derivedOver,
                                confidence |-> Key(es, r, h).confidence]
  BY DEF Write, Key
<1>3. Write(ds, rev, f) = [fact |-> Key(dt, later, g).candidate, evidence |-> Key(dt, later, g).evidence,
                           derivedOver |-> Write(dt, later, g).derivedOver,
                           confidence |-> Key(dt, later, g).confidence]
  BY <1>1, <1>2
<1> QED
  BY <1>2, <1>3

\* A plan carries candidates of the snapshot it was built from.
LEMMA IntentIsCandidate ==
    ASSUME PublicationTypeOK, NEW f \in Intents
    PROVE  plan.docs \in Snapshots /\ plan.revision \in 0 .. MaxCommits /\ f \in Candidates(plan.docs)
<1>1. plan # NoPlan /\ f \in Eligible(plan.docs)
  BY DEF Intents
<1> QED
  BY <1>1, PublicationAssumption DEF PublicationTypeOK, Eligible

\* Only deliveries add to the memory.
LEMMA MemoryStep == MemoryInv /\ PublicationTypeOK' /\ [Next]_vars => MemoryInv'
<1> SUFFICES ASSUME MemoryInv, PublicationTypeOK', [Next]_vars PROVE MemoryInv'
  OBVIOUS
<1>1. ASSUME NEW f \in Intents, Deliver(f) PROVE \A r \in memory' : Requested(r)
  <2> DEFINE new == [key |-> PlanKey(f), write |-> PlanWrite(f)]
  <2>1. memory' = memory \cup {new}
    BY <1>1 DEF Deliver
  <2>2. new.key = Key(plan.docs, plan.revision, f) /\ new.write = Write(plan.docs, plan.revision, f)
    BY DEF PlanKey, PlanWrite
  <2>3. Requested(new)
    BY <2>2, IntentIsCandidate DEF MemoryInv, Requested
  <2> HIDE DEF new
  <2> QED
    BY <2>1, <2>3 DEF MemoryInv
<1>2. CASE UNCHANGED memory
  BY <1>2 DEF MemoryInv
<1> QED
  BY <1>1, <1>2 DEF MemoryInv, Next, Commit, BuildPlan, vars

\* What the memory holds was requested.
THEOREM PublicationMemory == Spec => []MemoryInv
<1>1. Init /\ PublicationTypeOK => MemoryInv
  BY DEF Init, MemoryInv
<1> QED
  BY <1>1, MemoryStep, PublicationTypeCorrect, PTL DEF Spec

\* Among writes that keep all their evidence, a duplicate is the same write.
THEOREM PublicationDuplicates == Spec => []DuplicateIsTheSameWrite
<1>1. MemoryInv => DuplicateIsTheSameWrite
  <2> SUFFICES ASSUME MemoryInv, NEW f \in Intents, NEW r \in memory, r.key = PlanKey(f),
                      Complete(r.write), Complete(PlanWrite(f))
               PROVE  r.write = PlanWrite(f)
    BY DEF DuplicateIsTheSameWrite
  <2>1. PICK ds \in Snapshots, rev \in 0 .. MaxCommits : \E g \in Candidates(ds) :
          r.key = Key(ds, rev, g) /\ r.write = Write(ds, rev, g)
    BY DEF MemoryInv, Requested
  <2>2. PICK g \in Candidates(ds) : r.key = Key(ds, rev, g) /\ r.write = Write(ds, rev, g)
    BY <2>1
  <2>3. plan.docs \in Snapshots /\ plan.revision \in 0 .. MaxCommits /\ f \in Candidates(plan.docs)
    BY IntentIsCandidate DEF MemoryInv
  <2>4. /\ Key(ds, rev, g) = Key(plan.docs, plan.revision, f)
        /\ Complete(Write(ds, rev, g)) /\ Complete(Write(plan.docs, plan.revision, f))
    BY <2>2 DEF PlanKey, PlanWrite
  <2>5. Write(ds, rev, g) = Write(plan.docs, plan.revision, f)
    BY <2>3, <2>4, SameKeySameWrite
  <2> QED
    BY <2>2, <2>5 DEF PlanWrite
<1> QED
  BY <1>1, PublicationMemory, PTL
=============================================================================
