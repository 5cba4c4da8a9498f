--------------------------- MODULE CorpusPackets ---------------------------
(***************************************************************************)
(* The two kinds of packet a compilation reads, and what it demands of     *)
(* them before it starts.  A repository packet says what is in one root; a *)
(* corpus packet is an analysis over the repository packets it names.      *)
(*                                                                         *)
(* Repository packet: its identity and hash, the revision of its snapshot, *)
(* the repository record with its name, revision (Absent if it is empty)   *)
(* and role, `docs` (document -> edition of its bytes, statements          *)
(* read in it and capabilities its record lists), `declares` (capability   *)
(* records, in order), `offers` (capability ids of the repository),        *)
(* `upstream`, `needs` (dependency names), `owners`, `holds` (its other    *)
(* fields that are not empty), `level` (of its confidence), `relations`,   *)
(* `facts`, `diagnostics` (in order, each with the identity its producer   *)
(* gave it, or Absent), and `cites` (the evidence its records cite).       *)
(***************************************************************************)
EXTENDS Topology, Sequences

CONSTANTS
    Names,          \* identities that are not documents, repositories or objects
    Rank,           \* the order of identifiers
    Portable        \* the paths that neither are absolute nor leave the root

ASSUME CorpusPacketsAssumption ==
    /\ Names \cap (Documents \cup Repositories) = {}
    /\ Rank \in [Documents \cup Repositories \cup Names -> Nat]
    /\ \A x, y \in DOMAIN Rank : Rank[x] = Rank[y] => x = y

Identifiers == Documents \cup Repositories \cup Names

Statement == [subject : Identifiers \cup Objects, predicate : STRING, object : Identifiers \cup Objects]

\* References and capabilities of claims have prefixes of their own, and the
\* statements of documents are not known by a name.
ASSUME PrefixesAssumption ==
    /\ \A o \in Identifiers, name \in Identifiers \cup Objects :
         /\ \A p \in EdgePredicates : o # External(ReferenceKind(p), name)
         /\ o # External("work-reference", name)
         /\ \A of \in Identifiers \cup Objects : o # [ref |-> "capability", of |-> of, name |-> name]
    /\ Names \cap (Documents \X Statement) = {}

\* What one packet read in a document, and what several read.
Content == [edition : Nat, says : SUBSET Statement, offers : SUBSET Identifiers]

ASSUME AbsentAssumption == Absent \notin [edition : SUBSET Nat, says : SUBSET Statement, offers : SUBSET Identifiers]

Elements(s) == {s[i] : i \in DOMAIN s}

Distinct(s) == \A i, j \in DOMAIN s : s[i] = s[j] => i = j

IsSequence(s) == s \in Seq(Elements(s))

-----------------------------------------------------------------------------
(* Repository packets.  The consumer looks at the status of their           *)
(* validation and at the form of their records; that a packet lists the     *)
(* documents of its own repository is the promise of its producer.          *)

IsRelation(e) ==
    e \in [type : STRING, source : Identifiers, target : Identifiers, from : {{}}, resolution : STRING, endpoint : STRING]

IsCapability(k) ==
    /\ DOMAIN k = {"id", "text", "by", "exposed", "validated", "backed"}
    /\ k.backed \in BOOLEAN

\* A capability record without evidence is one of the records `cites` tells of.
RepositoryPacketWellFormed(r) ==
    /\ r.repository \in Repositories
    /\ r.status = "passed"
    /\ r.snapshot # Absent
    /\ \A d \in DOMAIN r.docs : Path[d] \in Portable
    /\ DOMAIN r.docs \subseteq {d \in Documents : Home[d] = r.repository}
    /\ \A d \in DOMAIN r.docs : r.docs[d] \in Content
    /\ r.upstream \subseteq Identifiers
    /\ \A e \in r.relations : IsRelation(e)
    /\ IsSequence(r.declares)
    /\ \A k \in Elements(r.declares) : IsCapability(k) /\ (k.backed \/ r.cites = "none")

-----------------------------------------------------------------------------
(* What the parser of corpus packets accepts.                               *)

PayloadFields == {"document_work_signals", "exact_duplicate_relations", "semantic_pair_relations",
                  "topic_candidates", "project_candidates", "consolidation_candidates",
                  "readiness_evidence", "reasoning_candidates", "reasoning_evidence_pack_refs"}

CandidateFields == {"topic_candidates", "project_candidates", "consolidation_candidates"}

TypeOfField(f) == CASE f = "topic_candidates" -> "TOPIC_CANDIDATE"
                    [] f = "project_candidates" -> "PROJECT_CANDIDATE"
                    [] OTHER -> "CONSOLIDATION_CANDIDATE"

ConfidenceClasses == {"weak", "moderate", "strong"}

ReasoningTypes == {"NONE", "SAME_BODY_OF_WORK_ADJUDICATION", "PROJECT_IDENTITY_ADJUDICATION",
                   "VERSION_EVOLUTION_ANALYSIS", "CONSOLIDATION_ANALYSIS", "SUPERSESSION_ANALYSIS",
                   "CONFLICT_RESOLUTION_ANALYSIS"}

\* `says` is the statement the signal makes, `locator` the kind of coordinate,
\* and `dangling` tells that a record cites evidence no packet carries.
IsWorkSignal(r) ==
    r \in [id : Names, doc : Identifiers, format : STRING, locator : STRING, says : Statement]

IsDuplicateRelation(r) ==
    /\ r \in [id : Names, cluster : Names, a : Identifiers, b : Identifiers, hash : Names]
    /\ r.a # r.b

IsPairRelation(r) ==
    /\ r \in [id : Names, a : Identifiers, b : Identifiers, class : ConfidenceClasses, dangling : BOOLEAN]
    /\ r.a # r.b

IsCandidate(r, type) ==
    /\ r \in [id : Names, type : {type}, members : SUBSET Identifiers, supports : SUBSET Names,
              class : ConfidenceClasses, flags : SUBSET STRING, crosses : BOOLEAN, dangling : BOOLEAN]
    /\ r.members # {}

\* Counts of what was observed, with the artifacts that could not be read.
IsMeasurement(r) ==
    /\ r \in [id : Names, subject : Identifiers, measured : Nat, gaps : Nat]
    /\ r.gaps <= r.measured

IsRequest(r) ==
    r \in [candidate : Names, type : ReasoningTypes, members : SUBSET Identifiers, pack : Names \cup {Absent}]

IsRecordOf(field, r) ==
    /\ field = "document_work_signals" => IsWorkSignal(r)
    /\ field = "exact_duplicate_relations" => IsDuplicateRelation(r)
    /\ field = "semantic_pair_relations" => IsPairRelation(r)
    /\ field \in CandidateFields => IsCandidate(r, TypeOfField(field))
    /\ field = "readiness_evidence" => IsMeasurement(r)
    /\ field = "reasoning_candidates" => IsRequest(r)
    /\ field = "reasoning_evidence_pack_refs" => r \in Names

\* A root is bound to the repository packet that observed it.
IsRootRef(r) ==
    r \in [id : Names, class : {"declared", "inferred"}, packet : Names, hash : Names,
           revision : Names \cup {Absent}, repository : Repositories \cup {Absent}]

\* Version 1.1.0 states which passes were not run; 1.0.0 must not.
RunStatementClosed(c) ==
    IF c.version = "1.0.0" THEN c.domains_not_run = Absent
    ELSE c.domains_not_run # Absent /\ Distinct(c.domains_not_run)

CorpusPacketWellFormed(c) ==
    /\ c.version \in {"1.0.0", "1.1.0"}
    /\ IsSequence(c.roots) /\ \A f \in PayloadFields : IsSequence(c.payload[f])
    /\ \A root \in Elements(c.roots) : IsRootRef(root)
    /\ Distinct([i \in DOMAIN c.roots |-> c.roots[i].id])
    /\ {root.packet : root \in Elements(c.roots)} \subseteq c.inputs
    /\ \A f \in PayloadFields : \A r \in Elements(c.payload[f]) : IsRecordOf(f, r)
    /\ RunStatementClosed(c)

-----------------------------------------------------------------------------
(* Referential integrity against the repository packets P it names.         *)

Records(c, field) == Elements(c.payload[field])

Candidates(c) == UNION {Records(c, f) : f \in CandidateFields}

Artifacts(P) == UNION {DOMAIN r.docs : r \in P}

\* A signal is usually about the repository and read in a file.
Entities(P) ==
    Artifacts(P) \cup {r.repository : r \in P} \cup UNION {{k.id : k \in Elements(r.declares)} : r \in P}

RootBound(root, P) ==
    \E r \in P : /\ r.id = root.packet
                 /\ r.hash = root.hash
                 /\ root.revision \in {Absent, r.snapshot}

RootsSound(c, P) ==
    /\ c.inputs = {r.id : r \in P}
    /\ \A root \in Elements(c.roots) : RootBound(root, P)
    /\ c.inputs = {root.packet : root \in Elements(c.roots)}

LineBearing == {"text", "markdown", "csv", "html", "ipynb"}

SignalsSound(c, P) ==
    \A s \in Records(c, "document_work_signals") :
        /\ s.doc \in Artifacts(P)
        /\ s.says.subject \in Entities(P)
        /\ s.locator = "line" => s.format \in LineBearing

\* Byte equality admits one hash for a cluster, and holds between files.
DuplicatesSound(c, P) ==
    LET relations == Records(c, "exact_duplicate_relations")
    IN  /\ \A r \in relations : {r.a, r.b} \subseteq Artifacts(P)
        /\ \A r, s \in relations : r.cluster = s.cluster => r.hash = s.hash

PairsSound(c, P) == \A r \in Records(c, "semantic_pair_relations") : {r.a, r.b} \subseteq Artifacts(P)

Citable(c) ==
    {r.id : r \in Records(c, "semantic_pair_relations") \cup Records(c, "exact_duplicate_relations")}
        \cup {r.cluster : r \in Records(c, "exact_duplicate_relations")}

CandidatesSound(c, P) ==
    \A k \in Candidates(c) : k.members \subseteq Artifacts(P) /\ k.supports \subseteq Citable(c)

CandidateIds(c) == {k.id : k \in Candidates(c)}

ReadinessSound(c, P) ==
    \A m \in Records(c, "readiness_evidence") : m.subject \in CandidateIds(c) \cup Entities(P)

ReasoningSound(c, P) ==
    \A q \in Records(c, "reasoning_candidates") :
        /\ q.candidate \in CandidateIds(c)
        /\ q.members \subseteq Artifacts(P)
        /\ q.pack \in {Absent} \cup Records(c, "reasoning_evidence_pack_refs")

NotRun(c) == IF c.domains_not_run = Absent THEN {} ELSE Elements(c.domains_not_run)

RunStatementSound(c) == \A f \in NotRun(c) : Records(c, f) = {}

CorpusSound(c, P) ==
    /\ RootsSound(c, P)
    /\ SignalsSound(c, P)
    /\ DuplicatesSound(c, P)
    /\ PairsSound(c, P)
    /\ CandidatesSound(c, P)
    /\ ReadinessSound(c, P)
    /\ ReasoningSound(c, P)
    /\ RunStatementSound(c)

\* A corpus packet may analyse some of the packets of a compilation, and is
\* judged against exactly those.
CorpusInputsAccepted(R, C) ==
    \A c \in Elements(C) :
        /\ c.inputs \subseteq {r.id : r \in Elements(R)}
        /\ CorpusSound(c, {r \in Elements(R) : r.id \in c.inputs})

=============================================================================
