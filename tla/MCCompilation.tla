--------------------------- MODULE MCCompilation ---------------------------
(***************************************************************************)
(* Two repositories with three documents.  d1, d2 (r1) and d3 (r2) are     *)
(* copies of each other in the first corpus; the names, statements and     *)
(* dependencies of the packets are chosen so that each edition of a packet *)
(* is fit for a compilation, or unfit for one reason.                      *)
(***************************************************************************)
EXTENDS Compilation, TLC

LOCAL INSTANCE FiniteSetsExt

CONSTANTS
    d1, d2, d3, r1, r2, readme, notes, x, y, n1, n2,
    pa, pb, pq, ha, ha2, hb, hb2, va, vb, k1, k2, o1,
    corpus, snapshot, root1, root2, s1, s2, s3, s4, u1, u2, twins, hash,
    pair, topic, project, consolidation, m1

MCDocuments == {d1, d2, d3}
MCRepositories == {r1, r2}
MCNames == {pa, pb, pq, ha, ha2, hb, hb2, va, vb, k1, k2, o1, corpus, snapshot, root1, root2,
            s1, s2, s3, s4, u1, u2, twins, hash, pair, topic, project, consolidation, m1}
MCHome == [d \in MCDocuments |-> IF d = d3 THEN r2 ELSE r1]
MCPath == [d \in MCDocuments |-> IF d = d1 THEN notes ELSE readme]
MCLevel == [d \in MCDocuments |-> IF d = d1 THEN 9 ELSE 6]
MCClass == [d \in MCDocuments |-> IF d = d1 THEN "declared" ELSE "observed"]

Order == <<d1, d2, d3, r1, r2, pa, pb, pq, ha, ha2, hb, hb2, va, vb, k1, k2, o1, corpus, snapshot, root1, root2,
           s1, s2, s3, s4, u1, u2, twins, hash, pair, topic, project, consolidation, m1>>
MCRank == [n \in MCDocuments \cup MCRepositories \cup MCNames |-> CHOOSE i \in DOMAIN Order : Order[i] = n]

MCShortName == (r1 :> x) @@ (r2 :> n2)
MCRoleSignals == (n1 :> <<"service", "library">>) @@ (n2 :> << >>) @@ (y :> << >>)

MCRiskRules == {[id |-> "no-owner", kind |-> "empty", field |-> "owner_ids", threshold |-> 0],
                [id |-> "no-owner", kind |-> "empty", field |-> "artifact_ids", threshold |-> 0],
                [id |-> "unsure", kind |-> "confidence_below", field |-> "none", threshold |-> 1]}
MCDimensions == {[weight |-> 3, field |-> "description", needle |-> notes, threshold |-> 3],
                 [weight |-> 2, field |-> "artifact_ids", needle |-> readme, threshold |-> 2]}
MCBands == {[label |-> "initial", from |-> 0], [label |-> "managed", from |-> 3]}

State(subject, predicate, object) == [subject |-> subject, predicate |-> predicate, object |-> object]

Document(edition, says, offers) == [edition |-> edition, says |-> says, offers |-> offers]

Declares(id, by) == CapabilityRecord(id, [declared |-> id], by, by, {}, TRUE)

Relation(type, a, b) == Edge(type, a, b, {}, "none", "declared")

Depends(a, b) == Relation("DEPENDS_ON", a, b)

Unsupported(id) == [id |-> id, code |-> "unsupported-by-evidence", subject |-> r1, field |-> "description"]

-----------------------------------------------------------------------------
(* Repository packets.                                                      *)

First ==
    [id |-> pa, hash |-> ha, repository |-> r1, name |-> n1, snapshot |-> va, revision |-> va, role |-> "unknown",
     level |-> 1, holds |-> {"description"}, status |-> "passed", cites |-> "own",
     docs |-> (d1 :> Document(1, {State(r1, "repository.status", x), State(r1, "service.action", x),
                                  State(d1, "work.supersedes", d2)}, {k1}))
           @@ (d2 :> Document(2, {State(r1, "repository.status", y), State(r1, "package.dependency", x),
                                  State(d2, "work.superseded_by", notes)}, {})),
     declares |-> <<Declares(k1, {r1})>>, offers |-> {k1},
     upstream |-> {}, needs |-> {[hyphen |-> y, plain |-> n2], [hyphen |-> notes, plain |-> notes]},
     owners |-> {o1}, relations |-> {},
     facts |-> {Fact(r1, "languages", x), Fact(r1, "languages", y), Fact(r1, "description", x),
                [Fact(r1, "description", y) EXCEPT !.path = notes]},
     diagnostics |-> <<Unsupported(Absent)>>]

\* Its bytes changed, an artifact lists what nobody declares; a dependency is
\* stated once more; evidence that is not there, an upstream repository
\* that may not be observed, and two diagnostics of one name; and records
\* without evidence, with a name that is a field and a predicate.
FirstEditionsOfA ==
    {First,
     [First EXCEPT !.hash = ha2, !.snapshot = vb, !.revision = vb,
                   !.docs = (d1 :> Document(3, {State(r1, "repository.status", x)}, {k2}))],
     [First EXCEPT !.hash = ha2, !.relations = {Depends(r1, r2)}],
     [First EXCEPT !.hash = ha2, !.cites = "missing", !.upstream = {r2}, !.needs = {},
                   !.diagnostics = <<Unsupported(k2), Unsupported(k2)>>],
     [First EXCEPT !.hash = ha2, !.cites = "none",
                   !.facts = {Fact(d2, "custom.note", x), Fact(d2, "custom.note", y)},
                   !.docs = (d1 :> Document(4, {State(d1, "work.depends_on", d2)}, {}))
                         @@ (d2 :> Document(2, {State(d2, "work.depends_on", notes),
                                                State(d2, "custom.note", x), State(d2, "custom.note", y)}, {}))]}

Second ==
    [id |-> pb, hash |-> hb, repository |-> r2, name |-> n2, snapshot |-> vb, revision |-> vb, role |-> "library",
     level |-> 0, holds |-> {}, status |-> "passed", cites |-> "own",
     docs |-> (d3 :> Document(5, {State(r2, "repository.status", x), State(d3, "work.depends_on", notes)}, {})),
     declares |-> << >>, offers |-> {k1}, upstream |-> {}, needs |-> {}, owners |-> {},
     relations |-> {}, facts |-> {}, diagnostics |-> << >>]

\* Its bytes changed, and it exposes what it offers; it uses what it offers and
\* produces; a new edition that mislabels evidence and has no revision; and
\* another observation of r1 under another name, without documents.
EditionsOfB ==
    {Second,
     [Second EXCEPT !.hash = hb2, !.snapshot = va, !.revision = va,
                    !.docs = (d3 :> Document(6, {State(r2, "repository.status", y),
                                                 State(d3, "work.depends_on", d2)}, {})),
                    !.relations = {Depends(r2, r1), Relation("EXPOSES", r2, k1), Relation("PRODUCES", r2, d3)}],
     [Second EXCEPT !.hash = hb2,
                    !.relations = {Relation("CONSUMES", r2, k1), Relation("PRODUCES", r2, d3), Relation("CONSUMES", r2, d3)}],
     [Second EXCEPT !.hash = hb2, !.cites = "mislabelled", !.revision = Absent],
     [Second EXCEPT !.hash = hb2, !.repository = r1, !.name = y, !.docs = << >>]}

-----------------------------------------------------------------------------
(* Corpus packets.                                                          *)

Signal(id, doc, format, locator, says) ==
    [id |-> id, doc |-> doc, format |-> format, locator |-> locator, says |-> says]

Copies(id, a, b) == [id |-> id, cluster |-> twins, a |-> a, b |-> b, hash |-> hash]

Group(id, type, members, supports, class) ==
    [id |-> id, type |-> type, members |-> members, supports |-> supports, class |-> class,
     flags |-> {}, crosses |-> FALSE, dangling |-> FALSE]

Payload ==
    [document_work_signals |->
        <<Signal(s1, d1, "markdown", "line", State(d1, "work.status", x)),
          Signal(s2, d3, "pdf", "page", State(d1, "work.status", y)),
          Signal(s3, d2, "text", "line", State(d2, "work.depends_on", d3)),
          Signal(s4, d1, "markdown", "line", State(d1, "work.references", readme))>>,
     exact_duplicate_relations |-> <<Copies(u1, d2, d1), Copies(u2, d2, d3)>>,
     semantic_pair_relations |-> <<[id |-> pair, a |-> d2, b |-> d3, class |-> "strong", dangling |-> FALSE]>>,
     topic_candidates |-> <<Group(topic, "TOPIC_CANDIDATE", {d2, d3}, {}, "strong")>>,
     project_candidates |-> <<Group(project, "PROJECT_CANDIDATE", {d1, d2, d3}, {pair}, "moderate")>>,
     consolidation_candidates |-> <<Group(consolidation, "CONSOLIDATION_CANDIDATE", {d2, d3}, {twins}, "strong")>>,
     readiness_evidence |-> <<[id |-> m1, subject |-> project, measured |-> 9, gaps |-> 1]>>,
     reasoning_candidates |-> <<[candidate |-> project, type |-> "NONE", members |-> {d1, d2}, pack |-> Absent]>>,
     reasoning_evidence_pack_refs |-> << >>]

RootOn(id, packet, h, revision, repository) ==
    [id |-> id, class |-> "declared", packet |-> packet, hash |-> h, revision |-> revision, repository |-> repository]

Corpus ==
    [id |-> pq, version |-> "1.0.0", corpus |-> corpus, snapshot |-> snapshot, inputs |-> {pa, pb},
     roots |-> <<RootOn(root1, pa, ha, va, r1), RootOn(root2, pb, hb, Absent, r2)>>,
     payload |-> Payload, domains_not_run |-> Absent]

\* Without signals and with a domain that was not run; over one repository;
\* with a candidate twice; with evidence that is not there; and with a root
\* that names a repository it did not observe.
EditionsOfQ ==
    {Corpus,
     [Corpus EXCEPT !.version = "1.1.0", !.domains_not_run = <<"topic_candidates">>,
                    !.payload["document_work_signals"] = << >>, !.payload["topic_candidates"] = << >>],
     [Corpus EXCEPT !.inputs = {pb}, !.roots = <<RootOn(root2, pb, hb, Absent, r1)>>,
                    !.payload = [f \in DOMAIN Payload |-> << >>]],
     [Corpus EXCEPT !.payload["document_work_signals"] = << >>,
                    !.payload["topic_candidates"] = <<Group(project, "TOPIC_CANDIDATE", {d1, d3}, {}, "weak")>>],
     [Corpus EXCEPT !.payload["semantic_pair_relations"][1].dangling = TRUE]}

A == "a"
B == "b"
Q == "q"

MCCatalogue == (A :> FirstEditionsOfA) @@ (B :> EditionsOfB) @@ (Q :> EditionsOfQ)
MCFirstEditions == (A :> First) @@ (B :> Second) @@ (Q :> Corpus)

Selecting(packets, corpora) == [packets |-> packets, corpora |-> corpora]
MCSelections ==
    {Selecting(<< >>, << >>), Selecting(<<A>>, << >>), Selecting(<<A, A>>, << >>), Selecting(<<B, A>>, << >>),
     Selecting(<<A, B>>, <<Q>>), Selecting(<<A, B>>, <<Q, Q>>), Selecting(<<B>>, << >>), Selecting(<<B>>, <<Q>>)}

Statements ==
    (UNION {UNION {p.docs[d].says : d \in DOMAIN p.docs} : p \in FirstEditionsOfA \cup EditionsOfB})
        \cup {s.says : s \in Records(Corpus, "document_work_signals")}

MCClaimRank ==
    FoldSet(LAMBDA c, f : f @@ (c :> Cardinality(DOMAIN f) + 1), << >>, Statements)

AllClaims ==
    [subject |-> Absent, kind |-> Absent, predicates |-> Absent, value |-> Absent, conflict |-> "any",
     projection |-> "any", path |-> Absent, minimum |-> 0, limit |-> 3, after |-> 0]

MCQueries ==
    {AllClaims,
     [AllClaims EXCEPT !.conflict = "none", !.projection = "projected", !.path = readme, !.limit = 1],
     [AllClaims EXCEPT !.subject = r1, !.kind = "repository", !.predicates = {"repository.status"}, !.limit = 1]}

=============================================================================
