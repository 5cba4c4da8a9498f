--------------------------- MODULE MCPublication ---------------------------
(***************************************************************************)
(* Two repositories with a document at the same path in each, a third      *)
(* document that refers to that path, and contents in which documents      *)
(* agree, contradict each other, correct themselves and mention what is    *)
(* not there.                                                              *)
(***************************************************************************)
EXTENDS Publication, TLC

CONSTANTS d1, d2, d3, r1, r2, readme, notes, x, y

MCDocuments == {d1, d2, d3}
MCHome == [d \in MCDocuments |-> IF d = d3 THEN r2 ELSE r1]
MCPath == [d \in MCDocuments |-> IF d = d1 THEN notes ELSE readme]
MCLevel == [d \in MCDocuments |-> IF d = d1 THEN 9 ELSE 6]
MCClass == [d \in MCDocuments |-> IF d = d1 THEN "declared" ELSE "observed"]

\* At odd revisions the evidence identifiers sort the other way round.
MCRank ==
    [rev \in 0 .. MaxCommits |-> [d \in MCDocuments |->
        LET at == CASE d = d1 -> 1 [] d = d2 -> 2 [] OTHER -> 3
        IN  IF rev % 2 = 0 THEN at ELSE 4 - at]]

Says(subject, predicate, object) == [subject |-> subject, predicate |-> predicate, object |-> object]

Content(edition, says) == [edition |-> edition, says |-> says]

\* d1 is prose about r1 and about its own work, d2 is the readme of r1 and d3
\* the readme of r2.
MCContents ==
    (d1 :> {Content(1, {Says(r1, "repository.status", x), Says(r1, "service.action", x),
                        Says(d1, "work.references", readme), Says(d1, "work.supersedes", d2)}),
            Content(2, {Says(r1, "repository.status", y), Says(r1, "repository.replaced_by", x),
                        Says(d1, "work.references", readme), Says(d1, "work.references", d2)}),
            Content(3, {Says(r1, "repository.status", x), Says(r1, "custom.note", x),
                        Says(r1, "meta.l9v1.identity.title", x), Says(d1, "work.blocked_by", y)})}
    ) @@ (
     d2 :> {Content(4, {Says(r1, "repository.status", x), Says(r1, "custom.note", y),
                        Says(r1, "repository.replaced_by", y), Says(d2, "work.superseded_by", notes)}),
            Content(5, {Says(r1, "repository.status", x), Says(r1, "service.action", x),
                        Says(r1, "package.dependency", x), Says(r1, "contract.declares_invariants", x),
                        Says(d2, "work.depends_on", d3)}),
            Content(8, {Says(r1, "repository.status", y), Says(r1, "service.action", y)})}
    ) @@ (
     d3 :> {Content(6, {Says(r2, "authority.canonical_contract", x), Says(x, "repository.status", y)}),
            Content(7, {Says(r2, "repository.status", x), Says(x, "service.action", y)})})

PolicyPredicates == (SetPredicates \cup SinglePredicates) \ DeclarationOnlyPredicates

PolicyEdgeTypes == {"DEPENDS_ON", "IMPLEMENTS", "GOVERNED_BY", "SUPERSEDES", "BLOCKED_BY", "REFERENCES"}

=============================================================================
