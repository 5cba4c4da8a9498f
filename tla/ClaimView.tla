----------------------------- MODULE ClaimView -----------------------------
(***************************************************************************)
(* Reading the claims of one committed topology: a query is a filter over  *)
(* views, answered a page at a time, and two topologies are compared claim *)
(* by claim.  Nothing here is kept: a view is derived anew at every read.  *)
(*                                                                         *)
(* In a query `predicates` stands for the three filters that look at the   *)
(* predicate only, and `after` is the rank of the last claim of the page   *)
(* before (0: the first page).                                             *)
(***************************************************************************)
EXTENDS TopologyValidation

CONSTANT
    ClaimRank       \* the order of claim identifiers

ASSUME ClaimViewAssumption ==
    /\ IsFiniteSet(DOMAIN ClaimRank)
    /\ \A c \in DOMAIN ClaimRank : ClaimRank[c] \in 1 .. Cardinality(DOMAIN ClaimRank)
    /\ \A c, d \in DOMAIN ClaimRank : ClaimRank[c] = ClaimRank[d] => c = d

\* Absent filters nothing; a limit is at least one and a minimum not negative.
ClaimQuery ==
    [subject : {Absent} \cup Identifiers \cup Objects, kind : {Absent, "repository", "artifact", "unknown"},
     predicates : {Absent} \cup SUBSET STRING, value : {Absent} \cup Identifiers \cup Objects,
     conflict : {"any", "none", "conflicted"}, projection : {"any", "projected", "unprojected"},
     path : {Absent} \cup Objects, minimum : Nat, limit : Nat \ {0}, after : Nat]

SubjectKind(s) ==
    CASE s \in Repositories -> "repository"
      [] s \in Documents -> "artifact"
      [] OTHER -> "unknown"

\* A view adds to the claim why it is not in the graph.
ProjectionStatus(claim) ==
    IF claim.projected THEN "projected"
    ELSE IF ~ IsProjectable(claim.says.predicate) THEN "not-projectable"
    ELSE IF claim.status # "none" THEN "withheld"
    ELSE "not-projected"

Viewed(claim) ==
    [says |-> claim.says, status |-> claim.status, projected |-> claim.projected, read |-> claim.read,
     level |-> claim.level, places |-> claim.places, projection |-> ProjectionStatus(claim)]

Views(t) == {Viewed(claim) : claim \in t.claims}

\* Places are told apart by path and coordinate, one coordinate for each path.
Satisfies(view, q) ==
    /\ q.subject \in {Absent, view.says.subject}
    /\ q.kind \in {Absent, SubjectKind(view.says.subject)}
    /\ q.predicates = Absent \/ view.says.predicate \in q.predicates
    /\ q.value \in {Absent, view.says.object}
    /\ q.conflict = "none" => view.status = "none"
    /\ q.conflict = "conflicted" => view.status # "none"
    /\ q.projection = "projected" => view.projection = "projected"
    /\ q.projection = "unprojected" => view.projection # "projected"
    /\ q.path = Absent \/ \E place \in view.places : place.path = q.path
    /\ q.minimum = 0 \/ Cardinality({place.path : place \in view.places}) >= q.minimum

Matched(t, q) == {view \in Views(t) : Satisfies(view, q)}

ClaimIdOf(view) == ClaimRank[view.says]

\* Broken variant: the page begins at the last claim that was returned.
RemainingFrom(t, q) == {view \in Matched(t, q) : ClaimIdOf(view) >= q.after}

Remaining(t, q) == {view \in Matched(t, q) : ClaimIdOf(view) > q.after}

FirstOf(views, limit) ==
    {view \in views : Cardinality({other \in views : ClaimIdOf(other) <= ClaimIdOf(view)}) <= limit}

LastId(views) ==
    CHOOSE id \in {ClaimIdOf(view) : view \in views} : \A view \in views : ClaimIdOf(view) <= id

Page(t, q) ==
    LET returned == FirstOf(Remaining(t, q), q.limit)
        truncated == returned # Remaining(t, q)
    IN  [total      |-> Cardinality(Matched(t, q)),
         claims     |-> returned,
         truncated  |-> truncated,
         next_after |-> IF truncated THEN LastId(returned) ELSE Absent]

-----------------------------------------------------------------------------
(* The differential of two topologies, within the scope of a query; its     *)
(* limit does not apply.  Both are read under one registry, so a difference *)
(* in what a predicate means cannot show.                                   *)

Categories(old, new) ==
    (IF old.places # new.places THEN {"evidence"} ELSE {})
        \cup (IF <<old.read, old.level, old.status>> # <<new.read, new.level, new.status>>
              THEN {"reconciliation"} ELSE {})
        \cup (IF old.projection # new.projection THEN {"projection"} ELSE {})

Says(views) == {view.says : view \in views}

Reread(before, after) ==
    {pair \in before \X after : pair[1].says = pair[2].says /\ Categories(pair[1], pair[2]) # {}}

Differential(t, later, q) ==
    LET before == Matched(t, q)
        after == Matched(later, q)
    IN  [added   |-> {view \in after : view.says \notin Says(before)},
         removed |-> {view \in before : view.says \notin Says(after)},
         changed |-> {[says |-> pair[1].says, categories |-> Categories(pair[1], pair[2])] :
                        pair \in Reread(before, after)}]

=============================================================================
