----------------------------- MODULE BundleSink -----------------------------
(***************************************************************************)
(* PacketBundleOutputSink.commit (io/packet_bundle_output_sink.py): a      *)
(* packet bundle is written to a sibling staging directory, reloaded and   *)
(* verified, fsynced, and exposed by one rename.  Several committers may   *)
(* aim at the same bundle root; a process may die at any step, and the     *)
(* machine may lose power, after which only what was fsynced is certain.   *)
(* The directories above the root are one: a commit makes those that are   *)
(* missing, and fsyncs the one that holds the root but none of those that  *)
(* hold what it made.                                                      *)
(*                                                                         *)
(* One bundle root is modelled.  What it shows is a whole bundle, nothing, *)
(* an empty directory, or Torn: a directory some of whose files are        *)
(* missing or incomplete.                                                  *)
(***************************************************************************)
EXTENDS Integers

CONSTANTS Committers, Bundles,
          Wanted,     \* committer -> the bundle it commits
          Valid,      \* the bundles that verify_packet_bundle accepts
          Absent, Empty, Torn,
          MaxDeaths,  \* bound on process deaths and power losses together
          MaxErrors   \* bound on OSErrors

ASSUME BundleAssumption ==
    /\ Wanted \in [Committers -> Bundles]
    /\ Valid \subseteq Bundles
    /\ {Absent, Empty, Torn} \cap Bundles = {}
    /\ MaxDeaths \in Nat /\ MaxErrors \in Nat

VARIABLES root,     \* what the bundle root shows
          stable,   \* what it shows after a power loss at the latest
          solid,    \* the files under the root are on disk for certain
          parent,   \* the directories above it, see Parents
          phase,    \* committer -> next step
          staging,  \* committers at work whose staging directory exists
          synced,   \* committers whose staging directory is fsynced
          receipt,  \* committer -> status of its receipt
          deaths, errors

rootVars == <<root, stable, solid, parent>>
vars == <<root, stable, solid, parent, phase, staging, synced, receipt, deaths, errors>>

Phases == {"plan", "probe", "stage", "verify", "sync", "rename", "syncParent",
           "done", "dead"}
\* Missing; made by a commit and nowhere fsynced; made so and still there after
\* a power loss; or on disk before the first commit.
Parents == {"absent", "fresh", "kept", "solid"}
Statuses == {"none", "written", "skipped", "refused", "failed"}

Init ==
    /\ root \in {Absent, Empty} \cup Valid
    /\ stable = root
    /\ solid = TRUE
    /\ parent \in Parents \ {"kept"}
    /\ parent = "absent" => root = Absent
    /\ phase = [c \in Committers |-> "plan"]
    /\ staging = {}
    /\ synced = {}
    /\ receipt = [c \in Committers |-> "none"]
    /\ deaths = 0
    /\ errors = 0

-----------------------------------------------------------------------------

Goto(c, from, to) == phase[c] = from /\ phase' = [phase EXCEPT ![c] = to]

\* Broken variant: the receipt keeps the status that the plan gave the entry.
IssuePlanned(c, status) == receipt' = [receipt EXCEPT ![c] = "planned"]

Issue(c, status) == receipt' = [receipt EXCEPT ![c] = status]

\* Broken variant: an identical bundle is refused like any other.
PlanRefusingAny(c) ==
    /\ \/ /\ root \notin {Absent, Empty}
          /\ Goto(c, "plan", "done") /\ Issue(c, "refused")
       \/ /\ root \in {Absent, Empty}
          /\ Goto(c, "plan", "probe") /\ UNCHANGED receipt
    /\ UNCHANGED <<rootVars, staging, synced, deaths, errors>>

\* plan: an identical bundle is skipped as a whole and reported as passed; a
\* different one has a file that may not be overwritten, or is caught by the
\* next test; a root without files is planned as creates.
Plan(c) ==
    /\ \/ /\ root = Wanted[c]
          /\ Goto(c, "plan", "done") /\ Issue(c, "skipped")
       \/ /\ root \in (Bundles \ {Wanted[c]}) \cup {Torn}
          /\ Goto(c, "plan", "done") /\ Issue(c, "refused")
       \/ /\ root \in {Absent, Empty}
          /\ Goto(c, "plan", "probe") /\ UNCHANGED receipt
    /\ UNCHANGED <<rootVars, staging, synced, deaths, errors>>

\* output_root.exists(): "immutable packet bundle already exists", even when it
\* is an identical one that another committer exposed after the plan was made.
Probe(c) ==
    /\ \/ /\ root # Absent
          /\ Goto(c, "probe", "done") /\ Issue(c, "failed")
       \/ /\ root = Absent
          /\ Goto(c, "probe", "stage") /\ UNCHANGED receipt
    /\ UNCHANGED <<rootVars, staging, synced, deaths, errors>>

\* The end of the try block; finally removes a staging directory that the rename
\* did not.
Return(c, from, status) ==
    /\ Goto(c, from, "done")
    /\ Issue(c, status)
    /\ staging' = staging \ {c}
    /\ synced' = synced \ {c}

\* output_root.parent.mkdir(parents=True, exist_ok=True); nobody fsyncs the
\* directories that hold what it makes.
MakeParents == parent' = IF parent = "absent" THEN "fresh" ELSE parent

\* mkdir, mkdtemp, then FileSystemOutputSink.commit into the new directory.
Stage(c) ==
    /\ Goto(c, "stage", "verify")
    /\ MakeParents
    /\ staging' = staging \cup {c}
    /\ UNCHANGED <<root, stable, solid, synced, receipt, deaths, errors>>

\* verify_packet_bundle reloads the staged files; a refusal is a ValueError.
Verify(c) ==
    /\ \/ /\ Wanted[c] \in Valid
          /\ Goto(c, "verify", "sync") /\ UNCHANGED <<staging, synced, receipt>>
       \/ /\ Wanted[c] \notin Valid
          /\ Return(c, "verify", "failed")
    /\ UNCHANGED <<rootVars, deaths, errors>>

\* Broken variant: the staged tree is not fsynced.
SyncNothing(c) ==
    /\ Goto(c, "sync", "rename")
    /\ UNCHANGED <<rootVars, staging, synced, receipt, deaths, errors>>

\* _fsync_tree
Sync(c) ==
    /\ Goto(c, "sync", "rename")
    /\ synced' = synced \cup {c}
    /\ UNCHANGED <<rootVars, staging, receipt, deaths, errors>>

Expose(c) ==
    /\ Goto(c, "rename", "syncParent")
    /\ root' = Wanted[c]
    /\ solid' = (c \in synced)
    /\ staging' = staging \ {c}
    /\ UNCHANGED <<synced, receipt>>

\* Broken variant: the rename replaces a bundle that is there.
RenameOver(c) ==
    /\ Expose(c)
    /\ UNCHANGED <<stable, parent, deaths, errors>>

\* os.replace of a directory: fails when the target holds files, and takes
\* the place of an absent or empty one.
Rename(c) ==
    /\ \/ /\ root \in {Absent, Empty}
          /\ Expose(c)
       \/ /\ root \notin {Absent, Empty}
          /\ Return(c, "rename", "failed") /\ UNCHANGED <<root, solid>>
    /\ UNCHANGED <<stable, parent, deaths, errors>>

\* Broken variant: the receipt is issued without the fsync of the parent.
ReceiptWithoutSync(c) ==
    /\ Return(c, "syncParent", "written")
    /\ UNCHANGED <<rootVars, deaths, errors>>

\* fsync of the immediate parent, which holds the entry of the root, then the
\* receipt.
SyncParent(c) ==
    /\ Return(c, "syncParent", "written")
    /\ stable' = root
    /\ UNCHANGED <<root, solid, parent, deaths, errors>>

\* An OSError in the try block, after mkdir and mkdtemp (theirs are not caught,
\* see Crash); once the bundle is exposed it stays so.
Error(c) ==
    /\ errors < MaxErrors
    /\ errors' = errors + 1
    /\ \E at \in {"stage", "verify", "sync", "rename", "syncParent"} :
          /\ Return(c, at, "failed")
          /\ IF at = "stage" THEN MakeParents ELSE UNCHANGED parent
    /\ UNCHANGED <<root, stable, solid, deaths>>

\* The process dies, or an exception that commit does not catch ends it.  Its
\* staging directory stays for ever, in nobody's way (mkdtemp gives each attempt
\* one of its own), and is not followed any further here.
Crash(c) ==
    /\ phase[c] \notin {"done", "dead"}
    /\ deaths < MaxDeaths
    /\ deaths' = deaths + 1
    /\ phase' = [phase EXCEPT ![c] = "dead"]
    /\ staging' = staging \ {c}
    /\ synced' = synced \ {c}
    /\ UNCHANGED <<rootVars, receipt, errors>>

\* Every process dies.  A rename that was not fsynced may be undone, the files
\* of a tree that was not fsynced may be lost, and directories that were just
\* made may go with all they hold.
PowerLoss ==
    /\ deaths < MaxDeaths
    /\ deaths' = deaths + 1
    /\ \/ /\ root' \in {stable, IF solid THEN root ELSE Torn}
          /\ parent' = IF parent = "fresh" THEN "kept" ELSE parent
       \/ parent = "fresh" /\ root' = Absent /\ parent' = "absent"
    /\ stable' = root'
    /\ solid' = TRUE
    /\ phase' = [c \in Committers |-> IF phase[c] = "done" THEN "done" ELSE "dead"]
    /\ staging' = {}
    /\ synced' = {}
    /\ UNCHANGED <<receipt, errors>>

\* A later attempt to commit the same bundle.
Retry(c) ==
    /\ phase[c] = "dead" \/ (phase[c] = "done" /\ receipt[c] = "failed" /\ Wanted[c] \in Valid)
    /\ phase' = [phase EXCEPT ![c] = "plan"]
    /\ receipt' = [receipt EXCEPT ![c] = "none"]
    /\ UNCHANGED <<rootVars, staging, synced, deaths, errors>>

Commit(c) == Plan(c) \/ Probe(c) \/ Stage(c) \/ Verify(c) \/ Sync(c) \/ Rename(c)
                \/ SyncParent(c)

Next == PowerLoss \/ \E c \in Committers : Commit(c) \/ Error(c) \/ Crash(c) \/ Retry(c)

Spec == Init /\ [][Next]_vars
FairSpec == Spec /\ \A c \in Committers : WF_vars(Commit(c) \/ Retry(c))

-----------------------------------------------------------------------------
(* Properties.                                                              *)

\* Every variable has its type.
BundleTypeOK ==
    /\ root \in Bundles \cup {Absent, Empty, Torn}
    /\ stable \in Bundles \cup {Absent, Empty, Torn}
    /\ solid \in BOOLEAN
    /\ parent \in Parents
    /\ phase \in [Committers -> Phases]
    /\ staging \subseteq Committers
    /\ synced \subseteq Committers
    /\ receipt \in [Committers -> Statuses]
    /\ deaths \in 0 .. MaxDeaths
    /\ errors \in 0 .. MaxErrors

\* docs/output-sink.md: whatever dies and whenever, the root shows a bundle
\* that passed verification, whole, or none at all.
ExposedIsWhole == root \in {Absent, Empty} \cup Valid

\* "Immutable existing bundles cannot be replaced": while the machine is up,
\* an exposed bundle stays.
ExposedStays == [][(root \in Bundles /\ deaths' = deaths) => root' = root]_vars

\* In a directory that was on disk before the first commit, a receipt that says
\* written is about a bundle that no rival and no power loss takes away.  (A
\* bundle below directories that were only just made can be lost with them.)
WrittenIsDurable ==
    parent = "solid" =>
        \A c \in Committers : receipt[c] = "written" => root = Wanted[c] /\ stable = Wanted[c]

\* A committer of a valid bundle that is run again whenever it was interrupted
\* or failed gets its receipt, or is refused because a different bundle is
\* there: losing a race against an identical commit is not final.
CommitSettles ==
    \A c \in Committers : root # Empty /\ Wanted[c] \in Valid =>
        <>(phase[c] = "done" /\ \/ receipt[c] \in {"written", "skipped"}
                                \/ receipt[c] = "refused" /\ root # Wanted[c])
=============================================================================
