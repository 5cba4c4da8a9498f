------------------------- MODULE BundleSinkProofs -------------------------
(***************************************************************************)
(* The safety of the packet bundle sink, for any committers, any bundles   *)
(* and any number of errors, deaths and power losses.                      *)
(***************************************************************************)
EXTENDS BundleSink, TLAPS

\* What a committer may rely on from the steps it has behind it: past
\* verification its bundle is valid, past _fsync_tree its files are on disk,
\* and past the rename the root shows its bundle.
EarnedByPosition ==
    \A c \in Committers :
        /\ phase[c] \in {"sync", "rename", "syncParent"} => Wanted[c] \in Valid
        /\ phase[c] = "rename" => c \in synced
        /\ phase[c] = "syncParent" => root = Wanted[c]

\* The root shows, now and after a power loss at the latest, nothing or a whole
\* valid bundle whose files are on disk.
RootIsWhole ==
    /\ ExposedIsWhole
    /\ stable \in {Absent, Empty} \cup Valid
    /\ solid = TRUE

\* The inductive invariant.
BundleInv == BundleTypeOK /\ EarnedByPosition /\ RootIsWhole /\ WrittenIsDurable

-----------------------------------------------------------------------------

\* Before the first commit nothing has been promised.
LEMMA BundleInit == Init => BundleInv
  BY BundleAssumption DEF Init, BundleInv, BundleTypeOK, EarnedByPosition, RootIsWhole,
     ExposedIsWhole, WrittenIsDurable, Phases, Statuses, Parents

\* Each step of a commit, its failure and its repetition keep what the
\* committers rely on.
LEMMA BundleStep == BundleInv /\ [Next]_vars => BundleInv'
<1> SUFFICES ASSUME BundleInv, [Next]_vars PROVE BundleInv'
  OBVIOUS
<1> USE BundleAssumption DEF BundleInv, BundleTypeOK, EarnedByPosition, RootIsWhole,
        ExposedIsWhole, WrittenIsDurable, Phases, Statuses, Parents, rootVars
<1>1. ASSUME NEW c \in Committers, Plan(c) PROVE BundleInv'
  BY <1>1 DEF Plan, Goto, Issue
<1>2. ASSUME NEW c \in Committers, Probe(c) PROVE BundleInv'
  BY <1>2 DEF Probe, Goto, Issue
<1>3. ASSUME NEW c \in Committers, Stage(c) PROVE BundleInv'
  BY <1>3 DEF Stage, Goto, MakeParents
<1>4. ASSUME NEW c \in Committers, Verify(c) PROVE BundleInv'
  BY <1>4 DEF Verify, Return, Goto, Issue
<1>5. ASSUME NEW c \in Committers, Sync(c) PROVE BundleInv'
  BY <1>5 DEF Sync, Goto
<1>6. ASSUME NEW c \in Committers, Rename(c) PROVE BundleInv'
  <2>1. CASE Expose(c) /\ root \in {Absent, Empty} /\ UNCHANGED <<stable, parent, deaths, errors>>
    BY <2>1 DEF Expose, Goto
  <2>2. CASE Return(c, "rename", "failed") /\ UNCHANGED <<root, solid, stable, parent, deaths, errors>>
    BY <2>2 DEF Return, Goto, Issue
  <2> QED
    BY <1>6, <2>1, <2>2 DEF Rename
<1>7. ASSUME NEW c \in Committers, SyncParent(c) PROVE BundleInv'
  BY <1>7 DEF SyncParent, Return, Goto, Issue
<1>8. ASSUME NEW c \in Committers, Error(c) PROVE BundleInv'
  <2>1. PICK at \in {"stage", "verify", "sync", "rename", "syncParent"} :
          /\ Return(c, at, "failed")
          /\ IF at = "stage" THEN MakeParents ELSE UNCHANGED parent
    BY <1>8 DEF Error
  <2>2. errors < MaxErrors /\ errors' = errors + 1 /\ UNCHANGED <<root, stable, solid, deaths>>
    BY <1>8 DEF Error
  <2>3. parent' \in Parents /\ (parent' = "solid" => parent = "solid")
    BY <2>1 DEF MakeParents
  <2> QED
    BY <2>1, <2>2, <2>3 DEF Return, Goto, Issue
<1>9. ASSUME NEW c \in Committers, Crash(c) PROVE BundleInv'
  BY <1>9 DEF Crash
<1>10. ASSUME PowerLoss PROVE BundleInv'
  BY <1>10 DEF PowerLoss
<1>11. ASSUME NEW c \in Committers, Retry(c) PROVE BundleInv'
  BY <1>11 DEF Retry
<1>12. CASE UNCHANGED vars
  BY <1>12 DEF vars
<1> QED
  BY <1>1, <1>2, <1>3, <1>4, <1>5, <1>6, <1>7, <1>8, <1>9, <1>10, <1>11, <1>12
     DEF Next, Commit

-----------------------------------------------------------------------------

\* The invariant of PacketBundleOutputSink.commit under concurrent committers,
\* errors, deaths and power losses.
THEOREM BundleInvariant == Spec => []BundleInv
  BY BundleInit, BundleStep, PTL DEF Spec

\* Every variable keeps its type (commit and its failures).
THEOREM BundleTypeCorrect == Spec => []BundleTypeOK
  BY BundleInvariant, PTL DEF BundleInv

\* Whoever dies and whenever, the root shows a bundle that verify_packet_bundle
\* accepted, whole, or none.
THEOREM BundleExposedIsWhole == Spec => []ExposedIsWhole
  BY BundleInvariant, PTL DEF BundleInv, RootIsWhole

\* In a directory that was on disk before the first commit, neither a rival nor
\* a power loss takes away a bundle that a receipt calls written.
THEOREM BundleWrittenIsDurable == Spec => []WrittenIsDurable
<1>1. BundleInv => WrittenIsDurable
  BY DEF BundleInv
<1> QED
  BY <1>1, BundleInvariant, PTL

\* os.replace of a directory exposes a bundle only where there was none, so an
\* exposed bundle stays while the machine is up.
THEOREM BundleExposedStays == Spec => ExposedStays
<1>1. BundleInv /\ [Next]_vars => (root \in Bundles /\ deaths' = deaths => root' = root)
  <2> SUFFICES ASSUME BundleInv, [Next]_vars, root \in Bundles, deaths' = deaths
               PROVE  root' = root
    OBVIOUS
  <2>1. ~ PowerLoss
    BY DEF PowerLoss, BundleInv, BundleTypeOK
  <2>2. root \notin {Absent, Empty}
    BY BundleAssumption
  <2> QED
    BY <2>1, <2>2 DEF Next, Commit, Plan, Probe, Stage, Verify, Sync, Rename, Expose,
       SyncParent, Error, Crash, Retry, rootVars, vars
<1> QED
  BY <1>1, BundleInvariant, PTL DEF Spec, ExposedStays
=============================================================================
