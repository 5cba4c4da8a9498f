------------------------- MODULE StageWorkerProofs --------------------------
(***************************************************************************)
(* The safety of the lease store and of the worker processes over it, for  *)
(* any number of processes, keys, dispatches, packets, failures and        *)
(* crashes: who may work on a key, what is published of it, and the        *)
(* contract with the control plane.                                        *)
(***************************************************************************)
EXTENDS StageWorker, TLAPS

-----------------------------------------------------------------------------
(* The lease store, for any callers in any order.                           *)

\* No two processes hold permits with the same fence: what makes "compare the
\* fence" tell the current holder of a row from all the earlier ones.
FencesDistinct ==
    \A v, w \in Workers :
        /\ permit[v] # NoPermit
        /\ permit[w] # NoPermit
        /\ permit[v].fence = permit[w].fence
        => v = w

\* The inductive invariant.
LeaseInv == LeaseTypeOK /\ FencesDistinct /\ NonceColumnUnique

-----------------------------------------------------------------------------
(* Type correctness.                                                        *)

\* Only the six operations of the store touch its state, so each keeps a
\* typed store typed.
LEMMA TypeStep == LeaseTypeOK /\ [LeaseNext]_leaseVars => LeaseTypeOK'
<1> SUFFICES ASSUME LeaseTypeOK, [LeaseNext]_leaseVars PROVE LeaseTypeOK'
  OBVIOUS
<1> USE NoPermitFresh DEF LeaseTypeOK
<1>1. ASSUME NEW w \in Workers, NEW k \in Keys, NEW n \in Nonces, Claim(w, k, n)
      PROVE  LeaseTypeOK'
  <2>1. PICK f \in Fences :
           /\ lease' = [lease EXCEPT ![k] = [state |-> "CLAIMED", nonce |-> n, fence |-> f]]
           /\ permit' = [permit EXCEPT ![w] = [key |-> k, nonce |-> n, fence |-> f]]
    BY <1>1 DEF Claim
  <2>2. [state |-> "CLAIMED", nonce |-> n, fence |-> f] \in Row
    BY DEF Row, States
  <2>3. [key |-> k, nonce |-> n, fence |-> f] \in Permit
    BY DEF Permit
  <2> QED
    BY <2>1, <2>2, <2>3
<1>2. ASSUME NEW w \in Workers, NEW s \in States, NEW t \in States, Move(w, s, t)
      PROVE  LeaseTypeOK'
  <2>1. permit[w].key \in Keys
    BY <1>2 DEF Move, Owns, Permit
  <2>2. [lease[permit[w].key] EXCEPT !.state = t] \in Row
    BY <2>1 DEF Row
  <2> QED
    BY <1>2, <2>1, <2>2 DEF Move
<1>3. ASSUME NEW w \in Workers, Fail(w)
      PROVE  LeaseTypeOK'
  <2>1. permit[w].key \in Keys
    BY <1>3 DEF Fail, Permit
  <2>2. [lease[permit[w].key] EXCEPT !.state = "FAILED"] \in Row
    BY <2>1 DEF Row, States
  <2> QED
    BY <1>3, <2>1, <2>2 DEF Fail
<1>4. ASSUME NEW w \in Workers, Drop(w)
      PROVE  LeaseTypeOK'
  BY <1>4 DEF Drop
<1>5. CASE UNCHANGED leaseVars
  BY <1>5 DEF leaseVars
<1> QED
  BY <1>1, <1>2, <1>3, <1>4, <1>5 DEF LeaseNext, Finalize, Release, States

\* The initial store is empty and typed.
LEMMA TypeInit == LeaseInit => LeaseTypeOK
  BY DEF LeaseInit, LeaseTypeOK, Row, States, NoRow

\* Type correctness: every reachable store is typed.
THEOREM LeaseTypeCorrect == LeaseSpec => []LeaseTypeOK
  BY TypeInit, TypeStep, PTL DEF LeaseSpec

-----------------------------------------------------------------------------
(* Fencing.                                                                 *)

\* A claim draws a fence nobody holds; the other operations hand out none.
LEMMA FencesStep == LeaseTypeOK /\ FencesDistinct /\ [LeaseNext]_leaseVars => FencesDistinct'
<1> SUFFICES ASSUME LeaseTypeOK, FencesDistinct, [LeaseNext]_leaseVars PROVE FencesDistinct'
  OBVIOUS
<1>1. ASSUME NEW u \in Workers, NEW k \in Keys, NEW n \in Nonces, Claim(u, k, n)
      PROVE  FencesDistinct'
  <2>1. PICK f \in Fences :
           /\ Fresh(f)
           /\ permit' = [permit EXCEPT ![u] = [key |-> k, nonce |-> n, fence |-> f]]
    BY <1>1 DEF Claim
  <2>2. SUFFICES ASSUME NEW v \in Workers, NEW w \in Workers,
                        permit'[v] # NoPermit, permit'[w] # NoPermit,
                        permit'[v].fence = permit'[w].fence
                 PROVE  v = w
    BY DEF FencesDistinct
  <2>3. permit'[u].fence = f
    BY <2>1 DEF LeaseTypeOK
  <2>4. ASSUME NEW x \in Workers, x # u, permit'[x] # NoPermit
        PROVE  permit'[x] = permit[x] /\ permit'[x].fence # f
    BY <2>1, <2>4 DEF LeaseTypeOK, Fresh
  <2> QED
    BY <2>2, <2>3, <2>4 DEF FencesDistinct
<1>2. ASSUME NEW u \in Workers, NEW s, NEW t, Move(u, s, t)
      PROVE  FencesDistinct'
  BY <1>2 DEF Move, FencesDistinct
<1>3. ASSUME NEW u \in Workers, Fail(u)
      PROVE  FencesDistinct'
  BY <1>3 DEF Fail, FencesDistinct
<1>4. ASSUME NEW u \in Workers, Drop(u)
      PROVE  FencesDistinct'
  BY <1>4 DEF Drop, FencesDistinct, LeaseTypeOK
<1>5. CASE UNCHANGED leaseVars
  BY <1>5 DEF leaseVars, FencesDistinct
<1> QED
  BY <1>1, <1>2, <1>3, <1>4, <1>5 DEF LeaseNext, Finalize, Release

-----------------------------------------------------------------------------
(* The nonce column.                                                        *)

\* Claim writes a nonce that no other row carries; nothing else writes one.
LEMMA NoncesStep ==
    LeaseTypeOK /\ NonceColumnUnique /\ [LeaseNext]_leaseVars => NonceColumnUnique'
<1> SUFFICES ASSUME LeaseTypeOK, NonceColumnUnique, [LeaseNext]_leaseVars
             PROVE  NonceColumnUnique'
  OBVIOUS
<1>1. ASSUME NEW w \in Workers, NEW k \in Keys, NEW n \in Nonces, Claim(w, k, n)
      PROVE  NonceColumnUnique'
  <2>1. PICK f \in Fences :
           lease' = [lease EXCEPT ![k] = [state |-> "CLAIMED", nonce |-> n, fence |-> f]]
    BY <1>1 DEF Claim
  <2>2. \A j \in Keys \ {k} : lease[j].nonce # n
    BY <1>1 DEF Claim, CanClaim, NonceHeldElsewhere
  <2>3. lease'[k].nonce = n /\ \A j \in Keys \ {k} : lease'[j] = lease[j]
    BY <2>1 DEF LeaseTypeOK
  <2> QED
    BY <2>2, <2>3 DEF NonceColumnUnique
<1>2. ASSUME \A j \in Keys : lease'[j].nonce = lease[j].nonce
      PROVE  NonceColumnUnique'
  BY <1>2 DEF NonceColumnUnique
<1>3. ASSUME NEW w \in Workers, NEW s, NEW t, Move(w, s, t)
      PROVE  \A j \in Keys : lease'[j].nonce = lease[j].nonce
  BY <1>3 DEF Move, LeaseTypeOK, Row
<1>4. ASSUME NEW w \in Workers, Fail(w)
      PROVE  \A j \in Keys : lease'[j].nonce = lease[j].nonce
  BY <1>4 DEF Fail, LeaseTypeOK, Row
<1>5. ASSUME NEW w \in Workers, Drop(w)
      PROVE  \A j \in Keys : lease'[j].nonce = lease[j].nonce
  BY <1>5 DEF Drop
<1>6. CASE UNCHANGED leaseVars
  BY <1>6 DEF leaseVars, NonceColumnUnique
<1> QED
  BY <1>1, <1>2, <1>3, <1>4, <1>5, <1>6 DEF LeaseNext, Finalize, Release

-----------------------------------------------------------------------------

\* The strengthened invariant holds throughout.
THEOREM LeaseInvariant == LeaseSpec => []LeaseInv
<1>1. LeaseInit => LeaseInv
  BY TypeInit, NoPermitFresh
     DEF LeaseInit, LeaseInv, FencesDistinct, NonceColumnUnique, NoRow
<1>2. LeaseInv /\ [LeaseNext]_leaseVars => LeaseInv'
  BY TypeStep, FencesStep, NoncesStep DEF LeaseInv
<1> QED
  BY <1>1, <1>2, PTL DEF LeaseSpec

\* Single winner: two processes that both pass assert_active for a key hold
\* permits with the fence of the same row, so they are one process.
THEOREM LeaseSingleWinner == LeaseSpec => []SingleWinner
<1>1. LeaseInv => SingleWinner
  BY DEF LeaseInv, FencesDistinct, SingleWinner, Active, Owns
<1> QED
  BY <1>1, LeaseInvariant, PTL

\* The UNIQUE(dispatch_nonce) constraint of the table never fires.
THEOREM LeaseNonceColumn == LeaseSpec => []NonceColumnUnique
<1>1. LeaseInv => NonceColumnUnique
  BY DEF LeaseInv
<1> QED
  BY <1>1, LeaseInvariant, PTL

-----------------------------------------------------------------------------
(* What a step may never do.                                                *)

\* Stale permits are inert: every step that changes a row is a claim with a
\* fresh fence, or is taken by the process that holds the row's fence.
THEOREM LeaseFencing == LeaseSpec => StalePermitIsInert
<1> DEFINE Inert(k) ==
       \/ lease'[k] = lease[k]
       \/ Fresh(lease'[k].fence)
       \/ \E w \in Workers : permit[w] # NoPermit /\ permit[w].key = k
                                 /\ permit[w].fence = lease[k].fence
<1>1. ASSUME LeaseTypeOK, [LeaseNext]_leaseVars, NEW k \in Keys
      PROVE  Inert(k)
  <2>1. ASSUME NEW w \in Workers, NEW j \in Keys, NEW n \in Nonces, Claim(w, j, n)
        PROVE  Inert(k)
    <3>1. PICK f \in Fences :
             /\ Fresh(f)
             /\ lease' = [lease EXCEPT ![j] = [state |-> "CLAIMED", nonce |-> n, fence |-> f]]
      BY <2>1 DEF Claim
    <3>2. CASE j = k
      <4>1. lease'[k].fence = f
        BY <1>1, <3>1, <3>2 DEF LeaseTypeOK
      <4> QED
        BY <3>1, <4>1
    <3>3. CASE j # k
      BY <1>1, <3>1, <3>3 DEF LeaseTypeOK
    <3> QED
      BY <3>2, <3>3
  <2>2. ASSUME NEW w \in Workers, NEW s, NEW t, Move(w, s, t)
        PROVE  Inert(k)
    <3>1. CASE permit[w].key = k
      BY <2>2, <3>1 DEF Move, Owns
    <3>2. CASE permit[w].key # k
      BY <1>1, <2>2, <3>2 DEF Move, LeaseTypeOK
    <3> QED
      BY <3>1, <3>2
  <2>3. ASSUME NEW w \in Workers, Fail(w)
        PROVE  Inert(k)
    <3>1. CASE Active(w) /\ permit[w].key = k
      BY <3>1 DEF Active, Owns
    <3>2. CASE ~ Active(w) \/ permit[w].key # k
      BY <1>1, <2>3, <3>2 DEF Fail, LeaseTypeOK
    <3> QED
      BY <3>1, <3>2
  <2>4. ASSUME NEW w \in Workers, Drop(w)
        PROVE  Inert(k)
    BY <2>4 DEF Drop
  <2>5. CASE UNCHANGED leaseVars
    BY <2>5 DEF leaseVars
  <2> QED
    BY <1>1, <2>1, <2>2, <2>3, <2>4, <2>5 DEF LeaseNext, Finalize, Release
<1>2. LeaseTypeOK /\ [LeaseNext]_leaseVars => [\A k \in Keys : Inert(k)]_leaseVars
  BY <1>1
<1> QED
  BY <1>2, LeaseTypeCorrect, PTL DEF LeaseSpec, StalePermitIsInert

\* No claim takes a PUBLISHED or ACKNOWLEDGED row, and neither _transition nor
\* fail leads out of the two states.
LEMMA FinalizedStep ==
    ASSUME LeaseTypeOK, [LeaseNext]_leaseVars, NEW k \in Keys, Finalized(k)
    PROVE  /\ Finalized(k)'
           /\ lease'[k].fence = lease[k].fence
           /\ lease'[k].nonce = lease[k].nonce
<1> DEFINE Kept == /\ Finalized(k)'
                   /\ lease'[k].fence = lease[k].fence
                   /\ lease'[k].nonce = lease[k].nonce
<1>1. ASSUME NEW w \in Workers, NEW j \in Keys, NEW n \in Nonces, Claim(w, j, n)
      PROVE  Kept
  <2>1. j # k
    BY <1>1 DEF Claim, CanClaim, Finalized
  <2> QED
    BY <1>1, <2>1 DEF Claim, Finalized, LeaseTypeOK
<1>2. ASSUME NEW w \in Workers, Finalize(w) \/ Release(w)
      PROVE  Kept
  BY <1>2 DEF Finalize, Release, Move, Finalized, LeaseTypeOK, Row
<1>3. ASSUME NEW w \in Workers, Fail(w)
      PROVE  Kept
  BY <1>3 DEF Fail, Active, Finalized, LeaseTypeOK, Row
<1>4. ASSUME NEW w \in Workers, Drop(w)
      PROVE  Kept
  BY <1>4 DEF Drop, Finalized
<1>5. CASE UNCHANGED leaseVars
  BY <1>5 DEF leaseVars, Finalized
<1> QED
  BY <1>1, <1>2, <1>3, <1>4, <1>5 DEF LeaseNext

\* Finalized work stays finalized, whatever the processes call.
THEOREM LeaseFinalizedForEver == LeaseSpec => FinalizedForEver
<1>1. LeaseTypeOK /\ [LeaseNext]_leaseVars
         => [\A k \in Keys : Finalized(k) =>
               /\ Finalized(k)'
               /\ lease'[k].fence = lease[k].fence
               /\ lease'[k].nonce = lease[k].nonce]_leaseVars
  BY FinalizedStep
<1> QED
  BY <1>1, LeaseTypeCorrect, PTL DEF LeaseSpec, FinalizedForEver

-----------------------------------------------------------------------------
(* The worker processes.                                                    *)

\* One step of process w, by itself or by the environment: the body of Next.
StepOf(w) ==
    \/ Proceed(w)
    \/ \E k \in Keys, n \in Nonces : Start(w, k, n)
    \/ Fault(w) \/ FailLeaseFault(w) \/ Crash(w)

\* A process that is not idle has a dispatch to work on.
Employed ==
    /\ pc \in [Workers -> PCs]
    /\ job \in [Workers -> (Keys \X Nonces) \cup {NoJob}]
    /\ \A w \in Workers : pc[w] # "idle" => job[w] # NoJob

\* The lease store under the worker processes, and what they hold of it.
HoldInv == LeaseInv /\ Employed /\ LeaseHeld

-----------------------------------------------------------------------------
(* The frame of a step.                                                     *)

\* A step of one process leaves the control state of every other as it is.
LEMMA OthersStandStill ==
    ASSUME Employed, LeaseTypeOK, NEW w \in Workers, StepOf(w), NEW v \in Workers, v # w
    PROVE  pc'[v] = pc[v] /\ job'[v] = job[v] /\ permit'[v] = permit[v]
<1> USE DEF Step, Raise, Check, Retire, Employed, LeaseTypeOK, leaseVars
<1>1. CASE Lookup(w) \/ Acquire(w) \/ Recheck(w)
  BY <1>1 DEF Lookup, Acquire, AcquireGranted, AcquireReuse, AcquireRefused, Recheck, Claim
<1>2. CASE Reuse(w) \/ AckResult(w)
  BY <1>2 DEF Reuse, ReuseVerify, ReuseCall, ReuseAck, AckResult, Ack
<1>3. CASE Execute(w)
  BY <1>3 DEF Execute, Compile, CommitBundle, PersistReceipt, Publish, VerifyPublished, AssertActive
<1>4. CASE FinalizeLease(w) \/ RegisterPacket(w) \/ CallResult(w) \/ ReleaseLease(w)
  BY <1>4 DEF FinalizeLease, RegisterPacket, CallResult, ReleaseLease, Finalize, Release, Move
<1>5. CASE FailLease(w) \/ Report(w) \/ Exit(w) \/ FailLeaseFault(w) \/ Crash(w)
  BY <1>5 DEF FailLease, Report, Exit, FailLeaseFault, Crash, Fail
<1>6. CASE Fault(w) \/ \E k \in Keys, n \in Nonces : Start(w, k, n)
  BY <1>6 DEF Fault, Start
<1> QED
  BY <1>1, <1>2, <1>3, <1>4, <1>5, <1>6 DEF StepOf, Proceed, Complete

\* The dispatch of a process that is not idle names a key and a nonce.
LEMMA JobTyped ==
    ASSUME Employed, NEW w \in Workers, pc[w] # "idle"
    PROVE  key(w) \in Keys /\ nonce(w) \in Nonces
  BY DEF Employed, key, nonce

\* An exception leaves the protected and the finishing calls; the names of the
\* calls are different strings.
LEMMA CallNames ==
    /\ Protected \cap Finishing = {}
    /\ {"failing", "report", "exit", "idle", "lookup", "acquire", "recheck",
        "reuseVerify", "reuseCall", "reuseAck"} \cap (Protected \cup Finishing) = {}
    /\ Protected \cup Finishing \subseteq Calls
    /\ Calls = {"lookup", "acquire", "recheck", "reuseVerify", "reuseCall", "reuseAck"}
                  \cup Protected \cup Finishing
  BY DEF Protected, Finishing, Calls, FaultsAt

\* Every process keeps a dispatch as long as it is not idle.
LEMMA EmployedStep ==
    ASSUME Employed, [Next]_vars PROVE Employed'
<1> USE DEF Employed, Step, Raise, Check, Retire, PCs
<1>1. ASSUME NEW w \in Workers, StepOf(w) PROVE Employed'
  <2>0. "lookup" \in PCs /\ "acquire" \in PCs /\ "recheck" \in PCs
    BY CallNames
  <2>1. CASE Lookup(w) \/ Acquire(w) \/ Recheck(w)
    <3>1. CASE Lookup(w) \/ Recheck(w)
      BY <3>1, CallNames DEF Lookup, Recheck
    <3>2. CASE Acquire(w)
      BY <3>2, CallNames
         DEF Acquire, AcquireGranted, AcquireReuse, AcquireRefused, Protected
    <3> QED
      BY <2>1, <3>1, <3>2
  <2>2. CASE Reuse(w) \/ AckResult(w)
    BY <2>2, CallNames
       DEF Reuse, ReuseVerify, ReuseCall, ReuseAck, AckResult, Ack, Finishing
  <2>3. CASE Execute(w)
    BY <2>3, CallNames DEF Execute, Compile, CommitBundle, PersistReceipt, Publish,
                           VerifyPublished, AssertActive, Protected
  <2>4. CASE FinalizeLease(w) \/ RegisterPacket(w) \/ CallResult(w) \/ ReleaseLease(w)
    BY <2>4, CallNames DEF FinalizeLease, RegisterPacket, CallResult, ReleaseLease, Finishing
  <2>5. CASE FailLease(w) \/ Report(w) \/ Exit(w) \/ FailLeaseFault(w) \/ Crash(w)
    BY <2>5 DEF FailLease, Report, Exit, FailLeaseFault, Crash
  <2>6. CASE Fault(w)
    BY <2>6, CallNames DEF Fault
  <2>7. CASE \E k \in Keys, n \in Nonces : Start(w, k, n)
    BY <2>7, CallNames, DispatchesAssumption DEF Start
  <2> QED
    BY <1>1, <2>1, <2>2, <2>3, <2>4, <2>5, <2>6, <2>7 DEF StepOf, Proceed, Complete
<1>2. CASE UNCHANGED vars
  BY <1>2 DEF vars
<1> QED
  BY <1>1, <1>2 DEF Next, StepOf

-----------------------------------------------------------------------------
(* The worker keeps to the lease store's transitions.                       *)

\* The calls that reach the lease store are its own operations; all others
\* leave it alone.
LEMMA LeaseStepOf ==
    ASSUME LeaseTypeOK, Employed, NEW w \in Workers, StepOf(w)
    PROVE  \/ \E k \in Keys, n \in Nonces : Claim(w, k, n) /\ pc[w] = "acquire"
                 /\ k = key(w)
           \/ Finalize(w) /\ pc[w] = "finalize"
           \/ Release(w) /\ pc[w] = "release"
           \/ Fail(w) /\ pc[w] = "failing"
           \/ Drop(w) /\ pc'[w] = "idle"
           \/ UNCHANGED leaseVars
<1> USE DEF Step, Raise, Check, Retire, leaseVars
<1>1. CASE Lookup(w) \/ Recheck(w) \/ Reuse(w) \/ AckResult(w)
  BY <1>1 DEF Lookup, Recheck, Reuse, ReuseVerify, ReuseCall, ReuseAck, AckResult, Ack
<1>2. CASE Acquire(w)
  BY <1>2, JobTyped DEF Acquire, AcquireGranted, AcquireReuse, AcquireRefused
<1>3. CASE Execute(w)
  BY <1>3 DEF Execute, Compile, CommitBundle, PersistReceipt, Publish, VerifyPublished, AssertActive
<1>4. CASE FinalizeLease(w) \/ RegisterPacket(w) \/ CallResult(w) \/ ReleaseLease(w)
  BY <1>4 DEF FinalizeLease, RegisterPacket, CallResult, ReleaseLease
<1>5. CASE FailLease(w) \/ Report(w) \/ FailLeaseFault(w)
  BY <1>5 DEF FailLease, Report, FailLeaseFault
<1>6. CASE Exit(w) \/ Crash(w)
  <2>1. permit' = [permit EXCEPT ![w] = NoPermit] /\ UNCHANGED lease /\ pc'[w] = "idle"
    BY <1>6 DEF Exit, Crash, Employed
  <2> QED
    BY <2>1 DEF Drop, LeaseTypeOK
<1>7. CASE Fault(w) \/ \E k \in Keys, n \in Nonces : Start(w, k, n)
  BY <1>7 DEF Fault, Start
<1> QED
  BY <1>1, <1>2, <1>3, <1>4, <1>5, <1>6, <1>7 DEF StepOf, Proceed, Complete

\* Every step of the system is a step of the lease's own protocol or leaves the
\* lease alone.
LEMMA LeaseStep ==
    ASSUME LeaseTypeOK, Employed, [Next]_vars PROVE [LeaseNext]_leaseVars
<1>1. ASSUME NEW w \in Workers, StepOf(w) PROVE [LeaseNext]_leaseVars
  BY <1>1, LeaseStepOf DEF LeaseNext
<1>2. CASE UNCHANGED vars
  BY <1>2 DEF vars, leaseVars
<1> QED
  BY <1>1, <1>2 DEF Next, StepOf

-----------------------------------------------------------------------------
(* The lease is held.                                                       *)

\* LeaseHeld for one process.
Held(w) ==
    /\ pc[w] \in Protected => Active(w) /\ permit[w].key = key(w)
    /\ pc[w] \in Finishing =>
          Owns(w) /\ permit[w].key = key(w) /\ lease[key(w)].state = "PUBLISHED"

\* While a process works or finishes, no other one can change its row: a
\* claim needs a row that is not taken, and whoever moves or fails a row holds
\* the fence in it, which nobody else does.
LEMMA OthersKeepRow ==
    ASSUME HoldInv, NEW w \in Workers, StepOf(w), NEW v \in Workers, v # w,
           pc[v] \in Protected \cup Finishing
    PROVE  lease'[key(v)] = lease[key(v)]
<1> USE DEF HoldInv, LeaseInv
<1>1. /\ Owns(v) /\ permit[v].key = key(v)
      /\ lease[key(v)].state \in {"CLAIMED", "PUBLISHED"}
  BY DEF LeaseHeld, Active
<1>2. key(v) \in Keys
  BY JobTyped, CallNames DEF Protected, Finishing
<1>3. permit[w] # NoPermit /\ permit[w].key = key(v) => ~ Owns(w)
  BY <1>1 DEF Owns, FencesDistinct
<1>4. ASSUME NEW k \in Keys, NEW n \in Nonces, Claim(w, k, n)
      PROVE  lease'[key(v)] = lease[key(v)]
  BY <1>1, <1>2, <1>4 DEF Claim, CanClaim, LeaseTypeOK
<1>5. ASSUME NEW s, NEW t, Move(w, s, t)
      PROVE  lease'[key(v)] = lease[key(v)]
  BY <1>2, <1>3, <1>5 DEF Move, Owns, LeaseTypeOK
<1>6. ASSUME Fail(w)
      PROVE  lease'[key(v)] = lease[key(v)]
  BY <1>2, <1>3, <1>6 DEF Fail, Active, Owns, LeaseTypeOK
<1>7. CASE Drop(w) \/ UNCHANGED leaseVars
  BY <1>7 DEF Drop, leaseVars
<1> QED
  BY LeaseStepOf, <1>4, <1>5, <1>6, <1>7 DEF Finalize, Release

\* A process enters the protected calls with the permit it has just been
\* granted and the finishing calls when it has finalized its own row.
LEMMA OwnHeld ==
    ASSUME HoldInv, NEW w \in Workers, StepOf(w) PROVE Held(w)'
<1> USE DEF HoldInv, LeaseInv, Step, Raise, Check, Employed
<1>0. /\ pc[w] \in Protected => Active(w) /\ permit[w].key = key(w)
      /\ pc[w] \in Finishing =>
            Owns(w) /\ permit[w].key = key(w) /\ lease[key(w)].state = "PUBLISHED"
  BY DEF LeaseHeld
<1>1. ASSUME pc'[w] \notin Protected \cup Finishing PROVE Held(w)'
  BY <1>1 DEF Held
<1>2. ASSUME UNCHANGED <<leaseVars, job>>,
             \/ pc[w] \in Protected /\ pc'[w] \in Protected
             \/ pc[w] \in Finishing /\ pc'[w] \in Finishing
      PROVE  Held(w)'
  BY <1>0, <1>2, CallNames DEF Held, Active, Owns, key, leaseVars
<1>3. CASE AcquireGranted(w)
  <2>1. PICK f \in Fences :
           /\ lease' = [lease EXCEPT ![key(w)] = [state |-> "CLAIMED", nonce |-> nonce(w), fence |-> f]]
           /\ permit' = [permit EXCEPT ![w] = [key |-> key(w), nonce |-> nonce(w), fence |-> f]]
    BY <1>3 DEF AcquireGranted, Claim
  <2>2. key(w) \in Keys /\ nonce(w) \in Nonces
    BY <1>3, JobTyped DEF AcquireGranted
  <2>3. [key |-> key(w), nonce |-> nonce(w), fence |-> f] \in Permit
    BY <2>2 DEF Permit
  <2>4. /\ permit'[w].key = key(w) /\ permit'[w].fence = f /\ permit'[w] # NoPermit
        /\ lease'[key(w)].state = "CLAIMED" /\ lease'[key(w)].fence = f
    BY <2>1, <2>2, <2>3, NoPermitFresh DEF LeaseTypeOK
  <2>5. pc'[w] = "assert1" /\ job' = job
    BY <1>3 DEF AcquireGranted
  <2>6. pc'[w] \in Protected /\ pc'[w] \notin Finishing
    BY <2>5 DEF Protected, Finishing
  <2> QED
    BY <2>4, <2>5, <2>6 DEF Held, Active, Owns, key
<1>4. CASE Execute(w)
  <2>1. UNCHANGED <<leaseVars, job>> /\ pc[w] \in Protected
    BY <1>4 DEF Execute, Compile, CommitBundle, PersistReceipt, Publish, VerifyPublished,
                AssertActive, Protected
  <2>2. pc'[w] \in Protected \/ pc'[w] \in {"failing", "report"}
    BY <1>4 DEF Execute, Compile, CommitBundle, PersistReceipt, Publish, VerifyPublished,
                AssertActive, Protected
  <2> QED
    BY <1>1, <1>2, <2>1, <2>2, CallNames
<1>5. CASE FinalizeLease(w)
  <2>1. Active(w) /\ permit[w].key = key(w) /\ key(w) \in Keys
    BY <1>0, <1>5, JobTyped DEF FinalizeLease, Protected
  <2>2. /\ pc'[w] = "register" /\ UNCHANGED <<permit, job>>
        /\ lease' = [lease EXCEPT ![key(w)].state = "PUBLISHED"]
    BY <1>5, <2>1 DEF FinalizeLease, Finalize, Move
  <2>3. lease'[key(w)].state = "PUBLISHED" /\ lease'[key(w)].fence = lease[key(w)].fence
    BY <2>1, <2>2 DEF LeaseTypeOK, Row
  <2>4. pc'[w] \notin Protected
    BY <2>2 DEF Protected
  <2> QED
    BY <2>1, <2>2, <2>3, <2>4 DEF Held, Active, Owns, key
<1>6. CASE RegisterPacket(w) \/ CallResult(w) \/ AckResult(w)
  <2>1. UNCHANGED <<leaseVars, job>> /\ pc[w] \in Finishing
    BY <1>6 DEF RegisterPacket, CallResult, AckResult, Ack, Finishing
  <2>2. pc'[w] \in Finishing \/ pc'[w] \in {"failing", "report"}
    BY <1>6 DEF RegisterPacket, CallResult, AckResult, Ack, Finishing
  <2> QED
    BY <1>1, <1>2, <2>1, <2>2, CallNames
<1>7. CASE Lookup(w) \/ AcquireReuse(w) \/ AcquireRefused(w) \/ Recheck(w) \/ Reuse(w)
              \/ ReleaseLease(w) \/ FailLease(w) \/ Report(w)
  <2>1. pc'[w] \in {"failing", "report", "exit", "acquire", "recheck",
                    "reuseVerify", "reuseCall", "reuseAck"}
    BY <1>7 DEF Lookup, AcquireReuse, AcquireRefused, Recheck, Reuse, ReuseVerify, ReuseCall,
                ReuseAck, Ack, ReleaseLease, FailLease, Report
  <2> QED
    BY <1>1, <2>1, CallNames
<1>8. CASE \/ Exit(w) \/ Fault(w) \/ FailLeaseFault(w) \/ Crash(w)
           \/ \E k \in Keys, n \in Nonces : Start(w, k, n)
  <2>1. pc'[w] \in {"failing", "report", "idle", "lookup"}
    BY <1>8 DEF Exit, Fault, FailLeaseFault, Crash, Start, Retire
  <2> QED
    BY <1>1, <2>1, CallNames
<1> QED
  BY <1>3, <1>4, <1>5, <1>6, <1>7, <1>8 DEF StepOf, Proceed, Complete, Acquire

\* No process starts with a permit or a job.
LEMMA HoldInit == Init => HoldInv
  BY TypeInit, NoPermitFresh, CallNames, DispatchesAssumption
     DEF Init, HoldInv, LeaseInv, LeaseInit, NoRow, FencesDistinct, NonceColumnUnique,
         Employed, PCs, LeaseHeld

\* Every step preserves the relation of positions to permits and rows: the
\* process that moves by its own calls, the others because their permits are live.
LEMMA HoldStep == HoldInv /\ [Next]_vars => HoldInv'
<1> SUFFICES ASSUME HoldInv, [Next]_vars PROVE HoldInv'
  OBVIOUS
<1>1. LeaseInv' /\ Employed'
  BY LeaseStep, TypeStep, FencesStep, NoncesStep, EmployedStep DEF HoldInv, LeaseInv
<1>2. ASSUME NEW w \in Workers, StepOf(w), NEW v \in Workers, v # w
      PROVE  Held(v)'
  <2>1. pc'[v] = pc[v] /\ job'[v] = job[v] /\ permit'[v] = permit[v]
    BY <1>2, OthersStandStill DEF HoldInv, LeaseInv, LeaseTypeOK
  <2>2. CASE pc[v] \in Protected \cup Finishing
    <3>1. lease'[key(v)] = lease[key(v)]
      BY <1>2, <2>2, OthersKeepRow
    <3> QED
      BY <1>2, <2>1, <2>2, <3>1 DEF HoldInv, LeaseHeld, Held, Active, Owns, key
  <2>3. CASE pc[v] \notin Protected \cup Finishing
    BY <2>1, <2>3 DEF Held
  <2> QED
    BY <2>2, <2>3
<1>3. ASSUME NEW w \in Workers, StepOf(w)
      PROVE  LeaseHeld'
  BY <1>2, <1>3, OwnHeld DEF LeaseHeld, Held
<1>4. ASSUME UNCHANGED vars PROVE LeaseHeld'
  BY <1>4 DEF vars, HoldInv, LeaseHeld, Active, Owns, key
<1>5. LeaseHeld'
  BY <1>3, <1>4 DEF Next, StepOf
<1> QED
  BY <1>1, <1>5 DEF HoldInv

\* The inductive invariant of the stage worker's use of the lease: in every
\* reachable state each position of run_worker goes with the permit it needs.
THEOREM StageHold == Spec => []HoldInv
  BY HoldInit, HoldStep, PTL DEF Spec

\* Protected work happens under the live lease, and the completion calls under
\* the finalized one, whatever the other processes do in between.
THEOREM StageLeaseHeld == Spec => []LeaseHeld
<1>1. HoldInv => LeaseHeld
  BY DEF HoldInv
<1> QED
  BY <1>1, StageHold, PTL

\* Two processes that work for one key would hold permits with one fence.
LEMMA HoldExclusive == HoldInv => ExclusiveExecution
<1> SUFFICES ASSUME HoldInv, NEW v \in Workers, NEW w \in Workers,
                    pc[v] \in Protected \cup {"register"},
                    pc[w] \in Protected \cup {"register"},
                    key(v) = key(w)
             PROVE  v = w
  BY DEF ExclusiveExecution
<1>1. ASSUME NEW u \in Workers, pc[u] \in Protected \cup {"register"}
      PROVE  Owns(u) /\ permit[u].key = key(u)
  BY <1>1 DEF HoldInv, LeaseHeld, Active, Finishing
<1> QED
  BY <1>1 DEF Owns, HoldInv, LeaseInv, FencesDistinct

\* One process at a time works for a key.
THEOREM StageExclusiveExecution == Spec => []ExclusiveExecution
  BY HoldExclusive, StageHold, PTL

-----------------------------------------------------------------------------
(* What the control plane may rely on: a success is announced only for the *)
(* packet that is registered, stored and finalized, and the worker         *)
(* implements StageContract.                                               *)

\* The calls at which a process has a packet in hand, at which it has verified
\* that packet in the store, and at which the registry already names it.
Reusing == {"reuseVerify", "reuseCall", "reuseAck"}
Verified == {"finalize"} \cup Finishing
Recorded == {"call", "ack", "release"} \cup Reusing
Carrying == {"assert2", "commit", "persist", "assert3", "publish", "verify"}
               \cup Verified \cup Recorded

\* The types of what a process and its surroundings hold.
DataTypeOK ==
    /\ RegistryTypeOK
    /\ out \in [Workers -> Packets \cup {NoPacket}]
    /\ bundle \in [Packets \cup FileKeys -> Packets \cup {NoPacket}]
    /\ receipts \subseteq Packets
    /\ store \subseteq Packets
    /\ announced \subseteq Keys \X Packets
    /\ \A w \in Workers : pc[w] \in Carrying => out[w] \in Packets

\* What is registered is finalized and stored.
RegisteredIsSound ==
    \A k \in Keys : Registered(k) => Finalized(k) /\ Stored(k, registry[k].packet)

\* What each process knows of its packet.
Carried(w) ==
    /\ pc[w] \in Verified => Stored(key(w), out[w])
    /\ pc[w] \in Recorded => registry[key(w)].packet = out[w]
    /\ pc[w] = "register" => ~ Registered(key(w))
    /\ pc[w] \in {"ack", "reuseAck"} => <<key(w), out[w]>> \in announced

CarriedIsSound == \A w \in Workers : Carried(w)

\* What the control plane heard is what is registered, and what is settled it
\* has heard.
AnnouncedIsSound ==
    \A k \in Keys :
        /\ \A p \in Packets : <<k, p>> \in announced => registry[k].packet = p
        /\ registry[k].status = "acknowledged" => <<k, registry[k].packet>> \in announced

PublishInv ==
    HoldInv /\ DataTypeOK /\ RegisteredIsSound /\ CarriedIsSound /\ AnnouncedIsSound

-----------------------------------------------------------------------------
(* What one step does to the shared state.                                  *)

\* The names of the calls, once more.
LEMMA CarryingNames ==
    /\ Verified \subseteq Protected \cup Finishing
    /\ Finishing = {"register", "call", "ack", "release"}
    /\ "idle" \notin Carrying
    /\ {"failing", "report", "exit", "idle", "lookup", "acquire", "recheck",
        "assert1", "compile"} \cap Carrying = {}
  BY DEF Verified, Protected, Finishing, Carrying, Recorded, Reusing

\* The registry changes at the register call of a process, for its own key and
\* packet, and at the two acknowledge calls, in the status only.
LEMMA RegistryStep ==
    ASSUME NEW w \in Workers, StepOf(w)
    PROVE  \/ UNCHANGED registry
           \/ pc[w] = "register" /\ Register(key(w), out[w])
           \/ pc[w] \in {"ack", "reuseAck"} /\ Acknowledge(key(w))
<1>1. CASE Lookup(w) \/ Acquire(w) \/ Recheck(w)
  BY <1>1 DEF Lookup, Acquire, AcquireGranted, AcquireReuse, AcquireRefused, Recheck
<1>2. CASE Reuse(w) \/ AckResult(w)
  BY <1>2 DEF Reuse, ReuseVerify, ReuseCall, ReuseAck, AckResult, Ack, Check, Step
<1>3. CASE Execute(w)
  BY <1>3 DEF Execute, Compile, CommitBundle, PersistReceipt, Publish, VerifyPublished, AssertActive
<1>4. CASE FinalizeLease(w) \/ RegisterPacket(w) \/ CallResult(w) \/ ReleaseLease(w)
  BY <1>4 DEF FinalizeLease, RegisterPacket, CallResult, ReleaseLease, Check
<1>5. CASE FailLease(w) \/ Report(w) \/ Exit(w) \/ FailLeaseFault(w) \/ Crash(w)
  BY <1>5 DEF FailLease, Report, Exit, FailLeaseFault, Crash, Retire
<1>6. CASE Fault(w) \/ \E k \in Keys, n \in Nonces : Start(w, k, n)
  BY <1>6 DEF Fault, Start
<1> QED
  BY <1>1, <1>2, <1>3, <1>4, <1>5, <1>6 DEF StepOf, Proceed, Complete

\* A bundle lands only where none was, or where the same one is.
LEMMA DiskStep ==
    ASSUME NEW w \in Workers, StepOf(w)
    PROVE  /\ \/ UNCHANGED bundle
              \/ pc[w] = "commit" /\ BundleFits(w) /\ LandBundle(w)
           /\ \/ UNCHANGED receipts
              \/ pc[w] = "persist" /\ receipts' = receipts \cup {out[w]}
           /\ \/ UNCHANGED store
              \/ pc[w] = "publish" /\ store' = store \cup {out[w]}
           /\ \/ UNCHANGED announced
              \/ /\ pc[w] \in {"call", "reuseCall"}
                 /\ announced' = announced \cup {<<key(w), out[w]>>}
<1> USE DEF diskVars, outerVars
<1>1. CASE Lookup(w) \/ Acquire(w) \/ Recheck(w)
  BY <1>1 DEF Lookup, Acquire, AcquireGranted, AcquireReuse, AcquireRefused, Recheck
<1>2. CASE Reuse(w) \/ AckResult(w)
  BY <1>2 DEF Reuse, ReuseVerify, ReuseCall, ReuseAck, AckResult, Ack, Step
<1>3. CASE Execute(w)
  BY <1>3 DEF Execute, Compile, CommitBundle, PersistReceipt, Publish, VerifyPublished,
              AssertActive, Check, Step, Push
<1>4. CASE FinalizeLease(w) \/ RegisterPacket(w) \/ CallResult(w) \/ ReleaseLease(w)
  BY <1>4 DEF FinalizeLease, RegisterPacket, CallResult, ReleaseLease, Step
<1>5. CASE FailLease(w) \/ Report(w) \/ Exit(w) \/ FailLeaseFault(w) \/ Crash(w)
  BY <1>5 DEF FailLease, Report, Exit, FailLeaseFault, Crash, Retire
<1>6. CASE Fault(w)
  BY <1>6 DEF Fault, Push
<1>7. CASE \E k \in Keys, n \in Nonces : Start(w, k, n)
  BY <1>7 DEF Start
<1> QED
  BY <1>1, <1>2, <1>3, <1>4, <1>5, <1>6, <1>7 DEF StepOf, Proceed, Complete

\* The ways to have a packet in hand after a step: to be served a registered
\* one, to have compiled one, or to go on with the one already there.
LEMMA CarryStep ==
    ASSUME Employed, out \in [Workers -> Packets \cup {NoPacket}],
           NEW w \in Workers, StepOf(w), pc'[w] \in Carrying
    PROVE  /\ job' = job
           /\ pc[w] # "idle"
           /\ \/ /\ Registered(key(w)) /\ UNCHANGED registry
                 /\ pc'[w] = "reuseVerify" /\ out'[w] = registry[key(w)].packet
              \/ pc[w] = "compile" /\ pc'[w] = "assert2" /\ out'[w] \in Outputs[key(w)]
              \/ /\ out' = out
                 /\ \/ /\ pc[w] \in {"assert2", "commit", "persist", "assert3", "publish"}
                       /\ pc'[w] \in {"commit", "persist", "assert3", "publish", "verify"}
                    \/ /\ pc[w] = "verify" /\ pc'[w] = "finalize"
                       /\ Stored(key(w), out[w]) /\ UNCHANGED <<bundle, store>>
                    \/ pc[w] = "finalize" /\ pc'[w] = "register" /\ Active(w) /\ UNCHANGED registry
                    \/ /\ pc[w] = "register" /\ pc'[w] \in {"call", "release"}
                       /\ Register(key(w), out[w])
                    \/ pc[w] = "ack" /\ pc'[w] = "release"
                    \/ pc[w] = "reuseVerify" /\ pc'[w] = "reuseCall"
                    \/ /\ pc[w] \in {"call", "reuseCall"} /\ UNCHANGED registry
                       /\ \/ pc[w] = "call" /\ pc'[w] = "ack"
                          \/ pc[w] = "reuseCall" /\ pc'[w] = "reuseAck"
                       /\ announced' = announced \cup {<<key(w), out[w]>>}
<1> USE DEF Step, Raise, Check, Employed
<1>1. CASE Lookup(w) \/ Recheck(w)
  BY <1>1, CarryingNames DEF Lookup, Recheck
<1>2. CASE Reuse(w) \/ AckResult(w)
  BY <1>2, CarryingNames DEF Reuse, ReuseVerify, ReuseCall, ReuseAck, AckResult, Ack, outerVars
<1>3. CASE Execute(w)
  BY <1>3, CarryingNames DEF Execute, Compile, CommitBundle, PersistReceipt, Publish, VerifyPublished,
              AssertActive, diskVars, outerVars
<1>4. CASE FinalizeLease(w) \/ RegisterPacket(w) \/ CallResult(w) \/ ReleaseLease(w)
  BY <1>4, CarryingNames DEF FinalizeLease, RegisterPacket, CallResult, ReleaseLease
<1>5. CASE FailLease(w) \/ Report(w) \/ Exit(w) \/ FailLeaseFault(w) \/ Crash(w) \/ Acquire(w)
  BY <1>5, CarryingNames DEF FailLease, Report, Exit, FailLeaseFault, Crash, Retire,
     Acquire, AcquireGranted, AcquireReuse, AcquireRefused
<1>6. CASE Fault(w)
  BY <1>6, CarryingNames DEF Fault
<1>7. CASE \E k \in Keys, n \in Nonces : Start(w, k, n)
  BY <1>7, CarryingNames DEF Start
<1> QED
  BY <1>1, <1>2, <1>3, <1>4, <1>5, <1>6, <1>7 DEF StepOf, Proceed, Complete

\* A packet variable takes a packet of the registry, a compiled one, or none.
LEMMA OutStep ==
    ASSUME NEW w \in Workers, StepOf(w)
    PROVE  \/ UNCHANGED out
           \/ out' = [out EXCEPT ![w] = registry[key(w)].packet] /\ pc[w] # "idle"
           \/ pc[w] = "compile" /\ \E p \in Outputs[key(w)] : out' = [out EXCEPT ![w] = p]
           \/ out' = [out EXCEPT ![w] = NoPacket]
<1> USE DEF Step, Raise, Check
<1>1. CASE Lookup(w) \/ Acquire(w) \/ Recheck(w)
  BY <1>1 DEF Lookup, Acquire, AcquireGranted, AcquireReuse, AcquireRefused, Recheck
<1>2. CASE Reuse(w) \/ AckResult(w)
  BY <1>2 DEF Reuse, ReuseVerify, ReuseCall, ReuseAck, AckResult, Ack
<1>3. CASE Execute(w)
  BY <1>3 DEF Execute, Compile, CommitBundle, PersistReceipt, Publish, VerifyPublished, AssertActive
<1>4. CASE FinalizeLease(w) \/ RegisterPacket(w) \/ CallResult(w) \/ ReleaseLease(w)
  BY <1>4 DEF FinalizeLease, RegisterPacket, CallResult, ReleaseLease
<1>5. CASE FailLease(w) \/ Report(w) \/ Exit(w) \/ FailLeaseFault(w) \/ Crash(w)
  BY <1>5 DEF FailLease, Report, Exit, FailLeaseFault, Crash, Retire
<1>6. CASE Fault(w) \/ \E k \in Keys, n \in Nonces : Start(w, k, n)
  BY <1>6 DEF Fault, Start
<1> QED
  BY <1>1, <1>2, <1>3, <1>4, <1>5, <1>6 DEF StepOf, Proceed, Complete

-----------------------------------------------------------------------------
(* Types.                                                                   *)

\* A process only ever carries a packet it compiled or read from the registry.
LEMMA OutTyped ==
    ASSUME HoldInv, DataTypeOK, NEW w \in Workers, StepOf(w)
    PROVE  out' \in [Workers -> Packets \cup {NoPacket}]
<1> USE DEF DataTypeOK
<1>1. ASSUME pc[w] # "idle" PROVE key(w) \in Keys
  BY <1>1, JobTyped DEF HoldInv
<1>2. ASSUME pc[w] # "idle" PROVE registry[key(w)].packet \in Packets \cup {NoPacket}
  BY <1>1, <1>2 DEF RegistryTypeOK, Entry, NoEntry
<1>3. ASSUME pc[w] = "compile" PROVE Outputs[key(w)] \subseteq Packets
  BY <1>1, <1>3, OutputsAssumption
<1> QED
  BY OutStep, <1>2, <1>3

\* Every step keeps the types of the carried packet, the files, the store, the
\* registry and the callbacks.
LEMMA DataTypeStep ==
    ASSUME HoldInv, DataTypeOK, [Next]_vars PROVE DataTypeOK'
<1> USE DEF DataTypeOK
<1>1. ASSUME NEW w \in Workers, StepOf(w) PROVE DataTypeOK'
  <2>1. ASSUME pc[w] # "idle" PROVE key(w) \in Keys
    BY <2>1, JobTyped DEF HoldInv
  <2>2. RegistryTypeOK'
    <3>1. CASE pc[w] = "register" /\ Register(key(w), out[w])
      <4>1. out[w] \in Packets /\ key(w) \in Keys
        BY <2>1, <3>1 DEF Carrying, Verified, Finishing
      <4> QED
        BY <3>1, <4>1 DEF Register, RegistryTypeOK, Entry
    <3>2. CASE pc[w] \in {"ack", "reuseAck"} /\ Acknowledge(key(w))
      <4>1. key(w) \in Keys /\ registry[key(w)] \in Entry
        BY <2>1, <3>2 DEF Acknowledge, Registered, RegistryTypeOK
      <4>2. [registry[key(w)] EXCEPT !.status = "acknowledged"] \in Entry
        BY <4>1 DEF Entry
      <4> QED
        BY <3>2, <4>1, <4>2 DEF Acknowledge, RegistryTypeOK
    <3> QED
      BY <1>1, <3>1, <3>2, RegistryStep DEF RegistryTypeOK
  <2>3. out' \in [Workers -> Packets \cup {NoPacket}]
    BY <1>1, OutTyped
  <2>4. pc[w] \in {"commit", "persist", "publish", "call", "reuseCall"} => out[w] \in Packets
    BY DEF Carrying, Recorded, Reusing
  <2>5. bundle' \in [Packets \cup FileKeys -> Packets \cup {NoPacket}]
    BY <1>1, <2>4, DiskStep DEF LandBundle
  <2>6. receipts' \subseteq Packets /\ store' \subseteq Packets
    BY <1>1, <2>4, DiskStep
  <2>7. announced' \subseteq Keys \X Packets
    BY <1>1, <2>1, <2>4, DiskStep
  <2>8. ASSUME NEW v \in Workers, pc'[v] \in Carrying PROVE out'[v] \in Packets
    <3>1. CASE v # w
      BY <1>1, <2>8, <3>1, OthersStandStill, OutStep DEF HoldInv, LeaseInv
    <3>2. CASE v = w
      <4>1. ASSUME Registered(key(w)), pc[w] # "idle" PROVE registry[key(w)].packet \in Packets
        BY <2>1, <4>1 DEF Registered, RegistryTypeOK, Entry
      <4>2. ASSUME pc[w] = "compile" PROVE Outputs[key(w)] \subseteq Packets
        BY <2>1, <4>2, OutputsAssumption
      <4>3. pc[w] \in {"assert2", "commit", "persist", "assert3", "publish", "verify", "finalize",
                       "register", "ack", "reuseVerify", "call", "reuseCall"} => pc[w] \in Carrying
        BY DEF Carrying, Verified, Finishing, Recorded, Reusing
      <4> QED
        BY <1>1, <2>8, <3>2, <4>1, <4>2, <4>3, CarryStep DEF HoldInv
    <3> QED
      BY <3>1, <3>2
  <2> QED
    BY <2>2, <2>3, <2>5, <2>6, <2>7, <2>8
<1>2. CASE UNCHANGED vars
  BY <1>2 DEF vars, RegistryTypeOK, diskVars, outerVars
<1> QED
  BY <1>1, <1>2 DEF Next, StepOf

-----------------------------------------------------------------------------
(* What is never taken back.                                                *)

\* A packet that can be fetched and verified stays so.
LEMMA StoredKept ==
    ASSUME DataTypeOK, [Next]_vars, NEW k \in Keys, NEW p \in Packets, Stored(k, p)
    PROVE  Stored(k, p)'
<1>1. ASSUME NEW w \in Workers, StepOf(w) PROVE Stored(k, p)'
  <2>1. CASE k \in FileKeys
    <3>1. bundle[k] = p /\ p # NoPacket
      BY <2>1, OutputsAssumption DEF Stored
    <3>2. ASSUME BundleFits(w), LandBundle(w) PROVE bundle'[k] = p
      BY <2>1, <3>1, <3>2 DEF BundleFits, LandBundle, DataTypeOK
    <3> QED
      BY <1>1, <2>1, <3>1, <3>2, DiskStep DEF Stored
  <2>2. CASE k \notin FileKeys
    BY <1>1, <2>2, DiskStep DEF Stored
  <2> QED
    BY <2>1, <2>2
<1>2. CASE UNCHANGED vars
  BY <1>2 DEF vars, Stored, diskVars, outerVars
<1> QED
  BY <1>1, <1>2 DEF Next, StepOf

\* A registered key keeps its packet.
LEMMA RegisteredKept ==
    ASSUME DataTypeOK, [Next]_vars, NEW k \in Keys, Registered(k)
    PROVE  Registered(k)' /\ registry'[k].packet = registry[k].packet
<1> USE DEF DataTypeOK, RegistryTypeOK
<1>0. registry[k] \in Entry /\ NoEntry \notin Entry
  BY OutputsAssumption DEF Registered, Entry, NoEntry
<1>1. ASSUME NEW w \in Workers, StepOf(w)
      PROVE  registry'[k].packet = registry[k].packet
  <2>1. CASE pc[w] = "register" /\ Register(key(w), out[w])
    BY <2>1 DEF Register, Collides
  <2>2. CASE Acknowledge(key(w))
    BY <1>0, <2>2 DEF Acknowledge, Entry
  <2> QED
    BY <1>1, <2>1, <2>2, RegistryStep
<1>2. registry'[k].packet = registry[k].packet
  BY <1>1 DEF Next, StepOf, vars
<1>3. registry'[k].packet # NoPacket
  BY <1>0, <1>2, OutputsAssumption DEF Entry
<1> QED
  BY <1>2, <1>3 DEF Registered, NoEntry

\* A key gets registered only by a process at its register call, which owns
\* the finalized row of that key and has verified its packet.
LEMMA NewlyRegistered ==
    ASSUME DataTypeOK, NEW w \in Workers, StepOf(w), NEW k \in Keys, ~ Registered(k), Registered(k)'
    PROVE  pc[w] = "register" /\ key(w) = k /\ registry'[k].packet = out[w]
<1> USE DEF DataTypeOK, RegistryTypeOK
<1>1. CASE pc[w] = "register" /\ Register(key(w), out[w])
  BY <1>1 DEF Register, Registered
<1>2. CASE Acknowledge(key(w))
  BY <1>2 DEF Acknowledge, Registered
<1> QED
  BY <1>1, <1>2, RegistryStep DEF Registered

-----------------------------------------------------------------------------
(* The invariant.                                                           *)

\* What is registered was finalized and verified by the process that
\* registered it, and neither is ever taken back.
LEMMA RegisteredSoundStep ==
    ASSUME PublishInv, [Next]_vars PROVE RegisteredIsSound'
<1> USE DEF PublishInv
<1> SUFFICES ASSUME NEW k \in Keys, Registered(k)'
             PROVE  Finalized(k)' /\ Stored(k, registry[k].packet)'
  BY DEF RegisteredIsSound
<1>0. [LeaseNext]_leaseVars /\ LeaseTypeOK
  BY LeaseStep DEF HoldInv, LeaseInv
<1>1. CASE Registered(k)
  <2>1. registry[k].packet \in Packets
    BY <1>1 DEF DataTypeOK, RegistryTypeOK, Registered, Entry
  <2>2. Finalized(k) /\ Stored(k, registry[k].packet)
    BY <1>1 DEF RegisteredIsSound
  <2>3. Stored(k, registry[k].packet)'
    <3>1. registry'[k].packet = registry[k].packet
      BY <1>1, RegisteredKept
    <3> QED
      BY <2>1, <2>2, <3>1, StoredKept DEF Stored
  <2> QED
    BY <1>0, <1>1, <2>2, <2>3, RegisteredKept, FinalizedStep
<1>2. ASSUME ~ Registered(k), NEW w \in Workers, StepOf(w)
      PROVE  Finalized(k)' /\ Stored(k, registry[k].packet)'
  <2>1. pc[w] = "register" /\ key(w) = k /\ registry'[k].packet = out[w]
    BY <1>2, NewlyRegistered
  <2>2. Finalized(k)
    BY <2>1 DEF HoldInv, LeaseHeld, Finishing, Finalized
  <2>3. Stored(k, out[w]) /\ out[w] \in Packets
    BY <2>1 DEF CarriedIsSound, Carried, Verified, Finishing, DataTypeOK, Carrying
  <2>4. Finalized(k)'
    BY <1>0, <2>2, FinalizedStep
  <2>5. [Next]_vars
    BY <1>2 DEF Next, StepOf
  <2>6. Stored(k, registry[k].packet)'
    BY <2>1, <2>3, <2>5, StoredKept DEF Stored
  <2> QED
    BY <2>4, <2>6
<1>3. CASE ~ Registered(k)
  <2>1. ~ UNCHANGED vars
    BY <1>3 DEF vars, Registered
  <2>2. PICK w \in Workers : StepOf(w)
    BY <2>1 DEF Next, StepOf
  <2> QED
    BY <1>2, <1>3, <2>2
<1> QED
  BY <1>1, <1>3

\* What the control plane heard stays what is registered.
LEMMA AnnouncedSoundStep ==
    ASSUME PublishInv, [Next]_vars PROVE AnnouncedIsSound'
<1> USE DEF PublishInv
<1>1. ASSUME NEW w \in Workers, StepOf(w) PROVE AnnouncedIsSound'
  <2> SUFFICES ASSUME NEW k \in Keys
               PROVE  /\ \A p \in Packets : <<k, p>> \in announced' => registry'[k].packet = p
                      /\ registry'[k].status = "acknowledged"
                            => <<k, registry'[k].packet>> \in announced'
    BY DEF AnnouncedIsSound
  <2>1. ASSUME NEW p \in Packets, <<k, p>> \in announced'
        PROVE  registry[k].packet = p
    <3>1. CASE <<k, p>> \in announced
      BY <3>1 DEF AnnouncedIsSound
    <3>2. CASE <<k, p>> \notin announced
      <4>1. pc[w] \in {"call", "reuseCall"} /\ <<k, p>> = <<key(w), out[w]>>
        BY <1>1, <2>1, <3>2, DiskStep
      <4> QED
        BY <4>1 DEF CarriedIsSound, Carried, Recorded, Reusing
    <3> QED
      BY <3>1, <3>2
  <2>2. ASSUME NEW p \in Packets, <<k, p>> \in announced'
        PROVE  registry'[k].packet = p
    <3>1. registry[k].packet = p /\ p # NoPacket
      BY <2>1, <2>2, OutputsAssumption
    <3>2. Registered(k)
      BY <3>1 DEF Registered, NoEntry
    <3> QED
      BY <1>1, <3>1, <3>2, RegisteredKept DEF Next, StepOf
  <2>3. announced \subseteq announced'
    BY <1>1, DiskStep
  <2>4. ASSUME registry'[k].status = "acknowledged"
        PROVE  <<k, registry'[k].packet>> \in announced'
    <3> USE DEF DataTypeOK, RegistryTypeOK
    <3>1. CASE UNCHANGED registry
      BY <2>3, <2>4, <3>1 DEF AnnouncedIsSound
    <3>2. CASE pc[w] = "register" /\ Register(key(w), out[w])
      <4>1. k # key(w)
        BY <2>4, <3>2 DEF Register
      <4>2. registry'[k] = registry[k]
        BY <3>2, <4>1 DEF Register
      <4> QED
        BY <2>3, <2>4, <4>2 DEF AnnouncedIsSound
    <3>3. CASE pc[w] \in {"ack", "reuseAck"} /\ Acknowledge(key(w))
      <4>1. CASE k = key(w)
        <5>1. <<k, out[w]>> \in announced /\ registry[k].packet = out[w]
          BY <3>3, <4>1 DEF CarriedIsSound, Carried, Recorded, Reusing
        <5>2. registry'[k].packet = registry[k].packet
          BY <3>3, <4>1 DEF Acknowledge, Entry, NoEntry
        <5> QED
          BY <2>3, <5>1, <5>2
      <4>2. CASE k # key(w)
        <5>1. registry'[k] = registry[k]
          BY <3>3, <4>2 DEF Acknowledge
        <5> QED
          BY <2>3, <2>4, <5>1 DEF AnnouncedIsSound
      <4> QED
        BY <4>1, <4>2
    <3> QED
      BY <1>1, <3>1, <3>2, <3>3, RegistryStep
  <2> QED
    BY <2>2, <2>4
<1>2. CASE UNCHANGED vars
  BY <1>2 DEF vars, AnnouncedIsSound, outerVars
<1> QED
  BY <1>1, <1>2 DEF Next, StepOf

\* What a process knows of its packet stays true while others run.
LEMMA OthersCarriedStep ==
    ASSUME PublishInv, NEW w \in Workers, StepOf(w), NEW v \in Workers, v # w
    PROVE  Carried(v)'
<1> USE DEF PublishInv
<1>1. pc'[v] = pc[v] /\ job'[v] = job[v] /\ out'[v] = out[v]
  BY OthersStandStill, OutStep DEF HoldInv, LeaseInv, DataTypeOK
<1>2. [Next]_vars
  BY DEF Next, StepOf
<1>3. pc[v] \in Carrying => key(v) \in Keys /\ out[v] \in Packets
  BY JobTyped, CarryingNames DEF HoldInv, DataTypeOK
<1>4. ASSUME pc'[v] \in Verified PROVE Stored(key(v), out[v])'
  <2>1. Stored(key(v), out[v]) /\ key(v) \in Keys /\ out[v] \in Packets
    BY <1>1, <1>3, <1>4 DEF CarriedIsSound, Carried, Carrying
  <2> QED
    BY <1>1, <1>2, <2>1, StoredKept DEF Stored, key
<1>5. ASSUME pc'[v] \in Recorded PROVE registry'[key(v)].packet = out[v]
  <2>1. registry[key(v)].packet = out[v] /\ key(v) \in Keys /\ out[v] \in Packets
    BY <1>1, <1>3, <1>5 DEF CarriedIsSound, Carried, Carrying
  <2>2. Registered(key(v))
    BY <2>1, OutputsAssumption DEF Registered, NoEntry
  <2> QED
    BY <1>2, <2>1, <2>2, RegisteredKept
<1>6. ASSUME pc'[v] = "register" PROVE ~ Registered(key(v))'
  <2>1. ~ Registered(key(v)) /\ key(v) \in Keys
    BY <1>1, <1>3, <1>6 DEF CarriedIsSound, Carried, Carrying, Verified, Finishing
  <2>2. ~ (pc[w] = "register" /\ key(w) = key(v))
    BY <1>1, <1>6, HoldExclusive DEF ExclusiveExecution
  <2>3. ASSUME NEW k \in Keys, k = key(v), Registered(k)' PROVE FALSE
    BY <2>1, <2>2, <2>3, NewlyRegistered
  <2>4. ~ Registered(key(v))' <=> registry'[key(v)'] = NoEntry
    BY DEF Registered
  <2>5. key(v)' = key(v)
    BY <1>1 DEF key
  <2> QED
    BY <2>1, <2>3, <2>4, <2>5 DEF Registered
<1>7. ASSUME pc'[v] \in {"ack", "reuseAck"} PROVE <<key(v), out'[v]>> \in announced'
  BY <1>1, <1>7, DiskStep DEF CarriedIsSound, Carried
<1> QED
  BY <1>1, <1>4, <1>5, <1>6, <1>7 DEF Carried, key

\* What a process learns of its own packet, call by call.
LEMMA OwnCarriedStep ==
    ASSUME PublishInv, NEW w \in Workers, StepOf(w)
    PROVE  Carried(w)'
<1> USE DEF PublishInv
<1>1. CASE pc'[w] \notin Carrying
  BY <1>1 DEF Carried, Carrying, Verified, Recorded, Finishing, Reusing
<1>2. CASE pc'[w] \in Carrying
  <2>1. key(w) \in Keys /\ job' = job /\ key(w)' = key(w)
    BY <1>2, CarryStep, JobTyped DEF HoldInv, DataTypeOK, key
  <2>2. [Next]_vars
    BY DEF Next, StepOf
  <2>3. ASSUME pc'[w] \in Verified PROVE Stored(key(w), out[w])'
    <3>1. CASE pc[w] = "verify"
      <4>1. Stored(key(w), out[w]) /\ out' = out
        BY <1>2, <2>3, <3>1, CarryStep DEF Verified, Finishing, HoldInv, DataTypeOK
      <4> QED
        BY <2>1, <2>2, <3>1, <4>1, StoredKept DEF Stored, DataTypeOK, Carrying
    <3>2. CASE pc[w] # "verify"
      <4>1. pc[w] \in Verified /\ out' = out
        BY <1>2, <2>3, <3>2, CarryStep DEF Verified, Finishing, HoldInv, DataTypeOK
      <4>2. Stored(key(w), out[w]) /\ out[w] \in Packets
        BY <4>1 DEF CarriedIsSound, Carried, DataTypeOK, Carrying
      <4> QED
        BY <2>1, <2>2, <4>1, <4>2, StoredKept DEF Stored
    <3> QED
      BY <3>1, <3>2
  <2>4. ASSUME pc'[w] \in Recorded PROVE registry'[key(w)].packet = out'[w]
    <3>1. CASE Registered(key(w)) /\ UNCHANGED registry /\ out'[w] = registry[key(w)].packet
      BY <3>1
    <3>2. CASE pc[w] = "register" /\ Register(key(w), out[w]) /\ out' = out
      BY <2>1, <3>2 DEF Register, DataTypeOK, RegistryTypeOK
    <3>3. CASE pc[w] \in {"call", "reuseCall", "ack", "reuseVerify"} /\ out' = out
      <4>1. registry[key(w)].packet = out[w] /\ out[w] \in Packets
        BY <3>3 DEF CarriedIsSound, Carried, Recorded, Reusing, DataTypeOK, Carrying
      <4>2. Registered(key(w))
        BY <4>1, OutputsAssumption DEF Registered, NoEntry
      <4> QED
        BY <2>1, <2>2, <3>3, <4>1, <4>2, RegisteredKept
    <3> QED
      BY <1>2, <2>4, <3>1, <3>2, <3>3, CarryStep DEF Recorded, Reusing, HoldInv, DataTypeOK
  <2>5. ASSUME pc'[w] = "register" PROVE ~ Registered(key(w))'
    <3>1. pc[w] = "finalize" /\ Active(w) /\ UNCHANGED registry
      BY <1>2, <2>5, CarryStep DEF HoldInv, DataTypeOK
    <3>2. lease[key(w)].state = "CLAIMED"
      BY <3>1 DEF HoldInv, LeaseHeld, Protected, Active
    <3>3. ~ Registered(key(w))
      BY <2>1, <3>2 DEF RegisteredIsSound, Finalized
    <3> QED
      BY <2>1, <3>1, <3>3 DEF Registered
  <2>6. ASSUME pc'[w] \in {"ack", "reuseAck"} PROVE <<key(w), out'[w]>> \in announced'
    BY <1>2, <2>6, CarryStep DEF HoldInv, DataTypeOK
  <2> QED
    BY <2>1, <2>3, <2>4, <2>5, <2>6 DEF Carried
<1> QED
  BY <1>1, <1>2

\* Nothing is registered, carried or announced at first.
LEMMA PublishInit == Init => PublishInv
<1> SUFFICES ASSUME Init PROVE PublishInv
  OBVIOUS
<1>1. \A w \in Workers : pc[w] = "idle"
  BY DEF Init
<1>2. \A k \in Keys : ~ Registered(k) /\ registry[k].status = "absent"
  BY DEF Init, RegistryInit, Registered, NoEntry
<1>3. DataTypeOK
  BY <1>1, CarryingNames DEF Init, DataTypeOK, RegistryInit, RegistryTypeOK
<1>4. CarriedIsSound
  BY <1>1 DEF CarriedIsSound, Carried, Verified, Finishing, Recorded, Reusing
<1>5. RegisteredIsSound /\ AnnouncedIsSound
  BY <1>2 DEF Init, RegisteredIsSound, AnnouncedIsSound
<1> QED
  BY <1>3, <1>4, <1>5, HoldInit DEF PublishInv

\* Every step preserves the chain from the store through the registry to the
\* callback.
LEMMA PublishStep == PublishInv /\ [Next]_vars => PublishInv'
<1> SUFFICES ASSUME PublishInv, [Next]_vars PROVE PublishInv'
  OBVIOUS
<1>1. ASSUME UNCHANGED vars PROVE CarriedIsSound'
  BY <1>1 DEF vars, PublishInv, CarriedIsSound, Carried, Stored, key, Registered, diskVars, outerVars
<1>2. ASSUME NEW w \in Workers, StepOf(w) PROVE CarriedIsSound'
  BY <1>2, OthersCarriedStep, OwnCarriedStep DEF CarriedIsSound
<1>3. CarriedIsSound'
  BY <1>1, <1>2 DEF Next, StepOf
<1> QED
  BY <1>3, HoldStep, DataTypeStep, RegisteredSoundStep, AnnouncedSoundStep DEF PublishInv

\* In every reachable state what is carried past verification is stored, what is
\* registered is stored and finalized, and what is announced is registered.
THEOREM StagePublishInv == Spec => []PublishInv
  BY PublishInit, PublishStep, PTL DEF Spec

\* No success is announced before the packet is published, verified,
\* registered and finalized, and never for another packet.
THEOREM StageSuccessIsPublished == Spec => []SuccessIsPublished
<1>1. PublishInv => SuccessIsPublished
  <2> SUFFICES ASSUME PublishInv, NEW k \in Keys, NEW p \in Packets, <<k, p>> \in announced
               PROVE  Stored(k, p) /\ registry[k].packet = p /\ Finalized(k)
    BY DEF SuccessIsPublished, Announced
  <2>1. registry[k].packet = p
    BY DEF PublishInv, AnnouncedIsSound
  <2>2. Registered(k)
    BY <2>1, OutputsAssumption DEF Registered, NoEntry
  <2> QED
    BY <2>1, <2>2 DEF PublishInv, RegisteredIsSound
<1> QED
  BY <1>1, StagePublishInv, PTL

\* No process works for a key that is done: its lease would be finalized, and
\* the one it holds is claimed.
THEOREM StageDoneIsNotRedone == Spec => []DoneIsNotRedone
<1>1. ASSUME PublishInv, NEW w \in Workers, pc[w] \in Protected
      PROVE  ~ Registered(key(w)) /\ Announced(key(w)) = {}
  <2>1. pc[w] # "idle"
    BY <1>1, CallNames
  <2>2. key(w) \in Keys /\ lease[key(w)].state = "CLAIMED"
    BY <1>1, <2>1, JobTyped DEF PublishInv, HoldInv, LeaseHeld, Active
  <2>3. ~ Registered(key(w))
    BY <1>1, <2>2 DEF PublishInv, RegisteredIsSound, Finalized
  <2>4. ASSUME NEW p \in Packets, <<key(w), p>> \in announced PROVE FALSE
    <3>1. registry[key(w)].packet = p
      BY <1>1, <2>2, <2>4 DEF PublishInv, AnnouncedIsSound
    <3>2. registry[key(w)].packet = NoPacket
      BY <2>3 DEF Registered, NoEntry
    <3> QED
      BY <2>4, <3>1, <3>2, OutputsAssumption
  <2> QED
    BY <2>3, <2>4 DEF Announced
<1>2. PublishInv => DoneIsNotRedone
  BY <1>1 DEF DoneIsNotRedone
<1> QED
  BY <1>2, StagePublishInv, PTL

-----------------------------------------------------------------------------
(* Type correctness of the whole.                                           *)

\* The variables that no other property depends on.
RestTypeOK ==
    /\ err \in [Workers -> Codes \cup {NoError}]
    /\ job \in [Workers -> Dispatches \cup {NoJob}]
    /\ faults \in 0 .. MaxFaults
    /\ crashes \in 0 .. MaxCrashes

\* Every step keeps the types of the jobs, the codes and the fault budgets.
LEMMA RestTypeStep ==
    ASSUME RestTypeOK, HoldInv, [Next]_vars PROVE RestTypeOK'
<1> USE DEF RestTypeOK, Step, Raise, Check, Retire, budgetVars
<1>1. ASSUME NEW w \in Workers, StepOf(w) PROVE RestTypeOK'
  <2>0. {"execution-lease-contended", "dispatch-nonce-replayed", "execution-lease-reuse-unavailable",
         "published-packet-reference-mismatch", "execution-lease-lost", "packet-bundle-commit-failed",
         "commit-receipt-persistence-failed", "execution-lease-invalid-transition",
         "idempotency-collision", "packet-registry-entry-missing"} \subseteq Codes
    BY DEF Codes, RetryableCodes, FinalCodes
  <2>1. CASE Lookup(w) \/ Acquire(w) \/ Recheck(w)
    BY <2>0, <2>1 DEF Lookup, Acquire, AcquireGranted, AcquireReuse, AcquireRefused, Recheck
  <2>2. CASE Reuse(w) \/ AckResult(w)
    BY <2>0, <2>2 DEF Reuse, ReuseVerify, ReuseCall, ReuseAck, AckResult, Ack
  <2>3. CASE Execute(w)
    BY <2>0, <2>3 DEF Execute, Compile, CommitBundle, PersistReceipt, Publish, VerifyPublished,
                AssertActive
  <2>4. CASE FinalizeLease(w) \/ RegisterPacket(w) \/ CallResult(w) \/ ReleaseLease(w)
    BY <2>0, <2>4 DEF FinalizeLease, RegisterPacket, CallResult, ReleaseLease, TransitionError
  <2>5. CASE FailLease(w) \/ Report(w) \/ Exit(w) \/ FailLeaseFault(w)
    BY <2>5, BoundsAssumption DEF FailLease, Report, Exit, FailLeaseFault
  <2>6. CASE Crash(w)
    BY <2>6, BoundsAssumption DEF Crash
  <2>7. CASE Fault(w)
    <3>1. PICK code \in FaultsAt[pc[w]] : Raise(w, code)
      BY <2>7 DEF Fault
    <3>2. code \in Codes
      BY <2>7, <3>1 DEF Fault, Calls, FaultsAt, Codes, RetryableCodes, FinalCodes
    <3> QED
      BY <2>7, <3>1, <3>2, BoundsAssumption DEF Fault
  <2>8. CASE \E k \in Keys, n \in Nonces : Start(w, k, n)
    BY <2>8 DEF Start
  <2> QED
    BY <1>1, <2>1, <2>2, <2>3, <2>4, <2>5, <2>6, <2>7, <2>8 DEF StepOf, Proceed, Complete
<1>2. CASE UNCHANGED vars
  BY <1>2 DEF vars
<1> QED
  BY <1>1, <1>2 DEF Next, StepOf

\* Every reachable state of the worker is typed.
THEOREM StageTypeCorrect == Spec => []StageTypeOK
<1>1. Init => RestTypeOK
  BY BoundsAssumption DEF Init, RestTypeOK
<1>2. PublishInv /\ RestTypeOK /\ [Next]_vars => RestTypeOK'
  BY RestTypeStep DEF PublishInv
<1>3. PublishInv /\ RestTypeOK => StageTypeOK
  BY DEF PublishInv, HoldInv, LeaseInv, Employed, DataTypeOK, RestTypeOK, StageTypeOK
<1> QED
  BY <1>1, <1>2, <1>3, StagePublishInv, PTL DEF Spec

-----------------------------------------------------------------------------
(* The worker implements the contract with the control plane.               *)

PublishedMap == [k \in Keys |-> registry[k].packet]
SettledSet == {k \in Keys : registry[k].status = "acknowledged"}

\* Registering is the contract's Publish, an accepted success callback its
\* Announce, acknowledging its Settle; everything else is invisible to it.
LEMMA ContractStep ==
    ASSUME PublishInv, NEW w \in Workers, StepOf(w)
    PROVE  [Contract!Next]_(Contract!vars)
<1> USE DEF PublishInv, DataTypeOK, RegistryTypeOK
<1>1. pc[w] \in Carrying => key(w) \in Keys /\ out[w] \in Packets
  BY JobTyped, CarryingNames DEF HoldInv
<1>2. CASE pc[w] = "register" /\ Register(key(w), out[w])
  <2>1. key(w) \in Keys /\ out[w] \in Packets /\ ~ Registered(key(w))
    BY <1>1, <1>2 DEF Carrying, Verified, Finishing, CarriedIsSound, Carried
  <2>2. PublishedMap[key(w)] = NoPacket
    BY <2>1 DEF Registered, NoEntry, PublishedMap
  <2>3. registry' = [registry EXCEPT ![key(w)] = [packet |-> out[w], status |-> "published"]]
    BY <1>2 DEF Register
  <2>4. PublishedMap' = [PublishedMap EXCEPT ![key(w)] = out[w]]
    BY <2>1, <2>3 DEF PublishedMap
  <2>5. SettledSet' = SettledSet
    BY <2>1, <2>3 DEF SettledSet, Registered, NoEntry
  <2>6. announced' = announced
    BY <1>2, DiskStep
  <2> QED
    BY <2>1, <2>2, <2>4, <2>5, <2>6 DEF Contract!Next, Contract!Publish, PublishedMap, SettledSet
<1>3. CASE pc[w] \in {"ack", "reuseAck"} /\ Acknowledge(key(w))
  <2>1. /\ key(w) \in Keys /\ registry[key(w)].packet = out[w]
        /\ <<key(w), out[w]>> \in announced
    BY <1>1, <1>3 DEF Carrying, Recorded, Reusing, CarriedIsSound, Carried
  <2>2. registry[key(w)] \in Entry
    BY <1>3, <2>1 DEF Acknowledge, Registered
  <2>3. registry' = [registry EXCEPT ![key(w)].status = "acknowledged"]
    BY <1>3 DEF Acknowledge
  <2>4. PublishedMap' = PublishedMap
    BY <2>1, <2>2, <2>3 DEF PublishedMap, Entry
  <2>5. SettledSet' = SettledSet \cup {key(w)}
    BY <2>1, <2>2, <2>3 DEF SettledSet, Entry
  <2>6. announced' = announced
    BY <1>3, DiskStep
  <2> QED
    BY <2>1, <2>4, <2>5, <2>6 DEF Contract!Next, Contract!Settle, PublishedMap, SettledSet
<1>4. CASE /\ pc[w] \in {"call", "reuseCall"} /\ UNCHANGED registry
           /\ announced' = announced \cup {<<key(w), out[w]>>}
  <2>1. key(w) \in Keys /\ out[w] \in Packets /\ registry[key(w)].packet = out[w]
    BY <1>1, <1>4 DEF Carrying, Recorded, Reusing, CarriedIsSound, Carried
  <2> QED
    BY <1>4, <2>1, OutputsAssumption DEF Contract!Next, Contract!Announce
<1>5. CASE UNCHANGED <<registry, announced>>
  BY <1>5 DEF Contract!vars
<1> QED
  BY <1>2, <1>3, <1>4, <1>5, RegistryStep, DiskStep

\* The worker implements StageContract.
THEOREM StageFulfilsContract == Spec => FulfilsContract
<1>1. Init => Contract!Init
  BY DEF Init, RegistryInit, NoEntry, Contract!Init
<1>2. PublishInv /\ [Next]_vars => [Contract!Next]_(Contract!vars)
  <2> SUFFICES ASSUME PublishInv, [Next]_vars PROVE [Contract!Next]_(Contract!vars)
    OBVIOUS
  <2>1. CASE UNCHANGED vars
    BY <2>1 DEF vars, Contract!vars, outerVars
  <2>2. ASSUME NEW w \in Workers, StepOf(w) PROVE [Contract!Next]_(Contract!vars)
    BY <2>2, ContractStep
  <2> QED
    BY <2>1, <2>2 DEF Next, StepOf
<1> QED
  BY <1>1, <1>2, StagePublishInv, PTL DEF Spec, FulfilsContract, Contract!Spec
=============================================================================
