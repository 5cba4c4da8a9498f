---------------------------- MODULE StageWorker -----------------------------
(***************************************************************************)
(* Worker processes of one host that execute signed stage dispatches       *)
(* (worker/stage_runner.py), sharing the lease store, the packet registry  *)
(* and the workspace directory.  A process runs one dispatch and ends; the *)
(* program counter names the next call it makes.  Between two calls any    *)
(* other process may run, and a process may die at any point: what is in   *)
(* SQLite, on disk, in the packet store or at the control plane stays,     *)
(* the permit and everything else the process held is gone.                *)
(*                                                                         *)
(* Admission of the dispatch is DispatchAdmission, the bundle commit is    *)
(* BundleSink and one callback delivery is Callback; here each of the last *)
(* two is a single step with the outcomes those modules establish.         *)
(***************************************************************************)
EXTENDS ExecutionLease, Integers

CONSTANTS Packets,       \* identities of compiled topology packets
          NoPacket,
          Outputs,       \* key -> packets a compilation for that key may yield
          FileKeys,      \* keys whose dispatch names a file: output URI
          CallbackKeys,  \* keys whose dispatch carries a callback
          Dispatches,    \* <<key, nonce>> pairs the control plane dispatches
          NoJob,
          Faults,        \* error codes the environment may cause
          MaxFaults,     \* bound on the failures the environment causes
          MaxCrashes     \* bound on process deaths

ASSUME OutputsAssumption ==
    /\ NoPacket \notin Packets
    /\ Outputs \in [Keys -> (SUBSET Packets) \ {{}}]
    /\ FileKeys \subseteq Keys
    /\ FileKeys \cap Packets = {}
    /\ CallbackKeys \subseteq Keys
ASSUME DispatchesAssumption == Dispatches \subseteq Keys \X Nonces /\ NoJob \notin Keys \X Nonces
ASSUME BoundsAssumption == MaxFaults \in Nat /\ MaxCrashes \in Nat

VARIABLES registry,   \* PacketRegistry: key -> entry
          pc,         \* process -> the call it makes next
          job,        \* process -> the <<key, nonce>> it was dispatched with
          out,        \* process -> the packet it compiled, or serves again
          err,        \* process -> code of the exception being handled
          bundle,     \* workspace: place -> packet of the bundle committed there
          receipts,   \* workspace: packets with a persisted commit receipt
          store,      \* packets in the OCI store, by digest
          announced,  \* <<key, packet>> successes the control plane accepted
          faults, crashes

INSTANCE PacketRegistry

diskVars == <<bundle, receipts>>
outerVars == <<store, announced>>
budgetVars == <<faults, crashes>>
vars == <<lease, permit, registry, pc, job, out, err, bundle, receipts,
          store, announced, faults, crashes>>

-----------------------------------------------------------------------------
(* Error codes: worker/errors.py and the raise sites, with the retryable    *)
(* flag that execution_failure copies into the failure report.              *)

RetryableCodes == {
    "packet-registry-read-failed", "packet-registry-write-failed",
    "execution-authority-read-failed", "execution-authority-write-failed",
    "execution-lease-contended", "packet-download-failed",
    "commit-receipt-persistence-failed", "packet-publication-failed",
    "packet-verification-download-failed", "callback-failed"}

\* blocked=True, or an exception that is not a WorkerError and is reported
\* under its type name.
FinalCodes == {
    "execution-lease-lost", "execution-lease-invalid-transition",
    "execution-lease-reuse-unavailable", "dispatch-nonce-replayed",
    "input-packet-reference-mismatch", "topology-invariant-failed",
    "packet-bundle-commit-failed", "packet-publication-digest-missing",
    "published-packet-reference-mismatch", "idempotency-collision",
    "packet-registry-entry-missing", "callback-redirect-forbidden",
    "TimeoutExpired", "HTTPException"}

Codes == RetryableCodes \cup FinalCodes
NoError == "none"

\* The failures that the environment can cause at each call.
FaultsAt == [
    lookup      |-> {"packet-registry-read-failed"},
    acquire     |-> {"execution-authority-write-failed"},
    recheck     |-> {"packet-registry-read-failed"},
    reuseVerify |-> {"packet-verification-download-failed", "TimeoutExpired"},
    reuseCall   |-> {"callback-failed", "callback-redirect-forbidden", "HTTPException"},
    reuseAck    |-> {"packet-registry-write-failed"},
    assert1     |-> {"execution-authority-read-failed"},
    compile     |-> {"packet-download-failed", "TimeoutExpired",
                     "input-packet-reference-mismatch", "topology-invariant-failed"},
    assert2     |-> {"execution-authority-read-failed"},
    commit      |-> {"packet-bundle-commit-failed"},
    persist     |-> {"commit-receipt-persistence-failed"},
    assert3     |-> {"execution-authority-read-failed"},
    publish     |-> {"packet-publication-failed", "TimeoutExpired",
                     "packet-publication-digest-missing"},
    verify      |-> {"packet-verification-download-failed", "TimeoutExpired"},
    finalize    |-> {"execution-authority-write-failed"},
    register    |-> {"packet-registry-write-failed"},
    call        |-> {"callback-failed", "callback-redirect-forbidden", "HTTPException"},
    ack         |-> {"packet-registry-write-failed"},
    release     |-> {"execution-authority-write-failed"}]

Calls == DOMAIN FaultsAt
Protected == {"assert1", "compile", "assert2", "commit", "persist", "assert3",
              "publish", "verify", "finalize"}
Finishing == {"register", "call", "ack", "release"}
PCs == Calls \cup {"idle", "failing", "report", "exit"}

Init ==
    /\ LeaseInit
    /\ RegistryInit
    /\ pc = [w \in Workers |-> "idle"]
    /\ job = [w \in Workers |-> NoJob]
    /\ out = [w \in Workers |-> NoPacket]
    /\ err = [w \in Workers |-> NoError]
    /\ bundle = [x \in Packets \cup FileKeys |-> NoPacket]
    /\ receipts = {}
    /\ store = {}
    /\ announced = {}
    /\ faults = 0
    /\ crashes = 0

-----------------------------------------------------------------------------
(* The control flow of one process.                                         *)

key(w) == job[w][1]
nonce(w) == job[w][2]

Step(w, from, to) ==
    /\ pc[w] = from
    /\ pc' = [pc EXCEPT ![w] = to]
    /\ UNCHANGED <<job, err>>

\* An exception: with a permit it passes through authority.fail first.
Raise(w, code) ==
    /\ pc' = [pc EXCEPT ![w] = IF permit[w] = NoPermit THEN "report" ELSE "failing"]
    /\ err' = [err EXCEPT ![w] = code]
    /\ UNCHANGED <<job, out>>

\* A call that goes on to `to` when ok holds and raises code otherwise.
Check(w, from, to, ok, code) ==
    /\ pc[w] = from
    /\ IF ok THEN Step(w, from, to) /\ UNCHANGED out ELSE Raise(w, code)

\* Where the bundle of a dispatch goes: the file: URI of the dispatch, or a
\* directory of the workspace named after the packet.
Place(k, p) == IF k \in FileKeys THEN k ELSE p

\* The packet can be fetched and verified at its published URI.
Stored(k, p) == IF k \in FileKeys THEN bundle[k] = p ELSE p \in store

Retire(w) ==
    /\ pc' = [pc EXCEPT ![w] = "idle"]
    /\ job' = [job EXCEPT ![w] = NoJob]
    /\ out' = [out EXCEPT ![w] = NoPacket]
    /\ err' = [err EXCEPT ![w] = NoError]
    /\ permit' = [permit EXCEPT ![w] = NoPermit]
    /\ UNCHANGED <<lease, registry, diskVars, outerVars>>

-----------------------------------------------------------------------------
(* Dispatch, lookup and acquisition: run_worker and _dispatch_stage.        *)

\* A validated dispatch reaches an idle process.  The control plane may send
\* the same dispatch any number of times.
Start(w, k, n) ==
    /\ <<k, n>> \in Dispatches
    /\ pc[w] = "idle"
    /\ pc' = [pc EXCEPT ![w] = "lookup"]
    /\ job' = [job EXCEPT ![w] = <<k, n>>]
    /\ UNCHANGED <<leaseVars, registry, out, err, diskVars, outerVars, budgetVars>>

\* registry.get before the claim: an entry is served again, without a lease.
Lookup(w) ==
    /\ Step(w, "lookup", IF Registered(key(w)) THEN "reuseVerify" ELSE "acquire")
    /\ out' = [out EXCEPT ![w] = registry[key(w)].packet]
    /\ UNCHANGED <<leaseVars, registry, diskVars, outerVars, budgetVars>>

\* authority.acquire granted a permit.
AcquireGranted(w) ==
    /\ Step(w, "acquire", "assert1")
    /\ Claim(w, key(w), nonce(w))
    /\ UNCHANGED <<registry, out, diskVars, outerVars, budgetVars>>

\* authority.acquire reports finalized work.
AcquireReuse(w) ==
    /\ Step(w, "acquire", "recheck")
    /\ ReuseReported(key(w))
    /\ UNCHANGED <<leaseVars, registry, out, diskVars, outerVars, budgetVars>>

\* Broken variant: a process that meets a claimed lease looks again.
AcquireAgain(w) ==
    /\ pc[w] = "acquire"
    /\ \/ Contended(key(w)) /\ Step(w, "acquire", "lookup") /\ UNCHANGED out
       \/ NonceReplayed(key(w), nonce(w)) /\ Raise(w, "dispatch-nonce-replayed")
    /\ UNCHANGED <<leaseVars, registry, diskVars, outerVars, budgetVars>>

\* authority.acquire raises.
AcquireRefused(w) ==
    /\ pc[w] = "acquire"
    /\ \/ Contended(key(w)) /\ Raise(w, "execution-lease-contended")
       \/ NonceReplayed(key(w), nonce(w)) /\ Raise(w, "dispatch-nonce-replayed")
    /\ UNCHANGED <<leaseVars, registry, diskVars, outerVars, budgetVars>>

\* registry.get after the lease reported finalized work.
Recheck(w) ==
    /\ pc[w] = "recheck"
    /\ IF Registered(key(w))
         THEN /\ Step(w, "recheck", "reuseVerify")
              /\ out' = [out EXCEPT ![w] = registry[key(w)].packet]
         ELSE Raise(w, "execution-lease-reuse-unavailable")
    /\ UNCHANGED <<leaseVars, registry, diskVars, outerVars, budgetVars>>

-----------------------------------------------------------------------------
(* Serving a registered packet again: _reuse_registered_packet.             *)

\* Broken variant: a packet that is found and verified is the end of it.
ReuseSilently(w) ==
    /\ Check(w, "reuseVerify", "exit", Stored(key(w), out[w]),
             "published-packet-reference-mismatch")
    /\ UNCHANGED <<leaseVars, registry, diskVars, outerVars, budgetVars>>

ReuseVerify(w) ==
    /\ Check(w, "reuseVerify", IF key(w) \in CallbackKeys THEN "reuseCall" ELSE "exit",
             Stored(key(w), out[w]), "published-packet-reference-mismatch")
    /\ UNCHANGED <<leaseVars, registry, diskVars, outerVars, budgetVars>>

\* The ReuseReceipt is accepted.
ReuseCall(w) ==
    /\ Step(w, "reuseCall", "reuseAck")
    /\ announced' = announced \cup {<<key(w), out[w]>>}
    /\ UNCHANGED <<leaseVars, registry, out, diskVars, store, budgetVars>>

\* registry.acknowledge at the end of either path; the entry has to exist.
Ack(w, from, to) ==
    /\ Check(w, from, to, Registered(key(w)), "packet-registry-entry-missing")
    /\ IF Registered(key(w)) THEN Acknowledge(key(w)) ELSE UNCHANGED registry
    /\ UNCHANGED <<leaseVars, diskVars, outerVars, budgetVars>>

ReuseAck(w) == Ack(w, "reuseAck", "exit")

-----------------------------------------------------------------------------
(* The protected work: _execute_stage.                                      *)

\* authority.assert_active, before the work, the commit and the publication.
AssertActive(w) ==
    /\ \E s \in {<<"assert1", "compile">>, <<"assert2", "commit">>, <<"assert3", "publish">>} :
          Check(w, s[1], s[2], Active(w), "execution-lease-lost")
    /\ UNCHANGED <<leaseVars, registry, diskVars, outerVars, budgetVars>>

\* resolve_input for every input, then compile_topology.
Compile(w) ==
    /\ Step(w, "compile", "assert2")
    /\ \E p \in Outputs[key(w)] : out' = [out EXCEPT ![w] = p]
    /\ UNCHANGED <<leaseVars, registry, diskVars, outerVars, budgetVars>>

\* commit_compilation: the directory is absent and is renamed into place, or
\* holds the same bundle and every entry is skipped; anything else is refused.
LandBundle(w) == bundle' = [bundle EXCEPT ![Place(key(w), out[w])] = out[w]]

BundleFits(w) == bundle[Place(key(w), out[w])] \in {NoPacket, out[w]}

CommitBundle(w) ==
    /\ pc[w] = "commit"
    /\ IF BundleFits(w)
         THEN Step(w, "commit", "persist") /\ LandBundle(w) /\ UNCHANGED out
         ELSE Raise(w, "packet-bundle-commit-failed") /\ UNCHANGED bundle
    /\ UNCHANGED <<leaseVars, registry, receipts, outerVars, budgetVars>>

\* _persist_commit_receipt: one file per packet, overwriting prohibited.  The
\* receipt carries the time of the commit, so a file left by an earlier
\* attempt never has the same content.
PersistReceipt(w) ==
    /\ Check(w, "persist", "assert3", out[w] \notin receipts,
             "commit-receipt-persistence-failed")
    /\ receipts' = receipts \cup {out[w]}
    /\ UNCHANGED <<leaseVars, registry, bundle, outerVars, budgetVars>>

\* packet_store.publish: push the bundle by content, or check it in place.
Push(w) == store' = IF key(w) \in FileKeys THEN store ELSE store \cup {out[w]}

Publish(w) ==
    /\ Step(w, "publish", "verify")
    /\ Push(w)
    /\ UNCHANGED <<leaseVars, registry, out, diskVars, announced, budgetVars>>

VerifyPublished(w) ==
    /\ Check(w, "verify", "finalize", Stored(key(w), out[w]),
             "published-packet-reference-mismatch")
    /\ UNCHANGED <<leaseVars, registry, diskVars, outerVars, budgetVars>>

\* What _transition raises when the row is not in the state it expects.
TransitionError(w) == IF Owns(w) THEN "execution-lease-invalid-transition"
                                 ELSE "execution-lease-lost"

\* authority.release needs the finalized row that the permit names.
Releasable(w) == Owns(w) /\ lease[permit[w].key].state = "PUBLISHED"

\* Broken variant: the callback goes out before the packet is registered.
FinalizeThenAnnounce(w) ==
    /\ Step(w, "finalize", "call")
    /\ Finalize(w)
    /\ UNCHANGED <<registry, out, diskVars, outerVars, budgetVars>>

\* authority.finalize; _load_active and _transition refuse a lost lease.
FinalizeLease(w) ==
    /\ Check(w, "finalize", "register", Active(w), TransitionError(w))
    /\ IF Active(w) THEN Finalize(w) ELSE UNCHANGED leaseVars
    /\ UNCHANGED <<registry, diskVars, outerVars, budgetVars>>

\* Broken variant: acknowledged as soon as registered.
RegisterAcknowledged(w) ==
    /\ Step(w, "register", "ack")
    /\ Register(key(w), out[w])
    /\ UNCHANGED <<leaseVars, out, diskVars, outerVars, budgetVars>>

\* registry.register; another packet under the key is a collision.
RegisterPacket(w) ==
    /\ Check(w, "register", IF key(w) \in CallbackKeys THEN "call" ELSE "release",
             ~ Collides(key(w), out[w]), "idempotency-collision")
    /\ IF Collides(key(w), out[w]) THEN UNCHANGED registry ELSE Register(key(w), out[w])
    /\ UNCHANGED <<leaseVars, diskVars, outerVars, budgetVars>>

\* The StageResult is accepted.
CallResult(w) ==
    /\ Step(w, "call", "ack")
    /\ announced' = announced \cup {<<key(w), out[w]>>}
    /\ UNCHANGED <<leaseVars, registry, out, diskVars, store, budgetVars>>

AckResult(w) == Ack(w, "ack", "release")

ReleaseLease(w) ==
    /\ Check(w, "release", "exit", Releasable(w), TransitionError(w))
    /\ IF Releasable(w) THEN Release(w) ELSE UNCHANGED leaseVars
    /\ UNCHANGED <<registry, diskVars, outerVars, budgetVars>>

-----------------------------------------------------------------------------
(* Failure handling.                                                        *)

\* Broken variant: cleanup takes the row back whatever its state is.
ReopenLease(w) ==
    /\ Step(w, "failing", "report")
    /\ lease' = [lease EXCEPT ![key(w)].state = "FAILED"]
    /\ UNCHANGED <<permit, registry, out, diskVars, outerVars, budgetVars>>

\* except in _dispatch_stage: authority.fail, then re-raise.
FailLease(w) ==
    /\ Step(w, "failing", "report")
    /\ Fail(w)
    /\ UNCHANGED <<registry, out, diskVars, outerVars, budgetVars>>

\* except in run_worker: the ExecutionFailure goes out, unless the callback
\* channel itself failed; either way the process ends.
Report(w) ==
    /\ Step(w, "report", "exit")
    /\ UNCHANGED <<leaseVars, registry, out, diskVars, outerVars, budgetVars>>

Exit(w) ==
    /\ pc[w] = "exit"
    /\ Retire(w)
    /\ UNCHANGED budgetVars

-----------------------------------------------------------------------------
(* The environment.                                                         *)

\* A call fails.  SQLite rolls back; a bundle, a receipt, a pushed packet or a
\* delivered callback may be there although the caller sees an error.
Fault(w) ==
    /\ pc[w] \in Calls
    /\ faults < MaxFaults
    /\ \E code \in FaultsAt[pc[w]] \cap Faults : Raise(w, code)
    /\ \/ UNCHANGED <<diskVars, outerVars>>
       \/ /\ pc[w] = "commit" /\ BundleFits(w) /\ LandBundle(w)
          /\ UNCHANGED <<receipts, outerVars>>
       \/ /\ pc[w] = "persist" /\ receipts' = receipts \cup {out[w]}
          /\ UNCHANGED <<bundle, outerVars>>
       \/ /\ pc[w] = "publish" /\ Push(w)
          /\ UNCHANGED <<diskVars, announced>>
       \/ /\ pc[w] \in {"call", "reuseCall"}
          /\ announced' = announced \cup {<<key(w), out[w]>>}
          /\ UNCHANGED <<diskVars, store>>
    /\ faults' = faults + 1
    /\ UNCHANGED <<leaseVars, registry, crashes>>

\* authority.fail itself fails: the error is printed and the lease stays.
FailLeaseFault(w) ==
    /\ Step(w, "failing", "report")
    /\ "execution-authority-write-failed" \in Faults /\ faults < MaxFaults
    /\ faults' = faults + 1
    /\ UNCHANGED <<leaseVars, registry, out, diskVars, outerVars, crashes>>

\* The process dies between two calls.
Crash(w) ==
    /\ pc[w] # "idle"
    /\ crashes < MaxCrashes
    /\ crashes' = crashes + 1
    /\ Retire(w)
    /\ UNCHANGED faults

-----------------------------------------------------------------------------

Acquire(w) == AcquireGranted(w) \/ AcquireReuse(w) \/ AcquireRefused(w)
Reuse(w) == ReuseVerify(w) \/ ReuseCall(w) \/ ReuseAck(w)
Execute(w) == Compile(w) \/ CommitBundle(w) \/ PersistReceipt(w) \/ Publish(w)
                 \/ VerifyPublished(w) \/ AssertActive(w)
Complete(w) == FinalizeLease(w) \/ RegisterPacket(w) \/ CallResult(w) \/ AckResult(w)
                 \/ ReleaseLease(w)

\* What the process does by itself once it has been started.
Proceed(w) ==
    \/ Lookup(w) \/ Acquire(w) \/ Recheck(w) \/ Reuse(w) \/ Execute(w) \/ Complete(w)
    \/ FailLease(w) \/ Report(w) \/ Exit(w)

Next ==
    \E w \in Workers :
        \/ Proceed(w)
        \/ \E k \in Keys, n \in Nonces : Start(w, k, n)
        \/ Fault(w) \/ FailLeaseFault(w) \/ Crash(w)

Spec == Init /\ [][Next]_vars

\* The successes of a key that the control plane has accepted.
Announced(k) == {p \in Packets : <<k, p>> \in announced}

\* A retry by the control plane, which owns retries and dispatch suppression
\* (docs/worker-contract.md): it dispatches a key again while it has accepted
\* no success for it, and need not do so ever after.
Retry(k) ==
    /\ Announced(k) = {}
    /\ \E w \in Workers, n \in Nonces : Start(w, k, n)

\* A started process runs until it ends, and a control plane that still waits
\* for a key does not give it up.
FairSpec ==
    /\ Spec
    /\ \A w \in Workers : WF_vars(Proceed(w))
    /\ \A k \in Keys : SF_vars(Retry(k))

-----------------------------------------------------------------------------
(* Properties.                                                              *)

Contract == INSTANCE StageContract WITH
    published <- [k \in Keys |-> registry[k].packet],
    settled <- {k \in Keys : registry[k].status = "acknowledged"}

\* Every variable has its type.
StageTypeOK ==
    /\ LeaseTypeOK
    /\ RegistryTypeOK
    /\ pc \in [Workers -> PCs]
    /\ job \in [Workers -> Dispatches \cup {NoJob}]
    /\ out \in [Workers -> Packets \cup {NoPacket}]
    /\ err \in [Workers -> Codes \cup {NoError}]
    /\ bundle \in [Packets \cup FileKeys -> Packets \cup {NoPacket}]
    /\ receipts \subseteq Packets
    /\ store \subseteq Packets
    /\ announced \subseteq Keys \X Packets
    /\ faults \in 0 .. MaxFaults
    /\ crashes \in 0 .. MaxCrashes

\* A process that does protected work holds the live lease of its own key the
\* whole time, not only at the three calls of assert_active, and keeps the
\* finalized lease until it has released it.
LeaseHeld ==
    \A w \in Workers :
        /\ pc[w] \in Protected => Active(w) /\ permit[w].key = key(w)
        /\ pc[w] \in Finishing =>
              Owns(w) /\ permit[w].key = key(w) /\ lease[key(w)].state = "PUBLISHED"

\* At most one process at a time works for a key between its claim and the
\* registration of its packet.
ExclusiveExecution ==
    \A v, w \in Workers :
        /\ pc[v] \in Protected \cup {"register"}
        /\ pc[w] \in Protected \cup {"register"}
        /\ key(v) = key(w)
        => v = w

\* docs/worker-contract.md: "Stage success is not emitted before publication
\* and verification complete."  Every success the control plane accepted names
\* a packet that can be fetched and is the registered one, and the lease
\* reports the work as finalized.
SuccessIsPublished ==
    \A k \in Keys : \A p \in Announced(k) :
        /\ Stored(k, p)
        /\ registry[k].packet = p
        /\ Finalized(k)

\* docs/recovery.md: "duplicate publication is avoided."  No process works for
\* a key that is in the registry or whose success was accepted: neither a
\* dispatch that looked before the entry was there and acquires after it, nor
\* one that comes when a call behind the finalization failed and its cleanup
\* has run, nor one after a death that left the lease finalized for ever.
DoneIsNotRedone ==
    \A w \in Workers :
        pc[w] \in Protected => ~ Registered(key(w)) /\ Announced(key(w)) = {}

\* The worker implements the contract with the control plane.
FulfilsContract == Contract!Spec

\* The success of a registered packet is eventually accepted, whatever
\* finitely many lost callbacks, failures and deaths do to the processes that
\* announce it: a retry finds the entry and serves it again.  (That the entry
\* is acknowledged as well is not promised: a process may die, or fail, between
\* the acceptance and registry.acknowledge, and no retry need follow.)
PublishedIsHeard == \A k \in CallbackKeys : Registered(k) ~> Announced(k) # {}

\* No process waits for another: every dispatch ends, also one that meets a
\* lease whose holder is dead.
DispatchEnds == \A w \in Workers : pc[w] # "idle" ~> pc[w] = "idle"

\* What keeps every later dispatch of the key from getting further than an
\* earlier one did.
Unowned(k) == \A w \in Workers : Owns(w) => permit[w].key # k
Stuck(k) ==
    \/ lease[k].state = "CLAIMED" /\ Unowned(k)         \* its holder died, or could not fail it
    \/ Finalized(k) /\ Unowned(k) /\ ~ Registered(k)    \* its holder died before registry.register
    \/ receipts \cap Outputs[k] # {}                    \* an attempt left its commit receipt
    \/ k \in FileKeys /\ bundle[k] # NoPacket           \* or its bundle at the file: URI
    \/ \A n \in Nonces : <<k, n>> \in Dispatches => \E j \in Keys \ {k} : lease[j].nonce = n

\* A control plane that keeps dispatching a key gets it published, whatever
\* fails finitely often, unless one of these reasons persists.
PublishedUnlessStuck == \A k \in Keys : <>Registered(k) \/ <>[]Stuck(k)

-----------------------------------------------------------------------------
(* What the documentation says and the code does not do.                    *)

\* docs/recovery.md promises same-host recovery: a stage whose lease reports
\* finalized work gets its registry entry.
FinalizedIsRecoverable == \A k \in Keys : Finalized(k) ~> Registered(k)

\* docs/recovery.md counts a "temporary OCI registry failure" among what a
\* retry overcomes: after finitely many of them the stage is published.
StagePublished == \A k \in Keys : <>Registered(k)
=============================================================================
