# Formal models of l9-constellation-topology

TLA+ models of the parts of l9-constellation-topology whose correctness depends
on order, concurrency, failure and repetition, TLC configurations that check
them on small instances, and TLAPS proofs for every instance. All paths below
are relative to the repository; `worker/...` and the like stand for
`src/l9_constellation_topology/worker/...`.

## The system

The program compiles a *topology packet* from repository model packets. A
control plane (not in this repository) sends signed *stage dispatches*; a worker
process admits a dispatch, takes an execution lease, compiles, commits a bundle
to disk, publishes it, registers it and calls the control plane back.

| component | state it keeps | operations | hard behaviour |
|---|---|---|---|
| execution lease (`worker/execution_authority.py`) | SQLite table, one row per idempotency key: state, nonce, lease id, fence | acquire, assert_active, finalize, release, fail | stale permits, re-claims, crashes with a claim held |
| packet registry (`worker/registry.py`) | SQLite table key -> packet, status | get, register, acknowledge | duplicate and repeated stages |
| stage worker (`worker/stage_runner.py`) | none beyond a process; workspace files | run_worker, _dispatch_stage, _execute_stage, _reuse_registered_packet | every call may fail, the process may die between any two, other processes run in between |
| dispatch admission (same file, `worker/signature.py`, stage workflow) | clock, checkout | validate_stage_dispatch in preflight and execution | time passes and the checkout moves between the checks |
| callback delivery (`worker/callback.py`) | attempt, addresses left | send_callback, _post_once | lost answers, changing name service |
| packet store client (`worker/packet_store.py`) | OCI store, files | resolve_input, publish, verify_published | timeouts, partial publication |
| output sinks (`io/`) | destination files, plan, results | enqueue, plan, commit | other sinks and programs on the same files, crashes, reruns |
| packet bundle sink (`io/packet_bundle_output_sink.py`) | bundle root, staging directory | commit | concurrent committers, process death, power loss |
| reconciliation and projection (`stages/reconcile_assertions.py`, `reconciliation/`, `topology/*_projection.py`, `topology/graph_builder.py`) | none (pure) | claims, conflicts, unknowns, edges, nodes | competing answers, ambiguous targets, tables kept in several places |
| publication (`publication/`) | a plan; downstream, the memory | qualification, eligibility, lowering, identity | many commits: which write is new, which a retry; what a dispute holds back |
| compiler pipeline (`compiler.py`, `stages/`) | one compilation | compile_topology, commit_compilation | fails closed at each stage; what the compiler derives must pass its own validation |
| impact, candidates, routing, readiness (`topology/impact.py`, `candidates.py`, `reasoning_router.py`, `readiness.py`, `bridge_gaps.py`) | none (pure) | searches and classifications | cycles, depth limits, order of rules |
| claim view (`topology/claim_view.py`, `cli.py`) | none; a cursor the reader keeps | query, page, differential | the bundle is replaced between two pages |
| packet loading and validation (`packets/`) | none | load a bundle member by member, check it | the directory changes between two reads |
| topology validation (`validation/`) | none | validate_topology, when compiling and again later | the second time with less input |
| meta adapters, renderers, scanners, remaining commands, domain models | none | formatting, reading, argument parsing | none |

Interaction: processes of one host share the two SQLite files, the workspace
directory, the packet store and the control plane, and nothing else; there are
no threads and no callbacks inside a process. Every SQLite operation is one
`BEGIN IMMEDIATE` transaction.

What makes each part correct:

* lease: one holder per key, stale permits are inert, finalized work is never
  reopened;
* worker: no success before publication, verification and registration; one
  result per key however often it is dispatched; the success of a published stage
  is heard in the end; a process never waits for another; a failure is reported only when
  the stage did not succeed, or for a named reason;
* admission: what runs is what was signed, within its time window, unless somebody
  moves the checkout under the worker;
* callback: "ok" only when the control plane accepted, bounded attempts, nobody
  is contacted for a dispatch that was not admitted;
* sinks: never clobber, receipts are true, interrupted commits complete when
  repeated, what is exposed is whole, and durable where its directory is;
* publication: nothing disputed or ambiguous reaches the memory, a dispute holds
  nothing else back, and a write gets a new key exactly when it is a new write;
* loading: what is returned is one packet, the one its manifest and its semantic
  hash identify, whatever happens in the directory meanwhile;
* compilation: valid packets that agree with each other compile; what fails,
  fails for something a packet says; nothing is committed that failed a check;
* assessment: a traversal reports exactly what can be reached, a candidate is
  never more than its producer claimed, a dispute goes to conflict resolution;
* readers: pages lose and repeat nothing, a comparison accounts for every claim.

## Modules

| module | models | state and actions |
|---|---|---|
| `ExecutionLease` | `SqliteExecutionAuthority` | `lease` is the table, `permit` what each process holds. One action per transaction; lease id and fence token are one value. No calling order is assumed. |
| `PacketRegistry` | `LocalPacketRegistry` | `registry`; `Register`, `Acknowledge` |
| `StageContract` | what the control plane may rely on | `published`, `announced`, `settled`; no lease, file or retry |
| `StageWorker` | worker processes | extends `ExecutionLease`, instantiates `PacketRegistry`; `pc` names the next call of each process, one action per call, `Fault` for its failure, `Crash` between calls; `bundle`, `receipts` are the workspace, `store` the OCI store, `announced` the control plane |
| `DispatchAdmission` | admission and the two-step workflow | `clock`, `checkout`, one dispatch; `resolved` is the configuration the validation works with. The checkout is read for the configuration, then by git rev-parse, in steps of their own; `Tick` and `MoveHead` happen between them. Checks of the packet alone are named by the code they raise |
| `Callback` | one delivery | `attempt`, `todo` addresses, what the control plane received |
| `WorkerRun` | one process from dispatch to exit code | composes `DispatchAdmission` and `Callback`; `built` is what the stage compiled from, `heard` what the control plane accepted, in order |
| `OutputSink` | `FileSystemOutputSink`, several at once | `disk`, and per sink `phase`, `plan`, `results`; a write may end in any OSError, which the receipt reports as failed (`ioerror` in the model) |
| `BundleSink` | `PacketBundleOutputSink.commit` | `root` as seen, `stable` as certain after a power loss, `solid` whether its files are synced, `parent` the directories above it, which a commit may have to make |
| `Topology` | reconciliation of statements, projection, graph | no variables: operators over `docs`, the contents of the documents that are there |
| `Publication` | publication plans over a sequence of commits | extends `Topology`; `docs` and `revision` at the head, `plan` the topology a plan was built from, `memory` the external memory; `Commit`, `BuildPlan`, `Deliver` |
| `PacketLoad` | `load_repository_model_bundle`, `load_corpus_intelligence_bundle`, `load_topology_bundle`, `verify_packet_bundle` | `files` is the directory, `held` what the loader has read, `phase` and `position` its next read; one action per read, and `Environment` between them |
| `CorpusPackets` | what packets are and what `compile_topology` demands of them first: the corpus parser and validator, inputs against inputs | no variables; extends `Topology` |
| `CorpusTopology` | the pool of observations, repositories, capabilities, scope, roots, duplicates, conflicts and unknowns of evidence, the canonical graph | no variables; extends `CorpusPackets` |
| `Assessment` | impact, risk, maturity, candidates, routing, readiness, bridge gaps | no variables; extends `CorpusTopology` |
| `TopologyValidation` | `validate_topology`: a failed check is known by its name | no variables; extends `Assessment`; `Compiled` is the whole derived topology |
| `ClaimView` | views, queries, pages, differentials | no variables; extends `TopologyValidation` |
| `Compilation` | the life of a bundle: producers, `compile-packet`, `commit_compilation`, readers | `shelf` the packets at their paths, `result` of the running compilation, `bundle` as committed, `session` of a reader; extends `ClaimView` |
| `StageWorkerProofs`, `WorkerRunProofs`, `OutputSinkProofs`, `BundleSinkProofs`, `PacketLoadProofs`, `PublicationProofs`, `CompilationProofs`, `CompiledTopologyProofs` | -- | theorems and proofs |
| `MC...` | -- | the values TLC gives to the constants |

In `StageWorker` the admission of a dispatch, the commit of a bundle and the
delivery of a callback are single steps with the outcomes that
`DispatchAdmission`, `BundleSink` and `Callback` establish: a bundle is there
whole or not at all, a callback that failed may have been accepted, and one
that succeeded was. In `WorkerRun` the stage between admission and callbacks
reads the checkout once more, to compile, or does not (a registered packet is
reused, an error comes first), and then succeeds or raises; the checkout may have
moved by then. What a compilation yields for a key is a
constant set `Outputs[k]`: the same key may compile to different packets when
the checkout or the environment changes between admission and compilation.

In `Topology` a statement is a triple, a document is its edition (which stands
for the digest of its bytes) and the statements a producer reads out of it, and
the predicate registry is reduced to predicates that differ in what becomes of
them. In `Publication` a candidate is a fact of the topology, and its key is a
record of what the code hashes, so that two keys are equal when their inputs
are. `Rank` is the order of the evidence identifiers, which differs from
revision to revision because they are hashes over it.

In `PacketLoad` a hash is the content it is the hash of. In `Compilation` a
packet is an edition, a record of what it says, and a compilation reads and
computes in one step: `PacketLoad` shows that what a loader returns is one
packet, and nothing else is shared. A topology is a function of the packets in
the order they were given. The committed bundle is replaced only after an
operator has moved it away, since `BundleSink` never overwrites.

Definitions commented "Broken variant" are plausible mistakes in the code they
stand before; each property is checked to fail when one of them is put in place
of the definition it varies.

## Runs

Passing runs:

| cfg | checks | bounds and why they are enough |
|---|---|---|
| `MCExecutionLease` | type, single winner, unique nonces, stale permits inert | 3 processes: a holder, a stale former holder and a rival; 2 keys and 2 nonces for a nonce that moves; 5 fences, as many as rows and permits can carry |
| `MCStageWorker` | lease held during protected work, success is published, finished work is not done again, refinement of `StageContract` | 2 processes, 2 keys with a shared nonce, one to the OCI store with callback and two possible results, one to a `file:` URI without; one failing call and one death anywhere: an attempt that fails, its retry and a rival |
| `MCStageLiveness` | every dispatch ends, a published success is heard, a stage is published unless one of five named reasons persists (`Stuck`) | 2 processes, 1 key, one failing call and one death anywhere |
| `MCWorkerRun` | nothing is compiled and nobody is contacted for a dispatch that was not admitted in its time window; what is compiled is what was signed, unless the checkout was moved after the configuration was resolved; exit code 0 means accepted, two voices only for named reasons, the process ends | skew 1, TTL 1, times 0..3: every order of issue, expiry, skew and now; moves of the checkout between any two of its readings; 3 revisions, two with one configuration; 2 attempts over 3 addresses, one prohibited (the code has 3 attempts: the second already follows one and precedes the end) |
| `MCOutputSink` | no clobbering, passed receipts are true, an interrupted commit resumes | 2 sinks that want different content at one file and share another, a foreign edit, 2 runs each, deaths between any two steps, errors of the machine in any write, before and after the file is in place |
| `MCBundleSink` | exposed bundles are whole and stay, written receipts are durable where the directory is, commits settle | 4 committers of one root: two of the same bundle, one of another, one invalid; directories above it that were there, were just made, or are missing; 1 error, 1 death or power loss (119k states, about 70 seconds) |
| `MCPublication` | qualification refuses exactly unresolved work relations, nothing disputed or ambiguous is eligible, a dispute is contained, keys follow the local state, DUPLICATE means the same write | 3 documents in 2 repositories, two at one path; contents that agree, contradict each other, refer to an ambiguous path or to what is not there; any first revision and any commit after it: the two action properties compare two revisions, and every pair of them occurs; 2 evidence records, which is the ceiling |
| `MCPacketLoad` | what is loaded is one version, and a load settles: it ends, and a sound bundle that nobody touches is not refused | any of 9 bundles of all 3 kinds, honest and not (156361 states); 2 payload domains; 2 replacements, of one file or all: two are needed to put a member back after it was verified |
| `MCCompilation` | a compilation is refused only for what its packets say, and a committed bundle passes again; impact is reachability; candidates are not promoted; pages, comparisons and gaps are exact | 2 repository paths and a corpus path with several editions each, which contain every reason to refuse, cycles of dependencies, competing claims, a star of copies and candidates of all kinds; selections in both orders, with and without the corpus, and with a packet, a corpus or both given twice; diagnostics with and without identities, missing revisions, and a profile with two rules of one identity; 1 new edition, 2 compilations, so that a reader meets a replaced bundle (10488 states, about two and a half minutes) |

Runs that end in a violation; each shows a difference between the code and what
a document or comment says of it:

| cfg | property | what happens |
|---|---|---|
| `MCFinalizeCrash` | `FinalizedIsRecoverable` | death between finalize and register leaves a finalized lease without record |
| `MCPublicationRetry` | `StagePublished` | the commit receipt of a failed attempt blocks its retries |
| `MCExactDuplicates` | `ExactDuplicatesAreNotRouted` | copies form a star; a candidate of two copies without the centre is not recognized as duplicated and reaches a reasoner (topology/reasoning_router.py:28-30) |

Deadlock is checked wherever the system has a next step for ever (all runs of
`StageWorker`); the other modules end, and say so in their cfg.

Observations that the models contain and no run singles out:

* a CLAIMED row never expires; a dead holder blocks its key (`Stuck`, first
  reason);
* a duplicate dispatch between finalize and register is told
  `execution-lease-reuse-unavailable`, a blocked failure, about a stage that is
  about to be published;
* a download that times out is reported as final, although docs/recovery.md:36
  lists it as retryable (`FinalCodes`);
* between `_revalidate_entry` and `os.replace` a replacement can land on content
  nobody has read; creations are safe, because `os.link` fails;
* the content of a claim candidate spells out its conflict status, so its
  candidate id moves with it (`CandidateId`), although
  docs/publication-boundary.md says that how well a fact is known does not
  reach its identity;
* the nonce of a FAILED row is free once the row is claimed again under another
  one, so it can be used for another key (worker/execution_authority.py:15 calls
  it one-time);
* evidence that returns to an earlier state returns to a key the memory knows,
  and the memory keeps the state in between (docs/publication-boundary.md:191);
* above `maximum_evidence_refs_per_candidate` the records that are kept depend
  on identifiers that change with the revision, and a commit that touches none
  of them re-keys the write (docs/publication-boundary.md:194); the note of the
  write counts all records (publication/lowering.py:281), so a record that is not
  kept changes the write and not the key (docs/publication-boundary.md:191);
* "A supersedes B" and "B superseded_by A" are two edges and two candidates
  with one candidate id;
* a bundle that a committer finds in place and skips has not been synced by it:
  after a death, or an error of the fsync, between the rename and the sync of the
  parent, the next commit reports skipped, and passed, for a bundle that a power
  loss can still take away; staging directories of dead processes stay;
* directories that a commit has to make above the root
  (io/packet_bundle_output_sink.py:115) are not fsynced into those that hold them;
  only the immediate parent is (line 150). A bundle below them can be lost with
  them although its receipt says written (`PowerLoss` with a fresh `parent`), so
  that `WrittenIsDurable` is about a parent that was on disk before;
* an entry of a sink fails with any OSError (io/filesystem_output_sink.py:237), so
  that a rerun can report its own work as failed although nobody else writes: a
  full disk, a directory that may not be made, or a temporary file that cannot be
  removed after the link is in place. `ResumesItsOwnWork` says that no rerun finds
  a conflict, not that every rerun succeeds;
* the configuration is resolved from the checkout (worker/stage_runner.py:693), git
  rev-parse looks at it after that (:210), and the compilation resolves it once
  more (:445). On a single host nothing prevents or notices a move of the checkout
  in between, and what is compiled need not be what the dispatch named then;
* when a process dies, or fails, between an accepted callback and
  `registry.acknowledge`, the control plane need not dispatch again and the entry
  stays published; its repair is that of a reconciler outside the repository
  (docs/recovery.md:22);
* of a composite sink whose second child fails, the first has written
  (io/composite_output_sink.py).

About compilation and reading:

* an artifact that lists a capability nobody declares makes the compilation
  fail (`ListedOnlyByArtifacts`), although
  docs/design/l9-constellation-topology-spec.md:923 and docs/adr/0037 have
  capabilities built from such signals: the edge that an artifact implements a
  capability is kept, and its end is no node unless a repository or a claim
  declares the capability; a second repository that lists a
  capability declared elsewhere is not recorded among its implementers;
* a dependency that is stated twice (a relation and an upstream field, say)
  yields two flows with one identity, and the topology is refused
  (`StatedTwice`); candidate identities that two corpus packets share, and one
  repository given twice, are refused as well;
* the unknowns of all stages are one list, and one that is in it twice makes the
  topology fail `unique-unknown-ids`: of a corpus packet that is given twice and
  states a domain it did not run, and of two packets that use one diagnostic
  identity for the same subject and field (`NamedAlike`); a profile with two risk rules of one
  identity and version is refused for every repository both apply to
  (`unique-risk-ids`);
* a root's repository and upstream identities need not be observed when packets
  are checked, and then fail the check of edge ends (`Unobserved`); a declared
  relation that names a candidate passes it, since candidates are nodes
  (validation/topology_validator.py:336);
* the topology depends on the order of its inputs, while
  `calculate_idempotency_key` sorts their hashes; `verify-determinism` compiles
  the same order twice, and never with a corpus;
* `validate-packet --repository-bundle`, the revalidation of RUNBOOK.md:79-88 with
  the exact parent packets, has no option for corpus packets: a topology with
  corpus signals then always fails `assertion-conservation` (`Revalidation`);
* the loader of corpus packets does not look at the status of their validation,
  and split `assertions` are not joined to a repository packet
  (`_materialize_repository_payload`);
* a comparison under a filter on conflict or projection reports a claim whose
  status left the filter as removed; a minimum of locations counts paths without
  their repository; references of readiness evidence are not resolved.

## Fairness

* A started worker process runs until it ends: weak fairness of `Proceed`. A
  process has no lock to wait for; SQLite's busy timeout turns waiting into an
  error, which is a `Fault`.
* The control plane dispatches a key again as long as it has accepted no success
  for it: strong fairness of `Retry` per key, because a process may be idle only
  now and then. It owns retries and suppresses dispatches of what is done
  (docs/worker-contract.md:85,99, docs/recovery.md:7), so that nothing is assumed
  of it after an acceptance; `Start` remains possible then, since a duplicate may
  be under way. Nothing is assumed of faults and crashes except
  that there are at most `MaxFaults` and `MaxCrashes`.
* `WorkerRun`: the steps of the workflow and of the process happen, weak
  fairness of `AdmissionProceed` and `Proceed`; every connection has a timeout. Nothing is assumed of the clock, the operator of the checkout or the
  callback host.
* `BundleSink`: a commit that was started runs, and a dispatch that was
  interrupted is repeated, which is the control plane's part.

* `PacketLoad`: a load that was started runs, weak fairness of `Load`; nothing is
  assumed of other programs except that they stop after `MaxReplacements`.

`OutputSink`, `Publication`, `Compilation` and the lease alone are checked for
safety only.

## Proofs

All theorems hold for any sets of processes, keys, nonces, fences and packets,
any number of failures and deaths, and any assignment of outputs; those about
publication for any documents, contents, selections and bounds; those about
sinks for any committers, files, contents and edits; those about loading for any
bundles, honest or not, and any number of replacements; those about compilation
for any packets that can be stated, selections, queries and graphs.

`StageWorkerProofs` begins with the lease store alone, under any calls in any
order, from the assumptions that the null values are not real ones.
`SingleWinner` is not inductive: nothing in it prevents two processes from
holding equal permits, or a new claim from drawing a fence that an old permit
carries. `LeaseInv` adds that fences of different rows and of different
permits differ (`Fresh` draws values that no row and no permit carries), and
that the nonces of different rows differ, which the explicit tests of `acquire`
keep without the help of the UNIQUE constraint. Single winner, fencing and
"finalized for ever" follow.

Then the processes over it: the code asserts its permit at three points only,
and what it does between them rests on nobody else moving the row. `HoldInv` is
`LeaseInv`, the typing of the control state (`Employed`), and `LeaseHeld`
itself, which says for each position of `run_worker` which permit and row go
with it. Its step has one lemma for the process that moves (`OwnHeld`) and one
for the others (`OthersKeepRow`): a claim needs a row that is not taken, and
whoever moves or fails a row holds the fence in it, which by `LeaseInv` nobody
else does. `ExclusiveExecution` follows. That done work is
not done again (`DoneIsNotRedone`) follows from `PublishInv` below: protected work
is done under a claimed row, and what is registered or announced has a finalized
one.
`SuccessIsPublished` relates three stores (control
plane, registry, OCI store) and is true only because of what a process knows
when it calls back, on both the first execution and reuse. `PublishInv` adds to
`HoldInv` what each process carries at each position (`CarriedIsSound`), that
what is registered is finalized and stored, and that what was announced is
registered. The refinement of `StageContract` maps registration, accepted
callbacks and acknowledgements to the contract's steps, and everything else to
stuttering.

`PublicationProofs`: that nothing disputed is eligible
(`PublicationUndisputed`) follows for each kind of fact along another gate: a
claim is held by `decide()`, which sees the conflict of its own field
(`EligibleClaimIsUncontested`); a capability comes only from a claim that
projects; and so does a relation (`EdgesRestOnProjectable`). No gate alone
covers all three. `PublicationRefusals` compares the producers of edges with
qualification, one lemma per producer: origin, endpoint kind and claim gate are
tests that the code's own edges always pass, and resolution is the only one that
refuses. Neither needs an invariant. `PublicationUnambiguous` does: that the
subject of an eligible work relation was observed rests on the type of the
snapshot (`PublicationTypeCorrect`) and on `ReferencesAssumption`, that the
nodes made for references and capabilities are not among the observed entities
(their identifiers have prefixes of their own, such as `work-reference:`,
`package:` and `capability:service-action:`).

`PublicationSettled` joins the two halves.

The other three properties compare two plans or two deliveries.
`PublicationContained` goes from the answers to a question through claims,
conflicts, edges and unknowns to eligibility: none of them reads an answer to
another question. For `PublicationKeys` the write and the key of a fact are
written as functions of the same inputs, except for two things: the key does not
see which evidence was left out above the ceiling, and the rank of identifiers
moves with the revision. With `Complete` (all evidence fits) both disappear,
and equal keys are equal local states, in both directions; the number of
evidence records in the note is the number of identifiers in the key
(`CountTold`). `PublicationDuplicates` needs `MemoryInv`: whatever the memory
holds was requested, under its key, by the plan of some snapshot and revision, so
that a later duplicate can be compared with it.

`PacketLoadProofs`: nothing that was verified stays true of the files, so
`LoadInv` speaks only of what was read and compared (`Established`), phase by
phase. A packet that was read again after its verification is anchored by its
semantic hash, the payload files by the hashes the packet states, and the
receipt by what it is about.

`BundleSinkProofs`: `ExposedIsWhole` holds because a committer gets to the
rename only behind verification and sync (`EarnedByPosition`), and
`WrittenIsDurable`, for a parent directory that was on disk before, because a
written receipt comes only behind the sync of that directory and no other
committer replaces what is there (`WrittenIsShown`, `RootIsWhole`). For a parent
that was only just made it is false.

`OutputSinkProofs`: that nobody's file is clobbered follows from the plan and the
destination at the moment of the write (`PlanFollowed`). That a passed receipt is
true also of entries nobody looked at again is `SaysWhatIsThere`, which holds as
long as nobody edits the files from outside: other sinks cannot take a protected
destination away. `SinkResumesItsOwnWork` speaks of entries nobody else writes
to (`Undisturbed`: the destination is missing or holds what the entry wants);
`ResumeInv` adds what that says of the plan, of the results, and of a new file
that still waits for its turn. An entry that failed with an error of the machine
may have written its file or not; either way the next plan skips or creates it.

`WorkerRunProofs` has three layers: `AdmissionInv`, what the checks that are
behind have established of the dispatch, of the configuration and, if nobody has
moved it since, of the checkout; `DeliveryInv`, that "ok" was accepted and
that no more copies are under way than attempts and addresses allow; and
`HeardByPosition`, what the control plane has accepted at each position of
`run_worker`. The first failing check and the first address are least elements,
which exist because `<` is well-founded (`LeastExists`).

`CompilationProofs`, from the assumptions that the packets are what their parsers
accept and their producers promise, and that queries are queries:
`CompilationInv` says that a result and a committed bundle are what `Attempt`
makes of packets somebody produced, so that whatever is read has passed every
check. Three of the assumptions say more than a parser looks at.
`RepositoryPacketWellFormed` has a repository packet list the artifacts of its
own repository, whose identities are made from the repository's (as in
compatibility/repo_card_adapter.py:119): the consumer checks status, revision,
payload and hash (packets/validator.py:48) and would compile other packets. That
the snapshot has a revision, and that the paths are portable, the parser demands
(domain/artifact.py:27).
`PrefixesAssumption` is the convention that references and the capabilities of claims carry prefixes that no other identifier has, and
`AbsentAssumption` that the null value is no content.

* Reading. The pages of a reader are those of several topologies when the bundle
  is replaced between them. `SessionInv` cuts at the cursor: up to it everything
  that all the topologies share was returned, in order and once; beyond it
  nothing was. A page moves the cut because the claims of a view are ordered by
  rank and no two have the same. A comparison accounts for every claim because
  a category without entries means that the two records agree in every field
  (`NoCategoryNoDifference`); gaps follow the graph because every link of a
  capability is an edge, and the other way round.
* Impact. The traversal expands each node once, layer by layer; the property is
  about walks, of which there are infinitely many in a cycle. That a walk of n
  edges ends in a layer up to n, and the other way round, is shown by the least
  counterexample (`LayersMeetWalks`), since induction theorems cannot be
  instantiated. For the same reason that the two recursive functions exist at
  all is proved from functions on initial segments (`LayersExist`,
  `WalksExist`).

`CompiledTopologyProofs` goes on from there.

* Refusals (`CompilationRefusals`). One lemma per check goes from its failure
  back to the packets (`RepeatedFlowsHaveAReason`, `DanglingEdgesHaveAReason`
  and so on). Behind them are the producers of edges: the ends of what the
  compiler derives are nodes, or somebody named them (`EndsOfGraph`); a flow is
  a declared relation, an upstream field or a claim, and one statement gives one
  flow (`FlowIsStated`); a node with the name of a candidate is in the packets
  under that name (`NamedNodesAreTaken`). Some checks never fail: those of paths
  (`PathsArePortable`), of capability identities, because records of one identity
  are merged (`CapabilitiesAreDistinct`), of the input references, the last of
  each identity being the same packet on both sides (`InputsMatch`), and of the
  statements: every one that was read, and every signal of a corpus, has its
  evidence (`StatementsAreKept`) and ends in a claim (`StatementsAreCited`). A
  repeated unknown goes back to an input that was given twice (`GivenTwice`), to a
  diagnostic identity used twice (`NamedAlike`), or to a predicate nobody declares
  that is at the same time a field of evidence (`ForeignName`). That the identities of
  repositories, claims, edges and conflicts are unique is not checked in the
  model, because the code builds each from a map with one entry for each identity.
  That a committed bundle fails again exactly when
  a corpus with signals is not passed on is the same equation, because signals
  and statements of documents are counted under different identities.
* Candidates (`CompilationCandidates`). The relations of a cluster are drawn as a
  star around its least member (`StarJoins`), and a repeated edge keeps its ends
  whichever record is kept, so that exact copies stay joined; `EndsOfGraph` again
  keeps candidates off the ends of derived edges; the flags only lower a class
  (`ClassIsWeakened`); and the rule that sees a dispute comes before the rules
  that see an answer (`DisputedIsRouted`).

What is concatenated from several packets is handled through positions
(`FlattenedElements`): the partial concatenations exist up to every length, by
the least one for which they would not.

Model-checked only: all liveness (`LoadSettles`, `CommitSettles`, `RunEnds` and
the run `MCStageLiveness`; fairness and ENABLED are beyond the prover). The runs
that expect a violation show counterexamples and have no theorem.

## Not modelled

* Formats, hashes and signatures: packets are identities, hashes equality. The
  control packets and their transport are modelled by what is sent and received,
  not by their fields.
* The control-plane execution authority: the code has a stub that refuses to
  run.
* `packets/adapters` and `packets/corpus_ingress.py`: field by field translation
  of the formats of one producer, from generations that do not change.
* The JSON schema of each record, and the hashes that `validate_topology` compares
  in a materialized bundle. Writes without `atomic_writes`, which no policy of the
  repository allows.
* `http.route`, which differs from `service.action` in the type of its edge.
* In `Publication`: repository facts (whose content names the source revision,
  so that every commit re-keys them), producer-declared relations, provenance,
  metadata and the bundle format.
* Renderers, remaining commands and scripts: no state and no order. Scanners:
  the compilation of packets does not call them (`observe_fallbacks` belongs to
  the direct observation of source trees).

## Plan

1. (done) `ExecutionLease`, `PacketRegistry`, `StageWorker` with
   `StageContract`; `WorkerRun` from `DispatchAdmission` and `Callback`;
   `OutputSink`, `BundleSink`; `Topology` with `Publication`.
2. (done) `PacketLoad`; `CorpusPackets`, `CorpusTopology`, `Assessment`,
   `TopologyValidation`, `ClaimView` and `Compilation` over `Topology`.
3. (done) Proofs about the lease, the stage worker and its contract, the
   process, both sinks, loading, publication, and compilation: what readers of
   it see, its impact, its refusals and its candidates.
4. Left: the publication of producer-declared relations, with
   `Publication` over `CorpusTopology` instead of `Topology`; the loading of
   published Meta generations; `resolve_input` of the packet store in its own
   steps.
