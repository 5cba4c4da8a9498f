------------------------- MODULE DispatchAdmission --------------------------
(***************************************************************************)
(* Admission of one signed stage dispatch: validate_stage_dispatch of      *)
(* worker/stage_runner.py, run twice by the stage workflow -- as preflight *)
(* in the trusted checkout, then for real in the checkout of the signed    *)
(* target revision -- or once, by a worker that is started directly.       *)
(*                                                                         *)
(* The configuration is resolved from the checkout first, and is what the  *)
(* dispatch is compared with; git rev-parse looks at the checkout again.   *)
(* Time passes and the checkout may move between any two steps.  Of the    *)
(* dispatch, what admission compares with the clock or with the checkout   *)
(* is modelled; the checks that depend on the packet alone are named by    *)
(* the code they raise, and a dispatch carries the set of those it fails.  *)
(***************************************************************************)
EXTENDS Integers, Sequences

CONSTANTS Revisions,    \* Git object IDs
          Configs,      \* resolved configurations (profiles, contracts)
          ConfigOf,     \* revision -> the configuration checked in there
          Flaws,        \* static checks that dispatches may fail
          MaxClockSkew, MaxDispatchTTL,
          MaxTime       \* bound on the clock

VARIABLES clock, checkout, gate, verdict, dispatch,
          resolved,      \* configuration that the validation works with
          freshAt,       \* time at which the dispatch was found to be fresh
          trusted,       \* configuration that the preflight worked with
          moved          \* history: the checkout was moved by somebody since
                         \* the configuration was resolved

admissionVars == <<clock, checkout, gate, verdict, dispatch, resolved, freshAt,
                   trusted, moved>>

Times == 0 .. MaxTime
NoConfig == "none"

\* The order in which the checks are made.
Checks == <<
    "transport-packet-id-mismatch", "transport-signature-missing",
    "transport-signature-invalid", "dispatch-packet-type-invalid",
    "transport-version-unsupported", "payload-invalid",
    "dispatch-payload-schema-forbidden", "dispatch-action-mismatch",
    "dispatch-workflow-mismatch", "dispatch-issued-in-future", "dispatch-expired",
    "dispatch-ttl-too-long", "dispatch-action-forbidden", "dispatch-target-forbidden",
    "target-revision-invalid", "target-revision-mismatch", "topology-profile-mismatch",
    "dispatch-callback-missing", "dispatch-output-uri-missing", "input-packets-missing",
    "input-packet-type-invalid", "unsupported-contract-version",
    "input-validation-failed", "input-source-revision-missing",
    "idempotency-key-mismatch", "dispatch-resolution-invalid",
    "dispatch-resolver-invalid">>

\* Those that are made before git rev-parse.
Early == {Checks[i] : i \in 1 .. 15}

Dynamic == {"dispatch-issued-in-future", "dispatch-expired", "dispatch-ttl-too-long",
            "target-revision-mismatch", "topology-profile-mismatch",
            "idempotency-key-mismatch"}

ASSUME AdmissionAssumption ==
    /\ ConfigOf \in [Revisions -> Configs]
    /\ Flaws \subseteq {Checks[i] : i \in DOMAIN Checks} \ Dynamic
    /\ MaxClockSkew \in Nat /\ MaxDispatchTTL \in Nat /\ MaxTime \in Nat

\* The claimed configuration is what profile.hash and the idempotency key of
\* the dispatch were computed from.
Dispatch == [issued : Times, expires : Times, revision : Revisions,
             config : Configs, flaws : SUBSET Flaws]

AdmissionInit ==
    /\ clock = 0
    /\ checkout \in Revisions
    /\ dispatch \in Dispatch
    /\ gate = "received"
    /\ verdict = "none"
    /\ resolved = NoConfig
    /\ freshAt = -1
    /\ trusted = NoConfig
    /\ moved = FALSE

-----------------------------------------------------------------------------
(* _validate_dispatch_freshness                                             *)

\* Broken variant: a dispatch is still good at the very time it expires.
FreshnessFailuresLate ==
    {c \in {"dispatch-issued-in-future", "dispatch-expired", "dispatch-ttl-too-long"} :
        \/ c = "dispatch-issued-in-future" /\ dispatch.issued > clock + MaxClockSkew
        \/ c = "dispatch-expired" /\ dispatch.expires < clock
        \/ c = "dispatch-ttl-too-long" /\ dispatch.expires - dispatch.issued > MaxDispatchTTL}

FreshnessFailures ==
    {c \in {"dispatch-issued-in-future", "dispatch-expired", "dispatch-ttl-too-long"} :
        \/ c = "dispatch-issued-in-future" /\ dispatch.issued > clock + MaxClockSkew
        \/ c = "dispatch-expired" /\ dispatch.expires <= clock
        \/ c = "dispatch-ttl-too-long" /\ dispatch.expires - dispatch.issued > MaxDispatchTTL}

\* The dispatch against the checkout and the resolved configuration: HEAD as
\* git rev-parse reports it, and what profile.hash and the idempotency key have
\* to be.  The key binds the target revision that the dispatch names, not HEAD.
BindingFailures(enforceRevision) ==
    {c \in {"target-revision-mismatch", "topology-profile-mismatch",
            "idempotency-key-mismatch"} :
        IF c = "target-revision-mismatch"
        THEN enforceRevision /\ dispatch.revision # checkout
        ELSE dispatch.config # resolved}

Failures(enforceRevision) ==
    dispatch.flaws \cup FreshnessFailures \cup BindingFailures(enforceRevision)

\* validate_stage_dispatch raises the first failure.
FirstOf(codes) ==
    LET failed == {i \in DOMAIN Checks : Checks[i] \in codes}
    IN  Checks[CHOOSE i \in failed : \A j \in failed : i <= j]

\* The checks whose failures are these pass, or the dispatch is rejected.
Judge(codes, passed) ==
    IF codes = {} THEN gate' = passed /\ UNCHANGED verdict
                  ELSE gate' = "rejected" /\ verdict' = FirstOf(codes)

-----------------------------------------------------------------------------

\* resolve_configuration(repository_root), at the start of run_worker.
ResolveFor(to) ==
    /\ gate' = to
    /\ resolved' = ConfigOf[checkout]
    /\ moved' = FALSE
    /\ UNCHANGED <<clock, checkout, verdict, dispatch, freshAt>>

\* run_worker --preflight, in the trusted checkout.
ResolveTrusted ==
    /\ gate = "received"
    /\ ResolveFor("preflight")
    /\ trusted' = ConfigOf[checkout]

\* The validation of the preflight: everything but the comparison with HEAD.
Preflight ==
    /\ gate = "preflight"
    /\ Judge(Failures(FALSE), "preflighted")
    /\ UNCHANGED <<clock, checkout, dispatch, resolved, freshAt, trusted, moved>>

\* The workflow checks out the signed target revision.
CheckoutTarget ==
    /\ gate = "preflighted"
    /\ gate' = "checkedOut"
    /\ checkout' = dispatch.revision
    /\ UNCHANGED <<clock, verdict, dispatch, resolved, freshAt, trusted, moved>>

\* Broken variant: the worker proper goes on with what the preflight resolved.
ResolveOnce ==
    /\ gate \in {"received", "checkedOut"}
    /\ IF trusted = NoConfig THEN ResolveFor("resolved")
         ELSE /\ gate' = "resolved" /\ moved' = FALSE
              /\ UNCHANGED <<clock, checkout, verdict, dispatch, resolved, freshAt>>
    /\ UNCHANGED trusted

\* run_worker, in the checkout it is started in.
ResolveConfiguration ==
    /\ gate \in {"received", "checkedOut"}
    /\ ResolveFor("resolved")
    /\ UNCHANGED trusted

\* The checks of the packet and of the clock.
CheckPacket ==
    /\ gate = "resolved"
    /\ Judge(Failures(TRUE) \cap Early, "fresh")
    /\ freshAt' = clock
    /\ UNCHANGED <<clock, checkout, dispatch, resolved, trusted, moved>>

\* git rev-parse, and the checks behind it.
CheckBinding ==
    /\ gate = "fresh"
    /\ Judge(Failures(TRUE) \ Early, "admitted")
    /\ UNCHANGED <<clock, checkout, dispatch, resolved, freshAt, trusted, moved>>

\* Time passes; nothing looks at the clock once the dispatch was found fresh.
Tick ==
    /\ gate \notin {"fresh", "admitted", "rejected"}
    /\ clock < MaxTime
    /\ clock' = clock + 1
    /\ UNCHANGED <<checkout, gate, verdict, dispatch, resolved, freshAt, trusted, moved>>

\* Somebody updates the checkout of a single-host worker.
MoveHead ==
    /\ gate # "rejected"
    /\ checkout' \in Revisions \ {checkout}
    /\ moved' = TRUE
    /\ UNCHANGED <<clock, gate, verdict, dispatch, resolved, freshAt, trusted>>

\* What the workflow and the worker do by themselves.
AdmissionProceed ==
    \/ ResolveTrusted \/ Preflight \/ CheckoutTarget
    \/ ResolveConfiguration \/ CheckPacket \/ CheckBinding

AdmissionNext == AdmissionProceed \/ Tick \/ MoveHead

-----------------------------------------------------------------------------
(* Properties.                                                              *)

\* Every variable has its type; a verdict is one of the codes.
AdmissionTypeOK ==
    /\ clock \in Times
    /\ checkout \in Revisions
    /\ gate \in {"received", "preflight", "preflighted", "checkedOut", "resolved",
                "fresh", "admitted", "rejected"}
    /\ verdict \in {"none"} \cup {Checks[i] : i \in DOMAIN Checks}
    /\ dispatch \in Dispatch
    /\ resolved \in Configs \cup {NoConfig}
    /\ freshAt \in {-1} \cup Times
    /\ trusted \in Configs \cup {NoConfig}
    /\ moved \in BOOLEAN

\* A revision that a dispatch names is checked out, and its code run, only after
\* everything about that dispatch but the revision was found good, by the code
\* and with the configuration of the trusted checkout.
CheckedOutAfterPreflight ==
    gate = "checkedOut" => dispatch.flaws = {} /\ trusted = dispatch.config

\* What is admitted is what was signed, and while it was: however long the two
\* validations and the checkout between them take, the dispatch is looked at
\* less than the maximum TTL after it was issued and not earlier than the clock
\* skew allows; the configuration the worker goes on with is the one that the
\* idempotency key was computed from and that a preflight used; and unless
\* somebody has moved the checkout since the configuration was resolved, the
\* checkout is the signed revision and holds that configuration.
AdmissionSound ==
    gate = "admitted" =>
        /\ dispatch.flaws = {}
        /\ freshAt < dispatch.issued + MaxDispatchTTL
        /\ freshAt >= dispatch.issued - MaxClockSkew
        /\ resolved = dispatch.config
        /\ trusted \in {NoConfig, resolved}
        /\ ~ moved => checkout = dispatch.revision /\ ConfigOf[checkout] = resolved
=============================================================================
