-------------------------- MODULE WorkerRunProofs --------------------------
(***************************************************************************)
(* What the exit code of a worker and the callbacks that the control plane *)
(* accepted say of each other, and what admission guarantees to the stage, *)
(* for any dispatches, addresses and numbers of attempts.                  *)
(***************************************************************************)
EXTENDS WorkerRun, FiniteSetTheorems, SequenceTheorems, WellFoundedInduction, TLAPS

-----------------------------------------------------------------------------
(* Least elements: the first address that is tried, the first check that    *)
(* fails.                                                                   *)

\* A set of naturals that is not empty has a least element (addresses and
\* checks are taken in order).
LEMMA LeastExists ==
    ASSUME NEW T \in SUBSET Nat, T # {}
    PROVE  \E a \in T : \A b \in T : a <= b
<1> DEFINE R == {ss \in Nat \X Nat : ss[1] < ss[2]}
<1>1. OpToRel(<, Nat) = R
  BY DEF OpToRel
<1>2. IsWellFoundedOn(R, Nat)
  BY <1>1, NatLessThanWellFounded
<1>3. PICK a \in T : \A b \in T : ~ (<<b, a>> \in R)
  <2> HIDE DEF R
  <2> QED
    BY <1>2, WFMin
<1>4. ASSUME NEW b \in T PROVE a <= b
  <2>1. a \in Nat /\ b \in Nat
    OBVIOUS
  <2>2. CASE b < a
    <3>1. <<b, a>> \in Nat \X Nat /\ <<b, a>>[1] < <<b, a>>[2]
      BY <2>1, <2>2
    <3>2. <<b, a>> \in R
      BY <3>1
    <3> QED
      BY <1>3, <3>2
  <2> QED
    BY <2>1, <2>2
<1> QED
  BY <1>4

\* _post_once tries an address that was validated.
LEMMA FirstIsNext == ASSUME todo \subseteq Addresses, todo # {} PROVE First \in todo
<1>1. \E a \in todo : \A b \in todo : a <= b
  BY CallbackAssumption, LeastExists
<1> QED
  BY <1>1 DEF First

-----------------------------------------------------------------------------
(* Delivery.                                                                *)

N == Cardinality(Addresses)

\* One delivery: an ended one has a result, an "ok" was accepted, and no more
\* copies are on their way than attempts and addresses were used up.
DeliveryInv ==
    /\ leg \in {"configure", "resolve", "post", "again", "end"}
    /\ attempt \in 1 .. Attempts
    /\ todo \subseteq Addresses
    /\ result \in Results
    /\ received \in Nat
    /\ accepted \in BOOLEAN
    /\ contacted \in BOOLEAN
    /\ leg = "end" <=> result # "none"
    /\ result = "ok" => accepted
    /\ leg \in {"configure", "resolve"} => received <= (attempt - 1) * N
    /\ leg = "post" => todo # {} /\ received + Cardinality(todo) <= attempt * N
    /\ leg \in {"again", "end"} => received <= attempt * N

\* The addresses are finitely many, and an attempt adds as many copies as there
\* are addresses (send_callback).
LEMMA AddressCount ==
    /\ N \in Nat
    /\ \A a \in Nat \ {0} : (a - 1) * N \in Nat /\ a * N = (a - 1) * N + N
    /\ \A a, b \in Nat : a <= b => a * N <= b * N
    /\ \A T \in SUBSET Addresses : IsFiniteSet(T) /\ Cardinality(T) \in 0 .. N
<1>1. N \in Nat
  BY CallbackAssumption, FS_CardinalityType DEF N
<1>2. ASSUME NEW a \in Nat \ {0} PROVE (a - 1) * N \in Nat /\ a * N = (a - 1) * N + N
  BY <1>1
<1>3. ASSUME NEW a \in Nat, NEW b \in Nat, a <= b PROVE a * N <= b * N
  BY <1>1, <1>3
<1>4. ASSUME NEW T \in SUBSET Addresses PROVE IsFiniteSet(T) /\ Cardinality(T) \in 0 .. N
  <2>1. IsFiniteSet(T) /\ Cardinality(T) <= N
    BY CallbackAssumption, FS_Subset DEF N
  <2>2. Cardinality(T) \in Nat
    BY <2>1, FS_CardinalityType
  <2> QED
    BY <1>1, <2>1, <2>2
<1> QED
  BY <1>1, <1>2, <1>3, <1>4

\* An open connection uses up one address of the attempt (_post_once).
LEMMA PostCounts ==
    ASSUME DeliveryInv, Connect
    PROVE  /\ First \in todo
           /\ received + 1 <= attempt * N
           /\ IsFiniteSet(todo \ {First})
           /\ received + 1 + Cardinality(todo \ {First}) <= attempt * N
           /\ attempt * N \in Nat
<1>1. First \in todo /\ leg = "post"
  BY FirstIsNext DEF DeliveryInv, Connect
<1>2. IsFiniteSet(todo) /\ Cardinality(todo) \in Nat
  BY AddressCount DEF DeliveryInv
<1>3. IsFiniteSet(todo \ {First}) /\ Cardinality(todo \ {First}) = Cardinality(todo) - 1
  BY <1>1, <1>2, FS_RemoveElement
<1>4. Cardinality(todo \ {First}) \in Nat
  BY <1>3, FS_CardinalityType
<1>5. attempt * N \in Nat
  BY AddressCount DEF DeliveryInv
<1>6. received + Cardinality(todo) <= attempt * N
  BY <1>1 DEF DeliveryInv
<1> QED
  BY <1>1, <1>2, <1>3, <1>4, <1>5, <1>6 DEF DeliveryInv

\* Every step of send_callback.
LEMMA DeliveryStep == DeliveryInv /\ CallbackNext => DeliveryInv'
<1> SUFFICES ASSUME DeliveryInv, CallbackNext PROVE DeliveryInv'
  OBVIOUS
<1>0. /\ N \in Nat /\ attempt \in Nat \ {0} /\ Attempts \in Nat \ {0}
      /\ (attempt - 1) * N \in Nat /\ attempt * N = (attempt - 1) * N + N
      /\ attempt * N \in Nat
  BY AddressCount, CallbackAssumption DEF DeliveryInv
<1> USE DEF Results, Blocked
<1>1. CASE Configure
  BY <1>0, <1>1 DEF Configure, End, DeliveryInv
<1>2. CASE Resolve
  <2>1. \A T \in SUBSET Addresses : Cardinality(T) \in Nat /\ Cardinality(T) <= N
    BY AddressCount
  <2>2. leg = "resolve" /\ attempt' = attempt /\ received' = received
        /\ accepted' = accepted /\ contacted' = contacted /\ received <= (attempt - 1) * N
    BY <1>2 DEF Resolve, DeliveryInv
  <2>3. CASE leg' = "again" /\ UNCHANGED <<todo, result>>
    BY <1>0, <2>2, <2>3 DEF DeliveryInv
  <2>4. ASSUME NEW found \in (SUBSET Addresses) \ {{}}, leg' = "post", todo' = found, result' = result
        PROVE  DeliveryInv'
    <3>1. received + Cardinality(found) <= attempt * N
      BY <1>0, <2>1, <2>2 DEF DeliveryInv
    <3> QED
      BY <1>0, <2>2, <2>4, <3>1 DEF DeliveryInv
  <2>5. CASE End("callback-address-forbidden") /\ UNCHANGED todo
    BY <1>0, <2>2, <2>5 DEF End, DeliveryInv
  <2> QED
    BY <1>2, <2>3, <2>4, <2>5 DEF Resolve
<1>3. CASE PostLost
  <2>1. /\ leg = "post" /\ attempt' = attempt /\ result' = result /\ todo' = todo \ {First}
        /\ leg' = IF todo' = {} THEN "again" ELSE "post"
        /\ contacted' = TRUE /\ accepted' \in BOOLEAN
        /\ received' \in {received, received + 1}
    BY <1>3 DEF PostLost, Connect, Arrives, DeliveryInv
  <2>2. /\ First \in todo /\ received + 1 <= attempt * N
        /\ received + 1 + Cardinality(todo') <= attempt * N
        /\ Cardinality(todo') \in Nat
    BY <1>3, <2>1, PostCounts, FS_CardinalityType DEF PostLost
  <2>3. result = "none"
    BY <2>1 DEF DeliveryInv
  <2> QED
    BY <1>0, <2>1, <2>2, <2>3 DEF DeliveryInv
<1>4. CASE PostAccepted
  <2>1. accepted'
    BY <1>4 DEF PostAccepted, Arrives
  <2>2. accepted' \in BOOLEAN
    BY <1>4 DEF PostAccepted, Arrives
  <2>3. /\ received' = received + 1 /\ leg' = "end" /\ result' = "ok"
        /\ contacted' = TRUE /\ UNCHANGED <<attempt, todo>>
        /\ First \in todo /\ received + 1 <= attempt * N
    BY <1>4, PostCounts DEF PostAccepted, Connect, Arrives, End
  <2> QED
    BY <1>0, <2>1, <2>2, <2>3 DEF DeliveryInv
<1>5. CASE PostRefused
  BY <1>0, <1>5, PostCounts DEF PostRefused, Connect, Arrives, DeliveryInv
<1>6. CASE PostRedirected
  BY <1>0, <1>6, PostCounts DEF PostRedirected, Connect, Arrives, End, DeliveryInv
<1>7. CASE PostGarbled
  BY <1>0, <1>7, PostCounts DEF PostGarbled, Connect, Arrives, End, DeliveryInv
<1>8. CASE Again
  <2>1. CASE attempt < Attempts
    <3>1. attempt' = attempt + 1 /\ (attempt' - 1) * N = attempt * N
      BY <1>0, <1>8, <2>1 DEF Again
    <3> QED
      BY <1>0, <1>8, <2>1, <3>1 DEF Again, DeliveryInv
  <2>2. CASE ~ attempt < Attempts
    BY <1>0, <1>8, <2>2 DEF Again, End, DeliveryInv
  <2> QED
    BY <2>1, <2>2
<1> QED
  BY <1>1, <1>2, <1>3, <1>4, <1>5, <1>6, <1>7, <1>8 DEF CallbackNext

-----------------------------------------------------------------------------
(* Admission.                                                               *)

\* What the worker goes on with was read from the checkout, and is still there
\* unless somebody has moved it since; what passed a validation has passed its
\* checks; and an admission was sound.
AdmissionInv ==
    /\ AdmissionTypeOK
    /\ gate = "preflight" => trusted = resolved
    /\ gate \in {"preflighted", "checkedOut"} => dispatch.flaws = {} /\ trusted = dispatch.config
    /\ gate \in {"resolved", "fresh", "admitted"} =>
          /\ trusted \in {NoConfig, dispatch.config}
          /\ ~ moved => ConfigOf[checkout] = resolved
    /\ gate = "received" => trusted = NoConfig
    /\ gate = "fresh" => dispatch.flaws \cap Early = {}
    /\ gate \in {"fresh", "admitted"} =>
          /\ freshAt < dispatch.issued + MaxDispatchTTL
          /\ freshAt >= dispatch.issued - MaxClockSkew
    /\ AdmissionSound

\* Every failure is one of the checks (validate_stage_dispatch).
LEMMA FailuresAreChecks ==
    ASSUME dispatch \in Dispatch, NEW enforce \in BOOLEAN
    PROVE  /\ DOMAIN Checks = 1 .. 27
           /\ \A c \in Failures(enforce) : \E i \in DOMAIN Checks : c = Checks[i]
<1>1. DOMAIN Checks = 1 .. 27
  BY DEF Checks
<1>2. /\ Checks[10] = "dispatch-issued-in-future" /\ Checks[11] = "dispatch-expired"
      /\ Checks[12] = "dispatch-ttl-too-long" /\ Checks[16] = "target-revision-mismatch"
      /\ Checks[17] = "topology-profile-mismatch" /\ Checks[25] = "idempotency-key-mismatch"
  BY DEF Checks
<1>3. \A c \in FreshnessFailures \cup BindingFailures(enforce) : \E i \in DOMAIN Checks : c = Checks[i]
  BY <1>1, <1>2 DEF FreshnessFailures, BindingFailures
<1>4. \A c \in dispatch.flaws : \E i \in DOMAIN Checks : c = Checks[i]
  BY AdmissionAssumption DEF Dispatch
<1> QED
  BY <1>1, <1>3, <1>4 DEF Failures

\* The clock is looked at before git rev-parse, the checkout by it and behind.
LEMMA EarlyAndLate ==
    /\ {"dispatch-issued-in-future", "dispatch-expired", "dispatch-ttl-too-long"} \subseteq Early
    /\ {"target-revision-mismatch", "topology-profile-mismatch",
        "idempotency-key-mismatch"} \cap Early = {}
<1>1. /\ Checks[10] = "dispatch-issued-in-future" /\ Checks[11] = "dispatch-expired"
      /\ Checks[12] = "dispatch-ttl-too-long"
  BY DEF Checks
<1>2. /\ {"dispatch-issued-in-future", "dispatch-expired", "dispatch-ttl-too-long"} \subseteq Early
  BY <1>1 DEF Early
<1>3. \A i \in 1 .. 15 : Checks[i] \notin {"target-revision-mismatch", "topology-profile-mismatch",
                                          "idempotency-key-mismatch"}
  BY DEF Checks
<1> QED
  BY <1>2, <1>3 DEF Early

\* A rejection names one of the checks: there is a first one that failed.
LEMMA VerdictIsCheck ==
    ASSUME AdmissionTypeOK, NEW enforce \in BOOLEAN,
           NEW codes \in SUBSET Failures(enforce), NEW passed, Judge(codes, passed)
    PROVE  /\ verdict' \in {"none"} \cup {Checks[i] : i \in DOMAIN Checks}
           /\ gate' = IF codes = {} THEN passed ELSE "rejected"
<1>1. CASE codes = {}
  BY <1>1 DEF Judge, AdmissionTypeOK
<1>2. CASE codes # {}
  <2> DEFINE failed == {i \in DOMAIN Checks : Checks[i] \in codes}
  <2>1. failed # {} /\ failed \in SUBSET Nat
    BY <1>2, FailuresAreChecks DEF AdmissionTypeOK
  <2>2. \E i \in failed : \A j \in failed : i <= j
    <3> HIDE DEF failed
    <3> QED
      BY <2>1, LeastExists
  <2>3. (CHOOSE i \in failed : \A j \in failed : i <= j) \in DOMAIN Checks
    BY <2>2
  <2>4. FirstOf(codes) \in {Checks[i] : i \in DOMAIN Checks}
    BY <2>3 DEF FirstOf
  <2> QED
    BY <1>2, <2>4 DEF Judge
<1> QED
  BY <1>1, <1>2

\* A dispatch that passes the checks of the clock is in its time.
LEMMA FreshIsInTime ==
    ASSUME AdmissionTypeOK, FreshnessFailures = {}
    PROVE  /\ clock < dispatch.issued + MaxDispatchTTL
           /\ clock >= dispatch.issued - MaxClockSkew
<1>1. /\ clock \in Int /\ dispatch.issued \in Int /\ dispatch.expires \in Int
      /\ MaxDispatchTTL \in Nat /\ MaxClockSkew \in Nat
  BY AdmissionAssumption DEF AdmissionTypeOK, Dispatch, Times
<1>2. /\ ~ (dispatch.issued > clock + MaxClockSkew)
      /\ ~ (dispatch.expires <= clock)
      /\ ~ (dispatch.expires - dispatch.issued > MaxDispatchTTL)
  BY DEF FreshnessFailures
<1> QED
  BY <1>1, <1>2

\* Both validations, the checkout between them, the clock and the operator.
LEMMA AdmissionStep == AdmissionInv /\ AdmissionNext => AdmissionInv'
<1> SUFFICES ASSUME AdmissionInv, AdmissionNext PROVE AdmissionInv'
  OBVIOUS
<1>0. /\ AdmissionTypeOK /\ dispatch \in Dispatch /\ dispatch.revision \in Revisions
      /\ dispatch.config \in Configs /\ checkout \in Revisions /\ ConfigOf[checkout] \in Configs
  BY AdmissionAssumption DEF AdmissionInv, AdmissionTypeOK, Dispatch
<1> USE DEF AdmissionInv, AdmissionTypeOK, AdmissionSound
<1>1. CASE ResolveTrusted
  BY <1>0, <1>1 DEF ResolveTrusted, ResolveFor
<1>2. CASE Preflight
  <2>1. /\ verdict' \in {"none"} \cup {Checks[i] : i \in DOMAIN Checks}
        /\ gate' = IF Failures(FALSE) = {} THEN "preflighted" ELSE "rejected"
    BY <1>0, <1>2, VerdictIsCheck DEF Preflight
  <2>2. Failures(FALSE) = {} => dispatch.flaws = {} /\ dispatch.config = resolved
    BY DEF Failures, BindingFailures
  <2> QED
    BY <1>0, <1>2, <2>1, <2>2 DEF Preflight
<1>3. CASE CheckoutTarget
  BY <1>0, <1>3 DEF CheckoutTarget
<1>4. CASE ResolveConfiguration
  BY <1>0, <1>4 DEF ResolveConfiguration, ResolveFor
<1>5. CASE CheckPacket
  <2>1. /\ verdict' \in {"none"} \cup {Checks[i] : i \in DOMAIN Checks}
        /\ gate' = IF Failures(TRUE) \cap Early = {} THEN "fresh" ELSE "rejected"
    BY <1>0, <1>5, VerdictIsCheck DEF CheckPacket
  <2>2. Failures(TRUE) \cap Early = {} => FreshnessFailures = {} /\ dispatch.flaws \cap Early = {}
    BY EarlyAndLate DEF Failures, FreshnessFailures
  <2> QED
    BY <1>0, <1>5, <2>1, <2>2, FreshIsInTime DEF CheckPacket
<1>6. CASE CheckBinding
  <2>1. /\ verdict' \in {"none"} \cup {Checks[i] : i \in DOMAIN Checks}
        /\ gate' = IF Failures(TRUE) \ Early = {} THEN "admitted" ELSE "rejected"
    BY <1>0, <1>6, VerdictIsCheck DEF CheckBinding
  <2>2. Failures(TRUE) \ Early = {} =>
          /\ dispatch.flaws \ Early = {}
          /\ dispatch.revision = checkout /\ dispatch.config = resolved
    BY EarlyAndLate DEF Failures, BindingFailures
  <2> QED
    BY <1>0, <1>6, <2>1, <2>2 DEF CheckBinding
<1>7. CASE Tick
  BY <1>0, <1>7, AdmissionAssumption DEF Tick, Times
<1>8. CASE MoveHead
  BY <1>0, <1>8 DEF MoveHead
<1> QED
  BY <1>1, <1>2, <1>3, <1>4, <1>5, <1>6, <1>7, <1>8 DEF AdmissionNext, AdmissionProceed

\* Between admission and the end nothing but the checkout changes.
LEMMA AdmissionKept == AdmissionInv /\ UNCHANGED admissionVars => AdmissionInv'
  BY DEF admissionVars, AdmissionInv, AdmissionTypeOK, AdmissionSound

-----------------------------------------------------------------------------
(* The run.                                                                 *)

Explained == Blocked \cup {"settle", "HTTPException"}

\* What the control plane has accepted at each position of run_worker.
HeardByPosition ==
    /\ at \in {"admission", "stage", "compiled", "success"} => heard = <<>>
    /\ at = "settle" => heard = <<"success">>
    /\ at = "failure" => heard = <<>> \/ (heard = <<"success">> /\ error \in Explained)
    /\ at = "exit" =>
         /\ heard \in {<<>>, <<"success">>, <<"failure">>, <<"success", "failure">>}
         /\ heard = <<"success", "failure">> => error \in Explained
         /\ status = "0" => heard = <<"success">>

\* Past admission the dispatch is an admitted one, and before it nobody has
\* been contacted.
ActsWhenAdmitted ==
    /\ at \in {"stage", "compiled", "success", "settle", "failure"} => gate = "admitted"
    /\ contacted => gate = "admitted" /\ at # "admission"

\* What was compiled from was still in place if nobody has moved it.
BuiltInv ==
    /\ built \in Revisions \cup {NoRevision}
    /\ built # NoRevision => gate = "admitted" /\ at \notin {"admission", "stage"}
    /\ built # NoRevision /\ ~ moved =>
          built = dispatch.revision /\ ConfigOf[built] = dispatch.config

\* The inductive invariant.
RunInv ==
    /\ AdmissionInv
    /\ DeliveryInv
    /\ at \in {"admission", "stage", "compiled", "success", "settle", "failure", "exit"}
    /\ error \in {"none", "stage", "settle"} \cup Results
    /\ status \in {"running", "0", "2", "traceback"}
    /\ status # "running" <=> at = "exit"
    /\ HeardByPosition
    /\ ActsWhenAdmitted
    /\ BuiltInv

\* send_callback starts from nothing.
LEMMA NothingSent ==
    ASSUME leg = "configure", attempt = 1, todo = {}, result = "none", received = 0, accepted = FALSE,
           contacted \in BOOLEAN
    PROVE  DeliveryInv
<1>1. Attempts \in Nat \ {0} /\ N \in Nat
  BY CallbackAssumption, AddressCount
<1>2. attempt = 1 /\ (attempt - 1) * N = 0
  BY <1>1
<1>3. leg \in {"configure", "resolve", "post", "again", "end"} /\ todo \subseteq Addresses /\ result \in Results /\ received \in Nat
  BY DEF Results
<1>4. accepted \in BOOLEAN
  OBVIOUS
<1>5. attempt \in 1 .. Attempts
  BY <1>1
<1>6. leg = "end" <=> result # "none"
  OBVIOUS
<1>7. result = "ok" => accepted
  OBVIOUS
<1>8. leg \in {"configure", "resolve"} => received <= (attempt - 1) * N
  BY <1>2
<1>9. leg \notin {"post", "again", "end"}
  OBVIOUS
<1> QED
  BY <1>3, <1>4, <1>5, <1>6, <1>7, <1>8, <1>9 DEF DeliveryInv

\* A dispatch that has just arrived.
LEMMA RunInit == Init => RunInv
<1> SUFFICES ASSUME Init PROVE RunInv
  OBVIOUS
<1>1. AdmissionInv
  <2>1. AdmissionTypeOK
    <3>1. clock \in Times /\ freshAt \in {-1} \cup Times
      BY AdmissionAssumption DEF Init, AdmissionInit, Times
    <3>2. moved \in BOOLEAN
      BY DEF Init, AdmissionInit
    <3> QED
      BY <3>1, <3>2 DEF Init, AdmissionInit, AdmissionTypeOK
  <2>2. gate = "received" /\ trusted = NoConfig
    BY DEF Init, AdmissionInit
  <2> QED
    BY <2>1, <2>2 DEF AdmissionInv, AdmissionSound
<1>2. DeliveryInv
  BY NothingSent DEF Init, CallbackInit
<1> QED
  BY <1>1, <1>2 DEF Init, CallbackInit, RunInv, HeardByPosition, ActsWhenAdmitted, BuiltInv

\* A new call of send_callback starts from nothing.
LEMMA SendStep ==
    ASSUME DeliveryInv, NEW message, Send(message)
    PROVE  DeliveryInv'
<1>1. Attempts \in Nat \ {0} /\ N \in Nat
  BY CallbackAssumption, AddressCount
<1>2. /\ leg' = "configure" /\ attempt' = 1 /\ todo' = {} /\ result' = "none"
      /\ received' = 0 /\ accepted' = FALSE /\ contacted' = contacted
  BY DEF Send
<1>3. /\ leg' \in {"configure", "resolve", "post", "again", "end"} /\ todo' \subseteq Addresses
      /\ result' \in Results /\ received' \in Nat
  BY <1>2 DEF Results
<1>4. accepted' \in BOOLEAN
  BY <1>2
<1>5. attempt' \in 1 .. Attempts
  BY <1>1, <1>2
<1>6. leg' = "end" <=> result' # "none"
  BY <1>2
<1>7. result' = "ok" => accepted'
  BY <1>2
<1>8. leg' \in {"configure", "resolve"} => received' <= (attempt' - 1) * N
  <2>1. attempt' - 1 = 0 /\ 0 * N = 0
    BY <1>1, <1>2
  <2> QED
    BY <1>2, <2>1
<1>9. leg' \notin {"post", "again", "end"}
  BY <1>2
<1>10. contacted' \in BOOLEAN
  BY <1>2 DEF DeliveryInv
<1> QED
  BY <1>3, <1>4, <1>5, <1>6, <1>7, <1>8, <1>9, <1>10 DEF DeliveryInv

\* A sequence of one element, and what Append makes of it.
LEMMA AppendToOne ==
    ASSUME NEW S, NEW s \in Seq(S), NEW e \in S, NEW u \in Seq(S),
           Len(s) = 1, Len(u) = 2, u[1] = s[1], u[2] = e
    PROVE  Append(s, e) = u
<1> DEFINE t == Append(s, e)
<1>1. Len(s) + 1 = 2
  OBVIOUS
<1>2. t \in Seq(S)
  OBVIOUS
<1>8. Len(t) = Len(s) + 1
  BY AppendProperties
<1>3. t[Len(s) + 1] = e
  BY AppendProperties
<1>4. t[1] = u[1]
  OBVIOUS
<1> HIDE DEF t
<1>5. Len(t) = 2 /\ t[2] = e
  BY <1>1, <1>3, <1>8
<1>6. \A i \in 1 .. Len(t) : t[i] = u[i]
  BY <1>4, <1>5
<1>7. t = u
  BY <1>2, <1>5, <1>6, SeqEqual
<1> QED
  BY <1>7 DEF t

\* The two voices of TwoVoicesExplained, in the order they are heard.
LEMMA BothHeard == Append(<<"success">>, "failure") = <<"success", "failure">>
<1> DEFINE M == {"success", "failure"}
           s == <<"success">>
           u == <<"success", "failure">>
<1>1. s \in Seq(M) /\ u \in Seq(M)
  OBVIOUS
<1>2. Len(s) = 1 /\ Len(u) = 2
  OBVIOUS
<1>3. u[1] = s[1] /\ u[2] = "failure"
  OBVIOUS
<1>4. "failure" \in M
  OBVIOUS
<1> HIDE DEF M, s, u
<1>5. Append(s, "failure") = u
  BY <1>1, <1>2, <1>3, <1>4, AppendToOne
<1> QED
  BY <1>5 DEF s, u

\* Every step of the process, and of what changes while it runs.
LEMMA RunStep == RunInv /\ [Next]_vars => RunInv'
<1> SUFFICES ASSUME RunInv, [Next]_vars PROVE RunInv'
  OBVIOUS
<1>1. CASE Admit
  <2>1. AdmissionInv'
    BY <1>1, AdmissionStep DEF Admit, RunInv
  <2>2. built' = NoRevision /\ ~ contacted'
    BY <1>1 DEF Admit, RunInv, ownVars, callbackVars, BuiltInv, ActsWhenAdmitted
  <2> QED
    BY <1>1, <2>1, <2>2 DEF Admit, RunInv, callbackVars, ownVars, DeliveryInv, HeardByPosition,
       ActsWhenAdmitted, BuiltInv
<1>2. CASE Decided
  <2>1. AdmissionInv'
    BY <1>2, AdmissionKept DEF Decided, RunInv
  <2>2. built' = NoRevision
    BY <1>2 DEF Decided, RunInv, BuiltInv
  <2> QED
    BY <1>2, <2>1, <2>2 DEF Decided, Leave, RunInv, admissionVars, callbackVars, DeliveryInv,
       HeardByPosition, ActsWhenAdmitted, BuiltInv
<1>9. CASE Disturbed
  <2>1. AdmissionInv' /\ gate' = gate
    BY <1>9, AdmissionStep DEF Disturbed, RunInv, AdmissionNext, MoveHead
  <2>2. built' = NoRevision
    BY <1>9 DEF Disturbed, ownVars, RunInv, BuiltInv
  <2> QED
    BY <1>9, <2>1, <2>2 DEF Disturbed, RunInv, callbackVars, ownVars, DeliveryInv, HeardByPosition,
       ActsWhenAdmitted, BuiltInv
<1>10. CASE CompileStage
  <2>1. AdmissionInv' /\ UNCHANGED admissionVars
    BY <1>10, AdmissionKept DEF CompileStage, RunInv
  <2>2. gate = "admitted" /\ checkout \in Revisions
    BY <1>10 DEF CompileStage, RunInv, ActsWhenAdmitted, AdmissionInv, AdmissionTypeOK
  <2>3. ~ moved => checkout = dispatch.revision /\ ConfigOf[checkout] = dispatch.config
    BY <2>2 DEF RunInv, AdmissionInv, AdmissionSound
  <2> QED
    BY <1>10, <2>1, <2>2, <2>3 DEF CompileStage, RunInv, admissionVars, callbackVars, DeliveryInv,
       HeardByPosition, ActsWhenAdmitted, BuiltInv
<1>3. CASE StageEnds
  <2>1. AdmissionInv' /\ gate' = gate /\ BuiltInv'
    BY <1>3, AdmissionKept DEF StageEnds, Send, Leave, ownVars, RunInv, admissionVars, BuiltInv
  <2>2. DeliveryInv' /\ contacted' = contacted /\ at' \in {"success", "failure"}
    BY <1>3, SendStep DEF StageEnds, Send, RunInv
  <2> QED
    BY <1>3, <2>1, <2>2 DEF StageEnds, RunInv, HeardByPosition, ActsWhenAdmitted
<1>4. CASE Deliver
  <2>1. AdmissionInv' /\ gate' = gate /\ BuiltInv'
    BY <1>4, AdmissionKept DEF Deliver, Send, Leave, ownVars, RunInv, admissionVars, BuiltInv
  <2>2. DeliveryInv'
    BY <1>4, DeliveryStep DEF Deliver, RunInv
  <2> QED
    BY <1>4, <2>1, <2>2 DEF Deliver, ownVars, RunInv, HeardByPosition, ActsWhenAdmitted
<1>5. CASE SuccessSent
  <2>1. AdmissionInv' /\ gate' = gate /\ BuiltInv'
    BY <1>5, AdmissionKept DEF SuccessSent, Send, Leave, ownVars, RunInv, admissionVars, BuiltInv
  <2>2. heard' = IF accepted THEN <<"success">> ELSE <<>>
    BY <1>5 DEF SuccessSent, Hear, RunInv, HeardByPosition
  <2>3. result # "none" /\ result \in Results
    BY <1>5 DEF SuccessSent, RunInv, DeliveryInv
  <2>4. CASE result = "ok" /\ at' = "settle" /\ UNCHANGED <<callbackVars, error, status>>
    <3>1. accepted
      BY <2>4 DEF RunInv, DeliveryInv
    <3> QED
      BY <1>5, <2>1, <2>2, <2>4, <3>1 DEF SuccessSent, callbackVars, RunInv, DeliveryInv, HeardByPosition, ActsWhenAdmitted
  <2>5. CASE result = "callback-failed" /\ error' = result /\ Leave("2") /\ UNCHANGED callbackVars
    <3>1. heard' \in {<<>>, <<"success">>} /\ heard' # <<"success", "failure">>
      BY <2>2
    <3> QED
      BY <1>5, <2>1, <2>3, <2>5, <3>1 DEF SuccessSent, Leave, callbackVars, RunInv, DeliveryInv, HeardByPosition, ActsWhenAdmitted
  <2>6. CASE result \notin {"ok", "callback-failed"} /\ error' = result /\ Send("failure") /\ UNCHANGED status
    <3>1. error' \in Explained /\ error' \in Results
      BY <2>3, <2>6 DEF Explained, Results
    <3>2. DeliveryInv' /\ contacted' = contacted /\ at' = "failure"
      BY <2>6, SendStep DEF Send, RunInv
    <3>3. heard' \in {<<>>, <<"success">>}
      BY <2>2
    <3> QED
      BY <1>5, <2>1, <2>6, <3>1, <3>2, <3>3 DEF SuccessSent, RunInv, HeardByPosition, ActsWhenAdmitted
  <2> QED
    BY <1>5, <2>4, <2>5, <2>6 DEF SuccessSent
<1>6. CASE Settle
  <2>1. AdmissionInv' /\ gate' = gate /\ BuiltInv'
    BY <1>6, AdmissionKept DEF Settle, Send, Leave, ownVars, RunInv, admissionVars, BuiltInv
  <2>2. heard' = <<"success">> /\ heard' # <<"success", "failure">>
    BY <1>6 DEF Settle, RunInv, HeardByPosition
  <2>3. CASE Leave("0") /\ UNCHANGED <<callbackVars, error>>
    BY <1>6, <2>1, <2>2, <2>3 DEF Settle, Leave, callbackVars, RunInv, DeliveryInv, HeardByPosition, ActsWhenAdmitted
  <2>4. CASE Send("failure") /\ error' = "settle" /\ UNCHANGED status
    <3>1. DeliveryInv' /\ contacted' = contacted /\ at' = "failure"
      BY <2>4, SendStep DEF Send, RunInv
    <3> QED
      BY <1>6, <2>1, <2>2, <2>4, <3>1 DEF Settle, RunInv, HeardByPosition, ActsWhenAdmitted, Explained
  <2> QED
    BY <1>6, <2>3, <2>4 DEF Settle
<1>7. CASE FailureSent
  <2>1. AdmissionInv' /\ gate' = gate /\ BuiltInv'
    BY <1>7, AdmissionKept DEF FailureSent, Send, Leave, ownVars, RunInv, admissionVars, BuiltInv
  <2>2. heard = <<>> \/ (heard = <<"success">> /\ error \in Explained)
    BY <1>7 DEF FailureSent, RunInv, HeardByPosition
  <2>3. /\ heard' \in {<<>>, <<"success">>, <<"failure">>, <<"success", "failure">>}
        /\ heard' = <<"success", "failure">> => error \in Explained
    <3>1. Append(<<>>, "failure") = <<"failure">>
      OBVIOUS
    <3>3. Append(<<"success">>, "failure") = <<"success", "failure">>
      BY BothHeard
    <3>2. <<>> # <<"success", "failure">> /\ <<"failure">> # <<"success", "failure">>
      OBVIOUS
    <3> QED
      BY <1>7, <2>2, <3>1, <3>2, <3>3 DEF FailureSent, Hear
  <2> QED
    BY <1>7, <2>1, <2>3 DEF FailureSent, Leave, callbackVars, RunInv, DeliveryInv, HeardByPosition, ActsWhenAdmitted
<1>8. CASE UNCHANGED vars
  <2>1. AdmissionInv'
    BY <1>8, AdmissionKept DEF vars, RunInv
  <2> QED
    BY <1>8, <2>1 DEF vars, admissionVars, callbackVars, ownVars, RunInv, DeliveryInv,
       HeardByPosition, ActsWhenAdmitted, BuiltInv
<1> QED
  BY <1>1, <1>2, <1>3, <1>4, <1>5, <1>6, <1>7, <1>8, <1>9, <1>10 DEF Next, Proceed

-----------------------------------------------------------------------------
(* Theorems.                                                                *)

\* The invariant of run_worker from the arrival of a dispatch to the exit code.
THEOREM RunInvariant == Spec => []RunInv
  BY RunInit, RunStep, PTL DEF Spec

\* Every variable keeps its type, and a callback is sent at most once for every
\* attempt and address.
THEOREM RunTypeCorrect == Spec => []RunTypeOK
<1>1. RunInv => RunTypeOK
  <2> SUFFICES ASSUME RunInv PROVE RunTypeOK
    OBVIOUS
  <2>1. /\ N \in Nat /\ attempt \in Nat \ {0} /\ attempt <= Attempts /\ Attempts \in Nat
        /\ attempt * N = (attempt - 1) * N + N /\ attempt * N <= Attempts * N
        /\ Attempts * N \in Nat
    BY AddressCount, CallbackAssumption DEF RunInv, DeliveryInv
  <2>2. received <= attempt * N
    <3>1. CASE leg = "post"
      <4>1. Cardinality(todo) \in Nat
        BY AddressCount DEF RunInv, DeliveryInv
      <4> QED
        BY <2>1, <3>1, <4>1 DEF RunInv, DeliveryInv
    <3>2. CASE leg # "post"
      BY <2>1, <3>2 DEF RunInv, DeliveryInv
    <3> QED
      BY <3>1, <3>2
  <2>3. received \in 0 .. Attempts * N
    BY <2>1, <2>2 DEF RunInv, DeliveryInv
  <2>4. CallbackTypeOK
    BY <2>3 DEF RunInv, DeliveryInv, CallbackTypeOK, N
  <2>5. heard \in {<<>>, <<"success">>, <<"failure">>, <<"success", "failure">>}
    BY DEF RunInv, HeardByPosition
  <2> QED
    BY <2>4, <2>5 DEF RunInv, AdmissionInv, BuiltInv, RunTypeOK
<1> QED
  BY <1>1, RunInvariant, PTL

\* No revision is checked out, no stage compiled and nobody contacted for a
\* dispatch that the validations of run_worker did not admit in its time; and
\* what is compiled is the signed revision, unless the checkout was moved under
\* the worker.
THEOREM RunOnlyTheAdmittedActs == Spec => []OnlyTheAdmittedActs
<1>1. RunInv => OnlyTheAdmittedActs
  BY DEF RunInv, AdmissionInv, ActsWhenAdmitted, BuiltInv, CheckedOutAfterPreflight, OnlyTheAdmittedActs
<1> QED
  BY <1>1, RunInvariant, PTL

\* Exit code 0 means that the control plane accepted the success of the stage.
THEOREM RunZeroMeansAccepted == Spec => []ZeroMeansAccepted
<1>1. RunInv => ZeroMeansAccepted
  BY DEF RunInv, HeardByPosition, ZeroMeansAccepted
<1> QED
  BY <1>1, RunInvariant, PTL

\* A success and then a failure of one stage is accepted for named reasons only.
THEOREM RunTwoVoicesExplained == Spec => []TwoVoicesExplained
<1>1. RunInv => TwoVoicesExplained
  <2> SUFFICES ASSUME RunInv, heard = <<"success", "failure">> PROVE error \in Explained
    BY DEF TwoVoicesExplained, Explained
  <2>1. <<"success", "failure">> # <<>> /\ <<"success", "failure">> # <<"success">>
    OBVIOUS
  <2> QED
    BY <2>1 DEF RunInv, HeardByPosition
<1> QED
  BY <1>1, RunInvariant, PTL
=============================================================================
