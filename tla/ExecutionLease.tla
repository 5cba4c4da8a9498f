--------------------------- MODULE ExecutionLease ---------------------------
(***************************************************************************)
(* The execution lease store of worker/execution_authority.py: one SQLite  *)
(* table, one row per idempotency key, and the permits that worker         *)
(* processes hold.  Every operation of SqliteExecutionAuthority runs in    *)
(* one BEGIN IMMEDIATE transaction, so each is one atomic action here.     *)
(*                                                                         *)
(* lease_id and fence_token are drawn, stored and compared together and    *)
(* are random: one value, the fence, stands for the pair, and a new one is *)
(* any value that no row and no permit carries.  A value that nothing      *)
(* carries any more can be drawn again without anybody noticing, which     *)
(* keeps the model finite without a bound on the number of claims.         *)
(*                                                                         *)
(* This module fixes no calling order: a client may call any operation     *)
(* with the permit it holds, at any time, and may keep a permit that the   *)
(* store no longer honours.  StageWorker adds the order of the real        *)
(* client.                                                                 *)
(***************************************************************************)
EXTENDS FiniteSets

CONSTANTS Workers,   \* worker processes
          Keys,      \* idempotency keys
          Nonces,    \* dispatch nonces
          Fences,    \* lease_id / fence_token pairs
          NoNonce,   \* the nonce column of a key that has no row
          NoFence,   \* the fence of a key that has no row
          NoPermit   \* what a process without a permit holds

Permit == [key : Keys, nonce : Nonces, fence : Fences]

ASSUME NoNonceFresh == NoNonce \notin Nonces
ASSUME NoFenceFresh == NoFence \notin Fences
ASSUME NoPermitFresh == NoPermit \notin Permit

VARIABLES lease,   \* the execution_lease table: idempotency key -> row
          permit   \* the ExecutionPermit each process holds

leaseVars == <<lease, permit>>

States == {"NONE", "CLAIMED", "PUBLISHED", "ACKNOWLEDGED", "FAILED"}
Row == [state : States, nonce : Nonces \cup {NoNonce}, fence : Fences \cup {NoFence}]

NoRow == [state |-> "NONE", nonce |-> NoNonce, fence |-> NoFence]

LeaseInit ==
    /\ lease = [k \in Keys |-> NoRow]
    /\ permit = [w \in Workers |-> NoPermit]

-----------------------------------------------------------------------------
(* Conditions that the transactions test.                                   *)

Finalized(k) == lease[k].state \in {"PUBLISHED", "ACKNOWLEDGED"}

\* Broken variant: the key's own row counts as well.
NonceHeld(k, n) == \E j \in Keys : lease[j].nonce = n

NonceHeldElsewhere(k, n) == \E j \in Keys \ {k} : lease[j].nonce = n

\* Broken variant: the nonce test is forgotten.
CanClaimAnyNonce(k, n) == lease[k].state \in {"NONE", "FAILED"}

\* Broken variant: a claim that another process holds is taken over.
CanClaimHeld(k, n) ==
    /\ lease[k].state \in {"NONE", "FAILED", "CLAIMED"}
    /\ ~ NonceHeldElsewhere(k, n)

\* acquire: no row for the key, or _resume_existing of a FAILED row, with a
\* nonce that no row of another key carries.
CanClaim(k, n) ==
    /\ lease[k].state \in {"NONE", "FAILED"}
    /\ ~ NonceHeldElsewhere(k, n)

\* Broken variant: _load_active checks that a row exists, not whose it is.
OwnsAnyRow(w) == permit[w] # NoPermit /\ lease[permit[w].key] # NoRow

\* _load_active: the row still carries this permit's lease_id and fence_token.
Owns(w) ==
    /\ permit[w] # NoPermit
    /\ lease[permit[w].key].fence = permit[w].fence

\* assert_active: the permit is current and its row is still CLAIMED.
Active(w) == Owns(w) /\ lease[permit[w].key].state = "CLAIMED"

-----------------------------------------------------------------------------
(* The operations.                                                          *)

\* secrets.token_hex: a value nobody holds.
Fresh(f) ==
    /\ \A k \in Keys : lease[k].fence # f
    /\ \A w \in Workers : permit[w] # NoPermit => permit[w].fence # f

\* acquire, successful: insert the row, or take over the FAILED row.  The
\* nonce column is overwritten and a fresh fence is drawn.
Claim(w, k, n) ==
    /\ CanClaim(k, n)
    /\ \E f \in Fences :
          /\ Fresh(f)
          /\ lease' = [lease EXCEPT ![k] = [state |-> "CLAIMED", nonce |-> n, fence |-> f]]
          /\ permit' = [permit EXCEPT ![w] = [key |-> k, nonce |-> n, fence |-> f]]

\* The three outcomes of acquire that change no row.
ReuseReported(k) == Finalized(k)
Contended(k) == lease[k].state = "CLAIMED"
NonceReplayed(k, n) == lease[k].state \in {"NONE", "FAILED"} /\ NonceHeldElsewhere(k, n)

\* _transition: only the row's current holder moves it, and only along
\* CLAIMED -> PUBLISHED -> ACKNOWLEDGED.
Move(w, from, to) ==
    /\ Owns(w)
    /\ lease[permit[w].key].state = from
    /\ lease' = [lease EXCEPT ![permit[w].key].state = to]
    /\ UNCHANGED permit

Finalize(w) == Move(w, "CLAIMED", "PUBLISHED")

\* Broken variant: a state that the CHECK constraint of the table forbids.
ReleaseToFreeState(w) == Move(w, "PUBLISHED", "RELEASED")

Release(w) == Move(w, "PUBLISHED", "ACKNOWLEDGED")

\* fail: best-effort; a permit that is stale, or whose work is finalized,
\* changes nothing.
Fail(w) ==
    /\ permit[w] # NoPermit
    /\ lease' = IF Active(w) THEN [lease EXCEPT ![permit[w].key].state = "FAILED"]
                             ELSE lease
    /\ UNCHANGED permit

\* The process ends, or dies, and its permit object with it.  Nothing in the
\* store changes: a row has no expiry.
Drop(w) ==
    /\ permit[w] # NoPermit
    /\ permit' = [permit EXCEPT ![w] = NoPermit]
    /\ UNCHANGED lease

LeaseNext ==
    \E w \in Workers :
        \/ \E k \in Keys, n \in Nonces : Claim(w, k, n)
        \/ Finalize(w)
        \/ Release(w)
        \/ Fail(w)
        \/ Drop(w)

LeaseSpec == LeaseInit /\ [][LeaseNext]_leaseVars

-----------------------------------------------------------------------------
(* Properties.                                                              *)

\* Every variable has its type; in particular every row of the table carries
\* one of the four states its CHECK constraint allows, or is absent.
LeaseTypeOK ==
    /\ lease \in [Keys -> Row]
    /\ permit \in [Workers -> Permit \cup {NoPermit}]

\* "Single winner across concurrent workers": however stale the permits that
\* processes keep, at most one process passes assert_active for a key.
SingleWinner ==
    \A v, w \in Workers :
        Active(v) /\ Active(w) /\ permit[v].key = permit[w].key => v = w

\* The nonce checks that acquire makes keep the nonce column unique by
\* themselves, so the UNIQUE(dispatch_nonce) constraint never fires and the
\* IntegrityError branch of acquire is never taken.
NonceColumnUnique ==
    \A j, k \in Keys : j # k /\ lease[j].nonce = lease[k].nonce => lease[j].nonce = NoNonce

\* A permit that the store does not honour cannot move a row: a step that
\* changes a row either installs a fence that no process held before, or is
\* taken while some process holds the permit with the row's current fence.
StalePermitIsInert ==
    [][\A k \in Keys :
          \/ lease'[k] = lease[k]
          \/ Fresh(lease'[k].fence)
          \/ \E w \in Workers : permit[w] # NoPermit /\ permit[w].key = k
                                    /\ permit[w].fence = lease[k].fence]_leaseVars

\* "Failure cleanup must not undo it": once a lease reports finalized work it
\* reports finalized work for ever, under the same fence and nonce.
FinalizedForEver ==
    [][\A k \in Keys : Finalized(k) =>
          /\ Finalized(k)'
          /\ lease'[k].fence = lease[k].fence
          /\ lease'[k].nonce = lease[k].nonce]_leaseVars
=============================================================================
