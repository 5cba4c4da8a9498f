------------------------------ MODULE Callback ------------------------------
(***************************************************************************)
(* Delivery of one signed callback (worker/callback.py): send_callback     *)
(* makes a bounded number of attempts; each attempt resolves the host      *)
(* again, validates every address it resolves to, and tries the addresses  *)
(* in order until one answers.                                             *)
(*                                                                         *)
(* The control plane may process a request whose answer never arrives, so  *)
(* the number of copies it receives and whether it ever accepted one are   *)
(* part of the state.  Addresses are numbers, in the sorted order in which *)
(* the code tries them.                                                    *)
(***************************************************************************)
EXTENDS Integers, FiniteSets

CONSTANTS Addresses,  \* addresses the callback host may resolve to
          Forbidden,  \* those that are private, loopback, reserved, ...
          Attempts    \* attempts of send_callback; 3 in every call

ASSUME CallbackAssumption ==
    /\ Addresses \subseteq Nat /\ IsFiniteSet(Addresses)
    /\ Forbidden \subseteq Addresses
    /\ Attempts \in Nat \ {0}

VARIABLES leg,      \* "configure", "resolve", "post", "again" or "end"
          attempt,    \* number of the current attempt
          todo,       \* validated addresses not yet tried in this attempt
          result,     \* "none", "ok", or the code of the exception raised
          received,   \* copies of the body that reached the control plane
          accepted,   \* the control plane answered one of them with 2xx
          contacted   \* history: a connection was opened

callbackVars == <<leg, attempt, todo, result, received, accepted, contacted>>

Blocked == {"callback-policy-invalid", "callback-address-forbidden",
            "callback-redirect-forbidden"}
Results == {"none", "ok", "callback-failed", "HTTPException"} \cup Blocked

CallbackInit ==
    /\ leg = "configure"
    /\ attempt = 1
    /\ todo = {}
    /\ result = "none"
    /\ received = 0
    /\ accepted = FALSE
    /\ contacted = FALSE

End(r) == leg' = "end" /\ result' = r

-----------------------------------------------------------------------------

\* _callback_config and the checks of _validate_endpoint on the URL: the local
\* policy and environment either name an allowed endpoint or block.
Configure ==
    /\ leg = "configure"
    /\ \/ leg' = "resolve" /\ UNCHANGED result
       \/ End("callback-policy-invalid")
    /\ UNCHANGED <<attempt, todo, received, accepted, contacted>>

Safe(found) == found \cap Forbidden = {}

\* _safe_addresses: no address is a retryable failure of this attempt, and one
\* prohibited address blocks the callback.  The answer of the name service may
\* differ from attempt to attempt.
Resolve ==
    /\ leg = "resolve"
    /\ \/ leg' = "again" /\ UNCHANGED <<todo, result>>
       \/ \E found \in (SUBSET Addresses) \ {{}} :
             IF Safe(found)
               THEN leg' = "post" /\ todo' = found /\ UNCHANGED result
               ELSE End("callback-address-forbidden") /\ UNCHANGED todo
    /\ UNCHANGED <<attempt, received, accepted, contacted>>

First == CHOOSE a \in todo : \A b \in todo : a <= b

Connect == leg = "post" /\ todo # {} /\ contacted' = TRUE

\* The request is processed by the control plane, with or without success.
Arrives(ok) == received' = received + 1 /\ accepted' = (accepted \/ ok)

\* An OSError, before or after the request arrived: next address, if any.
PostLost ==
    /\ Connect
    /\ \/ UNCHANGED <<received, accepted>>
       \/ \E ok \in BOOLEAN : Arrives(ok)
    /\ todo' = todo \ {First}
    /\ leg' = IF todo' = {} THEN "again" ELSE "post"
    /\ UNCHANGED <<attempt, result>>

PostAccepted ==
    /\ Connect
    /\ Arrives(TRUE)
    /\ End("ok")
    /\ UNCHANGED <<attempt, todo>>

\* A redirect is blocked; any other status ends the attempt, other addresses
\* are not tried.
PostRefused ==
    /\ Connect
    /\ Arrives(FALSE)
    /\ leg' = "again"
    /\ todo' = {}
    /\ UNCHANGED <<attempt, result>>

PostRedirected ==
    /\ Connect
    /\ Arrives(FALSE)
    /\ End("callback-redirect-forbidden")
    /\ UNCHANGED <<attempt, todo>>

\* An answer that is not HTTP raises an exception that is no OSError: it is
\* neither retried nor turned into a WorkerError.
PostGarbled ==
    /\ Connect
    /\ \E ok \in BOOLEAN : Arrives(ok)
    /\ End("HTTPException")
    /\ UNCHANGED <<attempt, todo>>

\* Broken variants: one attempt more, giving up without an error, no count.
AgainOnceMore ==
    /\ leg = "again"
    /\ IF attempt <= Attempts
         THEN attempt' = attempt + 1 /\ leg' = "resolve" /\ UNCHANGED result
         ELSE End("callback-failed") /\ UNCHANGED attempt
    /\ UNCHANGED <<todo, received, accepted, contacted>>
AgainGivingUp ==
    /\ leg = "again"
    /\ IF attempt < Attempts
         THEN attempt' = attempt + 1 /\ leg' = "resolve" /\ UNCHANGED result
         ELSE End("ok") /\ UNCHANGED attempt
    /\ UNCHANGED <<todo, received, accepted, contacted>>
AgainForEver ==
    /\ leg = "again"
    /\ leg' = "resolve"
    /\ UNCHANGED <<attempt, todo, result, received, accepted, contacted>>

\* The end of an attempt that failed: sleep and try again, or callback-failed.
Again ==
    /\ leg = "again"
    /\ IF attempt < Attempts
         THEN attempt' = attempt + 1 /\ leg' = "resolve" /\ UNCHANGED result
         ELSE End("callback-failed") /\ UNCHANGED attempt
    /\ UNCHANGED <<todo, received, accepted, contacted>>

CallbackNext == Configure \/ Resolve \/ PostLost \/ PostAccepted \/ PostRefused
                  \/ PostRedirected \/ PostGarbled \/ Again

-----------------------------------------------------------------------------
(* Properties.                                                              *)

\* Every variable has its type, and no more copies are sent than there are
\* attempts and addresses.
CallbackTypeOK ==
    /\ leg \in {"configure", "resolve", "post", "again", "end"}
    /\ attempt \in 1 .. Attempts
    /\ todo \subseteq Addresses
    /\ result \in Results
    /\ received \in 0 .. Attempts * Cardinality(Addresses)
    /\ accepted \in BOOLEAN
    /\ contacted \in BOOLEAN
=============================================================================
