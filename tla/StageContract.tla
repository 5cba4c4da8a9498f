--------------------------- MODULE StageContract ----------------------------
(***************************************************************************)
(* What the stage worker promises to the control plane, with no worker,    *)
(* lease, file or retry in it: for each idempotency key one packet is      *)
(* published, at most once; success is announced only for the packet that  *)
(* was published; a key is settled only after the control plane accepted   *)
(* an announcement; and none of this is ever taken back.                   *)
(***************************************************************************)

CONSTANTS Keys, Packets, NoPacket

VARIABLES published,  \* key -> the packet published for it, or NoPacket
          announced,  \* <<key, packet>> successes the control plane received
          settled     \* keys recorded as acknowledged

vars == <<published, announced, settled>>

Init ==
    /\ published = [k \in Keys |-> NoPacket]
    /\ announced = {}
    /\ settled = {}

Publish(k, p) ==
    /\ published[k] = NoPacket
    /\ published' = [published EXCEPT ![k] = p]
    /\ UNCHANGED <<announced, settled>>

Announce(k) ==
    /\ published[k] # NoPacket
    /\ announced' = announced \cup {<<k, published[k]>>}
    /\ UNCHANGED <<published, settled>>

Settle(k) ==
    /\ <<k, published[k]>> \in announced
    /\ settled' = settled \cup {k}
    /\ UNCHANGED <<published, announced>>

Next == \E k \in Keys : Announce(k) \/ Settle(k) \/ \E p \in Packets : Publish(k, p)

Spec == Init /\ [][Next]_vars
=============================================================================
