--------------------------- MODULE PacketRegistry ---------------------------
(***************************************************************************)
(* LocalPacketRegistry of worker/registry.py: the SQLite table that maps   *)
(* an idempotency key to the packet published for it.  Each operation is   *)
(* one transaction, so one action.                                         *)
(*                                                                         *)
(* An entry is abstracted to its packet and its status: receipts URIs and  *)
(* metadata travel with the packet and are never compared here.            *)
(***************************************************************************)

CONSTANTS Keys,     \* idempotency keys
          Packets,  \* packet identities
          NoPacket  \* the packet of a key that has no entry

VARIABLE registry   \* the packet_registry table

Entry == [packet : Packets, status : {"published", "acknowledged"}]
NoEntry == [packet |-> NoPacket, status |-> "absent"]

RegistryInit == registry = [k \in Keys |-> NoEntry]

RegistryTypeOK == registry \in [Keys -> Entry \cup {NoEntry}]

\* get: the entry, or None.
Registered(k) == registry[k] # NoEntry

\* register raises idempotency-collision: the key maps to another packet.
Collides(k, p) == Registered(k) /\ registry[k].packet # p

\* register: insert, or overwrite an entry with the same packet.  The status
\* is "published" either way, also when the old one was "acknowledged".
Register(k, p) ==
    /\ ~ Collides(k, p)
    /\ registry' = [registry EXCEPT ![k] = [packet |-> p, status |-> "published"]]

\* acknowledge: the entry has to exist.
Acknowledge(k) ==
    /\ Registered(k)
    /\ registry' = [registry EXCEPT ![k].status = "acknowledged"]
=============================================================================
