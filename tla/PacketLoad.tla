----------------------------- MODULE PacketLoad -----------------------------
(***************************************************************************)
(* Loading one packet bundle from a directory: the manifest, every member  *)
(* against the manifest, then packet.json, the payload files and the       *)
(* receipt, each read again.  No read locks anything, and while the loader *)
(* is between two reads another program may replace one file or the whole  *)
(* directory.                                                              *)
(*                                                                         *)
(* A bundle is what one producer wrote at one time.  Its packet declares   *)
(* the content (header and payload) that its semantic hash stands for; the *)
(* content it carries may be another one.  A hash is what it is the hash   *)
(* of: no two contents collide.                                            *)
(***************************************************************************)
EXTENDS Naturals, Sequences

CONSTANTS
    Bundles,        \* the bundles that may come to lie in the directory
    Domains,        \* payload domains, each a file of its own if split
    DomainOrder,    \* the order in which they are listed and read
    MaxReplacements,
    Missing         \* not a file content

Kinds == {"l9.repository-model", "l9.corpus-intelligence", "l9.topology"}

ASSUME PacketLoadAssumption ==
    /\ MaxReplacements \in Nat
    /\ DomainOrder \in Seq(Domains) /\ DomainOrder # <<>>
    /\ Domains = {DomainOrder[i] : i \in DOMAIN DomainOrder}
    /\ Domains \cap {"manifest", "packet", "receipt"} = {}
    /\ \A b \in Bundles :
         /\ b.kind \in Kinds
         /\ b.split \in BOOLEAN
         /\ b.kind # "l9.repository-model" => b.split
         /\ b.payload = [d \in Domains |-> b.payload[d]]
         /\ b.status \in {"passed", "failed"} /\ b.receipt \in {"passed", "failed"}
    \* The header holds the payload references.
    /\ \A b, c \in Bundles : b.kind = c.kind /\ b.header = c.header => b.split = c.split

VARIABLES
    files,          \* the directory: the content of each file
    replacements,
    wanted,         \* the kind whose loader runs, "any" until it is known
    phase,          \* what the loader reads next
    position,       \* within a phase that reads several files
    held            \* what it has read so far

vars == <<files, replacements, wanted, phase, position, held>>

Members == {"manifest", "packet", "receipt"} \cup Domains

-----------------------------------------------------------------------------
(* The files of a bundle.                                                   *)

HasReceipt(b) == b.kind # "l9.corpus-intelligence"

\* packet.json names the payload files, and in two of the three kinds the hash
\* of each; a repository packet may carry its payload inline.
Packet(b) ==
    [kind |-> b.kind, header |-> b.header, declares |-> b.declares, status |-> b.status,
     inline |-> IF b.split THEN {} ELSE {b.payload},
     hashes |-> IF b.kind = "l9.repository-model" THEN {} ELSE {b.payload}]

\* Members a manifest lists, in its order.
Listed(b) ==
    <<"packet">> \o (IF b.split THEN DomainOrder ELSE <<>>)
        \o (IF HasReceipt(b) THEN <<"receipt">> ELSE <<>>)

\* The manifest names the identity of the packet and the hash of every member.
Manifest(b) == [kind |-> b.kind, declares |-> b.declares, of |-> b]

FileOf(b, m) ==
    CASE m = "manifest" -> Manifest(b)
      [] m = "packet" -> Packet(b)
      [] m = "receipt" -> IF HasReceipt(b) THEN [status |-> b.receipt, subject |-> b.declares] ELSE Missing
      [] OTHER -> IF b.split THEN b.payload[m] ELSE Missing

Directory(b) == [m \in Members |-> FileOf(b, m)]

-----------------------------------------------------------------------------
(* The loader.                                                              *)

NothingHeld == [manifest |-> Missing, packet |-> Missing, payload |-> <<>>, receipt |-> Missing]

Init ==
    /\ files \in {Directory(b) : b \in Bundles}
    /\ replacements = 0
    /\ wanted \in Kinds \cup {"any"}
    /\ phase = "manifest"
    /\ position = 1
    /\ held = NothingHeld

\* Other programs: one file replaced, or the directory renamed away and
\* another put in its place.
ReplaceFile(m, b) ==
    /\ replacements < MaxReplacements
    /\ replacements' = replacements + 1
    /\ files' = [files EXCEPT ![m] = FileOf(b, m)]
    /\ UNCHANGED <<wanted, phase, position, held>>

ReplaceDirectory(b) ==
    /\ replacements < MaxReplacements
    /\ replacements' = replacements + 1
    /\ files' = Directory(b)
    /\ UNCHANGED <<wanted, phase, position, held>>

Goto(p) == phase' = p /\ position' = 1

Advance == phase' = phase /\ position' = position + 1

Environment == UNCHANGED <<files, replacements>>

ReadManifest ==
    /\ phase = "manifest"
    /\ held' = [held EXCEPT !.manifest = files["manifest"]]
    /\ Goto("verify")
    /\ UNCHANGED wanted
    /\ Environment

Listing == Listed(held.manifest.of)

\* Broken variant: the last member is not the last.
VerifyBeyond ==
    /\ phase = "verify"
    /\ IF files[Listing[position]] # FileOf(held.manifest.of, Listing[position]) THEN Goto("refused")
       ELSE Advance
    /\ UNCHANGED <<wanted, held>>
    /\ Environment

\* verify_bundle_manifest: one member at a time.  Its content is dropped.
\* verify_packet_bundle runs it once more than a loader does, to learn from
\* the manifest which loader to call; that loader begins again.
VerifyMember ==
    /\ phase = "verify"
    /\ IF files[Listing[position]] # FileOf(held.manifest.of, Listing[position])
       THEN Goto("refused") /\ UNCHANGED wanted
       ELSE IF position < Len(Listing) THEN Advance /\ UNCHANGED wanted
       ELSE IF wanted = "any" THEN Goto("manifest") /\ wanted' = held.manifest.kind
       ELSE Goto("packet") /\ UNCHANGED wanted
    /\ UNCHANGED held
    /\ Environment

SamePacket(manifest, packet) == manifest.declares = packet.declares

\* What the semantic hash of a packet is calculated over.
Content(packet, payload) == [kind |-> packet.kind, header |-> packet.header, payload |-> payload]

\* Broken variant: the declared hash is believed.
SoundBelieved(packet, payload) == TRUE

Sound(packet, payload) == Content(packet, payload) = packet.declares

\* validate_repository_model_packet and the comparison with the manifest.
RepositoryPacketAccepted(manifest, packet, payload) ==
    packet.status = "passed" /\ Sound(packet, payload) /\ SamePacket(manifest, packet)

\* packet.json is read again, and a packet of a kind other than the
\* loader's does not fit its model.  The loaders differ in what they check
\* before they turn to the payload.
ReadPacket ==
    /\ phase = "packet"
    /\ LET packet == files["packet"]
           payload == IF packet.inline = {} THEN <<>> ELSE CHOOSE p \in packet.inline : TRUE
       IN  /\ held' = [held EXCEPT !.packet = packet, !.payload = payload]
           /\ IF packet.kind # wanted THEN Goto("refused")
              ELSE CASE packet.kind = "l9.repository-model" ->
                          IF packet.inline = {} THEN Goto("payload")
                          ELSE IF RepositoryPacketAccepted(held.manifest, packet, payload) THEN Goto("receipt")
                          ELSE Goto("refused")
                     [] packet.kind = "l9.corpus-intelligence" ->
                          IF SamePacket(held.manifest, packet) THEN Goto("payload") ELSE Goto("refused")
                     [] OTHER ->
                          IF SamePacket(held.manifest, packet)
                              /\ Sound(packet, CHOOSE h \in packet.hashes : TRUE)
                          THEN Goto("payload") ELSE Goto("refused")
    /\ UNCHANGED wanted
    /\ Environment

\* Broken variant: a packet that states no hash does not match.
HashDemanded(packet, d, content) == packet.hashes # {} /\ \A h \in packet.hashes : h[d] = content

\* The bytes of a payload file against the hash the packet states for it.
HashStated(packet, d, content) == \A h \in packet.hashes : h[d] = content

Read == {DomainOrder[i] : i \in 1 .. position}

\* The files a split payload names are read one by one; a repository packet
\* states no hash for them, so only the whole is judged.
ReadPayload ==
    /\ phase = "payload"
    /\ LET d == DomainOrder[position]
           payload == [x \in Read |-> IF x = d THEN files[d] ELSE held.payload[x]]
       IN  /\ held' = [held EXCEPT !.payload = payload]
           /\ IF files[d] = Missing \/ ~ HashStated(held.packet, d, files[d]) THEN Goto("refused")
              ELSE IF position < Len(DomainOrder) THEN Advance
              ELSE CASE held.packet.kind = "l9.repository-model" ->
                          IF RepositoryPacketAccepted(held.manifest, held.packet, payload)
                          THEN Goto("receipt") ELSE Goto("refused")
                     [] held.packet.kind = "l9.corpus-intelligence" ->
                          IF Sound(held.packet, payload) THEN Goto("loaded") ELSE Goto("refused")
                     [] OTHER -> Goto("receipt")
    /\ UNCHANGED wanted
    /\ Environment

\* A passed receipt about this very packet.
ReadReceipt ==
    /\ phase = "receipt"
    /\ LET receipt == files["receipt"]
       IN  /\ held' = [held EXCEPT !.receipt = receipt]
           /\ IF receipt # Missing /\ receipt.status = "passed" /\ receipt.subject = held.packet.declares
              THEN Goto("loaded") ELSE Goto("refused")
    /\ UNCHANGED wanted
    /\ Environment

Load == ReadManifest \/ VerifyMember \/ ReadPacket \/ ReadPayload \/ ReadReceipt

Next ==
    \/ Load
    \/ \E b \in Bundles :
         (\E m \in Members : ReplaceFile(m, b)) \/ ReplaceDirectory(b)

Spec == Init /\ [][Next]_vars

\* The loader is one call: it runs on unless its process dies.
LoadSpec == Spec /\ WF_vars(Load)

-----------------------------------------------------------------------------
(* Properties.                                                              *)

\* Every variable has its type.
LoadTypeOK ==
    /\ \A m \in Members : \E b \in Bundles : files[m] = FileOf(b, m)
    /\ replacements \in 0 .. MaxReplacements
    /\ wanted \in Kinds \cup {"any"}
    /\ phase \in {"manifest", "verify", "packet", "payload", "receipt", "loaded", "refused"}
    /\ position \in
         CASE phase = "verify" -> DOMAIN Listing
           [] phase = "payload" -> DOMAIN DomainOrder
           [] OTHER -> {1}
    /\ held.manifest \in {Manifest(b) : b \in Bundles} \cup {Missing}
    /\ held.packet \in {Packet(b) : b \in Bundles} \cup {Missing}

\* However the directory changed under the loader, what it returns is one
\* packet: the content is the one that the identity in the manifest stands
\* for, and where the kind has a receipt, the receipt is about that content
\* and passed (load_*_bundle in packets/loader.py and corpus_bundle.py).
LoadedIsOneVersion ==
    phase = "loaded" =>
        /\ Content(held.packet, held.payload) = held.manifest.declares
        /\ held.packet.kind = wanted
        /\ wanted # "l9.corpus-intelligence" =>
             held.receipt = [status |-> "passed", subject |-> held.manifest.declares]

\* A load ends, and a sound bundle that nobody touches is not refused.
LoadSettles ==
    <>[] /\ phase \in {"loaded", "refused"}
         /\ phase = "refused" /\ replacements = 0 =>
              \A b \in Bundles : files = Directory(b) /\ wanted \in {b.kind, "any"} =>
                \/ Content(b, b.payload) # b.declares
                \/ b.status # "passed" \/ b.receipt # "passed"

=============================================================================
