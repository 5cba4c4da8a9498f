-------------------------- MODULE PacketLoadProofs --------------------------
(***************************************************************************)
(* What a loader returns is one packet, for every set of bundles and any   *)
(* number of replacements while it reads.                                  *)
(***************************************************************************)
EXTENDS PacketLoad, SequenceTheorems, TLAPS

\* What the loader holds is a record, and while it reads payload files it
\* holds those before its position.
HeldShape ==
    /\ held = [manifest |-> held.manifest, packet |-> held.packet,
               payload |-> held.payload, receipt |-> held.receipt]
    /\ phase = "payload" =>
         held.payload = [x \in {DomainOrder[i] : i \in 1 .. position - 1} |-> held.payload[x]]

\* In each phase, what the earlier checks established.  Nothing is said of the
\* files, which change: all that counts is what was read and compared.
Established ==
    /\ phase = "verify" => held.manifest \in {Manifest(b) : b \in Bundles}
    /\ phase \in {"payload", "receipt", "loaded"} =>
         held.packet.kind = wanted /\ held.packet \in {Packet(b) : b \in Bundles}
    /\ phase = "payload" /\ wanted # "l9.repository-model" => SamePacket(held.manifest, held.packet)
    /\ phase = "payload" /\ wanted = "l9.topology" => \A h \in held.packet.hashes : Sound(held.packet, h)
    /\ phase = "payload" => \A h \in held.packet.hashes :
         \A i \in 1 .. position - 1 : h[DomainOrder[i]] = held.payload[DomainOrder[i]]
    /\ phase \in {"receipt", "loaded"} =>
         SamePacket(held.manifest, held.packet) /\ Sound(held.packet, held.payload)
    /\ phase = "loaded" /\ wanted # "l9.corpus-intelligence" =>
         held.receipt = [status |-> "passed", subject |-> held.packet.declares]

LoadInv == LoadTypeOK /\ HeldShape /\ Established

-----------------------------------------------------------------------------
(* Type correctness.                                                        *)

\* A manifest lists at least packet.json.
LEMMA ListedIsSequence == ASSUME NEW b \in Bundles PROVE Len(Listed(b)) \in Nat \ {0} /\ DOMAIN Listed(b) = 1 .. Len(Listed(b))
<1> DEFINE Names == Domains \cup {"receipt", "packet"}
           Payload == IF b.split THEN DomainOrder ELSE <<>>
           Receipt == IF HasReceipt(b) THEN <<"receipt">> ELSE <<>>
<1>1. Payload \in Seq(Names)
  <2>1. DomainOrder \in Seq(Domains) /\ Domains \subseteq Names
    BY PacketLoadAssumption
  <2>2. DomainOrder \in Seq(Names)
    BY <2>1, SeqMonotonic
  <2>3. <<>> \in Seq(Names)
    BY EmptySeq
  <2> HIDE DEF Names
  <2>4. CASE b.split
    BY <2>2, <2>4
  <2>5. CASE ~ b.split
    BY <2>3, <2>5
  <2> QED
    BY <2>4, <2>5
<1>2. <<"receipt">> \in Seq(Names)
  OBVIOUS
<1>3. Receipt \in Seq(Names)
  <2>1. <<>> \in Seq(Names)
    BY EmptySeq
  <2> HIDE DEF Names
  <2>2. CASE HasReceipt(b)
    BY <1>2, <2>2
  <2>3. CASE ~ HasReceipt(b)
    BY <2>1, <2>3
  <2> QED
    BY <2>2, <2>3
<1>0. <<"packet">> \in Seq(Names) /\ Len(<<"packet">>) = 1
  OBVIOUS
<1> HIDE DEF Payload, Receipt, Names
<1>4. /\ <<"packet">> \o Payload \in Seq(Names)
      /\ Len(<<"packet">> \o Payload) = 1 + Len(Payload)
  <2>1. <<"packet">> \in Seq(Names) /\ Len(<<"packet">>) = 1
    BY <1>0
  <2> DEFINE Head1 == <<"packet">>
  <2> HIDE DEF Head1
  <2>2. Head1 \o Payload \in Seq(Names) /\ Len(Head1 \o Payload) = Len(Head1) + Len(Payload)
    BY <1>1, <2>1, ConcatProperties DEF Head1
  <2> QED
    BY <2>1, <2>2 DEF Head1
<1>5. /\ (<<"packet">> \o Payload) \o Receipt \in Seq(Names)
      /\ Len((<<"packet">> \o Payload) \o Receipt) = 1 + Len(Payload) + Len(Receipt)
  BY <1>1, <1>3, <1>4, ConcatProperties, LenProperties
<1>6. Listed(b) = (<<"packet">> \o Payload) \o Receipt
  BY DEF Listed, Payload, Receipt
<1>7. Len(Payload) \in Nat /\ Len(Receipt) \in Nat
  BY <1>1, <1>3
<1> QED
  BY <1>5, <1>6, <1>7

\* The listing of any manifest that was read.
LEMMA ListingOfManifest ==
    ASSUME held.manifest \in {Manifest(b) : b \in Bundles}
    PROVE  Len(Listing) \in Nat \ {0} /\ DOMAIN Listing = 1 .. Len(Listing)
<1>1. PICK b \in Bundles : held.manifest = Manifest(b)
  OBVIOUS
<1>2. Listing = Listed(b)
  BY <1>1 DEF Listing, Manifest
<1> QED
  BY <1>2, ListedIsSequence

\* What lies in the directory is always a file of some bundle.
LEMMA FilesAreOfBundles ==
    ASSUME LoadTypeOK
    PROVE  /\ files["manifest"] \in {Manifest(b) : b \in Bundles}
           /\ files["packet"] \in {Packet(b) : b \in Bundles}
<1>1. "manifest" \in Members /\ "packet" \in Members
  BY DEF Members
<1>2. PICK b \in Bundles : files["manifest"] = FileOf(b, "manifest")
  BY <1>1 DEF LoadTypeOK
<1>3. PICK c \in Bundles : files["packet"] = FileOf(c, "packet")
  BY <1>1 DEF LoadTypeOK
<1> QED
  BY <1>2, <1>3 DEF FileOf

-----------------------------------------------------------------------------
(* Each step keeps the invariant.                                           *)

Manifests == {Manifest(b) : b \in Bundles}
Packets == {Packet(b) : b \in Bundles}

\* One field of what is held is replaced, and it stays the record it is.
LEMMA ReadManifestKeeps == ASSUME LoadInv, ReadManifest PROVE LoadInv'
<1>1. files["manifest"] \in Manifests
  BY FilesAreOfBundles DEF LoadInv, Manifests
<1>2. /\ held'.manifest = files["manifest"] /\ held'.packet = held.packet
      /\ held' = [manifest |-> held'.manifest, packet |-> held'.packet,
                  payload |-> held'.payload, receipt |-> held'.receipt]
  BY DEF ReadManifest, LoadInv, HeldShape
<1>3. position' = 1 /\ phase' = "verify"
  BY DEF ReadManifest, Goto
<1>4. 1 \in DOMAIN Listing'
  <2>1. PICK b \in Bundles : held'.manifest = Manifest(b)
    BY <1>1, <1>2 DEF Manifests
  <2>2. Listing' = Listed(b)
    BY <2>1 DEF Listing, Manifest
  <2> QED
    BY <2>2, ListedIsSequence
<1>5. LoadTypeOK'
  BY <1>1, <1>2, <1>3, <1>4 DEF LoadInv, LoadTypeOK, ReadManifest, Environment, Manifests
<1>6. HeldShape' /\ Established'
  BY <1>1, <1>2, <1>3 DEF HeldShape, Established, Manifests
<1> QED
  BY <1>5, <1>6 DEF LoadInv

\* A member more, the packet, or the manifest once again; nothing is kept of it.
LEMMA VerifyMemberKeeps == ASSUME LoadInv, VerifyMember PROVE LoadInv'
<1>1. held.manifest \in Manifests /\ position \in DOMAIN Listing /\ phase = "verify"
  BY DEF LoadInv, LoadTypeOK, Established, VerifyMember, Manifests
<1>2. Len(Listing) \in Nat \ {0} /\ DOMAIN Listing = 1 .. Len(Listing)
  BY <1>1, ListingOfManifest DEF Manifests
<1>3. /\ held' = held /\ files' = files /\ replacements' = replacements
      /\ Listing' = Listing
  BY DEF VerifyMember, Environment, Listing
<1>4. /\ wanted' \in Kinds \cup {"any"}
      /\ \/ phase' = "verify" /\ position' \in DOMAIN Listing
         \/ phase' \in {"refused", "packet", "manifest"} /\ position' = 1
  <2>1. held.manifest.kind \in Kinds
    <3>1. PICK b \in Bundles : held.manifest = Manifest(b)
      BY <1>1 DEF Manifests
    <3>2. b.kind \in Kinds
      BY PacketLoadAssumption
    <3> QED
      BY <3>1, <3>2 DEF Manifest
  <2>2. CASE files[Listing[position]] # FileOf(held.manifest.of, Listing[position])
    BY <2>2 DEF VerifyMember, Goto, LoadInv, LoadTypeOK
  <2>3. CASE ~ (files[Listing[position]] # FileOf(held.manifest.of, Listing[position]))
    <3>1. CASE position < Len(Listing)
      <4>1. position' = position + 1 /\ phase' = "verify" /\ wanted' = wanted
        BY <1>1, <2>3, <3>1 DEF VerifyMember, Advance
      <4> QED
        BY <1>1, <1>2, <3>1, <4>1 DEF LoadInv, LoadTypeOK
    <3>2. CASE ~ (position < Len(Listing))
      BY <2>1, <2>3, <3>2 DEF VerifyMember, Goto, LoadInv, LoadTypeOK
    <3> QED
      BY <3>1, <3>2
  <2> QED
    BY <2>2, <2>3
<1>5. LoadTypeOK'
  BY <1>3, <1>4 DEF LoadInv, LoadTypeOK
<1>6. HeldShape' /\ Established'
  BY <1>1, <1>3, <1>4 DEF LoadInv, HeldShape, Established, Manifests
<1> QED
  BY <1>5, <1>6 DEF LoadInv

\* What the packet model says of a packet that was read.
LEMMA PacketFacts ==
    ASSUME NEW packet \in Packets
    PROVE  /\ packet.kind \in Kinds
           /\ packet.kind # "l9.repository-model" => packet.inline = {}
           /\ packet.kind = "l9.repository-model" => packet.hashes = {}
           /\ packet.kind # "l9.repository-model" =>
                \E b \in Bundles : packet.hashes = {b.payload}
<1>1. PICK b \in Bundles : packet = Packet(b)
  BY DEF Packets
<1>2. b.kind \in Kinds /\ (b.kind # "l9.repository-model" => b.split)
  BY PacketLoadAssumption
<1>3. /\ packet.kind = b.kind
      /\ packet.inline = IF b.split THEN {} ELSE {b.payload}
      /\ packet.hashes = IF b.kind = "l9.repository-model" THEN {} ELSE {b.payload}
  BY <1>1 DEF Packet
<1> QED
  BY <1>2, <1>3

\* Where the packet is accepted at once, the loader has compared its whole
\* content; where it is not, nothing of the payload is read yet.
LEMMA ReadPacketKeeps == ASSUME LoadInv, ReadPacket PROVE LoadInv'
<1> DEFINE packet == files["packet"]
           payload == IF packet.inline = {} THEN <<>> ELSE CHOOSE p \in packet.inline : TRUE
<1>1. packet \in Packets
  BY FilesAreOfBundles DEF LoadInv, Packets
<1>2. /\ held'.manifest = held.manifest /\ held'.packet = packet /\ held'.payload = payload
      /\ held' = [manifest |-> held'.manifest, packet |-> held'.packet,
                  payload |-> held'.payload, receipt |-> held'.receipt]
      /\ UNCHANGED <<files, replacements, wanted>>
  BY DEF ReadPacket, LoadInv, HeldShape, Environment
<1>3. /\ phase' \in {"refused", "payload", "receipt"} /\ position' = 1
      /\ phase' # "refused" => packet.kind = wanted
      /\ phase' = "receipt" => SamePacket(held.manifest, packet) /\ Sound(packet, payload)
      /\ phase' = "payload" => packet.inline = {}
      /\ phase' = "payload" /\ packet.kind # "l9.repository-model" => SamePacket(held.manifest, packet)
      /\ phase' = "payload" /\ packet.kind = "l9.topology" => Sound(packet, CHOOSE h \in packet.hashes : TRUE)
  <2>1. CASE packet.kind # wanted
    BY <2>1 DEF ReadPacket, Goto
  <2>2. CASE packet.kind = wanted /\ packet.kind = "l9.repository-model"
    <3>1. CASE packet.inline = {}
      BY <2>2, <3>1 DEF ReadPacket, Goto
    <3>2. CASE packet.inline # {}
      BY <2>2, <3>2 DEF ReadPacket, Goto, RepositoryPacketAccepted
    <3> QED
      BY <3>1, <3>2
  <2>3. CASE packet.kind = wanted /\ packet.kind = "l9.corpus-intelligence"
    BY <1>1, <2>3, PacketFacts DEF ReadPacket, Goto
  <2>4. CASE packet.kind = wanted /\ packet.kind = "l9.topology"
    BY <1>1, <2>4, PacketFacts DEF ReadPacket, Goto
  <2> QED
    BY <1>1, <2>1, <2>2, <2>3, <2>4, PacketFacts DEF Kinds
<1>4. phase' = "payload" /\ packet.kind = "l9.topology" => \A h \in packet.hashes : Sound(packet, h)
  <2> SUFFICES ASSUME phase' = "payload", packet.kind = "l9.topology", NEW h \in packet.hashes
               PROVE  Sound(packet, h)
    OBVIOUS
  <2>1. PICK b \in Bundles : packet.hashes = {b.payload}
    BY <1>1, PacketFacts
  <2>2. (CHOOSE g \in packet.hashes : TRUE) = h
    BY <2>1
  <2> QED
    BY <1>3, <2>2
<1>5. LoadTypeOK'
  <2>1. DOMAIN DomainOrder = 1 .. Len(DomainOrder) /\ Len(DomainOrder) \in Nat \ {0}
    BY PacketLoadAssumption
  <2> HIDE DEF packet, payload
  <2> QED
    BY <1>1, <1>2, <1>3, <2>1 DEF LoadInv, LoadTypeOK, Packets
<1>6. HeldShape'
  <2>1. phase' = "payload" => payload = [x \in {} |-> payload[x]]
    BY <1>3
  <2>2. {DomainOrder[i] : i \in 1 .. 1 - 1} = {}
    OBVIOUS
  <2> HIDE DEF packet, payload
  <2>3. position' = 1
    BY <1>3
  <2> QED
    BY <1>2, <2>1, <2>2, <2>3 DEF HeldShape
<1>7. Established'
  <2> HIDE DEF packet, payload
  <2> QED
    BY <1>1, <1>2, <1>3, <1>4 DEF Established, Packets
<1> QED
  BY <1>5, <1>6, <1>7 DEF LoadInv

\* The payload is compared file by file, and the last file makes it whole.
LEMMA ReadPayloadKeeps == ASSUME LoadInv, ReadPayload PROVE LoadInv'
<1> DEFINE d == DomainOrder[position]
           payload == [x \in Read |-> IF x = d THEN files[d] ELSE held.payload[x]]
<1>0. /\ DOMAIN DomainOrder = 1 .. Len(DomainOrder) /\ Len(DomainOrder) \in Nat \ {0}
      /\ Domains = {DomainOrder[i] : i \in DOMAIN DomainOrder}
  BY PacketLoadAssumption
<1>1. /\ phase = "payload" /\ position \in 1 .. Len(DomainOrder)
      /\ held.packet \in Packets /\ held.packet.kind = wanted
  BY <1>0 DEF ReadPayload, LoadInv, LoadTypeOK, Established, Packets
<1>2. /\ held'.manifest = held.manifest /\ held'.packet = held.packet /\ held'.payload = payload
      /\ held' = [manifest |-> held'.manifest, packet |-> held'.packet,
                  payload |-> held'.payload, receipt |-> held'.receipt]
      /\ UNCHANGED <<files, replacements, wanted>>
  BY DEF ReadPayload, LoadInv, HeldShape, Environment
<1>3. \/ phase' = "refused" /\ position' = 1
      \/ /\ HashStated(held.packet, d, files[d])
         /\ position < Len(DomainOrder) /\ phase' = "payload" /\ position' = position + 1
      \/ /\ HashStated(held.packet, d, files[d])
         /\ position = Len(DomainOrder) /\ phase' \in {"receipt", "loaded"} /\ position' = 1
         /\ phase' = "loaded" <=> wanted = "l9.corpus-intelligence"
         /\ wanted # "l9.topology" => Sound(held.packet, payload)
         /\ wanted = "l9.repository-model" => SamePacket(held.manifest, held.packet)
  <2>1. CASE files[d] = Missing \/ ~ HashStated(held.packet, d, files[d])
    BY <2>1 DEF ReadPayload, Goto
  <2>2. CASE ~ (files[d] = Missing \/ ~ HashStated(held.packet, d, files[d]))
    <3>1. CASE position < Len(DomainOrder)
      BY <1>1, <2>2, <3>1 DEF ReadPayload, Advance
    <3>2. CASE ~ (position < Len(DomainOrder))
      <4>1. position = Len(DomainOrder)
        BY <1>0, <1>1, <3>2
      <4>2. CASE wanted = "l9.repository-model"
        BY <1>1, <2>2, <3>2, <4>1, <4>2 DEF ReadPayload, Goto, RepositoryPacketAccepted
      <4>3. CASE wanted = "l9.corpus-intelligence"
        BY <1>1, <2>2, <3>2, <4>1, <4>3 DEF ReadPayload, Goto
      <4>4. CASE wanted = "l9.topology"
        BY <1>1, <2>2, <3>2, <4>1, <4>4 DEF ReadPayload, Goto
      <4>5. wanted \in Kinds
        BY <1>1, PacketFacts
      <4> QED
        BY <4>2, <4>3, <4>4, <4>5 DEF Kinds
    <3> QED
      BY <3>1, <3>2
  <2> QED
    BY <2>1, <2>2
<1>4. LoadTypeOK'
  <2> HIDE DEF d, payload
  <2> QED
    BY <1>0, <1>1, <1>2, <1>3 DEF LoadInv, LoadTypeOK
<1>5. HeldShape'
  <2>1. phase' = "payload" => position' = position + 1 /\ position' - 1 = position
    BY <1>0, <1>1, <1>3
  <2>2. payload = [x \in Read |-> payload[x]]
    OBVIOUS
  <2> HIDE DEF d, payload
  <2>3. phase' = "payload" =>
          held'.payload = [x \in {DomainOrder[i] : i \in 1 .. position' - 1} |-> held'.payload[x]]
    BY <1>2, <2>1, <2>2 DEF Read
  <2> QED
    BY <1>2, <2>3 DEF HeldShape
<1>6. HashStated(held.packet, d, files[d]) =>
        \A h \in held.packet.hashes : \A i \in 1 .. position : h[DomainOrder[i]] = payload[DomainOrder[i]]
  <2> SUFFICES ASSUME HashStated(held.packet, d, files[d]),
                      NEW h \in held.packet.hashes, NEW i \in 1 .. position
               PROVE  h[DomainOrder[i]] = payload[DomainOrder[i]]
    OBVIOUS
  <2>1. DomainOrder[i] \in Read
    BY DEF Read
  <2>2. CASE DomainOrder[i] = d
    BY <2>1, <2>2 DEF HashStated
  <2>3. CASE DomainOrder[i] # d
    <3>1. i \in 1 .. position - 1
      BY <1>0, <1>1, <2>3
    <3>2. h[DomainOrder[i]] = held.payload[DomainOrder[i]]
      BY <1>1, <3>1 DEF LoadInv, Established
    <3> QED
      BY <2>1, <2>3, <3>2
  <2> QED
    BY <2>2, <2>3
<1>7. phase' \in {"receipt", "loaded"} =>
        SamePacket(held.manifest, held.packet) /\ Sound(held.packet, payload)
  <2> SUFFICES ASSUME phase' \in {"receipt", "loaded"}
               PROVE  SamePacket(held.manifest, held.packet) /\ Sound(held.packet, payload)
    OBVIOUS
  <2>1. position = Len(DomainOrder) /\ HashStated(held.packet, d, files[d])
    BY <1>3
  <2>2. CASE wanted # "l9.topology"
    BY <1>1, <1>3, <2>2 DEF LoadInv, Established
  <2>3. CASE wanted = "l9.topology"
    <3>1. PICK b \in Bundles : held.packet.hashes = {b.payload}
      BY <1>1, <2>3, PacketFacts
    <3>2. Read = Domains
      BY <1>0, <2>1 DEF Read
    <3>3. b.payload = [x \in Domains |-> b.payload[x]]
      BY PacketLoadAssumption
    <3>4. \A x \in Domains : payload[x] = b.payload[x]
      <4> HIDE DEF d, payload
      <4> QED
        BY <1>0, <1>6, <2>1, <3>1
    <3>5. payload = [x \in Domains |-> payload[x]]
      BY <3>2
    <3>6. payload = b.payload
      <4> HIDE DEF d, payload
      <4> QED
        BY <3>3, <3>4, <3>5
    <3>7. Sound(held.packet, b.payload) /\ SamePacket(held.manifest, held.packet)
      BY <1>1, <2>3, <3>1 DEF LoadInv, Established
    <3> QED
      BY <3>6, <3>7
  <2> QED
    BY <2>2, <2>3
<1>8. Established'
  <2> HIDE DEF d, payload
  <2>1. phase' = "payload" => \A h \in held.packet.hashes :
          \A i \in 1 .. position' - 1 : h[DomainOrder[i]] = payload[DomainOrder[i]]
    BY <1>1, <1>3, <1>6
  <2> QED
    BY <1>1, <1>2, <1>3, <1>7, <2>1 DEF LoadInv, Established, Packets
<1> QED
  BY <1>4, <1>5, <1>8 DEF LoadInv

\* A receipt is about the packet that was read, or the load is refused.
LEMMA ReadReceiptKeeps == ASSUME LoadInv, ReadReceipt PROVE LoadInv'
<1> DEFINE receipt == files["receipt"]
<1>1. /\ held'.manifest = held.manifest /\ held'.packet = held.packet /\ held'.payload = held.payload
      /\ held'.receipt = receipt
      /\ held' = [manifest |-> held'.manifest, packet |-> held'.packet,
                  payload |-> held'.payload, receipt |-> held'.receipt]
      /\ UNCHANGED <<files, replacements, wanted>> /\ phase = "receipt"
  BY DEF ReadReceipt, LoadInv, HeldShape, Environment
<1>2. /\ phase' \in {"refused", "loaded"} /\ position' = 1
      /\ phase' = "loaded" =>
           receipt # Missing /\ receipt.status = "passed" /\ receipt.subject = held.packet.declares
  BY DEF ReadReceipt, Goto
<1>3. phase' = "loaded" => receipt = [status |-> "passed", subject |-> held.packet.declares]
  <2>1. "receipt" \in Members
    BY DEF Members
  <2>2. PICK b \in Bundles : receipt = FileOf(b, "receipt")
    BY <2>1 DEF LoadInv, LoadTypeOK
  <2>3. receipt = IF HasReceipt(b) THEN [status |-> b.receipt, subject |-> b.declares] ELSE Missing
    BY <2>2 DEF FileOf
  <2> QED
    BY <1>2, <2>3
<1>4. LoadTypeOK'
  BY <1>1, <1>2 DEF LoadInv, LoadTypeOK
<1>5. HeldShape' /\ Established'
  BY <1>1, <1>2, <1>3 DEF LoadInv, HeldShape, Established
<1> QED
  BY <1>4, <1>5 DEF LoadInv

\* The directory is not what the loader relies on.
LEMMA ReplacementKeeps ==
    ASSUME LoadInv,
           NEW b \in Bundles,
           (\E m \in Members : ReplaceFile(m, b)) \/ ReplaceDirectory(b)
    PROVE  LoadInv'
<1>1. /\ UNCHANGED <<wanted, phase, position, held>>
      /\ replacements' \in 0 .. MaxReplacements
  BY PacketLoadAssumption DEF ReplaceFile, ReplaceDirectory, LoadInv, LoadTypeOK
<1>2. \A m \in Members : \E c \in Bundles : files'[m] = FileOf(c, m)
  <2>1. CASE ReplaceDirectory(b)
    BY <2>1 DEF ReplaceDirectory, Directory
  <2>2. ASSUME NEW n \in Members, ReplaceFile(n, b)
        PROVE  \A m \in Members : \E c \in Bundles : files'[m] = FileOf(c, m)
    BY <2>2 DEF ReplaceFile, LoadInv, LoadTypeOK
  <2> QED
    BY <2>1, <2>2
<1>3. Listing' = Listing
  BY <1>1 DEF Listing
<1>4. LoadTypeOK'
  BY <1>1, <1>2, <1>3 DEF LoadInv, LoadTypeOK
<1>5. HeldShape' /\ Established'
  BY <1>1 DEF LoadInv, HeldShape, Established
<1> QED
  BY <1>4, <1>5 DEF LoadInv

-----------------------------------------------------------------------------
(* The theorems.                                                            *)

LEMMA LoadInvariant == Spec => []LoadInv
<1>1. Init => LoadInv
  <2> SUFFICES ASSUME Init PROVE LoadInv
    OBVIOUS
  <2>1. \A m \in Members : \E b \in Bundles : files[m] = FileOf(b, m)
    BY DEF Init, Directory
  <2>2. LoadTypeOK
    BY <2>1, PacketLoadAssumption DEF Init, NothingHeld, LoadTypeOK
  <2>3. HeldShape /\ Established
    BY DEF Init, NothingHeld, HeldShape, Established
  <2> QED
    BY <2>2, <2>3 DEF LoadInv
<1>2. LoadInv /\ [Next]_vars => LoadInv'
  <2> SUFFICES ASSUME LoadInv, [Next]_vars PROVE LoadInv'
    OBVIOUS
  <2>1. CASE UNCHANGED vars
    BY <2>1 DEF vars, LoadInv, LoadTypeOK, HeldShape, Established, Listing
  <2>2. CASE Load
    BY <2>2, ReadManifestKeeps, VerifyMemberKeeps, ReadPacketKeeps, ReadPayloadKeeps,
       ReadReceiptKeeps DEF Load
  <2>3. ASSUME NEW b \in Bundles, (\E m \in Members : ReplaceFile(m, b)) \/ ReplaceDirectory(b)
        PROVE  LoadInv'
    BY <2>3, ReplacementKeeps
  <2> QED
    BY <2>1, <2>2, <2>3 DEF Next
<1> QED
  BY <1>1, <1>2, PTL DEF Spec

\* Every variable keeps its type.
THEOREM LoadTypeCorrect == Spec => []LoadTypeOK
<1>1. LoadInv => LoadTypeOK
  BY DEF LoadInv
<1> QED
  BY <1>1, LoadInvariant, PTL

\* Whatever is replaced while it reads, a loader of packets/loader.py or
\* packets/corpus_bundle.py returns the content its manifest identifies.
THEOREM LoadedBundleIsOneVersion == Spec => []LoadedIsOneVersion
<1>1. LoadInv => LoadedIsOneVersion
  BY DEF LoadInv, Established, LoadedIsOneVersion, Sound, SamePacket
<1> QED
  BY <1>1, LoadInvariant, PTL

=============================================================================
