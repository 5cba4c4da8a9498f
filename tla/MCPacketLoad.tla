---------------------------- MODULE MCPacketLoad ----------------------------
(***************************************************************************)
(* Two payload domains and bundles of all three kinds: two versions of a   *)
(* repository packet, the second in one file or split, one whose hash is   *)
(* that of another payload, one that failed; two corpus versions that      *)
(* share a payload file, and two topologies.                               *)
(***************************************************************************)
EXTENDS PacketLoad

MCDomainOrder == <<"records", "statements">>

MCPayload(records, statements) ==
    [d \in {"records", "statements"} |-> IF d = "records" THEN records ELSE statements]

MCContent(kind, header, payload) == [kind |-> kind, header |-> header, payload |-> payload]

MCBundle(content, declares, split, status) ==
    [kind |-> content.kind, split |-> split, header |-> content.header, payload |-> content.payload,
     declares |-> declares, status |-> status, receipt |-> status]

MCSound(content, split) == MCBundle(content, content, split, "passed")

Repo(header, records, statements) == MCContent("l9.repository-model", header, MCPayload(records, statements))
Corpus(header, records, statements) == MCContent("l9.corpus-intelligence", header, MCPayload(records, statements))
Topo(header, records, statements) == MCContent("l9.topology", header, MCPayload(records, statements))

MCBundles ==
    {MCSound(Repo(1, "r1", "s1"), TRUE),
     MCSound(Repo(1, "r1", "s2"), TRUE),
     MCSound(Repo(2, "r1", "s2"), FALSE),
     MCBundle(Repo(1, "r2", "s2"), Repo(1, "r1", "s1"), TRUE, "passed"),
     MCBundle(Repo(3, "r1", "s1"), Repo(3, "r1", "s1"), FALSE, "failed"),
     MCSound(Corpus(1, "r1", "s1"), TRUE),
     MCSound(Corpus(1, "r2", "s1"), TRUE),
     MCSound(Topo(1, "r1", "s1"), TRUE),
     MCSound(Topo(1, "r2", "s1"), TRUE)}

=============================================================================
