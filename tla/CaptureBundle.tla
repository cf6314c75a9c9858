---------------------------- MODULE CaptureBundle ----------------------------
(***************************************************************************)
(* The capture bundle: a captured fixture on disk (src/capture.rs,         *)
(* src/fixture.rs).                                                        *)
(*                                                                         *)
(* A fixture is written, the file is perhaps damaged, or written by        *)
(* another program or an older release, and is loaded again.  A digest is  *)
(* what goes into it: the hash is taken to be injective.                   *)
(***************************************************************************)
EXTENDS Integers, FiniteSets, Sequences

CONSTANTS
    Key,         \* ledger keys, numbered in the order of their encodings
    Archival,    \* the state archival setting
    Kind,        \* Kind[k]: "code", "persistent", "temporary", "account" or "other"
    NoTtl,       \* an entry that does not expire
    RootKey,     \* RootKey[r]: the instance key of r, for the texts r that name a contract
    Supported,   \* SUPPORTED_PROTOCOL_VERSION
    MaxRounds,   \* MAX_DISCOVERY_ROUNDS
    MaxWord,     \* the largest 32-bit number
    NoHash,      \* the empty ledger hash
    Nobody,      \* no fixture, no file
    Captured,    \* fixtures a capture may seal
    MaxDamage,
    Damaged(_)   \* what damage may make of a bundle

ASSUME KeyAssumption ==
    /\ Key \subseteq Nat /\ Archival \in Key
    /\ Kind \in [Key -> {"code", "persistent", "temporary", "account", "other"}]
    /\ DOMAIN RootKey # {} /\ \A root \in DOMAIN RootKey : RootKey[root] \in Key

VARIABLES
    held,        \* the fixture in memory, or Nobody
    trusted,     \* the policy it was captured or loaded under
    file,        \* the parsed bundle, or Nobody
    sealed,      \* the fixture the file was written from, or Nobody
    damage       \* how often files were damaged

vars == <<held, trusted, file, sealed, damage>>

\* What cannot be decoded: the text of an absent key, the text of a digest.
NoKey == -1
NoDigest == <<>>

Policy == {"Exact", "AllowNewer"}

\* ProtocolPolicy::check
Accepts(policy, protocol) ==
    \/ protocol = Supported
    \/ policy = "AllowNewer" /\ protocol = Supported + 1

Items(list) == {list[i] : i \in DOMAIN list}

Ascending(ks) ==
    CHOOSE list \in [1..Cardinality(ks) -> ks] :
        \A i, j \in 1..Cardinality(ks) : i < j => list[i] < list[j]

-----------------------------------------------------------------------------
(* Entries, snapshots and coverage *)

\* An entry lists its key, its contents and its live-until ledger.  Contents
\* tell the key they belong to, what a code hashes to, what an instance runs.

KeysMatch(ledger) == \A e \in Items(ledger.entries) : e.key = e.entry.key

NoDuplicates(ledger) ==
    \A i, j \in DOMAIN ledger.entries : i # j => ledger.entries[i].key # ledger.entries[j].key

\* canonical_ledger_digest: the entries are sorted by key first.
LedgerDigest(ledger) == <<"LEDGER-SNAPSHOT", ledger.info, Items(ledger.entries)>>

InventoryDigest(coverage) == <<"INVENTORY", coverage>>

\* FrozenFixture::from_snapshot_with_policy
Freezes(ledger, network, policy) ==
    /\ Accepts(policy, ledger.info.protocol)
    /\ ledger.info.network = network
    /\ KeysMatch(ledger) /\ NoDuplicates(ledger)

Lives(ttl, info) == info.sequence <= ttl /\ ttl <= info.sequence + info.maxTtl - 1

\* validate_entry_metadata
Metadata(e, info) ==
    /\ e.entry.modified <= info.sequence
    /\ info.maxTtl > 0
    /\ info.sequence + info.maxTtl - 1 <= MaxWord
    /\ CASE Kind[e.key] \in {"code", "persistent"} ->
              e.live # NoTtl /\ (e.live = 0 \/ Lives(e.live, info))
         [] Kind[e.key] = "temporary" -> e.live # NoTtl /\ Lives(e.live, info)
         [] Kind[e.key] = "account" -> e.live = NoTtl
         [] OTHER -> FALSE

\* validate_coverage
ValidCoverage(coverage, info) ==
    \A k \in DOMAIN coverage.present :
        LET e == coverage.present[k] IN
        /\ e.key = k
        /\ Kind[k] = "code" => e.entry.code = k
        /\ Metadata(e, info)

\* ensure_executable_closure_present: an instance's code, or the code its tag
\* leads to, is present.
ClosurePresent(coverage) ==
    \A k \in DOMAIN coverage.present :
        LET e == coverage.present[k].entry IN
        /\ e.v = "wasm" => e.code \in DOMAIN coverage.present
        /\ e.v = "ref" =>
             /\ e.tag \in DOMAIN coverage.present
             /\ coverage.present[e.tag].entry.v = "bytes"
             /\ coverage.present[e.tag].entry.code \in DOMAIN coverage.present

-----------------------------------------------------------------------------
(* Writing *)

\* Mutant: the absent keys are listed the wrong way round.
Descending(coverage) ==
    LET list == Ascending(coverage.absent)
    IN  [i \in DOMAIN list |-> [bytes |-> list[Len(list) + 1 - i], tidy |-> TRUE]]

\* known_absent_keys, in the order of the map
AbsentList(coverage) ==
    LET list == Ascending(coverage.absent)
    IN  [i \in DOMAIN list |-> [bytes |-> list[i], tidy |-> TRUE]]

Body(b) ==
    <<[i \in DOMAIN b.absent |-> b.absent[i].bytes],
      b.report, b.provenance, b.ledgerDigest, b.inventoryDigest>>

\* Mutant: the digest leaves the report out.
ReportForgotten(b) ==
    LET body == [Body(b) EXCEPT ![2] = 0]
    IN  IF b.schema = 1 THEN <<"BUNDLE-V1", b.root, body>> ELSE <<"BUNDLE-V2", body>>

\* canonical_bundle_digest, legacy_canonical_bundle_digest
CanonicalDigest(b) ==
    IF b.schema = 1 THEN <<"BUNDLE-V1", b.root, Body(b)>> ELSE <<"BUNDLE-V2", Body(b)>>

Signed(b) == [b EXCEPT !.canonicalDigest = CanonicalDigest(b)]

\* to_bundle
ToBundle(f) ==
    Signed([schema |-> 2,
            ledger |-> f.ledger,
            absent |-> AbsentList(f.coverage),
            report |-> f.report,
            provenance |-> f.provenance,
            ledgerDigest |-> LedgerDigest(f.ledger),
            inventoryDigest |-> InventoryDigest(f.coverage),
            canonicalDigest |-> NoDigest])

\* What releases with the first schema wrote.
ToLegacyBundle(f, root) ==
    LET b == ToBundle(f)
    IN  Signed([k \in DOMAIN b \cup {"root"} |->
                  IF k = "root" THEN root ELSE IF k = "schema" THEN 1 ELSE b[k]])

-----------------------------------------------------------------------------
(* Loading *)

\* known_absent is a list of texts: each decodes to a key, tidily or not, or
\* does not decode.
HasAbsentList(b) ==
    "absent" \in DOMAIN b /\ b.absent \in Seq([bytes : Key \cup {NoKey}, tidy : BOOLEAN])

\* Each schema has its fields and no others.
Parses(b) == b.schema \in {1, 2} /\ (b.schema = 1 <=> "root" \in DOMAIN b)

\* redact_rpc_origin: a URL is a host, and the rest of it; some have no host.
Redacted(url) == [url EXCEPT !.rest = ""]

Redactable(url) == url.host # ""

\* validate_bundle_metadata
ValidMetadata(b, network) ==
    /\ b.provenance.network = network
    /\ Redactable(b.provenance.origin)
    /\ Redacted(b.provenance.origin) = b.provenance.origin
    /\ b.provenance.sequence = b.ledger.info.sequence
    /\ b.provenance.protocol = b.ledger.info.protocol
    /\ b.provenance.hash # NoHash
    /\ b.report.rounds \in 1..MaxRounds
    /\ b.report.reads = 0

\* validate_bundle_envelope, validate_legacy_bundle_envelope
ValidEnvelope(b, network) ==
    /\ ValidMetadata(b, network)
    /\ NoDigest \notin {b.ledgerDigest, b.inventoryDigest, b.canonicalDigest}
    /\ \A i \in DOMAIN b.absent : b.absent[i].bytes # NoKey
    /\ b.canonicalDigest = CanonicalDigest(b)

\* bundle_coverage, as far as it refuses
ValidInventory(b) ==
    LET present == {e.entry.key : e \in Items(b.ledger.entries)} IN
    /\ Archival \notin present
    /\ NoDuplicates(b.ledger)
    /\ \A i \in DOMAIN b.absent :
         /\ b.absent[i].tidy
         /\ b.absent[i].bytes \notin present \cup {Archival}
         /\ i > 1 => b.absent[i - 1].bytes < b.absent[i].bytes

\* bundle_coverage
BundleCoverage(b) ==
    [present |-> [k \in {e.key : e \in Items(b.ledger.entries)} |->
                    CHOOSE e \in Items(b.ledger.entries) : e.key = k],
     absent  |-> {a.bytes : a \in Items(b.absent)}]

\* Mutant: a bundle with the right counts and digest is not looked into.
CountsOnly(b) ==
    LET coverage == BundleCoverage(b) IN
    /\ b.inventoryDigest = InventoryDigest(coverage)
    /\ b.report.present = Cardinality(DOMAIN coverage.present)
    /\ b.report.absent = Cardinality(coverage.absent)

\* validate_bundle_coverage
ValidBundleCoverage(b) ==
    LET coverage == BundleCoverage(b) IN
    /\ ValidCoverage(coverage, b.ledger.info)
    /\ ClosurePresent(coverage)
    /\ b.inventoryDigest = InventoryDigest(coverage)
    /\ b.report.present = Cardinality(DOMAIN coverage.present)
    /\ b.report.absent = Cardinality(coverage.absent)

IsInstance(coverage, k) ==
    k \in DOMAIN coverage.present /\ coverage.present[k].entry.v \in {"sac", "wasm", "ref"}

\* ensure_legacy_root_present
RootPresent(b) ==
    /\ b.root \in DOMAIN RootKey
    /\ IsInstance(BundleCoverage(b), RootKey[b.root])

\* from_bundle_bytes succeeds
Loads(b, network, policy) ==
    /\ Parses(b)
    /\ ValidEnvelope(b, network)
    /\ Freezes(b.ledger, network, policy)
    /\ b.ledgerDigest = LedgerDigest(b.ledger)
    /\ ValidInventory(b)
    /\ b.schema = 1 => RootPresent(b)
    /\ ValidBundleCoverage(b)

\* from_bundle, from_legacy_bundle
FromBundle(b) ==
    [ledger |-> b.ledger, coverage |-> BundleCoverage(b),
     report |-> b.report, provenance |-> b.provenance]

-----------------------------------------------------------------------------
(* The life of a bundle *)

Init ==
    /\ held \in Captured
    /\ trusted \in {policy \in Policy : Accepts(policy, held.ledger.info.protocol)}
    /\ file = Nobody /\ sealed = Nobody /\ damage = 0

\* write_file
WriteFile ==
    /\ held # Nobody
    /\ file' = ToBundle(held)
    /\ sealed' = held
    /\ UNCHANGED <<held, trusted, damage>>

\* An older release wrote the file.
WriteLegacy ==
    /\ held # Nobody
    /\ \E root \in DOMAIN RootKey :
         /\ IsInstance(held.coverage, RootKey[root])
         /\ file' = ToLegacyBundle(held, root)
    /\ sealed' = held
    /\ UNCHANGED <<held, trusted, damage>>

\* Contents change under the digests.
Damage ==
    /\ file # Nobody
    /\ damage < MaxDamage
    /\ file' \in Damaged(file) /\ HasAbsentList(file')
    /\ file'.canonicalDigest \in {file.canonicalDigest, NoDigest}
    /\ damage' = damage + 1
    /\ UNCHANGED <<held, trusted, sealed>>

\* Another program writes contents of its own, with digests that fit them.
Rewrite ==
    /\ file # Nobody /\ Parses(file)
    /\ \A i \in DOMAIN file.absent : file.absent[i].bytes # NoKey
    /\ file' = Signed([file EXCEPT !.ledgerDigest = LedgerDigest(file.ledger),
                                   !.inventoryDigest = InventoryDigest(BundleCoverage(file))])
    /\ sealed' = Nobody
    /\ UNCHANGED <<held, trusted, damage>>

\* from_file, from_file_allowing_newer_protocol: a later process holds what it
\* loads, or nothing.
Load(network, policy) ==
    /\ file # Nobody
    /\ held' = IF Loads(file, network, policy) THEN FromBundle(file) ELSE Nobody
    /\ trusted' = policy
    /\ UNCHANGED <<file, sealed, damage>>

Networks == {f.provenance.network : f \in Captured}

Next ==
    \/ WriteFile \/ WriteLegacy \/ Damage \/ Rewrite
    \/ \E network \in Networks, policy \in Policy : Load(network, policy)

Spec == Init /\ [][Next]_vars

-----------------------------------------------------------------------------
(* Properties *)

\* What capture_ref_from_keys seals under a policy.
IsCapture(f, policy) ==
    /\ Freezes(f.ledger, f.provenance.network, policy)
    /\ DOMAIN f.coverage.present = {e.key : e \in Items(f.ledger.entries)}
    /\ \A e \in Items(f.ledger.entries) : f.coverage.present[e.key] = e
    /\ DOMAIN f.coverage.present \cap f.coverage.absent = {}
    /\ Archival \notin DOMAIN f.coverage.present \cup f.coverage.absent
    /\ ValidCoverage(f.coverage, f.ledger.info)
    /\ ClosurePresent(f.coverage)
    /\ f.report.present = Cardinality(DOMAIN f.coverage.present)
    /\ f.report.absent = Cardinality(f.coverage.absent)
    /\ f.report.rounds \in 1..MaxRounds /\ f.report.reads = 0
    /\ f.provenance.sequence = f.ledger.info.sequence
    /\ f.provenance.protocol = f.ledger.info.protocol
    /\ f.provenance.hash # NoHash
    /\ Redactable(f.provenance.origin)
    /\ Redacted(f.provenance.origin) = f.provenance.origin

\* CapturedFixture: the coverage is a map, finitely many keys of it absent.
IsFixture(f) ==
    /\ f = [ledger |-> f.ledger, coverage |-> f.coverage,
            report |-> f.report, provenance |-> f.provenance]
    /\ f.coverage = [present |-> f.coverage.present, absent |-> f.coverage.absent]
    /\ f.coverage.present = [k \in DOMAIN f.coverage.present |-> f.coverage.present[k]]
    /\ f.coverage.absent \subseteq Key /\ IsFiniteSet(f.coverage.absent)

ASSUME CapturedAssumption ==
    \A f \in Captured : f # Nobody /\ IsFixture(f) /\ IsCapture(f, "AllowNewer")

\* Whatever is held could have been captured, under the same policy, whoever
\* wrote the file (from_bundle, from_legacy_bundle and what they call).
HeldIsCapture == held # Nobody => IsCapture(held, trusted)

\* Whatever is held, an older schema's fixture included, can be written, and
\* loads again as it is, where its protocol is accepted (write_file, from_file).
Reloads ==
    held # Nobody =>
        \A policy \in Policy :
            Accepts(policy, held.ledger.info.protocol) =>
                LET b == ToBundle(held)
                IN  /\ Loads(b, held.provenance.network, policy)
                    /\ FromBundle(b) = held

\* The order of the snapshot's entries is nobody's concern.
Content(f) ==
    [ledger |-> LedgerDigest(f.ledger), coverage |-> f.coverage,
     report |-> f.report, provenance |-> f.provenance]

\* A damaged file loads as the fixture it was written from, or not at all
\* (validate_bundle_envelope, from_bundle).
DamageRefused ==
    sealed # Nobody =>
        \A network \in Networks, policy \in Policy :
            Loads(file, network, policy) => Content(FromBundle(file)) = Content(sealed)
=============================================================================
