------------------------- MODULE CaptureBundleProofs -------------------------
(***************************************************************************)
(* Proofs about CaptureBundle: what loads could have been captured, what   *)
(* is held can be written and loads again as it is, and damage never       *)
(* changes what a file loads as.                                           *)
(***************************************************************************)
EXTENDS CaptureBundle, FiniteSetTheorems, SequenceTheorems, TLAPS

\* The canonical digest of the file is one made for the sealed fixture, or
\* cannot be read.
ListedAbsent(f) == [i \in DOMAIN AbsentList(f.coverage) |-> AbsentList(f.coverage)[i].bytes]

SealedBody(f) ==
    <<ListedAbsent(f), f.report, f.provenance, LedgerDigest(f.ledger), InventoryDigest(f.coverage)>>

SealedDigests(f) ==
    {NoDigest, <<"BUNDLE-V2", SealedBody(f)>>}
      \cup {<<"BUNDLE-V1", root, SealedBody(f)>> : root \in DOMAIN RootKey}

DigestKept == sealed # Nobody => file.canonicalDigest \in SealedDigests(sealed)

\* A loaded bundle's coverage is its snapshot and its absent keys.
LEMMA BundleCoverageFacts ==
    ASSUME NEW b, NoDuplicates(b.ledger)
    PROVE  LET c == BundleCoverage(b) IN
           /\ DOMAIN c.present = {e.key : e \in Items(b.ledger.entries)}
           /\ \A e \in Items(b.ledger.entries) : c.present[e.key] = e
           /\ c.absent = {a.bytes : a \in Items(b.absent)}
<1> DEFINE entries == Items(b.ledger.entries)
<1>1. \A d, e \in entries : d.key = e.key => d = e
  BY DEF NoDuplicates, Items
<1> HIDE DEF entries
<1>2. \A e \in entries : (CHOOSE d \in entries : d.key = e.key) = e
  BY <1>1
<1> QED BY <1>2 DEF BundleCoverage, entries

\* Whatever loads could have been captured under the policy it loads under.
LEMMA LoadedIsCapture ==
    ASSUME NEW b, NEW network, NEW policy, Loads(b, network, policy)
    PROVE  IsCapture(FromBundle(b), policy)
<1> DEFINE c == BundleCoverage(b)
           f == FromBundle(b)
<1>1. /\ f.ledger = b.ledger /\ f.coverage = c
      /\ f.report = b.report /\ f.provenance = b.provenance
  BY DEF FromBundle
<1>2. /\ ValidMetadata(b, network) /\ Freezes(b.ledger, network, policy)
      /\ ValidInventory(b) /\ ValidBundleCoverage(b)
  BY DEF Loads, ValidEnvelope
<1>3. NoDuplicates(b.ledger) /\ KeysMatch(b.ledger)
  BY <1>2 DEF Freezes
<1>4. /\ DOMAIN c.present = {e.key : e \in Items(b.ledger.entries)}
      /\ \A e \in Items(b.ledger.entries) : c.present[e.key] = e
      /\ c.absent = {a.bytes : a \in Items(b.absent)}
  BY <1>3, BundleCoverageFacts
<1>5. /\ ValidCoverage(c, b.ledger.info) /\ ClosurePresent(c)
      /\ b.report.present = Cardinality(DOMAIN c.present)
      /\ b.report.absent = Cardinality(c.absent)
  BY <1>2 DEF ValidBundleCoverage
<1> HIDE DEF c, f
<1>6. DOMAIN c.present = {e.entry.key : e \in Items(b.ledger.entries)}
  BY <1>3, <1>4 DEF KeysMatch
<1>7. DOMAIN c.present \cap c.absent = {} /\ Archival \notin DOMAIN c.present \cup c.absent
  BY <1>2, <1>4, <1>6 DEF ValidInventory, Items
<1>8. /\ b.provenance.network = network
      /\ b.report.rounds \in 1..MaxRounds /\ b.report.reads = 0
      /\ b.provenance.sequence = b.ledger.info.sequence
      /\ b.provenance.protocol = b.ledger.info.protocol
      /\ b.provenance.hash # NoHash
      /\ Redactable(b.provenance.origin)
      /\ Redacted(b.provenance.origin) = b.provenance.origin
  BY <1>2 DEF ValidMetadata
<1>9. Freezes(f.ledger, f.provenance.network, policy)
  BY <1>1, <1>2, <1>8
<1> QED BY <1>1, <1>4, <1>5, <1>7, <1>8, <1>9 DEF IsCapture, f

LEMMA InitCapture == Init => HeldIsCapture
<1> SUFFICES ASSUME Init PROVE IsCapture(held, trusted)
  BY DEF HeldIsCapture
<1>1. IsCapture(held, "AllowNewer") /\ Accepts(trusted, held.ledger.info.protocol)
  BY CapturedAssumption DEF Init
<1> QED BY <1>1 DEF IsCapture, Freezes

LEMMA NextCapture == HeldIsCapture /\ [Next]_vars => HeldIsCapture'
<1> SUFFICES ASSUME HeldIsCapture, [Next]_vars PROVE HeldIsCapture'
  OBVIOUS
<1>1. CASE UNCHANGED <<held, trusted>>
  BY <1>1 DEF HeldIsCapture
<1>2. ASSUME NEW network \in Networks, NEW policy \in Policy, Load(network, policy)
      PROVE  HeldIsCapture'
  <2>1. CASE Loads(file, network, policy)
    <3>1. held' = FromBundle(file) /\ trusted' = policy
      BY <1>2, <2>1 DEF Load
    <3>2. IsCapture(FromBundle(file), policy)
      BY <2>1, LoadedIsCapture
    <3> QED BY <3>1, <3>2 DEF HeldIsCapture
  <2>2. CASE ~Loads(file, network, policy)
    BY <1>2, <2>2 DEF Load, HeldIsCapture
  <2> QED BY <2>1, <2>2
<1> QED BY <1>1, <1>2 DEF Next, vars, WriteFile, WriteLegacy, Damage, Rewrite

\* Whatever is held could have been captured under the policy in force, whoever
\* wrote the file it was loaded from (from_bundle, from_legacy_bundle).
THEOREM HeldCaptured == Spec => []HeldIsCapture
<1> QED BY InitCapture, NextCapture, PTL DEF Spec

-----------------------------------------------------------------------------
(* Damage *)

LEMMA WrittenDigest ==
    ASSUME NEW f
    PROVE  ToBundle(f).canonicalDigest = <<"BUNDLE-V2", SealedBody(f)>>
<1> DEFINE b == [schema |-> 2,
                 ledger |-> f.ledger,
                 absent |-> AbsentList(f.coverage),
                 report |-> f.report,
                 provenance |-> f.provenance,
                 ledgerDigest |-> LedgerDigest(f.ledger),
                 inventoryDigest |-> InventoryDigest(f.coverage),
                 canonicalDigest |-> NoDigest]
<1>1. ToBundle(f) = Signed(b)
  BY DEF ToBundle
<1>2. Signed(b).canonicalDigest = CanonicalDigest(b)
  BY DEF Signed
<1>3. b.schema = 2 /\ Body(b) = SealedBody(f)
  BY DEF Body, SealedBody, ListedAbsent
<1> QED BY <1>1, <1>2, <1>3 DEF CanonicalDigest

LEMMA LegacyDigest ==
    ASSUME NEW f, NEW root
    PROVE  ToLegacyBundle(f, root).canonicalDigest = <<"BUNDLE-V1", root, SealedBody(f)>>
<1> DEFINE b == ToBundle(f)
           l == [k \in DOMAIN b \cup {"root"} |->
                   IF k = "root" THEN root ELSE IF k = "schema" THEN 1 ELSE b[k]]
<1>1. /\ DOMAIN b = {"schema", "ledger", "absent", "report", "provenance",
                     "ledgerDigest", "inventoryDigest", "canonicalDigest"}
      /\ b.absent = AbsentList(f.coverage) /\ b.report = f.report
      /\ b.provenance = f.provenance /\ b.ledgerDigest = LedgerDigest(f.ledger)
      /\ b.inventoryDigest = InventoryDigest(f.coverage)
  BY DEF ToBundle, Signed
<1> HIDE DEF b
<1>2. /\ l.schema = 1 /\ l.root = root
      /\ l.absent = b.absent /\ l.report = b.report /\ l.provenance = b.provenance
      /\ l.ledgerDigest = b.ledgerDigest /\ l.inventoryDigest = b.inventoryDigest
  BY <1>1
<1>3. ToLegacyBundle(f, root) = Signed(l)
  BY DEF ToLegacyBundle, b
<1>4. "canonicalDigest" \in DOMAIN l
  BY <1>1
<1> HIDE DEF l
<1>5. Signed(l).canonicalDigest = CanonicalDigest(l)
  BY <1>4 DEF Signed
<1>6. Body(l) = SealedBody(f)
  BY <1>1, <1>2 DEF Body, SealedBody, ListedAbsent
<1> QED BY <1>2, <1>3, <1>5, <1>6 DEF CanonicalDigest

LEMMA DomainsApart ==
    ASSUME NEW x, NEW y, NEW root, NEW other
    PROVE  /\ <<"BUNDLE-V1", root, x>> # <<"BUNDLE-V2", y>>
           /\ <<"BUNDLE-V2", x>> = <<"BUNDLE-V2", y>> => x = y
           /\ <<"BUNDLE-V1", root, x>> = <<"BUNDLE-V1", other, y>> => x = y
<1>1. /\ <<"BUNDLE-V1", root, x>>[1] = "BUNDLE-V1" /\ <<"BUNDLE-V2", y>>[1] = "BUNDLE-V2"
      /\ <<"BUNDLE-V1", root, x>>[3] = x /\ <<"BUNDLE-V1", other, y>>[3] = y
      /\ <<"BUNDLE-V2", x>>[2] = x /\ <<"BUNDLE-V2", y>>[2] = y
  OBVIOUS
<1>2. "BUNDLE-V1" # "BUNDLE-V2"
  OBVIOUS
<1> QED BY <1>1, <1>2, Zenon

LEMMA InitDigest == Init => DigestKept
BY DEF Init, DigestKept

LEMMA NextDigest == DigestKept /\ [Next]_vars => DigestKept'
<1> SUFFICES ASSUME DigestKept, [Next]_vars PROVE DigestKept'
  OBVIOUS
<1>1. CASE WriteFile
  BY <1>1, WrittenDigest DEF WriteFile, DigestKept, SealedDigests
<1>2. CASE WriteLegacy
  <2>1. PICK root \in DOMAIN RootKey : file' = ToLegacyBundle(held, root)
    BY <1>2 DEF WriteLegacy
  <2>2. sealed' = held
    BY <1>2 DEF WriteLegacy
  <2> QED BY <2>1, <2>2, LegacyDigest DEF DigestKept, SealedDigests
<1>3. CASE Damage
  <2>1. sealed' = sealed /\ file'.canonicalDigest \in {file.canonicalDigest, NoDigest}
    BY <1>3 DEF Damage
  <2> QED BY <2>1 DEF DigestKept, SealedDigests
<1>4. CASE Rewrite
  BY <1>4 DEF Rewrite, DigestKept
<1>5. CASE UNCHANGED <<file, sealed>>
  BY <1>5 DEF DigestKept
<1> QED BY <1>1, <1>2, <1>3, <1>4, <1>5 DEF Next, vars, Load

\* One canonical digest, one content: this is what the digest is for.
LEMMA DigestDecides ==
    ASSUME DigestKept, sealed # Nobody, NEW network, NEW policy, Loads(file, network, policy)
    PROVE  Content(FromBundle(file)) = Content(sealed)
<1>1. /\ file.canonicalDigest # NoDigest
      /\ file.canonicalDigest = CanonicalDigest(file)
      /\ file.ledgerDigest = LedgerDigest(file.ledger)
      /\ file.inventoryDigest = InventoryDigest(BundleCoverage(file))
  BY DEF Loads, ValidEnvelope, ValidBundleCoverage
<1>2. Body(file) = SealedBody(sealed)
  <2>1. CASE file.canonicalDigest = <<"BUNDLE-V2", SealedBody(sealed)>>
    <3>1. CASE file.schema = 1
      <4>1. CanonicalDigest(file) = <<"BUNDLE-V1", file.root, Body(file)>>
        BY <3>1 DEF CanonicalDigest
      <4> QED BY <1>1, <2>1, <4>1, DomainsApart
    <3>2. CASE file.schema # 1
      <4>1. CanonicalDigest(file) = <<"BUNDLE-V2", Body(file)>>
        BY <3>2 DEF CanonicalDigest
      <4> QED BY <1>1, <2>1, <4>1, DomainsApart
    <3> QED BY <3>1, <3>2
  <2>2. ASSUME NEW root, file.canonicalDigest = <<"BUNDLE-V1", root, SealedBody(sealed)>>
        PROVE  Body(file) = SealedBody(sealed)
    <3>1. CASE file.schema = 1
      <4>1. CanonicalDigest(file) = <<"BUNDLE-V1", file.root, Body(file)>>
        BY <3>1 DEF CanonicalDigest
      <4> QED BY <1>1, <2>2, <4>1, DomainsApart
    <3>2. CASE file.schema # 1
      <4>1. CanonicalDigest(file) = <<"BUNDLE-V2", Body(file)>>
        BY <3>2 DEF CanonicalDigest
      <4> QED BY <1>1, <2>2, <4>1, DomainsApart
    <3> QED BY <3>1, <3>2
  <2> QED BY <1>1, <2>1, <2>2 DEF DigestKept, SealedDigests
<1>3. /\ file.report = sealed.report /\ file.provenance = sealed.provenance
      /\ file.ledgerDigest = LedgerDigest(sealed.ledger)
      /\ file.inventoryDigest = InventoryDigest(sealed.coverage)
  BY <1>2 DEF Body, SealedBody
<1>4. BundleCoverage(file) = sealed.coverage
  BY <1>1, <1>3 DEF InventoryDigest
<1>5. LedgerDigest(file.ledger) = LedgerDigest(sealed.ledger)
  BY <1>1, <1>3
<1> QED BY <1>3, <1>4, <1>5 DEF Content, FromBundle

\* A damaged file loads as the fixture it was written from, up to the order of
\* its entries, or not at all (validate_bundle_envelope, from_bundle).
THEOREM DamageNeverLoads == Spec => []DamageRefused
<1>1. DigestKept => DamageRefused
  BY DigestDecides DEF DamageRefused
<1> QED BY <1>1, InitDigest, NextDigest, PTL DEF Spec

-----------------------------------------------------------------------------
(* The list of absent keys *)

Rank(S, k) == Cardinality({j \in S : j <= k})

LEMMA RankType ==
    ASSUME NEW S \in SUBSET Nat, IsFiniteSet(S), NEW k \in S
    PROVE  /\ IsFiniteSet({j \in S : j <= k})
           /\ Rank(S, k) \in 1..Cardinality(S)
<1> DEFINE T == {j \in S : j <= k}
<1>1. /\ IsFiniteSet(T) /\ Cardinality(T) <= Cardinality(S)
      /\ Cardinality(T) \in Nat /\ Cardinality(S) \in Nat
  BY FS_Subset, FS_CardinalityType
<1>2. k \in T
  OBVIOUS
<1>3. Cardinality(T) # 0
  BY <1>1, <1>2, FS_EmptySet
<1> QED BY <1>1, <1>3 DEF Rank

LEMMA RankGrows ==
    ASSUME NEW S \in SUBSET Nat, IsFiniteSet(S), NEW k \in S, NEW l \in S, k < l
    PROVE  Rank(S, k) < Rank(S, l)
<1> DEFINE T == {j \in S : j <= k}
           U == {j \in S : j <= l}
<1>0. k \in Nat /\ l \in Nat /\ \A j \in S : j \in Nat
  OBVIOUS
<1>1. /\ \A j \in T : j \in U
      /\ l \in U /\ l \notin T
  BY <1>0
<1>2. /\ IsFiniteSet(T) /\ IsFiniteSet(U)
      /\ Rank(S, k) \in Nat /\ Rank(S, l) \in Nat
  BY RankType, FS_CardinalityType DEF Rank
<1> HIDE DEF T, U
<1>3. Cardinality(T) <= Cardinality(U) /\ Cardinality(T) # Cardinality(U)
  BY <1>1, <1>2, FS_Subset
<1> QED BY <1>2, <1>3 DEF Rank, T, U

\* The keys of a finite set can be listed in ascending order, and a list that
\* ascends and is as long as the set holds all of it.
LEMMA AscendingLists ==
    ASSUME NEW S \in SUBSET Nat, IsFiniteSet(S)
    PROVE  LET list == Ascending(S) IN
           /\ Cardinality(S) \in Nat
           /\ list \in [1..Cardinality(S) -> S]
           /\ \A i, j \in 1..Cardinality(S) : i < j => list[i] < list[j]
           /\ \A k \in S : \E i \in 1..Cardinality(S) : list[i] = k
<1> DEFINE n == Cardinality(S)
           r == [k \in S |-> Rank(S, k)]
           a == [i \in 1..n |-> CHOOSE k \in S : r[k] = i]
           Rises(l) == \A i, j \in 1..n : i < j => l[i] < l[j]
<1>1. n \in Nat /\ IsFiniteSet(1..n) /\ Cardinality(1..n) = n
  BY FS_CardinalityType, FS_Interval
<1>2. r \in [S -> 1..n] /\ \A k, l \in S : k < l => r[k] < r[l]
  BY RankType, RankGrows
<1> HIDE DEF n, r
<1>3. r \in Injection(S, 1..n)
  BY <1>1, <1>2 DEF Injection, IsInjective
<1>4. r \in Surjection(S, 1..n)
  BY <1>1, <1>3, FS_Injection DEF n
<1>5. \A i \in 1..n : a[i] \in S /\ r[a[i]] = i
  BY <1>4 DEF Surjection
<1>6. a \in [1..n -> S]
  BY <1>5
<1> HIDE DEF a
<1>7. Rises(a)
  <2> SUFFICES ASSUME NEW i \in 1..n, NEW j \in 1..n, i < j PROVE a[i] < a[j]
    OBVIOUS
  <2>1. a[i] \in S /\ a[j] \in S /\ r[a[i]] = i /\ r[a[j]] = j
    BY <1>5
  <2>2. i \in Int /\ j \in Int
    BY <1>1
  <2>0. a[i] \in Nat /\ a[j] \in Nat
    BY <2>1
  <2>3. ~(j < i) /\ i # j
    BY <2>2
  <2>4. a[j] < a[i] => j < i
    BY <1>2, <2>1, Zenon
  <2> QED BY <2>0, <2>1, <2>2, <2>3, <2>4
<1>8. \E l \in [1..n -> S] : Rises(l)
  BY <1>6, <1>7
<1> DEFINE list == Ascending(S)
<1>9. list \in [1..n -> S] /\ Rises(list)
  BY <1>8 DEF Ascending, n
<1> HIDE DEF list
<1>10. list \in Injection(1..n, S)
  <2>1. ASSUME NEW i \in 1..n, NEW j \in 1..n, list[i] = list[j] PROVE i = j
    <3>0. i \in Int /\ j \in Int
      BY <1>1
    <3>1. list[i] \in Nat
      BY <1>9
    <3>2. (i < j => list[i] < list[j]) /\ (j < i => list[j] < list[i])
      BY <1>9
    <3> QED BY <2>1, <3>0, <3>1, <3>2
  <2> QED BY <1>9, <2>1 DEF Injection, IsInjective
<1>11. list \in Surjection(1..n, S)
  BY <1>1, <1>10, FS_Injection DEF n
<1> QED BY <1>1, <1>9, <1>11 DEF Surjection, n, list

LEMMA AbsentListed ==
    ASSUME NEW c, c.absent \subseteq Key, IsFiniteSet(c.absent)
    PROVE  LET list == AbsentList(c) IN
           /\ list \in Seq([bytes : Key \cup {NoKey}, tidy : BOOLEAN])
           /\ \A i \in DOMAIN list : list[i].tidy /\ list[i].bytes \in c.absent
           /\ \A i \in DOMAIN list : i > 1 => list[i - 1].bytes < list[i].bytes
           /\ {a.bytes : a \in Items(list)} = c.absent
<1> DEFINE n == Cardinality(c.absent)
           keys == Ascending(c.absent)
           list == AbsentList(c)
<1>1. c.absent \in SUBSET Nat
  BY KeyAssumption
<1>2. /\ n \in Nat /\ keys \in [1..n -> c.absent]
      /\ \A i, j \in 1..n : i < j => keys[i] < keys[j]
      /\ \A k \in c.absent : \E i \in 1..n : keys[i] = k
  BY <1>1, AscendingLists
<1>3. list = [i \in 1..n |-> [bytes |-> keys[i], tidy |-> TRUE]]
  BY <1>2 DEF AbsentList
<1> HIDE DEF n, keys, list
<1>4. /\ DOMAIN list = 1..n
      /\ \A i \in 1..n : list[i].bytes = keys[i] /\ list[i].tidy = TRUE
  BY <1>3
<1>5. \A i \in 1..n : keys[i] \in c.absent /\ keys[i] \in Key
  BY <1>2
<1>6. list \in Seq([bytes : Key \cup {NoKey}, tidy : BOOLEAN])
  <2>1. list \in [1..n -> [bytes : Key \cup {NoKey}, tidy : BOOLEAN]]
    BY <1>3, <1>5
  <2> QED BY <1>2, <2>1, SeqDef
<1>7. ASSUME NEW i \in 1..n, i > 1 PROVE list[i - 1].bytes < list[i].bytes
  <2>1. i - 1 \in 1..n /\ i - 1 < i
    BY <1>2, <1>7
  <2> QED BY <1>2, <1>4, <2>1
<1>8. {a.bytes : a \in Items(list)} = c.absent
  <2>1. \A a \in Items(list) : a.bytes \in c.absent
    BY <1>4, <1>5 DEF Items
  <2>2. ASSUME NEW k \in c.absent PROVE \E a \in Items(list) : a.bytes = k
    <3>1. PICK i \in 1..n : keys[i] = k
      BY <1>2
    <3>2. list[i] \in Items(list)
      BY <1>4 DEF Items
    <3> QED BY <1>4, <3>1, <3>2
  <2> QED BY <2>1, <2>2
<1> QED BY <1>4, <1>5, <1>6, <1>7, <1>8 DEF list

-----------------------------------------------------------------------------
(* What is written loads again *)

LEMMA WrittenBundle ==
    ASSUME NEW f
    PROVE  LET b == ToBundle(f) IN
           /\ DOMAIN b = {"schema", "ledger", "absent", "report", "provenance",
                          "ledgerDigest", "inventoryDigest", "canonicalDigest"}
           /\ b.schema = 2 /\ b.ledger = f.ledger /\ b.absent = AbsentList(f.coverage)
           /\ b.report = f.report /\ b.provenance = f.provenance
           /\ b.ledgerDigest = LedgerDigest(f.ledger)
           /\ b.inventoryDigest = InventoryDigest(f.coverage)
           /\ b.canonicalDigest = CanonicalDigest(b)
           /\ NoDigest \notin {b.ledgerDigest, b.inventoryDigest, b.canonicalDigest}
<1> DEFINE b == ToBundle(f)
<1>1. /\ DOMAIN b = {"schema", "ledger", "absent", "report", "provenance",
                     "ledgerDigest", "inventoryDigest", "canonicalDigest"}
      /\ b.schema = 2 /\ b.ledger = f.ledger /\ b.absent = AbsentList(f.coverage)
      /\ b.report = f.report /\ b.provenance = f.provenance
      /\ b.ledgerDigest = LedgerDigest(f.ledger)
      /\ b.inventoryDigest = InventoryDigest(f.coverage)
  BY DEF ToBundle, Signed
<1>2. b.canonicalDigest = <<"BUNDLE-V2", SealedBody(f)>>
  BY WrittenDigest
<1> HIDE DEF b
<1>3. CanonicalDigest(b) = <<"BUNDLE-V2", SealedBody(f)>>
  <2>1. Body(b) = SealedBody(f)
    BY <1>1 DEF Body, SealedBody, ListedAbsent
  <2> QED BY <1>1, <2>1 DEF CanonicalDigest
<1>4. \A x, y, z : <<x, y>> # NoDigest /\ <<x, y, z>> # NoDigest
  BY DEF NoDigest
<1>5. NoDigest \notin {b.ledgerDigest, b.inventoryDigest, b.canonicalDigest}
  BY <1>1, <1>2, <1>4 DEF LedgerDigest, InventoryDigest
<1> QED BY <1>1, <1>2, <1>3, <1>5 DEF b

\* Reading the coverage back out of a written bundle returns it.
LEMMA WrittenCoverage ==
    ASSUME NEW f, NEW policy, IsFixture(f), IsCapture(f, policy)
    PROVE  BundleCoverage(ToBundle(f)) = f.coverage
<1> DEFINE b == ToBundle(f)
           c == BundleCoverage(b)
<1>1. b.ledger = f.ledger /\ b.absent = AbsentList(f.coverage)
  BY WrittenBundle
<1>2. /\ NoDuplicates(f.ledger)
      /\ DOMAIN f.coverage.present = {e.key : e \in Items(f.ledger.entries)}
      /\ \A e \in Items(f.ledger.entries) : f.coverage.present[e.key] = e
  BY DEF IsCapture, Freezes
<1>3. f.coverage = [present |-> f.coverage.present, absent |-> f.coverage.absent]
  BY DEF IsFixture
<1>4. f.coverage.present = [k \in DOMAIN f.coverage.present |-> f.coverage.present[k]]
  BY DEF IsFixture
<1>5. {a.bytes : a \in Items(AbsentList(f.coverage))} = f.coverage.absent
  BY AbsentListed DEF IsFixture
<1> HIDE DEF b
<1>6. /\ DOMAIN c.present = {e.key : e \in Items(f.ledger.entries)}
      /\ \A e \in Items(f.ledger.entries) : c.present[e.key] = e
      /\ c.absent = f.coverage.absent
  BY <1>1, <1>2, <1>5, BundleCoverageFacts
<1>7. /\ c = [present |-> c.present, absent |-> c.absent]
      /\ c.present = [k \in DOMAIN c.present |-> c.present[k]]
  BY DEF BundleCoverage
<1> HIDE DEF c
<1>8. \A k \in DOMAIN c.present : c.present[k] = f.coverage.present[k]
  BY <1>2, <1>6
<1>9. c.present = f.coverage.present
  BY <1>2, <1>4, <1>6, <1>7, <1>8
<1> QED BY <1>3, <1>6, <1>7, <1>9 DEF c, b

LEMMA WrittenLoads ==
    ASSUME NEW f, NEW p, IsFixture(f), IsCapture(f, p),
           NEW policy, Accepts(policy, f.ledger.info.protocol)
    PROVE  /\ Loads(ToBundle(f), f.provenance.network, policy)
           /\ FromBundle(ToBundle(f)) = f
<1> DEFINE b == ToBundle(f)
<1>1. /\ "root" \notin DOMAIN b /\ b.schema = 2
      /\ b.ledger = f.ledger /\ b.absent = AbsentList(f.coverage)
      /\ b.report = f.report /\ b.provenance = f.provenance
      /\ b.ledgerDigest = LedgerDigest(f.ledger)
      /\ b.inventoryDigest = InventoryDigest(f.coverage)
      /\ b.canonicalDigest = CanonicalDigest(b)
      /\ NoDigest \notin {b.ledgerDigest, b.inventoryDigest, b.canonicalDigest}
  BY WrittenBundle
<1>2. BundleCoverage(b) = f.coverage
  BY WrittenCoverage
<1>3. f.coverage.absent \subseteq Key /\ IsFiniteSet(f.coverage.absent)
  BY DEF IsFixture
<1>4. \A i \in DOMAIN b.absent :
        /\ b.absent[i].tidy /\ b.absent[i].bytes \in f.coverage.absent
        /\ i > 1 => b.absent[i - 1].bytes < b.absent[i].bytes
  BY <1>1, <1>3, AbsentListed
<1> HIDE DEF b
<1>5. Freezes(b.ledger, f.provenance.network, policy)
  BY <1>1 DEF IsCapture, Freezes
<1>6. ValidMetadata(b, f.provenance.network)
  BY <1>1 DEF IsCapture, ValidMetadata
<1>7. ValidEnvelope(b, f.provenance.network)
  <2>1. NoKey \notin Key
    BY KeyAssumption DEF NoKey
  <2> QED BY <1>1, <1>3, <1>4, <1>6, <2>1 DEF ValidEnvelope
<1>8. ValidInventory(b)
  <2>1. {e.entry.key : e \in Items(f.ledger.entries)} = DOMAIN f.coverage.present
    BY DEF IsCapture, Freezes, KeysMatch
  <2>2. /\ DOMAIN f.coverage.present \cap f.coverage.absent = {}
        /\ Archival \notin DOMAIN f.coverage.present \cup f.coverage.absent
        /\ NoDuplicates(f.ledger)
    BY DEF IsCapture, Freezes
  <2> QED BY <1>1, <1>4, <2>1, <2>2 DEF ValidInventory
<1>9. ValidBundleCoverage(b)
  BY <1>1, <1>2 DEF IsCapture, ValidBundleCoverage
<1>10. Loads(b, f.provenance.network, policy)
  BY <1>1, <1>5, <1>7, <1>8, <1>9 DEF Loads, Parses
<1>11. FromBundle(b) = f
  BY <1>1, <1>2 DEF FromBundle, IsFixture
<1> QED BY <1>10, <1>11 DEF b

-----------------------------------------------------------------------------
(* What is held is a fixture, and a file lists its absent keys *)

Typed ==
    /\ held # Nobody => IsFixture(held)
    /\ file # Nobody => HasAbsentList(file)

LEMMA LoadedIsFixture ==
    ASSUME NEW b, NEW network, NEW policy, HasAbsentList(b), Loads(b, network, policy)
    PROVE  IsFixture(FromBundle(b))
<1> DEFINE c == BundleCoverage(b)
<1>1. /\ c = [present |-> c.present, absent |-> c.absent]
      /\ c.present = [k \in DOMAIN c.present |-> c.present[k]]
      /\ c.absent = {b.absent[i].bytes : i \in DOMAIN b.absent}
  BY DEF BundleCoverage, Items
<1>2. \A i \in DOMAIN b.absent : b.absent[i].bytes # NoKey
  BY DEF Loads, ValidEnvelope
<1> DEFINE Text == [bytes : Key \cup {NoKey}, tidy : BOOLEAN]
<1>3. PICK n \in Nat : b.absent \in [1..n -> Text]
  <2>1. b.absent \in Seq(Text)
    BY DEF HasAbsentList
  <2> HIDE DEF Text
  <2> QED BY <2>1, SeqDef
<1>4. IsFiniteSet({b.absent[i].bytes : i \in 1..n})
  <2> DEFINE T == {b.absent[i].bytes : i \in 1..n}
             g == [i \in 1..n |-> b.absent[i].bytes]
  <2>1. g \in Surjection(1..n, T)
    BY DEF Surjection
  <2>2. IsFiniteSet(1..n)
    BY FS_Interval
  <2> HIDE DEF T, g
  <2>3. IsFiniteSet(T)
    BY <2>1, <2>2, FS_Surjection
  <2> QED BY <2>3 DEF T
<1> HIDE DEF c
<1>5. c.absent \subseteq Key /\ IsFiniteSet(c.absent)
  BY <1>1, <1>2, <1>3, <1>4
<1>6. FromBundle(b) = [ledger |-> b.ledger, coverage |-> c,
                       report |-> b.report, provenance |-> b.provenance]
  BY DEF FromBundle, c
<1> QED BY <1>1, <1>5, <1>6 DEF IsFixture

LEMMA WrittenHasAbsentList ==
    ASSUME NEW f, IsFixture(f)
    PROVE  HasAbsentList(ToBundle(f))
BY WrittenBundle, AbsentListed DEF HasAbsentList, IsFixture

LEMMA LegacyHasAbsentList ==
    ASSUME NEW f, NEW root, IsFixture(f)
    PROVE  HasAbsentList(ToLegacyBundle(f, root))
<1> DEFINE b == ToBundle(f)
           l == [k \in DOMAIN b \cup {"root"} |->
                   IF k = "root" THEN root ELSE IF k = "schema" THEN 1 ELSE b[k]]
<1>1. HasAbsentList(b)
  BY WrittenHasAbsentList
<1>2. ToLegacyBundle(f, root) = Signed(l)
  BY DEF ToLegacyBundle
<1> HIDE DEF b
<1>3. "absent" \in DOMAIN l /\ l.absent = b.absent
  BY <1>1 DEF HasAbsentList
<1> HIDE DEF l
<1>4. "absent" \in DOMAIN Signed(l) /\ Signed(l).absent = b.absent
  BY <1>3 DEF Signed
<1> QED BY <1>1, <1>2, <1>4 DEF HasAbsentList

LEMMA InitTyped == Init => Typed
BY CapturedAssumption DEF Init, Typed

LEMMA NextTyped == Typed /\ [Next]_vars => Typed'
<1> SUFFICES ASSUME Typed, [Next]_vars PROVE Typed'
  OBVIOUS
<1>1. CASE WriteFile
  BY <1>1, WrittenHasAbsentList DEF WriteFile, Typed
<1>2. CASE WriteLegacy
  <2>1. PICK root \in DOMAIN RootKey : file' = ToLegacyBundle(held, root)
    BY <1>2 DEF WriteLegacy
  <2>2. held # Nobody /\ held' = held
    BY <1>2 DEF WriteLegacy
  <2> QED BY <2>1, <2>2, LegacyHasAbsentList DEF Typed
<1>3. CASE Damage
  BY <1>3 DEF Damage, Typed
<1>4. CASE Rewrite
  <2> DEFINE g == [file EXCEPT !.ledgerDigest = LedgerDigest(file.ledger),
                               !.inventoryDigest = InventoryDigest(BundleCoverage(file))]
  <2>1. file # Nobody /\ file' = Signed(g) /\ held' = held
    BY <1>4 DEF Rewrite
  <2>2. "absent" \in DOMAIN g /\ g.absent = file.absent
    BY <2>1 DEF Typed, HasAbsentList
  <2> HIDE DEF g
  <2>3. "absent" \in DOMAIN Signed(g) /\ Signed(g).absent = file.absent
    BY <2>2 DEF Signed
  <2> QED BY <2>1, <2>3 DEF Typed, HasAbsentList
<1>5. ASSUME NEW network \in Networks, NEW policy \in Policy, Load(network, policy)
      PROVE  Typed'
  BY <1>5, LoadedIsFixture DEF Load, Typed
<1>6. CASE UNCHANGED vars
  BY <1>6 DEF vars, Typed
<1> QED BY <1>1, <1>2, <1>3, <1>4, <1>5, <1>6 DEF Next

\* Whatever is held, whoever wrote the file it came from and in either schema,
\* can be written and loads again as it is, wherever its protocol is accepted
\* (to_bundle, bundle_coverage, from_bundle).
THEOREM HeldReloads == Spec => []Reloads
<1>1. Typed /\ HeldIsCapture => Reloads
  BY WrittenLoads DEF Typed, HeldIsCapture, Reloads
<1> QED BY <1>1, InitTyped, NextTyped, InitCapture, NextCapture, PTL DEF Spec
=============================================================================
