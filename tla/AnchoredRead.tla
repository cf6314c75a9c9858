---------------------------- MODULE AnchoredRead ----------------------------
(***************************************************************************)
(* Reading one ledger through RPCs whose answers are checked but whose     *)
(* network is not trusted to stand still (src/capture.rs).                 *)
(*                                                                         *)
(* LedgerCapture knows ledgers by their number and takes an answer to be   *)
(* right or an error.  Here a ledger has a hash as well, because the       *)
(* network may be reset: another history begins, under the same passphrase *)
(* and with the same numbers.  Anchors carry the hash, answers to          *)
(* getLedgerEntries only the number.  And a node may answer with parts     *)
(* that do not fit together; the transport and materialize must notice.    *)
(* What no client could notice is left out: a node that leaves an entry    *)
(* out, or makes one up where the ledger has none.                         *)
(***************************************************************************)
EXTENDS Integers, FiniteSets

CONSTANTS
    Key,          \* ledger keys
    ConfigKey,    \* the state-archival config setting
    Data,         \* contents of entries
    Histories,    \* how many histories the network may have, resets included
    Ledger,       \* sequence numbers
    LedgerAt,     \* LedgerAt[b][k]: the entry at k in ledger b
    ProtocolAt,   \* ProtocolAt[b]: its protocol version
    Accepted,     \* protocol versions the policy accepts
    Lag,          \* how many ledgers behind the head a node may answer
    BatchSize,    \* MAX_KEYS_PER_BATCH
    MaxAttempts,  \* max_coherence_attempts
    Inventories   \* the key sets that are read

Absent == [t |-> "absent"]
None   == [t |-> "none"]

\* sound: the entry passes validate_coverage in its ledger.
Value == {Absent} \cup [data : Data, sound : BOOLEAN]

\* A ledger is named by its hash: its history and its number.
Block == [chain : 1..Histories, seq : Ledger]

ASSUME KeyAssumption == ConfigKey \in Key /\ IsFiniteSet(Key)
ASSUME NetworkAssumption ==
    /\ Histories \in Nat \ {0} /\ Ledger \subseteq Nat /\ Ledger # {}
    /\ LedgerAt \in [Block -> [Key -> Value]]
    /\ ProtocolAt \in [Block -> Nat] /\ Accepted \subseteq Nat
    /\ Lag \in Nat
ASSUME ReadAssumption ==
    /\ BatchSize \in Nat \ {0} /\ MaxAttempts \in Nat \ {0}
    /\ Inventories \subseteq SUBSET (Key \ {ConfigKey})

VARIABLES
    chain, head,   \* the network's history and the last ledger it closed
    pc, op, result,
    asked, attempt, before, pending, matches, partial,  \* materialize
    held,          \* what a read returned last
    served         \* history: ledgers that nodes answered from since the call began

network == <<chain, head>>
reading == <<asked, attempt, before, pending, matches, partial>>
vars == <<network, pc, op, result, reading, held, served>>

Nothing == [k \in {} |-> Absent]

-----------------------------------------------------------------------------
(* The network and its nodes *)

\* Ledgers that nodes answer from when the head is h in history c.
ServingAt(c, h) == {b \in Block : b.chain = c /\ b.seq <= h /\ h <= b.seq + Lag}

Serving == ServingAt(chain, head)

Init ==
    /\ chain = 1 /\ head \in Ledger
    /\ pc = "idle" /\ op = "none" /\ result = "none"
    /\ asked = {} /\ attempt = 0 /\ before = None
    /\ pending = {} /\ matches = TRUE /\ partial = Nothing
    /\ held = None
    /\ served = {}

Moved ==
    /\ served' = IF pc = "idle" THEN served ELSE served \cup ServingAt(chain', head')
    /\ UNCHANGED <<pc, op, result, reading, held>>

CloseLedger ==
    /\ head + 1 \in Ledger
    /\ head' = head + 1
    /\ UNCHANGED chain
    /\ Moved

\* Every node has left the old history when the first serves the new one.
Reset ==
    /\ chain < Histories
    /\ chain' = chain + 1
    /\ head' \in Ledger
    /\ Moved

\* Versions a node may name, of whatever ledger.
Versions == {ProtocolAt[b] : b \in Block}

\* What a node says of its latest ledger: the number, the header, the hash, and
\* the protocol version, apart from the one in the header.
LatestAnswer == [sequence : Ledger, header : Serving, hash : Block, protocol : Versions]

\* latest_ledger: number, close time and hash are those of the header; the
\* protocol version is not compared.
Consistent(a) == a.sequence = a.header.seq /\ a.hash = a.header

\* One entry more than the ledger has under the keys: one that was not asked
\* for, a second one for a key, or one under the key of another.
Spare(b, c) ==
    {x \in [label : Key, key : Key, from : Block] :
        /\ LedgerAt[x.from][x.key] # Absent
        /\ x.key \notin c \/ LedgerAt[b][x.key] # Absent}

\* decode_wire_entry
Labelled(x) == x # None => x.label = x.key

\* Mutant: a second entry for a key replaces the first.
OnlyAsked(x, b, c) == x # None => x.key \in c

\* validate_batch
ValidBatch(x, b, c) == x # None => x.key \in c /\ LedgerAt[b][x.key] = Absent

\* The entries of the map that validate_batch fills.
Returned(x, b, k) == IF x # None /\ x.key = k THEN LedgerAt[x.from][k] ELSE LedgerAt[b][k]

-----------------------------------------------------------------------------
(* The calls: materialize, and cached_anchor_is_current of what it returned *)

Begin ==
    /\ pc = "idle"
    /\ \/ op' = "read" /\ asked' \in Inventories
       \/ op' = "probe" /\ held # None /\ UNCHANGED asked
    /\ pc' = "network"
    /\ result' = "none"
    /\ served' = Serving
    /\ UNCHANGED <<network, attempt, before, pending, matches, partial, held>>

\* The call returns; what an attempt had is dropped.
End(r) ==
    /\ pc' = "idle"
    /\ result' = r
    /\ attempt' = 0 /\ before' = None /\ pending' = {} /\ matches' = TRUE /\ partial' = Nothing
    /\ UNCHANGED <<network, op, asked, served>>

Fail(r) == End(r) /\ UNCHANGED held

Attempt(i) ==
    /\ pc' = "before"
    /\ attempt' = i
    /\ before' = None /\ pending' = {} /\ matches' = TRUE /\ partial' = Nothing
    /\ UNCHANGED <<network, op, result, asked, held, served>>

\* validate_network: the passphrase may be another network's.
ValidateNetwork ==
    /\ pc = "network"
    /\ \/ Fail("NetworkMismatch")
       \/ \E version \in Versions :
            \/ version \notin Accepted /\ Fail("UnsupportedProtocol")
            \/ version \in Accepted /\ op = "read" /\ Attempt(1)
            \/ /\ version \in Accepted /\ op = "probe"
               /\ pc' = "probe"
               /\ UNCHANGED <<network, op, result, reading, held, served>>

\* No answer, an answer that cannot be decoded, or one that does not fit.
TransportFailure ==
    /\ pc # "idle"
    /\ Fail("TransportFailure")

ReadBefore ==
    /\ pc = "before"
    /\ \E a \in LatestAnswer :
         /\ Consistent(a)
         /\ \/ a.protocol \notin Accepted /\ Fail("UnsupportedProtocol")
            \/ /\ a.protocol \in Accepted
               /\ pc' = "batch"
               /\ before' = a
               /\ pending' = asked \cup {ConfigKey}
               /\ UNCHANGED <<network, op, result, asked, attempt, matches, partial, held, served>>

\* A chunk of at most BatchSize keys, in whatever order their encodings have.
IsChunk(c) ==
    /\ c \subseteq pending
    /\ Cardinality(c) = IF Cardinality(pending) < BatchSize THEN Cardinality(pending) ELSE BatchSize

\* Mutant: the config setting is kept with the entries.
WithConfig(x, b, c) ==
    [k \in DOMAIN partial \cup c |-> IF k \in DOMAIN partial THEN partial[k] ELSE Returned(x, b, k)]

Extend(x, b, c) ==
    [k \in DOMAIN partial \cup (c \ {ConfigKey}) |->
        IF k \in DOMAIN partial THEN partial[k] ELSE Returned(x, b, k)]

\* getLedgerEntries of a chunk.
ReadBatch ==
    /\ pc = "batch"
    /\ \E c \in SUBSET pending, b \in Serving :
         /\ IsChunk(c)
         /\ \E x \in Spare(b, c) \cup {None} :
              /\ Labelled(x)
              /\ \/ /\ b.seq # before.sequence
                    /\ matches' = FALSE
                    /\ pc' = "after"
                    /\ UNCHANGED <<network, op, result, asked, attempt, before, pending,
                                   partial, held, served>>
                 \/ /\ b.seq = before.sequence
                    /\ ~ValidBatch(x, b, c)
                    /\ Fail("MalformedRpc")
                 \/ /\ b.seq = before.sequence /\ ValidBatch(x, b, c)
                    /\ ConfigKey \in c /\ Returned(x, b, ConfigKey) = Absent
                    /\ Fail("MissingStateArchival")
                 \/ /\ b.seq = before.sequence /\ ValidBatch(x, b, c)
                    /\ ConfigKey \in c => Returned(x, b, ConfigKey) # Absent
                    /\ partial' = Extend(x, b, c)
                    /\ pending' = pending \ c
                    /\ pc' = IF pending = c THEN "after" ELSE "batch"
                    /\ UNCHANGED <<network, op, result, asked, attempt, before, matches,
                                   held, served>>

\* Mutant: ledgers are compared by their number.
SameNumber(a, b) == a.sequence = b.sequence

\* Anchor's equality
SameAnchor(a, b) == a = b

\* validate_coverage
ValidCoverage == \A k \in DOMAIN partial : partial[k] # Absent => partial[k].sound

ReadAfter ==
    /\ pc = "after"
    /\ \E a \in LatestAnswer :
         /\ Consistent(a)
         /\ \/ /\ ~matches \/ ~SameAnchor(before, a)
               /\ \/ attempt < MaxAttempts /\ Attempt(attempt + 1)
                  \/ attempt >= MaxAttempts /\ Fail("IncoherentLedger")
            \/ /\ matches /\ SameAnchor(before, a)
               /\ ~ValidCoverage
               /\ Fail("MalformedRpc")
            \/ /\ matches /\ SameAnchor(before, a)
               /\ ValidCoverage
               /\ held' = [anchor |-> before, asked |-> asked, coverage |-> partial]
               /\ End("read")

\* cached_anchor_is_current
ProbeAnchor ==
    /\ pc = "probe"
    /\ \E a \in LatestAnswer :
         /\ Consistent(a)
         /\ \/ a.protocol \notin Accepted /\ Fail("UnsupportedProtocol")
            \/ a.protocol \in Accepted /\ SameAnchor(a, held.anchor) /\ Fail("current")
            \/ a.protocol \in Accepted /\ ~SameAnchor(a, held.anchor) /\ Fail("moved")

Next ==
    \/ CloseLedger \/ Reset
    \/ Begin \/ ValidateNetwork \/ TransportFailure
    \/ ReadBefore \/ ReadBatch \/ ReadAfter \/ ProbeAnchor

Spec == Init /\ [][Next]_vars

-----------------------------------------------------------------------------
(* Properties *)

Anchor == [sequence : Ledger, header : Block, hash : Block, protocol : Versions]

Coverage(keys) == [keys -> Value]

\* Every variable has its type; a read has asked for all that it no longer has
\* to ask for (materialize).
TypeOK ==
    /\ chain \in 1..Histories /\ head \in Ledger
    /\ pc \in {"idle", "network", "before", "batch", "after", "probe"}
    /\ op \in {"none", "read", "probe"}
    /\ asked \in SUBSET (Key \ {ConfigKey})
    /\ attempt \in 0..MaxAttempts
    /\ before \in Anchor \cup {None}
    /\ pc \in {"batch", "after"} => before \in Anchor
    /\ pending \subseteq asked \cup {ConfigKey} /\ matches \in BOOLEAN
    /\ DOMAIN partial \subseteq asked /\ partial \in Coverage(DOMAIN partial)
    /\ pc \in {"batch", "after"} /\ matches => DOMAIN partial = asked \ pending
    /\ pc = "after" /\ matches => pending = {}
    /\ served \subseteq Block

\* What a read returns is what one ledger has under the keys that were asked
\* for, and the anchor names that ledger: whatever the network closed or reset
\* meanwhile and however the nodes' answers were put together (materialize).
ReadsOneLedger ==
    held # None =>
        /\ held.anchor.hash = held.anchor.header /\ held.anchor.sequence = held.anchor.hash.seq
        /\ held.coverage = [k \in held.asked |-> LedgerAt[held.anchor.hash][k]]

\* A read returns a ledger that nodes had while it ran, and a fixture passes for
\* current only if they had its ledger while that was asked: not one of the
\* same number in another history (materialize, cached_anchor_is_current).
AnswersOfTheCall == result \in {"read", "current"} => held.anchor.hash \in served
=============================================================================
