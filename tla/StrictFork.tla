----------------------------- MODULE StrictFork -----------------------------
(***************************************************************************)
(* The offline mutable fork of a sealed capture (src/strict.rs).           *)
(*                                                                         *)
(* The fork knows the captured keys only.  Every call runs in an isolated  *)
(* child that reads an unknown key as absent, so that the run can go on    *)
(* and name every key it misses; a child that touched one is thrown away.  *)
(* Keys of locally installed contracts, and nonces under mocked            *)
(* authorization, are known to be absent without having been captured.     *)
(***************************************************************************)
EXTENDS Host, Integers, Sequences, FiniteSets

CONSTANTS
    Network,      \* the network's ledger at the capture's anchor
    Captured,     \* the captured keys
    Id, OtherId,  \* fork ids: this fork, and another fork of the process
    MaxEvidence,  \* bound on receipts and registrations since the last revert
    MaxHeld       \* bound on the checkpoints the caller holds

ASSUME CaptureAssumption ==
    /\ Network \in State
    /\ Captured \subseteq Key
    /\ Id # OtherId
    /\ MaxEvidence \in Nat /\ MaxHeld \in Nat

VARIABLES
    snapshot,        \* the ledger of the fork's Env, Absent where it has no entry
    coverage,        \* known keys: Present or Absent
    localContracts,  \* addresses installed locally
    localCode,       \* code installed locally
    evidence,        \* receipts, with the registrations returned between them
    held,            \* checkpoints the caller holds
    answer           \* what the last call of the API returned

forkState == <<snapshot, coverage, localContracts, localCode>>
vars == <<snapshot, coverage, localContracts, localCode, evidence, held, answer>>

Restriction(s, ks) == [k \in ks |-> s[k]]

\* A snapshot lists the Present entries of a coverage.
Present(cov) == [k \in Key |-> IF k \in DOMAIN cov THEN cov[k] ELSE Absent]

Checkpoint(id) ==
    [fork |-> id, snapshot |-> snapshot, coverage |-> coverage,
     contracts |-> localContracts, code |-> localCode]

\* from_captured; a checkpoint of another fork is around as well.
Init ==
    /\ coverage = Restriction(Network, Captured)
    /\ snapshot = Present(coverage)
    /\ localContracts = {} /\ localCode = {}
    /\ evidence = <<>>
    /\ held = {[fork |-> OtherId, snapshot |-> Present(coverage), coverage |-> coverage,
                contracts |-> Contract, code |-> CodeKey]}
    /\ answer = "none"

-----------------------------------------------------------------------------
(* The child's source *)

IsLocal(k, contracts, code, mockNonces) ==
    \/ Owner[k] \in contracts
    \/ k \in code
    \/ mockNonces /\ k \in NonceKey

\* Mutant: entries the child stored without looking them up are not inspected.
UnknownReads(run, contracts, code, mockNonces) ==
    {k \in run.reads : k \notin DOMAIN coverage /\ ~IsLocal(k, contracts, code, mockNonces)}

\* Keys a run touched, by lookup or by storing an entry, that are not known.
Unknown(run, contracts, code, mockNonces) ==
    {k \in Touched(run) : k \notin DOMAIN coverage /\ ~IsLocal(k, contracts, code, mockNonces)}

\* What StrictSource answers: known entries, and absent for everything else.
View == Present(coverage)

\* Mutant: entries that were known before keep their old value.
OnlyNewKeys(after) ==
    LET changes == StateDiff(snapshot, after)
    IN  [k \in DOMAIN coverage \cup DOMAIN changes |->
            IF k \in DOMAIN coverage THEN coverage[k] ELSE changes[k]]

\* update_coverage: every changed key is known from now on.
UpdateCoverage(after) ==
    LET changes == StateDiff(snapshot, after)
    IN  [k \in DOMAIN coverage \cup DOMAIN changes |->
            IF k \in DOMAIN changes THEN changes[k] ELSE coverage[k]]

Evidence(kind, call, run, after) ==
    [kind |-> kind, call |-> call, ok |-> run.ok, tree |-> run.tree,
     before |-> snapshot, after |-> after]

-----------------------------------------------------------------------------
(* invoke *)

Mocked(call) == Mode[call] # "Enforce"

ChildOf(call) == Run(call, View)

\* Mutant: a child that touched unknown keys is promoted all the same.
NothingMissed(call) == {}

Misses(call) == Unknown(ChildOf(call), localContracts, localCode, Mocked(call))

TreeMatches(call) == Mode[call] = "MockExact" => ChildOf(call).tree = Expected[call]

\* Mutant: nonces of mocked authorization are kept.
WithNonces(call) == Overlay(snapshot, ChildOf(call).writes)

\* The child's ledger; new nonces of mocked authorization are scaffolding.
After(call) ==
    LET after == Overlay(snapshot, ChildOf(call).writes)
    IN  [k \in Key |-> IF Mocked(call) /\ k \in NonceKey /\ snapshot[k] = Absent
                         THEN Absent ELSE after[k]]

Receipt(kind, call) == Evidence(kind, call, ChildOf(call), After(call))

InvokeUnknown(call) ==
    /\ Misses(call) # {}
    /\ answer' = "UnknownLedgerKeys"
    /\ UNCHANGED <<forkState, evidence, held>>

InvokeMismatch(call) ==
    /\ Misses(call) = {}
    /\ ~TreeMatches(call)
    /\ answer' = "AuthTreeMismatch"
    /\ UNCHANGED <<forkState, evidence, held>>

Validated(call) == Misses(call) = {} /\ TreeMatches(call) /\ Len(evidence) < MaxEvidence

\* Preview, or Apply of a call that failed: the receipt is all that remains.
Discard(call) ==
    /\ Validated(call)
    /\ \/ evidence' = Append(evidence, Receipt("Previewed", call))
       \/ /\ ~ChildOf(call).ok
          /\ evidence' = Append(evidence, Receipt("Rejected", call))
    /\ answer' = "Receipt"
    /\ UNCHANGED <<forkState, held>>

\* Apply of a call that succeeded: the child is promoted.
Commit(call) ==
    /\ Validated(call)
    /\ ChildOf(call).ok
    /\ evidence' = Append(evidence, Receipt("Committed", call))
    /\ snapshot' = After(call)
    /\ coverage' = UpdateCoverage(After(call))
    /\ answer' = "Receipt"
    /\ UNCHANGED <<localContracts, localCode, held>>

Invoke == \E call \in Call :
    InvokeUnknown(call) \/ InvokeMismatch(call) \/ Discard(call) \/ Commit(call)

-----------------------------------------------------------------------------
(* register_candidate *)

Occupied(x) ==
    LET k == InstanceKey[Address[x]] IN k \in DOMAIN coverage /\ coverage[k] # Absent

\* The address and the code are local already while the constructor runs.
Installed(x) == Construct(x, View)
ContractsWith(x) == localContracts \cup {Address[x]}

\* Mutant: the instance is listed as local code, too.
CodeWithInstance(x) == localCode \cup {Code[x], InstanceKey[Address[x]]}

CodeWith(x) == localCode \cup {Code[x]}
InstallMisses(x) == Unknown(Installed(x), ContractsWith(x), CodeWith(x), FALSE)
AfterInstall(x) == Overlay(snapshot, Installed(x).writes)

RegisterRefused(x) ==
    /\ \/ Occupied(x) /\ answer' = "CandidateAddressOccupied"
       \/ ~Occupied(x) /\ InstallMisses(x) # {} /\ answer' = "UnknownLedgerKeys"
       \/ /\ ~Occupied(x) /\ InstallMisses(x) = {} /\ ~Installed(x).ok
          /\ answer' = "CandidateRegistrationFailed"
    /\ UNCHANGED <<forkState, evidence, held>>

Register(x) ==
    /\ ~Occupied(x)
    /\ InstallMisses(x) = {}
    /\ Installed(x).ok
    /\ Len(evidence) < MaxEvidence
    /\ evidence' = Append(evidence, Evidence("Registered", x, Installed(x), AfterInstall(x)))
    /\ coverage' = UpdateCoverage(AfterInstall(x))
    /\ localContracts' = ContractsWith(x)
    /\ localCode' = CodeWith(x)
    /\ snapshot' = AfterInstall(x)
    /\ answer' = "Registered"
    /\ UNCHANGED held

RegisterCandidate == \E x \in Candidate : RegisterRefused(x) \/ Register(x)

\* A malformed request (CandidateAddressNotContract, WasmHashMismatch, Invalid...)
\* and a host that cannot be inspected leave the fork alone.
RequestRefused ==
    /\ answer' = "RequestRefused"
    /\ UNCHANGED <<forkState, evidence, held>>

-----------------------------------------------------------------------------
(* checkpoint, revert *)

TakeCheckpoint ==
    /\ Cardinality(held) < MaxHeld
    /\ held' = held \cup {Checkpoint(Id)}
    /\ answer' = "Checkpoint"
    /\ UNCHANGED <<forkState, evidence>>

RevertRefused ==
    /\ \E c \in held : c.fork # Id
    /\ answer' = "CheckpointMismatch"
    /\ UNCHANGED <<forkState, evidence, held>>

\* Mutant: the address allowlist survives a revert.
KeepContracts(c) == localContracts

RevertedContracts(c) == c.contracts

\* Mutant: receipts survive a revert.
KeepEvidence == evidence

ClearedEvidence == <<>>

Revert ==
    /\ \E c \in held :
         /\ c.fork = Id
         /\ snapshot' = c.snapshot
         /\ coverage' = c.coverage
         /\ localContracts' = RevertedContracts(c)
         /\ localCode' = c.code
    /\ evidence' = ClearedEvidence
    /\ answer' = "Reverted"
    /\ UNCHANGED held

Next ==
    \/ Invoke \/ RegisterCandidate \/ RequestRefused
    \/ TakeCheckpoint \/ RevertRefused \/ Revert

Spec == Init /\ [][Next]_vars

-----------------------------------------------------------------------------
(* Properties *)

IsCoverage(f) ==
    /\ DOMAIN f \subseteq Key
    /\ f = [k \in DOMAIN f |-> f[k]]
    /\ \A k \in DOMAIN f : f[k] \in Shape[k] \cup {Absent}

IsCheckpoint(c) ==
    /\ c.fork \in {Id, OtherId}
    /\ c.snapshot \in State
    /\ IsCoverage(c.coverage)
    /\ c.contracts \subseteq Contract /\ c.code \subseteq CodeKey

EvidenceSet ==
    [kind : {"Previewed", "Rejected", "Committed", "Registered"}, call : Call \cup Candidate,
     ok : BOOLEAN, tree : Tree, before : State, after : State]

\* Every variable has its type.
TypeOK ==
    /\ snapshot \in State
    /\ IsCoverage(coverage)
    /\ localContracts \subseteq Contract /\ localCode \subseteq CodeKey
    /\ evidence \in Seq(EvidenceSet)
    /\ \A c \in held : IsCheckpoint(c)

\* The ledger the next child starts from and the coverage its source answers
\* from tell the same story, after every commit, installation and revert
\* (update_coverage, strip_new_mock_nonces, strict_env).
Agreement == snapshot = Present(coverage)

\* The fork never comes to know a key it was not told of: what it knows was
\* captured, or belongs to something installed locally (unknown_keys).
CoverageJustified ==
    \A k \in DOMAIN coverage : k \in Captured \/ IsLocal(k, localContracts, localCode, FALSE)

\* An address or code is taken to be local only while the fork holds the
\* installation that made it so; a revert takes both back (revert).
LocalsInstalled ==
    /\ \A c \in localContracts : InstanceKey[c] \in DOMAIN coverage
    /\ localCode \subseteq DOMAIN coverage

\* The evidence the caller holds is one unbroken chain of ledgers that leads to
\* the fork's current ledger: each receipt or registration starts from the
\* ledger the one before it left, and previews and rejections leave none.
EvidenceChains ==
    LET Left(e) == IF e.kind \in {"Committed", "Registered"} THEN e.after ELSE e.before
    IN  \A i \in 1..Len(evidence) :
            Left(evidence[i]) = IF i < Len(evidence) THEN evidence[i + 1].before ELSE snapshot

\* A nonce enters the fork's ledger only by a call whose signatures the host
\* enforced or by a local installation, never by mocked authorization
\* (strip_new_mock_nonces).
NoncesAreSigned ==
    [][LET last == evidence'[Len(evidence')]
       IN  \A k \in NonceKey :
             snapshot[k] = Absent /\ snapshot'[k] # Absent /\ evidence' # <<>>
               => last.kind = "Registered" \/ Mode[last.call] = "Enforce"]_vars

\* The complete ledger the fork stands for: the network's entry where the fork
\* knows nothing and nothing local hides it.
LedgerOf(cov, contracts, code) ==
    [k \in Key |-> IF k \in DOMAIN cov THEN cov[k]
                   ELSE IF IsLocal(k, contracts, code, FALSE) THEN Absent
                   ELSE Network[k]]

\* What a receipt tells of its run.
Told(e) ==
    [kind |-> e.kind, call |-> e.call, ok |-> e.ok, tree |-> e.tree,
     changes |-> StateDiff(e.before, e.after)]

Ideal == INSTANCE IdealFork
    WITH ledger   <- LedgerOf(coverage, localContracts, localCode),
         receipts <- [i \in 1..Len(evidence) |-> Told(evidence[i])],
         saved    <- {LedgerOf(c.coverage, c.contracts, c.code) : c \in {c \in held : c.fork = Id}}

\* Every receipt tells, and every commit leaves, what the call would have done
\* on the complete ledger: knowing only part of it never changes the result of
\* a call, it only makes the fork refuse some.
ImplementsIdeal == Ideal!Spec
=============================================================================
