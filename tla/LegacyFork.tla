----------------------------- MODULE LegacyFork -----------------------------
(***************************************************************************)
(* Mutable forks of a frozen fixture (src/runtime.rs).                     *)
(*                                                                         *)
(* A fork owns an Env of the host; a revert puts a new one in its place.   *)
(* Clients keep the Env they were made for, and may still call it.  The    *)
(* host executes a newer network's ledger under its own protocol; digests  *)
(* and checkpoints speak of the network's.                                 *)
(***************************************************************************)
EXTENDS Integers, Sequences, FiniteSets

CONSTANTS
    Fork,       \* forks, by the id from_fixture gives them
    Fixture,    \* frozen fixtures: a ledger's protocol and its data
    Supported,  \* SUPPORTED_PROTOCOL_VERSION
    Oldest,     \* the oldest protocol a test may set
    Data,       \* what calls may leave in a ledger
    NoFork,
    MaxEnvs, MaxAddresses, MaxCheckpoints   \* bounds, of what is held at once

ASSUME FixtureAssumption ==
    /\ Supported \in Nat /\ Oldest \in 0..Supported
    /\ Fixture \subseteq [protocol : {Supported, Supported + 1}, data : Data]
ASSUME BoundAssumption == MaxEnvs \in Nat /\ MaxAddresses \in Nat /\ MaxCheckpoints \in Nat

VARIABLES
    forks,        \* forks[f]: its Env and the network's protocol, or NoFork
    heap,         \* heap[e]: the state of Env e
    checkpoints   \* checkpoints taken: a snapshot and the fork it is of

vars == <<forks, heap, checkpoints>>

Envs == DOMAIN heap

\* Contracts registered locally are named by the count of the generator.
Snapshot ==
    [protocol : Nat, data : Data, contracts : SUBSET Nat, generator : Nat]

ASSUME NoForkAssumption ==
    NoFork \notin [env : Nat, network : Nat] \cup [network : Nat, now : Snapshot]

Init ==
    /\ forks = [f \in Fork |-> NoFork]
    /\ heap = <<>>
    /\ checkpoints = {}

\* Mutant: the host is given the network's protocol.
Undowngraded(protocol) == protocol

\* executed_protocol_version
Executed(protocol) == IF protocol = Supported + 1 THEN Supported ELSE protocol

\* Mutant: the protocol an Env executes is taken for the network's.
AsExecuted(protocol, network) == protocol

\* restore_network_protocol
Restored(protocol, network) == IF protocol = Executed(network) THEN network ELSE protocol

\* to_snapshot, to_ledger_snapshot
Read(e, network) == [heap[e] EXCEPT !.protocol = Restored(@, network)]

\* Mutant: the new Env starts with fresh generators.
Reseeded(s) == [s EXCEPT !.protocol = Executed(@), !.generator = 0]

\* fork_env
Seeded(s) == [s EXCEPT !.protocol = Executed(@)]

NewEnv(f, network, s) ==
    /\ Len(heap) < MaxEnvs
    /\ heap' = Append(heap, Seeded(s))
    /\ forks' = [forks EXCEPT ![f] = [env |-> Len(heap) + 1, network |-> network]]

FromFixture(f) ==
    /\ forks[f] = NoFork
    /\ \E x \in Fixture :
         NewEnv(f, x.protocol, [protocol |-> x.protocol, data |-> x.data,
                                contracts |-> {}, generator |-> 0])
    /\ UNCHANGED checkpoints

\* A call through a client, of the fork's Env or of one it had.
Invoke(e) ==
    /\ \E d \in Data : heap' = [heap EXCEPT ![e].data = d]
    /\ UNCHANGED <<forks, checkpoints>>

\* A test sets the ledger's protocol to one the host knows.
SetProtocol(e) ==
    /\ \E p \in Oldest..Supported : heap' = [heap EXCEPT ![e].protocol = p]
    /\ UNCHANGED <<forks, checkpoints>>

\* The generator names the next contract; the contract is created.
Generated(s) == [s EXCEPT !.generator = @ + 1]
Holding(s, c) == [s EXCEPT !.contracts = @ \cup {c}]

\* register_wasm, when the hash is the expected one; the constructor may fail.
RegisterWasm(f) ==
    /\ forks[f] # NoFork
    /\ LET e == forks[f].env IN
       /\ heap[e].generator < MaxAddresses
       /\ \/ heap' = [heap EXCEPT ![e] = Holding(Generated(@), @.generator)]
          \/ heap' = [heap EXCEPT ![e] = Generated(@)]
    /\ UNCHANGED <<forks, checkpoints>>

TakeCheckpoint(f) ==
    /\ forks[f] # NoFork
    /\ Cardinality(checkpoints) < MaxCheckpoints
    /\ checkpoints' = checkpoints \cup
            {[fork |-> f, snapshot |-> Read(forks[f].env, forks[f].network)]}
    /\ UNCHANGED <<forks, heap>>

\* Mutant: any fork's checkpoint will do.
AnyFork(f, c) == TRUE

Belongs(f, c) == c.fork = f

Revert(f, c) ==
    /\ forks[f] # NoFork
    /\ \/ ~Belongs(f, c) /\ UNCHANGED <<forks, heap>>
       \/ Belongs(f, c) /\ NewEnv(f, forks[f].network, c.snapshot)
    /\ UNCHANGED checkpoints

\* The test drops a checkpoint.
Forget(c) == checkpoints' = checkpoints \ {c} /\ UNCHANGED <<forks, heap>>

Next ==
    \/ \E f \in Fork :
         \/ FromFixture(f) \/ RegisterWasm(f) \/ TakeCheckpoint(f)
         \/ \E c \in checkpoints : Revert(f, c)
    \/ \E c \in checkpoints : Forget(c)
    \/ \E e \in Envs : Invoke(e) \/ SetProtocol(e)

Spec == Init /\ [][Next]_vars

-----------------------------------------------------------------------------
(* Properties *)

\* Every Env runs under a protocol its host knows, forks share none (fork_env),
\* and checkpoints speak of the network's protocol (checkpoint).
TypeOK ==
    /\ heap \in Seq(Snapshot)
    /\ \A e \in Envs : heap[e].protocol \in Oldest..Supported
    /\ forks \in [Fork -> [env : Envs, network : {Supported, Supported + 1}] \cup {NoFork}]
    /\ \A f, g \in Fork : f # g /\ forks[f] # NoFork /\ forks[g] # NoFork => forks[f].env # forks[g].env
    /\ checkpoints \subseteq [fork : Fork, snapshot : Snapshot]
    /\ \A c \in checkpoints :
         /\ forks[c.fork] # NoFork
         /\ c.snapshot.protocol \in (Oldest..Supported - 1) \cup {forks[c.fork].network}

\* No address is generated twice while a contract lives at it, also after a
\* revert and in an Env that was left behind (Checkpoint, register_wasm).
AddressesFresh == \A e \in Envs : heap[e].contracts \subseteq 0..heap[e].generator - 1

ViewOf(f) ==
    IF forks[f] = NoFork THEN NoFork
    ELSE [network |-> forks[f].network, now |-> Read(forks[f].env, forks[f].network)]

KeptOf(f) == {c.snapshot : c \in {c \in checkpoints : c.fork = f}}

Private == INSTANCE PrivateLedgers WITH
    view <- [f \in Fork |-> ViewOf(f)],
    kept <- [f \in Fork |-> KeptOf(f)]

\* A fork is a private ledger of the network: fresh, changed by its own steps,
\* restored by its own checkpoints, under the network's protocol throughout; a
\* client left behind by a revert does not reach it (Fork).
ImplementsPrivate == Private!Spec
=============================================================================
