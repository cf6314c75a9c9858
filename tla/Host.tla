-------------------------------- MODULE Host --------------------------------
(***************************************************************************)
(* What the forks assume of the contract host they run calls in.           *)
(*                                                                         *)
(* The host is a library.  A run is given a ledger and a call; it looks    *)
(* keys up, writes keys, and succeeds or fails.  Two things are assumed of *)
(* it: a failed run is rolled back, and a run depends on the ledger only   *)
(* through the keys it looked up.                                          *)
(***************************************************************************)
CONSTANTS
    Key,         \* ledger keys
    Value,       \* ledger entries
    Absent,      \* no entry
    Shape,       \* Shape[k]: the entries key k may hold
    Contract,    \* contract addresses
    NoContract,
    Owner,       \* Owner[k]: the contract whose data k is, or NoContract
    InstanceKey, \* InstanceKey[c]: the instance entry of contract c
    CodeKey,     \* contract code entries, named by their hash
    NonceKey,    \* temporary authorization nonces
    Call,        \* invocations: a request with its authorization
    Mode,        \* Mode[call]: the AuthMode of the call
    Tree,        \* authorization trees
    Expected,    \* Expected[call]: the tree a MockExact call insists on
    Candidate,   \* local installations: an address, code and constructor arguments
    Address,     \* Address[x]: the contract address of candidate x
    Code,        \* Code[x]: the code entry of candidate x
    Run(_, _),       \* Run(call, ledger): the run of an invocation
    Construct(_, _)  \* Construct(x, ledger): the run of register_at for candidate x

Entry == Value \cup {Absent}

State == {s \in [Key -> Entry] : \A k \in Key : s[k] \in Shape[k] \cup {Absent}}

IsOutcome(o) ==
    /\ o.ok \in BOOLEAN
    /\ o.tree \in Tree
    /\ o.reads \subseteq Key
    /\ DOMAIN o.writes \subseteq Key
    /\ \A k \in DOMAIN o.writes : o.writes[k] \in Shape[k] \cup {Absent}
    /\ ~o.ok => DOMAIN o.writes = {}

Touched(o) == o.reads \cup DOMAIN o.writes

\* The ledger after a run's writes.
Overlay(s, w) == [k \in Key |-> IF k \in DOMAIN w THEN w[k] ELSE s[k]]

\* The changes of a ledger, in the keys that changed.
StateDiff(s, t) == [k \in {k \in Key : s[k] # t[k]} |-> t[k]]

\* Ledgers that differ only in keys outside ks.
SameOn(s, t, ks) == \A k \in ks : s[k] = t[k]

ASSUME KeyAssumption ==
    /\ Absent \notin Value
    /\ Shape \in [Key -> SUBSET Value]
    /\ NoContract \notin Contract
    /\ Owner \in [Key -> Contract \cup {NoContract}]
    /\ InstanceKey \in [Contract -> Key]
    /\ \A c \in Contract : Owner[InstanceKey[c]] = c /\ InstanceKey[c] \notin NonceKey
    /\ CodeKey \subseteq Key /\ NonceKey \subseteq Key
    /\ CodeKey \cap NonceKey = {}
ASSUME CallAssumption ==
    /\ Mode \in [Call -> {"Record", "MockExact", "Enforce"}]
    /\ Expected \in [Call -> Tree]
    /\ Address \in [Candidate -> Contract]
    /\ Code \in [Candidate -> CodeKey]
ASSUME RunAssumption ==
    /\ \A call \in Call, s \in State : IsOutcome(Run(call, s))
    /\ \A call \in Call, s, t \in State :
         SameOn(s, t, Run(call, s).reads) => Run(call, t) = Run(call, s)
ASSUME ConstructAssumption ==
    /\ \A x \in Candidate, s \in State :
         /\ IsOutcome(Construct(x, s))
         /\ Construct(x, s).ok
              => /\ {InstanceKey[Address[x]], Code[x]} \subseteq DOMAIN Construct(x, s).writes
                 /\ Construct(x, s).writes[InstanceKey[Address[x]]] # Absent
                 /\ Construct(x, s).writes[Code[x]] # Absent
    /\ \A x \in Candidate, s, t \in State :
         SameOn(s, t, Construct(x, s).reads) => Construct(x, t) = Construct(x, s)
=============================================================================
