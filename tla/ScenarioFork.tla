---------------------------- MODULE ScenarioFork ----------------------------
(***************************************************************************)
(* One pass of a scenario over a shared environment (src/auto.rs).         *)
(*                                                                         *)
(* A pass is either online, where a lookup the capture cannot answer goes  *)
(* to a node whatever ledger it is at, or strict, where it is refused.     *)
(* The scenario calls contracts, previews calls in a child environment,    *)
(* and sets up local accounts, local contracts and local code.             *)
(*                                                                         *)
(* ideal, faithful and informed are history: the ledger the same steps     *)
(* leave on a complete copy of the network, whether every answer so far is *)
(* the one that copy gives, and whether no preview looked up an unknown    *)
(* key where nobody noticed.                                               *)
(***************************************************************************)
EXTENDS Host, Integers

CONSTANTS
    Network,      \* the network's ledger at the capture's anchor
    Captures,     \* the sets of keys a capture may hold
    Serving,      \* the ledgers a node may answer from
    Label,        \* labels of local accounts
    AccountKey,   \* AccountKey[l]: the account entry of the account of label l
    Holder,       \* Holder[k]: the label whose account or trustline k is, or NoLabel
    NoLabel,
    Amount,       \* funding amounts a scenario tries
    MinBalance,   \* two base reserves
    MaxBalance,   \* the largest balance, i64::MAX
    NewAccount(_),     \* an account entry with a balance
    Balance(_),        \* the balance of an account entry
    WithBalance(_, _), \* the entry with another balance
    WasmEntry,         \* WasmEntry[code]: the code entry the host stores
    IsToken(_),        \* the instance is a Stellar Asset Contract
    WithWasm(_, _),    \* the instance with another executable
    RolledBack(_)      \* what a run looked up in frames that failed

ASSUME ScenarioAssumption ==
    /\ Network \in State /\ Serving \subseteq State
    /\ Captures \subseteq SUBSET Key
    /\ AccountKey \in [Label -> Key \ NonceKey]
    /\ NoLabel \notin Label
    /\ Holder \in [Key -> Label \cup {NoLabel}]
    /\ \A l \in Label : Holder[AccountKey[l]] = l
    /\ \A k \in CodeKey : Owner[k] = NoContract
    /\ Amount \subseteq Int /\ MinBalance \in Nat /\ MaxBalance \in Nat
ASSUME EntryAssumption ==
    /\ \A l \in Label, n \in 0..MaxBalance :
         /\ NewAccount(n) \in Shape[AccountKey[l]]
         /\ \A v \in Shape[AccountKey[l]] : WithBalance(v, n) \in Shape[AccountKey[l]]
    /\ \A l \in Label : \A v \in Shape[AccountKey[l]] : Balance(v) \in 0..MaxBalance
    /\ \A code \in CodeKey : WasmEntry[code] \in Shape[code]
    /\ \A c \in Contract, code \in CodeKey :
         \A v \in Shape[InstanceKey[c]] : WithWasm(v, code) \in Shape[InstanceKey[c]]
\* Nothing on the network belongs to a contract without an instance, or to an
\* account without an account entry.
ASSUME OwnershipAssumption ==
    /\ \A k \in Key, c \in Contract :
         Owner[k] = c /\ Network[InstanceKey[c]] = Absent => Network[k] = Absent
    /\ \A k \in Key, l \in Label :
         Holder[k] = l /\ Network[AccountKey[l]] = Absent => Network[k] = Absent

\* A call removes no account entry and no contract instance.
Root == {AccountKey[l] : l \in Label} \cup {InstanceKey[c] : c \in Contract}

ASSUME RootAssumption ==
    \A s \in State, k \in Root :
        /\ \A call \in Call : k \in DOMAIN Run(call, s).writes => Run(call, s).writes[k] # Absent
        /\ \A x \in Candidate :
             k \in DOMAIN Construct(x, s).writes => Construct(x, s).writes[k] # Absent

VARIABLES
    online,         \* the pass has a transport
    captured,       \* the captured keys
    stored,         \* entries the host holds, Absent where a lookup found none
    cache,          \* what the source knows of the network
    requested,      \* keys the source was asked for
    unknown,        \* keys a strict source refused
    failure,        \* a lookup failed on the transport
    localAccounts, localContracts, localCode,
    over,           \* the scenario panicked
    ideal, faithful, informed

passVars == <<online, captured>>
sourceVars == <<cache, requested, unknown, failure>>
localVars == <<localAccounts, localContracts, localCode>>
vars == <<passVars, stored, sourceVars, localVars, over, ideal, faithful, informed>>

Restriction(s, ks) == [k \in ks |-> s[k]]
Extended(f, g) == [k \in DOMAIN f \cup DOMAIN g |-> IF k \in DOMAIN g THEN g[k] ELSE f[k]]

Init ==
    /\ online \in BOOLEAN
    /\ captured \in Captures
    /\ stored = [k \in {} |-> Absent]
    /\ cache = Restriction(Network, captured)
    /\ requested = {} /\ unknown = {} /\ failure = FALSE
    /\ localAccounts = {} /\ localContracts = {} /\ localCode = {}
    /\ over = FALSE
    /\ ideal = Network /\ faithful = TRUE /\ informed = TRUE

-----------------------------------------------------------------------------
(* TrackingSource and the host's storage *)

\* LocalLedger::owns
Owned(accounts, contracts, code) ==
    {k \in Key : Holder[k] \in accounts \/ Owner[k] \in contracts} \cup code

Local == Owned(localAccounts, localContracts, localCode)

Nothing == [k \in Key |-> Absent]

\* Where the source turns to for what it does not know.
Beyond == IF online THEN Serving ELSE {Nothing}

\* The ledger a run of the host sees; rest answers what nobody else does.
View(own, rest) ==
    [k \in Key |-> IF k \in DOMAIN stored THEN stored[k]
                   ELSE IF k \in own THEN Absent
                   ELSE IF k \in DOMAIN cache THEN cache[k]
                   ELSE rest[k]]

\* Lookups of a run that reach the source.
Lookups(reads) == reads \ DOMAIN stored

Missing(ks, own) == ks \ (own \cup DOMAIN cache)

\* The source answers every lookup in ks.
Served(ks, own, rest) ==
    /\ failure => ks = {}
    /\ online \/ Missing(ks, own) = {}
    /\ requested' = requested \cup (ks \ own)
    /\ cache' = Extended(cache, Restriction(rest, Missing(ks, own)))
    /\ UNCHANGED <<unknown, failure>>

\* A latched failure, a key no capture holds, or the transport ends the run at
\* one of its lookups; some of the others came before it.
Refused(ks, own, rest) ==
    \/ /\ failure /\ ks # {}
       /\ UNCHANGED sourceVars
    \/ /\ ~failure
       /\ \E k \in Missing(ks, own), earlier \in SUBSET (ks \ own) :
            /\ online \/ Missing(earlier, own) = {}
            /\ requested' = requested \cup earlier \cup {k}
            /\ cache' = Extended(cache, Restriction(rest, Missing(earlier, own) \ {k}))
            /\ unknown' = IF online THEN unknown ELSE unknown \cup {k}
            /\ failure' = online

\* A frame that fails takes its lookups with it; what a run looked up before its
\* first frame, its contract's instance and code, stays.
Kept(run) == run.reads \ RolledBack(run)

\* The host holds what a run looked up, unless rolled back, and what it wrote.
Storing(run, seen) ==
    Extended(Extended(stored, Restriction(seen, Kept(run))), run.writes)

-----------------------------------------------------------------------------
(* invoke, try_invoke, and the generated clients *)

Ideally(call) == Run(call, ideal)

InvokeServed(call) == \E rest \in Beyond :
    LET seen == View(Local, rest)
        run  == Run(call, seen)
    IN  /\ Served(Lookups(run.reads), Local, rest)
        /\ stored' = Storing(run, seen)
        /\ over' \in (IF run.ok THEN {FALSE} ELSE BOOLEAN)
        /\ ideal' = Overlay(ideal, Ideally(call).writes)
        /\ faithful' = (faithful /\ run = Ideally(call))
        /\ UNCHANGED <<passVars, localVars>>

\* The host gives the call up; try_invoke returns, invoke panics.
InvokeRefused(call) == \E rest \in Beyond :
    /\ Refused(Lookups(Run(call, View(Local, rest)).reads), Local, rest)
    /\ over' \in BOOLEAN
    /\ faithful' = FALSE
    /\ UNCHANGED <<passVars, stored, localVars, ideal>>

-----------------------------------------------------------------------------
(* preview *)

\* The child has no source behind it: it sees what the host holds and the
\* captured entries, and nothing else exists for it.
ChildView ==
    [k \in Key |-> IF k \in DOMAIN stored THEN stored[k]
                   ELSE IF k \in captured THEN Network[k]
                   ELSE Absent]

\* Mutant: nothing of what the child touched is looked up in the source.
NoForwards(run) == {}

\* forward_preview_reads: every entry the child's host holds in the end but the
\* mocked nonces.
Forwards(run) == (Kept(run) \cup DOMAIN run.writes) \ NonceKey

\* What the child looked up and rolled back was known: the child has no source
\* that would have noticed.
Informed(run) ==
    (run.reads \ Kept(run)) \ NonceKey \subseteq DOMAIN stored \cup Local \cup captured

Told(run, seen) ==
    [ok |-> run.ok, tree |-> run.tree,
     changes |-> StateDiff(seen, [k \in Key |-> IF k \in NonceKey /\ seen[k] = Absent
                                                  THEN Absent ELSE Overlay(seen, run.writes)[k]])]

\* The complete ledger, with the nonces the child knows of.
IdealChildView == [k \in Key |-> IF k \in NonceKey THEN ChildView[k] ELSE ideal[k]]

TreeMatches(call, run) == Mode[call] = "MockExact" => run.tree = Expected[call]

\* A report, or AuthTreeMismatch where the caller insists on another tree. Where
\* the child was not informed, nothing is expected of the answer.
PreviewAnswered(call) ==
    LET run == Run(call, ChildView) IN
    /\ unknown = {}
    /\ \E rest \in Beyond : Served(Forwards(run), Local, rest)
    /\ informed' = (informed /\ Informed(run))
    /\ faithful' = (faithful /\ (Informed(run) =>
            LET best == Run(call, IdealChildView)
            IN  IF TreeMatches(call, run) THEN Told(run, ChildView) = Told(best, IdealChildView)
                ELSE ~TreeMatches(call, best)))
    /\ UNCHANGED <<passVars, stored, localVars, over, ideal>>

\* UnknownLedgerKeys names every key refused so far in the pass; HostInspection
\* tells of a transport that failed.
PreviewRefused(call) ==
    LET ks == Forwards(Run(call, ChildView)) IN
    /\ \/ /\ online
          /\ \E rest \in Beyond : Refused(ks, Local, rest)
       \/ /\ ~online
          /\ unknown \cup Missing(ks, Local) # {}
          /\ unknown' = unknown \cup Missing(ks, Local)
          /\ requested' = requested \cup (ks \ Local)
          /\ UNCHANGED <<cache, failure>>
    /\ faithful' = FALSE
    /\ UNCHANGED <<passVars, stored, localVars, over, ideal, informed>>

Preview(call) ==
    Mode[call] \in {"Record", "MockExact"} /\ (PreviewAnswered(call) \/ PreviewRefused(call))

-----------------------------------------------------------------------------
(* Local set-up *)

\* Mutant: a key the capture lacks is taken to be free.
NeverFound(k, rest) == FALSE

Found(k, rest) == View(Local, rest)[k] # Absent

\* The scenario looks a key up itself; the host keeps the answer.
Probe(k, rest) ==
    /\ Served(Lookups({k}), Local, rest)
    /\ stored' = Extended(stored, [x \in {k} |-> View(Local, rest)[k]])

Panic == over' = TRUE /\ UNCHANGED <<passVars, localVars, ideal, faithful>>

ProbeRefused(k) == \E rest \in Beyond :
    /\ Refused(Lookups({k}), Local, rest)
    /\ Panic
    /\ UNCHANGED stored

\* local_account, of a new label; a label in use changes nothing.
LocalAccount(l) ==
    /\ l \notin localAccounts
    /\ \/ ProbeRefused(AccountKey[l])
       \/ \E rest \in Beyond :
            /\ Probe(AccountKey[l], rest)
            /\ \/ /\ Found(AccountKey[l], rest)
                  /\ Panic
               \/ /\ ~Found(AccountKey[l], rest)
                  /\ localAccounts' = localAccounts \cup {l}
                  /\ UNCHANGED <<passVars, localContracts, localCode, over, ideal, faithful>>

\* Mutant: the balance is not checked for overflow.
Unchecked(n) == TRUE

Fits(n) == n <= MaxBalance

Sum(existing, amount) == IF existing = Absent THEN amount ELSE Balance(existing) + amount

MayFund(l, amount) ==
    /\ amount > 0
    /\ l \in localAccounts
    /\ stored[AccountKey[l]] = Absent => amount >= MinBalance
    /\ Fits(Sum(stored[AccountKey[l]], amount))

Holding(v, n) == IF v = Absent THEN NewAccount(n) ELSE WithBalance(v, n)

\* fund_local_account; the ideal account is credited whatever a word can hold.
Fund(l, amount) ==
    LET k == AccountKey[l] IN
    \/ /\ ~MayFund(l, amount)
       /\ Panic
       /\ UNCHANGED <<stored, sourceVars>>
    \/ /\ MayFund(l, amount)
       /\ stored' = [stored EXCEPT ![k] = Holding(stored[k], Sum(stored[k], amount))]
       /\ ideal' = [ideal EXCEPT ![k] =
                        Holding(ideal[k], amount + IF ideal[k] = Absent THEN 0 ELSE Balance(ideal[k]))]
       /\ UNCHANGED <<passVars, sourceVars, localVars, over, faithful>>

\* The constructor of a candidate whose address is free runs; the address and
\* the code are local already.
DeployRun(x, rest) ==
    LET k == InstanceKey[Address[x]]
        own == Owned(localAccounts, localContracts \cup {Address[x]}, localCode \cup {Code[x]})
        seen == View(own, rest)
        run  == Construct(x, seen)
        best == Construct(x, [ideal EXCEPT ![Code[x]] = seen[Code[x]]])
    IN  /\ ~Found(k, rest)
        /\ localContracts' = localContracts \cup {Address[x]}
        /\ localCode' = localCode \cup {Code[x]}
        /\ \/ /\ Served(Lookups({k} \cup run.reads), own \ {k}, rest)
              /\ over' = ~run.ok
              /\ stored' = Extended([y \in {k} |-> Absent], Storing(run, seen))
              /\ ideal' = Overlay(ideal, best.writes)
              /\ faithful' = (faithful /\ run = best)
           \/ /\ Refused(Lookups({k} \cup run.reads), own \ {k}, rest)
              /\ over' = TRUE
              /\ faithful' = FALSE
              /\ UNCHANGED <<stored, ideal>>
        /\ UNCHANGED <<passVars, localAccounts>>

\* deploy, of a candidate whose generated address was not generated before.
Deploy(x) ==
    LET k == InstanceKey[Address[x]] IN
    /\ Address[x] \notin localContracts
    /\ \/ ProbeRefused(k)
       \/ \E rest \in Beyond : Probe(k, rest) /\ Found(k, rest) /\ Panic
       \/ \E rest \in Beyond : DeployRun(x, rest)

\* replace_wasm, of a contract that has an instance and is no asset contract;
\* installing the code may fail.
ReplaceWasm(c, code) ==
    LET k == InstanceKey[c] IN
    \/ ProbeRefused(k)
    \/ \E rest \in Beyond : Probe(k, rest) /\ Panic
    \/ \E rest \in Beyond :
         LET instance == View(Local, rest)[k] IN
         /\ Found(k, rest)
         /\ ~IsToken(instance)
         /\ Served(Lookups({k}), Local, rest)
         /\ localCode' = localCode \cup {code}
         /\ stored' = Extended(stored, [y \in {k, code} |->
                        IF y = k THEN WithWasm(instance, code) ELSE WasmEntry[code]])
         /\ ideal' = [ideal EXCEPT ![k] = WithWasm(ideal[k], code), ![code] = WasmEntry[code]]
         /\ UNCHANGED <<passVars, localAccounts, localContracts, over, faithful>>

Next ==
    /\ ~over
    /\ \/ \E call \in Call : Preview(call)
       \/ /\ UNCHANGED informed
          /\ \/ \E call \in Call : InvokeServed(call) \/ InvokeRefused(call)
             \/ \E l \in Label : LocalAccount(l) \/ \E amount \in Amount : Fund(l, amount)
             \/ \E x \in Candidate : Deploy(x)
             \/ \E c \in Contract, code \in CodeKey : ReplaceWasm(c, code)

Spec == Init /\ [][Next]_vars

-----------------------------------------------------------------------------
(* Properties *)

\* The pass cannot be sealed, or its replay accepted, as things stand.
Void == failure \/ unknown # {} \/ ~(requested \subseteq captured)

IsPartial(f) ==
    /\ DOMAIN f \subseteq Key
    /\ f = [k \in DOMAIN f |-> f[k]]
    /\ \A k \in DOMAIN f : f[k] \in Shape[k] \cup {Absent}

Typed ==
    /\ online \in BOOLEAN /\ failure \in BOOLEAN
    /\ captured \subseteq Key
    /\ over \in BOOLEAN /\ faithful \in BOOLEAN
    /\ IsPartial(stored) /\ IsPartial(cache)
    /\ requested \subseteq Key /\ unknown \subseteq Key
    /\ localAccounts \subseteq Label
    /\ localContracts \subseteq Contract
    /\ localCode \subseteq CodeKey
    /\ ~Void => ideal \in State

\* Every variable has its type: a balance stays one an account can hold.
TypeOK == Typed /\ informed \in BOOLEAN

\* Unless the pass is void, whatever the environment answers next, from the
\* host, the source or a child of a preview, is the complete ledger's entry:
\* no collision of a local address was missed, no funding was lost or wrapped,
\* no local code hides another (mark_address, mark_code, fund_local_account).
Agreement ==
    ~Void /\ ~over =>
        \A k \in Key :
            LET known == k \in DOMAIN stored \/ k \in Local \/ k \in captured
            IN  known => /\ View(Local, Nothing)[k] = ideal[k]
                         /\ ChildView[k] = ideal[k]

\* Unless the pass is void, every call and constructor in it told what it tells
\* on the complete ledger, and so did every preview, although a child reads
\* uncaptured keys as absent: all it looked up is looked up in the source
\* afterwards, save what its host rolled back, which the child has to have known
\* (forward_preview_reads, try_invoke, deploy).
Faithful == ~Void => faithful

\* In a strict pass a preview answers only if it looked up nothing unknown: "an
\* unknown offline dependency" is an error. The code breaks this: what the child
\* looked up in a failed frame is gone when forward_preview_reads looks.
UnknownsReported == ~online => informed
=============================================================================
