---------------------------- MODULE LedgerCapture ----------------------------
(***************************************************************************)
(* Execution-driven capture of network state (src/capture.rs) and strict   *)
(* offline replay of the sealed capture.                                   *)
(*                                                                         *)
(* A capture re-reads one growing inventory of ledger keys until every     *)
(* value comes from one ledger (materialize), closes it over executables   *)
(* (expand_code_closure), runs the scenario on it with single-key RPC      *)
(* reads for the keys it does not hold (TrackingSource), adds the keys the *)
(* scenario touched, and starts again until a pass adds nothing.  Every    *)
(* RPC is one step, so the network closes ledgers between any two of them, *)
(* and a load-balanced node may answer from a ledger behind the head.      *)
(*                                                                         *)
(* The scenario is user code that is deterministic in what it reads: an    *)
(* automaton over the positions Prog.  In position s it does Op[s] at the  *)
(* key At[s] and goes on to Goto[s][answer].                               *)
(***************************************************************************)
EXTENDS Integers, FiniteSets

CONSTANTS
    Key,              \* ledger keys
    ConfigKey,        \* the state-archival config setting
    Data,             \* payloads of plain entries
    Ledger,           \* ledger sequence numbers of the network's history
    LedgerAt,         \* LedgerAt[n][k]: the entry at k once ledger n has closed
    ProtocolAt,       \* ProtocolAt[n]: the protocol version of ledger n
    Sound,            \* Sound[n][k]: the entry passes the metadata and code-hash checks
    Accepted,         \* protocol versions the policy accepts
    Lag,              \* how many ledgers behind the head a node may answer
    BatchSize,        \* MAX_KEYS_PER_BATCH
    MaxAttempts,      \* max_coherence_attempts
    MaxRounds,        \* max_discovery_rounds
    MaxClosureRounds, \* MAX_EXECUTABLE_CLOSURE_ROUNDS
    Inventories,      \* key sets a capture may start from (roots, or a cached inventory)
    Prog, Starts, Op, At, Marks, Goto

Absent == [t |-> "absent"]
Err    == [t |-> "err"]

\* Keys an inventory may hold: the config setting is read beside it.
EntryKey == Key \ {ConfigKey}

\* An entry as far as the capture tells entries apart: a contract instance
\* names its executable, an executable tag holds the hash of a code entry.
Value == {Absent}
           \cup [t : {"plain"}, d : Data]
           \cup [t : {"sac"}]
           \cup [t : {"wasm"}, code : EntryKey]
           \cup [t : {"ref"}, tag : EntryKey]
           \cup [t : {"bytes"}, code : EntryKey]

ASSUME KeyAssumption == ConfigKey \in Key /\ IsFiniteSet(Key)
ASSUME HistoryAssumption ==
    /\ Ledger \subseteq Nat \ {0}
    /\ LedgerAt \in [Ledger -> [Key -> Value]]
    /\ ProtocolAt \in [Ledger -> Nat]
    /\ Sound \in [Ledger -> [Key -> BOOLEAN]]
    /\ Accepted \subseteq Nat
ASSUME BoundAssumption ==
    /\ Lag \in Nat
    /\ {BatchSize, MaxAttempts, MaxRounds, MaxClosureRounds} \subseteq Nat \ {0}
    /\ Inventories \subseteq SUBSET EntryKey
\* A scenario has no way to write a network config setting.
ASSUME ScenarioAssumption ==
    /\ Starts \subseteq Prog
    /\ Op \in [Prog -> {"read", "write", "mark", "return", "panic"}]
    /\ At \in [Prog -> Key]
    /\ Marks \in [Prog -> SUBSET Key]
    /\ Goto \in [Prog -> [Value \cup {Err} -> Prog]]
    /\ \A s \in Prog : Op[s] = "write" => At[s] # ConfigKey

VARIABLES
    head,       \* the last ledger the network closed
    pc, result, \* where the capture is; how it ended
    keys,       \* inventory
    round, closureRound,
    attempt, before, pending, matches, partial,  \* one attempt of materialize
    anchor, coverage,                            \* Materialized
    prog, local,                                 \* the scenario; the keys LocalLedger owns
    cache, requested, unknown, rpcReads, failure,\* TrackingSource
    stored,     \* keys the host holds because the scenario wrote them
    start, running, \* the scenario captured; the scenario running now
    trail, seen     \* history: positions of the last capturing pass; answers of the pass

inventoryVars == <<keys, round, closureRound>>
attemptVars   == <<attempt, before, pending, matches, partial>>
materialized  == <<anchor, coverage>>
sourceVars    == <<cache, requested, unknown, rpcReads, failure>>
passVars      == <<prog, local, sourceVars, stored, running, trail, seen>>
vars == <<head, pc, result, inventoryVars, attemptVars, materialized, passVars, start>>

Nothing == [k \in {} |-> Absent]

-----------------------------------------------------------------------------
(* The network *)

\* Ledgers a node may answer from now.
Serving == {n \in Ledger : n <= head /\ head <= n + Lag}

CloseLedger ==
    /\ head + 1 \in Ledger
    /\ head' = head + 1
    /\ UNCHANGED <<pc, result, inventoryVars, attemptVars, materialized, passVars, start>>

-----------------------------------------------------------------------------
(* Capture: control shared by the steps *)

\* An error returned with `?`, or the sealed fixture: the capture ends.
End(r) ==
    /\ pc' = "done"
    /\ result' = r
    /\ UNCHANGED attemptVars

\* materialize starts an attempt.
Attempt(i) ==
    /\ pc' = "before"
    /\ attempt' = i
    /\ before' = 0
    /\ pending' = {}
    /\ matches' = TRUE
    /\ partial' = Nothing
    /\ UNCHANGED result

\* A pass of scenario s over the given coverage, with a fresh LocalLedger and
\* a fresh TrackingSource.
StartPass(s, base) ==
    /\ prog' = s
    /\ running' = s
    /\ local' = {}
    /\ cache' = base
    /\ requested' = {}
    /\ unknown' = {}
    /\ rpcReads' = FALSE
    /\ failure' = FALSE
    /\ stored' = {}
    /\ seen' = {}

-----------------------------------------------------------------------------
(* capture_ref_from_keys: validate_network, then materialize *)

Init ==
    /\ head \in Ledger
    /\ pc = "validate" /\ result = "none"
    /\ keys \in Inventories
    /\ round = 0 /\ closureRound = 0
    /\ attempt = 0 /\ before = 0 /\ pending = {} /\ matches = TRUE /\ partial = Nothing
    /\ anchor = 0 /\ coverage = Nothing
    /\ start \in Starts
    /\ prog = start /\ running = start /\ local = {} /\ stored = {}
    /\ cache = Nothing /\ requested = {} /\ unknown = {} /\ rpcReads = FALSE /\ failure = FALSE
    /\ trail = {} /\ seen = {}

\* The passphrase the endpoint reports may be another network's.
ValidateNetwork ==
    /\ pc = "validate"
    /\ \/ /\ \E n \in Serving : ProtocolAt[n] \in Accepted
          /\ Attempt(1)
       \/ /\ \E n \in Serving : ProtocolAt[n] \notin Accepted
          /\ End("UnsupportedProtocol")
       \/ End("NetworkMismatch")
    /\ UNCHANGED <<head, inventoryVars, materialized, passVars, start>>

\* Any RPC of validate_network or materialize may fail; its error is returned.
TransportFailure ==
    /\ pc \in {"validate", "before", "batch", "after"}
    /\ End("TransportFailure")
    /\ UNCHANGED <<head, inventoryVars, materialized, passVars, start>>

\* The anchor of the attempt; the state-archival setting rides with the inventory.
ReadBefore ==
    /\ pc = "before"
    /\ \E n \in Serving :
         \/ /\ ProtocolAt[n] \in Accepted
            /\ pc' = "batch"
            /\ before' = n
            /\ pending' = keys \cup {ConfigKey}
            /\ UNCHANGED <<result, attempt, matches, partial>>
         \/ /\ ProtocolAt[n] \notin Accepted
            /\ End("UnsupportedProtocol")
    /\ UNCHANGED <<head, inventoryVars, materialized, passVars, start>>

\* A chunk of at most BatchSize keys.  Which keys share a chunk follows the
\* order of their encodings, so any choice is possible.
IsChunk(c) ==
    /\ c \subseteq pending
    /\ Cardinality(c) = IF Cardinality(pending) < BatchSize THEN Cardinality(pending) ELSE BatchSize

\* The values of the chunk's keys, the config setting apart.
Extend(cov, c, n) ==
    [k \in DOMAIN cov \cup (c \ {ConfigKey}) |->
        IF k \in DOMAIN cov THEN cov[k] ELSE LedgerAt[n][k]]

\* Mutant: batches of another ledger are taken as they come.
AnyBatchMatches(n) == FALSE

BatchMismatch(n) == n # before

\* One getLedgerEntries of the attempt.  An answer from another ledger ends
\* the batches; entries that were not asked for, or twice, are malformed.
ReadBatch ==
    /\ pc = "batch"
    /\ \E n \in Serving, c \in SUBSET pending :
         /\ IsChunk(c)
         /\ \/ /\ BatchMismatch(n)
               /\ matches' = FALSE
               /\ pc' = "after"
               /\ UNCHANGED <<result, attempt, before, pending, partial>>
            \/ /\ ~BatchMismatch(n)
               /\ End("MalformedRpc")
            \/ /\ ~BatchMismatch(n)
               /\ ConfigKey \in c /\ LedgerAt[n][ConfigKey] = Absent
               /\ End("MissingStateArchival")
            \/ /\ ~BatchMismatch(n)
               /\ ConfigKey \in c => LedgerAt[n][ConfigKey] # Absent
               /\ partial' = Extend(partial, c, n)
               /\ pending' = pending \ c
               /\ pc' = IF pending = c THEN "after" ELSE "batch"
               /\ UNCHANGED <<result, attempt, before, matches>>
    /\ UNCHANGED <<head, inventoryVars, materialized, passVars, start>>

\* validate_coverage of the attempt's entries.
ValidCoverage == \A k \in DOMAIN partial : partial[k] = Absent \/ Sound[before][k]

\* Mutant: an attempt that saw the ledger move does not count.
SameAttempt == attempt

NextAttempt == attempt + 1

\* The anchor is read again; the attempt counts only when nothing moved.
ReadAfter ==
    /\ pc = "after"
    /\ \E n \in Serving :
         \/ /\ ~matches \/ n # before
            /\ \/ attempt < MaxAttempts /\ Attempt(NextAttempt)
               \/ attempt >= MaxAttempts /\ End("IncoherentLedger")
            /\ UNCHANGED materialized
         \/ /\ matches /\ n = before
            /\ ~ValidCoverage
            /\ End("MalformedRpc")
            /\ UNCHANGED materialized
         \/ /\ matches /\ n = before
            /\ ValidCoverage
            /\ anchor' = before
            /\ coverage' = partial
            /\ pc' = "closure"
            /\ UNCHANGED <<result, attemptVars>>
    /\ UNCHANGED <<head, inventoryVars, passVars, start>>

-----------------------------------------------------------------------------
(* expand_code_closure *)

\* Tags that instances of the coverage point to.
Tags(cov) == {cov[k].tag : k \in {k \in DOMAIN cov : cov[k].t = "ref"}}

\* Code that the coverage's instances run, as far as it is known.
Codes(cov) ==
    {cov[k].code : k \in {k \in DOMAIN cov : cov[k].t = "wasm"}}
      \cup {cov[tag].code : tag \in {tag \in Tags(cov) \cap DOMAIN cov : cov[tag].t = "bytes"}}

Required(cov) == Tags(cov) \cup Codes(cov)

\* external_ref_code_key refuses a covered tag that is absent or holds no hash.
BadReference(cov, e) ==
    \E tag \in Tags(cov) \cap DOMAIN cov :
        \/ e = "MissingExecutableReference" /\ cov[tag] = Absent
        \/ e = "MalformedExecutableReference" /\ cov[tag].t \notin {"absent", "bytes"}

References == {"MissingExecutableReference", "MalformedExecutableReference"}

\* Mutant: only the tags are checked, not the code they lead to.
TagsPresent(cov) == Tags(cov) \subseteq DOMAIN cov

\* ensure_executable_closure_present
ClosurePresent(cov) ==
    /\ Tags(cov) \subseteq DOMAIN cov
    /\ \A code \in Codes(cov) : code \in DOMAIN cov /\ cov[code] # Absent

NoBadReference == \A e \in References : ~BadReference(coverage, e)

RejectReference ==
    /\ pc = "closure"
    /\ \E e \in References : BadReference(coverage, e) /\ End(e)
    /\ UNCHANGED <<head, inventoryVars, materialized, passVars, start>>

\* New executables join the inventory and everything is read again.
ExpandClosure ==
    /\ pc = "closure"
    /\ NoBadReference
    /\ ~(Required(coverage) \subseteq keys)
    /\ keys' = keys \cup Required(coverage)
    /\ \/ /\ closureRound < MaxClosureRounds
          /\ closureRound' = closureRound + 1
          /\ Attempt(1)
       \/ /\ closureRound >= MaxClosureRounds
          /\ End("ExecutableClosureLimit")
          /\ UNCHANGED closureRound
    /\ UNCHANGED <<head, round, materialized, passVars, start>>

\* The closure is complete: the next discovery round runs the scenario.
CloseClosure ==
    /\ pc = "closure"
    /\ NoBadReference
    /\ Required(coverage) \subseteq keys
    /\ \/ /\ ~ClosurePresent(coverage)
          /\ End("MissingReferencedCode")
          /\ UNCHANGED <<round, passVars>>
       \/ /\ ClosurePresent(coverage)
          /\ round >= MaxRounds
          /\ End("FixedPointLimit")
          /\ UNCHANGED <<round, passVars>>
       \/ /\ ClosurePresent(coverage)
          /\ round < MaxRounds
          /\ round' = round + 1
          /\ pc' = "pass"
          /\ StartPass(start, coverage)
          /\ trail' = {<<start, {}>>}
          /\ UNCHANGED <<result, attemptVars>>
    /\ UNCHANGED <<head, keys, closureRound, materialized, start>>

-----------------------------------------------------------------------------
(* The scenario, in a discovery pass ("pass") or a strict replay ("replay") *)

Executing == pc \in {"pass", "replay"}

\* The scenario goes on with an answer; loc is what it owns from now on.
Resume(answer, loc) ==
    /\ prog' = Goto[prog][answer]
    /\ local' = loc
    /\ trail' = IF pc = "pass" THEN trail \cup {<<Goto[prog][answer], loc>>} ELSE trail
    /\ UNCHANGED <<head, pc, result, inventoryVars, attemptVars, materialized, running, start>>

\* The answer to a lookup of the network state, Err when it is refused.
Answer(k, v) ==
    /\ seen' = seen \cup {<<k, v>>}
    /\ Resume(v, local)
    /\ UNCHANGED stored

Reading(k) == Executing /\ Op[prog] = "read" /\ At[prog] = k

\* Once a lookup has failed every later one does.
GetLatched(k) ==
    /\ Reading(k)
    /\ failure
    /\ Answer(k, Err)
    /\ UNCHANGED sourceVars

\* Locally owned keys do not exist on the network.
GetLocal(k) ==
    /\ Reading(k)
    /\ ~failure
    /\ k \in local
    /\ Resume(Absent, local)
    /\ UNCHANGED <<sourceVars, stored, seen>>

GetCached(k) ==
    /\ Reading(k)
    /\ ~failure
    /\ k \notin local
    /\ k \in DOMAIN cache
    /\ requested' = requested \cup {k}
    /\ Answer(k, cache[k])
    /\ UNCHANGED <<cache, unknown, rpcReads, failure>>

Missed(k) == Reading(k) /\ ~failure /\ k \notin local \cup DOMAIN cache

\* Strict replay has no transport: the key is unknown and the lookup fails.
GetUnknown(k) ==
    /\ Missed(k)
    /\ pc = "replay"
    /\ requested' = requested \cup {k}
    /\ unknown' = unknown \cup {k}
    /\ Answer(k, Err)
    /\ UNCHANGED <<cache, rpcReads, failure>>

\* A discovery pass asks one node for the one key, whatever ledger it is at.
GetFromRpc(k) ==
    /\ Missed(k)
    /\ pc = "pass"
    /\ requested' = requested \cup {k}
    /\ rpcReads' = TRUE
    /\ \E n \in Serving :
         /\ cache' = [x \in DOMAIN cache \cup {k} |-> IF x = k THEN LedgerAt[n][k] ELSE cache[x]]
         /\ Answer(k, LedgerAt[n][k])
    /\ UNCHANGED <<unknown, failure>>

\* The transport fails, or the answer is malformed: the failure is latched.
GetFails(k) ==
    /\ Missed(k)
    /\ pc = "pass"
    /\ requested' = requested \cup {k}
    /\ rpcReads' = TRUE
    /\ failure' = TRUE
    /\ Answer(k, Err)
    /\ UNCHANGED <<cache, unknown>>

Get(k) ==
    GetLatched(k) \/ GetLocal(k) \/ GetCached(k) \/ GetUnknown(k) \/ GetFromRpc(k) \/ GetFails(k)

\* The host stores an entry without looking it up.
Write ==
    /\ Executing /\ Op[prog] = "write"
    /\ stored' = stored \cup {At[prog]}
    /\ Resume(Absent, local)
    /\ UNCHANGED <<sourceVars, seen>>

\* mark_address, mark_code: the keys are local test setup from now on.
Mark ==
    /\ Executing /\ Op[prog] = "mark"
    /\ Resume(Absent, local \cup Marks[prog])
    /\ UNCHANGED <<sourceVars, stored, seen>>

\* The closure returned, or its panic was caught.
Finished == Op[prog] \in {"return", "panic"}

-----------------------------------------------------------------------------
(* The end of a discovery pass *)

\* Mutant: the config setting joins the inventory like any other key.
TouchedConfig == requested \cup (stored \ local)

\* Mutant: entries the host holds without a lookup are not inspected.
RequestedOnly == requested \ {ConfigKey}

\* The keys the pass needs from the network: what it looked up, and what the
\* host holds that the scenario does not own in the end.
Touched == (requested \cup (stored \ local)) \ {ConfigKey}

Inspecting == pc = "pass" /\ Finished

\* Keys the pass found join the inventory and everything is read again.
Discover ==
    /\ Inspecting
    /\ ~failure
    /\ ~(Touched \subseteq keys)
    /\ keys' = keys \cup Touched
    /\ closureRound' = 0
    /\ Attempt(1)
    /\ UNCHANGED <<head, round, materialized, passVars, start>>

\* Mutant: the caught panic is looked at before the latched failure.
PanicFirst ==
    IF Op[prog] = "panic" THEN "ScenarioPanicked"
    ELSE IF failure THEN "TransportFailure"
    ELSE IF rpcReads THEN "InternalInvariant"
    ELSE "Sealed"

\* Mutant: a pass that still read single keys may seal.
ReadsSealed ==
    IF failure THEN "TransportFailure"
    ELSE IF Op[prog] = "panic" THEN "ScenarioPanicked"
    ELSE "Sealed"

\* A fixed point: the pass ran on the inventory alone.
Verdict ==
    IF failure THEN "TransportFailure"
    ELSE IF Op[prog] = "panic" THEN "ScenarioPanicked"
    ELSE IF rpcReads THEN "InternalInvariant"
    ELSE "Sealed"

Seal ==
    /\ Inspecting
    /\ failure \/ Touched \subseteq keys
    /\ End(Verdict)
    /\ UNCHANGED <<head, inventoryVars, materialized, passVars, start>>

-----------------------------------------------------------------------------
(* CapturedFixture::replay, of the captured scenario or of another one *)

StartReplay ==
    /\ pc = "done" /\ result = "Sealed"
    /\ pc' = "replay"
    /\ \E s \in Starts : StartPass(s, coverage)
    /\ UNCHANGED <<head, result, inventoryVars, attemptVars, materialized, trail, start>>

\* Mutant: refusals the scenario swallowed are forgotten.
StoredUnknowns == (stored \ local) \ DOMAIN coverage

\* Keys the replay needed and the capture does not hold.
Unknowns == unknown \cup ((stored \ local) \ DOMAIN coverage)

FinishReplay ==
    /\ pc = "replay" /\ Finished
    /\ pc' = "replayed"
    /\ result' = IF Unknowns # {} THEN "UnknownLedgerKeys"
                 ELSE IF Op[prog] = "panic" THEN "ScenarioPanicked"
                 ELSE "Returned"
    /\ UNCHANGED <<head, inventoryVars, attemptVars, materialized, passVars, start>>

-----------------------------------------------------------------------------
Scenario == (\E k \in Key : Get(k)) \/ Write \/ Mark

Capture ==
    \/ ValidateNetwork \/ TransportFailure
    \/ ReadBefore \/ ReadBatch \/ ReadAfter
    \/ RejectReference \/ ExpandClosure \/ CloseClosure
    \/ Scenario \/ Discover \/ Seal

Next == CloseLedger \/ Capture \/ StartReplay \/ FinishReplay

Spec == Init /\ [][Next]_vars

\* The capture runs in one thread, every RPC has a deadline and the scenario
\* is a terminating closure: the capture is never abandoned half way.
FairSpec == Spec /\ WF_vars(Capture)
-----------------------------------------------------------------------------
(* Properties *)

IsCoverage(f) == DOMAIN f \subseteq Key /\ f \in [DOMAIN f -> Value]

\* Every variable has its type.
TypeOK ==
    /\ head \in Ledger
    /\ pc \in {"validate", "before", "batch", "after", "closure", "pass", "done",
               "replay", "replayed"}
    /\ keys \subseteq EntryKey
    /\ round \in 0..MaxRounds /\ closureRound \in 0..MaxClosureRounds
    /\ attempt \in 0..MaxAttempts
    /\ before \in Ledger \cup {0} /\ anchor \in Ledger \cup {0}
    /\ pending \subseteq Key /\ matches \in BOOLEAN
    /\ IsCoverage(partial) /\ IsCoverage(coverage) /\ IsCoverage(cache)
    /\ prog \in Prog /\ start \in Starts /\ running \in Starts
    /\ local \subseteq Key /\ requested \subseteq Key
    /\ unknown \subseteq Key /\ stored \subseteq Key
    /\ rpcReads \in BOOLEAN /\ failure \in BOOLEAN
    /\ trail \subseteq Prog \X SUBSET Key
    /\ seen \subseteq Key \X (Value \cup {Err})

IsSealed == pc = "done" /\ result = "Sealed"

\* What the anchor ledger holds at the keys, and nothing else.
CoherentAt(cov, n) ==
    /\ n \in Ledger
    /\ ProtocolAt[n] \in Accepted
    /\ \A k \in DOMAIN cov : cov[k] = LedgerAt[n][k]

\* A scenario only ever starts on, and a sealed capture only ever holds, the
\* whole inventory as one accepted ledger has it, however often the ledger
\* closed between the batches, the closure rounds and the single reads
\* (materialize, expand_code_closure, capture_ref_from_keys).
CaptureCoherent ==
    (pc \in {"pass", "replay", "replayed"} \/ IsSealed)
        => DOMAIN coverage = keys /\ CoherentAt(coverage, anchor)

\* Every contract instance a sealed capture holds can be executed from the
\* capture alone: its code, and the tag in between, are present at the same
\* ledger (expand_code_closure, ensure_executable_closure_present).
SealedExecutable ==
    IsSealed =>
        \A k \in keys :
            LET v == LedgerAt[anchor][k]
                Runs(code) == code \in keys /\ coverage[code] # Absent
            IN  /\ v.t = "wasm" => Runs(v.code)
                /\ v.t = "ref" => /\ v.tag \in keys
                                  /\ coverage[v.tag].t = "bytes"
                                  /\ Runs(coverage[v.tag].code)

\* A pass decides the capture, by sealing it or by reporting that the scenario
\* panicked, only when every lookup in it got the anchor ledger's value: a
\* panic provoked by single reads of two ledgers, or by a lookup the transport
\* lost, is never reported as the scenario's, nor sealed when the scenario
\* swallowed it (take_failure, added, outcome.is_err in that order).
DecidedOnOneLedger ==
    pc = "done" /\ result \in {"Sealed", "ScenarioPanicked"}
        => \A a \in seen : a[1] # ConfigKey => a[2] = LedgerAt[anchor][a[1]]

\* Replaying the captured scenario never needs a key the capture does not
\* hold, and it returns where the sealing pass returned (replay_with_local).
ReplayReproduces ==
    pc = "replayed" /\ running = start
        => result = "Returned" /\ <<prog, local>> \in trail

\* A replay, of any scenario, that is not refused saw the anchor ledger's
\* values only: a key outside the capture is never answered, as absent or
\* otherwise, and a scenario that swallows the refusal does not hide it.
ReplayFailsClosed ==
    pc = "replayed" /\ result # "UnknownLedgerKeys"
        => /\ \A a \in seen : a[2] = LedgerAt[anchor][a[1]]
           /\ stored \subseteq keys \cup local

\* Whatever the network does, the capture comes to an end: it seals or it
\* reports one of its errors (the attempt, discovery and closure bounds).
CaptureReturns == <>(pc = "done")

\* What a capture step may lower: the passes, closure rounds, attempts and keys
\* that are left, and the place in the loop, the outermost of them first.
Descends ==
    LET Stage == [validate |-> 5, before |-> 4, batch |-> 3, after |-> 2, closure |-> 1]
        Looping == pc # "pass" /\ pc' # "pass"
    IN  \/ pc' = "done"
        \/ round < round'
        \/ round = round' /\ pc = "pass" /\ pc' # "pass"
        \/ /\ round = round' /\ Looping
           /\ \/ closureRound < closureRound'
              \/ /\ closureRound = closureRound'
                 /\ \/ attempt < attempt'
                    \/ attempt = attempt' /\ Stage[pc'] < Stage[pc]
                    \/ attempt = attempt' /\ pc = "batch" /\ pc' = "batch"
                       /\ pending' \subseteq pending /\ pending' # pending

\* No step of a capture is made in vain: whatever a node answers, every retry,
\* closure round and pass uses up one of a bounded number, and nothing gives
\* one back without using up one further out (the loops of materialize,
\* expand_code_closure and capture_ref_from_keys).  The network and the scenario,
\* whose steps these are not, leave them alone.
CaptureDescends ==
    [][\/ pc \in {"done", "replay", "replayed"}
       \/ /\ pc = "pass" \/ head' # head
          /\ UNCHANGED <<pc, round, closureRound, attempt, pending>>
       \/ Descends]_vars

-----------------------------------------------------------------------------
(* Refinement *)

\* The run of the scenario, unless it needed more than the coverage: a key the
\* inventory does not hold, or a lookup that failed.
OwnRun ==
    IF \/ pc = "pass" /\ ~failure /\ requested \subseteq keys \cup {ConfigKey}
       \/ pc = "replay" /\ unknown = {}
      THEN {[at |-> prog, local |-> local, written |-> stored, config |-> rpcReads]}
      ELSE {}

Atomic == INSTANCE AtomicCapture WITH
            fixture <- [ledger |-> anchor, entries |-> coverage],
            run <- OwnRun,
            verdict <- result

\* Whatever the network does between its RPCs, a capture is one reading of one
\* ledger on which the scenario ran, and a replay is another run on the same
\* entries (materialize, TrackingSource::get, added, replay_with_local).
CaptureIsAtomic == Atomic!Spec
=============================================================================
