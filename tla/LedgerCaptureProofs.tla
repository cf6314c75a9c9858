------------------------- MODULE LedgerCaptureProofs -------------------------
(***************************************************************************)
(* What holds of every capture and every strict replay, for every network  *)
(* history, scenario and bound.                                            *)
(***************************************************************************)
EXTENDS LedgerCapture, FiniteSetTheorems, TLAPS

-----------------------------------------------------------------------------
(* Types *)

\* A value read from a ledger of the history is a value.
LEMMA HistoryTyped ==
    ASSUME NEW n \in Ledger, NEW k \in Key
    PROVE  LedgerAt[n][k] \in Value
BY HistoryAssumption

\* The values of a batch extend an attempt's coverage to a coverage.
LEMMA ExtendTyped ==
    ASSUME NEW cov, IsCoverage(cov), NEW c \in SUBSET Key, NEW n \in Ledger
    PROVE  /\ IsCoverage(Extend(cov, c, n))
           /\ DOMAIN Extend(cov, c, n) = DOMAIN cov \cup (c \ {ConfigKey})
BY HistoryTyped DEF IsCoverage, Extend

\* The executables a coverage requires are inventory keys.
LEMMA RequiredTyped ==
    ASSUME NEW cov, IsCoverage(cov)
    PROVE  Required(cov) \subseteq EntryKey
<1>1. ASSUME NEW k \in DOMAIN cov
      PROVE  /\ cov[k].t = "ref" => cov[k].tag \in EntryKey
             /\ cov[k].t \in {"wasm", "bytes"} => cov[k].code \in EntryKey
  BY DEF IsCoverage, Value, Absent
<1> QED
  BY <1>1 DEF Required, Tags, Codes

\* The empty coverage.
LEMMA NothingTyped == IsCoverage(Nothing) /\ DOMAIN Nothing = {}
BY DEF IsCoverage, Nothing

\* Where the counters start, and that a guarded increment stays in bounds.
LEMMA Bounds ==
    /\ 0 \in 0..MaxRounds /\ 0 \in 0..MaxClosureRounds
    /\ 0 \in 0..MaxAttempts /\ 1 \in 0..MaxAttempts
    /\ \A i \in 0..MaxRounds : i < MaxRounds => i + 1 \in 0..MaxRounds
    /\ \A i \in 0..MaxClosureRounds : i < MaxClosureRounds => i + 1 \in 0..MaxClosureRounds
    /\ \A i \in 0..MaxAttempts : i < MaxAttempts => i + 1 \in 0..MaxAttempts
BY BoundAssumption

\* The initial state has its types.
LEMMA InitTyped == Init => TypeOK
<1> SUFFICES ASSUME Init PROVE TypeOK OBVIOUS
<1>1. keys \subseteq EntryKey
  BY BoundAssumption DEF Init
<1>2. IsCoverage(partial) /\ IsCoverage(coverage) /\ IsCoverage(cache)
  BY NothingTyped DEF Init
<1>3. prog \in Prog /\ start \in Starts /\ running \in Starts
  BY ScenarioAssumption DEF Init
<1> QED
  BY <1>1, <1>2, <1>3, Bounds DEF Init, TypeOK, EntryKey

\* No step of the capture, of a scenario or of the network breaks a type.
LEMMA StepTyped == TypeOK /\ [Next]_vars => TypeOK'
<1> SUFFICES ASSUME TypeOK, [Next]_vars PROVE TypeOK'
  OBVIOUS
<1> USE DEF TypeOK
<1>1. CASE CloseLedger
  BY <1>1 DEF CloseLedger, inventoryVars, attemptVars, materialized, passVars, sourceVars, IsCoverage
<1>2. CASE ValidateNetwork
  BY <1>2, NothingTyped, Bounds
  DEF ValidateNetwork, Attempt, End, inventoryVars, attemptVars, materialized, passVars, sourceVars
<1>3. CASE TransportFailure
  BY <1>3 DEF TransportFailure, End, inventoryVars, attemptVars, materialized, passVars, sourceVars
<1>4. CASE ReadBefore
  BY <1>4, KeyAssumption
  DEF ReadBefore, End, Serving, inventoryVars, attemptVars, materialized, passVars, sourceVars, EntryKey
<1>5. CASE ReadBatch
  <2>1. PICK n \in Serving, c \in SUBSET pending :
           \/ partial' = partial /\ pending' = pending
           \/ partial' = Extend(partial, c, n) /\ pending' = pending \ c
    BY <1>5 DEF ReadBatch, End, attemptVars
  <2>2. n \in Ledger /\ c \in SUBSET Key
    BY <2>1 DEF Serving
  <2>3. IsCoverage(Extend(partial, c, n))
    BY <2>2, ExtendTyped
  <2>4. IsCoverage(partial') /\ pending' \subseteq Key
    BY <2>1, <2>3
  <2> QED
    BY <1>5, <2>4 DEF ReadBatch, End, inventoryVars, attemptVars, materialized, passVars, sourceVars
<1>6. CASE ReadAfter
  BY <1>6, NothingTyped, Bounds
  DEF ReadAfter, Attempt, NextAttempt, End, inventoryVars, attemptVars, materialized, passVars, sourceVars
<1>7. CASE RejectReference
  BY <1>7 DEF RejectReference, End, inventoryVars, attemptVars, materialized, passVars, sourceVars
<1>8. CASE ExpandClosure
  BY <1>8, RequiredTyped, NothingTyped, Bounds
  DEF ExpandClosure, Attempt, End, inventoryVars, attemptVars, materialized, passVars, sourceVars
<1>9. CASE CloseClosure
  <2>1. round' \in 0..MaxRounds
    BY <1>9, Bounds DEF CloseClosure
  <2>2. <<start, {}>> \in Prog \X SUBSET Key
    BY ScenarioAssumption
  <2> QED
    BY <1>9, <2>1, <2>2, ScenarioAssumption
    DEF CloseClosure, StartPass, End, inventoryVars, attemptVars, materialized, passVars, sourceVars
<1>10. CASE Scenario
  <2>1. ASSUME NEW k \in Key, Get(k) PROVE TypeOK'
    <3> DEFINE Answered(v) == /\ prog' = Goto[prog][v] /\ local' = local
                              /\ trail' = IF pc = "pass" THEN trail \cup {<<prog', local'>>} ELSE trail
                              /\ seen' \in {seen, seen \cup {<<k, v>>}}
    <3>1. PICK v \in Value \cup {Err} : Answered(v)
      BY <2>1, HistoryTyped
      DEF Get, GetLatched, GetLocal, GetCached, GetUnknown, GetFromRpc, GetFails, Missed, Reading,
          Answer, Resume, Serving, IsCoverage, Value
    <3>2. Goto[prog][v] \in Prog
      BY <3>1, ScenarioAssumption
    <3>3. trail' \subseteq Prog \X SUBSET Key /\ seen' \subseteq Key \X (Value \cup {Err})
      BY <3>1, <3>2
    <3>4. IsCoverage(cache')
      BY <2>1, HistoryTyped
      DEF Get, GetLatched, GetLocal, GetCached, GetUnknown, GetFromRpc, GetFails, sourceVars,
          Missed, Reading, Serving, IsCoverage
    <3> HIDE DEF Answered
    <3>5. prog' \in Prog /\ local' = local
      BY <3>1, <3>2 DEF Answered
    <3> QED
      BY <2>1, <3>3, <3>4, <3>5
      DEF Get, GetLatched, GetLocal, GetCached, GetUnknown, GetFromRpc, GetFails, sourceVars,
          Answer, Resume, inventoryVars, attemptVars, materialized
  <2>2. CASE Write
    BY <2>2, ScenarioAssumption
    DEF Write, Resume, inventoryVars, attemptVars, materialized, sourceVars, Value
  <2>3. CASE Mark
    BY <2>3, ScenarioAssumption
    DEF Mark, Resume, inventoryVars, attemptVars, materialized, sourceVars, Value
  <2> QED BY <1>10, <2>1, <2>2, <2>3 DEF Scenario
<1>11. CASE Discover
  BY <1>11, NothingTyped, Bounds
  DEF Discover, Touched, Attempt, EntryKey, inventoryVars, attemptVars, materialized, passVars, sourceVars
<1>12. CASE Seal
  BY <1>12 DEF Seal, End, inventoryVars, attemptVars, materialized, passVars, sourceVars
<1>13. CASE StartReplay
  BY <1>13, ScenarioAssumption
  DEF StartReplay, StartPass, inventoryVars, attemptVars, materialized, passVars, sourceVars
<1>14. CASE FinishReplay
  BY <1>14 DEF FinishReplay, inventoryVars, attemptVars, materialized, passVars, sourceVars
<1>15. CASE UNCHANGED vars
  BY <1>15 DEF vars, inventoryVars, attemptVars, materialized, passVars, sourceVars, IsCoverage
<1> QED
  BY <1>1, <1>2, <1>3, <1>4, <1>5, <1>6, <1>7, <1>8, <1>9, <1>10, <1>11, <1>12, <1>13, <1>14, <1>15
  DEF Next, Capture

\* Every variable keeps its type in every capture and replay.
THEOREM TypeCorrect == Spec => []TypeOK
BY InitTyped, StepTyped, PTL DEF Spec

-----------------------------------------------------------------------------
(* The inductive invariant *)

\* A pass has decided the capture.
Decided == pc = "done" /\ result \in {"Sealed", "ScenarioPanicked"}

\* An attempt holds only what its anchor ledger has, and exactly the part of
\* the inventory it has read; an answer of another ledger spoils the attempt.
AttemptInv ==
    /\ pc = "before" => matches /\ DOMAIN partial = {}
    /\ pc \in {"batch", "after"} => CoherentAt(partial, before)
    /\ pc = "batch" => /\ matches
                       /\ pending \subseteq keys \cup {ConfigKey}
                       /\ DOMAIN partial = keys \ pending
    /\ pc = "after" /\ matches => DOMAIN partial = keys

\* So what materialize returned is the whole inventory at one ledger.
CoverInv ==
    pc \in {"closure", "pass", "replay", "replayed"} \/ Decided
        => DOMAIN coverage = keys /\ CoherentAt(coverage, anchor)

\* The scenario runs only on a coverage closed over executables.
ClosureInv ==
    pc \in {"pass", "replay", "replayed"} \/ IsSealed
        => NoBadReference /\ ClosurePresent(coverage)

\* During a pass the source answers the inventory's keys from the coverage;
\* what it answered is in its cache and among the keys it was asked for.
LookupInv ==
    /\ pc = "pass" =>
         /\ \A k \in keys : k \in DOMAIN cache /\ cache[k] = coverage[k]
         /\ ~rpcReads => cache = coverage /\ ~failure
         /\ \A a \in seen :
              \/ a[2] = Err /\ failure
              \/ a[1] \in requested \cap DOMAIN cache /\ a[2] = cache[a[1]]
    /\ Decided => \A a \in seen : a[1] # ConfigKey => a[2] = LedgerAt[anchor][a[1]]

\* The step a scenario takes from position p when the coverage answers it.
StrictAnswer(p) ==
    IF Op[p[1]] = "read" /\ At[p[1]] \notin p[2] THEN coverage[At[p[1]]] ELSE Absent
StrictNext(p) ==
    <<Goto[p[1]][StrictAnswer(p)], IF Op[p[1]] = "mark" THEN p[2] \cup Marks[p[1]] ELSE p[2]>>
Covered(p) ==
    /\ Op[p[1]] \in {"read", "write", "mark"}
    /\ Op[p[1]] = "read" /\ At[p[1]] \notin p[2] => At[p[1]] \in keys

\* The positions of a pass that needed no RPC form a path of strict steps.
TrailInv ==
    pc = "pass" =>
      /\ running = start
      /\ <<start, {}>> \in trail
      /\ <<prog, local>> \in trail
      /\ ~rpcReads =>
           \A p \in trail :
             \/ p = <<prog, local>>
             \/ /\ Covered(p)
                /\ StrictNext(p) \in trail
                /\ Op[p[1]] = "write" => At[p[1]] \in stored

\* The path a sealed capture was decided on: it ends in a return, and what was
\* written on it is captured or owned by the scenario in the end.
SealInv ==
    IsSealed \/ pc \in {"replay", "replayed"} =>
      /\ <<start, {}>> \in trail
      /\ \A p \in trail : Op[p[1]] = "return" \/ (Covered(p) /\ StrictNext(p) \in trail)
      /\ \A p, q \in trail : Op[p[1]] = "write" /\ Op[q[1]] = "return"
                               => At[p[1]] \in keys \cup q[2]

\* A replay is answered from the coverage or refused, and a replay of the
\* captured scenario stays on the path and is never refused.
ReplayInv ==
    pc = "replay" =>
      /\ cache = coverage /\ ~failure
      /\ \A a \in seen :
           \/ a[2] = Err /\ unknown # {}
           \/ a[1] \in keys /\ a[2] = coverage[a[1]]
      /\ running = start =>
           /\ <<prog, local>> \in trail
           /\ unknown = {}
           /\ \A k \in stored, q \in trail : Op[q[1]] = "return" => k \in keys \cup q[2]

-----------------------------------------------------------------------------
(* Coherence *)

\* A step of the scenario changes the pass and nothing else.
LEMMA ScenarioFrame ==
    Scenario => /\ Executing
                /\ UNCHANGED <<head, pc, result, inventoryVars, attemptVars, materialized, running, start>>
BY DEF Scenario, Get, GetLatched, GetLocal, GetCached, GetUnknown, GetFromRpc, GetFails, Write, Mark,
       Missed, Reading, Answer, Resume

\* One more batch of the anchor's ledger keeps the attempt coherent.
LEMMA BatchCoherent ==
    ASSUME TypeOK, AttemptInv, NEW c \in SUBSET pending, pc = "batch"
    PROVE  /\ CoherentAt(Extend(partial, c, before), before)
           /\ DOMAIN Extend(partial, c, before) = keys \ (pending \ c)
<1>1. CoherentAt(partial, before) /\ DOMAIN partial = keys \ pending
  BY DEF AttemptInv
<1>2. c \subseteq keys \cup {ConfigKey} /\ ConfigKey \notin keys
  BY DEF AttemptInv, TypeOK, EntryKey
<1> QED
  BY <1>1, <1>2 DEF Extend, CoherentAt

\* Batches compared with their attempt's anchor keep the coverage on one
\* ledger, through every retry (validate_batch, validate_coverage).
LEMMA CoherenceStep ==
    TypeOK /\ AttemptInv /\ CoverInv /\ [Next]_vars => AttemptInv' /\ CoverInv'
<1> SUFFICES ASSUME TypeOK, AttemptInv, CoverInv, [Next]_vars
             PROVE  AttemptInv' /\ CoverInv'
  OBVIOUS
<1> USE DEF AttemptInv, CoverInv, Decided, CoherentAt
<1>1. CASE CloseLedger
  BY <1>1 DEF CloseLedger, inventoryVars, attemptVars, materialized
<1>2. CASE ValidateNetwork
  BY <1>2, NothingTyped DEF ValidateNetwork, Attempt, End, inventoryVars, attemptVars, materialized
<1>3. CASE TransportFailure
  BY <1>3 DEF TransportFailure, End, inventoryVars, attemptVars, materialized
<1>4. CASE ReadBefore
  <2>1. keys \ (keys \cup {ConfigKey}) = {}
    OBVIOUS
  <2>2. CASE pc' = "done"
    BY <1>4, <2>2 DEF ReadBefore, End, inventoryVars, attemptVars, materialized
  <2>3. CASE pc' = "batch"
    BY <1>4, <2>1, <2>3 DEF ReadBefore, End, Serving, inventoryVars, materialized
  <2> QED
    BY <1>4, <2>2, <2>3 DEF ReadBefore, End
<1>5. CASE ReadBatch
  <2>1. PICK n \in Serving, c \in SUBSET pending :
           \/ /\ matches' = FALSE /\ pc' = "after"
              /\ UNCHANGED <<result, before, pending, partial>>
           \/ /\ pc' = "done" /\ result' \in {"MalformedRpc", "MissingStateArchival"}
           \/ /\ n = before
              /\ partial' = Extend(partial, c, before)
              /\ pending' = pending \ c
              /\ pc' = IF pending = c THEN "after" ELSE "batch"
              /\ UNCHANGED <<result, before, matches>>
    BY <1>5 DEF ReadBatch, BatchMismatch, End
  <2>2. /\ CoherentAt(Extend(partial, c, before), before)
        /\ DOMAIN Extend(partial, c, before) = keys \ (pending \ c)
    BY <1>5, BatchCoherent DEF ReadBatch
  <2>3. pc = "batch" /\ UNCHANGED <<inventoryVars, materialized>>
    BY <1>5 DEF ReadBatch
  <2> QED
    BY <2>1, <2>2, <2>3 DEF inventoryVars, materialized
<1>6. CASE ReadAfter
  BY <1>6, NothingTyped
  DEF ReadAfter, Attempt, End, inventoryVars, attemptVars, materialized
<1>7. CASE RejectReference
  BY <1>7 DEF RejectReference, References, End, inventoryVars, attemptVars, materialized
<1>8. CASE ExpandClosure
  BY <1>8, NothingTyped DEF ExpandClosure, Attempt, End, inventoryVars, attemptVars, materialized
<1>9. CASE CloseClosure
  BY <1>9 DEF CloseClosure, End, inventoryVars, attemptVars, materialized
<1>10. CASE Scenario
  BY <1>10, ScenarioFrame DEF inventoryVars, attemptVars, materialized
<1>11. CASE Discover
  BY <1>11, NothingTyped DEF Discover, Attempt, inventoryVars, attemptVars, materialized
<1>12. CASE Seal
  BY <1>12 DEF Seal, Inspecting, End, inventoryVars, attemptVars, materialized
<1>13. CASE StartReplay
  BY <1>13 DEF StartReplay, inventoryVars, attemptVars, materialized
<1>14. CASE FinishReplay
  BY <1>14 DEF FinishReplay, inventoryVars, attemptVars, materialized
<1>15. CASE UNCHANGED vars
  BY <1>15 DEF vars, inventoryVars, attemptVars, materialized
<1> QED
  BY <1>1, <1>2, <1>3, <1>4, <1>5, <1>6, <1>7, <1>8, <1>9, <1>10, <1>11, <1>12, <1>13, <1>14, <1>15
  DEF Next, Capture

\* Nothing is covered before the first batch.
LEMMA CoherenceInit == Init => AttemptInv /\ CoverInv
BY NothingTyped DEF Init, AttemptInv, CoverInv, Decided

\* A scenario only ever runs on, and a sealed capture only ever holds, the
\* whole inventory at one accepted ledger, whatever ledgers close meanwhile
\* and whichever node answers (materialize).
THEOREM CaptureIsCoherent == Spec => []CaptureCoherent
<1>1. Spec => [](AttemptInv /\ CoverInv)
  BY CoherenceInit, CoherenceStep, TypeCorrect, PTL DEF Spec
<1>2. AttemptInv /\ CoverInv => CaptureCoherent
  BY DEF AttemptInv, CoverInv, CaptureCoherent, Decided, IsSealed
<1> QED
  BY <1>1, <1>2, PTL

-----------------------------------------------------------------------------
(* Executables *)

\* The closure check comes after the last materialization of the keys it
\* speaks about (expand_code_closure).
LEMMA ClosureStep == ClosureInv /\ [Next]_vars => ClosureInv'
<1> SUFFICES ASSUME ClosureInv, [Next]_vars PROVE ClosureInv'
  OBVIOUS
<1> USE DEF ClosureInv, IsSealed
<1>1. CASE CloseLedger \/ UNCHANGED vars
  BY <1>1 DEF CloseLedger, vars, materialized, NoBadReference
<1>2. CASE ValidateNetwork \/ TransportFailure \/ ReadBefore \/ ReadBatch \/ RejectReference \/ ExpandClosure
           \/ Discover
  BY <1>2 DEF ValidateNetwork, TransportFailure, ReadBefore, ReadBatch, RejectReference, References,
              ExpandClosure, Discover, Attempt, End
<1>3. CASE ReadAfter
  BY <1>3 DEF ReadAfter, Attempt, End
<1>4. CASE CloseClosure
  BY <1>4 DEF CloseClosure, End, materialized, NoBadReference
<1>5. CASE Scenario
  BY <1>5, ScenarioFrame DEF Executing, materialized, NoBadReference
<1>6. CASE Seal \/ StartReplay \/ FinishReplay
  BY <1>6 DEF Seal, Inspecting, StartReplay, FinishReplay, End, materialized, NoBadReference
<1> QED
  BY <1>1, <1>2, <1>3, <1>4, <1>5, <1>6 DEF Next, Capture

\* Every contract a sealed capture holds can be executed from it: code and tag
\* are present at the same ledger (ensure_executable_closure_present).
THEOREM SealedIsExecutable == Spec => []SealedExecutable
<1>1. Init => ClosureInv
  BY DEF Init, ClosureInv, IsSealed
<1>2. TypeOK /\ CoverInv /\ ClosureInv => SealedExecutable
  <2> SUFFICES ASSUME TypeOK, CoverInv, ClosureInv, IsSealed, NEW k \in keys
               PROVE  LET v == LedgerAt[anchor][k]
                          Runs(code) == code \in keys /\ coverage[code] # Absent
                      IN  /\ v.t = "wasm" => Runs(v.code)
                          /\ v.t = "ref" => /\ v.tag \in keys
                                            /\ coverage[v.tag].t = "bytes"
                                            /\ Runs(coverage[v.tag].code)
    BY DEF SealedExecutable
  <2>1. DOMAIN coverage = keys /\ coverage[k] = LedgerAt[anchor][k]
    BY DEF CoverInv, Decided, IsSealed, CoherentAt
  <2>2. ClosurePresent(coverage) /\ NoBadReference
    BY DEF ClosureInv
  <2>3. ASSUME coverage[k].t = "wasm"
        PROVE  coverage[k].code \in keys /\ coverage[coverage[k].code] # Absent
    BY <2>1, <2>2, <2>3 DEF ClosurePresent, Codes
  <2>4. ASSUME coverage[k].t = "ref"
        PROVE  /\ coverage[k].tag \in keys
               /\ coverage[coverage[k].tag].t = "bytes"
               /\ coverage[coverage[k].tag].code \in keys
               /\ coverage[coverage[coverage[k].tag].code] # Absent
    <3> DEFINE tag == coverage[k].tag
    <3>1. tag \in Tags(coverage) /\ tag \in keys
      BY <2>1, <2>2, <2>4 DEF ClosurePresent, Tags
    <3>2. coverage[tag] # Absent /\ coverage[tag].t \in {"absent", "bytes"}
      BY <2>1, <2>2, <3>1 DEF NoBadReference, References, BadReference
    <3>3. coverage[tag] \in Value
      BY <2>1, <3>1 DEF TypeOK, IsCoverage
    <3>4. coverage[tag].t = "bytes"
      BY <3>2, <3>3 DEF Value, Absent
    <3>5. coverage[tag].code \in Codes(coverage)
      BY <2>1, <3>1, <3>4 DEF Codes
    <3> QED
      BY <2>1, <2>2, <3>1, <3>4, <3>5 DEF ClosurePresent
  <2> QED
    BY <2>1, <2>3, <2>4
<1>3. Spec => [](CoverInv /\ AttemptInv)
  BY CoherenceInit, CoherenceStep, TypeCorrect, PTL DEF Spec
<1> QED
  BY <1>1, <1>2, <1>3, ClosureStep, TypeCorrect, PTL DEF Spec

-----------------------------------------------------------------------------
(* Lookups *)

\* A lookup of a pass is answered from the cache, extends the cache, or is
\* refused with the failure latched.
LEMMA PassLookup ==
    ASSUME TypeOK, CoverInv, LookupInv, pc = "pass", NEW k \in Key, Get(k)
    PROVE  LookupInv'
<1> USE DEF LookupInv, Decided
<1>1. UNCHANGED <<pc, keys, coverage>>
  BY DEF Get, GetLatched, GetLocal, GetCached, GetUnknown, GetFromRpc, GetFails,
         Answer, Resume, inventoryVars, materialized
<1>2. DOMAIN coverage = keys
  BY DEF CoverInv
<1>3. CASE GetLatched(k)
  BY <1>1, <1>3 DEF GetLatched, Answer, sourceVars
<1>4. CASE GetLocal(k)
  BY <1>1, <1>4 DEF GetLocal, sourceVars
<1>5. CASE GetCached(k)
  BY <1>1, <1>5 DEF GetCached, Answer
<1>6. CASE GetFromRpc(k)
  <2>1. PICK n \in Serving :
          /\ cache' = [x \in DOMAIN cache \cup {k} |-> IF x = k THEN LedgerAt[n][k] ELSE cache[x]]
          /\ seen' = seen \cup {<<k, LedgerAt[n][k]>>}
    BY <1>6 DEF GetFromRpc, Answer
  <2>2. k \notin DOMAIN cache /\ requested' = requested \cup {k} /\ rpcReads' /\ failure' = failure
    BY <1>6 DEF GetFromRpc, Missed
  <2>3. k \in DOMAIN cache' /\ cache'[k] = LedgerAt[n][k]
    BY <2>1
  <2>4. \A x \in DOMAIN cache : x \in DOMAIN cache' /\ cache'[x] = cache[x]
    BY <2>1, <2>2
  <2> QED
    BY <1>1, <2>1, <2>2, <2>3, <2>4
<1>7. CASE GetFails(k)
  BY <1>1, <1>7 DEF GetFails, Answer
<1> QED
  BY <1>3, <1>4, <1>5, <1>6, <1>7 DEF Get, GetUnknown

\* A pass that decides had every lookup answered by the inventory.
LEMMA SealLookup ==
    ASSUME TypeOK, CoverInv, LookupInv, Seal
    PROVE  LookupInv'
<1>1. pc = "pass" /\ pc' = "done" /\ UNCHANGED <<seen, anchor>>
  BY DEF Seal, Inspecting, End, passVars, materialized
<1> SUFFICES ASSUME Decided', NEW a \in seen, a[1] # ConfigKey
             PROVE  a[2] = LedgerAt[anchor][a[1]]
  BY <1>1 DEF LookupInv
<1>2. ~failure /\ Touched \subseteq keys
  BY DEF Seal, End, Verdict, Decided
<1>3. a[1] \in requested /\ a[2] = cache[a[1]]
  BY <1>1, <1>2 DEF LookupInv
<1>4. a[1] \in keys
  BY <1>2, <1>3 DEF Touched
<1> QED
  BY <1>1, <1>3, <1>4 DEF LookupInv, CoverInv, CoherentAt

\* Every answer a scenario gets is the anchor ledger's value, or leaves a mark:
\* rpcReads, a latched failure or an unknown key (TrackingSource::get).
LEMMA LookupStep ==
    TypeOK /\ CoverInv /\ LookupInv /\ [Next]_vars => LookupInv'
<1> SUFFICES ASSUME TypeOK, CoverInv, LookupInv, [Next]_vars PROVE LookupInv'
  OBVIOUS
<1>1. CASE CloseLedger \/ UNCHANGED vars
  BY <1>1 DEF CloseLedger, vars, inventoryVars, materialized, passVars, sourceVars, LookupInv, Decided
<1>2. CASE ValidateNetwork \/ TransportFailure \/ ReadBefore \/ ReadBatch \/ RejectReference \/ ExpandClosure
           \/ Discover \/ StartReplay \/ FinishReplay
  BY <1>2 DEF ValidateNetwork, TransportFailure, ReadBefore, ReadBatch, RejectReference, References,
              ExpandClosure, Discover, StartReplay, FinishReplay, Attempt, End, LookupInv, Decided
<1>3. CASE ReadAfter
  BY <1>3 DEF ReadAfter, Attempt, End, LookupInv, Decided
<1>4. CASE CloseClosure
  BY <1>4 DEF CloseClosure, StartPass, End, materialized, LookupInv, CoverInv, Decided
<1>5. CASE Scenario
  <2>1. CASE pc = "pass" /\ \E k \in Key : Get(k)
    BY <2>1, PassLookup
  <2>2. CASE Write \/ Mark
    BY <1>5, <2>2, ScenarioFrame
    DEF Write, Mark, sourceVars, inventoryVars, materialized, LookupInv, Decided, Executing
  <2>3. CASE pc = "replay"
    BY <1>5, <2>3, ScenarioFrame DEF LookupInv, Decided
  <2> QED
    BY <1>5, <2>1, <2>2, <2>3, ScenarioFrame DEF Scenario, Executing
<1>6. CASE Seal
  BY <1>6, SealLookup
<1> QED
  BY <1>1, <1>2, <1>3, <1>4, <1>5, <1>6 DEF Next, Capture

\* A capture is sealed, or refused because the scenario panicked, only on a
\* pass whose every lookup got the anchor ledger's value.
THEOREM CaptureDecidesOnOneLedger == Spec => []DecidedOnOneLedger
<1>1. Init => LookupInv
  BY DEF Init, LookupInv, Decided
<1>2. LookupInv => DecidedOnOneLedger
  BY DEF LookupInv, Decided, DecidedOnOneLedger
<1> QED
  BY <1>1, <1>2, CoherenceInit, CoherenceStep, LookupStep, TypeCorrect, PTL DEF Spec

-----------------------------------------------------------------------------
(* The path of the scenario *)

\* A step of the scenario that the coverage answers is the strict step.
LEMMA StrictStep ==
    ASSUME TypeOK, Scenario, cache = coverage, DOMAIN coverage = keys, ~failure,
           Op[prog] = "read" => At[prog] \in keys \cup local
    PROVE  /\ <<prog', local'>> = StrictNext(<<prog, local>>)
           /\ Covered(<<prog, local>>)
           /\ stored' = IF Op[prog] = "write" THEN stored \cup {At[prog]} ELSE stored
           /\ UNCHANGED <<cache, failure, rpcReads, unknown>>
<1> USE DEF StrictNext, StrictAnswer, Covered, Resume, sourceVars
<1>1. CASE \E k \in Key : Get(k)
  <2>1. PICK k \in Key : GetLocal(k) \/ GetCached(k)
    BY <1>1 DEF Get, GetLatched, GetUnknown, GetFromRpc, GetFails, Missed, Reading
  <2>2. Op[prog] = "read" /\ At[prog] = k
    BY <2>1 DEF GetLocal, GetCached, Reading
  <2>3. CASE GetLocal(k)
    BY <2>2, <2>3 DEF GetLocal
  <2>4. CASE GetCached(k)
    BY <2>2, <2>4 DEF GetCached, Answer
  <2> QED BY <2>1, <2>3, <2>4
<1>2. CASE Write
  BY <1>2 DEF Write
<1>3. CASE Mark
  BY <1>3 DEF Mark
<1> QED
  BY <1>1, <1>2, <1>3 DEF Scenario

\* What a pass asks the network for is recorded as an RPC read.
LEMMA RpcRecorded ==
    ASSUME Scenario, pc = "pass", cache = coverage, DOMAIN coverage = keys, ~rpcReads'
    PROVE  Op[prog] = "read" => At[prog] \in keys \cup local \/ failure
BY DEF Scenario, Get, GetLatched, GetLocal, GetCached, GetUnknown, GetFromRpc, GetFails, Missed, Reading,
       Write, Mark

\* A pass that ends without single reads never made one.
LEMMA RpcSticky == Scenario /\ ~rpcReads' => ~rpcReads
BY DEF Scenario, Get, GetLatched, GetLocal, GetCached, GetUnknown, GetFromRpc, GetFails, Write, Mark,
       sourceVars

\* What a pass without single reads does can be done again on the coverage.
LEMMA PassTrail ==
    ASSUME TypeOK, CoverInv, LookupInv, TrailInv, Scenario, pc = "pass"
    PROVE  TrailInv'
<1>1. /\ UNCHANGED <<pc, keys, coverage, running, start>>
      /\ trail' = trail \cup {<<prog', local'>>}
  BY DEF Scenario, Get, GetLatched, GetLocal, GetCached, GetUnknown, GetFromRpc, GetFails, Write, Mark,
         Answer, Resume, inventoryVars, materialized
<1>2. running = start /\ <<start, {}>> \in trail /\ <<prog, local>> \in trail
  BY DEF TrailInv
<1>3. ASSUME ~rpcReads', NEW p \in trail'
      PROVE  \/ p = <<prog', local'>>
             \/ /\ Covered(p)'
                /\ StrictNext(p)' \in trail'
                /\ Op[p[1]] = "write" => At[p[1]] \in stored'
  <2>1. ~rpcReads /\ cache = coverage /\ ~failure /\ DOMAIN coverage = keys
    BY <1>3, RpcSticky DEF LookupInv, CoverInv
  <2>2. Op[prog] = "read" => At[prog] \in keys \cup local
    BY <1>3, <2>1, RpcRecorded
  <2>3. /\ <<prog', local'>> = StrictNext(<<prog, local>>)
        /\ Covered(<<prog, local>>)
        /\ stored' = IF Op[prog] = "write" THEN stored \cup {At[prog]} ELSE stored
    BY <2>1, <2>2, StrictStep
  <2>4. Covered(p)' = Covered(p) /\ StrictNext(p)' = StrictNext(p)
    BY <1>1 DEF Covered, StrictNext, StrictAnswer
  <2>5. CASE p = <<prog', local'>>
    BY <2>5
  <2>6. CASE p = <<prog, local>>
    BY <1>1, <2>3, <2>4, <2>6
  <2>7. CASE p \in trail /\ p # <<prog, local>>
    BY <1>1, <2>1, <2>3, <2>4, <2>7 DEF TrailInv
  <2> QED
    BY <1>1, <2>5, <2>6, <2>7
<1> QED
  BY <1>1, <1>2, <1>3 DEF TrailInv

\* The trail of a pass is kept until the capture is sealed.
LEMMA TrailStep ==
    TypeOK /\ CoverInv /\ LookupInv /\ TrailInv /\ [Next]_vars => TrailInv'
<1> SUFFICES ASSUME TypeOK, CoverInv, LookupInv, TrailInv, [Next]_vars PROVE TrailInv'
  OBVIOUS
<1>1. CASE CloseLedger \/ UNCHANGED vars
  BY <1>1
  DEF CloseLedger, vars, inventoryVars, materialized, passVars, sourceVars, TrailInv, StrictNext,
      StrictAnswer, Covered
<1>2. CASE ValidateNetwork \/ TransportFailure \/ ReadBefore \/ ReadBatch \/ RejectReference \/ ExpandClosure
           \/ Discover \/ Seal \/ StartReplay \/ FinishReplay
  BY <1>2 DEF ValidateNetwork, TransportFailure, ReadBefore, ReadBatch, RejectReference, ExpandClosure,
              Discover, Seal, StartReplay, FinishReplay, Attempt, End, TrailInv
<1>3. CASE ReadAfter
  BY <1>3 DEF ReadAfter, Attempt, End, TrailInv
<1>4. CASE CloseClosure
  BY <1>4 DEF CloseClosure, StartPass, End, TrailInv
<1>5. CASE Scenario
  BY <1>5, PassTrail, ScenarioFrame DEF Executing, TrailInv
<1> QED
  BY <1>1, <1>2, <1>3, <1>4, <1>5 DEF Next, Capture

\* A pass that seals leaves a path of captured positions that ends in a return.
LEMMA SealTrail ==
    ASSUME TypeOK, CoverInv, LookupInv, TrailInv, Seal, IsSealed'
    PROVE  SealInv'
<1>1. /\ pc = "pass" /\ Finished
      /\ UNCHANGED <<keys, coverage, trail, start, prog, local, stored>>
  BY DEF Seal, Inspecting, passVars, inventoryVars, materialized
<1>2. Verdict = "Sealed"
  BY DEF Seal, End, IsSealed
<1>3. ~failure /\ ~rpcReads /\ Op[prog] = "return" /\ Touched \subseteq keys
  BY <1>1, <1>2 DEF Verdict, Finished, Seal
<1>4. \A p \in trail :
        \/ p = <<prog, local>>
        \/ Covered(p) /\ StrictNext(p) \in trail /\ (Op[p[1]] = "write" => At[p[1]] \in stored)
  BY <1>1, <1>3 DEF TrailInv
<1>5. ASSUME NEW p \in trail, NEW q \in trail, Op[p[1]] = "write", Op[q[1]] = "return"
      PROVE  At[p[1]] \in keys \cup q[2]
  <2>1. q = <<prog, local>>
    BY <1>4, <1>5 DEF Covered
  <2>2. At[p[1]] \in stored
    BY <1>3, <1>4, <1>5
  <2>3. At[p[1]] # ConfigKey
    BY <1>5, ScenarioAssumption DEF TypeOK
  <2> QED
    BY <1>3, <2>1, <2>2, <2>3 DEF Touched
<1>6. \A p : Covered(p)' = Covered(p) /\ StrictNext(p)' = StrictNext(p)
  BY <1>1 DEF Covered, StrictNext, StrictAnswer
<1>7. \A p \in trail : Op[p[1]] = "return" \/ (Covered(p)' /\ StrictNext(p)' \in trail')
  BY <1>1, <1>3, <1>4, <1>6
<1>8. <<start, {}>> \in trail
  BY <1>1 DEF TrailInv
<1> QED
  BY <1>1, <1>5, <1>7, <1>8 DEF SealInv

\* The pass that seals asked for and stored captured or local keys only.
LEMMA SealStep ==
    TypeOK /\ CoverInv /\ LookupInv /\ TrailInv /\ SealInv /\ [Next]_vars => SealInv'
<1> SUFFICES ASSUME TypeOK, CoverInv, LookupInv, TrailInv, SealInv, [Next]_vars PROVE SealInv'
  OBVIOUS
<1> USE DEF IsSealed
<1>1. ASSUME IsSealed \/ pc \in {"replay", "replayed"}, UNCHANGED <<keys, coverage, trail, start>>
      PROVE  SealInv'
  BY <1>1 DEF SealInv, Covered, StrictNext, StrictAnswer
<1>2. CASE CloseLedger \/ UNCHANGED vars
  BY <1>1, <1>2 DEF CloseLedger, vars, inventoryVars, materialized, passVars, SealInv
<1>3. CASE ValidateNetwork \/ TransportFailure \/ ReadBefore \/ ReadBatch \/ RejectReference \/ ExpandClosure
           \/ Discover
  BY <1>3 DEF ValidateNetwork, TransportFailure, ReadBefore, ReadBatch, RejectReference, References,
              ExpandClosure, Discover, Attempt, End, SealInv
<1>4. CASE ReadAfter
  BY <1>4 DEF ReadAfter, Attempt, End, SealInv
<1>5. CASE CloseClosure
  BY <1>5 DEF CloseClosure, End, SealInv
<1>6. CASE Scenario
  <2>1. CASE pc = "pass"
    BY <1>6, <2>1, ScenarioFrame DEF SealInv
  <2>2. CASE pc = "replay"
    <3>1. UNCHANGED <<keys, coverage, trail, start>>
      BY <1>6, <2>2
      DEF Scenario, Get, GetLatched, GetLocal, GetCached, GetUnknown, GetFromRpc, GetFails, Write, Mark,
          Answer, Resume, inventoryVars, materialized
    <3> QED BY <1>1, <2>2, <3>1
  <2> QED
    BY <1>6, <2>1, <2>2, ScenarioFrame DEF Executing
<1>7. CASE Seal
  BY <1>7, SealTrail DEF SealInv, Seal, End
<1>8. CASE StartReplay \/ FinishReplay
  BY <1>1, <1>8 DEF StartReplay, FinishReplay, inventoryVars, materialized, passVars
<1> QED
  BY <1>2, <1>3, <1>4, <1>5, <1>6, <1>7, <1>8 DEF Next, Capture

-----------------------------------------------------------------------------
(* Strict replay *)

\* A replay that the coverage answers stays on the sealed path.
LEMMA ReplayOnPath ==
    ASSUME TypeOK, CoverInv, SealInv, ReplayInv, Scenario, pc = "replay", running = start
    PROVE  /\ <<prog', local'>> \in trail
           /\ unknown' = {}
           /\ \A k \in stored', q \in trail : Op[q[1]] = "return" => k \in keys \cup q[2]
<1>1. /\ cache = coverage /\ DOMAIN coverage = keys /\ ~failure
      /\ <<prog, local>> \in trail /\ unknown = {}
  BY DEF ReplayInv, CoverInv
<1>2. Op[prog] # "return"
  BY DEF Scenario, Get, GetLatched, GetLocal, GetCached, GetUnknown, GetFromRpc, GetFails, Missed,
         Reading, Write, Mark
<1>3. Covered(<<prog, local>>) /\ StrictNext(<<prog, local>>) \in trail
  BY <1>1, <1>2 DEF SealInv
<1>4. Op[prog] = "read" => At[prog] \in keys \cup local
  BY <1>3 DEF Covered
<1>5. /\ <<prog', local'>> = StrictNext(<<prog, local>>)
      /\ stored' = IF Op[prog] = "write" THEN stored \cup {At[prog]} ELSE stored
      /\ unknown' = unknown
  BY <1>1, <1>4, StrictStep
<1>6. ASSUME NEW k \in stored', NEW q \in trail, Op[q[1]] = "return"
      PROVE  k \in keys \cup q[2]
  <2>1. CASE k \in stored
    BY <1>6, <2>1 DEF ReplayInv
  <2>2. CASE k \notin stored
    BY <1>1, <1>5, <1>6, <2>2 DEF SealInv
  <2> QED BY <2>1, <2>2
<1> QED
  BY <1>1, <1>3, <1>5, <1>6

\* A lookup of a replay is answered from the coverage, or refused and noted.
LEMMA ReplayLookup ==
    ASSUME TypeOK, CoverInv, ReplayInv, Scenario, pc = "replay"
    PROVE  /\ cache' = coverage /\ ~failure'
           /\ \A a \in seen' :
                \/ a[2] = Err /\ unknown' # {}
                \/ a[1] \in keys /\ a[2] = coverage[a[1]]
<1>1. cache = coverage /\ DOMAIN coverage = keys /\ ~failure
  BY DEF ReplayInv, CoverInv
<1>2. CASE \E k \in Key : GetLocal(k) \/ GetCached(k)
  BY <1>1, <1>2 DEF GetLocal, GetCached, Answer, sourceVars, ReplayInv
<1>3. CASE \E k \in Key : GetUnknown(k)
  BY <1>1, <1>3 DEF GetUnknown, Answer, ReplayInv
<1>4. CASE Write \/ Mark
  BY <1>1, <1>4 DEF Write, Mark, sourceVars, ReplayInv
<1> QED
  BY <1>1, <1>2, <1>3, <1>4 DEF Scenario, Get, GetLatched, GetFromRpc, GetFails, Missed

\* A replay of the captured scenario walks along the trail of the sealing pass.
LEMMA ReplayStep ==
    TypeOK /\ CoverInv /\ SealInv /\ ReplayInv /\ [Next]_vars => ReplayInv'
<1> SUFFICES ASSUME TypeOK, CoverInv, SealInv, ReplayInv, [Next]_vars PROVE ReplayInv'
  OBVIOUS
<1>1. CASE CloseLedger \/ UNCHANGED vars
  BY <1>1 DEF CloseLedger, vars, inventoryVars, materialized, passVars, sourceVars, ReplayInv
<1>2. CASE ValidateNetwork \/ TransportFailure \/ ReadBefore \/ ReadBatch \/ RejectReference \/ ExpandClosure
           \/ Discover \/ Seal \/ FinishReplay
  BY <1>2 DEF ValidateNetwork, TransportFailure, ReadBefore, ReadBatch, RejectReference, ExpandClosure,
              Discover, Seal, FinishReplay, Attempt, End, ReplayInv
<1>3. CASE ReadAfter
  BY <1>3 DEF ReadAfter, Attempt, End, ReplayInv
<1>4. CASE CloseClosure
  BY <1>4 DEF CloseClosure, End, ReplayInv
<1>5. CASE Scenario
  <2>1. CASE pc = "pass"
    BY <1>5, <2>1, ScenarioFrame DEF ReplayInv
  <2>2. CASE pc = "replay"
    <3>1. UNCHANGED <<pc, keys, coverage, trail, running, start>>
      BY <1>5, <2>2
      DEF Scenario, Get, GetLatched, GetLocal, GetCached, GetUnknown, GetFromRpc, GetFails, Write, Mark,
          Answer, Resume, inventoryVars, materialized
    <3> QED
      BY <1>5, <2>2, <3>1, ReplayOnPath, ReplayLookup DEF ReplayInv
  <2> QED
    BY <1>5, <2>1, <2>2, ScenarioFrame DEF Executing
<1>6. CASE StartReplay
  BY <1>6 DEF StartReplay, StartPass, inventoryVars, materialized, ReplayInv, SealInv, IsSealed
<1> QED
  BY <1>1, <1>2, <1>3, <1>4, <1>5, <1>6 DEF Next, Capture

\* What a replay reports when it ends.
LEMMA ReplayVerdict ==
    ASSUME TypeOK, CoverInv, SealInv, ReplayInv, FinishReplay
    PROVE  ReplayReproduces' /\ ReplayFailsClosed'
<1>1. /\ pc = "replay" /\ Finished /\ pc' = "replayed"
      /\ UNCHANGED <<keys, anchor, coverage, prog, local, stored, seen, trail, running, start>>
      /\ DOMAIN coverage = keys /\ CoherentAt(coverage, anchor)
  BY DEF FinishReplay, inventoryVars, materialized, passVars, CoverInv
<1>2. ASSUME running = start
      PROVE  result' = "Returned" /\ <<prog, local>> \in trail
  <2>1. <<prog, local>> \in trail /\ unknown = {}
    BY <1>1, <1>2 DEF ReplayInv
  <2>2. Op[prog] = "return"
    BY <1>1, <2>1 DEF SealInv, Covered, Finished
  <2>3. stored \subseteq keys \cup local
    BY <1>1, <1>2, <2>1, <2>2 DEF ReplayInv
  <2>4. Unknowns = {}
    BY <1>1, <2>1, <2>3 DEF Unknowns
  <2> QED
    BY <2>1, <2>2, <2>4 DEF FinishReplay
<1>3. ASSUME result' # "UnknownLedgerKeys"
      PROVE  /\ \A a \in seen : a[2] = LedgerAt[anchor][a[1]]
             /\ stored \subseteq keys \cup local
  <2>1. Unknowns = {}
    BY <1>3 DEF FinishReplay
  <2>2. unknown = {} /\ stored \subseteq keys \cup local
    BY <1>1, <2>1 DEF Unknowns
  <2>3. \A a \in seen : a[1] \in keys /\ a[2] = coverage[a[1]]
    BY <1>1, <2>2 DEF ReplayInv
  <2> QED
    BY <1>1, <2>2, <2>3 DEF CoherentAt
<1> QED
  BY <1>1, <1>2, <1>3 DEF ReplayReproduces, ReplayFailsClosed

\* A replay ends where the trail ends, or refuses an unknown key.
LEMMA VerdictStep ==
    /\ TypeOK /\ CoverInv /\ SealInv /\ ReplayInv
    /\ ReplayReproduces /\ ReplayFailsClosed /\ [Next]_vars
    => ReplayReproduces' /\ ReplayFailsClosed'
<1> SUFFICES ASSUME TypeOK, CoverInv, SealInv, ReplayInv, ReplayReproduces, ReplayFailsClosed, [Next]_vars
             PROVE  ReplayReproduces' /\ ReplayFailsClosed'
  OBVIOUS
<1>1. CASE FinishReplay
  BY <1>1, ReplayVerdict
<1>2. CASE CloseLedger \/ UNCHANGED vars
  BY <1>2
  DEF CloseLedger, vars, inventoryVars, materialized, passVars, ReplayReproduces, ReplayFailsClosed
<1>3. CASE Capture \/ StartReplay
  <2>1. pc' # "replayed"
    BY <1>3, ScenarioFrame
    DEF Capture, ValidateNetwork, TransportFailure, ReadBefore, ReadBatch, ReadAfter, RejectReference,
        ExpandClosure, CloseClosure, Discover, Seal, StartReplay, Attempt, End, Executing
  <2> QED
    BY <2>1 DEF ReplayReproduces, ReplayFailsClosed
<1> QED
  BY <1>1, <1>2, <1>3 DEF Next

\* The invariants of the safety proof hold initially.
LEMMA InvariantInit ==
    Init => /\ AttemptInv /\ CoverInv /\ LookupInv /\ TrailInv /\ SealInv /\ ReplayInv
            /\ ReplayReproduces /\ ReplayFailsClosed
BY CoherenceInit
DEF Init, LookupInv, Decided, TrailInv, SealInv, ReplayInv, ReplayReproduces, ReplayFailsClosed, IsSealed

\* A sealed capture is complete for its scenario: every strict replay of it
\* returns where the sealing pass did, for every scenario that is
\* deterministic in what it reads, however the network moved.
THEOREM SealedCaptureReplays == Spec => []ReplayReproduces
BY InvariantInit, CoherenceStep, LookupStep, TrailStep, SealStep, ReplayStep, VerdictStep, TypeCorrect, PTL
DEF Spec

\* No replay, of whatever scenario, passes off an unknown key as known.
THEOREM ReplayNeverGuesses == Spec => []ReplayFailsClosed
BY InvariantInit, CoherenceStep, LookupStep, TrailStep, SealStep, ReplayStep, VerdictStep, TypeCorrect, PTL
DEF Spec

-----------------------------------------------------------------------------
(* Progress *)

\* A capture starts with no attempt made, and batches end with the last key.
LoopInv ==
    /\ pc = "validate" => attempt = 0
    /\ pc = "batch" => pending # {}

LEMMA LoopStep == LoopInv /\ [Next]_vars => LoopInv'
<1> SUFFICES ASSUME LoopInv, [Next]_vars PROVE LoopInv'
  OBVIOUS
<1>1. CASE CloseLedger \/ UNCHANGED vars
  BY <1>1 DEF CloseLedger, vars, attemptVars, LoopInv
<1>2. CASE ValidateNetwork \/ TransportFailure \/ ReadBefore \/ RejectReference \/ ExpandClosure
           \/ Discover \/ Seal \/ StartReplay \/ FinishReplay
  BY <1>2 DEF ValidateNetwork, TransportFailure, ReadBefore, RejectReference, ExpandClosure,
              Discover, Seal, StartReplay, FinishReplay, Attempt, End, LoopInv
<1>3. CASE ReadBatch \/ ReadAfter \/ CloseClosure
  BY <1>3 DEF ReadBatch, ReadAfter, CloseClosure, Attempt, End, LoopInv
<1>4. CASE Scenario
  BY <1>4, ScenarioFrame DEF LoopInv, Executing
<1> QED
  BY <1>1, <1>2, <1>3, <1>4 DEF Next, Capture

\* A batch asks for something.
LEMMA ChunkNotEmpty ==
    ASSUME TypeOK, pending # {}, NEW c \in SUBSET pending, IsChunk(c)
    PROVE  c # {}
<1>1. IsFiniteSet(pending) /\ Cardinality(pending) # 0
  <2>1. IsFiniteSet(pending)
    BY KeyAssumption, FS_Subset DEF TypeOK
  <2> QED BY <2>1, FS_EmptySet
<1>2. BatchSize # 0
  BY BoundAssumption
<1>3. Cardinality({}) = 0
  BY FS_EmptySet
<1> QED BY <1>1, <1>2, <1>3 DEF IsChunk

LEMMA StepDescends ==
    TypeOK /\ LoopInv /\ Next
      => \/ pc \in {"done", "replay", "replayed"}
         \/ /\ pc = "pass" \/ head' # head
            /\ UNCHANGED <<pc, round, closureRound, attempt, pending>>
         \/ Descends
<1> SUFFICES ASSUME TypeOK, LoopInv, Next,
                    pc \notin {"done", "replay", "replayed"},
                    ~(/\ pc = "pass" \/ head' # head
                      /\ UNCHANGED <<pc, round, closureRound, attempt, pending>>)
             PROVE  Descends
  OBVIOUS
<1>0. round \in Int /\ closureRound \in Int /\ attempt \in Int
  BY BoundAssumption DEF TypeOK
<1>1. ASSUME pc' = "done" PROVE Descends
  BY <1>1 DEF Descends
<1>2. CASE ValidateNetwork
  BY <1>0, <1>1, <1>2 DEF ValidateNetwork, Attempt, End, inventoryVars, LoopInv, Descends
<1>3. CASE TransportFailure \/ RejectReference \/ Seal
  BY <1>1, <1>3 DEF TransportFailure, RejectReference, Seal, End
<1>4. CASE ReadBefore
  BY <1>1, <1>4 DEF ReadBefore, End, inventoryVars, Descends
<1>5. CASE ReadBatch
  <2>1. PICK n \in Serving, c \in SUBSET pending :
          /\ IsChunk(c)
          /\ \/ pc' = "done"
             \/ pc' = "after" /\ UNCHANGED attempt
             \/ pc' = "batch" /\ pending' = pending \ c /\ UNCHANGED attempt
    BY <1>5 DEF ReadBatch, End
  <2>2. pc = "batch" /\ UNCHANGED <<round, closureRound>> /\ c # {}
    BY <1>5, <2>1, ChunkNotEmpty DEF ReadBatch, inventoryVars, LoopInv
  <2>3. pending \ c \subseteq pending /\ pending \ c # pending
    BY <2>2
  <2> QED BY <1>1, <2>1, <2>2, <2>3 DEF Descends
<1>6. CASE ReadAfter
  <2>1. pc = "after" /\ UNCHANGED <<round, closureRound>>
    BY <1>6 DEF ReadAfter, inventoryVars
  <2>2. \/ pc' = "done"
        \/ pc' = "before" /\ attempt' = attempt + 1
        \/ pc' = "closure" /\ UNCHANGED attempt
    BY <1>6 DEF ReadAfter, Attempt, NextAttempt, End, attemptVars
  <2> QED BY <1>0, <1>1, <2>1, <2>2 DEF Descends
<1>7. CASE ExpandClosure
  <2>1. \/ pc' = "done"
        \/ pc = "closure" /\ pc' = "before" /\ round' = round /\ closureRound' = closureRound + 1
    BY <1>7 DEF ExpandClosure, Attempt, End
  <2> QED BY <1>0, <1>1, <2>1 DEF Descends
<1>8. CASE CloseClosure
  <2>1. pc' = "done" \/ round' = round + 1
    BY <1>8 DEF CloseClosure, End
  <2> QED BY <1>0, <2>1 DEF Descends
<1>9. CASE Discover
  BY <1>9 DEF Discover, Inspecting, Attempt, Descends
<1>10. CASE Scenario
  BY <1>10, ScenarioFrame DEF Executing, inventoryVars, attemptVars
<1>11. CASE CloseLedger
  <2>1. head \in Nat
    BY HistoryAssumption DEF TypeOK
  <2> QED BY <1>11, <2>1 DEF CloseLedger, vars, inventoryVars, attemptVars
<1> QED
  BY <1>2, <1>3, <1>4, <1>5, <1>6, <1>7, <1>8, <1>9, <1>10, <1>11
  DEF Next, Capture, StartReplay, FinishReplay

\* Every retry, closure round and pass uses up one of a bounded number, and
\* nothing gives one back without using up one further out: what remains of
\* termination is that the scenario's closure returns.
THEOREM CaptureAlwaysDescends == Spec => CaptureDescends
<1>1. Init => LoopInv
  BY DEF Init, LoopInv
<1> QED
  BY <1>1, LoopStep, StepDescends, TypeCorrect, PTL DEF Spec, CaptureDescends

-----------------------------------------------------------------------------
(* A capture is atomic *)

Loop == {"validate", "before", "batch", "after", "closure"}

\* A capture has no verdict before it ends, and only sealed ones are replayed.
VerdictInv ==
    /\ pc \in Loop \cup {"pass"} => result = "none"
    /\ pc = "replay" => result = "Sealed"

\* What a pass has in its cache it was given, or it asked for; the config
\* setting, which it may only ask for, is some ledger's.  It is never written.
SourceInv ==
    /\ pc = "pass" =>
         /\ DOMAIN cache \subseteq keys \cup requested
         /\ ConfigKey \in DOMAIN cache =>
              \E n \in Ledger : n <= head /\ cache[ConfigKey] = LedgerAt[n][ConfigKey]
    /\ pc \in {"pass", "replay"} => ConfigKey \notin stored

LEMMA VerdictNone == VerdictInv /\ [Next]_vars => VerdictInv'
<1> SUFFICES ASSUME VerdictInv, [Next]_vars PROVE VerdictInv'
  OBVIOUS
<1> USE DEF VerdictInv, Loop
<1>1. CASE CloseLedger \/ UNCHANGED vars
  BY <1>1 DEF CloseLedger, vars
<1>2. CASE ValidateNetwork \/ TransportFailure \/ ReadBefore \/ RejectReference \/ ExpandClosure
           \/ Discover \/ Seal \/ StartReplay \/ FinishReplay
  BY <1>2 DEF ValidateNetwork, TransportFailure, ReadBefore, RejectReference, ExpandClosure,
              Discover, Inspecting, Seal, StartReplay, FinishReplay, Attempt, End
<1>3. CASE ReadBatch \/ ReadAfter \/ CloseClosure
  BY <1>3 DEF ReadBatch, ReadAfter, CloseClosure, Attempt, End
<1>4. CASE Scenario
  BY <1>4, ScenarioFrame DEF Executing
<1> QED
  BY <1>1, <1>2, <1>3, <1>4 DEF Next, Capture

LEMMA SourceStep ==
    TypeOK /\ CoverInv /\ SourceInv /\ [Next]_vars => SourceInv'
<1> SUFFICES ASSUME TypeOK, CoverInv, SourceInv, [Next]_vars PROVE SourceInv'
  OBVIOUS
<1> USE DEF SourceInv
<1>0. ConfigKey \notin keys
  BY DEF TypeOK, EntryKey
<1>1. CASE CloseLedger
  <2>1. head' = head + 1 /\ UNCHANGED <<pc, keys, requested, cache, stored>> /\ head \in Int
    BY <1>1, HistoryAssumption DEF CloseLedger, inventoryVars, passVars, sourceVars, TypeOK
  <2>2. \A n \in Ledger : n <= head => n <= head'
    BY <2>1, HistoryAssumption
  <2> QED BY <2>1, <2>2
<1>2. CASE UNCHANGED vars
  BY <1>2 DEF vars, inventoryVars, passVars, sourceVars
<1>3. CASE ValidateNetwork \/ TransportFailure \/ ReadBefore \/ RejectReference \/ ExpandClosure
           \/ Discover \/ Seal \/ FinishReplay \/ ReadBatch \/ ReadAfter
  BY <1>3 DEF ValidateNetwork, TransportFailure, ReadBefore, RejectReference, ExpandClosure,
              Discover, Seal, FinishReplay, ReadBatch, ReadAfter, Attempt, End
<1>4. CASE CloseClosure
  <2>1. \/ pc' = "done"
        \/ UNCHANGED <<keys, head>> /\ requested' = {} /\ stored' = {} /\ cache' = coverage
    BY <1>4 DEF CloseClosure, StartPass, End
  <2>2. pc = "closure"
    BY <1>4 DEF CloseClosure
  <2> QED BY <1>0, <2>1, <2>2 DEF CoverInv
<1>5. CASE StartReplay
  BY <1>5 DEF StartReplay, StartPass
<1>6. CASE Scenario
  <2>1. UNCHANGED <<head, pc, keys>> /\ Executing
    BY <1>6, ScenarioFrame DEF inventoryVars
  <2>2. CASE Write
    BY <2>1, <2>2, ScenarioAssumption DEF Write, sourceVars, Executing, TypeOK
  <2>3. CASE Mark
    BY <2>1, <2>3 DEF Mark, sourceVars, Executing
  <2>4. ASSUME NEW k \in Key, Get(k) PROVE SourceInv'
    <3>1. CASE GetLatched(k) \/ GetLocal(k) \/ GetCached(k) \/ GetUnknown(k) \/ GetFails(k)
      BY <2>1, <3>1 DEF GetLatched, GetLocal, GetCached, GetUnknown, GetFails, Answer, sourceVars, Executing
    <3>2. CASE GetFromRpc(k)
      <4>1. PICK n \in Serving :
              cache' = [x \in DOMAIN cache \cup {k} |-> IF x = k THEN LedgerAt[n][k] ELSE cache[x]]
        BY <3>2 DEF GetFromRpc
      <4>2. pc = "pass" /\ requested' = requested \cup {k} /\ stored' = stored
        BY <3>2 DEF GetFromRpc, Answer
      <4>3. n \in Ledger /\ n <= head
        BY DEF Serving
      <4>4. CASE k = ConfigKey
        BY <2>1, <4>1, <4>2, <4>3, <4>4
      <4>5. CASE k # ConfigKey
        BY <2>1, <4>1, <4>2, <4>5
      <4> QED BY <4>4, <4>5
    <3> QED BY <2>4, <3>1, <3>2 DEF Get
  <2> QED BY <1>6, <2>2, <2>3, <2>4 DEF Scenario
<1> QED
  BY <1>1, <1>2, <1>3, <1>4, <1>5, <1>6 DEF Next, Capture

Fixture == [ledger |-> anchor, entries |-> coverage]

AtomicState == <<head, Fixture, start, OwnRun, result>>

LEMMA AtomicInit == Init => Atomic!Init
BY DEF Init, Atomic!Init, Atomic!Unread, OwnRun, Nothing

\* Outside a pass and a replay nothing runs.
LEMMA Idle ==
    /\ pc \notin {"pass", "replay"} => OwnRun = {}
    /\ pc' \notin {"pass", "replay"} => OwnRun' = {}
BY DEF OwnRun

\* One of the capture's own errors, whatever ran before.
LEMMA Failing ==
    ASSUME result = "none", pc' = "done", UNCHANGED <<head, anchor, coverage, start>>,
           result' \notin {"none", "Sealed", "ScenarioPanicked", "Returned", "UnknownLedgerKeys"}
    PROVE  Atomic!Fail
<1>1. OwnRun' = {}
  BY Idle
<1> QED BY <1>1 DEF Atomic!Fail

\* The steps of materialize and expand_code_closure that return no coverage.
LEMMA LoopingIsAtomic ==
    ASSUME pc \in Loop, result = "none", UNCHANGED <<head, anchor, coverage, start>>,
           \/ pc' \in Loop /\ UNCHANGED result
           \/ /\ pc' = "done"
              /\ result' \notin {"none", "Sealed", "ScenarioPanicked", "Returned", "UnknownLedgerKeys"}
    PROVE  Atomic!Fail \/ UNCHANGED AtomicState
<1>1. CASE pc' \in Loop /\ UNCHANGED result
  <2>1. OwnRun = {} /\ OwnRun' = {}
    BY <1>1, Idle DEF Loop
  <2> QED BY <1>1, <2>1 DEF AtomicState, Fixture
<1>2. CASE pc' = "done"
  BY <1>2, Failing DEF Loop
<1> QED BY <1>1, <1>2

\* The attempt that counts: its entries are one ledger's, and a node serves
\* that ledger now.
LEMMA ReadAfterIsAtomic ==
    ASSUME TypeOK, AttemptInv, VerdictInv, ReadAfter
    PROVE  Atomic!Take \/ Atomic!Fail \/ UNCHANGED AtomicState
<1>1. /\ pc = "after" /\ result = "none" /\ UNCHANGED <<head, start, keys>>
  BY DEF ReadAfter, VerdictInv, Loop, inventoryVars
<1>2. CASE UNCHANGED materialized
  <2>1. \/ pc' = "before" /\ UNCHANGED result
        \/ pc' = "closure" /\ UNCHANGED result
        \/ pc' = "done" /\ result' \in {"IncoherentLedger", "MalformedRpc"}
    BY DEF ReadAfter, Attempt, End
  <2> QED BY <1>1, <1>2, <2>1, LoopingIsAtomic DEF materialized, Loop
<1>3. CASE ~UNCHANGED materialized
  <2>1. /\ before \in Serving /\ matches /\ pc' = "closure" /\ UNCHANGED result
        /\ anchor' = before /\ coverage' = partial
    BY <1>3 DEF ReadAfter
  <2>2. /\ DOMAIN partial = keys /\ CoherentAt(partial, before)
        /\ ConfigKey \notin keys
    BY <1>1, <2>1 DEF AttemptInv, TypeOK, EntryKey
  <2>3. OwnRun = {} /\ OwnRun' = {}
    BY <1>1, <2>1, Idle
  <2>4. before \in Atomic!Serving
    BY <2>1 DEF Serving, Atomic!Serving
  <2>5. Atomic!ReadAt(before, Fixture')
    BY <2>1, <2>2 DEF Atomic!ReadAt, Fixture, CoherentAt
  <2>6. ProtocolAt[before] \in Accepted
    BY <2>2 DEF CoherentAt
  <2> QED BY <1>1, <2>1, <2>3, <2>4, <2>5, <2>6 DEF Atomic!Take, Fixture
<1> QED BY <1>2, <1>3

LEMMA CloseClosureIsAtomic ==
    ASSUME TypeOK, CoverInv, VerdictInv, CloseClosure
    PROVE  Atomic!Begin \/ Atomic!Fail \/ UNCHANGED AtomicState
<1>1. /\ pc = "closure" /\ result = "none" /\ UNCHANGED <<head, start, keys, anchor, coverage>>
  BY DEF CloseClosure, VerdictInv, Loop, materialized
<1>2. CASE pc' = "done"
  <2>1. result' \in {"MissingReferencedCode", "FixedPointLimit"}
    BY <1>2 DEF CloseClosure, End
  <2> QED BY <1>1, <1>2, <2>1, LoopingIsAtomic DEF Loop
<1>3. CASE pc' # "done"
  <2>1. pc' = "pass" /\ StartPass(start, coverage) /\ UNCHANGED result
    BY <1>3 DEF CloseClosure, End
  <2>2. OwnRun = {}
    BY <1>1, Idle
  <2>3. OwnRun' = {[at |-> start, local |-> {}, written |-> {}, config |-> FALSE]}
    BY <2>1 DEF OwnRun, StartPass
  <2>4. anchor # 0 /\ start \in Starts
    BY <1>1, HistoryAssumption DEF CoverInv, CoherentAt, TypeOK
  <2> QED BY <1>1, <2>1, <2>2, <2>3, <2>4 DEF Atomic!Begin
<1> QED BY <1>2, <1>3

LEMMA StartReplayIsAtomic ==
    ASSUME CoverInv, StartReplay
    PROVE  Atomic!Begin
<1>1. PICK s \in Starts : StartPass(s, coverage)
  BY DEF StartReplay
<1>2. /\ pc = "done" /\ pc' = "replay" /\ result = "Sealed"
      /\ UNCHANGED <<head, result, anchor, coverage, start>>
  BY DEF StartReplay, materialized
<1>3. OwnRun = {}
  BY <1>2, Idle
<1>4. OwnRun' = {[at |-> s, local |-> {}, written |-> {}, config |-> FALSE]}
  BY <1>1, <1>2 DEF OwnRun, StartPass
<1>5. anchor # 0
  BY <1>2, HistoryAssumption DEF CoverInv, Decided, CoherentAt
<1> QED BY <1>2, <1>3, <1>4, <1>5 DEF Atomic!Begin

\* A pass seals, or blames the scenario, only for a run on the coverage.
LEMMA SealIsAtomic ==
    ASSUME TypeOK, CoverInv, SourceInv, VerdictInv, Seal
    PROVE  Atomic!Decide \/ Atomic!Fail
<1>1. /\ pc = "pass" /\ pc' = "done" /\ result = "none" /\ result' = Verdict
      /\ UNCHANGED <<head, anchor, coverage, start>> /\ Finished
      /\ DOMAIN coverage = keys
  BY DEF Seal, Inspecting, End, VerdictInv, materialized, CoverInv
<1>2. CASE Verdict \in {"TransportFailure", "InternalInvariant"}
  BY <1>1, <1>2, Failing
<1>3. CASE Verdict \notin {"TransportFailure", "InternalInvariant"}
  <2>1. /\ ~failure /\ Touched \subseteq keys
        /\ \/ Op[prog] = "panic" /\ Verdict = "ScenarioPanicked"
           \/ Op[prog] = "return" /\ ~rpcReads /\ Verdict = "Sealed"
    BY <1>1, <1>3 DEF Seal, Verdict, Finished
  <2>2. requested \subseteq keys \cup {ConfigKey} /\ stored \ local \subseteq keys
    BY <1>1, <2>1 DEF Touched, SourceInv
  <2> DEFINE r == [at |-> prog, local |-> local, written |-> stored, config |-> rpcReads]
  <2>3. OwnRun = {r} /\ OwnRun' = {}
    BY <1>1, <2>1, <2>2 DEF OwnRun
  <2>4. Atomic!Complete(r)
    BY <1>1, <2>2 DEF Atomic!Complete
  <2> QED BY <1>1, <2>1, <2>3, <2>4 DEF Atomic!Decide
<1> QED BY <1>2, <1>3

LEMMA FinishReplayIsAtomic ==
    ASSUME TypeOK, CoverInv, VerdictInv, FinishReplay
    PROVE  Atomic!EndReplay
<1>1. /\ pc = "replay" /\ pc' = "replayed" /\ result = "Sealed" /\ Finished
      /\ UNCHANGED <<head, anchor, coverage, start>>
      /\ DOMAIN coverage = keys
  BY DEF FinishReplay, VerdictInv, materialized, CoverInv
<1>2. OwnRun' = {}
  BY <1>1, Idle
<1>3. CASE Unknowns # {}
  BY <1>1, <1>2, <1>3 DEF FinishReplay, Atomic!EndReplay
<1>4. CASE Unknowns = {}
  <2>1. unknown = {} /\ stored \ local \subseteq DOMAIN coverage
    BY <1>4 DEF Unknowns
  <2> DEFINE r == [at |-> prog, local |-> local, written |-> stored, config |-> rpcReads]
  <2>2. OwnRun = {r} /\ Atomic!Complete(r)
    BY <1>1, <2>1 DEF OwnRun, Atomic!Complete
  <2>3. \/ Op[prog] = "return" /\ result' = "Returned"
        \/ Op[prog] = "panic" /\ result' = "ScenarioPanicked"
    BY <1>1, <1>4 DEF FinishReplay, Finished
  <2> QED BY <1>1, <1>2, <2>2, <2>3 DEF Atomic!EndReplay
<1> QED BY <1>3, <1>4

\* A scenario that runs on the coverage goes on as it would on the ledger, and
\* what it looks up beyond it ends the run.
Running == [at |-> prog, local |-> local, written |-> stored, config |-> rpcReads]

LEMMA RunOf ==
    /\ OwnRun = {Running} \/ OwnRun = {}
    /\ OwnRun' = {Running'} \/ OwnRun' = {}
BY DEF OwnRun, Running

LEMMA OnRunning ==
    ASSUME NEW a
    PROVE  Atomic!On(Running, a) =
             [at |-> Goto[prog][a], local |-> local, written |-> stored, config |-> rpcReads]
BY DEF Running, Atomic!On

LEMMA LocalIsAtomic ==
    ASSUME NEW k \in Key, GetLocal(k)
    PROVE  Atomic!Step \/ UNCHANGED AtomicState
<1>1. /\ Op[prog] = "read" /\ At[prog] = k /\ k \in local
      /\ prog' = Goto[prog][Absent] /\ local' = local
      /\ UNCHANGED <<head, pc, result, keys, anchor, coverage, start, sourceVars, stored>>
  BY DEF GetLocal, Reading, Resume, inventoryVars, materialized
<1>2. CASE OwnRun = {}
  BY <1>1, <1>2 DEF OwnRun, AtomicState, Fixture, sourceVars
<1>3. CASE OwnRun # {}
  <2>1. OwnRun = {Running} /\ OwnRun' = {Running'}
    BY <1>1, <1>3 DEF OwnRun, Running, sourceVars
  <2>2. Running' = Atomic!On(Running, Absent)
    BY <1>1 DEF Running, Atomic!On, sourceVars
  <2>3. Atomic!ReadLocal(Running)
    BY <1>1, <2>1, <2>2 DEF Atomic!ReadLocal, Running
  <2> QED BY <1>1, <2>1, <2>3 DEF Atomic!Step
<1> QED BY <1>2, <1>3

\* The cache answers from the coverage, or with the setting asked for before.
LEMMA CachedIsAtomic ==
    ASSUME TypeOK, CoverInv, LookupInv, SourceInv, ReplayInv, VerdictInv,
           NEW k \in Key, GetCached(k)
    PROVE  Atomic!Step \/ UNCHANGED AtomicState
<1>1. /\ Op[prog] = "read" /\ At[prog] = k /\ k \notin local /\ k \in DOMAIN cache
      /\ prog' = Goto[prog][cache[k]] /\ local' = local
      /\ requested' = requested \cup {k}
      /\ UNCHANGED <<head, pc, result, keys, anchor, coverage, start, cache, unknown, rpcReads,
                     failure, stored>>
      /\ pc \in {"pass", "replay"}
  BY DEF GetCached, Reading, Executing, Answer, Resume, inventoryVars, materialized
<1>2. CASE OwnRun = {}
  BY <1>1, <1>2 DEF OwnRun, AtomicState, Fixture
<1>3. CASE OwnRun # {}
  <2>1. OwnRun = {Running}
    BY <1>3, RunOf
  <2>2. Running' = Atomic!On(Running, cache[k])
    BY <1>1 DEF Running, Atomic!On
  <2>3. pc = "pass" => k \in keys \cup {ConfigKey}
    BY <1>1, <1>3 DEF OwnRun, SourceInv
  <2>4. OwnRun' = {Running'}
    BY <1>1, <1>3, <2>3 DEF OwnRun, Running
  <2>5. DOMAIN coverage = keys
    BY <1>1 DEF CoverInv
  <2>6. CASE k \in keys
    <3>1. cache[k] = coverage[k]
      BY <1>1, <2>6 DEF LookupInv, ReplayInv
    <3>2. Atomic!ReadEntry(Running)
      BY <1>1, <2>2, <2>4, <2>5, <2>6, <3>1 DEF Atomic!ReadEntry, Running
    <3> QED BY <1>1, <2>1, <3>2 DEF Atomic!Step
  <2>7. CASE k \notin keys
    <3>1. pc = "pass" /\ k = ConfigKey
      BY <1>1, <2>3, <2>5, <2>7 DEF ReplayInv
    <3>2. rpcReads = TRUE
      BY <1>1, <2>5, <2>7, <3>1 DEF LookupInv, TypeOK
    <3>3. PICK n \in Ledger : n <= head /\ cache[k] = LedgerAt[n][ConfigKey]
      BY <1>1, <3>1 DEF SourceInv
    <3>4. Running' = [Atomic!On(Running, LedgerAt[n][ConfigKey]) EXCEPT !.config = TRUE]
      BY <1>1, <2>2, <3>2, <3>3 DEF Running, Atomic!On
    <3>5. result = "none"
      BY <3>1 DEF VerdictInv
    <3>6. Atomic!ReadConfig(Running)
      BY <1>1, <2>4, <3>1, <3>3, <3>4, <3>5 DEF Atomic!ReadConfig, Running
    <3> QED BY <1>1, <2>1, <3>6 DEF Atomic!Step
  <2> QED BY <2>6, <2>7
<1> QED BY <1>2, <1>3

LEMMA RpcIsAtomic ==
    ASSUME TypeOK, LookupInv, VerdictInv, NEW k \in Key, GetFromRpc(k)
    PROVE  Atomic!Step \/ Atomic!Abandon \/ UNCHANGED AtomicState
<1>1. PICK n \in Serving : prog' = Goto[prog][LedgerAt[n][k]]
  BY DEF GetFromRpc, Answer, Resume
<1>2. /\ Op[prog] = "read" /\ At[prog] = k /\ k \notin local \cup DOMAIN cache
      /\ pc = "pass" /\ local' = local /\ rpcReads' = TRUE
      /\ requested' = requested \cup {k}
      /\ UNCHANGED <<head, pc, result, keys, anchor, coverage, start, failure, stored>>
  BY DEF GetFromRpc, Missed, Reading, Answer, Resume, inventoryVars, materialized
<1>3. k \notin keys /\ result = "none"
  BY <1>2 DEF LookupInv, VerdictInv
<1>4. CASE OwnRun' = {}
  <2>1. CASE OwnRun = {}
    BY <1>2, <1>4, <2>1 DEF AtomicState, Fixture
  <2>2. CASE OwnRun # {}
    BY <1>2, <1>4, <2>2 DEF Atomic!Abandon
  <2> QED BY <2>1, <2>2
<1>5. CASE OwnRun' # {}
  <2>1. k = ConfigKey /\ OwnRun # {}
    BY <1>2, <1>3, <1>5 DEF OwnRun
  <2>2. OwnRun = {Running} /\ OwnRun' = {Running'}
    BY <1>5, <2>1, RunOf
  <2>3. Running' = [Atomic!On(Running, LedgerAt[n][ConfigKey]) EXCEPT !.config = TRUE]
    <3>1. Running' = [at |-> Goto[prog][LedgerAt[n][ConfigKey]], local |-> local,
                      written |-> stored, config |-> rpcReads']
      BY <1>1, <1>2, <2>1 DEF Running
    <3> DEFINE g == [at |-> Goto[prog][LedgerAt[n][ConfigKey]], local |-> local,
                     written |-> stored, config |-> rpcReads]
    <3>2. Atomic!On(Running, LedgerAt[n][ConfigKey]) = g
      BY OnRunning
    <3>3. Running' = [g EXCEPT !.config = rpcReads']
      BY <3>1
    <3>4. rpcReads' = TRUE
      BY <1>2
    <3> HIDE DEF g
    <3> QED BY <3>2, <3>3, <3>4
  <2>4. n \in Ledger /\ n <= head
    BY DEF Serving
  <2>5. Atomic!ReadConfig(Running)
    BY <1>2, <1>3, <2>1, <2>2, <2>3, <2>4 DEF Atomic!ReadConfig, Running
  <2> QED BY <1>2, <2>2, <2>5 DEF Atomic!Step
<1> QED BY <1>4, <1>5

LEMMA RefusedIsAtomic ==
    ASSUME LookupInv, ReplayInv, NEW k \in Key, GetLatched(k) \/ GetUnknown(k) \/ GetFails(k)
    PROVE  Atomic!Abandon \/ UNCHANGED AtomicState
<1>1. /\ UNCHANGED <<head, pc, result, keys, anchor, coverage, start>>
      /\ pc \in {"pass", "replay"}
  BY DEF GetLatched, GetUnknown, GetFails, Missed, Reading, Executing, Answer, Resume,
         inventoryVars, materialized
<1>2. OwnRun' = {}
  BY <1>1 DEF GetLatched, GetUnknown, GetFails, OwnRun, ReplayInv, sourceVars
<1>3. CASE OwnRun = {}
  BY <1>1, <1>2, <1>3 DEF AtomicState, Fixture
<1>4. CASE OwnRun # {}
  BY <1>1, <1>2, <1>4 DEF Atomic!Abandon
<1> QED BY <1>3, <1>4

LEMMA WriteMarkIsAtomic ==
    ASSUME Write \/ Mark
    PROVE  Atomic!Step \/ UNCHANGED AtomicState
<1>1. UNCHANGED <<head, pc, result, keys, anchor, coverage, start, sourceVars>>
  BY DEF Write, Mark, Resume, inventoryVars, materialized
<1>2. CASE OwnRun = {}
  BY <1>1, <1>2 DEF OwnRun, AtomicState, Fixture, sourceVars
<1>3. CASE OwnRun # {}
  <2>1. OwnRun = {Running} /\ OwnRun' = {Running'}
    BY <1>1, <1>3 DEF OwnRun, Running, sourceVars
  <2>2. CASE Write
    <3>1. Running' = [Atomic!On(Running, Absent) EXCEPT !.written = @ \cup {At[prog]}]
      <4>1. Running' = [at |-> Goto[prog][Absent], local |-> local,
                        written |-> stored \cup {At[prog]}, config |-> rpcReads]
        BY <1>1, <2>2 DEF Write, Resume, Running, sourceVars
      <4> DEFINE g == [at |-> Goto[prog][Absent], local |-> local,
                       written |-> stored, config |-> rpcReads]
      <4>2. Atomic!On(Running, Absent) = g
        BY OnRunning
      <4>3. Running' = [g EXCEPT !.written = g.written \cup {At[prog]}]
        BY <4>1
      <4> HIDE DEF g
      <4> QED BY <4>2, <4>3
    <3>2. Atomic!Write(Running)
      BY <2>1, <2>2, <3>1 DEF Write, Atomic!Write, Running
    <3> QED BY <1>1, <2>1, <3>2 DEF Atomic!Step
  <2>3. CASE Mark
    <3>1. Running' = [Atomic!On(Running, Absent) EXCEPT !.local = @ \cup Marks[prog]]
      <4>1. Running' = [at |-> Goto[prog][Absent], local |-> local \cup Marks[prog],
                        written |-> stored, config |-> rpcReads]
        BY <1>1, <2>3 DEF Mark, Resume, Running, sourceVars
      <4> DEFINE g == [at |-> Goto[prog][Absent], local |-> local,
                       written |-> stored, config |-> rpcReads]
      <4>2. Atomic!On(Running, Absent) = g
        BY OnRunning
      <4>3. Running' = [g EXCEPT !.local = g.local \cup Marks[prog]]
        BY <4>1
      <4> HIDE DEF g
      <4> QED BY <4>2, <4>3
    <3>2. Atomic!Mark(Running)
      BY <2>1, <2>3, <3>1 DEF Mark, Atomic!Mark, Running
    <3> QED BY <1>1, <2>1, <3>2 DEF Atomic!Step
  <2> QED BY <2>2, <2>3
<1> QED BY <1>2, <1>3

\* Every step of a capture or a replay is a step of an atomic one, or none.
LEMMA StepIsAtomic ==
    /\ TypeOK /\ AttemptInv /\ CoverInv /\ LookupInv /\ ReplayInv
    /\ SourceInv /\ VerdictInv /\ [Next]_vars
    => [Atomic!Next]_(Atomic!vars)
<1> SUFFICES ASSUME TypeOK, AttemptInv, CoverInv, LookupInv, ReplayInv, SourceInv, VerdictInv,
                    [Next]_vars
             PROVE  Atomic!Next \/ UNCHANGED Atomic!vars
  OBVIOUS
<1>0. UNCHANGED AtomicState => UNCHANGED Atomic!vars
  BY DEF AtomicState, Fixture, Atomic!vars
<1>1. CASE CloseLedger
  <2>1. UNCHANGED <<result, anchor, coverage, start, OwnRun>>
    BY <1>1 DEF CloseLedger, inventoryVars, materialized, passVars, sourceVars, OwnRun
  <2> QED BY <1>1, <2>1 DEF CloseLedger, Atomic!CloseLedger, Atomic!Next
<1>2. CASE ValidateNetwork \/ TransportFailure \/ ReadBefore \/ ReadBatch \/ RejectReference \/ ExpandClosure
  <2>1. /\ pc \in Loop /\ UNCHANGED <<head, anchor, coverage, start>>
        /\ \/ pc' \in Loop /\ UNCHANGED result
           \/ /\ pc' = "done"
              /\ result' \notin {"none", "Sealed", "ScenarioPanicked", "Returned", "UnknownLedgerKeys"}
    BY <1>2 DEF ValidateNetwork, TransportFailure, ReadBefore, ReadBatch, RejectReference, References,
                ExpandClosure, Attempt, End, Loop, materialized
  <2> QED BY <1>0, <2>1, LoopingIsAtomic DEF VerdictInv, Atomic!Next
<1>3. CASE ReadAfter
  BY <1>0, <1>3, ReadAfterIsAtomic DEF Atomic!Next
<1>4. CASE CloseClosure
  BY <1>0, <1>4, CloseClosureIsAtomic DEF Atomic!Next
<1>5. CASE Scenario
  <2>1. ASSUME NEW k \in Key, Get(k) PROVE Atomic!Next \/ UNCHANGED Atomic!vars
    BY <1>0, <2>1, LocalIsAtomic, CachedIsAtomic, RpcIsAtomic, RefusedIsAtomic DEF Get, Atomic!Next
  <2>2. CASE Write \/ Mark
    BY <1>0, <2>2, WriteMarkIsAtomic DEF Atomic!Next
  <2> QED BY <1>5, <2>1, <2>2 DEF Scenario
<1>6. CASE Discover
  <2>1. UNCHANGED <<head, anchor, coverage, start, result>> /\ OwnRun' = {}
    BY <1>6 DEF Discover, Attempt, materialized, OwnRun
  <2> QED BY <1>0, <2>1 DEF Atomic!Abandon, Atomic!Next, AtomicState, Fixture
<1>7. CASE Seal
  BY <1>7, SealIsAtomic DEF Atomic!Next
<1>8. CASE StartReplay
  BY <1>8, StartReplayIsAtomic DEF Atomic!Next
<1>9. CASE FinishReplay
  BY <1>9, FinishReplayIsAtomic DEF Atomic!Next
<1>10. CASE UNCHANGED vars
  BY <1>0, <1>10
  DEF vars, inventoryVars, materialized, passVars, sourceVars, OwnRun, AtomicState, Fixture
<1> QED
  BY <1>1, <1>2, <1>3, <1>4, <1>5, <1>6, <1>7, <1>8, <1>9, <1>10 DEF Next, Capture

\* A capture implements an atomic one: however the network moves between its
\* RPCs, it reads one ledger at one moment and runs the scenario on that, and
\* so do the replays (capture_ref_from_keys, replay_with_local).
THEOREM CaptureImplementsAtomic == Spec => CaptureIsAtomic
<1>1. Atomic!Init /\ [][Atomic!Next]_(Atomic!vars) => CaptureIsAtomic
  BY DEF CaptureIsAtomic, Atomic!Spec
<1>2. Init => VerdictInv /\ SourceInv
  BY DEF Init, VerdictInv, SourceInv
<1> QED
  BY <1>1, <1>2, AtomicInit, StepIsAtomic, VerdictNone, SourceStep, InvariantInit, CoherenceStep,
     LookupStep, TrailStep, SealStep, ReplayStep, TypeCorrect, PTL DEF Spec
=============================================================================
