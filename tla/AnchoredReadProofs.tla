------------------------- MODULE AnchoredReadProofs -------------------------
(***************************************************************************)
(* Proofs about anchored reads, for every network history, every number of *)
(* resets, every lag of the nodes and every size of a batch.               *)
(*                                                                         *)
(* An attempt may have mixed the ledgers of two histories while it lasts;  *)
(* the invariant speaks of it only as long as the network is still in the  *)
(* history of its first anchor.  Histories do not come back, so the second *)
(* anchor, equal to the first, shows that it was throughout.               *)
(***************************************************************************)
EXTENDS AnchoredRead, TLAPS

InAttempt == pc \in {"batch", "after"}

\* Between attempts nothing of the last one is left.
Dropped == ~InAttempt => partial = Nothing /\ pending = {} /\ matches = TRUE

\* The first anchor is a ledger that a node had, in this history or before.
Anchored ==
    InAttempt =>
        /\ before.hash = before.header /\ before.sequence = before.hash.seq
        /\ before.hash \in served /\ before.hash \in Block
        /\ before.hash.chain <= chain

\* As long as the history lasts, the entries are those of the anchor's ledger.
OneLedger ==
    InAttempt /\ matches /\ before.hash.chain = chain =>
        \A k \in DOMAIN partial : partial[k] = LedgerAt[before.hash][k]

Watched == pc # "idle" => Serving \subseteq served

Inv == TypeOK /\ Dropped /\ Anchored /\ OneLedger /\ Watched /\ ReadsOneLedger /\ AnswersOfTheCall

-----------------------------------------------------------------------------

LEMMA NothingTyped == DOMAIN Nothing = {} /\ Nothing \in Coverage({})
  BY DEF Nothing, Coverage

LEMMA ServingTyped == Serving \subseteq Block /\ \A b \in Serving : b.chain = chain
  BY DEF Serving, ServingAt

LEMMA InitInv == Init => Inv
  <1> SUFFICES ASSUME Init PROVE Inv OBVIOUS
  <1>1. TypeOK
    BY NothingTyped, NetworkAssumption, ReadAssumption DEF Init, TypeOK, Coverage
  <1>2. Dropped /\ Anchored /\ OneLedger /\ Watched BY DEF Init, Dropped, Anchored, OneLedger, Watched, InAttempt
  <1>3. ReadsOneLedger /\ AnswersOfTheCall BY DEF Init, ReadsOneLedger, AnswersOfTheCall
  <1> QED BY <1>1, <1>2, <1>3 DEF Inv

\* The network moves on, or to a new history.
LEMMA MovedKeeps ==
    ASSUME Inv, Moved, chain' \in 1..Histories, head' \in Ledger, chain <= chain'
    PROVE  Inv'
  <1> USE DEF Inv
  <1>1. ServingAt(chain', head') \subseteq Block BY DEF ServingAt
  <1>2. served \subseteq served' /\ served' \subseteq Block
    BY <1>1 DEF Moved, TypeOK
  <1>3. UNCHANGED <<pc, op, result, asked, attempt, before, pending, matches, partial, held>>
    BY DEF Moved, reading
  <1>4. TypeOK' BY <1>2, <1>3 DEF TypeOK, Coverage
  <1>5. Dropped' BY <1>3 DEF Dropped, InAttempt
  <1>6. Anchored' /\ OneLedger'
    <2>1. InAttempt' = InAttempt BY <1>3 DEF InAttempt
    <2>2. InAttempt => before.hash.chain \in Nat /\ chain \in Nat /\ chain' \in Nat
      BY NetworkAssumption DEF Anchored, Block, TypeOK
    <2>3. Anchored' BY <1>2, <1>3, <2>1, <2>2 DEF Anchored
    <2>4. OneLedger' BY <1>3, <2>1, <2>2 DEF OneLedger, Anchored
    <2> QED BY <2>3, <2>4
  <1>7. Watched' BY <1>3 DEF Watched, Serving, Moved
  <1>8. ReadsOneLedger' BY <1>3 DEF ReadsOneLedger
  <1>9. AnswersOfTheCall' BY <1>2, <1>3 DEF AnswersOfTheCall
  <1> QED BY <1>4, <1>5, <1>6, <1>7, <1>8, <1>9

\* A call that returns without having read.
LEMMA EndKeeps ==
    ASSUME Inv, NEW r, End(r), ReadsOneLedger', AnswersOfTheCall'
    PROVE  Inv'
  <1> USE DEF Inv
  <1>1. TypeOK' BY NothingTyped, ReadAssumption DEF End, TypeOK, Coverage, network
  <1>2. Dropped' /\ Anchored' /\ OneLedger' /\ Watched'
    BY DEF End, Dropped, Anchored, OneLedger, Watched, InAttempt
  <1> QED BY <1>1, <1>2

LEMMA FailKeeps ==
    ASSUME Inv, NEW r, Fail(r),
           r = "current" => held.anchor.hash \in served, r # "read"
    PROVE  Inv'
  <1>1. ReadsOneLedger' BY DEF Inv, Fail, End, ReadsOneLedger
  <1>2. AnswersOfTheCall' BY DEF Inv, Fail, End, AnswersOfTheCall
  <1> QED BY <1>1, <1>2, EndKeeps DEF Fail

LEMMA AttemptKeeps ==
    ASSUME Inv, NEW i \in 0..MaxAttempts, Attempt(i), pc # "idle"
    PROVE  Inv'
  <1> USE DEF Inv
  <1>1. TypeOK' BY NothingTyped, ReadAssumption DEF Attempt, TypeOK, Coverage, network
  <1>2. Dropped' /\ Anchored' /\ OneLedger'
    BY DEF Attempt, Dropped, Anchored, OneLedger, InAttempt
  <1>3. Watched' BY DEF Attempt, Watched, Serving, network
  <1>4. ReadsOneLedger' /\ AnswersOfTheCall'
    BY DEF Attempt, ReadsOneLedger, AnswersOfTheCall
  <1> QED BY <1>1, <1>2, <1>3, <1>4

LEMMA BeginKeeps == ASSUME Inv, Begin PROVE Inv'
  <1> USE DEF Inv
  <1>1. partial = Nothing /\ pending = {} /\ matches = TRUE
    BY DEF Begin, Dropped, InAttempt
  <1>2. asked' \in SUBSET (Key \ {ConfigKey}) BY ReadAssumption DEF Begin, TypeOK
  <1>3. TypeOK'
    BY <1>1, <1>2, NothingTyped, ServingTyped DEF Begin, TypeOK, Coverage, network
  <1>4. Dropped' /\ Anchored' /\ OneLedger'
    BY <1>1 DEF Begin, Dropped, Anchored, OneLedger, InAttempt
  <1>5. Watched' BY DEF Begin, Watched, Serving, network
  <1>6. ReadsOneLedger' /\ AnswersOfTheCall'
    BY DEF Begin, ReadsOneLedger, AnswersOfTheCall
  <1> QED BY <1>3, <1>4, <1>5, <1>6

LEMMA ReadBeforeKeeps == ASSUME Inv, ReadBefore PROVE Inv'
  <1> USE DEF Inv
  <1>1. PICK a \in LatestAnswer :
          /\ Consistent(a)
          /\ \/ Fail("UnsupportedProtocol")
             \/ /\ pc' = "batch" /\ before' = a /\ pending' = asked \cup {ConfigKey}
                /\ UNCHANGED <<network, op, result, asked, attempt, matches, partial, held, served>>
    BY DEF ReadBefore
  <1>2. CASE Fail("UnsupportedProtocol") BY <1>2, FailKeeps
  <1>3. CASE /\ pc' = "batch" /\ before' = a /\ pending' = asked \cup {ConfigKey}
             /\ UNCHANGED <<network, op, result, asked, attempt, matches, partial, held, served>>
    <2>1. a \in Anchor /\ a.header \in Serving /\ a.hash = a.header /\ a.sequence = a.hash.seq
      BY <1>1, ServingTyped DEF LatestAnswer, Consistent, Anchor
    <2>2. a.hash \in Block /\ a.hash.chain = chain /\ a.hash \in served
      BY <2>1, ServingTyped DEF Watched, ReadBefore
    <2>3. partial = Nothing /\ matches = TRUE BY DEF Dropped, InAttempt, ReadBefore
    <2>4. TypeOK'
      <3>1. DOMAIN partial = {} BY <2>3, NothingTyped
      <3> QED BY <1>3, <2>1, <3>1 DEF TypeOK, Coverage, network
    <2>5. Dropped' BY <1>3 DEF Dropped, InAttempt
    <2>6. Anchored' BY <1>3, <2>1, <2>2, NetworkAssumption DEF Anchored, InAttempt, network, Block
    <2>7. OneLedger' BY <1>3, <2>3, NothingTyped DEF OneLedger, InAttempt
    <2>8. Watched' BY <1>3 DEF Watched, Serving, network, ReadBefore
    <2>9. ReadsOneLedger' /\ AnswersOfTheCall' BY <1>3 DEF ReadsOneLedger, AnswersOfTheCall
    <2> QED BY <2>4, <2>5, <2>6, <2>7, <2>8, <2>9
  <1> QED BY <1>1, <1>2, <1>3

\* What validate_batch accepts is what the node's ledger has (validate_batch).
LEMMA ReturnedRight ==
    ASSUME NEW c, NEW b, NEW x \in Spare(b, c) \cup {None}, ValidBatch(x, b, c), NEW k
    PROVE  Returned(x, b, k) = LedgerAt[b][k]
  BY DEF Spare, ValidBatch, Returned

LEMMA ReadBatchKeeps == ASSUME Inv, ReadBatch PROVE Inv'
  <1> USE DEF Inv
  <1>0. PICK c \in SUBSET pending, b \in Serving : \E x \in Spare(b, c) \cup {None} :
          \/ /\ matches' = FALSE /\ pc' = "after"
             /\ UNCHANGED <<network, op, result, asked, attempt, before, pending, partial, held, served>>
          \/ Fail("MalformedRpc") \/ Fail("MissingStateArchival")
          \/ /\ b.seq = before.sequence /\ ValidBatch(x, b, c)
             /\ partial' = Extend(x, b, c) /\ pending' = pending \ c
             /\ pc' = IF pending = c THEN "after" ELSE "batch"
             /\ UNCHANGED <<network, op, result, asked, attempt, before, matches, held, served>>
    BY DEF ReadBatch
  <1>1. PICK x \in Spare(b, c) \cup {None} :
          \/ /\ matches' = FALSE /\ pc' = "after"
             /\ UNCHANGED <<network, op, result, asked, attempt, before, pending, partial, held, served>>
          \/ Fail("MalformedRpc") \/ Fail("MissingStateArchival")
          \/ /\ b.seq = before.sequence /\ ValidBatch(x, b, c)
             /\ partial' = Extend(x, b, c) /\ pending' = pending \ c
             /\ pc' = IF pending = c THEN "after" ELSE "batch"
             /\ UNCHANGED <<network, op, result, asked, attempt, before, matches, held, served>>
    BY <1>0
  <1>2. pc = "batch" /\ InAttempt BY DEF ReadBatch, InAttempt
  <1>3. CASE Fail("MalformedRpc") \/ Fail("MissingStateArchival") BY <1>3, FailKeeps
  <1>4. CASE /\ matches' = FALSE /\ pc' = "after"
             /\ UNCHANGED <<network, op, result, asked, attempt, before, pending, partial, held, served>>
    <2>1. TypeOK' BY <1>2, <1>4 DEF TypeOK, Coverage, network
    <2>2. Dropped' /\ Anchored' /\ OneLedger'
      BY <1>2, <1>4 DEF Dropped, Anchored, OneLedger, InAttempt, network
    <2>3. Watched' BY <1>2, <1>4 DEF Watched, Serving, network
    <2>4. ReadsOneLedger' /\ AnswersOfTheCall' BY <1>4 DEF ReadsOneLedger, AnswersOfTheCall
    <2> QED BY <2>1, <2>2, <2>3, <2>4
  <1>5. CASE /\ b.seq = before.sequence /\ ValidBatch(x, b, c)
             /\ partial' = Extend(x, b, c) /\ pending' = pending \ c
             /\ pc' = IF pending = c THEN "after" ELSE "batch"
             /\ UNCHANGED <<network, op, result, asked, attempt, before, matches, held, served>>
    <2>1. b \in Block /\ b.chain = chain BY ServingTyped
    <2>2. c \subseteq asked \cup {ConfigKey} /\ ConfigKey \notin asked /\ asked \subseteq Key
      BY DEF TypeOK
    <2>3. /\ DOMAIN partial' = DOMAIN partial \cup (c \ {ConfigKey})
          /\ \A k \in DOMAIN partial' :
               partial'[k] = IF k \in DOMAIN partial THEN partial[k] ELSE LedgerAt[b][k]
      BY <1>5, ReturnedRight DEF Extend
    <2>4. DOMAIN partial' \subseteq asked BY <2>2, <2>3 DEF TypeOK
    <2>5. partial' \in Coverage(DOMAIN partial')
      <3>1. \A k \in DOMAIN partial' : partial'[k] \in Value
        BY <2>1, <2>2, <2>3, <2>4, NetworkAssumption DEF TypeOK, Coverage
      <3>2. partial' = [k \in DOMAIN partial' |-> partial'[k]] BY <1>5 DEF Extend
      <3> QED BY <3>1, <3>2 DEF Coverage
    <2>6. matches => DOMAIN partial' = asked \ (pending \ c)
      BY <1>2, <2>2, <2>3 DEF TypeOK
    <2>7. pc' = "after" => pending' = {} BY <1>5
    <2>8. pc' \in {"batch", "after"} BY <1>5
    <2>9. TypeOK'
      BY <1>2, <1>5, <2>4, <2>5, <2>6, <2>7, <2>8 DEF TypeOK, network
    <2>10. Dropped' /\ Anchored'
      BY <1>2, <1>5, <2>8 DEF Dropped, Anchored, InAttempt, network
    <2>11. OneLedger'
      <3>1. SUFFICES ASSUME matches, before.hash.chain = chain, NEW k \in DOMAIN partial'
                     PROVE  partial'[k] = LedgerAt[before.hash][k]
        BY <1>5 DEF OneLedger, network
      <3>2. b = before.hash
        BY <1>2, <1>5, <2>1, <3>1 DEF Anchored, Block
      <3> QED BY <1>2, <2>3, <3>1, <3>2 DEF OneLedger
    <2>12. Watched' BY <1>2, <1>5 DEF Watched, Serving, network
    <2>13. ReadsOneLedger' /\ AnswersOfTheCall' BY <1>5 DEF ReadsOneLedger, AnswersOfTheCall
    <2> QED BY <2>9, <2>10, <2>11, <2>12, <2>13
  <1> QED BY <1>1, <1>3, <1>4, <1>5

LEMMA ReadAfterKeeps == ASSUME Inv, ReadAfter PROVE Inv'
  <1> USE DEF Inv
  <1>1. PICK a \in LatestAnswer :
          /\ Consistent(a)
          /\ \/ attempt < MaxAttempts /\ Attempt(attempt + 1)
             \/ Fail("IncoherentLedger") \/ Fail("MalformedRpc")
             \/ /\ matches /\ SameAnchor(before, a)
                /\ held' = [anchor |-> before, asked |-> asked, coverage |-> partial]
                /\ End("read")
    BY DEF ReadAfter
  <1>2. pc = "after" /\ InAttempt BY DEF ReadAfter, InAttempt
  <1>3. CASE attempt < MaxAttempts /\ Attempt(attempt + 1)
    <2>1. attempt + 1 \in 0..MaxAttempts BY <1>3, ReadAssumption DEF TypeOK
    <2> QED BY <1>2, <1>3, <2>1, AttemptKeeps
  <1>4. CASE Fail("IncoherentLedger") \/ Fail("MalformedRpc") BY <1>4, FailKeeps
  <1>5. CASE /\ matches /\ SameAnchor(before, a)
             /\ held' = [anchor |-> before, asked |-> asked, coverage |-> partial]
             /\ End("read")
    <2>1. before.hash.chain = chain
      BY <1>1, <1>5, ServingTyped DEF LatestAnswer, Consistent, SameAnchor
    <2>2. /\ before.hash = before.header /\ before.sequence = before.hash.seq
          /\ before.hash \in served
      BY <1>2 DEF Anchored
    <2>3. DOMAIN partial = asked BY <1>2, <1>5 DEF TypeOK
    <2>4. partial = [k \in asked |-> LedgerAt[before.hash][k]]
      <3>1. partial = [k \in DOMAIN partial |-> partial[k]] BY DEF TypeOK, Coverage
      <3>2. \A k \in DOMAIN partial : partial[k] = LedgerAt[before.hash][k]
        BY <1>2, <1>5, <2>1 DEF OneLedger
      <3> QED BY <2>3, <3>1, <3>2
    <2>5. /\ held'.anchor = before /\ held'.asked = asked /\ held'.coverage = partial BY <1>5
    <2>6. ReadsOneLedger' BY <2>2, <2>4, <2>5 DEF ReadsOneLedger
    <2>7. AnswersOfTheCall' BY <1>5, <2>2, <2>5 DEF AnswersOfTheCall, End
    <2> QED BY <1>5, <2>6, <2>7, EndKeeps
  <1> QED BY <1>1, <1>3, <1>4, <1>5

LEMMA ProbeKeeps == ASSUME Inv, ProbeAnchor PROVE Inv'
  <1> USE DEF Inv
  <1>1. PICK a \in LatestAnswer :
          /\ Consistent(a)
          /\ \/ Fail("UnsupportedProtocol") \/ Fail("moved")
             \/ SameAnchor(a, held.anchor) /\ Fail("current")
    BY DEF ProbeAnchor
  <1>2. CASE Fail("UnsupportedProtocol") \/ Fail("moved") BY <1>2, FailKeeps
  <1>3. CASE SameAnchor(a, held.anchor) /\ Fail("current")
    <2>1. a.hash \in served
      BY <1>1 DEF LatestAnswer, Consistent, Watched, ProbeAnchor
    <2>2. held.anchor.hash \in served BY <1>3, <2>1 DEF SameAnchor
    <2> QED BY <1>3, <2>2, FailKeeps
  <1> QED BY <1>1, <1>2, <1>3

LEMMA ValidateKeeps == ASSUME Inv, ValidateNetwork PROVE Inv'
  <1> USE DEF Inv
  <1>1. \/ Fail("NetworkMismatch") \/ Fail("UnsupportedProtocol") \/ Attempt(1)
        \/ pc' = "probe" /\ UNCHANGED <<network, op, result, reading, held, served>>
    BY DEF ValidateNetwork
  <1>2. pc = "network" BY DEF ValidateNetwork
  <1>3. CASE Fail("NetworkMismatch") \/ Fail("UnsupportedProtocol") BY <1>3, FailKeeps
  <1>4. CASE Attempt(1)
    <2>1. 1 \in 0..MaxAttempts BY ReadAssumption
    <2> QED BY <1>2, <1>4, <2>1, AttemptKeeps
  <1>5. CASE pc' = "probe" /\ UNCHANGED <<network, op, result, reading, held, served>>
    <2>1. TypeOK' BY <1>5 DEF TypeOK, Coverage, network, reading
    <2>2. Dropped' /\ Anchored' /\ OneLedger'
      BY <1>2, <1>5 DEF Dropped, Anchored, OneLedger, InAttempt, reading
    <2>3. Watched' BY <1>2, <1>5 DEF Watched, Serving, network
    <2>4. ReadsOneLedger' /\ AnswersOfTheCall' BY <1>5 DEF ReadsOneLedger, AnswersOfTheCall
    <2> QED BY <2>1, <2>2, <2>3, <2>4
  <1> QED BY <1>1, <1>3, <1>4, <1>5

LEMMA StutterKeeps == ASSUME Inv, UNCHANGED vars PROVE Inv'
  <1> USE DEF Inv
  <1>1. TypeOK' BY DEF vars, TypeOK, Coverage, network, reading
  <1>2. Dropped' /\ Anchored' /\ OneLedger'
    BY DEF vars, Dropped, Anchored, OneLedger, InAttempt, network, reading
  <1>3. Watched' BY DEF vars, Watched, Serving, network
  <1>4. ReadsOneLedger' /\ AnswersOfTheCall' BY DEF vars, ReadsOneLedger, AnswersOfTheCall
  <1> QED BY <1>1, <1>2, <1>3, <1>4

LEMMA StepKeeps == Inv /\ [Next]_vars => Inv'
  <1> SUFFICES ASSUME Inv, [Next]_vars PROVE Inv' OBVIOUS
  <1>1. chain \in 1..Histories /\ head \in Ledger /\ Histories \in Nat
    BY NetworkAssumption DEF Inv, TypeOK
  <1>2. CASE CloseLedger BY <1>1, <1>2, MovedKeeps DEF CloseLedger
  <1>3. CASE Reset BY <1>1, <1>3, MovedKeeps DEF Reset
  <1>4. CASE TransportFailure BY <1>4, FailKeeps DEF TransportFailure
  <1> QED
    BY <1>2, <1>3, <1>4, BeginKeeps, ValidateKeeps, ReadBeforeKeeps, ReadBatchKeeps,
       ReadAfterKeeps, ProbeKeeps, StutterKeeps
    DEF Next

LEMMA Invariant == Spec => []Inv
  BY InitInv, StepKeeps, PTL DEF Spec

\* Every variable has its type, and an attempt has what it asked for.
THEOREM AnchoredTypeOK == Spec => []TypeOK
  BY Invariant, PTL DEF Inv

\* A read returns the entries of one ledger, the one its anchor names, across
\* ledgers that close, networks that are reset and answers that do not fit
\* together (materialize, latest_ledger, validate_batch).
THEOREM AnchoredReadsOneLedger == Spec => []ReadsOneLedger
  BY Invariant, PTL DEF Inv

\* A read, or a fixture found current, is of a ledger that nodes had during the
\* call (materialize, cached_anchor_is_current).
THEOREM AnchoredAnswers == Spec => []AnswersOfTheCall
  BY Invariant, PTL DEF Inv
=============================================================================
