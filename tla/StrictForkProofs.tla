-------------------------- MODULE StrictForkProofs --------------------------
(***************************************************************************)
(* Proofs about the strict fork, for every host that meets the assumptions *)
(* of module Host.                                                         *)
(***************************************************************************)
EXTENDS StrictFork, SequenceTheorems, TLAPS

USE DEF Entry

\* What the environment and the coverage of a fork have in common, for the fork
\* itself and for the checkpoints it can go back to.
Sane(s, cov, contracts, code) ==
    /\ s = Present(cov)
    /\ \A k \in DOMAIN cov : k \in Captured \/ IsLocal(k, contracts, code, FALSE)
    /\ \A c \in contracts : InstanceKey[c] \in DOMAIN cov
    /\ code \subseteq DOMAIN cov

ForkInv ==
    /\ Sane(snapshot, coverage, localContracts, localCode)
    /\ \A c \in held : c.fork = Id => Sane(c.snapshot, c.coverage, c.contracts, c.code)

-----------------------------------------------------------------------------
(* Ledgers and coverages *)

\* A coverage lists a ledger.
LEMMA PresentState ==
    ASSUME NEW cov, IsCoverage(cov)
    PROVE  Present(cov) \in State
  BY KeyAssumption DEF IsCoverage, Present, State

\* Overlaying the writes of a run gives a ledger.
LEMMA OverlayState ==
    ASSUME NEW s \in State, NEW run, IsOutcome(run)
    PROVE  Overlay(s, run.writes) \in State
  BY KeyAssumption DEF Overlay, State, IsOutcome

\* Updating the coverage of a fork by a ledger keeps its type.
LEMMA UpdateTyped ==
    ASSUME IsCoverage(coverage), snapshot \in State, NEW after \in State
    PROVE  /\ IsCoverage(UpdateCoverage(after))
           /\ DOMAIN UpdateCoverage(after) = DOMAIN coverage \cup {k \in Key : snapshot[k] # after[k]}
           /\ \A k \in DOMAIN UpdateCoverage(after) :
                 UpdateCoverage(after)[k] = IF snapshot[k] # after[k] THEN after[k] ELSE coverage[k]
  BY DEF IsCoverage, UpdateCoverage, StateDiff, State

\* After an update the coverage lists the ledger it was updated by.
LEMMA UpdateAgrees ==
    ASSUME IsCoverage(coverage), snapshot \in State, snapshot = Present(coverage),
           NEW after \in State
    PROVE  after = Present(UpdateCoverage(after))
  <1> DEFINE cov == UpdateCoverage(after)
  <1>0. DOMAIN cov = DOMAIN coverage \cup {k \in Key : snapshot[k] # after[k]}
    BY UpdateTyped
  <1>1. ASSUME NEW k \in Key PROVE after[k] = Present(cov)[k]
    <2>1. CASE snapshot[k] # after[k]
      BY <2>1, UpdateTyped DEF Present
    <2>2. CASE snapshot[k] = after[k] /\ k \in DOMAIN coverage
      BY <2>2, UpdateTyped DEF Present
    <2>3. CASE snapshot[k] = after[k] /\ k \notin DOMAIN coverage
      <3>1. snapshot[k] = Absent BY <2>3 DEF Present
      <3>2. k \notin DOMAIN cov BY ONLY <1>0, <2>3
      <3> QED BY <2>3, <3>1, <3>2 DEF Present
    <2> QED BY <2>1, <2>2, <2>3
  <1>2. after \in [Key -> Entry] BY DEF State
  <1> QED BY <1>1, <1>2 DEF Present

\* A run that misses nothing found the same entries in the coverage as in the
\* ledger the fork stands for, nonces of mocked authorization aside.
LEMMA ViewAgrees ==
    ASSUME IsCoverage(coverage), NEW contracts, NEW code, NEW mock \in BOOLEAN,
           NEW run, IsOutcome(run), Unknown(run, contracts, code, mock) = {}
    PROVE  SameOn(View,
                  [k \in Key |-> IF mock /\ k \in NonceKey \ DOMAIN coverage THEN Absent
                                ELSE LedgerOf(coverage, contracts, code)[k]],
                  run.reads)
  <1> SUFFICES ASSUME NEW k \in run.reads
               PROVE  View[k] = IF mock /\ k \in NonceKey \ DOMAIN coverage THEN Absent
                                ELSE LedgerOf(coverage, contracts, code)[k]
    BY DEF SameOn, IsOutcome
  <1>1. k \in Key BY DEF IsOutcome
  <1>2. k \in DOMAIN coverage \/ IsLocal(k, contracts, code, mock)
    BY DEF Unknown, Touched
  <1>3. View[k] = IF k \in DOMAIN coverage THEN coverage[k] ELSE Absent
    BY <1>1 DEF View, Present
  <1>4. LedgerOf(coverage, contracts, code)[k] =
            IF k \in DOMAIN coverage THEN coverage[k]
            ELSE IF IsLocal(k, contracts, code, FALSE) THEN Absent ELSE Network[k]
    BY <1>1 DEF LedgerOf
  <1> QED BY <1>2, <1>3, <1>4 DEF IsLocal

\* The ledger a fork stands for follows the changes of its own ledger.
LEMMA LedgerFollows ==
    ASSUME IsCoverage(coverage), snapshot \in State,
           NEW contracts, NEW code, NEW after \in State, NEW k \in Key
    PROVE  LedgerOf(UpdateCoverage(after), contracts, code)[k] =
              IF snapshot[k] # after[k] THEN after[k] ELSE LedgerOf(coverage, contracts, code)[k]
  <1> DEFINE cov == UpdateCoverage(after)
  <1>1. k \in DOMAIN cov <=> k \in DOMAIN coverage \/ snapshot[k] # after[k]
    BY UpdateTyped
  <1>2. k \in DOMAIN cov => cov[k] = IF snapshot[k] # after[k] THEN after[k] ELSE coverage[k]
    BY UpdateTyped
  <1>3. LedgerOf(cov, contracts, code)[k] =
            IF k \in DOMAIN cov THEN cov[k]
            ELSE IF IsLocal(k, contracts, code, FALSE) THEN Absent ELSE Network[k]
    BY DEF LedgerOf
  <1>4. LedgerOf(coverage, contracts, code)[k] =
            IF k \in DOMAIN coverage THEN coverage[k]
            ELSE IF IsLocal(k, contracts, code, FALSE) THEN Absent ELSE Network[k]
    BY DEF LedgerOf
  <1> HIDE DEF cov
  <1>5. LedgerOf(cov, contracts, code)[k] =
            IF snapshot[k] # after[k] THEN after[k] ELSE LedgerOf(coverage, contracts, code)[k]
    BY <1>1, <1>2, <1>3, <1>4
  <1> QED BY <1>5 DEF cov

\* The heart of the refinement, for calls and installations alike: a run that
\* misses nothing changes the fork's ledger exactly as it changes the ledger
\* the fork stands for.
LEMMA RunAgrees ==
    ASSUME IsCoverage(coverage), snapshot \in State, snapshot = Present(coverage),
           NEW contracts, NEW code, NEW mock \in BOOLEAN,
           NEW run, IsOutcome(run), Unknown(run, contracts, code, mock) = {},
           NEW ledger, ledger = LedgerOf(coverage, contracts, code),
           NEW after \in State,
           \A k \in Key : after[k] = IF mock /\ k \in NonceKey /\ snapshot[k] = Absent THEN Absent
                                     ELSE Overlay(snapshot, run.writes)[k],
           NEW seen,
           \A k \in Key : seen[k] = IF mock /\ k \in NonceKey \ DOMAIN coverage THEN Absent
                                    ELSE ledger[k],
           NEW ideal,
           ideal = [k \in Key |->
                      IF k \in DOMAIN run.writes /\ (~mock \/ k \notin NonceKey \/ seen[k] # Absent)
                        THEN run.writes[k] ELSE ledger[k]]
    PROVE  /\ ideal = LedgerOf(UpdateCoverage(after), contracts, code)
           /\ StateDiff(ledger, ideal) = StateDiff(snapshot, after)
  <1> DEFINE goal == LedgerOf(UpdateCoverage(after), contracts, code)
  <1>1. ASSUME NEW k \in Key
        PROVE  /\ snapshot[k] = after[k] => ideal[k] = ledger[k]
               /\ snapshot[k] # after[k] => ideal[k] = after[k] /\ ledger[k] = snapshot[k]
    <2>1. ideal[k] = IF k \in DOMAIN run.writes /\ (~mock \/ k \notin NonceKey \/ seen[k] # Absent)
                       THEN run.writes[k] ELSE ledger[k]
      BY <1>1
    <2>2. after[k] = IF mock /\ k \in NonceKey /\ snapshot[k] = Absent THEN Absent
                     ELSE IF k \in DOMAIN run.writes THEN run.writes[k] ELSE snapshot[k]
      BY <1>1 DEF Overlay
    <2>3. snapshot[k] = IF k \in DOMAIN coverage THEN coverage[k] ELSE Absent
      BY <1>1 DEF Present
    <2>4. ledger[k] = IF k \in DOMAIN coverage THEN coverage[k]
                      ELSE IF IsLocal(k, contracts, code, FALSE) THEN Absent ELSE Network[k]
      BY <1>1 DEF LedgerOf
    <2>5. seen[k] = IF mock /\ k \in NonceKey \ DOMAIN coverage THEN Absent ELSE ledger[k]
      BY <1>1
    <2>6. k \in DOMAIN run.writes =>
            \/ k \in DOMAIN coverage
            \/ IsLocal(k, contracts, code, FALSE)
            \/ mock /\ k \in NonceKey
      BY DEF Unknown, Touched, IsLocal
    <2>7. CASE k \in DOMAIN coverage BY <2>1, <2>2, <2>3, <2>4, <2>5, <2>7
    <2>8. CASE k \notin DOMAIN coverage BY <2>1, <2>2, <2>3, <2>4, <2>5, <2>6, <2>8
    <2> QED BY <2>7, <2>8
  <1>2. ASSUME NEW k \in Key PROVE ideal[k] = goal[k]
    <2>1. goal[k] = IF snapshot[k] # after[k] THEN after[k] ELSE ledger[k]
      BY LedgerFollows
    <2> QED BY <1>1, <2>1
  <1>3. goal = [k \in Key |-> goal[k]] BY DEF LedgerOf
  <1>4. ideal = [k \in Key |-> ideal[k]] OBVIOUS
  <1>5. {k \in Key : ledger[k] # ideal[k]} = {k \in Key : snapshot[k] # after[k]}
    BY <1>1
  <1>6. \A k \in Key : snapshot[k] # after[k] => ideal[k] = after[k]
    BY <1>1
  <1> QED BY <1>2, <1>3, <1>4, <1>5, <1>6 DEF StateDiff

-----------------------------------------------------------------------------
(* The runs of a child *)

\* A child runs on a ledger, so its run is an outcome and its ledger a ledger.
LEMMA ChildTyped ==
    ASSUME TypeOK, NEW call \in Call
    PROVE  View \in State /\ IsOutcome(ChildOf(call)) /\ After(call) \in State
  <1>1. View \in State BY PresentState DEF TypeOK, View
  <1>2. IsOutcome(ChildOf(call)) BY <1>1, RunAssumption DEF ChildOf
  <1>3. Overlay(snapshot, ChildOf(call).writes) \in State
    BY <1>2, OverlayState DEF TypeOK
  <1>4. After(call) \in State
    BY <1>3, KeyAssumption DEF After, State
  <1> QED BY <1>1, <1>2, <1>4

\* The same of an installation.
LEMMA InstallTyped ==
    ASSUME TypeOK, NEW x \in Candidate
    PROVE  View \in State /\ IsOutcome(Installed(x)) /\ AfterInstall(x) \in State
  <1>1. View \in State BY PresentState DEF TypeOK, View
  <1>2. IsOutcome(Installed(x)) BY <1>1, ConstructAssumption DEF Installed
  <1> QED BY <1>1, <1>2, OverlayState DEF TypeOK, AfterInstall

-----------------------------------------------------------------------------
(* Type correctness *)

\* Evidence of a run is well typed.
LEMMA EvidenceTyped ==
    ASSUME TypeOK, NEW kind \in {"Previewed", "Rejected", "Committed", "Registered"},
           NEW call \in Call \cup Candidate, NEW run, IsOutcome(run), NEW after \in State
    PROVE  Evidence(kind, call, run, after) \in EvidenceSet
  BY DEF TypeOK, Evidence, EvidenceSet, IsOutcome

\* The initial state is well typed.
LEMMA InitTyped == Init => TypeOK
  <1> SUFFICES ASSUME Init PROVE TypeOK OBVIOUS
  <1>1. IsCoverage(coverage)
    BY CaptureAssumption DEF Init, Restriction, IsCoverage, State
  <1>2. snapshot \in State BY <1>1, PresentState DEF Init
  <1>3. ASSUME NEW c \in held PROVE IsCheckpoint(c)
    BY <1>1, <1>2 DEF Init, IsCheckpoint
  <1> QED BY <1>1, <1>2, <1>3 DEF Init, TypeOK

\* Every step keeps the types.
LEMMA StepTyped == TypeOK /\ [Next]_vars => TypeOK'
  <1> SUFFICES ASSUME TypeOK, [Next]_vars PROVE TypeOK' OBVIOUS
  <1>1. ASSUME NEW call \in Call, InvokeUnknown(call) \/ InvokeMismatch(call)
        PROVE  TypeOK'
    BY <1>1 DEF TypeOK, IsCoverage, IsCheckpoint, InvokeUnknown, InvokeMismatch, forkState
  <1>2. ASSUME NEW call \in Call, Discard(call) PROVE TypeOK'
    <2>1. /\ Receipt("Previewed", call) \in EvidenceSet
          /\ Receipt("Rejected", call) \in EvidenceSet
      BY ChildTyped, EvidenceTyped DEF Receipt
    <2>2. evidence' \in Seq(EvidenceSet) BY <1>2, <2>1 DEF TypeOK, Discard
    <2> QED BY <1>2, <2>2 DEF TypeOK, IsCoverage, IsCheckpoint, Discard, forkState
  <1>3. ASSUME NEW call \in Call, Commit(call) PROVE TypeOK'
    <2>1. Receipt("Committed", call) \in EvidenceSet
      BY ChildTyped, EvidenceTyped DEF Receipt
    <2>2. evidence' \in Seq(EvidenceSet) BY <1>3, <2>1 DEF TypeOK, Commit
    <2>3. snapshot' \in State BY <1>3, ChildTyped DEF Commit
    <2>4. IsCoverage(coverage') BY <1>3, ChildTyped, UpdateTyped DEF Commit, TypeOK
    <2> QED BY <1>3, <2>2, <2>3, <2>4 DEF TypeOK, IsCheckpoint, IsCoverage, Commit
  <1>4. ASSUME NEW x \in Candidate, RegisterRefused(x) PROVE TypeOK'
    BY <1>4 DEF TypeOK, IsCoverage, IsCheckpoint, RegisterRefused, forkState
  <1>5. ASSUME NEW x \in Candidate, Register(x) PROVE TypeOK'
    <2>1. Evidence("Registered", x, Installed(x), AfterInstall(x)) \in EvidenceSet
      BY InstallTyped, EvidenceTyped
    <2>2. evidence' \in Seq(EvidenceSet) BY <1>5, <2>1 DEF TypeOK, Register
    <2>3. snapshot' \in State BY <1>5, InstallTyped DEF Register
    <2>4. IsCoverage(coverage') BY <1>5, InstallTyped, UpdateTyped DEF Register, TypeOK
    <2>5. localContracts' \subseteq Contract /\ localCode' \subseteq CodeKey
      BY <1>5, CallAssumption DEF Register, TypeOK, ContractsWith, CodeWith
    <2> QED BY <1>5, <2>2, <2>3, <2>4, <2>5 DEF TypeOK, IsCheckpoint, IsCoverage, Register
  <1>6. ASSUME RequestRefused \/ RevertRefused PROVE TypeOK'
    BY <1>6 DEF TypeOK, IsCoverage, IsCheckpoint, RequestRefused, RevertRefused, forkState
  <1>7. ASSUME TakeCheckpoint PROVE TypeOK'
    <2>1. IsCheckpoint(Checkpoint(Id)) BY DEF TypeOK, IsCheckpoint, Checkpoint
    <2> QED BY <1>7, <2>1 DEF TypeOK, IsCheckpoint, IsCoverage, TakeCheckpoint, forkState
  <1>8. ASSUME Revert PROVE TypeOK'
    <2>1. PICK c \in held : /\ c.fork = Id
                            /\ snapshot' = c.snapshot /\ coverage' = c.coverage
                            /\ localContracts' = RevertedContracts(c) /\ localCode' = c.code
      BY <1>8 DEF Revert
    <2>2. IsCheckpoint(c) BY DEF TypeOK
    <2>3. evidence' \in Seq(EvidenceSet) BY <1>8 DEF Revert, ClearedEvidence
    <2> QED BY <1>8, <2>1, <2>2, <2>3 DEF TypeOK, IsCheckpoint, IsCoverage, Revert, RevertedContracts
  <1>9. ASSUME UNCHANGED vars PROVE TypeOK'
    BY <1>9 DEF TypeOK, IsCoverage, IsCheckpoint, vars
  <1> QED
    BY <1>1, <1>2, <1>3, <1>4, <1>5, <1>6, <1>7, <1>8, <1>9
    DEF Next, Invoke, RegisterCandidate

\* Every state of the fork is well typed.
THEOREM TypeCorrect == Spec => []TypeOK
  BY InitTyped, StepTyped, PTL DEF Spec

-----------------------------------------------------------------------------
(* The fork's ledger, its coverage and its allowlists *)

\* Whatever a run that misses nothing changes was known or local before.
LEMMA ChangesKnown ==
    ASSUME IsCoverage(coverage), snapshot = Present(coverage),
           NEW contracts, NEW code, NEW mock \in BOOLEAN,
           NEW run, IsOutcome(run), Unknown(run, contracts, code, mock) = {},
           NEW after \in State,
           \A k \in Key : after[k] = IF mock /\ k \in NonceKey /\ snapshot[k] = Absent THEN Absent
                                     ELSE Overlay(snapshot, run.writes)[k],
           NEW k \in Key, snapshot[k] # after[k]
    PROVE  k \in DOMAIN coverage \/ IsLocal(k, contracts, code, FALSE)
  <1>1. k \in DOMAIN run.writes BY DEF Overlay
  <1>2. snapshot[k] # Absent => k \in DOMAIN coverage BY DEF Present
  <1>3. k \in DOMAIN coverage \/ IsLocal(k, contracts, code, mock)
    BY <1>1 DEF Unknown, Touched
  <1> QED BY <1>2, <1>3 DEF IsLocal

\* Promoting a child that missed nothing keeps the fork sane; the allowlists may
\* grow by what the child brought into the coverage.
LEMMA PromotionSane ==
    ASSUME IsCoverage(coverage), snapshot \in State,
           Sane(snapshot, coverage, localContracts, localCode),
           NEW contracts, NEW code, localContracts \subseteq contracts, localCode \subseteq code,
           NEW mock \in BOOLEAN,
           NEW run, IsOutcome(run), Unknown(run, contracts, code, mock) = {},
           NEW after \in State,
           \A k \in Key : after[k] = IF mock /\ k \in NonceKey /\ snapshot[k] = Absent THEN Absent
                                     ELSE Overlay(snapshot, run.writes)[k],
           \A c \in contracts : c \in localContracts \/ InstanceKey[c] \in DOMAIN UpdateCoverage(after),
           \A h \in code : h \in localCode \/ h \in DOMAIN UpdateCoverage(after)
    PROVE  Sane(after, UpdateCoverage(after), contracts, code)
  <1>1. DOMAIN UpdateCoverage(after) = DOMAIN coverage \cup {k \in Key : snapshot[k] # after[k]}
    BY UpdateTyped
  <1>2. snapshot = Present(coverage) BY DEF Sane
  <1>3. after = Present(UpdateCoverage(after)) BY <1>2, UpdateAgrees
  <1>4. ASSUME NEW k \in DOMAIN UpdateCoverage(after)
        PROVE  k \in Captured \/ IsLocal(k, contracts, code, FALSE)
    <2>1. CASE k \in DOMAIN coverage BY <2>1 DEF Sane, IsLocal
    <2>2. CASE k \in Key /\ snapshot[k] # after[k]
      <3>1. k \in DOMAIN coverage \/ IsLocal(k, contracts, code, FALSE)
        BY <1>2, <2>2, ChangesKnown
      <3> QED BY <2>1, <3>1
    <2> QED BY <1>1, <2>1, <2>2
  <1>5. \A c \in contracts : InstanceKey[c] \in DOMAIN UpdateCoverage(after) BY <1>1 DEF Sane
  <1>6. code \subseteq DOMAIN UpdateCoverage(after) BY <1>1 DEF Sane
  <1> QED BY <1>3, <1>4, <1>5, <1>6 DEF Sane

\* A fork starts sane.
LEMMA InitSane == Init => ForkInv
  <1> SUFFICES ASSUME Init PROVE ForkInv OBVIOUS
  <1>1. Sane(snapshot, coverage, localContracts, localCode)
    BY DEF Init, Sane, Restriction
  <1>2. \A c \in held : c.fork # Id BY CaptureAssumption DEF Init
  <1> QED BY <1>1, <1>2 DEF ForkInv

\* What the ledger of an invocation's child holds.
LEMMA AfterPoint ==
    ASSUME NEW call, NEW k \in Key
    PROVE  After(call)[k] = IF Mocked(call) /\ k \in NonceKey /\ snapshot[k] = Absent THEN Absent
                            ELSE Overlay(snapshot, ChildOf(call).writes)[k]
  BY DEF After

\* An installation brings its instance and its code into the coverage.
LEMMA InstallKnown ==
    ASSUME TypeOK, ForkInv, NEW x \in Candidate, Installed(x).ok
    PROVE  /\ InstanceKey[Address[x]] \in DOMAIN UpdateCoverage(AfterInstall(x))
           /\ Code[x] \in DOMAIN UpdateCoverage(AfterInstall(x))
  <1> DEFINE run == Installed(x)
  <1>1. /\ {InstanceKey[Address[x]], Code[x]} \subseteq DOMAIN run.writes
        /\ run.writes[InstanceKey[Address[x]]] # Absent
        /\ run.writes[Code[x]] # Absent
    BY ConstructAssumption, InstallTyped DEF Installed
  <1>2. InstanceKey[Address[x]] \in Key /\ Code[x] \in Key
    BY KeyAssumption, CallAssumption
  <1>3. DOMAIN UpdateCoverage(AfterInstall(x))
          = DOMAIN coverage \cup {k \in Key : snapshot[k] # AfterInstall(x)[k]}
    BY InstallTyped, UpdateTyped DEF TypeOK
  <1>4. ASSUME NEW k \in Key, k \in DOMAIN run.writes, run.writes[k] # Absent
        PROVE  k \in DOMAIN UpdateCoverage(AfterInstall(x))
    <2>1. AfterInstall(x)[k] # Absent BY <1>4 DEF AfterInstall, Overlay
    <2>2. snapshot[k] # Absent => k \in DOMAIN coverage BY DEF ForkInv, Sane, Present
    <2> QED BY <1>3, <2>1, <2>2
  <1> QED BY <1>1, <1>2, <1>4

\* Every step keeps the fork, and every checkpoint it can go back to, sane.
LEMMA StepSane == TypeOK /\ ForkInv /\ [Next]_vars => ForkInv'
  <1> SUFFICES ASSUME TypeOK, ForkInv, [Next]_vars PROVE ForkInv' OBVIOUS
  <1>1. ASSUME NEW call \in Call, Commit(call) PROVE ForkInv'
    <2>1. Sane(After(call), UpdateCoverage(After(call)), localContracts, localCode)
      <3>1. Mocked(call) \in BOOLEAN BY DEF Mocked
      <3>2. Unknown(ChildOf(call), localContracts, localCode, Mocked(call)) = {}
        BY <1>1 DEF Commit, Validated, Misses
      <3> QED BY <3>1, <3>2, ChildTyped, AfterPoint, PromotionSane DEF ForkInv, TypeOK
    <2>2. /\ snapshot' = After(call) /\ coverage' = UpdateCoverage(After(call))
          /\ UNCHANGED <<localContracts, localCode, held>>
      BY <1>1 DEF Commit
    <2> QED BY <2>1, <2>2 DEF ForkInv, Sane, Present, IsLocal
  <1>2. ASSUME NEW x \in Candidate, Register(x) PROVE ForkInv'
    <2>1. Sane(AfterInstall(x), UpdateCoverage(AfterInstall(x)), ContractsWith(x), CodeWith(x))
      <3>1. Unknown(Installed(x), ContractsWith(x), CodeWith(x), FALSE) = {}
        BY <1>2 DEF Register, InstallMisses
      <3>2. /\ \A c \in ContractsWith(x) :
                  c \in localContracts \/ InstanceKey[c] \in DOMAIN UpdateCoverage(AfterInstall(x))
            /\ \A h \in CodeWith(x) :
                  h \in localCode \/ h \in DOMAIN UpdateCoverage(AfterInstall(x))
        BY <1>2, InstallKnown DEF Register, ContractsWith, CodeWith
      <3>3. localContracts \subseteq ContractsWith(x) /\ localCode \subseteq CodeWith(x)
        BY DEF ContractsWith, CodeWith
      <3>4. \A k \in Key : AfterInstall(x)[k] =
                IF FALSE /\ k \in NonceKey /\ snapshot[k] = Absent THEN Absent
                ELSE Overlay(snapshot, Installed(x).writes)[k]
        BY DEF AfterInstall
      <3> QED BY <3>1, <3>2, <3>3, <3>4, InstallTyped, PromotionSane DEF ForkInv, TypeOK
    <2>2. /\ snapshot' = AfterInstall(x) /\ coverage' = UpdateCoverage(AfterInstall(x))
          /\ localContracts' = ContractsWith(x) /\ localCode' = CodeWith(x) /\ held' = held
      BY <1>2 DEF Register
    <2> QED BY <2>1, <2>2 DEF ForkInv, Sane, Present, IsLocal
  <1>3. ASSUME TakeCheckpoint PROVE ForkInv'
    BY <1>3 DEF TakeCheckpoint, ForkInv, Sane, Present, IsLocal, Checkpoint, forkState
  <1>4. ASSUME Revert PROVE ForkInv'
    BY <1>4 DEF Revert, RevertedContracts, ForkInv, Sane, Present, IsLocal
  <1>5. ASSUME UNCHANGED <<forkState, held>> PROVE ForkInv'
    BY <1>5 DEF ForkInv, Sane, Present, IsLocal, forkState
  <1> QED
    BY <1>1, <1>2, <1>3, <1>4, <1>5
    DEF Next, Invoke, InvokeUnknown, InvokeMismatch, Discard, RegisterCandidate,
        RegisterRefused, RequestRefused, RevertRefused, vars, forkState

\* The invariant all the results about states rest on.
LEMMA Invariance == Spec => [](TypeOK /\ ForkInv)
  BY InitTyped, InitSane, StepTyped, StepSane, PTL DEF Spec

\* The environment and the coverage of the fork never disagree.
THEOREM EnvAgreesWithCoverage == Spec => []Agreement
  <1>1. ForkInv => Agreement BY DEF ForkInv, Sane, Agreement
  <1> QED BY <1>1, Invariance, PTL

\* The fork knows only what was captured or installed locally.
THEOREM KnowsOnlyWhatItWasTold == Spec => []CoverageJustified
  <1>1. ForkInv => CoverageJustified BY DEF ForkInv, Sane, CoverageJustified
  <1> QED BY <1>1, Invariance, PTL

\* The allowlists name only what the fork's coverage holds.
THEOREM AllowlistsAreInstalled == Spec => []LocalsInstalled
  <1>1. ForkInv => LocalsInstalled BY DEF ForkInv, Sane, LocalsInstalled
  <1> QED BY <1>1, Invariance, PTL

-----------------------------------------------------------------------------
(* Receipts *)

Left(e) == IF e.kind \in {"Committed", "Registered"} THEN e.after ELSE e.before

\* The chain grows by evidence that starts where the fork is.
LEMMA ChainGrows ==
    ASSUME evidence \in Seq(EvidenceSet), EvidenceChains, NEW e \in EvidenceSet,
           evidence' = Append(evidence, e), e.before = snapshot, snapshot' = Left(e)
    PROVE  EvidenceChains'
  <1> DEFINE n == Len(evidence)
  <1>1. n \in Nat /\ Len(evidence') = n + 1 /\ evidence'[n + 1] = e
        /\ \A i \in 1..n : evidence'[i] = evidence[i]
    OBVIOUS
  <1>2. \A i \in 1..n : Left(evidence[i]) = IF i < n THEN evidence[i + 1].before ELSE snapshot
    BY DEF EvidenceChains, Left
  <1> SUFFICES ASSUME NEW i \in 1..(n + 1)
               PROVE  Left(evidence'[i]) = IF i < n + 1 THEN evidence'[i + 1].before ELSE snapshot'
    BY <1>1 DEF EvidenceChains, Left
  <1>3. CASE i = n + 1 BY <1>1, <1>3
  <1>4. CASE i = n BY <1>1, <1>2, <1>4
  <1>5. CASE i < n
    <2>1. i \in 1..n /\ i + 1 \in 1..n BY <1>1, <1>5
    <2> QED BY <1>1, <1>2, <1>5, <2>1
  <1> QED BY <1>1, <1>3, <1>4, <1>5

\* Every step keeps the chain.
LEMMA ChainStep == TypeOK /\ EvidenceChains /\ [Next]_vars => EvidenceChains'
  <1> SUFFICES ASSUME TypeOK, EvidenceChains, [Next]_vars PROVE EvidenceChains' OBVIOUS
  <1>1. ASSUME NEW call \in Call, Discard(call) PROVE EvidenceChains'
    <2>1. PICK kind \in {"Previewed", "Rejected"} : evidence' = Append(evidence, Receipt(kind, call))
      BY <1>1 DEF Discard
    <2>2. Receipt(kind, call) \in EvidenceSet BY ChildTyped, EvidenceTyped DEF Receipt
    <2>3. Receipt(kind, call).before = snapshot /\ Left(Receipt(kind, call)) = snapshot
      BY DEF Receipt, Evidence, Left
    <2> QED BY <1>1, <2>1, <2>2, <2>3, ChainGrows DEF Discard, forkState, TypeOK
  <1>2. ASSUME NEW call \in Call, Commit(call) PROVE EvidenceChains'
    <2>1. Receipt("Committed", call) \in EvidenceSet BY ChildTyped, EvidenceTyped DEF Receipt
    <2>2. /\ Receipt("Committed", call).before = snapshot
          /\ Left(Receipt("Committed", call)) = After(call)
      BY DEF Receipt, Evidence, Left
    <2> QED BY <1>2, <2>1, <2>2, ChainGrows DEF Commit, TypeOK
  <1>3. ASSUME NEW x \in Candidate, Register(x) PROVE EvidenceChains'
    <2> DEFINE e == Evidence("Registered", x, Installed(x), AfterInstall(x))
    <2>1. e \in EvidenceSet BY InstallTyped, EvidenceTyped
    <2>2. e.before = snapshot /\ Left(e) = AfterInstall(x) BY DEF Evidence, Left
    <2> QED BY <1>3, <2>1, <2>2, ChainGrows DEF Register, TypeOK
  <1>4. ASSUME Revert PROVE EvidenceChains'
    BY <1>4 DEF Revert, ClearedEvidence, EvidenceChains
  <1>5. ASSUME UNCHANGED <<snapshot, evidence>> PROVE EvidenceChains'
    BY <1>5 DEF EvidenceChains
  <1> QED
    BY <1>1, <1>2, <1>3, <1>4, <1>5
    DEF Next, Invoke, InvokeUnknown, InvokeMismatch, RegisterCandidate, TakeCheckpoint,
        RegisterRefused, RequestRefused, RevertRefused, vars, forkState

\* The receipts and registrations the caller holds form one chain of ledgers.
THEOREM ReceiptsChain == Spec => []EvidenceChains
  <1>1. Init => EvidenceChains BY DEF Init, EvidenceChains
  <1> QED BY <1>1, ChainStep, InitTyped, StepTyped, PTL DEF Spec

\* Mocked authorization leaves no nonce behind.
THEOREM MockedNoncesVanish == Spec => NoncesAreSigned
  <1> DEFINE last == evidence'[Len(evidence')]
             Signed == \A k \in NonceKey :
                          snapshot[k] = Absent /\ snapshot'[k] # Absent /\ evidence' # <<>>
                            => last.kind = "Registered" \/ Mode[last.call] = "Enforce"
  <1>1. TypeOK /\ [Next]_vars => Signed
    <2> SUFFICES ASSUME TypeOK, [Next]_vars PROVE Signed OBVIOUS
    <2>1. ASSUME NEW call \in Call, Commit(call) PROVE Signed
      <3>1. last = Receipt("Committed", call)
        BY <2>1 DEF Commit, TypeOK
      <3>2. last.call = call BY <3>1 DEF Receipt, Evidence
      <3>3. \A k \in NonceKey : snapshot[k] = Absent /\ Mocked(call) => snapshot'[k] = Absent
        BY <2>1, AfterPoint, KeyAssumption DEF Commit
      <3> QED BY <3>2, <3>3 DEF Mocked
    <2>2. ASSUME NEW x \in Candidate, Register(x) PROVE Signed
      <3>1. last = Evidence("Registered", x, Installed(x), AfterInstall(x))
        BY <2>2 DEF Register, TypeOK
      <3> QED BY <3>1 DEF Evidence
    <2>3. ASSUME Revert PROVE Signed BY <2>3 DEF Revert, ClearedEvidence
    <2>4. ASSUME UNCHANGED snapshot PROVE Signed BY <2>4
    <2> QED
      BY <2>1, <2>2, <2>3, <2>4
      DEF Next, Invoke, InvokeUnknown, InvokeMismatch, Discard, RegisterCandidate,
          RegisterRefused, RequestRefused, TakeCheckpoint, RevertRefused, vars, forkState
  <1>2. TypeOK /\ [Next]_vars => [Signed]_vars BY <1>1
  <1> QED BY <1>2, InitTyped, StepTyped, PTL DEF Spec, NoncesAreSigned

-----------------------------------------------------------------------------
(* The fork implements a fork of the complete ledger *)

Ledger == LedgerOf(coverage, localContracts, localCode)
Receipts == [i \in 1..Len(evidence) |-> Told(evidence[i])]
Saved == {LedgerOf(c.coverage, c.contracts, c.code) : c \in {c \in held : c.fork = Id}}

\* The ledger a fork stands for is a ledger.
LEMMA LedgerState ==
    ASSUME NEW cov, IsCoverage(cov), NEW contracts, NEW code
    PROVE  LedgerOf(cov, contracts, code) \in State
  <1> DEFINE L == LedgerOf(cov, contracts, code)
  <1>1. ASSUME NEW k \in Key PROVE L[k] \in Shape[k] \cup {Absent} /\ L[k] \in Entry
    BY KeyAssumption, CaptureAssumption DEF LedgerOf, IsCoverage, State
  <1>2. L = [k \in Key |-> L[k]] BY DEF LedgerOf
  <1> QED BY <1>1, <1>2 DEF State

\* What is told of new evidence is appended to what was told.
LEMMA ReceiptsGrow ==
    ASSUME evidence \in Seq(EvidenceSet), NEW e \in EvidenceSet, evidence' = Append(evidence, e)
    PROVE  Receipts' = Append(Receipts, Told(e))
  <1> DEFINE n == Len(evidence)
  <1>1. n \in Nat /\ Len(evidence') = n + 1 /\ evidence'[n + 1] = e
        /\ \A i \in 1..n : evidence'[i] = evidence[i]
    OBVIOUS
  <1>2. Receipts' = [i \in 1..(n + 1) |-> Told(evidence'[i])] BY <1>1 DEF Receipts
  <1>3. Receipts = [i \in 1..n |-> Told(evidence[i])] BY DEF Receipts
  <1> DEFINE S == {Told(evidence[i]) : i \in 1..n} \cup {Told(e)}
             longer == Append(Receipts, Told(e))
  <1>4. Receipts \in Seq(S) /\ Len(Receipts) = n BY <1>1, <1>3
  <1>5. /\ longer \in Seq(S) /\ Len(longer) = n + 1
        /\ longer[n + 1] = Told(e) /\ \A i \in 1..n : longer[i] = Receipts[i]
    <2> HIDE DEF S
    <2>1. Told(e) \in S BY DEF S
    <2> QED BY <1>1, <1>4, <2>1, AppendProperties
  <1>6. longer = [i \in 1..(n + 1) |-> longer[i]]
    <2> HIDE DEF S, longer
    <2> QED BY <1>5
  <1>7. ASSUME NEW i \in 1..(n + 1)
        PROVE  Told(evidence'[i]) = longer[i]
    <2> HIDE DEF longer
    <2>1. CASE i = n + 1 BY <2>1, <1>1, <1>5
    <2>2. CASE i # n + 1
      <3>1. i \in 1..n BY <2>2, <1>1
      <3> QED BY <3>1, <1>1, <1>3, <1>5
    <2> QED BY <2>1, <2>2
  <1> HIDE DEF longer
  <1>8. Receipts' = longer BY <1>2, <1>6, <1>7
  <1> QED BY <1>8 DEF longer

\* The run of an invocation that misses nothing is a run on the complete ledger,
\* with the nonces hidden that the coverage does not hold.
LEMMA InvokeAgrees ==
    ASSUME TypeOK, ForkInv, NEW call \in Call, Misses(call) = {}
    PROVE  LET hidden == NonceKey \ DOMAIN coverage IN
           /\ Run(call, Ideal!Seen(call, hidden)) = ChildOf(call)
           /\ Ideal!After(call, hidden)
                 = LedgerOf(UpdateCoverage(After(call)), localContracts, localCode)
           /\ StateDiff(Ledger, Ideal!After(call, hidden)) = StateDiff(snapshot, After(call))
  <1> DEFINE hidden == NonceKey \ DOMAIN coverage
             run == ChildOf(call)
             seen == Ideal!Seen(call, hidden)
             view == [k \in Key |-> IF Mocked(call) /\ k \in NonceKey \ DOMAIN coverage THEN Absent
                                   ELSE LedgerOf(coverage, localContracts, localCode)[k]]
  <1>1. IsOutcome(run) /\ View \in State /\ After(call) \in State BY ChildTyped
  <1>2. Mocked(call) \in BOOLEAN BY DEF Mocked
  <1>3. Unknown(run, localContracts, localCode, Mocked(call)) = {} BY DEF Misses
  <1>4. IsCoverage(coverage) /\ snapshot \in State /\ snapshot = Present(coverage)
    BY DEF TypeOK, ForkInv, Sane
  <1>5. Ledger = [k \in Key |-> Ledger[k]] /\ Ledger \in State
    BY <1>4, LedgerState DEF Ledger, LedgerOf
  <1>6. seen = view
    BY <1>5 DEF Ideal!Seen, Ideal!Without, Mocked, Ledger
  <1>7. SameOn(View, seen, run.reads)
    <2>1. SameOn(View, view, run.reads)
      <3> HIDE DEF run
      <3> QED BY <1>1, <1>2, <1>3, <1>4, ViewAgrees
    <2> QED BY <1>6, <2>1
  <1>8. seen \in State BY <1>5, <1>6, KeyAssumption DEF State, Ledger
  <1>9. Run(call, seen) = run
    BY <1>1, <1>7, <1>8, RunAssumption DEF ChildOf
  <1>10. Ideal!After(call, hidden) =
           [k \in Key |->
              IF k \in DOMAIN run.writes /\ (~Mocked(call) \/ k \notin NonceKey \/ seen[k] # Absent)
                THEN run.writes[k] ELSE Ledger[k]]
    BY <1>9 DEF Ideal!After, Mocked, Ledger
  <1>11. \A k \in Key : seen[k] = IF Mocked(call) /\ k \in NonceKey \ DOMAIN coverage THEN Absent
                                  ELSE Ledger[k]
    BY <1>6 DEF Ledger
  <1>12. \A k \in Key : After(call)[k] =
            IF Mocked(call) /\ k \in NonceKey /\ snapshot[k] = Absent THEN Absent
            ELSE Overlay(snapshot, run.writes)[k]
    BY AfterPoint
  <1>13. /\ Ideal!After(call, hidden)
               = LedgerOf(UpdateCoverage(After(call)), localContracts, localCode)
         /\ StateDiff(Ledger, Ideal!After(call, hidden)) = StateDiff(snapshot, After(call))
    <2> HIDE DEF hidden, run, seen
    <2> QED BY <1>1, <1>2, <1>3, <1>4, <1>10, <1>11, <1>12, RunAgrees DEF Ledger
  <1> QED BY <1>9, <1>13

\* The run of an installation that misses nothing is a run on the complete
\* ledger without the entries the installation hides.
LEMMA InstallAgrees ==
    ASSUME TypeOK, ForkInv, NEW x \in Candidate, InstallMisses(x) = {}
    PROVE  LET forgotten == ({k \in Key : Owner[k] = Address[x]} \cup {Code[x]}) \ DOMAIN coverage
               cleared == Ideal!Without(forgotten)
               ideal == Ideal!Overlay(cleared, Installed(x).writes)
           IN  /\ Construct(x, cleared) = Installed(x)
               /\ ideal = LedgerOf(UpdateCoverage(AfterInstall(x)), ContractsWith(x), CodeWith(x))
               /\ StateDiff(cleared, ideal) = StateDiff(snapshot, AfterInstall(x))
  <1> DEFINE forgotten == ({k \in Key : Owner[k] = Address[x]} \cup {Code[x]}) \ DOMAIN coverage
             cleared == Ideal!Without(forgotten)
             run == Installed(x)
             ideal == Ideal!Overlay(cleared, run.writes)
             ledger == LedgerOf(coverage, ContractsWith(x), CodeWith(x))
  <1>1. IsOutcome(run) /\ View \in State /\ AfterInstall(x) \in State BY InstallTyped
  <1>2. Unknown(run, ContractsWith(x), CodeWith(x), FALSE) = {} BY DEF InstallMisses
  <1>3. IsCoverage(coverage) /\ snapshot \in State /\ snapshot = Present(coverage)
    BY DEF TypeOK, ForkInv, Sane
  <1>4. cleared = ledger
    <2>1. ASSUME NEW k \in Key PROVE cleared[k] = ledger[k]
      <3>1. ledger[k] = IF k \in DOMAIN coverage THEN coverage[k]
                        ELSE IF IsLocal(k, ContractsWith(x), CodeWith(x), FALSE) THEN Absent
                        ELSE Network[k]
        BY DEF LedgerOf
      <3>2. cleared[k] = IF k \in forgotten THEN Absent
                         ELSE IF k \in DOMAIN coverage THEN coverage[k]
                         ELSE IF IsLocal(k, localContracts, localCode, FALSE) THEN Absent
                         ELSE Network[k]
        BY DEF Ideal!Without, LedgerOf
      <3>3. IsLocal(k, ContractsWith(x), CodeWith(x), FALSE)
              <=> \/ IsLocal(k, localContracts, localCode, FALSE)
                  \/ Owner[k] = Address[x] \/ k = Code[x]
        BY DEF IsLocal, ContractsWith, CodeWith
      <3>4. k \in forgotten <=> (Owner[k] = Address[x] \/ k = Code[x]) /\ k \notin DOMAIN coverage
        OBVIOUS
      <3>5. CASE k \in DOMAIN coverage BY <3>1, <3>2, <3>4, <3>5
      <3>6. CASE k \notin DOMAIN coverage /\ IsLocal(k, ContractsWith(x), CodeWith(x), FALSE)
        <4>1. ledger[k] = Absent BY <3>1, <3>6
        <4>2. cleared[k] = Absent BY <3>2, <3>3, <3>4, <3>6
        <4> QED BY <4>1, <4>2
      <3>7. CASE k \notin DOMAIN coverage /\ ~IsLocal(k, ContractsWith(x), CodeWith(x), FALSE)
        <4>1. ledger[k] = Network[k] BY <3>1, <3>7
        <4>2. cleared[k] = Network[k] BY <3>2, <3>3, <3>4, <3>7
        <4> QED BY <4>1, <4>2
      <3> QED BY <3>5, <3>6, <3>7
    <2> QED BY <2>1 DEF Ideal!Without, LedgerOf
  <1>5. ledger = [k \in Key |-> ledger[k]] /\ ledger \in State
    BY <1>3, LedgerState DEF LedgerOf
  <1>6. SameOn(View, ledger, run.reads)
    <2> DEFINE view == [k \in Key |-> IF FALSE /\ k \in NonceKey \ DOMAIN coverage THEN Absent
                                     ELSE LedgerOf(coverage, ContractsWith(x), CodeWith(x))[k]]
    <2>1. SameOn(View, view, run.reads)
      <3> HIDE DEF run
      <3> QED BY <1>1, <1>2, <1>3, ViewAgrees
    <2>2. view = ledger BY <1>5
    <2> QED BY <2>1, <2>2
  <1>7. Construct(x, ledger) = run
    <2> HIDE DEF ledger
    <2> QED BY <1>1, <1>5, <1>6, ConstructAssumption DEF Installed
  <1> DEFINE mock == FALSE
  <1>8. ideal = [k \in Key |->
                   IF k \in DOMAIN run.writes /\ (~mock \/ k \notin NonceKey \/ ledger[k] # Absent)
                     THEN run.writes[k] ELSE ledger[k]]
    BY <1>4 DEF Ideal!Overlay
  <1>9. \A k \in Key : AfterInstall(x)[k] =
            IF mock /\ k \in NonceKey /\ snapshot[k] = Absent THEN Absent
            ELSE Overlay(snapshot, run.writes)[k]
    BY DEF AfterInstall
  <1>10. \A k \in Key : ledger[k] = IF mock /\ k \in NonceKey \ DOMAIN coverage THEN Absent
                                   ELSE ledger[k]
    OBVIOUS
  <1>11. /\ ideal = LedgerOf(UpdateCoverage(AfterInstall(x)), ContractsWith(x), CodeWith(x))
         /\ StateDiff(ledger, ideal) = StateDiff(snapshot, AfterInstall(x))
    <2> DEFINE L == ledger
    <2>1. L = LedgerOf(coverage, ContractsWith(x), CodeWith(x)) OBVIOUS
    <2>2. mock \in BOOLEAN OBVIOUS
    <2>3. Unknown(run, ContractsWith(x), CodeWith(x), mock) = {} BY <1>2
    <2> HIDE DEF L, run, ideal, mock
    <2> QED BY <1>1, <1>3, <1>8, <1>9, <1>10, <2>1, <2>2, <2>3, RunAgrees
  <1> QED BY <1>4, <1>7, <1>11

\* The fork starts as a copy of the complete ledger.
LEMMA InitRefines == Init => Ideal!Init
  <1> SUFFICES ASSUME Init PROVE Ideal!Init OBVIOUS
  <1>1. Ledger = Network
    <2>1. ASSUME NEW k \in Key PROVE Ledger[k] = Network[k]
      BY KeyAssumption DEF Init, Ledger, LedgerOf, Restriction, IsLocal
    <2>2. Network = [k \in Key |-> Network[k]] BY CaptureAssumption DEF State
    <2>3. Ledger = [k \in Key |-> Ledger[k]] BY DEF Ledger, LedgerOf
    <2> QED BY <2>1, <2>2, <2>3
  <1>2. Receipts = <<>> BY DEF Init, Receipts
  <1>3. Saved = {} BY CaptureAssumption DEF Init, Saved
  <1> QED BY <1>1, <1>2, <1>3 DEF Ideal!Init, Ledger, Receipts, Saved

\* Every step of the fork is a step on the complete ledger, or none.
LEMMA StepRefines == TypeOK /\ ForkInv /\ [Next]_vars => [Ideal!Next]_(Ideal!vars)
  <1> SUFFICES ASSUME TypeOK, ForkInv, [Next]_vars PROVE [Ideal!Next]_(Ideal!vars) OBVIOUS
  <1>1. ASSUME NEW call \in Call, Discard(call) PROVE Ideal!Next
    <2> DEFINE hidden == NonceKey \ DOMAIN coverage
    <2>1. PICK kind \in {"Previewed", "Rejected"} :
            /\ evidence' = Append(evidence, Receipt(kind, call))
            /\ kind = "Rejected" => ~ChildOf(call).ok
      BY <1>1 DEF Discard
    <2>2. Receipt(kind, call) \in EvidenceSet BY ChildTyped, EvidenceTyped DEF Receipt
    <2>3. Misses(call) = {} /\ TreeMatches(call) BY <1>1 DEF Discard, Validated
    <2>4. Receipts' = Append(Receipts, Told(Receipt(kind, call)))
      BY <2>1, <2>2, ReceiptsGrow DEF TypeOK
    <2>5. Ledger' = Ledger /\ Saved' = Saved
      BY <1>1 DEF Discard, forkState, Ledger, LedgerOf, IsLocal, Saved
    <2>6. Told(Receipt(kind, call))
            = Ideal!Told(kind, call, ChildOf(call), Ledger, Ideal!After(call, hidden))
      BY <2>3, InvokeAgrees DEF Told, Receipt, Evidence, Ideal!Told, Ideal!StateDiff, StateDiff
    <2>7. Run(call, Ideal!Seen(call, hidden)) = ChildOf(call) BY <2>3, InvokeAgrees
    <2>8. Mode[call] = "MockExact" => ChildOf(call).tree = Expected[call]
      BY <2>3 DEF TreeMatches
    <2>9. Ideal!Invoke
      BY <2>1, <2>4, <2>5, <2>6, <2>7, <2>8 DEF Ideal!Invoke, Ledger, Receipts, Saved
    <2> QED BY <2>9 DEF Ideal!Next
  <1>2. ASSUME NEW call \in Call, Commit(call) PROVE Ideal!Next
    <2> DEFINE hidden == NonceKey \ DOMAIN coverage
    <2>1. /\ evidence' = Append(evidence, Receipt("Committed", call))
          /\ coverage' = UpdateCoverage(After(call)) /\ ChildOf(call).ok
          /\ UNCHANGED <<localContracts, localCode, held>>
      BY <1>2 DEF Commit
    <2>2. Receipt("Committed", call) \in EvidenceSet
      BY ChildTyped, EvidenceTyped DEF Receipt
    <2>3. Misses(call) = {} /\ TreeMatches(call) BY <1>2 DEF Commit, Validated
    <2>4. Receipts' = Append(Receipts, Told(Receipt("Committed", call)))
      BY <2>1, <2>2, ReceiptsGrow DEF TypeOK
    <2>5. Ledger' = Ideal!After(call, hidden) /\ Saved' = Saved
      <3>1. Ledger' = LedgerOf(UpdateCoverage(After(call)), localContracts, localCode)
        BY <2>1 DEF Ledger, LedgerOf, IsLocal
      <3>2. Ideal!After(call, hidden)
              = LedgerOf(UpdateCoverage(After(call)), localContracts, localCode)
        BY <2>3, InvokeAgrees
      <3>3. Saved' = Saved BY <2>1 DEF Saved, LedgerOf, IsLocal
      <3> QED BY <3>1, <3>2, <3>3
    <2>6. Told(Receipt("Committed", call))
            = Ideal!Told("Committed", call, ChildOf(call), Ledger, Ideal!After(call, hidden))
      BY <2>3, InvokeAgrees DEF Told, Receipt, Evidence, Ideal!Told, Ideal!StateDiff, StateDiff
    <2>7. Run(call, Ideal!Seen(call, hidden)) = ChildOf(call) BY <2>3, InvokeAgrees
    <2>8. Mode[call] = "MockExact" => ChildOf(call).tree = Expected[call]
      BY <2>3 DEF TreeMatches
    <2>9. Ideal!Invoke
      BY <2>1, <2>4, <2>5, <2>6, <2>7, <2>8 DEF Ideal!Invoke, Ledger, Receipts, Saved
    <2> QED BY <2>9 DEF Ideal!Next
  <1>3. ASSUME NEW x \in Candidate, Register(x) PROVE Ideal!Next
    <2> DEFINE forgotten == ({k \in Key : Owner[k] = Address[x]} \cup {Code[x]}) \ DOMAIN coverage
               cleared == Ideal!Without(forgotten)
               e == Evidence("Registered", x, Installed(x), AfterInstall(x))
    <2>1. /\ evidence' = Append(evidence, e)
          /\ coverage' = UpdateCoverage(AfterInstall(x)) /\ Installed(x).ok
          /\ localContracts' = ContractsWith(x) /\ localCode' = CodeWith(x) /\ held' = held
          /\ InstallMisses(x) = {}
      BY <1>3 DEF Register
    <2>2. e \in EvidenceSet BY InstallTyped, EvidenceTyped
    <2>3. Receipts' = Append(Receipts, Told(e))
      BY <2>1, <2>2, ReceiptsGrow DEF TypeOK
    <2>4. /\ Construct(x, cleared) = Installed(x)
          /\ Ideal!Overlay(cleared, Installed(x).writes)
               = LedgerOf(UpdateCoverage(AfterInstall(x)), ContractsWith(x), CodeWith(x))
          /\ StateDiff(cleared, Ideal!Overlay(cleared, Installed(x).writes))
               = StateDiff(snapshot, AfterInstall(x))
      BY <2>1, InstallAgrees
    <2>5. Ledger' = Ideal!Overlay(cleared, Installed(x).writes)
      <3>1. Ledger' = LedgerOf(UpdateCoverage(AfterInstall(x)), ContractsWith(x), CodeWith(x))
        BY <2>1 DEF Ledger, LedgerOf, IsLocal
      <3> QED BY <3>1, <2>4
    <2>6. Saved' = Saved BY <2>1 DEF Saved, LedgerOf, IsLocal
    <2>7. Told(e) = Ideal!Told("Registered", x, Installed(x), cleared, Ledger')
      BY <2>4, <2>5 DEF Told, Evidence, Ideal!Told, Ideal!StateDiff, StateDiff
    <2>8. forgotten \in SUBSET ({k \in Key : Owner[k] = Address[x]} \cup {Code[x]}) OBVIOUS
    <2>9. Ideal!Install
      <3> HIDE DEF forgotten, e
      <3> QED BY <2>1, <2>3, <2>4, <2>5, <2>6, <2>7, <2>8
              DEF Ideal!Install, Ledger, Receipts, Saved
    <2> QED BY <2>9 DEF Ideal!Next
  <1>4. ASSUME TakeCheckpoint PROVE Ideal!Next
    <2>1. Ledger' = Ledger /\ Receipts' = Receipts
      BY <1>4 DEF TakeCheckpoint, forkState, Ledger, LedgerOf, IsLocal, Receipts
    <2>2. Saved' = Saved \cup {Ledger}
      <3> DEFINE new == Checkpoint(Id)
      <3>1. held' = held \cup {new} BY <1>4 DEF TakeCheckpoint
      <3>2. new.fork = Id /\ LedgerOf(new.coverage, new.contracts, new.code) = Ledger
        BY DEF Checkpoint, Ledger
      <3>3. Saved' = {LedgerOf(c.coverage, c.contracts, c.code) : c \in {c \in held' : c.fork = Id}}
        BY DEF Saved, LedgerOf, IsLocal
      <3>4. {c \in held' : c.fork = Id} = {c \in held : c.fork = Id} \cup {new}
        BY <3>1, <3>2
      <3> HIDE DEF new
      <3> QED BY <3>2, <3>3, <3>4 DEF Saved
    <2>3. Ideal!Save BY <2>1, <2>2 DEF Ideal!Save, Ledger, Receipts, Saved
    <2> QED BY <2>3 DEF Ideal!Next
  <1>5. ASSUME Revert PROVE Ideal!Next
    <2>1. PICK c \in held : /\ c.fork = Id /\ coverage' = c.coverage
                            /\ localContracts' = c.contracts /\ localCode' = c.code
      BY <1>5 DEF Revert, RevertedContracts
    <2>2. Ledger' = LedgerOf(c.coverage, c.contracts, c.code)
      BY <2>1 DEF Ledger, LedgerOf, IsLocal
    <2>3. Ledger' \in Saved BY <2>1, <2>2 DEF Saved
    <2>4. Saved' = Saved BY <1>5 DEF Revert, Saved, LedgerOf, IsLocal
    <2>5. Receipts' = <<>> BY <1>5 DEF Revert, ClearedEvidence, Receipts
    <2>6. Ideal!Restore BY <2>3, <2>4, <2>5 DEF Ideal!Restore, Ledger, Receipts, Saved
    <2> QED BY <2>6 DEF Ideal!Next
  <1>6. ASSUME UNCHANGED <<forkState, evidence, held>> PROVE UNCHANGED Ideal!vars
    <2>1. Ledger' = Ledger /\ Receipts' = Receipts /\ Saved' = Saved
      BY <1>6 DEF forkState, Ledger, Receipts, Saved, LedgerOf, IsLocal
    <2> QED BY <2>1 DEF Ideal!vars, Ledger, Receipts, Saved
  <1>7. ASSUME NEW call \in Call, InvokeUnknown(call) \/ InvokeMismatch(call)
        PROVE  UNCHANGED <<forkState, evidence, held>>
    BY <1>7 DEF InvokeUnknown, InvokeMismatch
  <1>8. ASSUME NEW x \in Candidate, RegisterRefused(x)
        PROVE  UNCHANGED <<forkState, evidence, held>>
    BY <1>8 DEF RegisterRefused
  <1>9. ASSUME RequestRefused \/ RevertRefused \/ UNCHANGED vars
        PROVE  UNCHANGED <<forkState, evidence, held>>
    BY <1>9 DEF RequestRefused, RevertRefused, vars, forkState
  <1>10. Ideal!Next \/ UNCHANGED Ideal!vars
    BY <1>1, <1>2, <1>3, <1>4, <1>5, <1>6, <1>7, <1>8, <1>9
    DEF Next, Invoke, RegisterCandidate
  <1> QED BY <1>10

\* A strict fork implements a fork of the complete ledger: whatever it answers
\* with a receipt, it would have answered had every key been captured.
THEOREM ForkImplementsIdeal == Spec => ImplementsIdeal
  <1>1. Ideal!Init /\ [][Ideal!Next]_(Ideal!vars) => ImplementsIdeal
    BY DEF ImplementsIdeal, Ideal!Spec
  <1> QED BY <1>1, InitRefines, StepRefines, InitTyped, InitSane, StepTyped, StepSane, PTL DEF Spec
=============================================================================
