-------------------------- MODULE LegacyForkProofs --------------------------
(***************************************************************************)
(* Proofs about the mutable fork, for any number of forks, environments,   *)
(* checkpoints and addresses.  AddressesFresh is inductive together with   *)
(* the same fact about the snapshots that checkpoints hold; that a fork is *)
(* a private ledger rests on TypeOK alone: which protocols an environment  *)
(* and a checkpoint may show, and that no two forks share an environment.  *)
(***************************************************************************)
EXTENDS LegacyFork, SequenceTheorems, TLAPS

Networks == {Supported, Supported + 1}

\* What a fork of network n may show as its protocol.
Shown(n) == (Oldest..Supported - 1) \cup {n}

ForkRecord == [env : Nat, network : Networks]

-----------------------------------------------------------------------------
(* The protocol on its way into the host and back *)

\* What goes in comes out (fork_env, network_ledger_snapshot).
LEMMA RoundTrip ==
    ASSUME NEW n \in Networks, NEW p \in Shown(n)
    PROVE  Executed(p) \in Oldest..Supported /\ Restored(Executed(p), n) = p
  BY FixtureAssumption DEF Networks, Shown, Executed, Restored

\* What the host executes is shown as the network's protocol or an older one.
LEMMA ShownTyped ==
    ASSUME NEW n \in Networks, NEW p \in Oldest..Supported
    PROVE  Restored(p, n) \in Shown(n)
  BY FixtureAssumption DEF Networks, Shown, Executed, Restored

LEMMA ShownNat == ASSUME NEW n \in Networks PROVE Shown(n) \subseteq Nat /\ n \in Nat
  BY FixtureAssumption DEF Networks, Shown

\* A snapshot with another protocol is a snapshot.
LEMMA SetProtocolTyped ==
    ASSUME NEW s \in Snapshot, NEW p \in Nat, NEW t, t = [s EXCEPT !.protocol = p]
    PROVE  /\ t \in Snapshot /\ t.protocol = p /\ t.data = s.data
           /\ t.contracts = s.contracts /\ t.generator = s.generator
           /\ \A q : [t EXCEPT !.protocol = q] = [s EXCEPT !.protocol = q]
  BY DEF Snapshot

\* A snapshot with its own protocol is itself.
LEMMA SameProtocol == ASSUME NEW s \in Snapshot PROVE [s EXCEPT !.protocol = s.protocol] = s
  BY DEF Snapshot

\* A snapshot handed to the host reads back as it was.
LEMMA SeededReads ==
    ASSUME NEW n \in Networks, NEW s \in Snapshot, s.protocol \in Shown(n)
    PROVE  /\ Seeded(s) \in Snapshot
           /\ Seeded(s).protocol \in Oldest..Supported
           /\ Seeded(s).contracts = s.contracts /\ Seeded(s).generator = s.generator
           /\ [Seeded(s) EXCEPT !.protocol = Restored(@, n)] = s
  <1>1. Executed(s.protocol) \in Oldest..Supported /\ Restored(Executed(s.protocol), n) = s.protocol
    BY RoundTrip
  <1>2. Executed(s.protocol) \in Nat BY <1>1, FixtureAssumption
  <1>3. Seeded(s) = [s EXCEPT !.protocol = Executed(s.protocol)] BY DEF Seeded
  <1> DEFINE t == Seeded(s)
  <1> HIDE DEF t
  <1>4. /\ t \in Snapshot /\ t.protocol = Executed(s.protocol)
        /\ t.contracts = s.contracts /\ t.generator = s.generator
    BY <1>2, <1>3, SetProtocolTyped DEF t
  <1>5. [t EXCEPT !.protocol = Restored(t.protocol, n)] = s
    <2>1. Restored(t.protocol, n) = s.protocol BY <1>1, <1>4
    <2>2. \A q : [t EXCEPT !.protocol = q] = [s EXCEPT !.protocol = q]
      BY <1>2, <1>3, SetProtocolTyped DEF t
    <2> QED BY <2>1, <2>2, SameProtocol
  <1> QED BY <1>1, <1>4, <1>5 DEF t

\* What a fork reads is a snapshot that shows a protocol it may show.
LEMMA ReadTyped ==
    ASSUME NEW n \in Networks, NEW e \in Envs, heap \in Seq(Snapshot),
           heap[e].protocol \in Oldest..Supported
    PROVE  /\ Read(e, n) \in Snapshot
           /\ Read(e, n) = [heap[e] EXCEPT !.protocol = Restored(heap[e].protocol, n)]
           /\ Read(e, n).protocol \in Shown(n)
           /\ Read(e, n).protocol = Restored(heap[e].protocol, n)
           /\ Read(e, n).contracts = heap[e].contracts
           /\ Read(e, n).generator = heap[e].generator
  <1>1. heap[e] \in Snapshot BY DEF Envs
  <1>2. Restored(heap[e].protocol, n) \in Shown(n) BY ShownTyped
  <1>3. Restored(heap[e].protocol, n) \in Nat BY <1>2, ShownNat
  <1>4. Read(e, n) = [heap[e] EXCEPT !.protocol = Restored(heap[e].protocol, n)] BY DEF Read
  <1>5. /\ Read(e, n) \in Snapshot /\ Read(e, n).protocol = Restored(heap[e].protocol, n)
        /\ Read(e, n).contracts = heap[e].contracts /\ Read(e, n).generator = heap[e].generator
    BY <1>1, <1>3, <1>4, SetProtocolTyped
  <1> QED BY <1>2, <1>4, <1>5

-----------------------------------------------------------------------------
(* TypeOK and AddressesFresh *)

LEMMA InitTyped == Init => TypeOK /\ AddressesFresh
  BY DEF Init, TypeOK, AddressesFresh, Envs

\* A fork's record, in a state of the right type.
LEMMA ForkTyped ==
    ASSUME TypeOK, NEW f \in Fork, forks[f] # NoFork
    PROVE  /\ forks[f].env \in Envs /\ forks[f].network \in Networks
           /\ forks[f].env \in 1..Len(heap) /\ Envs = 1..Len(heap) /\ Len(heap) \in Nat
           /\ heap[forks[f].env] \in Snapshot
           /\ heap[forks[f].env].protocol \in Oldest..Supported
  BY DEF TypeOK, Envs, Networks

\* A new Env leaves the others as they are.
LEMMA NewEnvTyped ==
    ASSUME TypeOK, AddressesFresh, NEW f \in Fork, NEW n \in Networks,
           NEW s \in Snapshot, s.protocol \in Shown(n),
           s.contracts \subseteq 0..s.generator - 1,
           forks[f] = NoFork \/ forks[f].network = n,
           NewEnv(f, n, s), UNCHANGED checkpoints
    PROVE  /\ TypeOK' /\ AddressesFresh'
           /\ forks'[f] = [env |-> Len(heap) + 1, network |-> n] /\ forks'[f] # NoFork
           /\ heap'[Len(heap) + 1] = Seeded(s)
           /\ \A e \in Envs : heap'[e] = heap[e]
           /\ \A g \in Fork \ {f} : forks'[g] = forks[g]
  <1> DEFINE new == Len(heap) + 1
  <1>1. heap \in Seq(Snapshot) /\ Len(heap) \in Nat /\ Envs = 1..Len(heap) BY DEF TypeOK, Envs
  <1>2. Seeded(s) \in Snapshot /\ Seeded(s).protocol \in Oldest..Supported
        /\ Seeded(s).contracts \subseteq 0..Seeded(s).generator - 1
    BY SeededReads
  <1>3. heap' = Append(heap, Seeded(s)) /\ forks' = [forks EXCEPT ![f] = [env |-> new, network |-> n]]
    BY DEF NewEnv
  <1>4. /\ heap' \in Seq(Snapshot) /\ Len(heap') = new /\ heap'[new] = Seeded(s)
        /\ \A e \in Envs : heap'[e] = heap[e]
    BY <1>1, <1>2, <1>3, AppendProperties
  <1>5. Envs' = Envs \cup {new} /\ new \notin Envs BY <1>1, <1>4 DEF Envs
  <1>6. forks \in [Fork -> [env : Envs, network : Networks] \cup {NoFork}]
    BY DEF TypeOK, Networks
  <1>7. /\ forks'[f] = [env |-> new, network |-> n]
        /\ \A g \in Fork \ {f} : forks'[g] = forks[g]
    BY <1>3, <1>6
  <1>8. forks'[f] # NoFork
    <2>1. forks'[f] \in [env : Nat, network : Nat] BY <1>1, <1>7, ShownNat
    <2> QED BY <2>1, NoForkAssumption
  <1>9. forks' \in [Fork -> [env : Envs', network : Networks] \cup {NoFork}]
    BY <1>3, <1>5, <1>6
  <1>10. ASSUME NEW g \in Fork, NEW h \in Fork, g # h, forks'[g] # NoFork, forks'[h] # NoFork
         PROVE  forks'[g].env # forks'[h].env
    <2>1. CASE g = f
      <3>1. forks[h] # NoFork /\ forks'[h] = forks[h] BY <1>7, <1>10, <2>1
      <3>2. forks[h].env \in Envs BY <3>1, ForkTyped
      <3> QED BY <1>5, <1>7, <2>1, <3>1, <3>2
    <2>2. CASE h = f
      <3>1. forks[g] # NoFork /\ forks'[g] = forks[g] BY <1>7, <1>10, <2>2
      <3>2. forks[g].env \in Envs BY <3>1, ForkTyped
      <3> QED BY <1>5, <1>7, <2>2, <3>1, <3>2
    <2>3. CASE g # f /\ h # f BY <1>7, <1>10, <2>3 DEF TypeOK
    <2> QED BY <2>1, <2>2, <2>3
  <1>11. ASSUME NEW e \in Envs'
         PROVE  /\ heap'[e].protocol \in Oldest..Supported
                /\ heap'[e].contracts \subseteq 0..heap'[e].generator - 1
    BY <1>2, <1>4, <1>5 DEF TypeOK, AddressesFresh
  <1>12. ASSUME NEW c \in checkpoints'
         PROVE  /\ forks'[c.fork] # NoFork
                /\ c.snapshot.protocol \in Shown(forks'[c.fork].network)
    <2>1. /\ c \in checkpoints /\ c.fork \in Fork /\ forks[c.fork] # NoFork
          /\ c.snapshot.protocol \in Shown(forks[c.fork].network)
      BY DEF TypeOK, Shown
    <2> QED BY <1>7, <1>8, <2>1
  <1>13. checkpoints' \subseteq [fork : Fork, snapshot : Snapshot] BY DEF TypeOK
  <1>14. TypeOK'
    BY <1>4, <1>9, <1>10, <1>11, <1>12, <1>13 DEF TypeOK, Shown, Networks
  <1>15. AddressesFresh' BY <1>11 DEF AddressesFresh
  <1> QED BY <1>4, <1>7, <1>8, <1>14, <1>15

\* A step inside one Env leaves everything else as it is.
LEMMA EnvStepTyped ==
    ASSUME TypeOK, AddressesFresh, NEW e \in Envs, NEW s \in Snapshot,
           s.protocol \in Oldest..Supported, s.contracts \subseteq 0..s.generator - 1,
           heap' = [heap EXCEPT ![e] = s], UNCHANGED <<forks, checkpoints>>
    PROVE  TypeOK' /\ AddressesFresh'
  <1>1. heap \in Seq(Snapshot) /\ Len(heap) \in Nat /\ Envs = 1..Len(heap) BY DEF TypeOK, Envs
  <1>2. heap' \in Seq(Snapshot) /\ Len(heap') = Len(heap) /\ Envs' = Envs BY <1>1 DEF Envs
  <1>3. ASSUME NEW d \in Envs' PROVE heap'[d] = IF d = e THEN s ELSE heap[d] BY <1>1, <1>2
  <1>4. TypeOK' BY <1>2, <1>3 DEF TypeOK
  <1>5. AddressesFresh' BY <1>2, <1>3 DEF AddressesFresh
  <1> QED BY <1>4, <1>5

\* FromFixture gives the fork a new Env with the fixture's ledger.
FreshOf(x) == [protocol |-> x.protocol, data |-> x.data, contracts |-> {}, generator |-> 0]

LEMMA FreshTyped ==
    ASSUME NEW x \in Fixture
    PROVE  /\ x.protocol \in Networks /\ FreshOf(x) \in Snapshot
           /\ FreshOf(x).protocol \in Shown(x.protocol)
           /\ FreshOf(x).contracts \subseteq 0..FreshOf(x).generator - 1
  <1>1. x.protocol \in Networks /\ x.data \in Data BY FixtureAssumption DEF Networks
  <1>2. x.protocol \in Nat BY <1>1, ShownNat
  <1> QED BY <1>1, <1>2 DEF FreshOf, Snapshot, Shown

\* A checkpoint reverts its own fork to a snapshot of the right type.
LEMMA CheckpointTyped ==
    ASSUME TypeOK, NEW c \in checkpoints
    PROVE  /\ c.fork \in Fork /\ forks[c.fork] # NoFork
           /\ c.snapshot \in Snapshot /\ c.snapshot.protocol \in Shown(forks[c.fork].network)
           /\ c = [fork |-> c.fork, snapshot |-> c.snapshot]
  BY DEF TypeOK, Shown

\* A step inside one Env changes what it must and keeps the invariant.
LEMMA InvokeTyped ==
    ASSUME TypeOK, AddressesFresh, NEW e \in Envs, NEW d \in Data,
           heap' = [heap EXCEPT ![e].data = d], UNCHANGED <<forks, checkpoints>>
    PROVE  TypeOK' /\ AddressesFresh'
  <1> DEFINE s == [heap[e] EXCEPT !.data = d]
  <1>1. heap[e] \in Snapshot /\ heap[e].protocol \in Oldest..Supported
        /\ heap[e].contracts \subseteq 0..heap[e].generator - 1
    BY DEF TypeOK, AddressesFresh, Envs
  <1>2. s \in Snapshot /\ s.protocol = heap[e].protocol
        /\ s.contracts = heap[e].contracts /\ s.generator = heap[e].generator
    BY <1>1 DEF Snapshot
  <1>3. heap' = [heap EXCEPT ![e] = s] OBVIOUS
  <1> HIDE DEF s
  <1> QED BY <1>1, <1>2, <1>3, EnvStepTyped

LEMMA SetProtocolStep ==
    ASSUME TypeOK, AddressesFresh, NEW e \in Envs, NEW p \in Oldest..Supported,
           heap' = [heap EXCEPT ![e].protocol = p], UNCHANGED <<forks, checkpoints>>
    PROVE  TypeOK' /\ AddressesFresh'
  <1> DEFINE s == [heap[e] EXCEPT !.protocol = p]
  <1>1. heap[e] \in Snapshot /\ heap[e].contracts \subseteq 0..heap[e].generator - 1
    BY DEF TypeOK, AddressesFresh, Envs
  <1>2. p \in Nat BY FixtureAssumption
  <1>3. heap' = [heap EXCEPT ![e] = s] OBVIOUS
  <1>4. s = [heap[e] EXCEPT !.protocol = p] OBVIOUS
  <1> HIDE DEF s
  <1>5. s \in Snapshot /\ s.protocol = p
        /\ s.contracts = heap[e].contracts /\ s.generator = heap[e].generator
    BY <1>1, <1>2, <1>4, SetProtocolTyped
  <1> QED BY <1>1, <1>3, <1>5, EnvStepTyped

\* A registration counts the generator, and may leave a contract.
LEMMA GeneratedTyped ==
    ASSUME NEW s \in Snapshot
    PROVE  /\ Generated(s) \in Snapshot /\ Generated(s).protocol = s.protocol
           /\ Generated(s).generator = s.generator + 1 /\ Generated(s).contracts = s.contracts
           /\ s.generator \in Nat
  BY DEF Snapshot, Generated

LEMMA HoldingTyped ==
    ASSUME NEW s \in Snapshot, NEW c \in Nat
    PROVE  /\ Holding(s, c) \in Snapshot /\ Holding(s, c).protocol = s.protocol
           /\ Holding(s, c).generator = s.generator
           /\ Holding(s, c).contracts = s.contracts \cup {c}
  BY DEF Snapshot, Holding

LEMMA RegisterTyped ==
    ASSUME TypeOK, AddressesFresh, NEW f \in Fork, RegisterWasm(f)
    PROVE  TypeOK' /\ AddressesFresh'
  <1> DEFINE e == forks[f].env
             bumped == Generated(heap[e])
             registered == Holding(bumped, heap[e].generator)
  <1>1. e \in Envs /\ heap[e] \in Snapshot /\ heap[e].protocol \in Oldest..Supported
        /\ heap[e].contracts \subseteq 0..heap[e].generator - 1
    BY ForkTyped DEF RegisterWasm, AddressesFresh
  <1>2. heap' = [heap EXCEPT ![e] = registered] \/ heap' = [heap EXCEPT ![e] = bumped]
    BY DEF RegisterWasm
  <1>3. /\ bumped \in Snapshot /\ bumped.protocol = heap[e].protocol
        /\ bumped.generator = heap[e].generator + 1 /\ bumped.contracts = heap[e].contracts
        /\ heap[e].generator \in Nat
    BY <1>1, GeneratedTyped
  <1> HIDE DEF e, bumped
  <1>4. /\ registered \in Snapshot /\ registered.protocol = bumped.protocol
        /\ registered.generator = bumped.generator
        /\ registered.contracts = bumped.contracts \cup {heap[e].generator}
    BY <1>3, HoldingTyped
  <1>5. UNCHANGED <<forks, checkpoints>> BY DEF RegisterWasm
  <1> HIDE DEF registered
  <1>6. /\ registered.contracts \subseteq 0..registered.generator - 1
        /\ bumped.contracts \subseteq 0..bumped.generator - 1
    BY <1>1, <1>3, <1>4
  <1> QED BY <1>1, <1>2, <1>3, <1>4, <1>5, <1>6, EnvStepTyped

LEMMA TakeTyped ==
    ASSUME TypeOK, AddressesFresh, NEW f \in Fork, TakeCheckpoint(f)
    PROVE  TypeOK' /\ AddressesFresh'
  <1> DEFINE s == Read(forks[f].env, forks[f].network)
             c == [fork |-> f, snapshot |-> s]
  <1>1. forks[f] # NoFork /\ checkpoints' = checkpoints \cup {c} /\ UNCHANGED <<forks, heap>>
    BY DEF TakeCheckpoint
  <1>2. s \in Snapshot /\ s.protocol \in Shown(forks[f].network)
    BY <1>1, ForkTyped, ReadTyped DEF TypeOK
  <1>3. c.fork = f /\ c.snapshot = s /\ c \in [fork : Fork, snapshot : Snapshot] BY <1>2
  <1> HIDE DEF s, c
  <1>4. Envs' = Envs BY <1>1 DEF Envs
  <1> QED BY <1>1, <1>2, <1>3, <1>4 DEF TypeOK, AddressesFresh, Shown

\* Every step keeps TypeOK and, but for the revert, AddressesFresh by itself; a
\* checkpoint's snapshot has to be fresh as well, which is SavedFresh.
SavedFresh == \A c \in checkpoints : c.snapshot.contracts \subseteq 0..c.snapshot.generator - 1

Inv == TypeOK /\ AddressesFresh /\ SavedFresh

LEMMA StepKeeps == Inv /\ [Next]_vars => Inv'
  <1> SUFFICES ASSUME Inv, [Next]_vars PROVE Inv' OBVIOUS
  <1> USE DEF Inv
  <1>1. ASSUME NEW f \in Fork, FromFixture(f) PROVE Inv'
    <2>1. PICK x \in Fixture : NewEnv(f, x.protocol, FreshOf(x))
      BY <1>1 DEF FromFixture, FreshOf
    <2>2. TypeOK' /\ AddressesFresh'
      BY <1>1, <2>1, FreshTyped, NewEnvTyped DEF FromFixture
    <2> QED BY <1>1, <2>2 DEF FromFixture, SavedFresh
  <1>2. ASSUME NEW f \in Fork, RegisterWasm(f) PROVE Inv'
    BY <1>2, RegisterTyped DEF RegisterWasm, SavedFresh
  <1>3. ASSUME NEW f \in Fork, TakeCheckpoint(f) PROVE Inv'
    <2> DEFINE s == Read(forks[f].env, forks[f].network)
    <2>1. TypeOK' /\ AddressesFresh' BY <1>3, TakeTyped
    <2>2. s.contracts \subseteq 0..s.generator - 1
      <3>1. /\ forks[f].env \in Envs
            /\ s.contracts = heap[forks[f].env].contracts
            /\ s.generator = heap[forks[f].env].generator
        BY <1>3, ForkTyped, ReadTyped DEF TakeCheckpoint, TypeOK
      <3> HIDE DEF s
      <3> QED BY <3>1 DEF AddressesFresh
    <2>3. checkpoints' = checkpoints \cup {[fork |-> f, snapshot |-> s]}
      BY <1>3 DEF TakeCheckpoint
    <2> HIDE DEF s
    <2> QED BY <2>1, <2>2, <2>3 DEF SavedFresh
  <1>4. ASSUME NEW f \in Fork, NEW c \in checkpoints, Revert(f, c) PROVE Inv'
    <2>1. CASE UNCHANGED <<forks, heap>>
      BY <1>4, <2>1 DEF Revert, TypeOK, AddressesFresh, SavedFresh, Envs
    <2>2. CASE Belongs(f, c) /\ NewEnv(f, forks[f].network, c.snapshot)
      <3>1. /\ c.fork = f /\ forks[f] # NoFork /\ c.snapshot \in Snapshot
            /\ c.snapshot.protocol \in Shown(forks[f].network)
        BY <2>2, CheckpointTyped DEF Belongs
      <3>2. forks[f].network \in Networks BY <3>1, ForkTyped
      <3>3. c.snapshot.contracts \subseteq 0..c.snapshot.generator - 1 BY DEF SavedFresh
      <3>4. UNCHANGED checkpoints BY <1>4 DEF Revert
      <3>5. TypeOK' /\ AddressesFresh' BY <2>2, <3>1, <3>2, <3>3, <3>4, NewEnvTyped
      <3> QED BY <3>4, <3>5 DEF SavedFresh
    <2> QED BY <1>4, <2>1, <2>2 DEF Revert
  <1>5. ASSUME NEW c \in checkpoints, Forget(c) PROVE Inv'
    BY <1>5 DEF Forget, TypeOK, AddressesFresh, SavedFresh, Envs
  <1>6. ASSUME NEW e \in Envs, Invoke(e) PROVE Inv'
    BY <1>6, InvokeTyped DEF Invoke, SavedFresh
  <1>7. ASSUME NEW e \in Envs, SetProtocol(e) PROVE Inv'
    BY <1>7, SetProtocolStep DEF SetProtocol, SavedFresh
  <1>8. CASE UNCHANGED vars
    BY <1>8 DEF vars, TypeOK, AddressesFresh, SavedFresh, Envs
  <1> QED BY <1>1, <1>2, <1>3, <1>4, <1>5, <1>6, <1>7, <1>8 DEF Next

LEMMA Invariant == Spec => []Inv
  <1>1. Init => Inv BY InitTyped DEF Init, Inv, SavedFresh
  <1> QED BY <1>1, StepKeeps, PTL DEF Spec

\* Environments run under protocols the host knows, checkpoints speak of the
\* network's, and no two forks share an environment (fork_env, checkpoint).
THEOREM ForkTypeOK == Spec => []TypeOK
  BY Invariant, PTL DEF Inv

\* No address is generated twice in an environment, however often the fork is
\* reverted (register_wasm, Checkpoint).
THEOREM ForkAddressesFresh == Spec => []AddressesFresh
  BY Invariant, PTL DEF Inv

-----------------------------------------------------------------------------
(* A fork is a private ledger *)

Views == [f \in Fork |-> ViewOf(f)]
Keeps == [f \in Fork |-> KeptOf(f)]

\* A fork whose Env stays shows what it showed.
LEMMA SameView ==
    ASSUME NEW g \in Fork, forks'[g] = forks[g],
           forks[g] # NoFork => heap'[forks[g].env] = heap[forks[g].env]
    PROVE  ViewOf(g)' = ViewOf(g)
  BY DEF ViewOf, Read

\* What a fork shows is a view of its network.
LEMMA ViewTyped ==
    ASSUME TypeOK, NEW f \in Fork, forks[f] # NoFork
    PROVE  LET now == Read(forks[f].env, forks[f].network) IN
           /\ ViewOf(f) = [network |-> forks[f].network, now |-> now]
           /\ ViewOf(f) # NoFork /\ now \in Snapshot
           /\ Views[f].network = forks[f].network /\ Views[f].now = now
  <1> DEFINE now == Read(forks[f].env, forks[f].network)
  <1>1. now \in Snapshot BY ForkTyped, ReadTyped DEF TypeOK
  <1>2. ViewOf(f) = [network |-> forks[f].network, now |-> now] BY DEF ViewOf
  <1>3. forks[f].network \in Nat BY ForkTyped, ShownNat
  <1> HIDE DEF now
  <1>4. ViewOf(f) # NoFork BY <1>1, <1>2, <1>3, NoForkAssumption
  <1>5. Views[f] = ViewOf(f) BY DEF Views
  <1> QED BY <1>1, <1>2, <1>4, <1>5 DEF now

\* A step of one fork moves its view and no other.
LEMMA OneView ==
    ASSUME NEW f \in Fork, \A g \in Fork \ {f} : ViewOf(g)' = ViewOf(g)
    PROVE  Views' = [Views EXCEPT ![f] = ViewOf(f)']
  BY DEF Views

LEMMA SameKeeps == ASSUME UNCHANGED checkpoints PROVE Keeps' = Keeps
  BY DEF Keeps, KeptOf

\* A step inside one Env moves the view of the fork that owns it, if one does.
LEMMA EnvStepViews ==
    ASSUME TypeOK, NEW e \in Envs, NEW s, heap' = [heap EXCEPT ![e] = s], UNCHANGED forks
    PROVE  /\ \A f \in Fork : forks[f] # NoFork /\ forks[f].env = e
                => /\ ViewOf(f)' = [network |-> forks[f].network,
                                    now |-> [s EXCEPT !.protocol = Restored(s.protocol, forks[f].network)]]
                   /\ Views' = [Views EXCEPT ![f] = ViewOf(f)']
           /\ (\A f \in Fork : forks[f] # NoFork => forks[f].env # e) => Views' = Views
  <1>1. heap \in Seq(Snapshot) BY DEF TypeOK
  <1>2. \A d \in Envs : heap'[d] = IF d = e THEN s ELSE heap[d] BY <1>1 DEF Envs
  <1>3. ASSUME NEW g \in Fork, forks[g] # NoFork => forks[g].env # e
        PROVE  ViewOf(g)' = ViewOf(g)
    BY <1>2, <1>3, SameView, ForkTyped
  <1>4. ASSUME NEW f \in Fork, forks[f] # NoFork, forks[f].env = e
        PROVE  /\ ViewOf(f)' = [network |-> forks[f].network,
                                now |-> [s EXCEPT !.protocol = Restored(s.protocol, forks[f].network)]]
               /\ Views' = [Views EXCEPT ![f] = ViewOf(f)']
    <2>1. heap'[e] = s BY <1>2
    <2>2. ViewOf(f)' = [network |-> forks[f].network,
                        now |-> [s EXCEPT !.protocol = Restored(s.protocol, forks[f].network)]]
      BY <1>4, <2>1 DEF ViewOf, Read
    <2>3. \A g \in Fork \ {f} : ViewOf(g)' = ViewOf(g)
      BY <1>3, <1>4 DEF TypeOK
    <2> QED BY <2>2, <2>3, OneView
  <1>5. (\A f \in Fork : forks[f] # NoFork => forks[f].env # e) => Views' = Views
    BY <1>3 DEF Views
  <1> QED BY <1>4, <1>5

\* What a call makes of an Env it makes of what its fork shows.
LEMMA ShownChange ==
    ASSUME NEW n \in Networks, NEW s \in Snapshot, s.protocol \in Oldest..Supported
    PROVE  LET Show(t) == [t EXCEPT !.protocol = Restored(t.protocol, n)] IN
           /\ \A d \in Data : Show([s EXCEPT !.data = d]) = [Show(s) EXCEPT !.data = d]
           /\ \A p \in Oldest..Supported :
                  Show([s EXCEPT !.protocol = p]) = [Show(s) EXCEPT !.protocol = Restored(p, n)]
           /\ Show(Generated(s)) = Generated(Show(s))
           /\ Show(s).generator = s.generator
  <1>1. Restored(s.protocol, n) \in Nat BY ShownTyped, ShownNat
  <1>2. \A d \in Data : [[s EXCEPT !.data = d] EXCEPT !.protocol = Restored(s.protocol, n)]
                         = [[s EXCEPT !.protocol = Restored(s.protocol, n)] EXCEPT !.data = d]
    BY <1>1 DEF Snapshot
  <1> QED BY <1>1, <1>2 DEF Snapshot, Generated

LEMMA ShownHolding ==
    ASSUME NEW n \in Networks, NEW s \in Snapshot, s.protocol \in Oldest..Supported, NEW c \in Nat
    PROVE  [Holding(s, c) EXCEPT !.protocol = Restored(Holding(s, c).protocol, n)]
             = Holding([s EXCEPT !.protocol = Restored(s.protocol, n)], c)
  <1>1. Restored(s.protocol, n) \in Nat BY ShownTyped, ShownNat
  <1>2. Holding(s, c).protocol = s.protocol BY HoldingTyped
  <1>3. [[s EXCEPT !.contracts = @ \cup {c}] EXCEPT !.protocol = Restored(s.protocol, n)]
          = [[s EXCEPT !.protocol = Restored(s.protocol, n)] EXCEPT !.contracts = @ \cup {c}]
    BY <1>1 DEF Snapshot
  <1> QED BY <1>2, <1>3 DEF Holding

LEMMA InitRefines == Init => Private!Init
  BY DEF Init, Private!Init, ViewOf, KeptOf

\* Private!Change of fork f, in terms of what the fork shows.
LEMMA ChangeRefines ==
    ASSUME TypeOK, NEW f \in Fork, forks[f] # NoFork,
           NEW now \in Private!Changed(Views[f]),
           ViewOf(f)' = [network |-> forks[f].network, now |-> now],
           Views' = [Views EXCEPT ![f] = ViewOf(f)'], UNCHANGED checkpoints
    PROVE  Private!Next
  <1>1. Views[f] # NoFork /\ Views[f].network = forks[f].network BY ViewTyped DEF Views
  <1>2. Private!Show(f, now) BY <1>1 DEF Private!Show, Views
  <1>3. Private!Change(f) BY <1>1, <1>2, SameKeeps DEF Private!Change, Views, Keeps
  <1> QED BY <1>3 DEF Private!Next

\* Every step of a fork is a step of private ledgers, or none.
LEMMA StepRefines ==
    TypeOK /\ AddressesFresh /\ [Next]_vars
      => Private!Next \/ (Views' = Views /\ Keeps' = Keeps)
  <1> SUFFICES ASSUME TypeOK, AddressesFresh, [Next]_vars
               PROVE  Private!Next \/ (Views' = Views /\ Keeps' = Keeps)
    OBVIOUS
  <1>1. ASSUME NEW f \in Fork, FromFixture(f) PROVE Private!Next
    <2>1. PICK x \in Fixture : NewEnv(f, x.protocol, FreshOf(x))
      BY <1>1 DEF FromFixture, FreshOf
    <2>2. /\ forks'[f] = [env |-> Len(heap) + 1, network |-> x.protocol] /\ forks'[f] # NoFork
          /\ heap'[Len(heap) + 1] = Seeded(FreshOf(x))
          /\ \A e \in Envs : heap'[e] = heap[e]
          /\ \A g \in Fork \ {f} : forks'[g] = forks[g]
      BY <1>1, <2>1, FreshTyped, NewEnvTyped DEF FromFixture
    <2>3. \A g \in Fork \ {f} : ViewOf(g)' = ViewOf(g) BY <2>2, SameView, ForkTyped
    <2>4. ViewOf(f)' = [network |-> x.protocol, now |-> FreshOf(x)]
      <3>1. [Seeded(FreshOf(x)) EXCEPT !.protocol = Restored(@, x.protocol)] = FreshOf(x)
        BY FreshTyped, SeededReads
      <3> QED BY <2>2, <3>1 DEF ViewOf, Read
    <2>5. Views' = [Views EXCEPT ![f] = Private!Fresh(x)]
      BY <2>3, <2>4, OneView DEF Private!Fresh, FreshOf
    <2>6. Views[f] = NoFork BY <1>1 DEF FromFixture, Views, ViewOf
    <2>7. Keeps' = Keeps BY <1>1, SameKeeps DEF FromFixture
    <2>8. Private!New(f) BY <2>5, <2>6, <2>7 DEF Private!New, Views, Keeps
    <2> QED BY <2>8 DEF Private!Next
  <1>2. ASSUME NEW f \in Fork, RegisterWasm(f) PROVE Private!Next
    <2> DEFINE e == forks[f].env
               n == forks[f].network
               now == Read(e, n)
    <2>1. /\ forks[f] # NoFork /\ e \in Envs /\ n \in Networks /\ heap[e] \in Snapshot
          /\ heap[e].protocol \in Oldest..Supported /\ heap[e].generator \in Nat
      BY <1>2, ForkTyped, GeneratedTyped DEF RegisterWasm
    <2>2. PICK s \in {Holding(Generated(heap[e]), heap[e].generator), Generated(heap[e])} :
            heap' = [heap EXCEPT ![e] = s]
      BY <1>2 DEF RegisterWasm
    <2>3. UNCHANGED <<forks, checkpoints>> BY <1>2 DEF RegisterWasm
    <2> DEFINE after == [s EXCEPT !.protocol = Restored(s.protocol, n)]
    <2>4. after \in {Holding(Generated(now), now.generator), Generated(now)}
      <3>1. /\ Generated(heap[e]) \in Snapshot
            /\ Generated(heap[e]).protocol = heap[e].protocol
        BY <2>1, GeneratedTyped
      <3>2. [Generated(heap[e]) EXCEPT !.protocol = Restored(Generated(heap[e]).protocol, n)]
              = Generated(now) /\ now.generator = heap[e].generator
        BY <2>1, ShownChange DEF Read
      <3>3. [Holding(Generated(heap[e]), heap[e].generator)
                EXCEPT !.protocol = Restored(Holding(Generated(heap[e]), heap[e].generator).protocol, n)]
              = Holding([Generated(heap[e]) EXCEPT !.protocol
                            = Restored(Generated(heap[e]).protocol, n)], heap[e].generator)
        <4> DEFINE g == Generated(heap[e])
                   c == heap[e].generator
        <4>1. g \in Snapshot /\ g.protocol \in Oldest..Supported /\ c \in Nat /\ n \in Networks
          BY <2>1, <3>1
        <4> HIDE DEF g, c, n, e
        <4>2. [Holding(g, c) EXCEPT !.protocol = Restored(Holding(g, c).protocol, n)]
                = Holding([g EXCEPT !.protocol = Restored(g.protocol, n)], c)
          BY <4>1, ShownHolding
        <4> QED BY <4>2 DEF g, c
      <3> QED BY <2>2, <3>2, <3>3
    <2>5. /\ ViewOf(f)' = [network |-> n, now |-> after]
          /\ Views' = [Views EXCEPT ![f] = ViewOf(f)']
      BY <2>1, <2>2, <2>3, EnvStepViews
    <2>6. after \in Private!Changed(Views[f])
      <3>1. Views[f].now = now BY <2>1, ViewTyped
      <3> HIDE DEF now, after
      <3> QED BY <2>4, <3>1
              DEF Private!Changed, Private!Counted, Private!Extended, Generated, Holding
    <2> HIDE DEF after
    <2> QED BY <2>1, <2>3, <2>5, <2>6, ChangeRefines
  <1>3. ASSUME NEW f \in Fork, TakeCheckpoint(f) PROVE Private!Next
    <2> DEFINE now == Read(forks[f].env, forks[f].network)
               c == [fork |-> f, snapshot |-> now]
    <2>1. forks[f] # NoFork /\ checkpoints' = checkpoints \cup {c} /\ UNCHANGED <<forks, heap>>
      BY <1>3 DEF TakeCheckpoint
    <2>2. Views' = Views BY <2>1 DEF Views, ViewOf, Read
    <2>3. Views[f] # NoFork /\ Views[f].now = now BY <2>1, ViewTyped DEF Views
    <2>4. c.fork = f /\ c.snapshot = now OBVIOUS
    <2> HIDE DEF now, c
    <2>5. KeptOf(f)' = KeptOf(f) \cup {now} BY <2>1, <2>4 DEF KeptOf
    <2>6. \A g \in Fork \ {f} : KeptOf(g)' = KeptOf(g) BY <2>1, <2>4 DEF KeptOf
    <2>7. Keeps' = [Keeps EXCEPT ![f] = @ \cup {now}] BY <2>5, <2>6 DEF Keeps
    <2>8. Private!Keep(f) BY <2>2, <2>3, <2>7 DEF Private!Keep, Views, Keeps
    <2> QED BY <2>8 DEF Private!Next
  <1>4. ASSUME NEW f \in Fork, NEW c \in checkpoints, Revert(f, c)
        PROVE  Private!Next \/ (Views' = Views /\ Keeps' = Keeps)
    <2>1. Keeps' = Keeps BY <1>4, SameKeeps DEF Revert
    <2>2. CASE UNCHANGED <<forks, heap>>
      <3>1. Views' = Views BY <2>2 DEF Views, ViewOf, Read
      <3> QED BY <2>1, <3>1
    <2>3. CASE Belongs(f, c) /\ NewEnv(f, forks[f].network, c.snapshot)
      <3>1. /\ c.fork = f /\ forks[f] # NoFork /\ c.snapshot \in Snapshot
            /\ c.snapshot.protocol \in Shown(forks[f].network)
        BY <2>3, CheckpointTyped DEF Belongs
      <3>2. forks[f].network \in Networks BY <3>1, ForkTyped
      <3>3. /\ heap' = Append(heap, Seeded(c.snapshot))
            /\ forks' = [forks EXCEPT ![f] = [env |-> Len(heap) + 1, network |-> forks[f].network]]
        BY <2>3 DEF NewEnv
      <3>4. heap \in Seq(Snapshot) /\ Seeded(c.snapshot) \in Snapshot
        BY <3>1, <3>2, SeededReads DEF TypeOK
      <3>5. /\ heap'[Len(heap) + 1] = Seeded(c.snapshot)
            /\ \A e \in Envs : heap'[e] = heap[e]
        BY <3>3, <3>4, AppendProperties DEF Envs
      <3>6. /\ forks'[f] = [env |-> Len(heap) + 1, network |-> forks[f].network]
            /\ \A g \in Fork \ {f} : forks'[g] = forks[g]
        BY <3>3 DEF TypeOK
      <3>7. \A g \in Fork \ {f} : ViewOf(g)' = ViewOf(g) BY <3>5, <3>6, SameView, ForkTyped
      <3>8. forks'[f] # NoFork
        <4>1. Len(heap) + 1 \in Nat /\ forks[f].network \in Nat BY <3>2, <3>4, ShownNat
        <4> QED BY <3>6, <4>1, NoForkAssumption
      <3>9. ViewOf(f)' = [network |-> forks[f].network, now |-> c.snapshot]
        <4>1. [Seeded(c.snapshot) EXCEPT !.protocol = Restored(@, forks[f].network)] = c.snapshot
          BY <3>1, <3>2, SeededReads
        <4> QED BY <3>5, <3>6, <3>8, <4>1 DEF ViewOf, Read
      <3>10. Views' = [Views EXCEPT ![f] = ViewOf(f)'] BY <3>7, OneView
      <3>11. Views[f] # NoFork /\ Views[f].network = forks[f].network BY <3>1, ViewTyped DEF Views
      <3>12. c.snapshot \in Keeps[f] BY <3>1 DEF Keeps, KeptOf
      <3>13. Private!Show(f, c.snapshot) BY <3>9, <3>10, <3>11 DEF Private!Show, Views
      <3>14. Private!Restore(f)
        BY <2>1, <3>11, <3>12, <3>13 DEF Private!Restore, Views, Keeps
      <3> QED BY <3>14 DEF Private!Next
    <2> QED BY <1>4, <2>2, <2>3 DEF Revert
  <1>5. ASSUME NEW c \in checkpoints, Forget(c) PROVE Private!Next
    <2> DEFINE f == c.fork
    <2>1. f \in Fork /\ c = [fork |-> f, snapshot |-> c.snapshot] BY CheckpointTyped
    <2>2. checkpoints' = checkpoints \ {c} /\ UNCHANGED <<forks, heap>> BY <1>5 DEF Forget
    <2>3. Views' = Views BY <2>2 DEF Views, ViewOf, Read
    <2>4. \A d \in checkpoints : d = [fork |-> d.fork, snapshot |-> d.snapshot]
      BY CheckpointTyped
    <2> HIDE DEF f
    <2>5. KeptOf(f)' = KeptOf(f) \ {c.snapshot} /\ c.snapshot \in KeptOf(f)
      BY <2>1, <2>2, <2>4 DEF KeptOf, f
    <2>6. \A g \in Fork \ {f} : KeptOf(g)' = KeptOf(g) BY <2>1, <2>2 DEF KeptOf, f
    <2>7. Keeps' = [Keeps EXCEPT ![f] = @ \ {c.snapshot}] BY <2>5, <2>6 DEF Keeps
    <2>8. c.snapshot \in Keeps[f] BY <2>1, <2>5 DEF Keeps
    <2>9. Private!Forget(f) BY <2>3, <2>7, <2>8 DEF Private!Forget, Views, Keeps
    <2> QED BY <2>1, <2>9 DEF Private!Next
  <1>6. ASSUME NEW e \in Envs, Invoke(e) \/ SetProtocol(e)
        PROVE  Private!Next \/ (Views' = Views /\ Keeps' = Keeps)
    <2>1. UNCHANGED <<forks, checkpoints>> /\ Keeps' = Keeps
      BY <1>6, SameKeeps DEF Invoke, SetProtocol
    <2>2. PICK s : /\ heap' = [heap EXCEPT ![e] = s]
                   /\ \/ \E d \in Data : s = [heap[e] EXCEPT !.data = d]
                      \/ \E p \in Oldest..Supported : s = [heap[e] EXCEPT !.protocol = p]
      <3>1. CASE Invoke(e)
        <4>1. PICK d \in Data : heap' = [heap EXCEPT ![e].data = d] BY <3>1 DEF Invoke
        <4>2. heap' = [heap EXCEPT ![e] = [heap[e] EXCEPT !.data = d]] BY <4>1
        <4> QED BY <4>2
      <3>2. CASE SetProtocol(e)
        <4>1. PICK p \in Oldest..Supported : heap' = [heap EXCEPT ![e].protocol = p]
          BY <3>2 DEF SetProtocol
        <4>2. heap' = [heap EXCEPT ![e] = [heap[e] EXCEPT !.protocol = p]] BY <4>1
        <4> QED BY <4>2
      <3> QED BY <1>6, <3>1, <3>2
    <2>3. CASE \A f \in Fork : forks[f] # NoFork => forks[f].env # e
      BY <2>1, <2>2, <2>3, EnvStepViews
    <2>4. CASE \E f \in Fork : forks[f] # NoFork /\ forks[f].env = e
      <3>1. PICK f \in Fork : forks[f] # NoFork /\ forks[f].env = e BY <2>4
      <3> DEFINE n == forks[f].network
                 now == Read(e, n)
                 after == [s EXCEPT !.protocol = Restored(s.protocol, n)]
      <3>2. /\ n \in Networks /\ heap[e] \in Snapshot
            /\ heap[e].protocol \in Oldest..Supported
        BY <3>1, ForkTyped
      <3>3. /\ ViewOf(f)' = [network |-> n, now |-> after]
            /\ Views' = [Views EXCEPT ![f] = ViewOf(f)']
        BY <2>1, <2>2, <3>1, EnvStepViews
      <3>4. Views[f].now = now /\ Views[f].network = n BY <3>1, ViewTyped
      <3>5. after \in Private!Changed(Views[f])
        <4>1. CASE \E d \in Data : s = [heap[e] EXCEPT !.data = d]
          <5>1. PICK d \in Data : s = [heap[e] EXCEPT !.data = d] BY <4>1
          <5>2. after = [now EXCEPT !.data = d] BY <3>2, <5>1, ShownChange DEF Read
          <5> HIDE DEF now, after
          <5> QED BY <3>4, <5>2 DEF Private!Changed
        <4>2. CASE \E p \in Oldest..Supported : s = [heap[e] EXCEPT !.protocol = p]
          <5>1. PICK p \in Oldest..Supported : s = [heap[e] EXCEPT !.protocol = p] BY <4>2
          <5>2. after = [now EXCEPT !.protocol = Restored(p, n)]
            BY <3>2, <5>1, ShownChange DEF Read
          <5>3. Restored(p, n) \in Shown(n) BY <3>2, ShownTyped
          <5> HIDE DEF now, after
          <5> QED BY <3>4, <5>2, <5>3 DEF Private!Changed, Shown
        <4> QED BY <2>2, <4>1, <4>2
      <3> HIDE DEF after
      <3> QED BY <2>1, <3>1, <3>3, <3>5, ChangeRefines
    <2> QED BY <2>3, <2>4
  <1>7. CASE UNCHANGED vars
    <2>1. Views' = Views /\ Keeps' = Keeps
      BY <1>7 DEF vars, Views, Keeps, ViewOf, KeptOf, Read
    <2> QED BY <2>1
  <1> QED BY <1>1, <1>2, <1>3, <1>4, <1>5, <1>6, <1>7 DEF Next

\* A mutable fork is a private ledger: whatever its environments go through, it
\* shows a ledger of the network changed by its own steps only, and a revert
\* shows exactly what the checkpoint saw (Fork).
THEOREM ForkImplementsPrivate == Spec => ImplementsPrivate
  <1>1. Private!Init /\ [][Private!Next]_<<Views, Keeps>> => ImplementsPrivate
    BY DEF ImplementsPrivate, Private!Spec, Views, Keeps
  <1>2. Inv /\ [Next]_vars => [Private!Next]_<<Views, Keeps>>
    BY StepRefines DEF Inv
  <1> QED BY <1>1, <1>2, InitRefines, Invariant, PTL DEF Spec
=============================================================================
