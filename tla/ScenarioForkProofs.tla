------------------------- MODULE ScenarioForkProofs -------------------------
(***************************************************************************)
(* Whatever the network, the capture and the contracts are: a pass that is *)
(* not void shows the scenario the complete ledger.                        *)
(***************************************************************************)
EXTENDS ScenarioFork, TLAPS

\* The source holds the captured entries.
CacheHolds == \A k \in captured : k \in DOMAIN cache /\ cache[k] = Network[k]

\* What the host holds is the complete ledger's, and the rest of that ledger is
\* still the network's.
StoredAgrees ==
    /\ \A k \in DOMAIN stored : stored[k] = ideal[k]
    /\ \A k \in Key \ DOMAIN stored : ideal[k] = Network[k]

\* A local key the host does not hold is not on the network either.
LocalFresh == \A k \in Local \ DOMAIN stored : Network[k] = Absent

\* No account or contract of the network has vanished.
RootsStay == \A k \in Root : ideal[k] = Absent => Network[k] = Absent

\* A local account has been looked up.
AccountsHeld == \A l \in localAccounts : AccountKey[l] \in DOMAIN stored

Sound == StoredAgrees /\ LocalFresh /\ RootsStay /\ AccountsHeld

\* The inductive invariant.
IInv ==
    /\ Typed
    /\ CacheHolds
    /\ ~Void => faithful
    /\ ~Void /\ ~over => Sound

-----------------------------------------------------------------------------
(* Operators *)

LEMMA StateEntry ==
    ASSUME NEW s \in State
    PROVE  /\ s \in [Key -> Entry]
           /\ \A k \in Key : s[k] \in Shape[k] \cup {Absent}
BY DEF State

LEMMA IsState ==
    ASSUME NEW f \in [Key -> Entry], \A k \in Key : f[k] \in Shape[k] \cup {Absent}
    PROVE  f \in State
BY DEF State

LEMMA ShapeEntry ==
    ASSUME NEW k \in Key, NEW v \in Shape[k] \cup {Absent}
    PROVE  v \in Entry /\ (v \in Shape[k] => v # Absent)
BY KeyAssumption DEF Entry

LEMMA NothingTyped == Nothing \in State
BY DEF Nothing, State, Entry

LEMMA BeyondTyped ==
    ASSUME NEW rest \in Beyond
    PROVE  rest \in State
BY NothingTyped, ScenarioAssumption DEF Beyond

LEMMA ViewTyped ==
    ASSUME IsPartial(stored), IsPartial(cache), NEW own, NEW rest \in State
    PROVE  View(own, rest) \in State
<1>1. \A k \in Key : View(own, rest)[k] \in Shape[k] \cup {Absent}
  <2>1. \A k \in DOMAIN stored : stored[k] \in Shape[k] \cup {Absent}
    BY DEF IsPartial
  <2>2. \A k \in DOMAIN cache : cache[k] \in Shape[k] \cup {Absent}
    BY DEF IsPartial
  <2>3. \A k \in Key : rest[k] \in Shape[k] \cup {Absent}
    BY StateEntry
  <2> QED BY <2>1, <2>2, <2>3 DEF View
<1>2. \A k \in Key : View(own, rest)[k] \in Entry
  BY <1>1, ShapeEntry
<1>3. View(own, rest) = [k \in Key |-> View(own, rest)[k]]
  BY DEF View
<1>4. View(own, rest) \in [Key -> Entry]
  BY <1>2, <1>3
<1> QED BY <1>1, <1>4, IsState

LEMMA OverlayTyped ==
    ASSUME NEW s \in State, NEW w, DOMAIN w \subseteq Key,
           \A k \in DOMAIN w : w[k] \in Shape[k] \cup {Absent}
    PROVE  Overlay(s, w) \in State
<1>1. \A k \in Key : s[k] \in Shape[k] \cup {Absent}
  BY StateEntry
<1>2. \A k \in Key : Overlay(s, w)[k] \in Shape[k] \cup {Absent}
  BY <1>1 DEF Overlay
<1>3. \A k \in Key : Overlay(s, w)[k] \in Entry
  BY <1>2, ShapeEntry
<1>4. Overlay(s, w) = [k \in Key |-> Overlay(s, w)[k]]
  BY DEF Overlay
<1>5. Overlay(s, w) \in [Key -> Entry]
  BY <1>3, <1>4
<1> QED BY <1>2, <1>5, IsState

LEMMA ExtendedTyped ==
    ASSUME NEW f, NEW g, IsPartial(f), DOMAIN g \subseteq Key,
           \A k \in DOMAIN g : g[k] \in Shape[k] \cup {Absent}
    PROVE  /\ IsPartial(Extended(f, g))
           /\ DOMAIN Extended(f, g) = DOMAIN f \cup DOMAIN g
           /\ \A k \in DOMAIN f \cup DOMAIN g :
                Extended(f, g)[k] = IF k \in DOMAIN g THEN g[k] ELSE f[k]
BY DEF IsPartial, Extended

\* The extended function of the host's storage, in one.
LEMMA StoringTyped ==
    ASSUME IsPartial(stored), NEW seen \in State, NEW run, IsOutcome(run)
    PROVE  /\ IsPartial(Storing(run, seen))
           /\ DOMAIN Storing(run, seen) = DOMAIN stored \cup Kept(run) \cup DOMAIN run.writes
           /\ \A k \in DOMAIN Storing(run, seen) :
                Storing(run, seen)[k] = IF k \in DOMAIN run.writes THEN run.writes[k]
                                        ELSE IF k \in Kept(run) THEN seen[k] ELSE stored[k]
<1> DEFINE r == Restriction(seen, Kept(run))
<1>1. DOMAIN r = Kept(run) /\ Kept(run) \subseteq Key
  BY DEF IsOutcome, Restriction, Kept
<1>2. \A k \in Key : seen[k] \in Shape[k] \cup {Absent}
  BY StateEntry
<1>3. \A k \in DOMAIN r : r[k] = seen[k] /\ r[k] \in Shape[k] \cup {Absent}
  BY <1>1, <1>2 DEF Restriction
<1> DEFINE f == Extended(stored, r)
<1>4. /\ IsPartial(f)
      /\ DOMAIN f = DOMAIN stored \cup Kept(run)
      /\ \A k \in DOMAIN f : f[k] = IF k \in Kept(run) THEN seen[k] ELSE stored[k]
  <2> HIDE DEF r
  <2>1. DOMAIN r \subseteq Key /\ \A k \in DOMAIN r : r[k] \in Shape[k] \cup {Absent}
    BY <1>1, <1>3
  <2>2. /\ IsPartial(f)
        /\ DOMAIN f = DOMAIN stored \cup DOMAIN r
        /\ \A k \in DOMAIN stored \cup DOMAIN r :
             f[k] = IF k \in DOMAIN r THEN r[k] ELSE stored[k]
    BY <2>1, ExtendedTyped
  <2> QED BY <1>1, <1>3, <2>2
<1>5. DOMAIN run.writes \subseteq Key
      /\ \A k \in DOMAIN run.writes : run.writes[k] \in Shape[k] \cup {Absent}
  BY DEF IsOutcome
<1>6. Storing(run, seen) = Extended(f, run.writes)
  BY DEF Storing
<1> HIDE DEF f
<1>7. /\ IsPartial(Extended(f, run.writes))
      /\ DOMAIN Extended(f, run.writes) = DOMAIN f \cup DOMAIN run.writes
      /\ \A k \in DOMAIN f \cup DOMAIN run.writes :
           Extended(f, run.writes)[k] = IF k \in DOMAIN run.writes THEN run.writes[k] ELSE f[k]
  BY <1>4, <1>5, ExtendedTyped
<1>8. IsPartial(Storing(run, seen))
  BY <1>6, <1>7
<1>9. DOMAIN Storing(run, seen) = DOMAIN stored \cup Kept(run) \cup DOMAIN run.writes
  BY <1>4, <1>6, <1>7
<1>10. ASSUME NEW k \in DOMAIN Storing(run, seen)
       PROVE  Storing(run, seen)[k] = IF k \in DOMAIN run.writes THEN run.writes[k]
                                      ELSE IF k \in Kept(run) THEN seen[k] ELSE stored[k]
  <2>1. Storing(run, seen)[k] = IF k \in DOMAIN run.writes THEN run.writes[k] ELSE f[k]
    BY <1>4, <1>6, <1>7, <1>9, <1>10
  <2>2. k \notin DOMAIN run.writes => k \in DOMAIN f
    BY <1>4, <1>9, <1>10
  <2> QED BY <1>4, <2>1, <2>2
<1> QED BY <1>8, <1>9, <1>10

-----------------------------------------------------------------------------
(* The source *)

\* An answered lookup of a key that is neither local nor captured makes the
\* pass void, and the cache never changes its mind about a captured key.
LEMMA ServedKeeps ==
    ASSUME IInv, NEW ks, ks \subseteq Key, NEW own, NEW rest \in State,
           Served(ks, own, rest), UNCHANGED passVars
    PROVE  /\ IsPartial(cache')
           /\ requested' \subseteq Key
           /\ unknown' = unknown /\ failure' = failure
           /\ CacheHolds'
           /\ ~Void' => ~Void /\ \A k \in ks : k \in own \/ k \in captured
<1> DEFINE more == Restriction(rest, Missing(ks, own))
<1>1. DOMAIN more = Missing(ks, own) /\ Missing(ks, own) \subseteq Key
  BY DEF Missing, Restriction
<1>2. \A k \in DOMAIN more : more[k] \in Shape[k] \cup {Absent}
  BY <1>1, StateEntry DEF Restriction
<1>3. cache' = Extended(cache, more) /\ IsPartial(cache)
  BY DEF Served, IInv, Typed
<1> HIDE DEF more
<1>4. /\ IsPartial(cache')
      /\ \A k \in DOMAIN cache : k \in DOMAIN cache' /\ (k \notin DOMAIN more => cache'[k] = cache[k])
  <2>1. /\ IsPartial(Extended(cache, more))
        /\ DOMAIN Extended(cache, more) = DOMAIN cache \cup DOMAIN more
        /\ \A k \in DOMAIN cache \cup DOMAIN more :
             Extended(cache, more)[k] = IF k \in DOMAIN more THEN more[k] ELSE cache[k]
    BY <1>1, <1>2, <1>3, ExtendedTyped
  <2> QED BY <1>3, <2>1
<1>5. CacheHolds'
  <2>1. \A k \in captured : k \in DOMAIN cache /\ cache[k] = Network[k] /\ k \notin DOMAIN more
    BY <1>1 DEF IInv, CacheHolds, Missing
  <2> QED BY <1>4, <2>1 DEF CacheHolds, passVars
<1>6. requested' \subseteq Key /\ unknown' = unknown /\ failure' = failure
  BY DEF Served, IInv, Typed
<1>7. ASSUME ~Void' PROVE ~Void /\ \A k \in ks : k \in own \/ k \in captured
  <2>1. requested' = requested \cup (ks \ own) /\ requested' \subseteq captured
    BY <1>7 DEF Served, Void, passVars
  <2> QED BY <1>6, <1>7, <2>1 DEF Void
<1> QED BY <1>4, <1>5, <1>6, <1>7

\* A refused lookup makes the pass void.
LEMMA RefusedKeeps ==
    ASSUME IInv, NEW ks, ks \subseteq Key, NEW own, NEW rest \in State,
           Refused(ks, own, rest), UNCHANGED passVars
    PROVE  /\ IsPartial(cache')
           /\ requested' \subseteq Key /\ unknown' \subseteq Key /\ failure' \in BOOLEAN
           /\ CacheHolds'
           /\ Void'
<1>1. CASE failure /\ UNCHANGED sourceVars
  BY <1>1 DEF sourceVars, passVars, IInv, Typed, CacheHolds, Void
<1>2. CASE /\ \E k \in Missing(ks, own), earlier \in SUBSET (ks \ own) :
              /\ requested' = requested \cup earlier \cup {k}
              /\ cache' = Extended(cache, Restriction(rest, Missing(earlier, own) \ {k}))
              /\ unknown' = IF online THEN unknown ELSE unknown \cup {k}
              /\ failure' = online
  <2>1. PICK k \in Missing(ks, own), earlier \in SUBSET (ks \ own) :
              /\ requested' = requested \cup earlier \cup {k}
              /\ cache' = Extended(cache, Restriction(rest, Missing(earlier, own) \ {k}))
              /\ unknown' = IF online THEN unknown ELSE unknown \cup {k}
              /\ failure' = online
    BY <1>2
  <2> DEFINE more == Restriction(rest, Missing(earlier, own) \ {k})
  <2>2. DOMAIN more \subseteq Key /\ DOMAIN more \cap DOMAIN cache = {}
    BY DEF Missing, Restriction
  <2>3. \A y \in DOMAIN more : more[y] \in Shape[y] \cup {Absent}
    BY <2>2, StateEntry DEF Restriction
  <2>4. cache' = Extended(cache, more) /\ IsPartial(cache)
    BY <2>1 DEF IInv, Typed
  <2> HIDE DEF more
  <2>5. /\ IsPartial(cache')
        /\ \A y \in DOMAIN cache : y \in DOMAIN cache' /\ cache'[y] = cache[y]
    <3>1. /\ IsPartial(Extended(cache, more))
          /\ DOMAIN Extended(cache, more) = DOMAIN cache \cup DOMAIN more
          /\ \A y \in DOMAIN cache \cup DOMAIN more :
               Extended(cache, more)[y] = IF y \in DOMAIN more THEN more[y] ELSE cache[y]
      BY <2>2, <2>3, <2>4, ExtendedTyped
    <3> QED BY <2>2, <2>4, <3>1
  <2>6. CacheHolds'
    BY <2>5 DEF IInv, CacheHolds, passVars
  <2>7. k \in Key /\ k \notin captured
    BY DEF IInv, CacheHolds, Missing
  <2>8. Void'
    BY <2>1, <2>7 DEF Void, passVars
  <2>9. requested' \subseteq Key /\ unknown' \subseteq Key /\ failure' \in BOOLEAN
    BY <2>1, <2>7 DEF IInv, Typed
  <2> QED BY <2>5, <2>6, <2>8, <2>9
<1> QED BY <1>1, <1>2 DEF Refused

\* Where the host holds the entry, or the key is local or captured, a run sees
\* the complete ledger.
LEMMA ViewAgrees ==
    ASSUME CacheHolds, StoredAgrees, NEW own, NEW rest,
           \A k \in Key : k \in own /\ k \notin DOMAIN stored => Network[k] = Absent,
           NEW ks, ks \subseteq Key,
           \A k \in ks : k \in DOMAIN stored \/ k \in own \/ k \in captured
    PROVE  \A k \in ks : View(own, rest)[k] = ideal[k]
<1> SUFFICES ASSUME NEW k \in ks PROVE View(own, rest)[k] = ideal[k]
  OBVIOUS
<1>1. CASE k \in DOMAIN stored
  BY <1>1 DEF View, StoredAgrees
<1>2. CASE k \notin DOMAIN stored /\ k \in own
  BY <1>2 DEF View, StoredAgrees
<1>3. CASE k \notin DOMAIN stored /\ k \notin own
  BY <1>3 DEF View, StoredAgrees, CacheHolds
<1> QED BY <1>1, <1>2, <1>3

\* A pass that is not void and goes on is sound.
LEMMA SoundFacts ==
    ASSUME IInv, ~Void, ~over
    PROVE  /\ CacheHolds /\ StoredAgrees /\ LocalFresh /\ RootsStay /\ AccountsHeld
           /\ faithful = TRUE
           /\ ideal \in State
           /\ \A k \in Key : k \in Local /\ k \notin DOMAIN stored => Network[k] = Absent
BY DEF IInv, Sound, LocalFresh, Typed

-----------------------------------------------------------------------------
(* Runs *)

LEMMA RunFacts ==
    ASSUME NEW call \in Call, NEW s \in State
    PROVE  /\ IsOutcome(Run(call, s))
           /\ \A t \in State : SameOn(s, t, Run(call, s).reads) => Run(call, t) = Run(call, s)
           /\ \A k \in Root : k \in DOMAIN Run(call, s).writes => Run(call, s).writes[k] # Absent
BY RunAssumption, RootAssumption

LEMMA ConstructFacts ==
    ASSUME NEW x \in Candidate, NEW s \in State
    PROVE  /\ IsOutcome(Construct(x, s))
           /\ \A t \in State : SameOn(s, t, Construct(x, s).reads) => Construct(x, t) = Construct(x, s)
           /\ \A k \in Root :
                k \in DOMAIN Construct(x, s).writes => Construct(x, s).writes[k] # Absent
           /\ Construct(x, s).ok
                => {InstanceKey[Address[x]], Code[x]} \subseteq DOMAIN Construct(x, s).writes
BY ConstructAssumption, RootAssumption

LEMMA OutcomeFacts ==
    ASSUME NEW run, IsOutcome(run)
    PROVE  /\ run.ok \in BOOLEAN
           /\ run.reads \subseteq Key
           /\ DOMAIN run.writes \subseteq Key
           /\ \A k \in DOMAIN run.writes : run.writes[k] \in Shape[k] \cup {Absent}
           /\ ~run.ok => DOMAIN run.writes = {}
BY DEF IsOutcome

LEMMA OverlayAt ==
    ASSUME NEW s, NEW w, NEW k \in Key
    PROVE  Overlay(s, w)[k] = IF k \in DOMAIN w THEN w[k] ELSE s[k]
BY DEF Overlay

\* The host and the complete ledger take the same writes.
LEMMA StoringAgrees ==
    ASSUME IsPartial(stored), StoredAgrees, NEW seen \in State,
           NEW run, IsOutcome(run),
           \A k \in Kept(run) : k \in DOMAIN run.writes \/ seen[k] = ideal[k]
    PROVE  /\ \A k \in DOMAIN Storing(run, seen) : Storing(run, seen)[k] = Overlay(ideal, run.writes)[k]
           /\ \A k \in Key \ DOMAIN Storing(run, seen) : Overlay(ideal, run.writes)[k] = Network[k]
<1>1. /\ DOMAIN Storing(run, seen) = DOMAIN stored \cup Kept(run) \cup DOMAIN run.writes
      /\ \A k \in DOMAIN Storing(run, seen) :
           Storing(run, seen)[k] = IF k \in DOMAIN run.writes THEN run.writes[k]
                                   ELSE IF k \in Kept(run) THEN seen[k] ELSE stored[k]
  BY StoringTyped
<1>2. DOMAIN Storing(run, seen) \subseteq Key
  BY StoringTyped DEF IsPartial
<1>3. ASSUME NEW k \in DOMAIN Storing(run, seen)
      PROVE  Storing(run, seen)[k] = Overlay(ideal, run.writes)[k]
  <2>1. Overlay(ideal, run.writes)[k] = IF k \in DOMAIN run.writes THEN run.writes[k] ELSE ideal[k]
    BY <1>2, OverlayAt
  <2>2. Storing(run, seen)[k] = IF k \in DOMAIN run.writes THEN run.writes[k]
                                ELSE IF k \in Kept(run) THEN seen[k] ELSE stored[k]
    BY <1>1
  <2>3. k \in DOMAIN stored \/ k \in Kept(run) \/ k \in DOMAIN run.writes
    BY <1>1
  <2> QED BY <2>1, <2>2, <2>3 DEF StoredAgrees
<1>4. ASSUME NEW k \in Key \ DOMAIN Storing(run, seen)
      PROVE  Overlay(ideal, run.writes)[k] = Network[k]
  <2>1. Overlay(ideal, run.writes)[k] = IF k \in DOMAIN run.writes THEN run.writes[k] ELSE ideal[k]
    BY OverlayAt
  <2>2. k \notin DOMAIN run.writes /\ k \notin DOMAIN stored
    BY <1>1
  <2> QED BY <2>1, <2>2 DEF StoredAgrees
<1> QED BY <1>3, <1>4

\* A root the complete ledger lost was lost by the run, which no run does.
LEMMA RootsAfter ==
    ASSUME RootsStay, NEW w, \A k \in Root : k \in DOMAIN w => w[k] # Absent
    PROVE  \A k \in Root : Overlay(ideal, w)[k] = Absent => Network[k] = Absent
<1>1. Root \subseteq Key
  BY ScenarioAssumption, KeyAssumption DEF Root
<1> QED BY <1>1, OverlayAt DEF RootsStay

-----------------------------------------------------------------------------
(* One lemma per action *)

LEMMA InvokeServedKeeps ==
    ASSUME IInv, ~over, NEW call \in Call, InvokeServed(call)
    PROVE  IInv'
<1>1. PICK rest \in Beyond :
        LET seen == View(Local, rest)
            run  == Run(call, seen)
        IN  /\ Served(Lookups(run.reads), Local, rest)
            /\ stored' = Storing(run, seen)
            /\ over' \in (IF run.ok THEN {FALSE} ELSE BOOLEAN)
            /\ ideal' = Overlay(ideal, Ideally(call).writes)
            /\ faithful' = (faithful /\ run = Ideally(call))
            /\ UNCHANGED <<passVars, localVars>>
  BY DEF InvokeServed
<1> DEFINE seen == View(Local, rest)
           run  == Run(call, seen)
<1>2. seen \in State /\ rest \in State /\ IsPartial(stored)
  BY BeyondTyped, ViewTyped DEF IInv, Typed
<1> HIDE DEF seen
<1>3. IsOutcome(run)
  BY <1>2, RunFacts
<1>4. /\ run.ok \in BOOLEAN /\ run.reads \subseteq Key /\ DOMAIN run.writes \subseteq Key
      /\ \A k \in DOMAIN run.writes : run.writes[k] \in Shape[k] \cup {Absent}
      /\ ~run.ok => DOMAIN run.writes = {}
  BY <1>3, OutcomeFacts
<1> HIDE DEF run
<1>5. /\ IsPartial(Storing(run, seen))
      /\ DOMAIN stored \subseteq DOMAIN Storing(run, seen)
  <2>1. IsPartial(Storing(run, seen))
    BY <1>2, <1>3, StoringTyped
  <2>2. DOMAIN Storing(run, seen) = DOMAIN stored \cup Kept(run) \cup DOMAIN run.writes
    BY <1>2, <1>3, StoringTyped
  <2> QED BY <2>1, <2>2
<1>6. /\ Served(Lookups(run.reads), Local, rest)
      /\ stored' = Storing(run, seen)
      /\ over' \in BOOLEAN
      /\ ideal' = Overlay(ideal, Ideally(call).writes)
      /\ faithful' = (faithful /\ run = Ideally(call))
      /\ UNCHANGED passVars /\ UNCHANGED localVars
  BY <1>1 DEF seen, run
<1>7. Lookups(run.reads) \subseteq Key
  BY <1>4 DEF Lookups
<1>8. /\ IsPartial(cache') /\ requested' \subseteq Key
      /\ unknown' = unknown /\ failure' = failure /\ CacheHolds'
      /\ ~Void' => ~Void /\ \A k \in Lookups(run.reads) : k \in Local \/ k \in captured
  BY <1>2, <1>6, <1>7, ServedKeeps
<1>9. ASSUME ~Void' PROVE /\ run = Ideally(call)
                          /\ \A k \in run.reads : seen[k] = ideal[k]
                          /\ ideal \in State
  <2>1. ~Void /\ \A k \in run.reads : k \in DOMAIN stored \/ k \in Local \/ k \in captured
    BY <1>8, <1>9 DEF Lookups
  <2>2. \A k \in run.reads : seen[k] = ideal[k]
    BY <1>4, <2>1, SoundFacts, ViewAgrees DEF seen
  <2>3. ideal \in State
    BY <2>1, SoundFacts
  <2>4. Run(call, ideal) = Run(call, seen)
    BY <1>2, <2>2, <2>3, RunFacts DEF SameOn, run
  <2> QED BY <2>2, <2>3, <2>4 DEF Ideally, run
<1>10. Typed'
  <2>1. ~Void' => ideal' \in State
    BY <1>4, <1>6, <1>9, OverlayTyped
  <2>2. IsPartial(stored')
    BY <1>5, <1>6
  <2>3. faithful' \in BOOLEAN
    BY <1>6 DEF IInv, Typed
  <2> QED BY <1>6, <1>8, <2>1, <2>2, <2>3 DEF IInv, Typed, passVars, localVars
<1>11. ~Void' => faithful'
  BY <1>6, <1>8, <1>9 DEF IInv
<1>12. ASSUME ~Void', ~over' PROVE Sound'
  <2>1. ~Void /\ run = Ideally(call) /\ ideal' = Overlay(ideal, run.writes)
    BY <1>6, <1>8, <1>9, <1>12
  <2>2. StoredAgrees /\ LocalFresh /\ RootsStay /\ AccountsHeld
    BY <2>1, SoundFacts
  <2>3. /\ \A k \in DOMAIN Storing(run, seen) : Storing(run, seen)[k] = ideal'[k]
        /\ \A k \in Key \ DOMAIN Storing(run, seen) : ideal'[k] = Network[k]
    BY <1>2, <1>3, <1>9, <1>12, <2>1, <2>2, StoringAgrees DEF Kept
  <2>4. StoredAgrees'
    BY <1>6, <2>3 DEF StoredAgrees
  <2>5. DOMAIN stored \subseteq DOMAIN stored'
    BY <1>5, <1>6
  <2>6. LocalFresh' /\ AccountsHeld'
    BY <1>6, <2>2, <2>5 DEF LocalFresh, AccountsHeld, Local, localVars
  <2>7. RootsStay'
    <3>1. \A k \in Root : k \in DOMAIN run.writes => run.writes[k] # Absent
      BY <1>2, RunFacts DEF run
    <3> QED BY <2>1, <2>2, <3>1, RootsAfter DEF RootsStay
  <2> QED BY <2>4, <2>6, <2>7 DEF Sound
<1> QED BY <1>8, <1>10, <1>11, <1>12 DEF IInv

\* A step that makes the pass void needs its types only.
LEMMA VoidKeeps ==
    ASSUME IInv, Void', CacheHolds', UNCHANGED passVars,
           IsPartial(cache'), requested' \subseteq Key, unknown' \subseteq Key, failure' \in BOOLEAN,
           IsPartial(stored'), over' \in BOOLEAN, faithful' \in BOOLEAN,
           localAccounts' \subseteq Label, localContracts' \subseteq Contract,
           localCode' \subseteq CodeKey
    PROVE  IInv'
BY DEF IInv, Typed, passVars

LEMMA InvokeRefusedKeeps ==
    ASSUME IInv, ~over, NEW call \in Call, InvokeRefused(call)
    PROVE  IInv'
<1>1. PICK rest \in Beyond : Refused(Lookups(Run(call, View(Local, rest)).reads), Local, rest)
  BY DEF InvokeRefused
<1>2. View(Local, rest) \in State /\ rest \in State
  BY BeyondTyped, ViewTyped DEF IInv, Typed
<1>3. Lookups(Run(call, View(Local, rest)).reads) \subseteq Key
  BY <1>2, RunFacts, OutcomeFacts DEF Lookups
<1>4. UNCHANGED <<passVars, stored, localVars>> /\ over' \in BOOLEAN /\ faithful' \in BOOLEAN
  BY DEF InvokeRefused
<1>5. /\ IsPartial(cache') /\ requested' \subseteq Key /\ unknown' \subseteq Key
      /\ failure' \in BOOLEAN /\ CacheHolds' /\ Void'
  BY <1>1, <1>2, <1>3, <1>4, RefusedKeeps
<1>6. IsPartial(stored') /\ localAccounts' \subseteq Label /\ localContracts' \subseteq Contract
      /\ localCode' \subseteq CodeKey
  <2>1. stored' = stored /\ localAccounts' = localAccounts /\ localContracts' = localContracts
        /\ localCode' = localCode
    BY <1>4 DEF localVars
  <2> QED BY <2>1 DEF IInv, Typed
<1> QED BY <1>4, <1>5, <1>6, VoidKeeps

\* The change of one key, with the new nonces stripped.
LEMMA ToldAgrees ==
    ASSUME NEW run, NEW s \in State, NEW t \in State, IsOutcome(run),
           \A k \in DOMAIN run.writes : s[k] = t[k]
    PROVE  Told(run, s) = Told(run, t)
<1> DEFINE After(u) == [k \in Key |-> IF k \in NonceKey /\ u[k] = Absent THEN Absent
                                     ELSE Overlay(u, run.writes)[k]]
<1>1. \A k \in Key : After(s)[k] = IF k \in NonceKey /\ s[k] = Absent THEN Absent
                                   ELSE IF k \in DOMAIN run.writes THEN run.writes[k] ELSE s[k]
  BY OverlayAt
<1>2. \A k \in Key : After(t)[k] = IF k \in NonceKey /\ t[k] = Absent THEN Absent
                                   ELSE IF k \in DOMAIN run.writes THEN run.writes[k] ELSE t[k]
  BY OverlayAt
<1> DEFINE a == After(s)
           b == After(t)
<1>3. Told(run, s) = [ok |-> run.ok, tree |-> run.tree, changes |-> StateDiff(s, a)]
      /\ Told(run, t) = [ok |-> run.ok, tree |-> run.tree, changes |-> StateDiff(t, b)]
  BY DEF Told
<1> HIDE DEF After, a, b
<1>4. \A k \in Key : (s[k] # a[k] <=> t[k] # b[k]) /\ (s[k] # a[k] => a[k] = b[k])
  <2> SUFFICES ASSUME NEW k \in Key
               PROVE (s[k] # a[k] <=> t[k] # b[k]) /\ (s[k] # a[k] => a[k] = b[k])
    OBVIOUS
  <2>1. CASE k \in DOMAIN run.writes
    BY <1>1, <1>2, <2>1 DEF a, b
  <2>2. CASE k \notin DOMAIN run.writes
    BY <1>1, <1>2, <2>2 DEF a, b
  <2> QED BY <2>1, <2>2
<1>5. {k \in Key : s[k] # a[k]} = {k \in Key : t[k] # b[k]}
  BY <1>4
<1>6. StateDiff(s, a) = StateDiff(t, b)
  BY <1>4, <1>5 DEF StateDiff
<1> QED BY <1>3, <1>6

LEMMA ChildViewTyped ==
    ASSUME IsPartial(stored)
    PROVE  ChildView \in State
<1>1. \A k \in Key : ChildView[k] \in Shape[k] \cup {Absent}
  <2>1. \A k \in DOMAIN stored : stored[k] \in Shape[k] \cup {Absent}
    BY DEF IsPartial
  <2>2. \A k \in Key : Network[k] \in Shape[k] \cup {Absent}
    BY ScenarioAssumption, StateEntry
  <2> QED BY <2>1, <2>2 DEF ChildView
<1>2. \A k \in Key : ChildView[k] \in Entry
  BY <1>1, ShapeEntry
<1>3. ChildView = [k \in Key |-> ChildView[k]]
  BY DEF ChildView
<1>4. ChildView \in [Key -> Entry]
  BY <1>2, <1>3
<1> QED BY <1>1, <1>4, IsState

LEMMA IdealChildViewTyped ==
    ASSUME IsPartial(stored), ideal \in State
    PROVE  IdealChildView \in State
<1>1. ChildView \in State
  BY ChildViewTyped
<1>2. \A k \in Key : IdealChildView[k] \in Shape[k] \cup {Absent}
  <2>1. \A k \in Key : ChildView[k] \in Shape[k] \cup {Absent}
    BY <1>1, StateEntry
  <2>2. \A k \in Key : ideal[k] \in Shape[k] \cup {Absent}
    BY StateEntry
  <2> QED BY <2>1, <2>2 DEF IdealChildView
<1>3. \A k \in Key : IdealChildView[k] \in Entry
  BY <1>2, ShapeEntry
<1>4. IdealChildView = [k \in Key |-> IdealChildView[k]]
  BY DEF IdealChildView
<1>5. IdealChildView \in [Key -> Entry]
  BY <1>3, <1>4
<1> QED BY <1>2, <1>5, IsState

\* A key that is held, local or captured is the same for the child.
LEMMA ChildAgrees ==
    ASSUME StoredAgrees, \A k \in Key : k \in Local /\ k \notin DOMAIN stored => Network[k] = Absent,
           NEW k \in Key, k \in DOMAIN stored \/ k \in Local \/ k \in captured
    PROVE  ChildView[k] = ideal[k]
<1>1. CASE k \in DOMAIN stored
  BY <1>1 DEF ChildView, StoredAgrees
<1>2. CASE k \notin DOMAIN stored /\ k \in captured
  BY <1>2 DEF ChildView, StoredAgrees
<1>3. CASE k \notin DOMAIN stored /\ k \notin captured
  BY <1>3 DEF ChildView, StoredAgrees
<1> QED BY <1>1, <1>2, <1>3

\* What the child looked up, or stored blindly, it could trust.
LEMMA PreviewAnsweredKeeps ==
    ASSUME IInv, ~over, NEW call \in Call, PreviewAnswered(call)
    PROVE  IInv'
<1> DEFINE run == Run(call, ChildView)
           best == Run(call, IdealChildView)
<1>1. PICK rest \in Beyond : Served(Forwards(run), Local, rest)
  BY DEF PreviewAnswered
<1>2. /\ faithful' = (faithful /\ (Informed(run) =>
                          IF TreeMatches(call, run)
                            THEN Told(run, ChildView) = Told(best, IdealChildView)
                            ELSE ~TreeMatches(call, best)))
      /\ UNCHANGED <<passVars, stored, localVars, over, ideal>>
  BY DEF PreviewAnswered
<1>3. ChildView \in State /\ rest \in State /\ IsPartial(stored)
  BY BeyondTyped, ChildViewTyped DEF IInv, Typed
<1>4. IsOutcome(run)
  BY <1>3, RunFacts
<1>5. run.reads \subseteq Key /\ DOMAIN run.writes \subseteq Key
  BY <1>4, OutcomeFacts
<1>6. Forwards(run) \subseteq Key
  BY <1>5 DEF Forwards, Kept
<1>7. /\ IsPartial(cache') /\ requested' \subseteq Key
      /\ unknown' = unknown /\ failure' = failure /\ CacheHolds'
      /\ ~Void' => ~Void /\ \A k \in Forwards(run) : k \in Local \/ k \in captured
  BY <1>1, <1>2, <1>3, <1>6, ServedKeeps
<1>8. ASSUME ~Void', Informed(run) PROVE faithful' = faithful
  <2>1. ~Void /\ \A k \in Forwards(run) : k \in Local \/ k \in captured
    BY <1>7, <1>8
  <2>2. /\ StoredAgrees /\ ideal \in State
        /\ \A k \in Key : k \in Local /\ k \notin DOMAIN stored => Network[k] = Absent
    BY <2>1, SoundFacts
  <2>3. IdealChildView \in State
    BY <1>3, <2>2, IdealChildViewTyped
  <2>4. ASSUME NEW k \in run.reads \cup DOMAIN run.writes
        PROVE  ChildView[k] = IdealChildView[k]
    <3>1. k \in Key
      BY <1>5
    <3>2. CASE k \in NonceKey
      BY <3>1, <3>2 DEF IdealChildView
    <3>3. CASE k \notin NonceKey
      <4>1. k \in DOMAIN stored \/ k \in Local \/ k \in captured
        BY <1>8, <2>1, <3>3 DEF Forwards, Informed
      <4>2. ChildView[k] = ideal[k]
        BY <2>2, <3>1, <4>1, ChildAgrees
      <4> QED BY <3>1, <3>3, <4>2 DEF IdealChildView
    <3> QED BY <3>2, <3>3
  <2>5. best = run
    BY <1>3, <2>3, <2>4, RunFacts DEF SameOn
  <2> HIDE DEF run, best
  <2>6. Told(run, ChildView) = Told(run, IdealChildView)
    BY <1>3, <1>4, <2>3, <2>4, ToldAgrees
  <2> QED BY <1>2, <2>1, <2>5, <2>6, SoundFacts
<1>9. faithful' \in BOOLEAN /\ (~Void' /\ ~Informed(run) => faithful')
  BY <1>2, <1>7 DEF IInv, Typed
<1>10. Typed'
  BY <1>2, <1>7, <1>9 DEF IInv, Typed, passVars, localVars
<1>11. ~Void' /\ ~over' => Sound'
  <2> SUFFICES ASSUME ~Void', ~over' PROVE Sound'
    OBVIOUS
  <2>1. Sound
    BY <1>7 DEF IInv
  <2> QED BY <1>2, <2>1 DEF Sound, StoredAgrees, LocalFresh, RootsStay, AccountsHeld, Local,
                            passVars, localVars
<1>12. ~Void' => faithful'
  BY <1>7, <1>8, <1>9 DEF IInv
<1> QED BY <1>7, <1>10, <1>11, <1>12 DEF IInv

LEMMA PreviewRefusedKeeps ==
    ASSUME IInv, ~over, NEW call \in Call, PreviewRefused(call)
    PROVE  IInv'
<1> DEFINE ks == Forwards(Run(call, ChildView))
<1>1. ChildView \in State /\ IsPartial(stored)
  BY ChildViewTyped DEF IInv, Typed
<1>2. ks \subseteq Key
  BY <1>1, RunFacts, OutcomeFacts DEF Forwards, Kept
<1>3. /\ UNCHANGED <<passVars, stored, localVars, over, ideal>> /\ faithful' = FALSE
      /\ \/ \E rest \in Beyond : Refused(ks, Local, rest)
         \/ /\ unknown \cup Missing(ks, Local) # {}
            /\ unknown' = unknown \cup Missing(ks, Local)
            /\ requested' = requested \cup (ks \ Local)
            /\ UNCHANGED <<cache, failure>>
  BY DEF PreviewRefused
<1> HIDE DEF ks
<1>4. /\ IsPartial(cache') /\ requested' \subseteq Key /\ unknown' \subseteq Key
      /\ failure' \in BOOLEAN /\ CacheHolds' /\ Void'
  <2>1. CASE \E rest \in Beyond : Refused(ks, Local, rest)
    BY <1>2, <1>3, <2>1, BeyondTyped, RefusedKeeps
  <2>2. CASE /\ unknown \cup Missing(ks, Local) # {}
             /\ unknown' = unknown \cup Missing(ks, Local)
             /\ requested' = requested \cup (ks \ Local)
             /\ UNCHANGED <<cache, failure>>
    <3>1. Void'
      BY <2>2 DEF Void
    <3>2. IsPartial(cache') /\ requested' \subseteq Key /\ unknown' \subseteq Key /\ failure' \in BOOLEAN
      BY <1>2, <2>2 DEF IInv, Typed, Missing
    <3>3. CacheHolds'
      BY <1>3, <2>2 DEF IInv, CacheHolds, passVars
    <3> QED BY <3>1, <3>2, <3>3
  <2> QED BY <1>3, <2>1, <2>2
<1>5. UNCHANGED passVars /\ stored' = stored /\ localAccounts' = localAccounts /\ over' = over
      /\ localContracts' = localContracts /\ localCode' = localCode /\ faithful' \in BOOLEAN
  BY <1>3 DEF localVars
<1>6. IsPartial(stored') /\ over' \in BOOLEAN /\ localAccounts' \subseteq Label
      /\ localContracts' \subseteq Contract /\ localCode' \subseteq CodeKey
  BY <1>5 DEF IInv, Typed
<1> QED BY <1>4, <1>5, <1>6, VoidKeeps

LEMMA RootKeys ==
    /\ Root \subseteq Key
    /\ \A l \in Label : AccountKey[l] \in Root
    /\ \A c \in Contract : InstanceKey[c] \in Root
BY ScenarioAssumption, KeyAssumption DEF Root

LEMMA ProbeRefusedKeeps ==
    ASSUME IInv, ~over, NEW k \in Key, ProbeRefused(k)
    PROVE  IInv'
<1>1. PICK rest \in Beyond : Refused(Lookups({k}), Local, rest)
  BY DEF ProbeRefused
<1>2. UNCHANGED passVars /\ over' = TRUE /\ stored' = stored /\ faithful' = faithful
      /\ localAccounts' = localAccounts /\ localContracts' = localContracts /\ localCode' = localCode
  BY DEF ProbeRefused, Panic, localVars
<1>3. Lookups({k}) \subseteq Key
  BY DEF Lookups
<1>4. /\ IsPartial(cache') /\ requested' \subseteq Key /\ unknown' \subseteq Key
      /\ failure' \in BOOLEAN /\ CacheHolds' /\ Void'
  BY <1>1, <1>2, <1>3, BeyondTyped, RefusedKeeps
<1>5. IsPartial(stored') /\ over' \in BOOLEAN /\ faithful' \in BOOLEAN /\ localAccounts' \subseteq Label
      /\ localContracts' \subseteq Contract /\ localCode' \subseteq CodeKey
  BY <1>2 DEF IInv, Typed
<1> QED BY <1>2, <1>4, <1>5, VoidKeeps

\* A probe that leaves the pass sound found what the complete ledger has.
LEMMA ProbeAgrees ==
    ASSUME IInv, ~over, NEW k \in Key, NEW rest \in State,
           Served(Lookups({k}), Local, rest), UNCHANGED passVars, ~Void'
    PROVE  ~Void /\ View(Local, rest)[k] = ideal[k]
<1>1. Lookups({k}) \subseteq Key
  BY DEF Lookups
<1>2. ~Void /\ \A y \in Lookups({k}) : y \in Local \/ y \in captured
  BY <1>1, ServedKeeps
<1>3. \A y \in {k} : y \in DOMAIN stored \/ y \in Local \/ y \in captured
  BY <1>2 DEF Lookups
<1>4. {k} \subseteq Key
  OBVIOUS
<1>5. \A y \in {k} : View(Local, rest)[y] = ideal[y]
  BY <1>2, <1>3, <1>4, SoundFacts, ViewAgrees
<1> QED BY <1>2, <1>5

LEMMA ProbeStores ==
    ASSUME IInv, NEW k \in Key, NEW rest \in State, Probe(k, rest)
    PROVE  /\ IsPartial(stored')
           /\ DOMAIN stored' = DOMAIN stored \cup {k}
           /\ \A y \in DOMAIN stored' :
                stored'[y] = IF y = k THEN View(Local, rest)[k] ELSE stored[y]
<1> DEFINE one == [x \in {k} |-> View(Local, rest)[k]]
<1>1. IsPartial(stored) /\ View(Local, rest) \in State
  BY ViewTyped DEF IInv, Typed
<1>2. DOMAIN one = {k} /\ DOMAIN one \subseteq Key /\ \A y \in DOMAIN one : one[y] = View(Local, rest)[k]
  OBVIOUS
<1>3. \A y \in DOMAIN one : one[y] \in Shape[y] \cup {Absent}
  BY <1>1, <1>2, StateEntry
<1>4. stored' = Extended(stored, one)
  BY DEF Probe
<1> HIDE DEF one
<1>5. /\ IsPartial(Extended(stored, one))
      /\ DOMAIN Extended(stored, one) = DOMAIN stored \cup DOMAIN one
      /\ \A y \in DOMAIN stored \cup DOMAIN one :
           Extended(stored, one)[y] = IF y \in DOMAIN one THEN one[y] ELSE stored[y]
  BY <1>1, <1>2, <1>3, ExtendedTyped
<1> QED BY <1>2, <1>4, <1>5

\* Holding what a probe found.
LEMMA ProbedAgrees ==
    ASSUME IInv, ~over, NEW k \in Key, NEW rest \in State, Probe(k, rest),
           UNCHANGED passVars, ~Void', ideal' = ideal
    PROVE  ~Void /\ View(Local, rest)[k] = ideal[k] /\ StoredAgrees' /\ RootsStay'
<1>1. ~Void /\ View(Local, rest)[k] = ideal[k]
  BY ProbeAgrees DEF Probe
<1>2. StoredAgrees /\ RootsStay
  BY <1>1, SoundFacts
<1>3. /\ DOMAIN stored' = DOMAIN stored \cup {k}
      /\ \A y \in DOMAIN stored' :
           stored'[y] = IF y = k THEN View(Local, rest)[k] ELSE stored[y]
  BY ProbeStores
<1>4. \A y \in DOMAIN stored' : stored'[y] = ideal[y]
  BY <1>1, <1>2, <1>3 DEF StoredAgrees
<1>5. \A y \in Key \ DOMAIN stored' : ideal[y] = Network[y]
  BY <1>2, <1>3 DEF StoredAgrees
<1>6. StoredAgrees'
  BY <1>4, <1>5 DEF StoredAgrees
<1> QED BY <1>1, <1>2, <1>6 DEF RootsStay

\* A probe alone, or before a panic.
LEMMA ProbeKeeps ==
    ASSUME IInv, ~over, NEW k \in Key, NEW rest \in Beyond, Probe(k, rest),
           UNCHANGED <<passVars, localVars, ideal, faithful>>, over' \in BOOLEAN
    PROVE  IInv'
<1>1. rest \in State /\ Lookups({k}) \subseteq Key /\ Served(Lookups({k}), Local, rest)
      /\ UNCHANGED passVars
  BY BeyondTyped DEF Lookups, Probe
<1>2. /\ IsPartial(cache') /\ requested' \subseteq Key
      /\ unknown' = unknown /\ failure' = failure /\ CacheHolds' /\ (~Void' => ~Void)
  BY <1>1, ServedKeeps
<1>3. IsPartial(stored') /\ DOMAIN stored' = DOMAIN stored \cup {k}
  BY <1>1, ProbeStores
<1>4. Typed' /\ (~Void' => faithful')
  BY <1>2, <1>3 DEF IInv, Typed, passVars, localVars
<1>5. ASSUME ~Void' PROVE Sound'
  <2>1. StoredAgrees' /\ RootsStay' /\ LocalFresh /\ AccountsHeld
    BY <1>1, <1>2, <1>5, ProbedAgrees, SoundFacts
  <2> QED BY <1>3, <2>1 DEF Sound, LocalFresh, AccountsHeld, Local, localVars
<1> QED BY <1>2, <1>4, <1>5 DEF IInv

LEMMA LocalAccountKeeps ==
    ASSUME IInv, ~over, NEW l \in Label, LocalAccount(l)
    PROVE  IInv'
<1> DEFINE k == AccountKey[l]
<1>1. k \in Key /\ k \in Root
  BY RootKeys
<1>2. \/ ProbeRefused(k)
      \/ \E rest \in Beyond : Probe(k, rest) /\ Panic
      \/ \E rest \in Beyond :
           /\ Probe(k, rest)
           /\ ~Found(k, rest)
           /\ localAccounts' = localAccounts \cup {l}
           /\ UNCHANGED <<passVars, localContracts, localCode, over, ideal, faithful>>
  BY DEF LocalAccount
<1> HIDE DEF k
<1>3. CASE ProbeRefused(k)
  BY <1>1, <1>3, ProbeRefusedKeeps
<1>4. CASE \E rest \in Beyond : Probe(k, rest) /\ Panic
  BY <1>1, <1>4, ProbeKeeps DEF Panic
<1>5. ASSUME NEW rest \in Beyond, Probe(k, rest), ~Found(k, rest),
             localAccounts' = localAccounts \cup {l},
             UNCHANGED <<passVars, localContracts, localCode, over, ideal, faithful>>
      PROVE  IInv'
  <2>1. rest \in State /\ Lookups({k}) \subseteq Key /\ Served(Lookups({k}), Local, rest)
        /\ UNCHANGED passVars
    BY <1>1, <1>5, BeyondTyped DEF Lookups, Probe
  <2>2. /\ IsPartial(cache') /\ requested' \subseteq Key
        /\ unknown' = unknown /\ failure' = failure /\ CacheHolds' /\ (~Void' => ~Void)
    BY <2>1, ServedKeeps
  <2>3. IsPartial(stored') /\ DOMAIN stored' = DOMAIN stored \cup {k}
    BY <1>1, <1>5, <2>1, ProbeStores
  <2>4. Typed' /\ (~Void' => faithful')
    BY <1>5, <2>2, <2>3 DEF IInv, Typed, passVars
  <2>5. ASSUME ~Void' PROVE Sound'
    <3>1. StoredAgrees' /\ RootsStay' /\ LocalFresh /\ AccountsHeld /\ RootsStay
          /\ View(Local, rest)[k] = ideal[k]
      BY <1>1, <1>5, <2>1, <2>2, <2>5, ProbedAgrees, SoundFacts
    <3>2. Network[k] = Absent
      BY <1>1, <1>5, <3>1 DEF Found, RootsStay
    <3>3. \A y \in Key : Holder[y] = l => Network[y] = Absent
      BY <3>2, OwnershipAssumption DEF k
    <3>4. LocalFresh'
      <4>1. \A y \in Local' : y \in Local \/ (y \in Key /\ Holder[y] = l)
        BY <1>5 DEF Local, Owned
      <4> QED BY <2>3, <3>1, <3>3, <4>1 DEF LocalFresh
    <3>5. AccountsHeld'
      BY <1>5, <2>3, <3>1 DEF AccountsHeld, k
    <3> QED BY <3>1, <3>4, <3>5 DEF Sound
  <2> QED BY <2>2, <2>4, <2>5 DEF IInv
<1> QED BY <1>2, <1>3, <1>4, <1>5

LEMMA FundKeeps ==
    ASSUME IInv, ~over, NEW l \in Label, NEW amount \in Amount, Fund(l, amount)
    PROVE  IInv'
<1> DEFINE k == AccountKey[l]
<1>1. k \in Key
  BY RootKeys
<1>2. CASE ~MayFund(l, amount) /\ Panic /\ UNCHANGED <<stored, sourceVars>>
  BY <1>2 DEF Panic, IInv, Typed, Void, CacheHolds, sourceVars, passVars, localVars
<1>3. ASSUME MayFund(l, amount),
             stored' = [stored EXCEPT ![k] = Holding(stored[k], Sum(stored[k], amount))],
             ideal' = [ideal EXCEPT ![k] =
                          Holding(ideal[k], amount + IF ideal[k] = Absent THEN 0 ELSE Balance(ideal[k]))],
             UNCHANGED <<passVars, sourceVars, localVars, over, faithful>>
      PROVE  IInv'
  <2>1. UNCHANGED passVars /\ UNCHANGED sourceVars /\ UNCHANGED localVars
        /\ over' = over /\ faithful' = faithful /\ (Void' <=> Void)
    BY <1>3 DEF passVars, sourceVars, localVars, Void
  <2> DEFINE v == Holding(stored[k], Sum(stored[k], amount))
  <2>2. amount \in Int /\ amount > 0 /\ Sum(stored[k], amount) <= MaxBalance /\ l \in localAccounts
        /\ MaxBalance \in Nat
    BY <1>3, ScenarioAssumption DEF MayFund, Fits, k
  <2>3. IsPartial(stored)
    BY DEF IInv, Typed
  <2>4. ASSUME k \in DOMAIN stored PROVE v \in Shape[k] /\ v # Absent
    <3>1. CASE stored[k] = Absent
      <4>1. amount \in 0..MaxBalance /\ v = NewAccount(amount)
        BY <2>2, <3>1 DEF Sum, Holding
      <4> QED BY <1>1, <4>1, EntryAssumption, ShapeEntry DEF k
    <3>2. CASE stored[k] # Absent
      <4>1. stored[k] \in Shape[k]
        BY <2>3, <2>4, <3>2 DEF IsPartial
      <4>2. Balance(stored[k]) \in 0..MaxBalance
        BY <4>1, EntryAssumption DEF k
      <4>3. Sum(stored[k], amount) \in 0..MaxBalance
        BY <2>2, <3>2, <4>2 DEF Sum
      <4>4. v = WithBalance(stored[k], Sum(stored[k], amount))
        BY <3>2 DEF Holding
      <4> QED BY <1>1, <4>1, <4>3, <4>4, EntryAssumption, ShapeEntry DEF k
    <3> QED BY <3>1, <3>2
  <2>5. stored' = [y \in DOMAIN stored |-> IF y = k THEN v ELSE stored[y]]
    BY <1>3
  <2> HIDE DEF v, k
  <2>6. IsPartial(stored') /\ DOMAIN stored' = DOMAIN stored
    BY <2>3, <2>4, <2>5 DEF IsPartial
  <2>7. ASSUME ~Void PROVE ideal' \in State /\ Sound'
    <3>1. StoredAgrees /\ LocalFresh /\ RootsStay /\ AccountsHeld /\ ideal \in State
      BY <2>7, SoundFacts
    <3>2. k \in DOMAIN stored /\ stored[k] = ideal[k]
      BY <2>2, <3>1 DEF AccountsHeld, StoredAgrees, k
    <3>3. v = Holding(ideal[k], amount + IF ideal[k] = Absent THEN 0 ELSE Balance(ideal[k]))
      <4>1. CASE stored[k] = Absent
        BY <2>2, <3>2, <4>1 DEF v, Sum
      <4>2. CASE stored[k] # Absent
        <5>1. stored[k] \in Shape[k]
          BY <2>3, <3>2, <4>2 DEF IsPartial
        <5>2. Balance(stored[k]) \in 0..MaxBalance
          BY <5>1, EntryAssumption DEF k
        <5> QED BY <2>2, <3>2, <4>2, <5>2 DEF v, Sum
      <4> QED BY <4>1, <4>2
    <3>4. ideal' = [ideal EXCEPT ![k] = v]
      BY <1>3, <3>3 DEF k
    <3>5. \A y \in Key : ideal'[y] = IF y = k THEN v ELSE ideal[y]
      BY <3>1, <3>4, StateEntry
    <3>6. ideal' \in State
      <4>1. ideal \in [Key -> Entry] /\ \A y \in Key : ideal[y] \in Shape[y] \cup {Absent}
        BY <3>1, StateEntry
      <4>2. v \in Shape[k] /\ v \in Entry
        BY <1>1, <2>4, <3>2, ShapeEntry
      <4>3. ideal' \in [Key -> Entry]
        BY <3>4, <4>1, <4>2
      <4>4. \A y \in Key : ideal'[y] \in Shape[y] \cup {Absent}
        BY <3>5, <4>1, <4>2
      <4> QED BY <4>3, <4>4, IsState
    <3>7. StoredAgrees'
      <4>1. DOMAIN stored \subseteq Key
        BY <2>3 DEF IsPartial
      <4> QED BY <2>5, <2>6, <3>1, <3>2, <3>5, <4>1 DEF StoredAgrees
    <3>8. LocalFresh' /\ AccountsHeld'
      BY <2>1, <2>6, <3>1 DEF LocalFresh, AccountsHeld, Local, localVars
    <3>9. RootsStay'
      BY <2>4, <3>1, <3>2, <3>5, RootKeys DEF RootsStay
    <3> QED BY <3>6, <3>7, <3>8, <3>9 DEF Sound
  <2>8. Typed'
    BY <2>1, <2>6, <2>7 DEF IInv, Typed, passVars, sourceVars, localVars
  <2> QED BY <2>1, <2>7, <2>8 DEF IInv, CacheHolds, passVars, sourceVars
<1> QED BY <1>2, <1>3 DEF Fund

LEMMA DeployRunKeeps ==
    ASSUME IInv, ~over, NEW x \in Candidate, NEW rest \in Beyond, DeployRun(x, rest)
    PROVE  IInv'
<1> DEFINE k == InstanceKey[Address[x]]
           c == Code[x]
           own == Owned(localAccounts, localContracts \cup {Address[x]}, localCode \cup {c})
           seen == View(own, rest)
           run  == Construct(x, seen)
           hidden == [ideal EXCEPT ![c] = seen[c]]
           best == Construct(x, hidden)
<1>1. /\ ~Found(k, rest)
      /\ localContracts' = localContracts \cup {Address[x]}
      /\ localCode' = localCode \cup {c}
      /\ UNCHANGED passVars /\ localAccounts' = localAccounts
      /\ \/ /\ Served(Lookups({k} \cup run.reads), own \ {k}, rest)
            /\ over' = ~run.ok
            /\ stored' = Extended([y \in {k} |-> Absent], Storing(run, seen))
            /\ ideal' = Overlay(ideal, best.writes)
            /\ faithful' = (faithful /\ run = best)
         \/ /\ Refused(Lookups({k} \cup run.reads), own \ {k}, rest)
            /\ over' = TRUE /\ faithful' = FALSE /\ stored' = stored /\ ideal' = ideal
  BY DEF DeployRun
<1>2. k \in Key /\ k \in Root /\ Address[x] \in Contract /\ c \in CodeKey /\ c \in Key
  BY RootKeys, CallAssumption, KeyAssumption
<1>3. rest \in State /\ IsPartial(stored) /\ IsPartial(cache)
  BY BeyondTyped DEF IInv, Typed
<1> HIDE DEF k, c, own
<1>4. seen \in State
  BY <1>3, ViewTyped
<1> HIDE DEF seen
<1>5. /\ IsOutcome(run)
      /\ run.ok => {k, c} \subseteq DOMAIN run.writes
      /\ \A y \in Root : y \in DOMAIN run.writes => run.writes[y] # Absent
      /\ \A t \in State : SameOn(seen, t, run.reads) => Construct(x, t) = run
  BY <1>4, ConstructFacts DEF k, c
<1> HIDE DEF run
<1>6. /\ run.ok \in BOOLEAN /\ run.reads \subseteq Key /\ DOMAIN run.writes \subseteq Key
      /\ \A y \in DOMAIN run.writes : run.writes[y] \in Shape[y] \cup {Absent}
  BY <1>5, OutcomeFacts
<1>7. Lookups({k} \cup run.reads) \subseteq Key
  BY <1>2, <1>6 DEF Lookups
<1>8. localAccounts' \subseteq Label /\ localContracts' \subseteq Contract /\ localCode' \subseteq CodeKey
  BY <1>1, <1>2 DEF IInv, Typed
<1>9. CASE /\ Refused(Lookups({k} \cup run.reads), own \ {k}, rest)
           /\ over' = TRUE /\ faithful' = FALSE /\ stored' = stored
  <2>1. /\ IsPartial(cache') /\ requested' \subseteq Key /\ unknown' \subseteq Key
        /\ failure' \in BOOLEAN /\ CacheHolds' /\ Void'
    BY <1>1, <1>3, <1>7, <1>9, RefusedKeeps
  <2>2. IsPartial(stored') /\ over' \in BOOLEAN /\ faithful' \in BOOLEAN
    BY <1>3, <1>9
  <2> QED BY <1>1, <1>8, <2>1, <2>2, VoidKeeps
<1>10. CASE /\ Served(Lookups({k} \cup run.reads), own \ {k}, rest)
            /\ over' = ~run.ok
            /\ stored' = Extended([y \in {k} |-> Absent], Storing(run, seen))
            /\ ideal' = Overlay(ideal, best.writes)
            /\ faithful' = (faithful /\ run = best)
  <2>1. /\ IsPartial(cache') /\ requested' \subseteq Key
        /\ unknown' = unknown /\ failure' = failure /\ CacheHolds'
        /\ ~Void' => /\ ~Void
                     /\ \A y \in Lookups({k} \cup run.reads) : y \in own \ {k} \/ y \in captured
    BY <1>1, <1>3, <1>7, <1>10, ServedKeeps
  <2> DEFINE after == Storing(run, seen)
  <2>2. IsPartial(after) /\ DOMAIN after = DOMAIN stored \cup Kept(run) \cup DOMAIN run.writes
    <3>1. IsPartial(after)
      BY <1>3, <1>4, <1>5, StoringTyped
    <3>2. DOMAIN after = DOMAIN stored \cup Kept(run) \cup DOMAIN run.writes
      BY <1>3, <1>4, <1>5, StoringTyped
    <3> QED BY <3>1, <3>2
  <2> HIDE DEF after
  <2>3. /\ IsPartial(stored')
        /\ DOMAIN stored' = {k} \cup DOMAIN after
        /\ \A y \in DOMAIN after : stored'[y] = after[y]
    <3> DEFINE one == [y \in {k} |-> Absent]
    <3>1. IsPartial(one) /\ DOMAIN one = {k}
      BY <1>2 DEF IsPartial
    <3>2. DOMAIN after \subseteq Key /\ \A y \in DOMAIN after : after[y] \in Shape[y] \cup {Absent}
      BY <2>2 DEF IsPartial
    <3>3. stored' = Extended(one, after)
      BY <1>10 DEF after
    <3> HIDE DEF one
    <3>4. /\ IsPartial(Extended(one, after))
          /\ DOMAIN Extended(one, after) = DOMAIN one \cup DOMAIN after
          /\ \A y \in DOMAIN one \cup DOMAIN after :
               Extended(one, after)[y] = IF y \in DOMAIN after THEN after[y] ELSE one[y]
      BY <3>1, <3>2, ExtendedTyped
    <3> QED BY <3>1, <3>3, <3>4
  \* What is known of the probe and of the constructor's reads.
  <2>4. ASSUME ~Void'
        PROVE  /\ run = best /\ ideal \in State
               /\ \A y \in run.reads : y = c \/ seen[y] = ideal[y]
               /\ Network[k] = Absent
    <3>1. ~Void /\ \A y \in Lookups({k} \cup run.reads) : y \in own \ {k} \/ y \in captured
      BY <2>1, <2>4
    <3>2. /\ CacheHolds /\ StoredAgrees /\ RootsStay /\ ideal \in State
          /\ \A y \in Key : y \in Local /\ y \notin DOMAIN stored => Network[y] = Absent
      BY <3>1, SoundFacts
    <3>3. View(Local, rest)[k] = ideal[k]
      <4>1. k \in DOMAIN stored \/ k \in captured
        BY <3>1 DEF Lookups
      <4>2. {k} \subseteq Key /\ \A y \in {k} : y \in DOMAIN stored \/ y \in Local \/ y \in captured
        BY <1>2, <4>1
      <4>3. \A y \in {k} : View(Local, rest)[y] = ideal[y]
        BY <3>2, <4>2, ViewAgrees
      <4> QED BY <4>3
    <3>4. ideal[k] = Absent /\ Network[k] = Absent
      BY <1>1, <1>2, <3>2, <3>3 DEF Found, RootsStay
    <3>5. \A y \in Key : Owner[y] = Address[x] => Network[y] = Absent
      BY <1>2, <3>4, OwnershipAssumption DEF k
    <3>6. ASSUME NEW y \in run.reads, y # c PROVE seen[y] = ideal[y]
      <4>1. y \in Key
        BY <1>6
      <4>2. CASE y \in DOMAIN stored
        BY <3>2, <4>1, <4>2 DEF seen, View, StoredAgrees
      <4>3. CASE y \notin DOMAIN stored /\ y \in own
        <5>1. y \in Local \/ Owner[y] = Address[x]
          BY <3>6, <4>3 DEF own, Local, Owned
        <5>2. Network[y] = Absent
          BY <3>2, <3>5, <4>1, <4>3, <5>1
        <5> QED BY <3>2, <4>1, <4>3, <5>2 DEF seen, View, StoredAgrees
      <4>4. CASE y \notin DOMAIN stored /\ y \notin own
        <5>1. y \in captured
          BY <3>1, <3>6, <4>4 DEF Lookups
        <5> QED BY <3>2, <4>1, <4>4, <5>1 DEF seen, View, StoredAgrees, CacheHolds
      <4> QED BY <4>2, <4>3, <4>4
    <3>7. hidden \in State
      <4>1. ideal \in [Key -> Entry] /\ \A y \in Key : ideal[y] \in Shape[y] \cup {Absent}
        BY <3>2, StateEntry
      <4>2. seen[c] \in Entry /\ seen[c] \in Shape[c] \cup {Absent}
        BY <1>2, <1>4, StateEntry
      <4>3. hidden \in [Key -> Entry] /\ \A y \in Key : hidden[y] = IF y = c THEN seen[c] ELSE ideal[y]
        BY <4>1, <4>2
      <4>4. \A y \in Key : hidden[y] \in Shape[y] \cup {Absent}
        BY <4>1, <4>2, <4>3
      <4> QED BY <4>3, <4>4, IsState
    <3>8. \A y \in run.reads : seen[y] = hidden[y]
      BY <1>2, <1>6, <3>2, <3>6, StateEntry
    <3> HIDE DEF hidden
    <3>9. best = run
      BY <1>5, <3>7, <3>8 DEF SameOn
    <3> QED BY <3>2, <3>4, <3>6, <3>9
  <2> HIDE DEF best
  <2>5. over' \in BOOLEAN /\ faithful' \in BOOLEAN
    BY <1>6, <1>10 DEF IInv, Typed
  <2>6. ASSUME ~Void' PROVE ideal' \in State /\ ideal' = Overlay(ideal, run.writes)
    BY <1>6, <1>10, <2>4, <2>6, OverlayTyped
  <2>7. Typed'
    <3>1. /\ online' \in BOOLEAN /\ captured' \subseteq Key
          /\ unknown' \subseteq Key /\ failure' \in BOOLEAN
      BY <1>1, <2>1 DEF IInv, Typed, passVars
    <3> QED BY <1>8, <2>1, <2>3, <2>5, <2>6, <3>1 DEF Typed
  <2>8. ~Void' => faithful'
    BY <1>10, <2>1, <2>4 DEF IInv
  <2>9. ASSUME ~Void', ~over' PROVE Sound'
    <3>1. run.ok /\ {k, c} \subseteq DOMAIN run.writes
      BY <1>5, <1>6, <1>10, <2>9
    <3>2. StoredAgrees /\ LocalFresh /\ RootsStay /\ AccountsHeld
      BY <2>1, <2>9, SoundFacts
    <3>3. DOMAIN stored' = DOMAIN after
      BY <2>2, <2>3, <3>1
    <3>4. StoredAgrees'
      <4>1. \A y \in Kept(run) : y \in DOMAIN run.writes \/ seen[y] = ideal[y]
        BY <2>4, <2>9, <3>1 DEF Kept
      <4>2. /\ \A y \in DOMAIN after : after[y] = Overlay(ideal, run.writes)[y]
            /\ \A y \in Key \ DOMAIN after : Overlay(ideal, run.writes)[y] = Network[y]
        BY <1>3, <1>4, <1>5, <3>2, <4>1, StoringAgrees DEF after
      <4> QED BY <2>3, <2>6, <2>9, <3>3, <4>2 DEF StoredAgrees
    <3>5. RootsStay'
      BY <1>5, <2>6, <2>9, <3>2, RootsAfter DEF RootsStay
    <3>6. \A y \in Key : Owner[y] = Address[x] => Network[y] = Absent
      BY <1>2, <2>4, <2>9, OwnershipAssumption DEF k
    <3>7. LocalFresh'
      <4>1. \A y \in Local' : y \in Local \/ y = c \/ (y \in Key /\ Owner[y] = Address[x])
        BY <1>1 DEF Local, Owned
      <4>2. DOMAIN stored \subseteq DOMAIN stored' /\ c \in DOMAIN stored'
        BY <2>2, <3>1, <3>3
      <4> QED BY <3>2, <3>6, <4>1, <4>2 DEF LocalFresh
    <3>8. AccountsHeld'
      BY <1>1, <2>2, <3>2, <3>3 DEF AccountsHeld
    <3> QED BY <3>4, <3>5, <3>7, <3>8 DEF Sound
  <2> QED BY <2>1, <2>7, <2>8, <2>9 DEF IInv
<1> QED
  <2>1. \/ /\ Served(Lookups({k} \cup run.reads), own \ {k}, rest)
           /\ over' = ~run.ok
           /\ stored' = Extended([y \in {k} |-> Absent], Storing(run, seen))
           /\ ideal' = Overlay(ideal, best.writes)
           /\ faithful' = (faithful /\ run = best)
        \/ /\ Refused(Lookups({k} \cup run.reads), own \ {k}, rest)
           /\ over' = TRUE /\ faithful' = FALSE /\ stored' = stored /\ ideal' = ideal
    BY <1>1
  <2> QED BY <1>9, <1>10, <2>1

LEMMA DeployKeeps ==
    ASSUME IInv, ~over, NEW x \in Candidate, Deploy(x)
    PROVE  IInv'
<1> DEFINE k == InstanceKey[Address[x]]
<1>1. k \in Key
  BY RootKeys, CallAssumption
<1>2. \/ ProbeRefused(k)
      \/ \E rest \in Beyond : Probe(k, rest) /\ Panic
      \/ \E rest \in Beyond : DeployRun(x, rest)
  BY DEF Deploy
<1>3. CASE ProbeRefused(k)
  BY <1>1, <1>3, ProbeRefusedKeeps
<1>4. CASE \E rest \in Beyond : Probe(k, rest) /\ Panic
  BY <1>1, <1>4, ProbeKeeps DEF Panic
<1>5. CASE \E rest \in Beyond : DeployRun(x, rest)
  BY <1>5, DeployRunKeeps
<1> QED BY <1>2, <1>3, <1>4, <1>5

LEMMA ReplaceWasmKeeps ==
    ASSUME IInv, ~over, NEW c \in Contract, NEW code \in CodeKey, ReplaceWasm(c, code)
    PROVE  IInv'
<1> DEFINE k == InstanceKey[c]
<1>1. k \in Key /\ code \in Key /\ k \in Root
  BY RootKeys, KeyAssumption
<1>2. \/ ProbeRefused(k)
      \/ \E rest \in Beyond : Probe(k, rest) /\ Panic
      \/ \E rest \in Beyond :
           LET instance == View(Local, rest)[k] IN
           /\ Found(k, rest)
           /\ Served(Lookups({k}), Local, rest)
           /\ localCode' = localCode \cup {code}
           /\ stored' = Extended(stored, [y \in {k, code} |->
                          IF y = k THEN WithWasm(instance, code) ELSE WasmEntry[code]])
           /\ ideal' = [ideal EXCEPT ![k] = WithWasm(ideal[k], code), ![code] = WasmEntry[code]]
           /\ UNCHANGED <<passVars, localAccounts, localContracts, over, faithful>>
  BY DEF ReplaceWasm
<1>3. CASE ProbeRefused(k)
  BY <1>1, <1>3, ProbeRefusedKeeps
<1>4. CASE \E rest \in Beyond : Probe(k, rest) /\ Panic
  BY <1>1, <1>4, ProbeKeeps DEF Panic
<1>5. ASSUME NEW rest \in Beyond, NEW instance, instance = View(Local, rest)[k],
             Found(k, rest), Served(Lookups({k}), Local, rest),
             localCode' = localCode \cup {code},
             stored' = Extended(stored, [y \in {k, code} |->
                          IF y = k THEN WithWasm(instance, code) ELSE WasmEntry[code]]),
             ideal' = [ideal EXCEPT ![k] = WithWasm(ideal[k], code), ![code] = WasmEntry[code]],
             UNCHANGED <<passVars, localAccounts, localContracts, over, faithful>>
      PROVE  IInv'
  <2>1. rest \in State /\ Lookups({k}) \subseteq Key /\ IsPartial(stored) /\ UNCHANGED passVars
        /\ View(Local, rest) \in State
    BY <1>1, <1>5, BeyondTyped, ViewTyped DEF Lookups, IInv, Typed
  <2>2. /\ IsPartial(cache') /\ requested' \subseteq Key
        /\ unknown' = unknown /\ failure' = failure /\ CacheHolds' /\ (~Void' => ~Void)
    BY <1>5, <2>1, ServedKeeps
  <2>3. instance \in Shape[k]
    BY <1>1, <1>5, <2>1, StateEntry DEF Found
  <2> DEFINE w == WithWasm(instance, code)
             two == [y \in {k, code} |-> IF y = k THEN w ELSE WasmEntry[code]]
  <2>4. w \in Shape[k] /\ WasmEntry[code] \in Shape[code]
    BY <2>3, EntryAssumption
  <2>5. /\ DOMAIN two = {k, code} /\ DOMAIN two \subseteq Key
        /\ \A y \in DOMAIN two : two[y] \in Shape[y] \cup {Absent}
        /\ two[k] = w /\ (code # k => two[code] = WasmEntry[code])
    BY <1>1, <2>4
  <2>6. stored' = Extended(stored, two)
    BY <1>5
  <2> HIDE DEF two, w, k
  <2>7. /\ IsPartial(stored')
        /\ DOMAIN stored' = DOMAIN stored \cup {k, code}
        /\ \A y \in DOMAIN stored' : stored'[y] = IF y \in {k, code} THEN two[y] ELSE stored[y]
    <3>1. /\ IsPartial(Extended(stored, two))
          /\ DOMAIN Extended(stored, two) = DOMAIN stored \cup DOMAIN two
          /\ \A y \in DOMAIN stored \cup DOMAIN two :
               Extended(stored, two)[y] = IF y \in DOMAIN two THEN two[y] ELSE stored[y]
      BY <2>1, <2>5, ExtendedTyped
    <3> QED BY <2>5, <2>6, <3>1
  <2>8. k # code
    BY <1>1, KeyAssumption, ScenarioAssumption DEF k
  <2>9. ASSUME ~Void' PROVE ideal' \in State /\ Sound'
    <3>1. /\ StoredAgrees /\ LocalFresh /\ RootsStay /\ AccountsHeld /\ ideal \in State
          /\ instance = ideal[k]
      BY <1>1, <1>5, <2>1, <2>2, <2>9, ProbeAgrees, SoundFacts
    <3>2. ideal \in [Key -> Entry] /\ \A y \in Key : ideal[y] \in Shape[y] \cup {Absent}
      BY <3>1, StateEntry
    <3>3. ideal' = [ideal EXCEPT ![k] = w, ![code] = WasmEntry[code]]
      BY <1>5, <3>1 DEF w, k
    <3>4. \A y \in Key : ideal'[y] = IF y \in {k, code} THEN two[y] ELSE ideal[y]
      BY <1>1, <2>5, <2>8, <3>2, <3>3
    <3>5. ideal' \in State
      <4>1. w \in Entry /\ WasmEntry[code] \in Entry
        BY <1>1, <2>4, ShapeEntry
      <4>2. ideal' \in [Key -> Entry]
        BY <3>2, <3>3, <4>1
      <4>3. \A y \in Key : ideal'[y] \in Shape[y] \cup {Absent}
        BY <2>5, <3>2, <3>4
      <4> QED BY <4>2, <4>3, IsState
    <3>6. StoredAgrees'
      <4>1. DOMAIN stored \subseteq Key
        BY <2>1 DEF IsPartial
      <4> QED BY <1>1, <2>7, <3>1, <3>4, <4>1 DEF StoredAgrees
    <3>7. LocalFresh'
      <4>1. \A y \in Local' : y \in Local \/ y = code
        BY <1>5 DEF Local, Owned
      <4> QED BY <2>7, <3>1, <4>1 DEF LocalFresh
    <3>8. RootsStay'
      <4>1. two[k] # Absent /\ two[code] # Absent
        BY <1>1, <2>4, <2>5, <2>8, ShapeEntry
      <4> QED BY <3>1, <3>4, <4>1, RootKeys DEF RootsStay
    <3>9. AccountsHeld'
      BY <1>5, <2>7, <3>1 DEF AccountsHeld
    <3> QED BY <3>5, <3>6, <3>7, <3>8, <3>9 DEF Sound
  <2>10. Typed'
    BY <1>5, <2>2, <2>7, <2>9 DEF IInv, Typed, passVars
  <2>11. ~Void' => faithful'
    BY <1>5, <2>2 DEF IInv
  <2> QED BY <2>2, <2>9, <2>10, <2>11 DEF IInv
<1> QED BY <1>2, <1>3, <1>4, <1>5

-----------------------------------------------------------------------------
(* The theorems *)

LEMMA InitIInv == Init => IInv
<1> SUFFICES ASSUME Init PROVE IInv
  OBVIOUS
<1>1. \A k \in Key : Network[k] \in Shape[k] \cup {Absent}
  BY ScenarioAssumption, StateEntry
<1>2. IsPartial(stored) /\ DOMAIN stored = {}
  BY DEF Init, IsPartial
<1>3. captured \subseteq Key
  BY ScenarioAssumption DEF Init
<1>4. IsPartial(cache) /\ CacheHolds
  BY <1>1, <1>3 DEF Init, IsPartial, Restriction, CacheHolds
<1>5. ideal \in State /\ ideal = Network
  BY ScenarioAssumption DEF Init
<1>6. Typed
  BY <1>2, <1>3, <1>4, <1>5 DEF Init, Typed
<1>7. Local = {}
  BY KeyAssumption, ScenarioAssumption DEF Init, Local, Owned
<1>8. Sound
  BY <1>2, <1>5, <1>7, RootKeys DEF Init, Sound, StoredAgrees, LocalFresh, RootsStay, AccountsHeld
<1> QED BY <1>4, <1>6, <1>8 DEF Init, IInv

LEMMA NextIInv == IInv /\ [Next]_vars => IInv'
<1> SUFFICES ASSUME IInv, [Next]_vars PROVE IInv'
  OBVIOUS
<1>1. ASSUME ~over, NEW call \in Call, InvokeServed(call) PROVE IInv'
  BY <1>1, InvokeServedKeeps
<1>2. ASSUME ~over, NEW call \in Call, InvokeRefused(call) PROVE IInv'
  BY <1>2, InvokeRefusedKeeps
<1>3. ASSUME ~over, NEW call \in Call, Preview(call) PROVE IInv'
  BY <1>3, PreviewAnsweredKeeps, PreviewRefusedKeeps DEF Preview
<1>4. ASSUME ~over, NEW l \in Label, LocalAccount(l) PROVE IInv'
  BY <1>4, LocalAccountKeeps
<1>5. ASSUME ~over, NEW l \in Label, NEW amount \in Amount, Fund(l, amount) PROVE IInv'
  BY <1>5, FundKeeps
<1>6. ASSUME ~over, NEW x \in Candidate, Deploy(x) PROVE IInv'
  BY <1>6, DeployKeeps
<1>7. ASSUME ~over, NEW c \in Contract, NEW code \in CodeKey, ReplaceWasm(c, code) PROVE IInv'
  BY <1>7, ReplaceWasmKeeps
<1>8. CASE UNCHANGED vars
  BY <1>8 DEF vars, passVars, sourceVars, localVars, IInv, Typed, CacheHolds, Void, Sound,
              StoredAgrees, LocalFresh, RootsStay, AccountsHeld, Local
<1> QED BY <1>1, <1>2, <1>3, <1>4, <1>5, <1>6, <1>7, <1>8 DEF Next

THEOREM Invariance == Spec => []IInv
<1> QED BY InitIInv, NextIInv, PTL DEF Spec

\* A pass keeps its types; above all, no account ever holds a balance that is
\* out of range.
THEOREM TypeCorrect == Spec => []TypeOK
<1> DEFINE Flag == informed \in BOOLEAN
<1>1. Init => Flag
  BY DEF Init
<1>2. Flag /\ [Next]_vars => Flag'
  <2> SUFFICES ASSUME Flag, [Next]_vars PROVE Flag'
    OBVIOUS
  <2>1. ASSUME NEW call \in Call, PreviewAnswered(call) PROVE informed' \in BOOLEAN
    BY <2>1 DEF PreviewAnswered
  <2>2. ASSUME NEW call \in Call, PreviewRefused(call) PROVE informed' \in BOOLEAN
    BY <2>2 DEF PreviewRefused
  <2>3. CASE UNCHANGED informed
    BY <2>3
  <2>4. UNCHANGED vars => UNCHANGED informed
    BY DEF vars
  <2>5. Next => (\E call \in Call : PreviewAnswered(call) \/ PreviewRefused(call))
                \/ UNCHANGED informed
    BY DEF Next, Preview
  <2> QED BY <2>1, <2>2, <2>3, <2>4, <2>5
<1>3. IInv /\ Flag => TypeOK
  BY DEF IInv, TypeOK
<1> HIDE DEF Flag
<1> QED BY <1>1, <1>2, <1>3, Invariance, PTL DEF Spec

\* A pass that is not void gave the scenario the complete network's answers in
\* calls, constructors, and those previews whose host rolled back no lookup of an
\* unknown key.
THEOREM AnswersFaithful == Spec => []Faithful
<1>1. IInv => Faithful
  BY DEF IInv, Faithful
<1> QED BY <1>1, Invariance, PTL

\* In a pass that is not void the environment and the children of its previews
\* hold the complete network's entries.
THEOREM EnvironmentAgrees == Spec => []Agreement
<1>1. ASSUME IInv PROVE Agreement
  <2> SUFFICES ASSUME ~Void, ~over, NEW k \in Key,
                      k \in DOMAIN stored \/ k \in Local \/ k \in captured
               PROVE  View(Local, Nothing)[k] = ideal[k] /\ ChildView[k] = ideal[k]
    BY DEF Agreement
  <2>1. /\ CacheHolds /\ StoredAgrees
        /\ \A y \in Key : y \in Local /\ y \notin DOMAIN stored => Network[y] = Absent
    BY <1>1, SoundFacts
  <2>2. \A y \in {k} : View(Local, Nothing)[y] = ideal[y]
    BY <2>1, ViewAgrees
  <2>3. ChildView[k] = ideal[k]
    BY <2>1, ChildAgrees
  <2> QED BY <2>2, <2>3
<1> QED BY <1>1, Invariance, PTL
=============================================================================
