--------------------------- MODULE AutoRunnerProofs ---------------------------
(***************************************************************************)
(* Proofs about the automatic runner and its cache file, for any number of *)
(* runners and processes, whatever ids they have, and any crashes.         *)
(*                                                                         *)
(* The argument goes in three layers.  Files: a writer holds a temporary   *)
(* file of its own, with its own capture in it.  Runs: what a runner is    *)
(* about to write or return it has replayed, at a ledger that was current  *)
(* when it looked.  Cache: only such files get to the cache path.          *)
(***************************************************************************)
EXTENDS AutoRunner, TLAPS

-----------------------------------------------------------------------------
(* The invariant *)

\* Where a run has a capture in hand.
WithCapture == {"check", "replay", "verify"} \cup Writing

HasCapture(r) == pc[r] \in WithCapture => fixture[r] \in Bundle

\* The temporary file of a writer, and what is in it.
Held(r) ==
    pc[r] \in Holding =>
        /\ name[r] \in Name /\ temp[name[r]] # Missing
        /\ pc[r] = "sync" => temp[name[r]] = File(fixture[r])
        /\ pc[r] = "rename" => temp[name[r]] = Flushed(File(fixture[r]))

Own(r) == HasCapture(r) /\ Held(r)

Files == Typed /\ (\A r \in Runner : Own(r)) /\ WritersApart

RunState(r) == result[r] = "running" <=> pc[r] # "idle"

\* A capture about to be written, or being returned, passed its replay.
Replayed(r) ==
    /\ pc[r] \in {"verify"} \cup Writing => fixture[r].by = r
    /\ pc[r] \in Writing => ReplayOf(r, fixture[r]) = "Replayed"

\* It is of a ledger served after the run began.
Current(r) ==
    /\ since[r] <= head
    /\ r \notin Offline /\ pc[r] \in {"replay", "verify"} \cup Writing
          => fixture[r].ledger + Lag >= since[r]

Returned(r) ==
    pc[r] = "idle" /\ result[r] \in Succeeded
        => /\ r \notin Offline => fixture[r].ledger + Lag >= since[r]
           /\ ReplayOf(r, fixture[r]) = "Replayed"

Run(r) == RunState(r) /\ Replayed(r) /\ Current(r) /\ Returned(r)

Runs == \A r \in Runner : Run(r)

\* A file the cache path may name.
Sound(f) ==
    f = Missing \/ (f.data = "whole" /\ f.synced /\ ReplayOf(f.bundle.by, f.bundle) = "Replayed")

Cache == (\A f \in CacheFiles : Sound(f)) /\ WriteSurvives

Inv == Files /\ Runs /\ Cache

-----------------------------------------------------------------------------
(* Steps of one runner *)

\* Nothing of the other runs changes.
Only(r) ==
    \A q \in Runner \ {r} :
        /\ pc'[q] = pc[q] /\ result'[q] = result[q] /\ since'[q] = since[q]
        /\ fixture'[q] = fixture[q] /\ name'[q] = name[q]

\* The temporary files of the others are left alone.
OtherFiles(r) ==
    \A q \in Runner \ {r} :
        pc[q] \in Holding => /\ temp'[name[q]] = temp[name[q]]
                             /\ pc'[r] \in Holding => name'[r] # name[q]

RunTyped ==
    /\ head \in Ledger
    /\ pc \in [Runner -> {"idle", "probe", "load", "check", "replay", "capture", "verify",
                          "create", "write", "sync", "rename", "syncDirectory"}]
    /\ result \in [Runner -> {"none", "running", "Failed"} \cup Succeeded]
    /\ since \in [Runner -> Ledger \cup {0}]
    /\ fixture \in [Runner -> Bundle \cup {NoCapture}]
    /\ existed \in [Runner -> BOOLEAN]
    /\ tries \in [Runner -> 0..MaxTries]
    /\ name \in [Runner -> Name \cup {NoName}]
    /\ crashes \in 0..MaxCrashes

FileTyped ==
    /\ counter \in [Process -> 0..(Sequences - 1)]
    /\ temp \in [Name -> FileSet]
    /\ cache \in FileSet
    /\ settled \subseteq Remains

LEMMA TypeParts == Typed <=> RunTyped /\ FileTyped
  BY DEF Typed, RunTyped, FileTyped

LEMMA Constants ==
    /\ MaxTries \in Nat \ {0} /\ Sequences \in Nat \ {0} /\ Lag \in Nat /\ MaxCrashes \in Nat
    /\ ProcessOf \in [Runner -> Process] /\ Ledger \subseteq Nat \ {0}
  BY RunnerAssumption

LEMMA LedgersNat ==
    ASSUME Typed, NEW r \in Runner
    PROVE  since[r] \in Nat /\ head \in Nat
  <1>1. since[r] \in Ledger \cup {0} /\ head \in Ledger BY DEF Typed
  <1>2. \A n \in Ledger : n \in Nat BY Constants
  <1>3. since[r] \in Nat
    <2>1. CASE since[r] \in Ledger BY <1>2, <2>1
    <2>2. CASE since[r] = 0 BY <2>2
    <2> QED BY <1>1, <2>1, <2>2
  <1> QED BY <1>1, <1>2, <1>3

LEMMA NoFile == Missing \in FileSet /\ Missing.data # "whole" /\ Left(Missing) = Missing
  BY DEF FileSet, Missing, Left

LEMMA TornFile == Torn \in FileSet /\ Torn # Missing
  BY DEF FileSet, Missing, Torn

LEMMA NewFile ==
    ASSUME NEW b \in Bundle
    PROVE  /\ File(b) \in FileSet /\ File(b) # Missing
           /\ Flushed(File(b)) = [data |-> "whole", synced |-> TRUE, bundle |-> b]
           /\ Flushed(File(b)) \in FileSet /\ Flushed(File(b)) # Missing
  <1>1. File(b) \in FileSet /\ File(b) # Missing BY DEF FileSet, File, Missing
  <1>2. Flushed(File(b)) = [data |-> "whole", synced |-> TRUE, bundle |-> b]
    BY DEF Flushed, File
  <1>3. Flushed(File(b)) \in FileSet /\ Flushed(File(b)) # Missing
    BY <1>2 DEF FileSet, Missing
  <1> QED BY <1>1, <1>2, <1>3

LEMMA LeftFile ==
    ASSUME NEW f \in FileSet
    PROVE  Left(f) \in FileSet /\ (Sound(f) => Left(f) = f)
  BY NoFile, TornFile DEF Left, Sound

\* A run that fails is at rest and holds nothing.
LEMMA FailRun ==
    ASSUME Typed, NEW r \in Runner, Fail(r), head' = head, crashes' = crashes
    PROVE  /\ RunTyped' /\ Only(r)
           /\ pc'[r] = "idle" /\ result'[r] = "Failed" /\ since'[r] = 0
  <1>1. RunTyped' BY Constants DEF Fail, Goto, Typed, RunTyped
  <1>2. Only(r) BY DEF Fail, Goto, Typed, Only
  <1>3. pc'[r] = "idle" /\ result'[r] = "Failed" /\ since'[r] = 0
    BY DEF Fail, Goto, Typed
  <1> QED BY <1>1, <1>2, <1>3

LEMMA SucceedRun ==
    ASSUME Typed, NEW r \in Runner, NEW how \in Succeeded, Succeed(r, how),
           head' = head, crashes' = crashes
    PROVE  /\ RunTyped' /\ Only(r)
           /\ pc'[r] = "idle" /\ result'[r] = how
           /\ since'[r] = since[r] /\ fixture'[r] = fixture[r]
  <1>1. RunTyped' BY Constants DEF Succeed, Goto, Typed, RunTyped
  <1>2. Only(r) BY DEF Succeed, Goto, Typed, Only
  <1>3. /\ pc'[r] = "idle" /\ result'[r] = how
        /\ since'[r] = since[r] /\ fixture'[r] = fixture[r]
    BY DEF Succeed, Goto, Typed
  <1> QED BY <1>1, <1>2, <1>3

\* A run that goes on with the capture it has.
LEMMA GotoRun ==
    ASSUME Typed, NEW r \in Runner,
           NEW to \in {"load", "replay", "capture", "create", "check", "sync", "rename",
                       "syncDirectory"},
           Goto(r, to), UNCHANGED <<result, since, existed, fixture, tries, name, head, crashes>>
    PROVE  /\ RunTyped' /\ Only(r)
           /\ pc'[r] = to /\ result'[r] = result[r] /\ since'[r] = since[r]
           /\ fixture'[r] = fixture[r] /\ name'[r] = name[r]
  <1>1. RunTyped' BY DEF Goto, Typed, RunTyped
  <1>2. Only(r) BY DEF Goto, Typed, Only
  <1> QED BY <1>1, <1>2 DEF Goto, Typed

LEMMA FilesStep ==
    ASSUME Files, NEW r \in Runner, Typed', Only(r), OtherFiles(r), Own(r)'
    PROVE  Files'
  <1>1. ASSUME NEW q \in Runner \ {r}
        PROVE  Own(q)'
    <2>1. pc'[q] = pc[q] /\ fixture'[q] = fixture[q] /\ name'[q] = name[q] BY DEF Only
    <2>2. Own(q) BY DEF Files
    <2>3. pc[q] \in Holding => temp'[name[q]] = temp[name[q]] BY DEF OtherFiles
    <2>4. HasCapture(q)' BY <2>1, <2>2 DEF Own, HasCapture
    <2>5. Held(q)' BY <2>1, <2>2, <2>3 DEF Own, Held
    <2> QED BY <2>4, <2>5 DEF Own
  <1>2. WritersApart'
    <2> SUFFICES ASSUME NEW p \in Runner, NEW q \in Runner, p # q,
                        pc'[p] \in Holding, pc'[q] \in Holding
                 PROVE  name'[p] # name'[q]
      BY DEF WritersApart
    <2>1. CASE p = r BY <2>1 DEF Only, OtherFiles
    <2>2. CASE q = r BY <2>2 DEF Only, OtherFiles
    <2>3. CASE p # r /\ q # r
      <3>1. pc[p] \in Holding /\ pc[q] \in Holding BY <2>3 DEF Only
      <3>2. name[p] # name[q] BY <3>1 DEF Files, WritersApart
      <3> QED BY <2>3, <3>2 DEF Only
    <2> QED BY <2>1, <2>2, <2>3
  <1> QED BY <1>1, <1>2 DEF Files

LEMMA RunsStep ==
    ASSUME Runs, NEW r \in Runner, Only(r), head' = head, Run(r)'
    PROVE  Runs'
  <1> SUFFICES ASSUME NEW q \in Runner \ {r} PROVE Run(q)'
    BY DEF Runs
  <1>1. /\ pc'[q] = pc[q] /\ result'[q] = result[q] /\ since'[q] = since[q]
        /\ fixture'[q] = fixture[q]
    BY DEF Only
  <1>2. Run(q) BY DEF Runs
  <1> QED BY <1>1, <1>2 DEF Run, RunState, Replayed, Current, Returned

\* Nothing happens to the cache, and r does not report a replacement.
LEMMA CacheStep ==
    ASSUME Cache, NEW r \in Runner, Only(r), UNCHANGED <<cache, settled>>,
           pc'[r] = "idle" => result'[r] \notin {"Created", "Refreshed"}
    PROVE  Cache'
  <1>1. WriteSurvives'
    <2> SUFFICES ASSUME NEW q \in Runner, pc'[q] = "idle",
                        result'[q] \in {"Created", "Refreshed"}, NEW e \in settled
                 PROVE  q \in e.older => e.gone
      BY DEF WriteSurvives
    <2>1. q # r OBVIOUS
    <2>2. pc[q] = "idle" /\ result[q] \in {"Created", "Refreshed"} BY <2>1 DEF Only
    <2> QED BY <2>2 DEF Cache, WriteSurvives
  <1>2. CacheFiles' = CacheFiles BY DEF CacheFiles
  <1> QED BY <1>1, <1>2 DEF Cache

\* A step outside of atomic_write.
LEMMA QuietInv ==
    ASSUME Inv, NEW r \in Runner, RunTyped', Only(r), head' = head, UNCHANGED fileVars,
           pc'[r] \notin Holding, HasCapture(r)', Run(r)',
           pc'[r] = "idle" => result'[r] \notin {"Created", "Refreshed"}
    PROVE  Inv'
  <1>1. Typed' BY TypeParts DEF Inv, Files, FileTyped, Typed, fileVars, RunTyped
  <1>2. OtherFiles(r) BY DEF OtherFiles, fileVars
  <1>3. Own(r)' BY DEF Own, Held
  <1>4. Files' BY <1>1, <1>2, <1>3, FilesStep DEF Inv
  <1>5. Runs' BY RunsStep DEF Inv
  <1>6. Cache' BY CacheStep DEF Inv, fileVars
  <1> QED BY <1>4, <1>5, <1>6 DEF Inv

\* What a run that fails is to the invariant.
LEMMA FailedRun ==
    ASSUME Inv, NEW r \in Runner, Fail(r), UNCHANGED <<head, crashes>>
    PROVE  /\ RunTyped' /\ Only(r) /\ HasCapture(r)' /\ Held(r)' /\ Run(r)'
           /\ pc'[r] = "idle" /\ result'[r] = "Failed"
  <1>1. /\ RunTyped' /\ Only(r)
        /\ pc'[r] = "idle" /\ result'[r] = "Failed" /\ since'[r] = 0
    BY FailRun DEF Inv, Files
  <1>2. head' \in Nat BY Constants DEF Inv, Files, Typed
  <1>3. HasCapture(r)' /\ Held(r)' BY <1>1 DEF HasCapture, Held, WithCapture, Writing, Holding
  <1>4. Run(r)'
    BY <1>1, <1>2 DEF Run, RunState, Replayed, Current, Returned, Writing, Succeeded
  <1> QED BY <1>1, <1>3, <1>4

LEMMA FailInv ==
    ASSUME Inv, NEW r \in Runner, Fail(r), UNCHANGED <<head, crashes, fileVars>>
    PROVE  Inv'
  BY FailedRun, QuietInv DEF Holding

-----------------------------------------------------------------------------
(* The steps of run and run_online *)

LEMMA StartInv ==
    ASSUME Inv, NEW r \in Runner, Start(r)
    PROVE  Inv'
  <1>1. Typed BY DEF Inv, Files
  <1>2. head \in Nat /\ head \in Ledger BY <1>1, Constants DEF Typed
  <1>3. /\ pc'[r] \in {"load", "probe"} /\ result'[r] = "running" /\ since'[r] = head
        /\ fixture'[r] = NoCapture
    BY <1>1 DEF Start, Goto, Typed
  <1>4. RunTyped' BY <1>1, <1>2 DEF Start, Goto, Typed, RunTyped
  <1>5. Only(r) BY <1>1 DEF Start, Goto, Typed, Only
  <1>6. settled' \subseteq Remains
    BY <1>1 DEF Start, Typed, Remains
  <1>7. Typed' BY <1>1, <1>4, <1>6 DEF Start, Typed, RunTyped
  <1>8. OtherFiles(r) BY <1>3 DEF OtherFiles, Start, Holding
  <1>9. Own(r)' BY <1>3 DEF Own, HasCapture, Held, WithCapture, Writing, Holding
  <1>10. Files' BY <1>5, <1>7, <1>8, <1>9, FilesStep DEF Inv
  <1>11. Run(r)'
    BY <1>2, <1>3 DEF Start, Run, RunState, Replayed, Current, Returned, Writing
  <1>12. Runs' BY <1>5, <1>11, RunsStep DEF Inv, Start
  <1>13. ASSUME NEW e \in settled'
         PROVE  \E d \in settled : e.file = d.file /\ e.older = d.older \ {r} /\ e.gone = d.gone
    <2>1. PICK d \in settled : e = [d EXCEPT !.older = @ \ {r}] BY DEF Start
    <2>2. d \in Remains BY <1>1 DEF Typed
    <2> QED BY <2>1, <2>2 DEF Remains
  <1>14. CacheFiles' \subseteq CacheFiles BY <1>13 DEF CacheFiles, Start
  <1>15. WriteSurvives'
    <2> SUFFICES ASSUME NEW q \in Runner, pc'[q] = "idle",
                        result'[q] \in {"Created", "Refreshed"}, NEW e \in settled'
                 PROVE  q \in e.older => e.gone
      BY DEF WriteSurvives
    <2>1. q # r BY <1>3
    <2>2. pc[q] = "idle" /\ result[q] \in {"Created", "Refreshed"} BY <1>5, <2>1 DEF Only
    <2> QED BY <1>13, <2>2 DEF Inv, Cache, WriteSurvives
  <1>16. Cache' BY <1>14, <1>15 DEF Inv, Cache
  <1> QED BY <1>10, <1>12, <1>16 DEF Inv

LEMMA ProbeInv ==
    ASSUME Inv, NEW r \in Runner, Probe(r)
    PROVE  Inv'
  <1>1. Typed /\ Run(r) BY DEF Inv, Files, Runs
  <1>2. /\ pc[r] = "probe" /\ pc'[r] = "load" /\ result'[r] = result[r] /\ since'[r] = since[r]
        /\ head' = head
    BY <1>1 DEF Probe, Goto, Typed
  <1>3. RunTyped' BY <1>1 DEF Probe, Goto, Typed, RunTyped
  <1>4. Only(r) BY <1>1 DEF Probe, Goto, Typed, Only
  <1>5. HasCapture(r)' BY <1>2 DEF HasCapture, WithCapture, Writing
  <1>6. Run(r)'
    BY <1>1, <1>2 DEF Run, RunState, Replayed, Current, Returned, Writing
  <1> QED BY <1>2, <1>3, <1>4, <1>5, <1>6, QuietInv DEF Probe, Holding

LEMMA LoadInv ==
    ASSUME Inv, NEW r \in Runner, Load(r)
    PROVE  Inv'
  <1>1. Typed /\ Run(r) BY DEF Inv, Files, Runs
  <1>2. pc[r] = "load" /\ UNCHANGED <<head, fileVars, crashes>> BY DEF Load
  <1>3. CASE /\ Loadable(r)
             /\ fixture' = [fixture EXCEPT ![r] = cache.bundle]
             /\ Goto(r, IF r \in Offline THEN "replay" ELSE "check")
             /\ UNCHANGED <<result, since, existed, tries, name>>
    <2>1. cache.bundle \in Bundle
      BY <1>1, <1>3 DEF Loadable, Typed, FileSet, Missing, Torn
    <2>2. /\ pc'[r] = IF r \in Offline THEN "replay" ELSE "check"
          /\ fixture'[r] \in Bundle /\ result'[r] = result[r] /\ since'[r] = since[r]
      BY <1>1, <1>3, <2>1 DEF Goto, Typed
    <2>3. RunTyped' BY <1>1, <1>2, <1>3, <2>1 DEF Goto, Typed, RunTyped
    <2>4. Only(r) BY <1>1, <1>3 DEF Goto, Typed, Only
    <2>5. HasCapture(r)' BY <2>2 DEF HasCapture
    <2>6. Run(r)'
      BY <1>1, <1>2, <2>2 DEF Run, RunState, Replayed, Current, Returned, Writing
    <2> QED BY <1>2, <2>2, <2>3, <2>4, <2>5, <2>6, QuietInv DEF Holding
  <1>4. CASE Fail(r) BY <1>2, <1>4, FailInv
  <1>5. CASE /\ Goto(r, "capture")
             /\ UNCHANGED <<result, since, fixture, existed, tries, name>>
    <2>1. /\ RunTyped' /\ Only(r) /\ pc'[r] = "capture"
          /\ result'[r] = result[r] /\ since'[r] = since[r]
      BY <1>1, <1>2, <1>5, GotoRun
    <2>2. HasCapture(r)' BY <2>1 DEF HasCapture, WithCapture, Writing
    <2>3. Run(r)'
      BY <1>1, <1>2, <2>1 DEF Run, RunState, Replayed, Current, Returned, Writing
    <2> QED BY <1>2, <2>1, <2>2, <2>3, QuietInv DEF Holding
  <1> QED BY <1>3, <1>4, <1>5 DEF Load

\* A capture in hand is given up for a new one.
LEMMA RecaptureInv ==
    ASSUME Inv, NEW r \in Runner, pc[r] # "idle", Goto(r, "capture"),
           UNCHANGED <<head, result, since, fixture, existed, tries, name, fileVars, crashes>>
    PROVE  Inv'
  <1>1. Typed /\ Run(r) BY DEF Inv, Files, Runs
  <1>2. /\ RunTyped' /\ Only(r) /\ pc'[r] = "capture"
        /\ result'[r] = result[r] /\ since'[r] = since[r]
    BY <1>1, GotoRun
  <1>3. HasCapture(r)' BY <1>2 DEF HasCapture, WithCapture, Writing
  <1>4. Run(r)' BY <1>1, <1>2 DEF Run, RunState, Replayed, Current, Returned, Writing
  <1> QED BY <1>2, <1>3, <1>4, QuietInv DEF Holding

LEMMA CheckInv ==
    ASSUME Inv, NEW r \in Runner, Check(r)
    PROVE  Inv'
  <1>1. Typed /\ Run(r) /\ Own(r) BY DEF Inv, Files, Runs
  <1>2. pc[r] = "check" /\ UNCHANGED <<head, fileVars, crashes>> BY DEF Check
  <1>3. CASE Fail(r) BY <1>2, <1>3, FailInv
  <1>4. ASSUME NEW n \in Serving \cap Accepts[r],
               Goto(r, IF AnchorMatches(r, n) THEN "replay" ELSE "capture"),
               UNCHANGED <<result, since, fixture, existed, tries, name>>
        PROVE  Inv'
    <2>1. CASE AnchorMatches(r, n)
      <3>1. Goto(r, "replay") BY <1>4, <2>1
      <3>2. /\ RunTyped' /\ Only(r) /\ pc'[r] = "replay"
            /\ result'[r] = result[r] /\ since'[r] = since[r] /\ fixture'[r] = fixture[r]
        BY <1>1, <1>2, <1>4, <3>1, GotoRun
      <3>3. HasCapture(r)' BY <1>1, <1>2, <3>2 DEF Own, HasCapture, WithCapture
      <3>4. fixture[r].ledger + Lag >= since[r]
        <4>1. fixture[r].ledger = n /\ head <= n + Lag BY <2>1 DEF AnchorMatches, Serving
        <4>2. n \in Nat /\ head \in Nat BY <1>1, Constants DEF Serving, Typed
        <4>3. since[r] \in Nat BY <1>1, LedgersNat
        <4>4. since[r] <= head BY <1>1 DEF Run, Current
        <4> QED BY <4>1, <4>2, <4>3, <4>4, Constants
      <3>5. Run(r)'
        BY <1>1, <1>2, <3>2, <3>4 DEF Run, RunState, Replayed, Current, Returned, Writing
      <3> QED BY <1>2, <3>2, <3>3, <3>5, QuietInv DEF Holding
    <2>2. CASE ~AnchorMatches(r, n) BY <1>2, <1>4, <2>2, RecaptureInv
    <2> QED BY <2>1, <2>2
  <1> QED BY <1>3, <1>4 DEF Check

LEMMA ReplayInv ==
    ASSUME Inv, NEW r \in Runner, Replay(r)
    PROVE  Inv'
  <1>1. Typed /\ Run(r) BY DEF Inv, Files, Runs
  <1>2. pc[r] = "replay" /\ UNCHANGED <<head, fileVars, crashes>> BY DEF Replay
  <1>3. CASE Fail(r) BY <1>2, <1>3, FailInv
  <1>4. CASE /\ Goto(r, "capture")
             /\ UNCHANGED <<result, since, fixture, existed, tries, name>>
    BY <1>2, <1>4, RecaptureInv
  <1>5. CASE ReplayOf(r, fixture[r]) = "Replayed" /\ Succeed(r, "Hit")
    <2>1. /\ RunTyped' /\ Only(r) /\ pc'[r] = "idle" /\ result'[r] = "Hit"
          /\ since'[r] = since[r] /\ fixture'[r] = fixture[r]
      BY <1>1, <1>2, <1>5, SucceedRun DEF Succeeded
    <2>2. HasCapture(r)' BY <2>1 DEF HasCapture, WithCapture, Writing
    <2>3. Run(r)'
      BY <1>1, <1>2, <1>5, <2>1 DEF Run, RunState, Replayed, Current, Returned, Writing
    <2> QED BY <1>2, <2>1, <2>2, <2>3, QuietInv DEF Holding
  <1> QED BY <1>3, <1>4, <1>5 DEF Replay

LEMMA CaptureInv ==
    ASSUME Inv, NEW r \in Runner, Capture(r)
    PROVE  Inv'
  <1>1. Typed /\ Run(r) BY DEF Inv, Files, Runs
  <1>2. pc[r] = "capture" /\ UNCHANGED <<head, fileVars, crashes>> BY DEF Capture
  <1>3. CASE Fail(r) BY <1>2, <1>3, FailInv
  <1>4. ASSUME NEW n \in (Serving \cap Accepts[r]) \ Panics[r], NEW found \in Earlier[r],
               fixture' = [fixture EXCEPT ![r] =
                             [ledger |-> n, keys |-> Inventory(r) \cup found \cup Needs[r][n], by |-> r]],
               Goto(r, "verify"),
               UNCHANGED <<result, since, existed, tries, name>>
        PROVE  Inv'
    <2>1. n \in Ledger /\ n \in Nat BY Constants DEF Serving
    <2>2. Inventory(r) \subseteq Key BY <1>1 DEF Inventory, Typed, Bundle, NoCapture
    <2>3. Needs[r][n] \subseteq Key /\ found \subseteq Key BY <2>1, RunnerAssumption
    <2> DEFINE b == [ledger |-> n, keys |-> Inventory(r) \cup found \cup Needs[r][n], by |-> r]
    <2>4. b \in Bundle BY <2>1, <2>2, <2>3 DEF Bundle
    <2>5. b.ledger = n /\ b.by = r OBVIOUS
    <2> HIDE DEF b
    <2>6. fixture' = [fixture EXCEPT ![r] = b] BY <1>4 DEF b
    <2>7. /\ pc'[r] = "verify" /\ fixture'[r] = b
          /\ result'[r] = result[r] /\ since'[r] = since[r]
      BY <1>1, <1>4, <2>6 DEF Goto, Typed
    <2>8. RunTyped' BY <1>1, <1>2, <1>4, <2>4, <2>6 DEF Goto, Typed, RunTyped
    <2>9. Only(r) BY <1>1, <1>4, <2>6 DEF Goto, Typed, Only
    <2>10. HasCapture(r)' BY <2>4, <2>7 DEF HasCapture
    <2>11. fixture'[r].ledger + Lag >= since'[r]
      <3>1. head <= n + Lag BY DEF Serving
      <3>2. since[r] <= head BY <1>1 DEF Run, Current
      <3>3. since[r] \in Nat /\ head \in Nat BY <1>1, LedgersNat
      <3> QED BY <2>1, <2>5, <2>7, <3>1, <3>2, <3>3, Constants
    <2>12. Run(r)'
      BY <1>1, <1>2, <2>5, <2>7, <2>11
      DEF Run, RunState, Replayed, Current, Returned, Writing
    <2> QED BY <1>2, <2>7, <2>8, <2>9, <2>10, <2>12, QuietInv DEF Holding
  <1> QED BY <1>3, <1>4 DEF Capture

LEMMA VerifyInv ==
    ASSUME Inv, NEW r \in Runner, Verify(r)
    PROVE  Inv'
  <1>1. Typed /\ Run(r) /\ Own(r) BY DEF Inv, Files, Runs
  <1>2. pc[r] = "verify" /\ UNCHANGED <<head, counter, temp, cache, crashes>> BY DEF Verify
  <1>3. CASE Fail(r) /\ UNCHANGED settled BY <1>2, <1>3, FailInv DEF fileVars
  <1>4. CASE Verified(r) /\ Succeed(r, "Disabled") /\ UNCHANGED settled
    <2>1. /\ RunTyped' /\ Only(r) /\ pc'[r] = "idle" /\ result'[r] = "Disabled"
          /\ since'[r] = since[r] /\ fixture'[r] = fixture[r]
      BY <1>1, <1>2, <1>4, SucceedRun DEF Succeeded
    <2>2. HasCapture(r)' BY <2>1 DEF HasCapture, WithCapture, Writing
    <2>3. Run(r)'
      BY <1>1, <1>2, <1>4, <2>1
      DEF Run, RunState, Replayed, Current, Returned, Writing, Verified
    <2> QED BY <1>2, <1>4, <2>1, <2>2, <2>3, QuietInv DEF Holding, fileVars
  <1>5. CASE /\ Verified(r) /\ settled' = MadeDirectory /\ Goto(r, "create")
             /\ UNCHANGED <<result, since, fixture, existed, tries, name>>
    <2>1. /\ RunTyped' /\ Only(r) /\ pc'[r] = "create"
          /\ result'[r] = result[r] /\ since'[r] = since[r] /\ fixture'[r] = fixture[r]
      BY <1>1, <1>2, <1>5, GotoRun
    <2>2. HasCapture(r)' BY <1>1, <1>2, <2>1 DEF Own, HasCapture, WithCapture
    <2>3. Run(r)'
      BY <1>1, <1>2, <1>5, <2>1
      DEF Run, RunState, Replayed, Current, Returned, Writing, Verified
    <2>4. /\ Nowhere(FALSE) \in Remains
          /\ Nowhere(FALSE).file = Missing /\ Nowhere(FALSE).older = {}
      BY NoFile DEF Nowhere, Remains
    <2>5. \A e \in settled' : e \in settled \/ e = Nowhere(FALSE)
      BY <1>5 DEF MadeDirectory
    <2>6. FileTyped' BY <1>1, <1>2, <2>4, <2>5 DEF Typed, FileTyped
    <2>7. OtherFiles(r) BY <1>2, <2>1 DEF OtherFiles, Holding
    <2>8. Own(r)' BY <2>1, <2>2 DEF Own, Held, Holding
    <2>9. Files'
      BY <2>1, <2>6, <2>7, <2>8, FilesStep DEF Inv, Typed, RunTyped, FileTyped
    <2>10. Runs' BY <1>2, <2>1, <2>3, RunsStep DEF Inv
    <2>11. \A f \in CacheFiles' : f = Missing \/ f \in CacheFiles
      BY <1>2, <2>4, <2>5 DEF CacheFiles
    <2>12. WriteSurvives'
      <3> SUFFICES ASSUME NEW q \in Runner, pc'[q] = "idle",
                          result'[q] \in {"Created", "Refreshed"}, NEW e \in settled'
                   PROVE  q \in e.older => e.gone
        BY DEF WriteSurvives
      <3>1. q # r BY <2>1
      <3>2. pc[q] = "idle" /\ result[q] \in {"Created", "Refreshed"} BY <2>1, <3>1 DEF Only
      <3> QED BY <2>4, <2>5, <3>2 DEF Inv, Cache, WriteSurvives
    <2> QED BY <2>9, <2>10, <2>11, <2>12 DEF Inv, Cache, Sound
  <1> QED BY <1>3, <1>4, <1>5 DEF Verify

-----------------------------------------------------------------------------
(* The steps of atomic_write *)

\* A step of a writer before the rename.
LEMMA WriterInv ==
    ASSUME Inv, NEW r \in Runner, RunTyped', FileTyped', Only(r), head' = head,
           OtherFiles(r), Own(r)', Run(r)', UNCHANGED <<cache, settled>>,
           pc'[r] = "idle" => result'[r] \notin {"Created", "Refreshed"}
    PROVE  Inv'
  <1>1. Typed' BY DEF Typed, RunTyped, FileTyped
  <1>2. Files' BY <1>1, FilesStep DEF Inv
  <1>3. Runs' BY RunsStep DEF Inv
  <1>4. Cache' BY CacheStep DEF Inv
  <1> QED BY <1>2, <1>3, <1>4 DEF Inv

\* The file of a writer is nobody else's.
LEMMA OwnFile ==
    ASSUME Files, NEW r \in Runner, pc[r] \in Holding, NEW f,
           temp' = [temp EXCEPT ![name[r]] = f], name'[r] = name[r] \/ pc'[r] \notin Holding
    PROVE  OtherFiles(r)
  <1> SUFFICES ASSUME NEW q \in Runner \ {r}, pc[q] \in Holding
               PROVE  /\ temp'[name[q]] = temp[name[q]]
                      /\ pc'[r] \in Holding => name'[r] # name[q]
    BY DEF OtherFiles
  <1>1. name[r] # name[q] BY DEF Files, WritersApart
  <1>2. name[q] \in Name /\ temp \in [Name -> FileSet] BY DEF Files, Own, Held, Typed
  <1> QED BY <1>1, <1>2

LEMMA AbandonInv ==
    ASSUME Inv, NEW r \in Runner, pc[r] \in Holding, Abandon(r),
           UNCHANGED <<head, counter, cache, settled, crashes>>
    PROVE  Inv'
  <1>1. PICK f \in {Missing, Torn} : temp' = [temp EXCEPT ![name[r]] = f] BY DEF Abandon
  <1>2. /\ RunTyped' /\ Only(r) /\ HasCapture(r)' /\ Held(r)' /\ Run(r)'
        /\ pc'[r] = "idle" /\ result'[r] = "Failed"
    BY FailedRun DEF Abandon
  <1>3. f \in FileSet BY NoFile, TornFile
  <1>4. FileTyped' BY <1>1, <1>3 DEF FileTyped, Inv, Files, Typed
  <1>5. OtherFiles(r) BY <1>1, <1>2, OwnFile DEF Inv, Holding
  <1> QED BY <1>2, <1>4, <1>5, WriterInv DEF Own

LEMMA CreateInv ==
    ASSUME Inv, NEW r \in Runner, Create(r)
    PROVE  Inv'
  <1> DEFINE p == ProcessOf[r]
             n == <<Pid[p], counter[p]>>
  <1>1. Typed /\ Run(r) /\ Own(r) BY DEF Inv, Files, Runs
  <1>2. pc[r] = "create" /\ UNCHANGED <<head, cache, settled, crashes>> BY DEF Create
  <1>3. p \in Process /\ n \in Name
    <2>1. p \in Process BY Constants
    <2>2. counter[p] \in 0..(Sequences - 1) BY <1>1, <2>1 DEF Typed
    <2> QED BY <2>1, <2>2 DEF Name
  <1>4. temp \in [Name -> FileSet] BY <1>1 DEF Typed
  <1>5. ASSUME counter' = [counter EXCEPT ![p] = (@ + 1) % Sequences] \/ counter' = counter
        PROVE  counter' \in [Process -> 0..(Sequences - 1)]
    <2>1. counter[p] \in Nat BY <1>1, <1>3, Constants DEF Typed
    <2>2. (counter[p] + 1) % Sequences \in 0..(Sequences - 1) BY <2>1, Constants
    <2> QED BY <1>1, <1>5, <2>2 DEF Typed
  <1>6. CASE /\ counter' = [counter EXCEPT ![p] = (@ + 1) % Sequences]
             /\ Free(n)
             /\ temp' = [temp EXCEPT ![n] = Torn]
             /\ name' = [name EXCEPT ![r] = n]
             /\ Goto(r, "write")
             /\ UNCHANGED <<result, since, fixture, existed, tries>>
    <2> HIDE DEF p, n
    <2>1. /\ pc'[r] = "write" /\ name'[r] = n /\ temp'[n] = Torn
          /\ result'[r] = result[r] /\ since'[r] = since[r] /\ fixture'[r] = fixture[r]
      BY <1>1, <1>3, <1>4, <1>6 DEF Goto, Typed
    <2>2. RunTyped' BY <1>1, <1>2, <1>3, <1>6 DEF Goto, Typed, RunTyped
    <2>3. FileTyped' BY <1>1, <1>2, <1>3, <1>5, <1>6, TornFile DEF Typed, FileTyped
    <2>4. Only(r) BY <1>1, <1>6 DEF Goto, Typed, Only
    <2>5. OtherFiles(r)
      <3> SUFFICES ASSUME NEW q \in Runner \ {r}, pc[q] \in Holding
                   PROVE  temp'[name[q]] = temp[name[q]] /\ n # name[q]
        BY <2>1 DEF OtherFiles
      <3>1. name[q] \in Name /\ temp[name[q]] # Missing BY DEF Inv, Files, Own, Held
      <3>2. n # name[q] BY <1>6, <3>1 DEF Free
      <3> QED BY <1>4, <1>6, <3>1, <3>2
    <2>6. HasCapture(r)' BY <1>1, <1>2, <2>1 DEF Own, HasCapture, WithCapture, Writing
    <2>7. Held(r)' BY <1>3, <2>1, TornFile DEF Held
    <2>8. Run(r)'
      BY <1>1, <1>2, <2>1 DEF Run, RunState, Replayed, Current, Returned, Writing
    <2> QED BY <1>2, <2>1, <2>2, <2>3, <2>4, <2>5, <2>6, <2>7, <2>8, WriterInv DEF Own
  <1>7. CASE /\ MayTry(r)
             /\ counter' = [counter EXCEPT ![p] = (@ + 1) % Sequences]
             /\ tries' = [tries EXCEPT ![r] = @ + 1]
             /\ UNCHANGED <<pc, result, since, fixture, existed, name, temp>>
    <2> HIDE DEF p, n
    <2>1. tries[r] + 1 \in 0..MaxTries
      <3>1. tries[r] \in 0..MaxTries BY <1>1 DEF Typed
      <3> QED BY <1>7, <3>1, Constants DEF MayTry
    <2>2. RunTyped' BY <1>1, <1>2, <1>7, <2>1 DEF Typed, RunTyped
    <2>3. FileTyped' BY <1>1, <1>2, <1>5, <1>7 DEF Typed, FileTyped
    <2>4. Only(r) BY <1>7 DEF Only
    <2>5. OtherFiles(r) BY <1>2, <1>7 DEF OtherFiles, Holding
    <2>6. Own(r)' BY <1>1, <1>7 DEF Own, HasCapture, Held
    <2>7. Run(r)' BY <1>1, <1>2, <1>7 DEF Run, RunState, Replayed, Current, Returned
    <2> QED BY <1>2, <1>7, <2>2, <2>3, <2>4, <2>5, <2>6, <2>7, WriterInv
  <1>8. CASE /\ counter' = [counter EXCEPT ![p] = (@ + 1) % Sequences] \/ counter' = counter
             /\ Fail(r) /\ UNCHANGED temp
    <2> HIDE DEF p, n
    <2>1. /\ RunTyped' /\ Only(r) /\ HasCapture(r)' /\ Held(r)' /\ Run(r)'
          /\ pc'[r] = "idle" /\ result'[r] = "Failed"
      BY <1>2, <1>8, FailedRun
    <2>2. FileTyped' BY <1>1, <1>2, <1>5, <1>8 DEF Typed, FileTyped
    <2>3. OtherFiles(r) BY <1>8, <2>1 DEF OtherFiles, Holding
    <2> QED BY <1>2, <2>1, <2>2, <2>3, WriterInv DEF Own
  <1> QED BY <1>6, <1>7, <1>8 DEF Create

LEMMA WriteInv ==
    ASSUME Inv, NEW r \in Runner, Write(r)
    PROVE  Inv'
  <1>1. Typed /\ Run(r) /\ Own(r) BY DEF Inv, Files, Runs
  <1>2. /\ pc[r] = "write" /\ pc[r] \in Holding
        /\ UNCHANGED <<head, counter, cache, settled, crashes>>
    BY DEF Write, Holding
  <1>3. CASE Abandon(r) BY <1>2, <1>3, AbandonInv
  <1>4. CASE /\ temp' = [temp EXCEPT ![name[r]] = File(fixture[r])]
             /\ Goto(r, "sync")
             /\ UNCHANGED <<result, since, fixture, existed, tries, name>>
    <2>1. /\ RunTyped' /\ Only(r) /\ pc'[r] = "sync" /\ result'[r] = result[r]
          /\ since'[r] = since[r] /\ fixture'[r] = fixture[r] /\ name'[r] = name[r]
      BY <1>1, <1>2, <1>4, GotoRun
    <2>2. fixture[r] \in Bundle
      BY <1>1, <1>2 DEF Own, HasCapture, WithCapture, Writing
    <2>3. name[r] \in Name /\ temp \in [Name -> FileSet] BY <1>1, <1>2 DEF Own, Held, Typed
    <2>4. File(fixture[r]) \in FileSet /\ File(fixture[r]) # Missing BY <2>2, NewFile
    <2>5. FileTyped' BY <1>1, <1>2, <1>4, <2>4 DEF Typed, FileTyped
    <2>6. OtherFiles(r) BY <1>2, <1>4, <2>1, OwnFile DEF Inv
    <2>7. temp'[name[r]] = File(fixture[r]) BY <1>4, <2>3
    <2>8. HasCapture(r)' BY <2>1, <2>2 DEF HasCapture
    <2>9. Held(r)' BY <2>1, <2>3, <2>4, <2>7 DEF Held
    <2>10. Run(r)'
      BY <1>1, <1>2, <2>1 DEF Run, RunState, Replayed, Current, Returned, Writing
    <2> QED BY <1>2, <2>1, <2>5, <2>6, <2>8, <2>9, <2>10, WriterInv DEF Own
  <1> QED BY <1>3, <1>4 DEF Write

LEMMA SyncInv ==
    ASSUME Inv, NEW r \in Runner, Sync(r)
    PROVE  Inv'
  <1>1. Typed /\ Run(r) /\ Own(r) BY DEF Inv, Files, Runs
  <1>2. /\ pc[r] = "sync" /\ pc[r] \in Holding
        /\ UNCHANGED <<head, counter, cache, settled, crashes>>
    BY DEF Sync, Holding
  <1>3. CASE Abandon(r) BY <1>2, <1>3, AbandonInv
  <1>4. CASE /\ temp' = [temp EXCEPT ![name[r]] = Flushed(temp[name[r]])]
             /\ Goto(r, "rename")
             /\ UNCHANGED <<result, since, fixture, existed, tries, name>>
    <2>1. /\ RunTyped' /\ Only(r) /\ pc'[r] = "rename" /\ result'[r] = result[r]
          /\ since'[r] = since[r] /\ fixture'[r] = fixture[r] /\ name'[r] = name[r]
      BY <1>1, <1>2, <1>4, GotoRun
    <2>2. fixture[r] \in Bundle
      BY <1>1, <1>2 DEF Own, HasCapture, WithCapture, Writing
    <2>3. /\ name[r] \in Name /\ temp \in [Name -> FileSet]
          /\ temp[name[r]] = File(fixture[r])
      BY <1>1, <1>2 DEF Own, Held, Typed
    <2> DEFINE f == Flushed(File(fixture[r]))
    <2>4. f \in FileSet /\ f # Missing BY <2>2, NewFile
    <2> HIDE DEF f
    <2>5. temp' = [temp EXCEPT ![name[r]] = f] BY <1>4, <2>3 DEF f
    <2>6. FileTyped' BY <1>1, <1>2, <2>4, <2>5 DEF Typed, FileTyped
    <2>7. OtherFiles(r) BY <1>2, <2>1, <2>5, OwnFile DEF Inv
    <2>8. temp'[name[r]] = f BY <2>3, <2>5
    <2>9. HasCapture(r)' BY <2>1, <2>2 DEF HasCapture
    <2>10. Held(r)' BY <2>1, <2>3, <2>4, <2>8 DEF Held, f
    <2>11. Run(r)'
      BY <1>1, <1>2, <2>1 DEF Run, RunState, Replayed, Current, Returned, Writing
    <2> QED BY <1>2, <2>1, <2>6, <2>7, <2>9, <2>10, <2>11, WriterInv DEF Own
  <1> QED BY <1>3, <1>4 DEF Sync

\* What is renamed over the cache path is whole, flushed and replayed.
LEMMA RenameInv ==
    ASSUME Inv, NEW r \in Runner, Rename(r)
    PROVE  Inv'
  <1>1. Typed /\ Run(r) /\ Own(r) BY DEF Inv, Files, Runs
  <1>2. /\ pc[r] = "rename" /\ pc[r] \in Holding /\ UNCHANGED <<head, counter, crashes>>
    BY DEF Rename, Holding
  <1>3. CASE Abandon(r) /\ UNCHANGED <<cache, settled>> BY <1>2, <1>3, AbandonInv
  <1>4. CASE /\ cache' = temp[name[r]]
             /\ temp' = [temp EXCEPT ![name[r]] = Missing]
             /\ settled' = {[e EXCEPT !.older = @ \cup {r}] : e \in settled}
                             \cup {[file |-> cache', older |-> {}, gone |-> FALSE]}
             /\ Goto(r, "syncDirectory")
             /\ UNCHANGED <<result, since, fixture, existed, tries, name>>
    <2>1. /\ RunTyped' /\ Only(r) /\ pc'[r] = "syncDirectory" /\ result'[r] = result[r]
          /\ since'[r] = since[r] /\ fixture'[r] = fixture[r] /\ name'[r] = name[r]
      BY <1>1, <1>2, <1>4, GotoRun
    <2>2. fixture[r] \in Bundle
      BY <1>1, <1>2 DEF Own, HasCapture, WithCapture, Writing
    <2>3. /\ name[r] \in Name /\ temp \in [Name -> FileSet]
          /\ cache' = Flushed(File(fixture[r]))
      BY <1>1, <1>2, <1>4 DEF Own, Held, Typed
    <2>4. /\ cache' = [data |-> "whole", synced |-> TRUE, bundle |-> fixture[r]]
          /\ cache' \in FileSet
      BY <2>2, <2>3, NewFile
    <2>5. Sound(cache')
      <3>1. fixture[r].by = r /\ ReplayOf(r, fixture[r]) = "Replayed"
        BY <1>1, <1>2 DEF Run, Replayed, Writing
      <3>2. cache'.data = "whole" /\ cache'.synced /\ cache'.bundle = fixture[r] BY <2>4
      <3> QED BY <3>1, <3>2 DEF Sound
    <2>6. ASSUME NEW e \in settled'
          PROVE  /\ e \in Remains
                 /\ \/ e.file = cache' /\ e.older = {}
                    \/ \E d \in settled : /\ e.file = d.file /\ e.older = d.older \cup {r}
                                            /\ e.gone = d.gone
      <3>1. CASE e = [file |-> cache', older |-> {}, gone |-> FALSE] BY <2>4, <3>1 DEF Remains
      <3>2. ASSUME NEW d \in settled, e = [d EXCEPT !.older = @ \cup {r}]
            PROVE  /\ e \in Remains
                   /\ e.file = d.file /\ e.older = d.older \cup {r} /\ e.gone = d.gone
        <4>1. d \in Remains BY <1>1 DEF Typed
        <4> QED BY <3>2, <4>1 DEF Remains
      <3> QED BY <1>4, <3>1, <3>2
    <2>7. FileTyped' BY <1>1, <1>2, <1>4, <2>4, <2>6, NoFile DEF Typed, FileTyped
    <2>8. OtherFiles(r) BY <1>2, <1>4, <2>1, OwnFile DEF Inv
    <2>9. Own(r)'
      BY <2>1, <2>2 DEF Own, HasCapture, Held, Holding
    <2>10. Files'
      BY <2>1, <2>7, <2>8, <2>9, FilesStep DEF Inv, Typed, RunTyped, FileTyped
    <2>11. Run(r)'
      BY <1>1, <1>2, <2>1 DEF Run, RunState, Replayed, Current, Returned, Writing
    <2>12. Runs' BY <1>2, <2>1, <2>11, RunsStep DEF Inv
    <2>13. \A f \in CacheFiles' : Sound(f)
      <3> SUFFICES ASSUME NEW f \in CacheFiles' PROVE f = cache' \/ f \in CacheFiles
        BY <2>5 DEF Inv, Cache
      <3> QED BY <2>6 DEF CacheFiles
    <2>14. WriteSurvives'
      <3> SUFFICES ASSUME NEW q \in Runner, pc'[q] = "idle",
                          result'[q] \in {"Created", "Refreshed"}, NEW e \in settled'
                   PROVE  q \in e.older => e.gone
        BY DEF WriteSurvives
      <3>1. q # r BY <2>1
      <3>2. pc[q] = "idle" /\ result[q] \in {"Created", "Refreshed"} BY <2>1, <3>1 DEF Only
      <3> QED BY <2>6, <3>1, <3>2 DEF Inv, Cache, WriteSurvives
    <2> QED BY <2>10, <2>12, <2>13, <2>14 DEF Inv, Cache, Sound
  <1> QED BY <1>3, <1>4 DEF Rename

LEMMA SyncDirectoryInv ==
    ASSUME Inv, NEW r \in Runner, SyncDirectory(r)
    PROVE  Inv'
  <1>1. Typed /\ Run(r) BY DEF Inv, Files, Runs
  <1>2. pc[r] = "syncDirectory" /\ UNCHANGED <<head, counter, temp, cache, crashes>>
    BY DEF SyncDirectory
  <1>3. CASE Fail(r) /\ UNCHANGED settled BY <1>2, <1>3, FailInv DEF fileVars
  <1>4. CASE settled' = SettledNow /\ Succeed(r, IF existed[r] THEN "Refreshed" ELSE "Created")
    <2>1. PICK how \in {"Created", "Refreshed"} : Succeed(r, how)
      <3>1. CASE existed[r] BY <1>4, <3>1
      <3>2. CASE ~existed[r] BY <1>4, <3>2
      <3> QED BY <3>1, <3>2
    <2>2. how \in Succeeded BY DEF Succeeded
    <2>3. /\ RunTyped' /\ Only(r) /\ pc'[r] = "idle" /\ result'[r] = how
          /\ since'[r] = since[r] /\ fixture'[r] = fixture[r]
      BY <1>1, <1>2, <2>1, <2>2, SucceedRun
    <2>4. \A e \in settled' :
            (e \in settled /\ e.gone) \/ e = [file |-> cache, older |-> {}, gone |-> FALSE]
      BY <1>4 DEF SettledNow
    <2>5. FileTyped'
      <3>1. FileTyped BY <1>1 DEF Typed, FileTyped
      <3>2. ASSUME NEW e \in settled' PROVE e \in Remains
        <4>1. cache \in FileSet BY <3>1 DEF FileTyped
        <4>2. [file |-> cache, older |-> {}, gone |-> FALSE] \in Remains
          BY <4>1 DEF Remains
        <4>3. settled \subseteq Remains BY <3>1 DEF FileTyped
        <4> QED BY <2>4, <4>2, <4>3
      <3> QED BY <1>2, <3>1, <3>2 DEF FileTyped
    <2>6. OtherFiles(r) BY <1>2, <2>3 DEF OtherFiles, Holding
    <2>7. Own(r)' BY <2>3 DEF Own, HasCapture, Held, WithCapture, Writing, Holding
    <2>8. Files'
      BY <2>3, <2>5, <2>6, <2>7, FilesStep DEF Inv, Typed, RunTyped, FileTyped
    <2>9. Run(r)'
      BY <1>1, <1>2, <2>3 DEF Run, RunState, Replayed, Current, Returned, Writing
    <2>10. Runs' BY <1>2, <2>3, <2>9, RunsStep DEF Inv
    <2>11. CacheFiles' \subseteq CacheFiles BY <1>2, <2>4 DEF CacheFiles
    <2>12. WriteSurvives' BY <2>4 DEF WriteSurvives
    <2> QED BY <2>8, <2>10, <2>11, <2>12 DEF Inv, Cache
  <1> QED BY <1>3, <1>4 DEF SyncDirectory

-----------------------------------------------------------------------------
(* Crashes *)

\* The runs of dead processes are over, the others go on.
LEMMA DieRuns ==
    ASSUME Inv, NEW ps \in SUBSET Process, Die(ps)
    PROVE  /\ RunTyped' /\ Runs'
           /\ \A r \in Runner :
                /\ HasCapture(r)'
                /\ ProcessOf[r] \in ps =>
                       /\ pc'[r] = "idle"
                       /\ result'[r] = result[r] \/ result'[r] = "none"
                       /\ result'[r] = result[r] => pc[r] = "idle"
                /\ ProcessOf[r] \notin ps =>
                       /\ pc'[r] = pc[r] /\ result'[r] = result[r]
                       /\ fixture'[r] = fixture[r] /\ name'[r] = name[r]
           /\ counter' \in [Process -> 0..(Sequences - 1)]
  <1>1. Typed BY DEF Inv, Files
  <1>2. head' = head BY DEF Die
  <1>3. RunTyped' BY <1>1, Constants DEF Die, Typed, RunTyped
  <1>4. counter' \in [Process -> 0..(Sequences - 1)] BY <1>1, Constants DEF Die, Typed
  <1>5. ASSUME NEW r \in Runner
        PROVE  /\ HasCapture(r)' /\ Run(r)'
               /\ ProcessOf[r] \in ps =>
                      /\ pc'[r] = "idle"
                      /\ result'[r] = result[r] \/ result'[r] = "none"
                      /\ result'[r] = result[r] => pc[r] = "idle"
               /\ ProcessOf[r] \notin ps =>
                      /\ pc'[r] = pc[r] /\ result'[r] = result[r]
                      /\ fixture'[r] = fixture[r] /\ name'[r] = name[r]
    <2>1. Run(r) /\ Own(r) BY DEF Inv, Runs, Files
    <2>2. CASE ProcessOf[r] \notin ps
      <3>1. /\ pc'[r] = pc[r] /\ result'[r] = result[r] /\ since'[r] = since[r]
            /\ fixture'[r] = fixture[r] /\ name'[r] = name[r]
        BY <2>2 DEF Die
      <3>2. HasCapture(r)' BY <2>1, <3>1 DEF Own, HasCapture
      <3>3. Run(r)'
        BY <1>2, <2>1, <3>1 DEF Run, RunState, Replayed, Current, Returned
      <3> QED BY <2>2, <3>1, <3>2, <3>3
    <2>3. CASE ProcessOf[r] \in ps /\ result[r] = "running"
      <3>1. pc'[r] = "idle" /\ result'[r] = "none" /\ since'[r] = 0 BY <2>3 DEF Die
      <3>2. HasCapture(r)' BY <3>1 DEF HasCapture, WithCapture, Writing
      <3>3. head \in Nat BY <1>1, LedgersNat
      <3>4. Run(r)'
        BY <1>2, <3>1, <3>3
        DEF Run, RunState, Replayed, Current, Returned, Writing, Succeeded
      <3> QED BY <2>3, <3>1, <3>2, <3>4
    <2>4. CASE ProcessOf[r] \in ps /\ result[r] # "running"
      <3>1. /\ pc'[r] = "idle" /\ result'[r] = result[r] /\ since'[r] = since[r]
            /\ fixture'[r] = fixture[r] /\ pc[r] = "idle"
        BY <2>1, <2>4 DEF Die, Run, RunState
      <3>2. HasCapture(r)' BY <3>1 DEF HasCapture, WithCapture, Writing
      <3>3. Run(r)'
        BY <1>2, <2>1, <3>1 DEF Run, RunState, Replayed, Current, Returned
      <3> QED BY <2>4, <3>1, <3>2, <3>3
    <2> QED BY <2>2, <2>3, <2>4
  <1> QED BY <1>3, <1>4, <1>5 DEF Runs

LEMMA KillInv == Inv /\ Kill => Inv'
  <1> SUFFICES ASSUME Inv, Kill PROVE Inv'
    OBVIOUS
  <1>1. PICK p \in Process :
          /\ Die({p})
          /\ temp' = [n \in Name |-> IF n \in Orphans({p}) THEN Torn ELSE temp[n]]
    BY DEF Kill
  <1>2. UNCHANGED <<cache, settled>> BY DEF Kill
  <1>3. /\ RunTyped' /\ Runs'
        /\ \A r \in Runner :
             /\ HasCapture(r)'
             /\ ProcessOf[r] \in {p} =>
                    /\ pc'[r] = "idle"
                    /\ result'[r] = result[r] \/ result'[r] = "none"
                    /\ result'[r] = result[r] => pc[r] = "idle"
             /\ ProcessOf[r] \notin {p} =>
                    /\ pc'[r] = pc[r] /\ result'[r] = result[r]
                    /\ fixture'[r] = fixture[r] /\ name'[r] = name[r]
        /\ counter' \in [Process -> 0..(Sequences - 1)]
    BY <1>1, DieRuns
  <1>4. Typed BY DEF Inv, Files
  <1>5. FileTyped' BY <1>1, <1>2, <1>3, <1>4, TornFile DEF FileTyped, Typed
  <1>6. ASSUME NEW q \in Runner
        PROVE  Own(q)'
    <2>1. CASE ProcessOf[q] \in {p} BY <1>3, <2>1 DEF Own, Held, Holding
    <2>2. CASE ProcessOf[q] \notin {p} /\ pc[q] \notin Holding
      BY <1>3, <2>2 DEF Own, Held, Holding
    <2>3. CASE ProcessOf[q] \notin {p} /\ pc[q] \in Holding
      <3>1. name[q] \notin Orphans({p})
        BY <2>3 DEF Orphans, Inv, Files, WritersApart
      <3>2. Held(q) /\ name[q] \in Name BY <2>3 DEF Inv, Files, Own, Held
      <3>3. temp'[name[q]] = temp[name[q]] BY <1>1, <3>1, <3>2
      <3>4. Held(q)' BY <1>3, <2>3, <3>2, <3>3 DEF Held
      <3> QED BY <1>3, <3>4 DEF Own
    <2> QED BY <2>1, <2>2, <2>3
  <1>7. WritersApart' BY <1>3 DEF Inv, Files, WritersApart, Holding
  <1>8. Typed' BY <1>3, <1>5 DEF Typed, RunTyped, FileTyped
  <1>9. WriteSurvives'
    <2> SUFFICES ASSUME NEW q \in Runner, pc'[q] = "idle",
                        result'[q] \in {"Created", "Refreshed"}, NEW e \in settled
                 PROVE  q \in e.older => e.gone
      BY <1>2 DEF WriteSurvives
    <2>1. pc[q] = "idle" /\ result[q] = result'[q] BY <1>3
    <2> QED BY <2>1 DEF Inv, Cache, WriteSurvives
  <1>10. Cache' BY <1>2, <1>9 DEF Inv, Cache, CacheFiles
  <1> QED BY <1>3, <1>6, <1>7, <1>8, <1>10 DEF Inv, Files

LEMMA PowerFailureInv == Inv /\ PowerFailure => Inv'
  <1> SUFFICES ASSUME Inv, PowerFailure PROVE Inv'
    OBVIOUS
  <1>1. Die(Process) BY DEF PowerFailure
  <1>2. PICK e \in settled, lost \in SUBSET Name :
          /\ cache' = Left(e.file) /\ settled' = {[e EXCEPT !.file = cache']}
          /\ temp' = [n \in Name |-> IF n \in lost \/ temp[n] = Missing THEN Missing ELSE Torn]
    BY DEF PowerFailure
  <1>4. /\ RunTyped' /\ Runs'
        /\ \A r \in Runner : /\ HasCapture(r)' /\ pc'[r] = "idle"
                             /\ result'[r] = result[r] \/ result'[r] = "none"
                             /\ result'[r] = result[r] => pc[r] = "idle"
        /\ counter' \in [Process -> 0..(Sequences - 1)]
    <2>1. \A r \in Runner : ProcessOf[r] \in Process BY Constants
    <2> QED BY <1>1, <2>1, DieRuns
  <1>5. Typed BY DEF Inv, Files
  <1>6. e \in Remains BY <1>5 DEF Typed
  <1>7. cache' \in FileSet /\ Sound(cache') /\ cache' = e.file
    <2>1. Sound(e.file) BY DEF Inv, Cache, CacheFiles
    <2> QED BY <1>2, <1>6, <2>1, LeftFile DEF Remains
  <1>8. settled' = {[file |-> cache', older |-> e.older, gone |-> e.gone]}
    BY <1>2, <1>6 DEF Remains
  <1>9. FileTyped' BY <1>2, <1>4, <1>6, <1>7, <1>8, NoFile, TornFile DEF FileTyped, Remains
  <1>10. Typed' BY <1>4, <1>9 DEF Typed, RunTyped, FileTyped
  <1>11. \A r \in Runner : Own(r)' BY <1>4 DEF Own, Held, Holding
  <1>12. WritersApart' BY <1>4 DEF WritersApart, Holding
  <1>13. \A f \in CacheFiles' : Sound(f) BY <1>7, <1>8 DEF CacheFiles
  <1>14. WriteSurvives'
    <2> SUFFICES ASSUME NEW q \in Runner, result'[q] \in {"Created", "Refreshed"}
                 PROVE  q \in e.older => e.gone
      BY <1>8 DEF WriteSurvives
    <2>1. pc[q] = "idle" /\ result[q] = result'[q] BY <1>4
    <2> QED BY <2>1 DEF Inv, Cache, WriteSurvives
  <1>15. Cache' BY <1>13, <1>14 DEF Cache, Sound
  <1> QED BY <1>4, <1>10, <1>11, <1>12, <1>15 DEF Inv, Files

-----------------------------------------------------------------------------
(* The invariant holds *)

LEMMA InitInv == Init => Inv
  <1> SUFFICES ASSUME Init PROVE Inv
    OBVIOUS
  <1>1. head \in Nat BY Constants DEF Init
  <1>2. Typed
    <2>1. \A gone \in BOOLEAN : Nowhere(gone) \in Remains BY NoFile DEF Nowhere, Remains
    <2> QED BY <2>1, Constants, NoFile DEF Init, Typed
  <1>3. \A r \in Runner : Own(r)
    BY DEF Init, Own, HasCapture, Held, WithCapture, Writing, Holding
  <1>4. WritersApart BY DEF Init, WritersApart, Holding
  <1>5. Runs
    BY <1>1 DEF Init, Runs, Run, RunState, Replayed, Current, Returned, Writing, Succeeded
  <1>6. CacheFiles = {Missing} BY DEF Init, CacheFiles, Nowhere
  <1>7. WriteSurvives BY DEF Init, WriteSurvives
  <1>8. Cache BY <1>6, <1>7 DEF Cache, Sound
  <1> QED BY <1>2, <1>3, <1>4, <1>5, <1>8 DEF Inv, Files

LEMMA CloseLedgerInv == Inv /\ CloseLedger => Inv'
  <1> SUFFICES ASSUME Inv, CloseLedger PROVE Inv'
    OBVIOUS
  <1> USE DEF CloseLedger, runVars, fileVars
  <1>1. Typed /\ Typed' BY DEF Inv, Files, Typed
  <1>2. Files' BY <1>1 DEF Inv, Files, Own, HasCapture, Held, WritersApart
  <1>3. ASSUME NEW r \in Runner
        PROVE  Run(r)'
    <2>1. Run(r) BY DEF Inv, Runs
    <2>2. since[r] \in Nat /\ head \in Nat BY <1>1, LedgersNat
    <2>3. since'[r] <= head' BY <2>1, <2>2 DEF Run, Current
    <2> QED BY <2>1, <2>3 DEF Run, RunState, Replayed, Current, Returned
  <1>4. Cache' BY DEF Inv, Cache, CacheFiles, WriteSurvives
  <1> QED BY <1>2, <1>3, <1>4 DEF Inv, Runs

LEMMA StutterInv == Inv /\ UNCHANGED vars => Inv'
  <1> SUFFICES ASSUME Inv, UNCHANGED vars PROVE Inv'
    OBVIOUS
  <1> USE DEF vars, runVars, fileVars
  <1>1. Files' BY DEF Inv, Files, Typed, Own, HasCapture, Held, WritersApart
  <1>2. Runs' BY DEF Inv, Runs, Run, RunState, Replayed, Current, Returned
  <1>3. Cache' BY DEF Inv, Cache, CacheFiles, WriteSurvives
  <1> QED BY <1>1, <1>2, <1>3 DEF Inv

LEMMA NextInv == Inv /\ [Next]_vars => Inv'
  <1> SUFFICES ASSUME Inv, [Next]_vars PROVE Inv'
    OBVIOUS
  <1>1. ASSUME NEW r \in Runner, Step(r) PROVE Inv'
    BY <1>1, StartInv, ProbeInv, LoadInv, CheckInv, ReplayInv, CaptureInv, VerifyInv,
       CreateInv, WriteInv, SyncInv, RenameInv, SyncDirectoryInv
    DEF Step
  <1> QED BY <1>1, CloseLedgerInv, KillInv, PowerFailureInv, StutterInv DEF Next

LEMMA RunnerInv == Spec => []Inv
  BY InitInv, NextInv, PTL DEF Spec

-----------------------------------------------------------------------------
(* The theorems *)

\* The state is well formed, whatever crashes (run, atomic_write).
THEOREM RunnerTypeOK == Spec => []TypeOK
  <1> DEFINE Manned == crew \in Crews
  <1>1. Init => Manned BY DEF Init
  <1>2. Manned /\ [Next]_vars => Manned' BY DEF Next, vars
  <1>3. Inv /\ Manned => TypeOK BY DEF Inv, Files, TypeOK
  <1> HIDE DEF Manned
  <1> QED BY <1>1, <1>2, <1>3, RunnerInv, PTL DEF Spec

\* No two writers share a temporary file, whatever ids their processes have and
\* however often the counter has wrapped (create_temporary_file).
THEOREM RunnerWritersApart == Spec => []WritersApart
  <1>1. Inv => WritersApart BY DEF Inv, Files
  <1> QED BY <1>1, RunnerInv, PTL

\* The cache path names nothing or a whole, flushed bundle at any time and after
\* any power failure (atomic_write).
THEOREM RunnerCacheWhole == Spec => []CacheWhole
  <1>1. Inv => CacheWhole BY DEF Inv, Cache, Sound, CacheWhole
  <1> QED BY <1>1, RunnerInv, PTL

\* Only captures that passed their strict replay get to the cache path.
THEOREM RunnerCacheReplayed == Spec => []CacheReplayed
  <1>1. Inv => CacheReplayed
    <2> SUFFICES ASSUME Inv, NEW f \in CacheFiles, f.data = "whole"
                 PROVE  ReplayOf(f.bundle.by, f.bundle) = "Replayed"
      BY DEF CacheReplayed
    <2>1. Sound(f) BY DEF Inv, Cache
    <2> QED BY <2>1, NoFile DEF Sound
  <1> QED BY <1>1, RunnerInv, PTL

\* No power failure undoes a replacement a run has reported, except by taking
\* the directory of the cache, which only one that runs made themselves can do.
THEOREM RunnerWriteSurvives == Spec => []WriteSurvives
  <1>1. Inv => WriteSurvives BY DEF Inv, Cache
  <1> QED BY <1>1, RunnerInv, PTL

\* A power failure leaves the cache's directory.
Kept == \A e \in settled : ~e.gone

\* Nothing a power failure may leave is older than a reported replacement.
NothingOlder ==
    \A r \in Runner :
        pc[r] = "idle" /\ result[r] \in {"Created", "Refreshed"}
            => \A e \in settled : r \notin e.older

LEMMA KeptStays ==
    ASSUME Typed, Kept, [Next]_vars
    PROVE  Kept'
  <1>1. CASE UNCHANGED settled BY <1>1 DEF Kept
  <1>2. ASSUME NEW r \in Runner, Start(r) PROVE Kept'
    <2> SUFFICES ASSUME NEW d \in settled PROVE ~[d EXCEPT !.older = @ \ {r}].gone
      BY <1>2 DEF Start, Kept
    <2>1. d \in Remains BY DEF Typed
    <2> QED BY <2>1 DEF Kept, Remains
  <1>3. CASE settled' = MadeDirectory BY <1>3 DEF MadeDirectory, Nowhere, Kept
  <1>4. ASSUME NEW r \in Runner, Rename(r), settled' # settled PROVE Kept'
    <2>1. settled' = {[e EXCEPT !.older = @ \cup {r}] : e \in settled}
                       \cup {[file |-> cache', older |-> {}, gone |-> FALSE]}
      BY <1>4 DEF Rename
    <2>2. ASSUME NEW d \in settled PROVE ~[d EXCEPT !.older = @ \cup {r}].gone
      <3>1. d \in Remains BY DEF Typed
      <3> QED BY <3>1 DEF Kept, Remains
    <2>3. SUFFICES ASSUME NEW e \in settled' PROVE ~e.gone BY DEF Kept
    <2>4. CASE e = [file |-> cache', older |-> {}, gone |-> FALSE] BY <2>4
    <2>5. CASE \E d \in settled : e = [d EXCEPT !.older = @ \cup {r}] BY <2>2, <2>5
    <2> QED BY <2>1, <2>3, <2>4, <2>5
  <1>5. CASE settled' = SettledNow BY <1>5 DEF SettledNow, Kept
  <1>6. CASE PowerFailure
    <2>1. PICK e \in settled : settled' = {[e EXCEPT !.file = cache']} BY <1>6 DEF PowerFailure
    <2>2. e \in Remains BY DEF Typed
    <2> QED BY <2>1, <2>2 DEF Kept, Remains
  <1>7. ASSUME NEW r \in Runner, Step(r), ~Start(r), ~Rename(r)
        PROVE  UNCHANGED settled \/ settled' = MadeDirectory \/ settled' = SettledNow
    BY <1>7
    DEF Step, Probe, Load, Check, Replay, Capture, Verify, Create, Write, Sync, SyncDirectory,
        fileVars
  <1>8. CloseLedger \/ Kill \/ UNCHANGED vars => UNCHANGED settled
    BY DEF CloseLedger, Kill, vars, fileVars
  <1> QED BY <1>1, <1>2, <1>3, <1>4, <1>5, <1>6, <1>7, <1>8 DEF Next

\* Where the cache's directory was there, and on the disk, before the first run,
\* nothing brings back what a run has reported to have replaced (atomic_write).
THEOREM RunnerWriteStays == Spec /\ Kept => []NothingOlder
  <1>1. Inv /\ Kept /\ [Next]_vars => Kept' BY KeptStays DEF Inv, Files
  <1>2. Inv /\ Kept => NothingOlder BY DEF Inv, Cache, WriteSurvives, Kept, NothingOlder
  <1> QED BY <1>1, <1>2, RunnerInv, PTL DEF Spec

\* No run returns a capture its scenario did not replay, or, online, one from
\* before what the network served when the run began (cached_anchor_is_current).
THEOREM RunnerReturnsCurrent == Spec => []ReturnsCurrent
  <1>1. Inv => ReturnsCurrent BY DEF Inv, Runs, Run, Returned, ReturnsCurrent
  <1> QED BY <1>1, RunnerInv, PTL
=============================================================================
