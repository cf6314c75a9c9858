------------------------------ MODULE AutoRunner ------------------------------
(***************************************************************************)
(* The automatic runner and its cache file (src/auto.rs, and atomic_write  *)
(* of src/capture.rs).                                                     *)
(*                                                                         *)
(* Runners share one cache file: threads of one test process, and          *)
(* processes that may have the same process id (containers over one        *)
(* volume, ids used again after a crash).  A runner loads the cache,       *)
(* compares its anchor with the network, replays or captures, and replaces *)
(* the file.  Processes are killed and the machine loses power at any      *)
(* step.                                                                   *)
(*                                                                         *)
(* A sealed capture is a ledger and a set of keys.  A strict replay passes *)
(* when it holds the keys the scenario needs at that ledger (LedgerCapture *)
(* is about how it comes to be).                                           *)
(***************************************************************************)
EXTENDS Integers, FiniteSets

CONSTANTS
    Runner,      \* callers of AutoRunner::run
    Crews,       \* sets of runners that are at work together
    Cached,      \* runners with a cache path
    Refresh,     \* runners told to ignore the cache
    Offline,     \* runners told to stay off the network
    Process,
    ProcessOf,   \* ProcessOf[r]: the process runner r is a thread of
    Pid,         \* Pid[p]: the process id of p
    Ledger,      \* ledgers of the network's history; an anchor names one of them
    Lag,         \* how many ledgers behind the head a node may answer
    Accepts,     \* Accepts[r]: ledgers of a protocol the runner's policy accepts
    Key,
    Needs,       \* Needs[r][n]: keys the scenario touches in a capture at ledger n
    Again,       \* Again[r][n]: keys it touches in a replay, the same unless it
                 \* depends on more than the ledger
    Earlier,     \* Earlier[r]: sets of keys that passes of a capture on other ledgers,
                 \* or on a mixture of them, may have left in its inventory
    Panics,      \* Panics[r]: ledgers at which the scenario panics
    MaxTries,    \* names create_temporary_file tries
    Sequences,   \* numbers of the process-wide counter of temporary names
    MaxCrashes   \* bound on crashes

ASSUME RunnerAssumption ==
    /\ Crews \subseteq SUBSET Runner
    /\ {Cached, Refresh, Offline} \subseteq SUBSET Runner
    /\ ProcessOf \in [Runner -> Process]
    /\ Ledger \subseteq Nat \ {0} /\ Lag \in Nat
    /\ Accepts \in [Runner -> SUBSET Ledger]
    /\ Needs \in [Runner -> [Ledger -> SUBSET Key]]
    /\ Again \in [Runner -> [Ledger -> SUBSET Key]]
    /\ Earlier \in [Runner -> SUBSET SUBSET Key]
    /\ Panics \in [Runner -> SUBSET Ledger]
    /\ {MaxTries, Sequences} \subseteq Nat \ {0} /\ MaxCrashes \in Nat
    /\ Pid \in [Process -> Nat \ {0}]

VARIABLES
    crew,      \* the runners at work, the same throughout
    head,      \* the last ledger the network closed
    pc,        \* pc[r]: where the run of r is
    result,    \* result[r]: how its last run ended, every error being "Failed"
    since,     \* since[r]: head when the run started
    fixture,   \* fixture[r]: the capture in hand, loaded or new
    existed,   \* existed[r]: cache_existed
    tries,     \* tries[r]: names tried
    name,      \* name[r]: the temporary file
    counter,   \* counter[p]: TEMP_FILE_COUNTER
    temp,      \* temp[<<pid, seq>>]: temporary files of the cache's directory
    cache,     \* the file at the cache path
    settled,   \* what a power failure may leave at the cache path: a file, the
               \* runners whose last replacement is newer, and whether the
               \* cache's directory is gone
    crashes

runVars  == <<pc, result, since, fixture, existed, tries, name>>
fileVars == <<counter, temp, cache, settled>>
vars == <<crew, head, runVars, fileVars, crashes>>

NoCapture == [ledger |-> 0, keys |-> {}, by |-> "none"]
Missing   == [data |-> "missing", synced |-> TRUE, bundle |-> NoCapture]
Torn      == [data |-> "torn", synced |-> FALSE, bundle |-> NoCapture]
File(b)   == [data |-> "whole", synced |-> FALSE, bundle |-> b]

\* No cache file, in the cache's directory or for want of it.
Nowhere(gone) == [file |-> Missing, older |-> {}, gone |-> gone]

NoName == <<0, 0>>
Name == {Pid[p] : p \in Process} \X (0..(Sequences - 1))

Init ==
    /\ crew \in Crews
    /\ head \in Ledger
    /\ pc = [r \in Runner |-> "idle"] /\ result = [r \in Runner |-> "none"]
    /\ since = [r \in Runner |-> 0]
    /\ fixture = [r \in Runner |-> NoCapture]
    /\ existed = [r \in Runner |-> FALSE]
    /\ tries = [r \in Runner |-> 0]
    /\ name = [r \in Runner |-> NoName]
    /\ counter = [p \in Process |-> 0]
    /\ temp = [n \in Name |-> Missing]
    /\ cache = Missing
    /\ \E gone \in BOOLEAN : settled = {Nowhere(gone)}
    /\ crashes = 0

-----------------------------------------------------------------------------
(* The network *)

Serving == {n \in Ledger : n <= head /\ head <= n + Lag}

CloseLedger ==
    /\ head + 1 \in Ledger
    /\ head' = head + 1
    /\ UNCHANGED <<runVars, fileVars, crashes>>

-----------------------------------------------------------------------------
(* run, run_online *)

Goto(r, to) == pc' = [pc EXCEPT ![r] = to]

\* The run returns with the capture in hand.
Succeed(r, how) ==
    /\ Goto(r, "idle")
    /\ result' = [result EXCEPT ![r] = how]
    /\ existed' = [existed EXCEPT ![r] = FALSE]
    /\ tries' = [tries EXCEPT ![r] = 0]
    /\ name' = [name EXCEPT ![r] = NoName]
    /\ UNCHANGED <<fixture, since>>

\* The run returns an error; all it held is dropped.
Fail(r) ==
    /\ Goto(r, "idle")
    /\ result' = [result EXCEPT ![r] = "Failed"]
    /\ existed' = [existed EXCEPT ![r] = FALSE]
    /\ tries' = [tries EXCEPT ![r] = 0]
    /\ name' = [name EXCEPT ![r] = NoName]
    /\ fixture' = [fixture EXCEPT ![r] = NoCapture]
    /\ since' = [since EXCEPT ![r] = 0]

\* The cache file is read at all.
Reads(r) == r \in Cached \ Refresh

\* A run of r begins; what it replaced before is nobody's concern any more.
Start(r) ==
    /\ r \in crew
    /\ pc[r] = "idle"
    /\ Goto(r, IF r \in Offline THEN "load" ELSE "probe")
    /\ result' = [result EXCEPT ![r] = "running"]
    /\ since' = [since EXCEPT ![r] = head]
    /\ fixture' = [fixture EXCEPT ![r] = NoCapture]
    /\ settled' = {[e EXCEPT !.older = @ \ {r}] : e \in settled}
    /\ UNCHANGED <<head, existed, tries, name, counter, temp, cache, crashes>>

\* cache_existed is looked up before, and apart from, the load.
Probe(r) ==
    /\ pc[r] = "probe"
    /\ existed' = [existed EXCEPT ![r] = r \in Cached /\ cache # Missing]
    /\ Goto(r, "load")
    /\ UNCHANGED <<head, result, since, fixture, tries, name, fileVars, crashes>>

\* from_file_with_policy accepts a whole bundle of an acceptable protocol.
Loadable(r) == cache.data = "whole" /\ cache.bundle.ledger \in Accepts[r]

\* The file is loaded if there is one; a bad one is an error, never a miss.
Load(r) ==
    /\ pc[r] = "load"
    /\ \/ /\ Reads(r) /\ cache # Missing /\ Loadable(r)
          /\ fixture' = [fixture EXCEPT ![r] = cache.bundle]
          /\ Goto(r, IF r \in Offline THEN "replay" ELSE "check")
          /\ UNCHANGED <<result, since, existed, tries, name>>
       \/ /\ Reads(r) /\ cache # Missing /\ ~Loadable(r)
          /\ Fail(r)
       \/ /\ ~Reads(r) \/ cache = Missing
          /\ r \in Offline                            \* OfflineCacheMissing
          /\ Fail(r)
       \/ /\ ~Reads(r) \/ cache = Missing
          /\ r \notin Offline
          /\ Goto(r, "capture")
          /\ UNCHANGED <<result, since, fixture, existed, tries, name>>
    /\ UNCHANGED <<head, fileVars, crashes>>

\* Mutant: a cached capture of whatever ledger is replayed.
AnyAnchor(r, n) == TRUE

AnchorMatches(r, n) == n = fixture[r].ledger

\* cached_anchor_is_current: an anchor the policy accepts, or an error.
Check(r) ==
    /\ pc[r] = "check"
    /\ \/ \E n \in Serving \cap Accepts[r] :
            /\ Goto(r, IF AnchorMatches(r, n) THEN "replay" ELSE "capture")
            /\ UNCHANGED <<result, since, fixture, existed, tries, name>>
       \/ Fail(r)
    /\ UNCHANGED <<head, fileVars, crashes>>

\* The outcome of a strict replay of a capture.
ReplayOf(r, b) ==
    IF ~(Again[r][b.ledger] \subseteq b.keys) THEN "UnknownLedgerKeys"
    ELSE IF b.ledger \in Panics[r] THEN "ScenarioPanicked"
    ELSE "Replayed"

\* The strict replay of a loaded capture; a key it lacks is captured online.
Replay(r) ==
    /\ pc[r] = "replay"
    /\ LET outcome == ReplayOf(r, fixture[r]) IN
         \/ /\ outcome = "Replayed"
            /\ Succeed(r, "Hit")
         \/ /\ outcome = "UnknownLedgerKeys" /\ r \notin Offline
            /\ Goto(r, "capture")
            /\ UNCHANGED <<result, since, fixture, existed, tries, name>>
         \/ /\ outcome = "UnknownLedgerKeys" /\ r \in Offline
            /\ Fail(r)
         \/ /\ outcome = "ScenarioPanicked"
            /\ Fail(r)
    /\ UNCHANGED <<head, fileVars, crashes>>

\* Mutant: the keys of the cache are thrown away with its values.
ColdInventory(r) == {}

Inventory(r) == fixture[r].keys

\* A capture ends at an anchor served just now (the rest of it is local), or with
\* one of its errors.  What it found before stays in its inventory.
Capture(r) ==
    /\ pc[r] = "capture"
    /\ \/ \E n \in (Serving \cap Accepts[r]) \ Panics[r], found \in Earlier[r] :
            /\ fixture' = [fixture EXCEPT ![r] =
                             [ledger |-> n, keys |-> Inventory(r) \cup found \cup Needs[r][n],
                              by |-> r]]
            /\ Goto(r, "verify")
            /\ UNCHANGED <<result, since, existed, tries, name>>
       \/ Fail(r)
    /\ UNCHANGED <<head, fileVars, crashes>>

\* Mutant: the capture goes to the cache unreplayed.
Unverified(r) == TRUE

Verified(r) == ReplayOf(r, fixture[r]) = "Replayed"

\* The cache's directory is there.
Directory == \E e \in settled : ~e.gone

\* create_dir_all: nothing ever flushes the entry of a new directory in its parent.
MadeDirectory == settled \cup (IF Directory THEN {} ELSE {Nowhere(FALSE)})

\* The new capture has to pass the strict replay before it is written.
Verify(r) ==
    /\ pc[r] = "verify"
    /\ \/ ~Verified(r) /\ Fail(r) /\ UNCHANGED settled
       \/ Verified(r) /\ r \notin Cached /\ Succeed(r, "Disabled") /\ UNCHANGED settled
       \/ /\ Verified(r) /\ r \in Cached
          /\ settled' = MadeDirectory
          /\ Goto(r, "create")
          /\ UNCHANGED <<result, since, fixture, existed, tries, name>>
       \/ Verified(r) /\ r \in Cached /\ Fail(r) /\ UNCHANGED settled
    /\ UNCHANGED <<head, counter, temp, cache, crashes>>

-----------------------------------------------------------------------------
(* atomic_write *)

\* Mutant: a file that is there already is opened as well.
AlwaysFree(n) == TRUE

\* create_new
Free(n) == temp[n] = Missing

\* Mutant: one name too many is tried.
OneMore(r) == tries[r] <= MaxTries

MayTry(r) == tries[r] < MaxTries

\* create_temporary_file tries one name.
Create(r) ==
    LET p == ProcessOf[r]
        n == <<Pid[p], counter[p]>>
    IN  /\ pc[r] = "create"
        /\ \/ /\ MayTry(r)
              /\ counter' = [counter EXCEPT ![p] = (@ + 1) % Sequences]
              /\ \/ /\ Free(n)
                    /\ temp' = [temp EXCEPT ![n] = Torn]
                    /\ name' = [name EXCEPT ![r] = n]
                    /\ Goto(r, "write")
                    /\ UNCHANGED <<result, since, fixture, existed, tries>>
                 \/ /\ ~Free(n)
                    /\ tries' = [tries EXCEPT ![r] = @ + 1]
                    /\ UNCHANGED <<pc, result, since, fixture, existed, name, temp>>
                 \/ Fail(r) /\ UNCHANGED temp
           \/ /\ ~MayTry(r)                  \* temporary name exhaustion
              /\ Fail(r)
              /\ UNCHANGED <<counter, temp>>
        /\ UNCHANGED <<head, cache, settled, crashes>>

\* An error: the temporary file is removed, unless that fails as well.  Nobody
\* looks into a file that is left behind.
Abandon(r) ==
    /\ Fail(r)
    /\ \E f \in {Missing, Torn} : temp' = [temp EXCEPT ![name[r]] = f]

\* write_all; what is on the disk of an unfinished file is anybody's guess.
Write(r) ==
    /\ pc[r] = "write"
    /\ \/ /\ temp' = [temp EXCEPT ![name[r]] = File(fixture[r])]
          /\ Goto(r, "sync")
          /\ UNCHANGED <<result, since, fixture, existed, tries, name>>
       \/ Abandon(r)
    /\ UNCHANGED <<head, counter, cache, settled, crashes>>

\* Mutant: the temporary file is not flushed to the disk.
Unflushed(f) == f

Flushed(f) == [data |-> f.data, synced |-> TRUE, bundle |-> f.bundle]

\* sync_all
Sync(r) ==
    /\ pc[r] = "sync"
    /\ \/ /\ temp' = [temp EXCEPT ![name[r]] = Flushed(temp[name[r]])]
          /\ Goto(r, "rename")
          /\ UNCHANGED <<result, since, fixture, existed, tries, name>>
       \/ Abandon(r)
    /\ UNCHANGED <<head, counter, cache, settled, crashes>>

\* The cache path names the new file from now on; the disk may not know yet.
Rename(r) ==
    /\ pc[r] = "rename"
    /\ \/ /\ cache' = temp[name[r]]
          /\ temp' = [temp EXCEPT ![name[r]] = Missing]
          /\ settled' = {[e EXCEPT !.older = @ \cup {r}] : e \in settled}
                          \cup {[file |-> cache', older |-> {}, gone |-> FALSE]}
          /\ Goto(r, "syncDirectory")
          /\ UNCHANGED <<result, since, fixture, existed, tries, name>>
       \/ Abandon(r) /\ UNCHANGED <<cache, settled>>
    /\ UNCHANGED <<head, counter, crashes>>

\* Mutant: the directory is not flushed.
StillUnsettled == settled

\* Whatever the path names now is what a power failure leaves, unless it takes the
\* directory: only the directory of the file is flushed, not the one that one is in.
SettledNow ==
    {e \in settled : e.gone} \cup {[file |-> cache, older |-> {}, gone |-> FALSE]}

\* A directory that cannot be flushed is an error of the run, though the cache
\* has been replaced.
SyncDirectory(r) ==
    /\ pc[r] = "syncDirectory"
    /\ \/ /\ settled' = SettledNow
          /\ Succeed(r, IF existed[r] THEN "Refreshed" ELSE "Created")
       \/ Fail(r) /\ UNCHANGED settled
    /\ UNCHANGED <<head, counter, temp, cache, crashes>>

-----------------------------------------------------------------------------
(* Crashes *)

Holding == {"write", "sync", "rename"}

\* The temporary files of the processes ps, left behind.
Orphans(ps) == {name[r] : r \in {q \in Runner : ProcessOf[q] \in ps /\ pc[q] \in Holding}}

\* The processes ps are gone, and with them the runs of their threads.
Die(ps) ==
    LET Gone(r) == ProcessOf[r] \in ps
    IN  /\ crashes < MaxCrashes
        /\ crashes' = crashes + 1
        /\ pc' = [r \in Runner |-> IF Gone(r) THEN "idle" ELSE pc[r]]
        /\ result' = [r \in Runner |-> IF Gone(r) /\ result[r] = "running" THEN "none" ELSE result[r]]
        /\ since' = [r \in Runner |-> IF Gone(r) /\ result[r] = "running" THEN 0 ELSE since[r]]
        /\ fixture' = [r \in Runner |-> IF Gone(r) /\ result[r] = "running" THEN NoCapture ELSE fixture[r]]
        /\ existed' = [r \in Runner |-> existed[r] /\ ~Gone(r)]
        /\ tries' = [r \in Runner |-> IF Gone(r) THEN 0 ELSE tries[r]]
        /\ name' = [r \in Runner |-> IF Gone(r) THEN NoName ELSE name[r]]
        /\ counter' = [p \in Process |-> IF p \in ps THEN 0 ELSE counter[p]]
        /\ UNCHANGED head

\* A killed process leaves its temporary files behind.
Kill ==
    /\ \E p \in Process :
         /\ Die({p})
         /\ temp' = [n \in Name |-> IF n \in Orphans({p}) THEN Torn ELSE temp[n]]
    /\ UNCHANGED <<cache, settled>>

\* What is left of a file that may not have been flushed.
Left(f) == IF f.synced THEN f ELSE Torn

\* Unflushed contents are torn, unflushed directory entries come or go, that of
\* the cache's directory included.
PowerFailure ==
    /\ Die(Process)
    /\ \E e \in settled, lost \in SUBSET Name :
         /\ cache' = Left(e.file)
         /\ settled' = {[e EXCEPT !.file = cache']}
         /\ e.gone => lost = Name
         /\ temp' = [n \in Name |-> IF n \in lost \/ temp[n] = Missing THEN Missing ELSE Torn]

-----------------------------------------------------------------------------
Step(r) ==
    \/ Start(r) \/ Probe(r) \/ Load(r) \/ Check(r) \/ Replay(r) \/ Capture(r) \/ Verify(r)
    \/ Create(r) \/ Write(r) \/ Sync(r) \/ Rename(r) \/ SyncDirectory(r)

Next ==
    /\ CloseLedger \/ (\E r \in Runner : Step(r)) \/ Kill \/ PowerFailure
    /\ UNCHANGED crew

Spec == Init /\ [][Next]_vars

\* A run goes on to its return, and runs are started over and over.
FairSpec == Spec /\ \A r \in Runner : WF_vars(Step(r) /\ UNCHANGED crew)

-----------------------------------------------------------------------------
(* Properties *)

Bundle == [ledger : Ledger, keys : SUBSET Key, by : Runner]

FileSet == {Missing, Torn} \cup [data : {"whole"}, synced : BOOLEAN, bundle : Bundle]

Remains == [file : FileSet, older : SUBSET Runner, gone : BOOLEAN]

Succeeded == {"Hit", "Created", "Refreshed", "Disabled"}

Typed ==
    /\ head \in Ledger
    /\ pc \in [Runner -> {"idle", "probe", "load", "check", "replay", "capture", "verify",
                          "create", "write", "sync", "rename", "syncDirectory"}]
    /\ result \in [Runner -> {"none", "running", "Failed"} \cup Succeeded]
    /\ since \in [Runner -> Ledger \cup {0}]
    /\ fixture \in [Runner -> Bundle \cup {NoCapture}]
    /\ existed \in [Runner -> BOOLEAN]
    /\ tries \in [Runner -> 0..MaxTries]
    /\ name \in [Runner -> Name \cup {NoName}]
    /\ counter \in [Process -> 0..(Sequences - 1)]
    /\ temp \in [Name -> FileSet]
    /\ cache \in FileSet
    /\ settled \subseteq Remains
    /\ crashes \in 0..MaxCrashes

\* Every variable has its type.
TypeOK == Typed /\ crew \in Crews

\* What the cache path holds, and what it may hold after a power failure.
CacheFiles == {cache} \cup {e.file : e \in settled}

\* Nobody ever finds part of a bundle at the cache path, whoever was killed or
\* failed while writing and whenever the power went (atomic_write).
CacheWhole == \A f \in CacheFiles : f = Missing \/ (f.data = "whole" /\ f.synced)

\* Every capture that can be found at the cache path passed the strict replay
\* of the runner that wrote it (the replay before write_file in run_online).
CacheReplayed ==
    \A f \in CacheFiles :
        f.data = "whole" => ReplayOf(f.bundle.by, f.bundle) = "Replayed"

\* Once a run has said that it created or refreshed the cache, no power failure
\* brings back what it replaced, whatever the others were doing meanwhile, except
\* by taking the whole directory, if that was made by a run and never flushed into
\* its parent since (atomic_write, create_dir_all in run_online).
WriteSurvives ==
    \A r \in Runner :
        pc[r] = "idle" /\ result[r] \in {"Created", "Refreshed"}
            => \A e \in settled : r \in e.older => e.gone

\* No two writers ever have the same temporary file, threads of one process and
\* processes with the same id included (create_temporary_file).
WritersApart ==
    \A r, q \in Runner :
        r # q /\ {pc[r], pc[q]} \subseteq Holding => name[r] # name[q]

\* An online run never returns state from before what the network served when
\* the run began, whatever the cache held and however it changed meanwhile
\* (cached_anchor_is_current); every run returns a capture its scenario ran on.
ReturnsCurrent ==
    \A r \in Runner :
        pc[r] = "idle" /\ result[r] \in Succeeded
            => /\ r \notin Offline => fixture[r].ledger + Lag >= since[r]
               /\ ReplayOf(r, fixture[r]) = "Replayed"

Writing == {"create", "write", "sync", "rename", "syncDirectory"}

\* Scenarios that share a cache end up sharing it: once the network stands
\* still and nothing fails, the inventory covers them all and nobody replaces
\* the file any more (capture_with_inventory keeps the cached keys).
CacheSettles ==
    (\A r \in Runner : <>[](result[r] # "Failed"))
        => <>[](\A r \in Runner : pc[r] \notin Writing)
=============================================================================
