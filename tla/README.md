# Kanatoko in TLA+

Kanatoko forks a Soroban network locally: it captures the ledger entries a test
scenario needs, seals them, and replays the scenario offline, strictly, without
guessing what it did not capture. This directory models that: the capture and
the reads under it, the replay, the fork a scenario works in while it is
captured, the mutable strict fork and the older mutable fork, the bundle on
disk, the cache file runners share, and the RPC client under them all. TLC
checks the models on small instances; TLAPS proves their safety properties for
all instances; what is left to TLC is under "Only model-checked".

Source paths below are relative to the repository, whose crate is in `src/`.

## Inventory

| Component | State | Operations | Interacts with | Hard behaviour | What makes it correct |
|---|---|---|---|---|---|
| Ledger capture (`capture.rs`: `CaptureBuilder`, `TrackingSource`, `LocalLedger`) | inventory of keys, one materialized ledger, bounds of three nested loops; per pass the lookups made, the keys owned locally, the latched failure | `capture_ref_from_keys`, `materialize`, `expand_code_closure`, `TrackingSource::get` | RPC through `Transport`; runs the user's closure in the host | the network closes ledgers between any two RPCs, nodes lag, answers fail; the scenario swallows errors, panics, writes without reading, takes keys over | what is sealed is one ledger, complete for the scenario, executable offline; errors never pass for verdicts |
| Strict replay (`capture.rs`: `CapturedFixture::replay`) | coverage; unknown keys | `replay_with_local` | host | a scenario that hides a refusal; stored entries | it reproduces the capture or refuses |
| Strict fork (`strict.rs`) | `Env` ledger, coverage, two allowlists, receipts, checkpoints | `invoke`, `register_candidate`, `checkpoint`, `revert` | host, in isolated children | partial knowledge; children that run on after an unknown key; two copies of the state | it does what a fork of the whole network would, or refuses |
| Automatic runner (`auto.rs`: `AutoRunner`) | the cache file; per run the loaded capture | `run`, `run_online` | capture, replay, other runners through the file | the network and other runners move between load, check, replay and write | no stale result, no unreplayed cache, no endless recapture |
| Cache writing (`capture.rs`: `atomic_write`) | temporary files, the cache path, a process-wide counter | `create_temporary_file`, write, sync, rename, directory sync | file system | threads, equal process ids, crashes, power failures, errors half way | the path never names part of a file; a reported write survives in a directory that does |
| RPC client (`capture.rs`: `HttpTransport`, `RequestRateLimiter`) | the limiter's next reservation | `rpc`, `wait`, `send_read_rpc_with_retry` | RPC node | late wake-ups, throttling, pauses asked for by the server | bounded rate, bounded retries, no retry within a pause given in seconds |
| Anchored reads (`capture.rs`: `HttpTransport::latest_ledger`, `ledger_entries`, `validate_batch`, `cached_anchor_is_current`) | one attempt: the first anchor, the entries so far | `materialize`, the cache check | RPC nodes | the network is reset and reaches the same numbers again; answers whose parts do not fit together | what is read is one ledger, named by its anchor, of the time of the call |
| Capture bundle (`capture.rs`: `CapturedFixture::to_bundle`, `from_bundle_bytes`) | a file with three digests | writing, loading, two schemas | runner, file system | damage, older schemas, other writers | what loads could have been captured, loads again, and is what was sealed |
| Scenario fork (`auto.rs`: `ScenarioFork`) | the `Env` of the pass, local accounts, the marks of `LocalLedger` | `invoke`, `preview`, `local_account`, `fund_local_account`, `deploy`, `replace_wasm` | `TrackingSource`, `LocalLedger`, host | a preview runs in a child without a source; marks hide network keys | what a pass that counts showed is what the complete ledger shows |
| Legacy fork (`runtime.rs`: `Fork`) | one `Env`, replaced by each revert; checkpoints | `from_fixture`, `register_wasm`, `checkpoint`, `revert`, `ledger_digest` | host, clients made by the test | clients of an `Env` left behind; a ledger of a newer protocol than the host's; address generators | it is a private ledger of the network |
| Frozen fixture, protocol policy (`fixture.rs`) | none | load, `ProtocolPolicy::check`, digests | capture, fork, bundle | pure | exact or one-newer protocol only |
| CLI (`tools/`), build script, crate root | none | sequential programs | all | none | - |

The fixtures, the contract WASM and the release workflow hold no logic of the
system. The hazards this code is exposed to, line by line, are in
`PROJECT.json`.

## Modules

```
LedgerCapture   <- MCLedgerCapture, LedgerCaptureProofs   capture and strict replay
                   AtomicCapture             (INSTANCE of LedgerCapture's refinement)
AnchoredRead    <- MCAnchoredRead, AnchoredReadProofs     one read, answers that do not fit
Host            <- StrictFork <- MCStrictFork, StrictForkProofs
                <- IdealFork                 (INSTANCE of StrictFork's refinement)
                <- ScenarioFork <- MCScenarioFork, ScenarioForkProofs
LegacyFork      <- MCLegacyFork, LegacyForkProofs
                   PrivateLedgers            (INSTANCE of LegacyFork's refinement)
CaptureBundle   <- MCCaptureBundle, CaptureBundleProofs   the file format and its checks
AutoRunner      <- MCAutoRunner, AutoRunnerProofs         runners, cache file, crashes
RpcClient       <- MCRpcClient, RpcClientProofs           rate limiter and retries
```

Each `...Proofs` module extends its component and TLAPS and holds nothing that
a run needs.

### LedgerCapture, AtomicCapture

`pc` walks through `validate`, `before`, `batch`, `after` (one attempt of
`materialize`), `closure` (`expand_code_closure`), `pass` (the scenario in a
discovery pass), `done`, `replay`, `replayed`. Every RPC is one action that
picks the ledger its node answers from, among the last `Lag + 1` ledgers
(`Serving`); `CloseLedger` interleaves with all of them. Which keys share a
batch follows the order of their encodings, so any chunk of `BatchSize` is
allowed.

The scenario is user code. It is an arbitrary automaton over `Prog`, whose next
position depends on the answer to its last lookup: the assumption is that it is
deterministic in what it reads from the ledger, which is what the code asks of
it (`AutoRunner::run`'s documentation). It may read, write without reading,
take keys over (`LocalLedger`), return and panic, and it may swallow a refused
lookup. `trail` and `seen` are history: the positions of the last capturing pass
and the answers of the current one.

An entry is as rich as the code looks at it: absent, plain, or a contract
instance with its kind of executable, or an executable tag. The checks of
metadata and code hashes are the predicate `Sound` of the network's history.

Two readings are worth stating. The repository's README says that values of
different ledgers are never mixed; this is `CaptureCoherent`, about what a pass
starts on and what is sealed. The single reads inside a discovery pass do come
from whatever ledger the node is at. What protects the user is
`DecidedOnOneLedger`: no verdict rests on such a pass. And the config setting is
read beside the inventory, so a scenario may look it up; the lookup is refused
in a replay, and excluded from `DecidedOnOneLedger` and from `Touched` as the
code excludes it.

`AtomicCapture` is what all of this promises: the entries of one accepted ledger
are read in one step (`Take`), at a moment when a node served that ledger, and
the scenario runs on them and on nothing else; a run that needs more is
abandoned, only one that does not decides anything, and replays are further runs
on the same entries. It has no rounds, batches, anchors or single reads.
`LedgerCapture` implements it (`CaptureIsAtomic`): `Take` is the last `ReadAfter`
of a materialization, every earlier RPC a stutter, and the abstract run is
`OwnRun`, the scenario as long as it asked for keys of the inventory only and no
lookup failed. From the first single read on there is no abstract run, so
nothing that a discovery pass does after it can decide. The config setting is the
one exception: a run may look at it, at any ledger, and then not be sealed.

### AnchoredRead

`LedgerCapture` knows ledgers by their number and takes an answer to be right or
an error. `AnchoredRead` looks below that, at one call of `materialize` or
`cached_anchor_is_current`. A ledger is a history and a number, and its hash
names both; the network may be `Reset` to another history at any step, with the
same passphrase and the same numbers. An answer to `getLatestLedger` is any
combination of a number, a header, a hash and a protocol version, and the
transport keeps the ones where the first three fit (`Consistent`). The version is
a field of its own that nobody compares with the header's, so the policy judges
what the node says, and no property is about the version of the ledger itself; an answer to `getLedgerEntries` carries only the number,
and perhaps one entry too many (`Spare`). `served` is history: the ledgers nodes
had since the call began.

Assumed: every node has left the old history when the first serves the new one
(between histories nothing in `getLedgerEntries` tells them apart), and no node
leaves an entry out or invents one where the ledger has none, which no client
can notice. Chain heads are not assumed to grow across a reset.

The step `Capture` of `AutoRunner` takes for granted what these two modules
establish: the capture is one ledger, served by a node during the run, and
complete for the scenario there. That one step may stand for all the RPCs of a
capture is `CaptureIsAtomic`; it stands at the last `ReadAfter`, `Take` of
`AtomicCapture`, and what follows is local to the runner.

### Host, StrictFork, IdealFork

`Host` is external: what is assumed of the contract host. A run gets a ledger
and gives an outcome: the keys looked up, the writes, success, the
authorization tree. It is assumed that a failed run writes nothing (the host
rolls back) and that a run depends on the ledger only through the keys it
looked up (`RunAssumption`, `ConstructAssumption`). `Run` and `Construct` are
otherwise arbitrary. TLC evaluates these assumptions on the instance.

`StrictFork` has one action per outcome of each operation: `InvokeUnknown`,
`InvokeMismatch`, `Discard` (preview, or apply of a failed call), `Commit`;
`RegisterRefused`, `Register`; `TakeCheckpoint`, `RevertRefused`, `Revert`;
`RequestRefused` for requests that are turned down before a child runs. The
`Env` is its ledger (`snapshot`), digests are the ledgers themselves. `evidence`
is the list of receipts together with the registrations returned between them,
since both carry digests; `revert` clears the receipts, and the model the
registrations with them.

`IdealFork` is what the fork promises: a private copy of the complete network
ledger on which calls run and nothing is missing. Two allowances come from the
code: a mocked call need not see every nonce and leaves none, and a local
installation may forget what the network has at its address (the code treats
the address as local from then on). `StrictFork` implements it under the
mapping `LedgerOf`: captured or changed entries from the coverage, local keys
absent, the network's entry everywhere else.

### ScenarioFork

One pass of a scenario over the `Env` it shares with its calls and previews.
`stored` is what the host holds (a lookup that found nothing is remembered as
absent), behind it come the local marks, the cache of the `TrackingSource`, and
behind that a node at some ledger (`Serving`) in an online pass, nothing in a
strict one: `View` is that order of lookups. A preview runs in a child with a
copy of the host's storage and the captured entries and no source at all
(`ChildView`); afterwards what the child's host holds is looked up in the source
(`Forwards`), so that the pass learns of keys it lacks.

A frame that fails takes its lookups out of the host's storage again. Which
those are is the constant `RolledBack`, arbitrary like the rest of the host; what
was looked up before the first frame, the contract's instance and its code, stays
(`Kept`). In a call nothing is lost by that, since the source has seen the lookup.
In a preview the source never hears of it: if the key was unknown to the child,
it read as absent and the report is about another ledger, while the pass stays
valid. That is the finding of `scenario_unknown` below; `Informed` says that it
did not happen, and `Faithful` asks nothing of a preview where it did.

A call whose lookup is refused is given up by the host, whatever the contract
would have made of it; `Refused` is that, with any part of the other lookups
done. `invoke` panics then, `try_invoke` returns. An early end is `over`.

`ideal`, `faithful` and `informed` are history: the ledger the same steps leave
on a complete copy of the network, whether all answers so far are those of that
copy, and whether every preview was informed. `Void` says when a pass does not count: a lookup failed, was refused, or
asked for a key the capture lacks. An online pass then starts another round and
a strict one is an error. `Agreement` and `Faithful` are about the others.

Assumed of the network and the host: nothing on the network belongs to a
contract without an instance or to an account without an account entry
(`OwnershipAssumption`), code entries belong to nobody, and a call removes no
account entry and no instance (`RootAssumption`; merging an account is not
among a contract's host functions, and an instance expires but is not deleted).

### CaptureBundle

The state is a fixture in memory with the policy it was captured or loaded
under, and a file. Steps write the fixture in the current schema or, as an older
release did, in the first; damage the file (`Damaged`, up to `MaxDamage` times);
have another program sign contents of its own; and load it under either policy.
`Loads` is the conjunction of the checks in `from_bundle_bytes`, `from_bundle`,
`from_legacy_bundle` and what they call, `FromBundle` what they return,
`ToBundle` what is written.

A digest is what it digests: the hash is taken to be injective, and a field can
be damaged into something that does not decode (`NoDigest`, `NoKey` in the list of
absent keys) but never into the canonical digest of other contents. Damage leaves
a list of texts where one belongs (`HasAbsentList`); a file that is not of that
shape does not parse. A capture does not check that the ledger's hash is
nonempty, a load does: that it is nonempty is assumed of the node. `to_bundle`
compares the digest of the coverage with the one in the report and gives
`InternalInvariant` if they differ; both are made of the same coverage and neither
changes afterwards, so this error cannot come up and is left out.

### LegacyFork, PrivateLedgers

An `Env` is its snapshot in `heap`; a fork points to one, and a revert puts a new
one in its place (`NewEnv`) while clients keep the old one and may call it
(`Invoke` of any `e`). `Executed` and `Restored` are the two translations between
the network's protocol and the one the host executes. Contracts registered
locally are named by the count of the generator; the addresses of the network
are never among them.

`PrivateLedgers` is the promise: each fork shows a ledger of its own under the
network's protocol, changed only by its own steps, and put back exactly by its
own checkpoints. `LegacyFork` implements it with `view` the ledger
`network_ledger_snapshot` reads. A test is assumed to set only protocols the host
knows.

### AutoRunner

A run is `Start`, `Probe` (`cache_existed`), `Load`, `Check`
(`cached_anchor_is_current`), `Replay`, `Capture`, `Verify` (the replay of the
new capture), then `atomic_write` in its steps `Create`, `Write`, `Sync`,
`Rename`, `SyncDirectory`. Every step that can fail has its failing disjunct;
every error is the result `Failed`, since nothing tells them apart afterwards.
A capture is one step here: a ledger, and the keys the scenario needs there
together with the inventory it started from and whatever earlier passes, on
other ledgers or on a mixture of them, have left there (`Earlier`). `Needs` is
what the scenario touches in a capture, `Again` in a replay; they differ when it
depends on more than the ledger.

The options of a runner are constants (`Cached`, `Refresh`, `Offline`, `Accepts`);
`crew` is who is at work, so that one run of TLC sees several combinations.
Runners are threads of processes; the counter of temporary names belongs to a
process, the name to its process id, which two processes may share. `Kill`
stops a process anywhere. `PowerFailure` stops everybody; unflushed contents are
torn, and what is left is any of the records in `settled`: the file that was
durable, or any renamed over it since the last directory flush. The contents of
a temporary file nobody will look into again are forgotten.

The directory of the cache may be there from the start or not (`Init`), and
`Verify` makes it if it is not (`create_dir_all`), as it does on the first run with
the default path, which lies in `.kanatoko`. `atomic_write` flushes the
directory the file is in and nothing flushes the one above, so a new directory
stays in doubt: `settled` keeps a record of its absence (`gone`) through every
`SyncDirectory`, and a power failure may take it with the cache in it. The first
bundle written to a new directory, and all later ones until the file system
happens to write that entry, can be lost although the run said `Created`; the
next run then starts without a cache. The repository promises no durability, so
this is no finding; `WriteSurvives` says what is kept: nothing older comes back
in a directory that is still there. A path of several new directories behaves
like one.

### RpcClient

The limiter's `next_request` is the time left until it (`slot`), since a
reservation in the past and no reservation behave alike in `reserve_delay`.
`Tick` passes a unit of time between any two steps, so a thread wakes when its
sleep is over or later, and a request goes out some time after its reservation.

A throttling server asks for a pause, which the client reads only if it is a
number of seconds. HTTP also allows a date, and `retry_delay` treats one like no
header at all: the retry goes out after the plain backoff. `Throttled` therefore
picks, with the pause, whether it is given in seconds (`heard`), and
`PausesHonoured` is about those, as is what the repository's README promises (a
"numeric" one). It is also about retries only. An RPC that fails, because
the pause is too long or the attempts are used up, ends its capture, and the
client forgets the pause: the first request of the next capture may fall into it.

## Runs

| Run | Question | Instance and why it is enough |
|---|---|---|
| `capture` | are captures coherent, executable offline, verdicts founded, replays faithful? is a capture one reading of one ledger? does it end? | two stretches of history. Plain state over four ledgers: two entries that agree in every ledger and differ between ledgers (a mixture is visible), one behind a pointer, one that appears, one unsound; a protocol upgrade in the last ledger. Code over six: direct code, code behind a tag, and the code missing, the tag malformed, the tag missing, the archival setting missing. Lag 1; batches of 2, so that an inventory needs two; 2 attempts and 2 rounds, so that both limits are met, 2 closure rounds for a tag and its code. Eight scenarios: one that panics on a mixture, one that chases a pointer and swallows refusals, one that takes a key over after reading it, one that writes unread, one that looks at the config setting, one that insists on an entry, one that runs the contract and one that only looks at it. With fairness |
| `anchored_read` | is a read one ledger, and the named one? | three histories of three ledgers, all with different contents; a ledger without the archival setting, one unsound, one of another protocol; two keys and the setting in batches of 2, lag 1, two attempts |
| `strict_fork` | are the fork's copies of its state in step? does it do what the whole fork would? | a captured and an uncaptured entry of one contract, two nonces, a candidate with instance, slot and code; seven calls, among them one that misses a key only on one branch, one that writes an uncaptured key unread, one that deletes; two receipts since the last revert, two checkpoints held, one of them of another fork |
| `scenario_state` | does a pass that counts show the complete ledger? | a vault with a captured and an uncaptured entry, an account with a trustline, a candidate at a free address with code the network holds already, one at the vault's address; two captures of different size, nodes at the anchor and at a later ledger where the account exists; funding below, at and above the limits; seven calls, among them one that fails for an uncaptured key and one that goes on after asking another contract for it in vain |
| `scenario_unknown` | does a strict pass report every unknown key a preview looks up? | it does not, see below; the instance of `scenario_state` |
| `legacy_private` | is a fork a private ledger? | two forks of fixtures of both protocols, three environments, so that one is left behind, one generated address, one checkpoint held at a time (dropped and taken again any number of times); forks are symmetric |
| `bundle_trust` | what may load? | three fixtures that differ in kind of contract, protocol, network and absent keys, one at the last ledger number; two damages from a list of some forty, of the fields the checks read |
| `auto_runner_write` | what does the cache path hold after failures and crashes? | two processes with the same id, both always writing, with and without the directory at first; two temporary names and two tries, so that names collide and run out; one kill or power failure at any point |
| `auto_runner_policy` | can a run return something stale or unreplayed, with whatever options? | crews of two online runners, of a refreshing and an offline one, and of one without a cache; three ledgers, lag 1; a ledger one of a pair refuses, one at which it panics, one at which the other's replay needs more than its capture; the refreshing one may have come across the offline one's key earlier |
| `auto_runner_settles` | do scenarios that share a cache stop rewriting it? | two scenarios with disjoint keys over two ledgers, with fairness |
| `rpc` | rate, pauses, does an RPC end? | limits of 0, 1 and 2 per second of four units, the three backoffs, pauses shorter and longer than a backoff, and one too long, each in seconds or as a date; with fairness |
| `rpc_limit` | is the documented limit kept? | it is not, see below |

Bounds of the models: `MaxAttempts`, `MaxRounds`, `MaxClosureRounds`,
`BatchSize` and `MaxTries` are constants of the code made small; the head of the
network stops at the last of `Ledger`, resets at the last of `Histories`;
`MaxEvidence` and `MaxHeld` bound the caller of the strict fork, `MaxEnvs`,
`MaxAddresses` and `MaxCheckpoints` the test around a legacy fork, `MaxDamage` the
damage, `MaxCrashes` the crashes, `Sequences` the counter of temporary names (it
wraps, as if names returned early, which only makes collisions likelier).
Deadlock is off where a capture ends for good (`LedgerCapture_Passes.cfg`), where
a pass ends in a panic (`ScenarioFork_State.cfg`, `ScenarioFork_Unknown.cfg`), and where the bounds leave
nothing to do (`LegacyFork_Private.cfg`, `CaptureBundle_Trust.cfg`); everywhere
else something can always be done. The theorems hold for all values of these
bounds.

Every property has a mutant in `PROJECT.json`: a small bug in the named
definition, kept beside it in the module, under which TLC finds the property
violated.

### Fairness

`LedgerCapture`'s `FairSpec` is weak fairness of the capture's own steps: it
runs in one thread, every RPC has a deadline, and the scenario is a terminating
closure. Nothing is assumed of the network, which may close a ledger before
every RPC: `CaptureReturns` rests on the bounds of the loops, as `CaptureDescends`
shows, which is proved.
`AutoRunner`'s is weak fairness of each runner's next step, for the same reason.
`CacheSettles` says nothing while runs keep failing, and its instance has
nodes that do not lag: nodes that answer from two ledgers in turn do make
runners recapture. `RpcClient`'s is weak fairness of time, of a thread that is
awake, and of the answer, which the agent's timeout guarantees.

### Findings

`scenario_unknown` refutes the documentation of `preview`, which promises an error
for an unknown offline dependency. In a strict pass the call `far` is previewed.
It looks up a key the capture lacks, which its child answers as absent, and fails
for it. The host rolls the lookup back, so `forward_preview_reads` asks the source
for the contract's instance only: the preview returns a report of a failure, no
key is unknown, and the replay is accepted, although the network has the entry and
the call succeeds there. An online pass misses the key in the same way, and seals
a capture without it. A preview that catches the failure of another contract
(`ask`) shows that the preview itself need not fail. Calls are not affected, nor
are previews whose lookups stay (`Faithful`).

`rpc_limit` refutes the documentation of `rpc_rate_limit`, which promises at most
the supplied number of requests per second. Reservations are an interval apart,
requests need not be: a request that goes out late is followed by one that keeps
its own reservation. `OneMoreAtMost` is what holds, and why: a reservation that
is already due counts from now.

## Theorems

`LedgerCaptureProofs` proves, for every network history, lag, batch size, bound
and scenario, from `KeyAssumption`, `HistoryAssumption`, `BoundAssumption` and
`ScenarioAssumption`: `TypeOK`, `CaptureCoherent`, `SealedExecutable`,
`DecidedOnOneLedger`, `ReplayReproduces`, `ReplayFailsClosed`. None is inductive
by itself. The argument goes in layers, each inductive on top of the ones before:

* `AttemptInv`, `CoverInv`: the entries of an attempt are those of the ledger
  `before`, and the coverage those of `anchor`; while the capture re-reads, the
  inventory may already be larger than the coverage.
* `ClosureInv`: from the closure check on, the coverage is closed.
* `LookupInv`: an answer that is not the anchor ledger's value has left
  `rpcReads`, `failure` or an unknown key behind. `DecidedOnOneLedger` and
  `ReplayFailsClosed` follow.
* `TrailInv`: as long as a pass made no single read, the positions it went
  through are exactly closed under steps on the coverage.
* `SealInv`: after sealing, the trail stays within captured and local keys and
  ends in a return.
* `ReplayInv`: a replay of the same scenario stays on that trail, so it asks for
  nothing else and ends where it ends. `ReplayReproduces` follows.
* `VerdictInv`, `SourceInv`: a capture has no verdict before it ends; in a pass the
  source's cache holds the inventory's keys and those the scenario asked for, and
  the config setting, if any, of a ledger closed by then. With these and the
  layers before,
  `CaptureImplementsAtomic` proves the refinement, one lemma for each action.
* `LoopInv`: a materialization starts with no attempt made, and the batch loop has
  keys left. `CaptureAlwaysDescends` proves from it that every capture step between two passes lowers a
  lexicographic measure: the passes left, the closure rounds, the attempts, the
  phase of the attempt, the keys of the batch loop. All of them are bounded
  (`TypeOK`), so only a scenario that does not return could keep a capture from
  ending.

`StrictForkProofs` proves, for every host that keeps `Host`'s assumptions, every
network and every captured set: `TypeOK`, `Agreement`, `CoverageJustified`,
`LocalsInstalled`, `EvidenceChains`, `NoncesAreSigned` and, as
`ForkImplementsIdeal`, the refinement `ImplementsIdeal`. The inductive invariant
`ForkInv` says of the fork, and of every checkpoint of it (`Sane`), that the
snapshot is the coverage's, that the coverage is justified and that the
allowlists are installed; checkpoints are in it because a revert makes them the
state. The key lemma is `RunAgrees`: a run that touched no unknown key saw the
complete ledger (up to nonces, for mocked calls) at every key it looked up, so
by the host's assumption it is the run of the complete ledger, although the
child it ran in answered absent for everything unknown.

`AnchoredReadProofs` proves `TypeOK`, `ReadsOneLedger` and `AnswersOfTheCall` for
every history, any number of resets, any lag and batch size. An attempt may well
mix two histories while it lasts; `OneLedger` therefore claims that its entries
are the anchor's only as long as the network is still in the history of the
first anchor. Histories do not come back (`Anchored`: the anchor's history is not
newer than the network's), so an equal second anchor shows that it was.

`ScenarioForkProofs` proves `TypeOK`, `Agreement` and `Faithful` for every network,
capture and contracts, and whatever the host rolls back. They hold only of passes that are not `Void`, and being
void is for ever; the inductive `IInv` says of the others that the source holds
the captured entries (`CacheHolds`), that the host's storage is the complete
ledger's and the rest of that ledger still the network's (`StoredAgrees`), that a
local key the host does not hold is not on the network (`LocalFresh`, from the
probes before every mark and the ownership assumption), and that no account or
contract has vanished (`RootsStay`), without which a local account could be made
at the address of one that was.

`CaptureBundleProofs` proves `HeldIsCapture`, `DamageRefused` and `Reloads` for
every set of captures (`CapturedAssumption`: a fixture whose absent keys are
finitely many) and every kind of damage that forges no digest. The first is
inductive as it stands, given that everything `Loads` lets through is a capture.
The second needs `DigestKept`: the canonical digest in the file does not decode or
was made for the sealed fixture, in either schema, so a file that passes the
comparison has its contents. The third needs `Typed`: what is held is a fixture,
and the absent keys of a file, damaged or not, are a list, so that a loaded
fixture again has finitely many. That the list `AbsentList` chooses exists is shown
without induction: each key is put at its rank, the number of keys up to it, and
ranks grow with keys (`AscendingLists`); an ascending list as long as the set
names every key of it, so what is read back is the set.

`LegacyForkProofs` proves `TypeOK`, `AddressesFresh` and the refinement
`ImplementsPrivate` for any number of forks, environments, checkpoints and
addresses. `AddressesFresh` is inductive together with the same fact about the
snapshots in checkpoints (`SavedFresh`), because a revert makes them environments.
The refinement rests on `TypeOK`: forks share no environment, so a call through a
stale client is a stutter, and `RoundTrip` says that what a checkpoint may show
comes out of the host as it went in.

`RpcClientProofs` proves `TypeOK`, `OneMoreAtMost` and `PausesHonoured` for every
limit, unit of time and table of backoffs. The limit is about requests and the
limiter about reservations; what ties them together is `Spaced`: the next
reservation is at least as many intervals after a request as requests have gone
out since. With the pacing of the thread (`Paced`) and the counting of requests
(`Counted`) it leaves room for one request more in a second, and no other.
`Waits` carries a server's pause, if it came in seconds, to the retry after it.

`AutoRunnerProofs` proves `TypeOK`, `WritersApart`, `CacheWhole`, `CacheReplayed`,
`WriteSurvives` and `ReturnsCurrent` for any number of runners and processes,
whatever ids they have, and any crashes. The invariant has three layers. Files: a
writer holds a temporary file of its own, with its own capture in it, because
creation refuses a name in use; the process id plays no part. Runs: what a
runner is about to write or return it has replayed, at a ledger that was current
when it looked. Cache: only such files get to the cache path, only flushed ones
may be left there by a power failure, and from a directory flush on, none that is
older than the write it completes, unless with the whole directory. `RunnerWriteStays`
is the case of a directory that was durable before the first run (`Kept`, which every
step preserves): there nothing older comes back at all.

### Only model-checked

The liveness properties `CaptureReturns`, `CacheSettles` and `RpcEnds`: the prover
does not handle fairness. Of the first, the part that is no liveness,
`CaptureDescends`, is proved. Every other property of a run that passes is a
theorem.

## Not modelled

* The host: metering, contract execution, event contents, and the errors of its
  own inspection functions.
* JSON, XDR, Base64 and hex: an answer or a field decodes or does not. The
  lifetime of an entry and the sequence number it was modified at are checked in
  `CaptureBundle`, and reduced to whether an entry is sound elsewhere.
* Loading a frozen fixture from a file (`from_file` and its variants): one pass
  over a file the SDK decodes, then the checks that are modelled.
* The command line and the Aquarius example: sequential programs that parse
  arguments, run one capture or replay and print a report.
* The crate root and the build script: re-exports and configuration flags.

`LedgerCapture`, `AnchoredRead` and `AutoRunner` are not one specification: they
are about different steps of one call, and their product is out of TLC's reach.
What the runner takes from the capture, that it is one step, is the refinement
of `AtomicCapture`; what the capture takes from the read below it is said above,
under `AnchoredRead`.

## Plan

All of the plan is carried out: the capture and its proofs, the strict fork
against the ideal one, the runners and their cache, the RPC client, the scenario
fork, the bundle, the legacy fork against private ledgers, and anchored reads
over resets. What could still be added: a composition of `ScenarioFork`'s marks
with `LedgerCapture`'s discovery rounds, where both now model the `TrackingSource`
for their own questions.
