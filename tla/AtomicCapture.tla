---------------------------- MODULE AtomicCapture ----------------------------
(***************************************************************************)
(* What a capture and its replays promise: the entries of one accepted     *)
(* ledger are read at one moment, at a node that served the ledger then,   *)
(* and the scenario runs on them and on nothing else.  No RPC ever comes   *)
(* between two of its lookups.  A run that would need more is abandoned;   *)
(* only one that needed no more decides anything.                          *)
(***************************************************************************)
EXTENDS Integers

CONSTANTS
    Key, ConfigKey, Absent, Ledger, LedgerAt, ProtocolAt, Accepted, Lag,
    Starts, Op, At, Marks, Goto

VARIABLES
    head,       \* the last ledger the network closed
    fixture,    \* the entries read last, and the ledger they were read at
    start,      \* the scenario to capture
    run,        \* the run that has needed no more than the fixture: one, or none
    verdict     \* how the capture, and a replay of it, ended

vars == <<head, fixture, start, run, verdict>>

Serving == {n \in Ledger : n <= head /\ head <= n + Lag}

Unread == [ledger |-> 0, entries |-> [k \in {} |-> Absent]]

Init ==
    /\ head \in Ledger
    /\ fixture = Unread
    /\ start \in Starts
    /\ run = {}
    /\ verdict = "none"

CloseLedger ==
    /\ head + 1 \in Ledger
    /\ head' = head + 1
    /\ UNCHANGED <<fixture, start, run, verdict>>

\* Entries of ledger n, and of no other.
ReadAt(n, f) ==
    /\ f.ledger = n
    /\ ConfigKey \notin DOMAIN f.entries
    /\ \A k \in DOMAIN f.entries : f.entries[k] = LedgerAt[n][k]

Take ==
    /\ verdict = "none" /\ run = {}
    /\ \E n \in Serving : ProtocolAt[n] \in Accepted /\ ReadAt(n, fixture')
    /\ UNCHANGED <<head, start, run, verdict>>

\* A sealed capture replays any scenario.
Begin ==
    /\ run = {} /\ fixture.ledger # 0
    /\ \E s \in Starts :
         /\ verdict = "Sealed" \/ (verdict = "none" /\ s = start)
         /\ run' = {[at |-> s, local |-> {}, written |-> {}, config |-> FALSE]}
    /\ UNCHANGED <<head, fixture, start, verdict>>

On(r, answer) == [r EXCEPT !.at = Goto[r.at][answer]]

ReadLocal(r) ==
    /\ Op[r.at] = "read" /\ At[r.at] \in r.local
    /\ run' = {On(r, Absent)}

ReadEntry(r) ==
    /\ Op[r.at] = "read" /\ At[r.at] \in DOMAIN fixture.entries \ r.local
    /\ run' = {On(r, fixture.entries[At[r.at]])}

\* The setting is not captured: a run that looks at it may see another ledger's.
ReadConfig(r) ==
    /\ Op[r.at] = "read" /\ At[r.at] = ConfigKey /\ ConfigKey \notin r.local
    /\ verdict = "none"
    /\ \E n \in Ledger : n <= head /\ run' = {[On(r, LedgerAt[n][ConfigKey]) EXCEPT !.config = TRUE]}

Write(r) ==
    /\ Op[r.at] = "write"
    /\ run' = {[On(r, Absent) EXCEPT !.written = @ \cup {At[r.at]}]}

Mark(r) ==
    /\ Op[r.at] = "mark"
    /\ run' = {[On(r, Absent) EXCEPT !.local = @ \cup Marks[r.at]]}

Step ==
    /\ \E r \in run : ReadLocal(r) \/ ReadEntry(r) \/ ReadConfig(r) \/ Write(r) \/ Mark(r)
    /\ UNCHANGED <<head, fixture, start, verdict>>

Abandon ==
    /\ run # {} /\ run' = {}
    /\ UNCHANGED <<head, fixture, start, verdict>>

\* Everything the run wrote is its own, or captured with the rest.
Complete(r) == r.written \ r.local \subseteq DOMAIN fixture.entries

\* The capture is sealed where the run returned, refused where it panicked.
Decide ==
    /\ verdict = "none"
    /\ \E r \in run :
         /\ Complete(r)
         /\ \/ Op[r.at] = "return" /\ ~r.config /\ verdict' = "Sealed"
            \/ Op[r.at] = "panic" /\ verdict' = "ScenarioPanicked"
    /\ run' = {}
    /\ UNCHANGED <<head, fixture, start>>

\* One of the capture's own errors.
Fail ==
    /\ verdict = "none"
    /\ verdict' \notin {"none", "Sealed", "ScenarioPanicked", "Returned", "UnknownLedgerKeys"}
    /\ run' = {}
    /\ UNCHANGED <<head, fixture, start>>

\* A replay ends as its run did, or says that a key was not captured.
EndReplay ==
    /\ verdict = "Sealed"
    /\ \/ verdict' = "UnknownLedgerKeys"
       \/ \E r \in run :
            /\ Complete(r)
            /\ \/ Op[r.at] = "return" /\ verdict' = "Returned"
               \/ Op[r.at] = "panic" /\ verdict' = "ScenarioPanicked"
    /\ run' = {}
    /\ UNCHANGED <<head, fixture, start>>

Next ==
    \/ CloseLedger \/ Take \/ Begin \/ Step \/ Abandon
    \/ Decide \/ Fail \/ EndReplay

Spec == Init /\ [][Next]_vars
=============================================================================
