------------------------------ MODULE IdealFork ------------------------------
(***************************************************************************)
(* What a strict fork promises: a private copy of the complete network     *)
(* ledger, on which calls run.  Nothing is ever missing from it.           *)
(***************************************************************************)
EXTENDS Host, Sequences

CONSTANT Network    \* the network's ledger at the capture's anchor

VARIABLES
    ledger,
    receipts,   \* what the calls since the last restore told
    saved       \* ledgers to go back to

vars == <<ledger, receipts, saved>>

Init ==
    /\ ledger = Network
    /\ receipts = <<>>
    /\ saved = {}

Told(kind, call, run, before, after) ==
    [kind |-> kind, call |-> call, ok |-> run.ok, tree |-> run.tree,
     changes |-> StateDiff(before, after)]

Without(hidden) == [k \in Key |-> IF k \in hidden THEN Absent ELSE ledger[k]]

\* A signed call runs on the ledger as it is.  A mocked call need not see every
\* nonce there is, and leaves none behind.
Seen(call, hidden) == IF Mode[call] = "Enforce" THEN ledger ELSE Without(hidden)

After(call, hidden) ==
    LET seen == Seen(call, hidden)
        run  == Run(call, seen)
    IN  [k \in Key |->
            IF /\ k \in DOMAIN run.writes
               /\ Mode[call] = "Enforce" \/ k \notin NonceKey \/ seen[k] # Absent
              THEN run.writes[k] ELSE ledger[k]]

Invoke ==
    \E call \in Call, hidden \in SUBSET NonceKey, kind \in {"Previewed", "Rejected", "Committed"} :
        LET run == Run(call, Seen(call, hidden)) IN
        /\ Mode[call] = "MockExact" => run.tree = Expected[call]
        /\ kind = "Committed" => run.ok
        /\ kind = "Rejected" => ~run.ok
        /\ receipts' = Append(receipts, Told(kind, call, run, ledger, After(call, hidden)))
        /\ ledger' = IF kind = "Committed" THEN After(call, hidden) ELSE ledger
        /\ UNCHANGED saved

\* A local installation takes over an address: some of what the network has
\* under it is forgotten before the constructor runs.
Install ==
    \E x \in Candidate :
      \E forgotten \in SUBSET ({k \in Key : Owner[k] = Address[x]} \cup {Code[x]}) :
        LET run == Construct(x, Without(forgotten)) IN
        /\ run.ok
        /\ ledger' = Overlay(Without(forgotten), run.writes)
        /\ receipts' = Append(receipts, Told("Registered", x, run, Without(forgotten), ledger'))
        /\ UNCHANGED saved

Save ==
    /\ saved' = saved \cup {ledger}
    /\ UNCHANGED <<ledger, receipts>>

Restore ==
    /\ ledger' \in saved
    /\ receipts' = <<>>
    /\ UNCHANGED saved

Next == Invoke \/ Install \/ Save \/ Restore

Spec == Init /\ [][Next]_vars
=============================================================================
