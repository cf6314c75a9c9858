--------------------------- MODULE PrivateLedgers ---------------------------
(***************************************************************************)
(* What a mutable fork promises: a ledger of its own, with the network's   *)
(* protocol and a generator of addresses, changed only by its own steps,   *)
(* and put back as it was by a checkpoint of its own.                      *)
(***************************************************************************)
EXTENDS Integers

CONSTANTS Fork, Fixture, Supported, Oldest, Data, NoFork

VARIABLES
    view,   \* view[f]: the network's protocol and what fork f shows, or NoFork
    kept    \* kept[f]: what the checkpoints of f hold

Fresh(x) ==
    [network |-> x.protocol,
     now |-> [protocol |-> x.protocol, data |-> x.data, contracts |-> {}, generator |-> 0]]

Init == view = [f \in Fork |-> NoFork] /\ kept = [f \in Fork |-> {}]

New(f) ==
    /\ view[f] = NoFork
    /\ \E x \in Fixture : view' = [view EXCEPT ![f] = Fresh(x)]
    /\ UNCHANGED kept

\* A new address, and a contract that lives at it.
Counted(now) == [now EXCEPT !.generator = @ + 1]
Extended(now, c) == [now EXCEPT !.contracts = @ \cup {c}]

\* What the fork's own steps make of what it shows.
Changed(v) ==
    {[v.now EXCEPT !.data = d] : d \in Data}
    \cup {[v.now EXCEPT !.protocol = p] : p \in (Oldest..Supported - 1) \cup {v.network}}
    \cup {Counted(v.now), Extended(Counted(v.now), v.now.generator)}

Show(f, now) == view' = [view EXCEPT ![f] = [network |-> view[f].network, now |-> now]]

Change(f) == view[f] # NoFork /\ (\E now \in Changed(view[f]) : Show(f, now)) /\ UNCHANGED kept

Keep(f) ==
    /\ view[f] # NoFork
    /\ kept' = [kept EXCEPT ![f] = @ \cup {view[f].now}]
    /\ UNCHANGED view

Forget(f) == (\E now \in kept[f] : kept' = [kept EXCEPT ![f] = @ \ {now}]) /\ UNCHANGED view

Restore(f) == view[f] # NoFork /\ (\E now \in kept[f] : Show(f, now)) /\ UNCHANGED kept

Next == \E f \in Fork : New(f) \/ Change(f) \/ Keep(f) \/ Forget(f) \/ Restore(f)

Spec == Init /\ [][Next]_<<view, kept>>
=============================================================================
