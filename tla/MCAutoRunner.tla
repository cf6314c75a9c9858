---------------------------- MODULE MCAutoRunner ----------------------------
(***************************************************************************)
(* Instances of AutoRunner: crews of one or two runners on one cache.      *)
(***************************************************************************)
EXTENDS AutoRunner

CONSTANTS r1, r2, r3, r4, r5, p1, p2

MCTwo == {r1, r2}
MCApart == {r1, r3}
MCAll == {r1, r2, r3, r4, r5}
MCOneCrew == {Runner}
MCNobody == {}

\* Two processes with the same id; all but r3 are threads of the first.
MCProcess == {p1, p2}
MCProcessOf == [r \in Runner |-> IF r = r3 THEN p2 ELSE p1]
MCPid == [p \in Process |-> 7]

\* _Write: every run captures and replaces the cache.
MCOneLedger == {1}
MCOneKey == {"a"}
MCSameKey == [r \in Runner |-> [n \in Ledger |-> {"a"}]]
MCAccepted == [r \in Runner |-> Ledger]
MCNever == [r \in Runner |-> {}]
MCNothing == [r \in Runner |-> {{}}]

\* _Policy: two online runners, a refreshing one beside an offline one, and one
\* without a cache.  Half of them need another key at the second ledger and touch
\* a key at the third in a replay that they did not touch in the capture; the
\* others need a key of their own at the first, do not accept the protocol of the
\* second and panic at the third.  The refreshing one may have come across that
\* key in an earlier pass.
MCLedger == 1..3
MCPairs == {{r1, r2}, {r3, r4}, {r5}}
MCCached == {r1, r2, r3, r4}
MCOnlyThird == {r3}
MCOnlyFourth == {r4}
MCHalf == {r2, r4}
MCKey == {"a", "b", "c"}
MCNeeds ==
    [r \in Runner |-> [n \in Ledger |->
        IF r \in MCHalf /\ n = 1 THEN {"b"}
        ELSE IF r \notin MCHalf /\ n = 2 THEN {"a", "c"} ELSE {"a"}]]
MCAgain ==
    [r \in Runner |-> [n \in Ledger |->
        IF r \notin MCHalf /\ n = 3 THEN {"a", "c"} ELSE MCNeeds[r][n]]]
MCEarlier == [r \in Runner |-> IF r = r3 THEN {{}, {"b"}} ELSE {{}}]
MCPanics == [r \in Runner |-> IF r \in MCHalf THEN {3} ELSE {}]
MCAccepts == [r \in Runner |-> IF r \in MCHalf THEN Ledger \ {2} ELSE Ledger]

\* _Settles: two scenarios with nothing in common.
MCSettling == 1..2
MCOwnKey == [r \in Runner |-> [n \in Ledger |-> {IF r = r1 THEN "a" ELSE "b"}]]
=============================================================================
