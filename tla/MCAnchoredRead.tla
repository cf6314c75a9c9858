--------------------------- MODULE MCAnchoredRead ---------------------------
(***************************************************************************)
(* A network that is reset twice: each history has its own contents, so a  *)
(* mixture of any two ledgers shows.  One key exists in one history only,  *)
(* the config setting is missing from one ledger, one ledger holds an      *)
(* entry that is not sound, and one is of a protocol nobody accepts.       *)
(***************************************************************************)
EXTENDS AnchoredRead

CONSTANTS k1, k2

MCKey == {k1, k2, ConfigKey}
MCLedger == 1..3
MCData == 1..9
Plain(d) == [data |-> d, sound |-> TRUE]
At(b) == 3 * (b.chain - 1) + b.seq

MCLedgerAt == [b \in Block |-> [k \in Key |->
    IF k = ConfigKey THEN IF At(b) = 2 THEN Absent ELSE Plain(1)
    ELSE IF k = k2 /\ b.chain = 2 THEN Absent
    ELSE IF k = k2 /\ At(b) = 3 THEN [data |-> 3, sound |-> FALSE]
    ELSE Plain(At(b))]]

MCProtocolAt == [b \in Block |-> IF At(b) = 6 THEN 3 ELSE 2]
MCInventories == {{}, {k1}, {k1, k2}}
=============================================================================
