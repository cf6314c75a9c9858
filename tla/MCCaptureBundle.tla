-------------------------- MODULE MCCaptureBundle --------------------------
(***************************************************************************)
(* Three fixtures: a contract with its code and two absent keys, one whose *)
(* code is behind a tag and whose ledger has the newer protocol and ends   *)
(* at the last ledger number, and an asset contract with an account.       *)
(***************************************************************************)
EXTENDS CaptureBundle

\* 1 instance, 2 data, 3 code, 4 temporary data, 5 the setting, 6 account
MCKey == 1..6
MCArchival == 5
MCKind == <<"persistent", "persistent", "code", "temporary", "other", "account">>
MCRoot == {"contract", "other", "account"}
MCRootKey == [r \in {"contract", "other"} |-> IF r = "contract" THEN 1 ELSE 2]

Plain(k) == [key |-> k, v |-> "plain", modified |-> 1]
Sac(k) == [key |-> k, v |-> "sac", modified |-> 1]
Pointing(k, v, code) == [key |-> k, v |-> v, modified |-> 1, code |-> code]
Tagged(k, tag) == [key |-> k, v |-> "ref", modified |-> 1, tag |-> tag]
With(entry, live) == [key |-> entry.key, entry |-> entry, live |-> live]

Info(protocol, sequence, network) ==
    [protocol |-> protocol, sequence |-> sequence, maxTtl |-> 4, network |-> network, rest |-> 0]

Fixture(info, list, missing) ==
    [ledger |-> [info |-> info, entries |-> list],
     coverage |-> [present |-> [k \in {e.key : e \in Items(list)} |->
                                  CHOOSE e \in Items(list) : e.key = k],
                   absent |-> missing],
     report |-> [rounds |-> 1, present |-> Len(list), absent |-> Cardinality(missing), reads |-> 0],
     provenance |-> [origin |-> [host |-> "h", rest |-> ""], network |-> info.network, sequence |-> info.sequence,
                     hash |-> "h", protocol |-> info.protocol]]

MCCaptured ==
    {Fixture(Info(1, 3, "main"),
             <<With(Pointing(1, "wasm", 3), 3), With(Pointing(3, "code", 3), 0)>>, {4, 6}),
     Fixture(Info(2, 4, "main"),
             <<With(Tagged(1, 2), 7), With(Pointing(2, "bytes", 3), 4),
               With(Pointing(3, "code", 3), 0), With(Plain(4), 4)>>, {}),
     Fixture(Info(1, 3, "test"), <<With(Sac(1), 6), With(Plain(6), NoTtl)>>, {2})}

-----------------------------------------------------------------------------
(* Damage *)

Swapped(list) ==
    IF Len(list) < 2 THEN list
    ELSE [i \in DOMAIN list |-> IF i = 1 THEN list[2] ELSE IF i = 2 THEN list[1] ELSE list[i]]

Entries(entries) == IF Len(entries) < 2 THEN {} ELSE
    {Swapped(entries), Tail(entries), Append(entries, entries[1]),
     Append(entries, With(Plain(MCArchival), NoTtl)),
     [entries EXCEPT ![1].key = 2],
     [entries EXCEPT ![1].live = NoTtl],
     [entries EXCEPT ![1].live = 2],
     [entries EXCEPT ![1].live = 8],
     [entries EXCEPT ![1].entry.modified = 5],
     [entries EXCEPT ![Len(entries)].live = 0],
     [entries EXCEPT ![2].entry = [key |-> 3, v |-> "code", modified |-> 1, code |-> 4]]}

Absents(list) ==
    {Swapped(list), <<>>,
     Append(list, [bytes |-> MCArchival, tidy |-> TRUE]),
     Append(list, [bytes |-> 1, tidy |-> TRUE]),
     Append(list, [bytes |-> 6, tidy |-> TRUE]),
     Append(list, [bytes |-> 6, tidy |-> FALSE]),
     Append(list, [bytes |-> NoKey, tidy |-> TRUE])}

MCDamaged(b) ==
    {[b EXCEPT !.schema = n] : n \in 1..3}
    \cup {[b EXCEPT !.ledger.entries = entries] : entries \in Entries(b.ledger.entries)}
    \cup {[b EXCEPT !.absent = list] : list \in Absents(b.absent)}
    \cup {[b EXCEPT !.ledger.info.protocol = n, !.provenance.protocol = n] : n \in 1..3}
    \cup {[b EXCEPT !.ledger.info.sequence = n] : n \in {3, 5}}
    \cup {[b EXCEPT !.ledger.info.network = "test"], [b EXCEPT !.provenance.network = "test"],
          [b EXCEPT !.ledger.info.maxTtl = 0], [b EXCEPT !.ledger.info.rest = 1]}
    \cup {[b EXCEPT !.report.rounds = n] : n \in {0, 2, 3}}
    \cup {[b EXCEPT !.report.present = @ + 1], [b EXCEPT !.report.absent = @ + 1],
          [b EXCEPT !.report.reads = 1], [b EXCEPT !.provenance.origin.rest = "key"], [b EXCEPT !.provenance.origin.host = ""],
          [b EXCEPT !.provenance.hash = NoHash], [b EXCEPT !.provenance.hash = "g"],
          [b EXCEPT !.ledgerDigest = NoDigest], [b EXCEPT !.canonicalDigest = NoDigest]}
    \cup (IF "root" \in DOMAIN b THEN {[b EXCEPT !.root = r] : r \in MCRoot} ELSE {})
=============================================================================
