--------------------------- MODULE MCLedgerCapture ---------------------------
(***************************************************************************)
(* A small network and the scenarios captured from it.  Its history has    *)
(* two stretches, with a ledger between them that never closes: a capture  *)
(* sees one of them, from wherever in it the head is when it starts.       *)
(*                                                                         *)
(* Ledgers 1 to 4, plain state: two entries that agree within every ledger *)
(* but differ between ledgers, and one that comes and goes.  The last      *)
(* ledger runs a protocol the policy refuses.                              *)
(*                                                                         *)
(* Ledgers 6 to 11, code: a contract whose executable moves behind a tag,  *)
(* whose tag and code then break in each way the closure must refuse.      *)
(***************************************************************************)
EXTENDS LedgerCapture

MCData == {0, 1}
Plain(x) == [t |-> "plain", d |-> x]
Wasm(code) == [t |-> "wasm", code |-> code]
Ref(tag) == [t |-> "ref", tag |-> tag]
Bytes(code) == [t |-> "bytes", code |-> code]

-----------------------------------------------------------------------------
(* The network *)

MCKey == {"config", "a", "b", "c", "inst", "tag", "old", "new"}
MCState == 1..4
MCCode == 6..11
MCLedger == MCState \cup MCCode

\* The keys a ledger names; there is nothing at the others.
Entries(named) ==
    [k \in MCKey |-> IF k \in DOMAIN named THEN named[k] ELSE Absent]
State(a, b, c) == Entries([config |-> Plain(0), a |-> a, b |-> b, c |-> c])
Contract(config, inst, tag, new) ==
    Entries([config |-> config, inst |-> inst, tag |-> tag, old |-> Plain(0), new |-> new])

MCHistory ==
    [n \in MCLedger |->
        CASE n = 1 -> State(Plain(0), Plain(0), Absent)
          [] n = 2 -> State(Plain(1), Plain(1), Plain(0))
          [] n = 3 -> State(Plain(0), Plain(0), Plain(1))
          [] n = 4 -> State(Plain(1), Plain(1), Plain(1))
          [] n = 6 -> Contract(Plain(0), Wasm("old"), Absent, Absent)
          [] n = 7 -> Contract(Plain(0), Ref("tag"), Bytes("new"), Plain(0))
          [] n = 8 -> Contract(Plain(0), Ref("tag"), Bytes("new"), Absent)
          [] n = 9 -> Contract(Plain(0), Ref("tag"), Plain(0), Plain(0))
          [] n = 10 -> Contract(Plain(0), Ref("tag"), Absent, Plain(0))
          [] OTHER -> Contract(Absent, [t |-> "sac"], Absent, Absent)]
MCProtocol == [n \in MCLedger |-> IF n = 4 THEN 28 ELSE 27]
MCAccepted == {27}
\* In ledger 3 the node reports a lifetime for c that no ledger allows.
MCSound == [n \in MCLedger |-> [k \in MCKey |-> ~(n = 3 /\ k = "c")]]
MCInventories == {{}, {"a"}, {"inst"}}

-----------------------------------------------------------------------------
(* The scenarios *)

\* pair:   reads a, then b, and panics unless they agree
\* chase:  the value of a decides which of b and c comes next; the scenario
\*         swallows every refused lookup
\* deploy: probes c, makes it its own, writes and reads it back
\* put:    writes b without looking it up
\* config: looks at the config setting
\* insist: panics unless c exists
\* call:   loads the instance and whatever its executable points to
\* peek:   loads the instance and never executes it
MCStarts == {"pair", "chase", "deploy", "put", "config", "insist", "call", "peek"}
MCOp ==
    [pair |-> "read", pair0 |-> "read", pair1 |-> "read",
     chase |-> "read", chaseB |-> "read", chaseC |-> "read",
     deploy |-> "read", own |-> "mark", fill |-> "write", readBack |-> "read",
     put |-> "write", config |-> "read", insist |-> "read",
     call |-> "read", tag |-> "read", old |-> "read", new |-> "read", peek |-> "read",
     returns |-> "return", panics |-> "panic"]
MCProg == DOMAIN MCOp
MCAt ==
    [s \in MCProg |->
        CASE s \in {"pair", "chase"} -> "a"
          [] s \in {"pair0", "pair1", "chaseB", "put"} -> "b"
          [] s \in {"config", "tag", "old", "new"} -> s
          [] s \in {"call", "peek"} -> "inst"
          [] OTHER -> "c"]
MCMarks == [s \in MCProg |-> IF s = "own" THEN {"c"} ELSE {}]
MCGoto ==
    [s \in MCProg |-> [v \in Value \cup {Err} |->
        CASE s = "pair" ->
               (CASE v = Plain(0) -> "pair0" [] v = Plain(1) -> "pair1" [] OTHER -> "panics")
          [] s = "pair0" -> IF v = Plain(0) THEN "returns" ELSE "panics"
          [] s = "pair1" -> IF v = Plain(1) THEN "returns" ELSE "panics"
          [] s = "chase" -> IF v = Plain(0) THEN "chaseB" ELSE "chaseC"
          [] s = "deploy" -> IF v = Err THEN "panics" ELSE "own"
          [] s \in {"insist", "old", "new"} -> IF v.t = "plain" THEN "returns" ELSE "panics"
          [] s = "own" -> "fill"
          [] s = "fill" -> "readBack"
          [] s = "readBack" -> IF v = Absent THEN "returns" ELSE "panics"
          [] s = "call" ->
               (CASE v.t = "wasm" -> "old" [] v.t = "ref" -> "tag" [] v.t = "sac" -> "returns"
                  [] OTHER -> "panics")
          [] s = "tag" -> IF v.t = "bytes" THEN "new" ELSE "panics"
          [] OTHER -> "returns"]]
=============================================================================
