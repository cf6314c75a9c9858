--------------------------- MODULE MCScenarioFork ---------------------------
(***************************************************************************)
(* A captured vault with an entry the capture lacks, a local account with  *)
(* a trustline, and two candidates: one gets a fresh address and code the  *)
(* network holds already, the other's address is the vault's.              *)
(***************************************************************************)
EXTENDS ScenarioFork

\* Entries are told apart by a number: a balance, an executable, a value.
MCMaxBalance == 2

MCKey == {"vault", "data", "far", "nonce", "inst", "code", "acc", "line"}
MCShape ==
    [k \in MCKey |-> CASE k = "acc" -> 0..MCMaxBalance
                       [] k = "vault" -> {0, 1}
                       [] k = "inst" -> {1}
                       [] OTHER -> {0}]
MCValue == 0..MCMaxBalance
MCContract == {"Vault", "Fresh"}
MCOwner ==
    [k \in MCKey |-> CASE k \in {"vault", "data", "far", "nonce"} -> "Vault"
                       [] k = "inst" -> "Fresh"
                       [] OTHER -> "none"]
MCInstanceKey == [c \in MCContract |-> IF c = "Vault" THEN "vault" ELSE "inst"]
MCCodeKey == {"code"}
MCNonceKey == {"nonce"}
MCLabel == {"alice"}
MCAccountKey == [l \in MCLabel |-> "acc"]
MCHolder == [k \in MCKey |-> IF k \in {"acc", "line"} THEN "alice" ELSE "none"]

LedgerWith(data, far, acc) ==
    [k \in MCKey |-> CASE k = "data" -> data
                       [] k = "far" -> far
                       [] k = "acc" -> acc
                       [] k = "vault" -> 0
                       [] k \in {"code", "nonce"} -> 0
                       [] OTHER -> Absent]
MCNetwork == LedgerWith(0, 0, Absent)
\* A later ledger: the uncaptured entry is gone, the account was created.
MCServing == {MCNetwork, LedgerWith(Absent, Absent, 2)}
MCCaptures == {{"vault", "data", "inst", "acc"}, {"data"}}

MCNewAccount(n) == n
MCBalance(v) == v
MCWithBalance(v, n) == n
MCWasmEntry == [c \in MCCodeKey |-> 0]
MCIsToken(v) == FALSE
MCWithWasm(v, code) == 1

\* flip:  changes the captured entry, with a mocked nonce; new code cannot
\* exact: like flip, but the caller insists on the tree of one direction
\* far:   fails unless an uncaptured entry exists
\* ask:   asks another contract for it, and goes on if that one fails
\* blind: stores an uncaptured entry without looking it up
\* use:   needs the deployed contract and its code, and stores its instance
\* pay:   takes one stroop from the local account, and opens its trustline
MCCall == {"flip", "exact", "far", "ask", "blind", "use", "pay"}
MCMode == [c \in MCCall |-> IF c = "exact" THEN "MockExact" ELSE "Record"]
MCTree == {"up", "down"}
MCExpected == [c \in MCCall |-> "up"]

Outcome(ok, tree, reads, writes) == [ok |-> ok, tree |-> tree, reads |-> reads, writes |-> writes]
None == [k \in {} |-> Absent]
Failed(reads) == Outcome(FALSE, "up", reads, None)

MCRun(call, s) ==
    CASE call \in {"flip", "exact"} ->
           IF s["vault"] = Absent \/ s["vault"] = 1 THEN Failed({"vault"})
           ELSE IF s["data"] = 0
             THEN Outcome(TRUE, "up", {"vault", "data", "nonce"}, [data |-> Absent, nonce |-> 0])
             ELSE Outcome(TRUE, "down", {"vault", "data", "nonce"}, [data |-> 0, nonce |-> 0])
      [] call = "far" ->
           IF s["vault"] = Absent THEN Failed({"vault"})
           ELSE IF s["far"] = Absent THEN Failed({"vault", "far"})
           ELSE Outcome(TRUE, "up", {"vault", "far"}, None)
      [] call = "ask" ->
           Outcome(TRUE, IF s["far"] = Absent THEN "down" ELSE "up", {"far"}, None)
      [] call = "blind" -> Outcome(TRUE, "up", {}, [far |-> 0])
      [] call = "use" ->
           IF s["inst"] = Absent THEN Failed({"inst"})
           ELSE Outcome(TRUE, "up", {"inst", "code"}, [inst |-> 1])
      [] OTHER ->
           IF s["acc"] = Absent \/ s["acc"] = 0 THEN Failed({"acc"})
           ELSE Outcome(TRUE, "up", {"acc", "line"}, [acc |-> s["acc"] - 1, line |-> 0])

\* A run keeps what it looked up before its first frame; "ask" survives the
\* failure of a nested frame.
MCRolledBack(run) ==
    IF ~run.ok THEN run.reads \ {"vault", "inst", "code"}
    ELSE IF run.tree = "down" THEN {"far"} ELSE {}

\* The constructor insists on the captured entry, or else on the
\* uncaptured one.
MCCandidate == {"plain", "twin"}
MCAddress == [x \in MCCandidate |-> IF x = "plain" THEN "Fresh" ELSE "Vault"]
MCCode == [x \in MCCandidate |-> "code"]
MCConstruct(x, s) ==
    LET k == MCInstanceKey[MCAddress[x]] IN
    IF s["data"] = Absent /\ s["far"] = Absent THEN Failed({"data", "far", "code"})
    ELSE Outcome(TRUE, "up", {"data", "code"} \cup (IF s["data"] = Absent THEN {"far"} ELSE {}),
                 [y \in {k, "code"} |-> IF y = k THEN 1 ELSE 0])
=============================================================================
