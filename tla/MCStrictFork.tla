---------------------------- MODULE MCStrictFork ----------------------------
(***************************************************************************)
(* One captured contract whose storage is captured in part, an account     *)
(* with a captured and an uncaptured nonce, and a candidate at an address  *)
(* under which the network has an entry nobody captured.                   *)
(***************************************************************************)
EXTENDS StrictFork

MCKey == {"data", "far", "nonce", "signedNonce", "inst", "slot", "code"}
MCValue == {"v", "w"}
MCShape == [k \in MCKey |-> IF k = "data" THEN {"v", "w"} ELSE {"v"}]
MCContract == {"vault", "candidate"}
MCOwner ==
    [k \in MCKey |-> CASE k \in {"data", "far"} -> "vault"
                       [] k \in {"inst", "slot"} -> "candidate"
                       [] OTHER -> "none"]
MCInstanceKey == [c \in MCContract |-> IF c = "candidate" THEN "inst" ELSE "data"]
MCCodeKey == {"code"}
MCNonceKey == {"nonce", "signedNonce"}

\* The candidate's slot exists on the network, its instance does not.
MCNetwork ==
    [k \in MCKey |-> IF k \in {"data", "far", "slot"} THEN "v" ELSE "none"]
MCCaptured == {"data", "signedNonce"}

\* deposit: flips the captured entry, with a mocked nonce
\* signed:  sets it, once, with the signed nonce
\* exact:   like deposit, but the caller insists on the tree of one direction
\* branch:  when the captured key is "w", deletes it unless an uncaptured one exists
\* blind:   stores an uncaptured entry without looking it up
\* use:     needs the candidate, and flips its slot
\* close:   deletes the captured entry
MCCall == {"deposit", "signed", "exact", "branch", "blind", "use", "close"}
MCMode ==
    [c \in MCCall |-> CASE c \in {"deposit", "branch"} -> "Record"
                        [] c = "exact" -> "MockExact"
                        [] OTHER -> "Enforce"]
MCTree == {"up", "down"}
MCExpected == [c \in MCCall |-> "up"]

Outcome(ok, tree, reads, writes) == [ok |-> ok, tree |-> tree, reads |-> reads, writes |-> writes]
None == [k \in {} |-> "none"]
Failed(reads) == Outcome(FALSE, "up", reads, None)
Flip(x) == IF x = "v" THEN "w" ELSE "v"

MCRun(call, s) ==
    CASE call \in {"deposit", "exact"} ->
           IF s["data"] = "none" THEN Failed({"data"})
           ELSE Outcome(TRUE, IF s["data"] = "v" THEN "up" ELSE "down", {"data", "nonce"},
                        [data |-> Flip(s["data"]), nonce |-> "v"])
      [] call = "signed" ->
           IF s["signedNonce"] # "none" THEN Failed({"signedNonce"})
           ELSE Outcome(TRUE, "up", {"signedNonce", "data"}, [data |-> "w", signedNonce |-> "v"])
      [] call = "branch" ->
           IF s["data"] = "w"
             THEN Outcome(TRUE, "up", {"data", "far"}, [data |-> IF s["far"] = "none" THEN "none" ELSE "v"])
             ELSE Outcome(TRUE, "up", {"data"}, None)
      [] call = "blind" -> Outcome(TRUE, "up", {}, [far |-> "v"])
      [] call = "use" ->
           IF s["inst"] = "none" THEN Failed({"inst"})
           ELSE Outcome(TRUE, "up", {"inst", "slot"}, [slot |-> IF s["slot"] = "none" THEN "v" ELSE "none"])
      [] OTHER -> Outcome(TRUE, "up", {"data"}, [data |-> "none"])

\* The constructor insists on the captured entry and looks further when it is "w".
MCCandidate == {"plain"}
MCAddress == [x \in MCCandidate |-> "candidate"]
MCCode == [x \in MCCandidate |-> "code"]
MCConstruct(x, s) ==
    IF s["data"] = "none" THEN Failed({"data"})
    ELSE IF s["data"] = "w" /\ s["far"] = "none" THEN Failed({"data", "far"})
    ELSE Outcome(TRUE, "up", {"data"} \cup (IF s["data"] = "w" THEN {"far"} ELSE {}),
                 [inst |-> "v", code |-> "v"])
=============================================================================
