---------------------------- MODULE MCLegacyFork ----------------------------
(* Two forks of a fixture of the host's protocol and of one a step newer;  *)
(* forks differ in nothing but their ids, and no property is a liveness    *)
(* property, so exchanging them is a symmetry.                             *)
EXTENDS LegacyFork, TLC

MCFixture == [protocol : {Supported, Supported + 1}, data : {0}]

Symmetry == Permutations(Fork)
=============================================================================
