-------------------------- MODULE MCIPsecConnector --------------------------
(* Instances of IPsecConnector for TLC. *)
EXTENDS IPsecConnector, TLC

Both == {"service", "standalone"}
Two == {2}

Symmetry == Permutations(Spis) \cup Permutations(Ikes) \cup Permutations(Addresses)
=============================================================================
