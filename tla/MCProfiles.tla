----------------------------- MODULE MCProfiles -----------------------------
(* Instances of Profiles for TLC. *)
EXTENDS Profiles, TLC

CONSTANTS g1, g2, l1, l2

OneGateway == [g \in {g1} |-> <<l1>>]
Hidden == [g \in {g1} |-> <<>>]
TwoGateways == [g \in {g1, g2} |-> IF g = g1 THEN <<l1, l2>> ELSE <<l2>>]

Symmetry == Permutations(Ids)
=============================================================================
