---------------------------- MODULE MCTunnelHost ----------------------------
(* Instances of TunnelHost for TLC. *)
EXTENDS TunnelHost, TLC

CONSTANTS g1, g2

Tun(kind, gateway, full) ==
    [kind |-> kind, gateway |-> gateway, full |-> full, disable_ipv6 |-> full, dns |-> TRUE]

AllKinds == {Tun("native", g1, TRUE), Tun("tun", g1, FALSE), Tun("ssl", g2, TRUE)}

Symmetry == Permutations(Tunnels) \cup Permutations(Addresses)
=============================================================================
