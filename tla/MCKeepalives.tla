---------------------------- MODULE MCKeepalives ----------------------------
(* Instances of Keepalives for TLC. *)
EXTENDS Keepalives

Retries == [k \in {"ssl", "tun"} |-> 3]
=============================================================================
