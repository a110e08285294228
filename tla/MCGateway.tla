----------------------------- MODULE MCGateway ------------------------------
(* Instances of Gateway for TLC. *)
EXTENDS Gateway, TLC

CONSTANTS c1, c2, c3

Connector(ignore, tls, cert) == [server |-> "gateway", ignore |-> ignore, ca |-> FALSE, tls |-> tls, cert |-> cert]

\* two that share a cell and one that does not, since it does not check the certificate of the gateway
TwoTrusts == {Connector(FALSE, "1.3", "none"), Connector(FALSE, "1.2", "pkcs12"), Connector(TRUE, "1.2", "none")}

\* two that want to know and log in, and one that does everything
Tasks == (c1 :> {"information"}) @@ (c2 :> {"login"}) @@ (c3 :> Methods)
=============================================================================
