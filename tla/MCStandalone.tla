--------------------------- MODULE MCStandalone ----------------------------
(* Instances of Standalone for TLC. *)
EXTENDS Standalone

\* IPsec over whatever works, the second factor a password; and SSL with little else.
Files == {
    [server |-> TRUE, login |-> "factors", user |-> TRUE, cert |-> "none", cert_password |-> FALSE, reg_key |-> FALSE,
     password |-> TRUE, password_factor |-> 2, mfa_code |-> TRUE, ike_persist |-> TRUE,
     ipsec |-> TRUE, transport |-> "auto", port_knock |-> TRUE],
    [server |-> TRUE, login |-> "none", user |-> FALSE, cert |-> "none", cert_password |-> FALSE, reg_key |-> FALSE,
     password |-> FALSE, password_factor |-> 1, mfa_code |-> FALSE, ike_persist |-> FALSE,
     ipsec |-> FALSE, transport |-> "auto", port_knock |-> FALSE]}

\* nothing; a certificate in hardware; what makes the second file one of IPsec; a portal, or a certificate to renew
Lines == {
    <<>>,
    [login |-> "factors", cert |-> "pkcs11", transport |-> "tcpt"],
    [login |-> "factors", ipsec |-> TRUE, password |-> TRUE, mfa_code |-> FALSE],
    [login |-> "mobile", cert |-> "file", cert_password |-> TRUE, reg_key |-> TRUE]}

\* two passwords around the browser, and one password alone
TwoLists == {<<"PasswordInput", "IdentityProvider", "PasswordInput">>, <<"PasswordInput">>}
=============================================================================
