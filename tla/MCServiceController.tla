------------------------ MODULE MCServiceController ------------------------
(* Instances of ServiceController for TLC. *)
EXTENDS ServiceController

\* Logins with two password challenges and no keychain, and with one and a keychain.
Served ==
    [user_name : {TRUE}, password : BOOLEAN, mfa_code : {TRUE}, keychain : {FALSE},
     password_factor : {2}, factors : {2}]
    \cup
    [user_name : BOOLEAN, password : {FALSE}, mfa_code : {FALSE}, keychain : {TRUE},
     password_factor : {1}, factors : {1}]

\* A password, then a code of an authenticator, and a keychain.
TwoFactors == [user_name : {TRUE}, password : {FALSE}, mfa_code : {FALSE}, keychain : {TRUE},
               password_factor : {2}, factors : {2}]

All == {"Status", "Connect", "Disconnect", "Reconnect"}
UpAndDown == {"Connect", "Disconnect"}
=============================================================================
