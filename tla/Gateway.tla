------------------------------- MODULE Gateway ------------------------------
(***************************************************************************)
(* The requests a process makes of its gateways (CccGatewayConnector), and *)
(* the information about each gateway that is asked for once and kept for  *)
(* the life of the process.                                                *)
(*                                                                         *)
(* A call is one run of a method of a connector, or a login of the SSL     *)
(* connector, which asks for the information and then authenticates (one   *)
(* that knows its user: the others begin with a question, not a request).  *)
(* Calls run side by side, for connectors with their own parameters, and   *)
(* any of them may be dropped while it waits.  A reply is the set of the   *)
(* field groups that tell the kinds of response apart.                     *)
(*                                                                         *)
(* The numbers of requests are left out: the gateway answers each request  *)
(* on its own connection, and nothing compares them.                       *)
(***************************************************************************)
EXTENDS Integers, Sequences

CONSTANTS
    Calls,      \* bound: the calls made
    Programs,   \* what each call may be
    Params,     \* parameters of connectors
    NoCall,     \* nobody
    MaxVersions \* bound: how often what a gateway says about itself changes

Methods == {"information", "authenticate", "challenge", "settings", "signout", "enroll", "renew"}
CertTypes == {"none", "pkcs8", "pkcs12", "pkcs11"}

ASSUME GatewayAssumption ==
    /\ NoCall \notin Calls
    /\ Programs \in [Calls -> SUBSET (Methods \cup {"login"})]
    /\ Params # {}
    /\ \A p \in Params : DOMAIN p = {"server", "ignore", "ca", "tls", "cert"} /\ p.cert \in CertTypes
    /\ MaxVersions \in Nat \ {0}

VARIABLES
    call,   \* [Calls -> Call]
    cells,  \* GATEWAY_INFO_CACHE: what is known of each gateway: a version, or 0
    holder, \* the call that initialises each cell, or NoCall
    version,\* what the gateways say of themselves now
    askedBy \* history: the parameters each cell was filled with

vars == <<call, cells, holder, version, askedBy>>

-----------------------------------------------------------------------------
(* Requests *)

\* Mutant of Key: the server alone.
ServerOnly(p) == <<p.server>>

\* gateway_information_cell: what two connectors must share to share a cell.  The version of TLS is not part of it.
Key(p) == <<p.server, p.ignore, p.ca>>
Keys == {Key(p) : p \in Params}

\* type of the request and whether it names a session; only an AuthRequest presents a certificate
NewAuthRequest(p) == [type |-> IF p.cert = "none" THEN "UserPass" ELSE "CertAuth", session |-> FALSE, auth |-> TRUE]
NewChallengeCodeRequest == [type |-> "MultiChallange", session |-> TRUE, auth |-> FALSE]
NewClientSettingsRequest == [type |-> "ClientSettings", session |-> TRUE, auth |-> FALSE]
NewSignoutRequest == [type |-> "Signout", session |-> TRUE, auth |-> FALSE]
NewClientHelloRequest == [type |-> "ClientHello", session |-> FALSE, auth |-> FALSE]
NewEnrollCertificateRequest == [type |-> "CertEnrollmentRequest", session |-> FALSE, auth |-> FALSE]
NewRenewCertificateRequest == [type |-> "CertRenewalRequest", session |-> FALSE, auth |-> FALSE]

Request(method, p) ==
    CASE method = "information"  -> NewClientHelloRequest
      [] method = "authenticate" -> NewAuthRequest(p)
      [] method = "challenge"    -> NewChallengeCodeRequest
      [] method = "settings"     -> NewClientSettingsRequest
      [] method = "signout"      -> NewSignoutRequest
      [] method = "enroll"       -> NewEnrollCertificateRequest
      [] method = "renew"        -> NewRenewCertificateRequest

\* A certificate, when it is of a type that is read from a file (which is then given), goes with an AuthRequest.
WithIdentity(request, p) == request.auth /\ p.cert \in {"pkcs8", "pkcs12"}

-----------------------------------------------------------------------------
(* Replies *)

Groups == {"authn_status", "settings", "connectivity", "error_code", "other"}

\* What a gateway sends when all is well; a refused login has an error code, too.
ProperReplies(method) ==
    CASE method = "information"                  -> {{"connectivity"}}
      [] method \in {"authenticate", "challenge"} -> {{"authn_status"}, {"authn_status", "error_code"}}
      [] method = "settings"                     -> {{"settings"}}
      [] method \in {"enroll", "renew"}           -> {{"error_code"}}
      [] method = "signout"                      -> {{"other"}}

\* Mutant of Kinds: certificates first.
CertificatesFirst == <<"Certificate", "Auth", "ClientSettings", "ServerInfo">>

\* The kinds of ResponseData, in the order in which they are tried: the first whose fields are there.
Kinds == <<"Auth", "ClientSettings", "ServerInfo", "Certificate">>
MarkOf == [Auth |-> "authn_status", ClientSettings |-> "settings", ServerInfo |-> "connectivity", Certificate |-> "error_code"]

ResponseData(reply) ==
    LET fits == {i \in 1..Len(Kinds) : MarkOf[Kinds[i]] \in reply}
    IN IF fits = {} THEN "Generic" ELSE Kinds[CHOOSE i \in fits : \A j \in fits : i <= j]

\* into_data: a reply without data is an error, whatever its header says.
IsError(reply) == reply = {}

\* What a method accepts: signout takes anything.
Accepts(method) ==
    CASE method = "information"                  -> {"ServerInfo"}
      [] method \in {"authenticate", "challenge"} -> {"Auth"}
      [] method = "settings"                     -> {"ClientSettings"}
      [] method \in {"enroll", "renew"}           -> {"Certificate"}
      [] method = "signout"                      -> {"Auth", "ClientSettings", "ServerInfo", "Certificate", "Generic"}

Understood(method, reply) == ~IsError(reply) /\ ResponseData(reply) \in Accepts(method)

-----------------------------------------------------------------------------
(* Calls *)

Busy == {"waits", "ready", "asked", "reads"}
Call == [at : {"idle", "done"} \cup Busy, method : Methods, login : BOOLEAN, params : Params,
         path : {"none", "clients", "cert", "told"}, told : 0..MaxVersions]

TypeOK ==
    /\ call \in [Calls -> Call]
    /\ cells \in [Keys -> 0..MaxVersions] /\ version \in 1..MaxVersions
    /\ holder \in [Keys -> Calls \cup {NoCall}]
    /\ \A k \in Keys : holder[k] # NoCall =>
           /\ Key(call[holder[k]].params) = k /\ call[holder[k]].method = "information"
           /\ call[holder[k]].at \in {"ready", "asked", "reads"}

Init ==
    /\ LET p == CHOOSE q \in Params : TRUE IN call = [c \in Calls |->
           [at |-> "idle", method |-> "information", login |-> FALSE, params |-> p, path |-> "none", told |-> 0]]
    /\ cells = [k \in Keys |-> 0] /\ holder = [k \in Keys |-> NoCall]
    /\ version = 1 /\ askedBy = [k \in Keys |-> {}]

CellOf(c) == Key(call[c].params)
Becomes(c, at, path) == call' = [call EXCEPT ![c].at = at, ![c].path = path]
Release(c) == holder' = [k \in Keys |-> IF holder[k] = c THEN NoCall ELSE holder[k]]

Start(c, program, p) ==
    /\ call[c].at = "idle" /\ program \in Programs[c]
    /\ LET method == IF program = "login" THEN "information" ELSE program
       IN call' = [call EXCEPT ![c] =
              [at |-> IF method = "information" THEN "waits" ELSE "ready", method |-> method, login |-> program = "login",
               params |-> p, path |-> "none", told |-> 0]]
    /\ UNCHANGED <<cells, holder, version, askedBy>>

\* The information is there: a login goes on, a call for it has ended.
Told(c, information) ==
    call' = [call EXCEPT ![c].told = information, ![c].path = "none",
                         ![c].at = IF call[c].login THEN "ready" ELSE "done",
                         ![c].method = IF call[c].login THEN "authenticate" ELSE @]

\* get_or_try_init: the cell is set,
Known(c) ==
    /\ call[c].at = "waits" /\ cells[CellOf(c)] # 0
    /\ Told(c, cells[CellOf(c)])
    /\ UNCHANGED <<cells, holder, version, askedBy>>

\* or it is not, and this call is the one to ask.
Initialise(c) ==
    /\ call[c].at = "waits" /\ cells[CellOf(c)] = 0 /\ holder[CellOf(c)] = NoCall
    /\ holder' = [holder EXCEPT ![CellOf(c)] = c]
    /\ Becomes(c, "ready", "none")
    /\ UNCHANGED <<cells, version, askedBy>>

\* send_request: a request with a certificate goes where the gateway says, if it is known what it says.
Send(c) ==
    LET request == Request(call[c].method, call[c].params)
        path == IF ~WithIdentity(request, call[c].params) THEN "clients"
                ELSE IF cells[CellOf(c)] # 0 THEN "told" ELSE "cert"
    IN /\ call[c].at = "ready"
       /\ Becomes(c, "asked", path)
       /\ UNCHANGED <<cells, holder, version, askedBy>>

Fails(c) ==
    /\ Becomes(c, "done", "none")
    /\ Release(c)
    /\ UNCHANGED <<cells, version, askedBy>>

\* A certificate authority or the certificate of the client cannot be read.
SendFails(c) ==
    /\ call[c].at = "ready"
    /\ call[c].params.ca \/ (Request(call[c].method, call[c].params).auth /\ call[c].params.cert # "none")
    /\ Fails(c)

\* The headers of a reply are there: the call goes on to read its body, for which there is no time-out.
Headers(c) ==
    /\ call[c].at = "asked"
    /\ Becomes(c, "reads", call[c].path)
    /\ UNCHANGED <<cells, holder, version, askedBy>>

\* No connection, no headers in time, or an error status.
NoAnswer(c) == call[c].at = "asked" /\ Fails(c)

\* The body says what the call is for, or something else,
Answered(c, reply) ==
    /\ call[c].at = "reads" /\ Understood(call[c].method, reply)
    /\ IF call[c].method = "information"
       THEN /\ cells' = [cells EXCEPT ![CellOf(c)] = version]
            /\ askedBy' = [askedBy EXCEPT ![CellOf(c)] = {call[c].params}]
            /\ Told(c, version)
       ELSE Becomes(c, "done", "none") /\ UNCHANGED <<cells, askedBy>>
    /\ Release(c)
    /\ UNCHANGED version

NotUnderstood(c, reply) ==
    /\ call[c].at = "reads" /\ ~Understood(call[c].method, reply)
    /\ Fails(c)

\* or it breaks off, or cannot be parsed.
BreaksOff(c) == call[c].at = "reads" /\ Fails(c)

\* Mutant of Dropped: the cell is still being initialised.
DroppedInPlace(c) ==
    /\ call[c].at \in Busy
    /\ Becomes(c, "done", "none")
    /\ UNCHANGED <<cells, holder, version, askedBy>>

\* Whoever made the call is cancelled: the cell is free for the next one that waits.
Dropped(c) ==
    /\ call[c].at \in Busy
    /\ Becomes(c, "done", "none")
    /\ Release(c)
    /\ UNCHANGED <<cells, version, askedBy>>

\* The gateways are set up differently.
GatewayChanges ==
    /\ version < MaxVersions
    /\ version' = version + 1
    /\ UNCHANGED <<call, cells, holder, askedBy>>

Replies(c) == ProperReplies(call[c].method) \cup {{}, {"other"}}
Ends(c) == NoAnswer(c) \/ BreaksOff(c) \/ \E reply \in Replies(c) : Answered(c, reply) \/ NotUnderstood(c, reply)

Next ==
    \/ \E c \in Calls :
           \/ \E program \in Programs[c], p \in Params : Start(c, program, p)
           \/ Known(c) \/ Initialise(c) \/ Send(c) \/ SendFails(c) \/ Headers(c) \/ Ends(c) \/ Dropped(c)
    \/ GatewayChanges

Spec == Init /\ [][Next]_vars

\* Every task goes on; the headers of a reply come or time out (gateway.rs:254), while its body may never end; those
\* who wait for a cell get their turn (the permit of a OnceCell is handed over in order).
Fairness ==
    \A c \in Calls :
        /\ WF_vars(Known(c)) /\ SF_vars(Initialise(c))
        /\ WF_vars(Send(c) \/ SendFails(c)) /\ WF_vars(Headers(c) \/ NoAnswer(c))

FairSpec == Spec /\ Fairness

-----------------------------------------------------------------------------
(* Properties *)

Asks(c) == call[c].method = "information" /\ call[c].at \in {"ready", "asked", "reads"}
SameTrust(p, q) == p.server = q.server /\ p.ignore = q.ignore /\ p.ca = q.ca

\* Of each gateway one call asks at a time, none asks what is known, and all who are told are told the same, by a
\* request that trusted exactly the certificates they trust themselves (gateway.rs:52-65, 314-319; what CHANGELOG.md:52
\* fixed), however calls overlap, fail and are dropped.
AskedOnce ==
    \A c \in Calls :
        /\ Asks(c) => /\ cells[CellOf(c)] = 0
                      /\ \A d \in Calls \ {c} : Asks(d) => ~SameTrust(call[c].params, call[d].params)
        /\ call[c].told # 0 => /\ call[c].told = cells[CellOf(c)]
                               /\ \A p \in askedBy[CellOf(c)] : SameTrust(p, call[c].params)

\* A login with a certificate goes where the gateway said, and the gateway's own reply to it is understood as one to
\* it, a refusal with an error code too: fields are tried in an order (gateway.rs:235-242, proto.rs:228-237).
LoginsGoWell ==
    \A c \in Calls : call[c].at \in {"asked", "reads"} =>
        /\ call[c].login /\ WithIdentity(Request(call[c].method, call[c].params), call[c].params) => call[c].path = "told"
        /\ \A reply \in ProperReplies(call[c].method) : Understood(call[c].method, reply)

\* A call hangs only on the body of its own reply, or on that of the one call that asks for what it wants to know:
\* if these come to an end, it ends, also when the one it waits for fails or is dropped (gateway.rs:316), and whatever
\* becomes of all others.
Hangs(c, k, d) == call[d].at = "reads" /\ (d = c \/ (Asks(d) /\ CellOf(d) = k))
CallsEnd ==
    \A c \in Calls, k \in Keys :
        (\A d \in Calls : []<>~Hangs(c, k, d))
            => (call[c].at \in Busy /\ CellOf(c) = k ~> call[c].at \notin Busy)

=============================================================================
