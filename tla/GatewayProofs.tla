---------------------------- MODULE GatewayProofs ----------------------------
(***************************************************************************)
(* How a client deals with its gateway.  First, what Gateway keeps for     *)
(* every number of calls, all parameters connectors may have and however   *)
(* often the gateways change; then what Keepalives keeps for any number of *)
(* retries, any capacity of the queues and any number of changes of the    *)
(* network and of rekeys.  The two specifications share no variable.       *)
(***************************************************************************)
EXTENDS Gateway, Keepalives, TLAPS

-----------------------------------------------------------------------------
(* Operators *)

\* The parameters of a call have a cell, and what a cell is kept for is what has to be trusted alike.
LEMMA KeyTrust ==
    ASSUME NEW p, NEW q
    PROVE  Key(p) = Key(q) <=> SameTrust(p, q)
  BY DEF Key, SameTrust

\* Every reply that is proper for a method is understood as one to it.
LEMMA ProperUnderstood ==
    ASSUME NEW method \in Methods, NEW reply \in ProperReplies(method)
    PROVE  Understood(method, reply)
<1> DEFINE fits == {i \in 1..Len(Kinds) : MarkOf[Kinds[i]] \in reply}
           first == CHOOSE i \in fits : \A j \in fits : i <= j
<1>1. \A i \in 1..Len(Kinds) : i \in {1, 2, 3, 4}
  BY DEF Kinds
<1>2. /\ {1, 2, 3, 4} = 1..Len(Kinds)
      /\ Kinds[1] = "Auth" /\ Kinds[2] = "ClientSettings"
      /\ Kinds[3] = "ServerInfo" /\ Kinds[4] = "Certificate"
  BY <1>1 DEF Kinds
<1>3. /\ MarkOf[Kinds[1]] = "authn_status" /\ MarkOf[Kinds[2]] = "settings"
      /\ MarkOf[Kinds[3]] = "connectivity" /\ MarkOf[Kinds[4]] = "error_code"
  BY <1>2 DEF MarkOf
<1>4. ASSUME NEW n \in {1, 2, 3, 4}, n \in fits, \A i \in {1, 2, 3, 4} : i < n => i \notin fits
      PROVE  ResponseData(reply) = Kinds[n]
  <2>1. \A j \in fits : n <= j
    BY <1>2, <1>4
  <2>2. first \in fits /\ \A j \in fits : first <= j
    BY <1>4, <2>1
  <2>3. first = n
    BY <1>2, <1>4, <2>1, <2>2
  <2>4. fits # {}
    BY <1>4
  <2>5. QED
    BY <2>3, <2>4 DEF ResponseData
<1> HIDE DEF first
<1>5. CASE method = "information"
  <2>1. reply = {"connectivity"}
    BY <1>5 DEF ProperReplies
  <2>2. ResponseData(reply) = "ServerInfo"
    BY <1>2, <1>3, <1>4, <2>1
  <2>3. QED
    BY <1>5, <2>1, <2>2 DEF Understood, IsError, Accepts
<1>6. CASE method \in {"authenticate", "challenge"}
  <2>1. reply \in {{"authn_status"}, {"authn_status", "error_code"}}
    BY <1>6 DEF ProperReplies
  <2>2. ResponseData(reply) = "Auth"
    BY <1>2, <1>3, <1>4, <2>1
  <2>3. QED
    BY <1>6, <2>1, <2>2 DEF Understood, IsError, Accepts
<1>7. CASE method = "settings"
  <2>1. reply = {"settings"}
    BY <1>7 DEF ProperReplies
  <2>2. ResponseData(reply) = "ClientSettings"
    BY <1>2, <1>3, <1>4, <2>1
  <2>3. QED
    BY <1>7, <2>1, <2>2 DEF Understood, IsError, Accepts
<1>8. CASE method \in {"enroll", "renew"}
  <2>1. reply = {"error_code"}
    BY <1>8 DEF ProperReplies
  <2>2. ResponseData(reply) = "Certificate"
    BY <1>2, <1>3, <1>4, <2>1
  <2>3. QED
    BY <1>8, <2>1, <2>2 DEF Understood, IsError, Accepts
<1>9. CASE method = "signout"
  <2>1. reply = {"other"}
    BY <1>9 DEF ProperReplies
  <2>2. fits = {}
    BY <1>2, <1>3, <2>1
  <2>3. ResponseData(reply) = "Generic"
    BY <2>2 DEF ResponseData
  <2>4. QED
    BY <1>9, <2>1, <2>3 DEF Understood, IsError, Accepts
<1>10. QED
  BY <1>5, <1>6, <1>7, <1>8, <1>9 DEF Methods

\* Only an authentication presents a certificate.
LEMMA IdentityOfAuthRequest ==
    ASSUME NEW method \in Methods, NEW p, WithIdentity(Request(method, p), p)
    PROVE  method = "authenticate"
  BY DEF WithIdentity, Request, Methods, NewAuthRequest, NewChallengeCodeRequest,
         NewClientSettingsRequest, NewSignoutRequest, NewClientHelloRequest,
         NewEnrollCertificateRequest, NewRenewCertificateRequest

-----------------------------------------------------------------------------
(* The invariant *)

\* Calls, cells and their holders have the declared types ...
Fields ==
    /\ call \in [Calls -> Call]
    /\ cells \in [Keys -> 0..MaxVersions] /\ version \in 1..MaxVersions
    /\ holder \in [Keys -> Calls \cup {NoCall}]
    /\ askedBy \in [Keys -> SUBSET Params]

\* ... a call asks for the information exactly while it holds its cell, and no other ...
HoldersAsk == \A c \in Calls, k \in Keys : holder[k] = c <=> Asks(c) /\ CellOf(c) = k

\* ... which is empty; what was asked was asked for that cell; and who was told knows what the cell holds ...
CellsAgree ==
    /\ \A k \in Keys : holder[k] # NoCall => cells[k] = 0
    /\ \A k \in Keys : \A p \in askedBy[k] : Key(p) = k
    /\ \A c \in Calls : call[c].told # 0 => call[c].told = cells[CellOf(c)]

\* ... as every login does that has come to authenticate.
LoginsInformed ==
    \A c \in Calls : call[c].login =>
        /\ call[c].method \in {"information", "authenticate"}
        /\ call[c].method = "authenticate" => call[c].told # 0
        /\ call[c].method = "authenticate" /\ call[c].at \in {"asked", "reads"}
           /\ WithIdentity(Request(call[c].method, call[c].params), call[c].params) => call[c].path = "told"

\* Only a call for the information waits for a cell.
WaitersAsk == \A c \in Calls : call[c].at = "waits" => call[c].method = "information"

Informed == Fields /\ HoldersAsk /\ CellsAgree /\ LoginsInformed /\ WaitersAsk

\* It is what the properties need.
LEMMA InformedImplies == Informed => TypeOK /\ AskedOnce /\ LoginsGoWell
<1> SUFFICES ASSUME Informed PROVE TypeOK /\ AskedOnce /\ LoginsGoWell
  OBVIOUS
<1> USE DEF Informed
<1>1. ASSUME NEW c \in Calls PROVE CellOf(c) \in Keys /\ call[c] \in Call
  BY DEF Fields, Call, CellOf, Keys
<1>2. TypeOK
  BY DEF Fields, HoldersAsk, Asks, CellOf, TypeOK
<1>3. ASSUME NEW c \in Calls, Asks(c)
      PROVE  /\ cells[CellOf(c)] = 0
             /\ \A d \in Calls \ {c} : Asks(d) => ~SameTrust(call[c].params, call[d].params)
  <2>1. cells[CellOf(c)] = 0
    BY <1>1, <1>3, GatewayAssumption DEF HoldersAsk, CellsAgree
  <2>2. \A d \in Calls \ {c} : Asks(d) => CellOf(d) # CellOf(c)
    BY <1>1, <1>3 DEF HoldersAsk
  <2>3. QED
    BY <2>1, <2>2, KeyTrust DEF CellOf
<1>4. ASSUME NEW c \in Calls, call[c].told # 0, NEW p \in askedBy[CellOf(c)]
      PROVE  SameTrust(p, call[c].params)
  <2>1. Key(p) = Key(call[c].params)
    BY <1>1, <1>4 DEF CellsAgree, CellOf
  <2>2. QED
    BY <2>1, KeyTrust
<1>5. AskedOnce
  BY <1>3, <1>4 DEF AskedOnce, CellsAgree
<1>6. ASSUME NEW c \in Calls, call[c].at \in {"asked", "reads"}
      PROVE  /\ call[c].login /\ WithIdentity(Request(call[c].method, call[c].params), call[c].params)
                    => call[c].path = "told"
             /\ \A reply \in ProperReplies(call[c].method) : Understood(call[c].method, reply)
  <2>1. call[c].method \in Methods
    BY <1>1 DEF Call
  <2>2. QED
    BY <1>6, <2>1, ProperUnderstood, IdentityOfAuthRequest DEF LoginsInformed
<1>7. QED
  BY <1>2, <1>5, <1>6 DEF LoginsGoWell

LEMMA InformedInit == Init => Informed
<1> SUFFICES ASSUME Init PROVE Informed
  OBVIOUS
<1>1. PICK p \in Params :
          call = [c \in Calls |-> [at |-> "idle", method |-> "information", login |-> FALSE,
                                   params |-> p, path |-> "none", told |-> 0]]
  BY GatewayAssumption DEF Init
<1>2. 0 \in 0..MaxVersions /\ 1 \in 1..MaxVersions
  BY GatewayAssumption
<1>3. Fields
  BY <1>1, <1>2 DEF Init, Fields, Call, Methods, Busy
<1>4. HoldersAsk
  BY <1>1, GatewayAssumption DEF Init, HoldersAsk, Asks
<1>5. CellsAgree
  BY <1>1 DEF Init, CellsAgree
<1>6. LoginsInformed
  BY <1>1 DEF LoginsInformed
<1>7. WaitersAsk
  BY <1>1 DEF WaitersAsk
<1>8. QED
  BY <1>3, <1>4, <1>5, <1>6, <1>7 DEF Informed

-----------------------------------------------------------------------------
(* Steps *)

\* What a step of one call leaves to the others.
LEMMA OthersKeep ==
    ASSUME NEW c \in Calls, \A d \in Calls \ {c} : call'[d] = call[d]
    PROVE  \A d \in Calls \ {c} : CellOf(d)' = CellOf(d) /\ (Asks(d)' <=> Asks(d))
  BY DEF CellOf, Asks

\* A login that did not change is as well informed as before.
LEMMA LoginsKeep ==
    ASSUME LoginsInformed, NEW c \in Calls, \A d \in Calls \ {c} : call'[d] = call[d],
           call'[c].login =>
               /\ call'[c].method \in {"information", "authenticate"}
               /\ call'[c].method = "authenticate" => call'[c].told # 0
               /\ call'[c].method = "authenticate" /\ call'[c].at \in {"asked", "reads"}
                  /\ WithIdentity(Request(call'[c].method, call'[c].params), call'[c].params)
                      => call'[c].path = "told"
    PROVE  LoginsInformed'
<1> SUFFICES ASSUME NEW d \in Calls, call'[d].login
             PROVE  /\ call'[d].method \in {"information", "authenticate"}
                    /\ call'[d].method = "authenticate" => call'[d].told # 0
                    /\ call'[d].method = "authenticate" /\ call'[d].at \in {"asked", "reads"}
                       /\ WithIdentity(Request(call'[d].method, call'[d].params), call'[d].params)
                           => call'[d].path = "told"
  BY DEF LoginsInformed
<1>1. CASE d = c
  BY <1>1
<1>2. CASE d # c
  BY <1>2 DEF LoginsInformed
<1>3. QED
  BY <1>1, <1>2

\* A call that is not idle keeps its parameters; it ends, and gives up the cell it may hold.
LEMMA InformedEnd ==
    ASSUME Informed, NEW c \in Calls, Becomes(c, "done", "none"), Release(c),
           UNCHANGED <<cells, version, askedBy>>
    PROVE  Informed'
<1> USE DEF Informed
<1>1. /\ \A d \in Calls \ {c} : call'[d] = call[d]
      /\ call' \in [Calls -> Call]
      /\ call'[c].at = "done" /\ call'[c].told = call[c].told /\ call'[c].params = call[c].params
      /\ call'[c].login = call[c].login /\ call'[c].method = call[c].method
  BY DEF Becomes, Fields, Call
<1>2. \A d \in Calls : call'[d].told = call[d].told /\ CellOf(d)' = CellOf(d)
  BY <1>1 DEF CellOf
<1>3. \A k \in Keys : holder'[k] = IF holder[k] = c THEN NoCall ELSE holder[k]
  BY DEF Release
<1>4. Fields'
  BY <1>1 DEF Fields, Release
<1>5. HoldersAsk'
  <2>1. ~Asks(c)'
    BY <1>1 DEF Asks
  <2>2. ASSUME NEW d \in Calls, NEW k \in Keys
        PROVE  holder'[k] = d <=> Asks(d)' /\ CellOf(d)' = k
    <3>1. CASE d = c
      BY <1>3, <2>1, <3>1, GatewayAssumption
    <3>2. CASE d # c
      <4>1. (Asks(d)' <=> Asks(d)) /\ CellOf(d)' = CellOf(d)
        BY <1>1, <3>2, OthersKeep
      <4>2. holder'[k] = d <=> holder[k] = d
        BY <1>3, <3>2, GatewayAssumption
      <4>3. QED
        BY <4>1, <4>2 DEF HoldersAsk
    <3>3. QED
      BY <3>1, <3>2
  <2>3. QED
    BY <2>2 DEF HoldersAsk
<1>6. CellsAgree'
  BY <1>2, <1>3 DEF CellsAgree
<1>7. LoginsInformed'
  BY <1>1, LoginsKeep DEF LoginsInformed
<1>8. WaitersAsk'
  BY <1>1 DEF WaitersAsk
<1>9. QED
  BY <1>4, <1>5, <1>6, <1>7, <1>8

LEMMA InformedStart ==
    ASSUME Informed, NEW c \in Calls, NEW program \in Programs[c], NEW p \in Params,
           Start(c, program, p)
    PROVE  Informed'
<1> USE DEF Informed
<1>1. program \in Methods \cup {"login"}
  BY GatewayAssumption
<1>2. /\ \A d \in Calls \ {c} : call'[d] = call[d]
      /\ call'[c] = [at |-> IF program \in {"login", "information"} THEN "waits" ELSE "ready",
                     method |-> IF program = "login" THEN "information" ELSE program,
                     login |-> program = "login", params |-> p, path |-> "none", told |-> 0]
      /\ DOMAIN call' = Calls /\ DOMAIN call = Calls
  BY DEF Start, Fields
<1>3. call'[c] \in Call
  BY <1>1, <1>2, GatewayAssumption DEF Call, Busy, Methods
<1>4. call' \in [Calls -> Call]
  BY <1>2, <1>3 DEF Start, Fields
<1>5. UNCHANGED <<cells, holder, version, askedBy>>
  BY DEF Start
<1>6. ~Asks(c) /\ ~Asks(c)'
  BY <1>2 DEF Start, Asks
<1>7. HoldersAsk'
  <2>1. ASSUME NEW d \in Calls, NEW k \in Keys
        PROVE  holder'[k] = d <=> Asks(d)' /\ CellOf(d)' = k
    BY <1>2, <1>5, <1>6, OthersKeep DEF HoldersAsk
  <2>2. QED
    BY <2>1 DEF HoldersAsk
<1>8. CellsAgree'
  <2>1. \A d \in Calls : call'[d].told # 0 => call'[d] = call[d]
    BY <1>2
  <2>2. QED
    BY <1>5, <2>1 DEF CellsAgree, CellOf
<1>9. LoginsInformed'
  <2>1. call'[c].login => call'[c].method = "information"
    <3>1. CASE program = "login"
      BY <1>2, <3>1
    <3>2. CASE program # "login"
      <4>1. call'[c].login = (program = "login")
        BY <1>2
      <4>2. QED
        BY <3>2, <4>1
    <3>3. QED
      BY <3>1, <3>2
  <2>2. QED
    BY <1>2, <2>1, LoginsKeep
<1>10. WaitersAsk'
  BY <1>2 DEF WaitersAsk
<1>11. QED
  BY <1>4, <1>5, <1>7, <1>8, <1>9, <1>10 DEF Fields

\* Who initialises a cell finds it empty and free.
LEMMA InformedInitialise ==
    ASSUME Informed, NEW c \in Calls, Initialise(c)
    PROVE  Informed'
<1> USE DEF Informed
<1>1. /\ \A d \in Calls \ {c} : call'[d] = call[d]
      /\ call' \in [Calls -> Call]
      /\ call'[c].at = "ready" /\ call'[c].told = call[c].told /\ call'[c].params = call[c].params
      /\ call'[c].login = call[c].login /\ call'[c].method = call[c].method
  BY DEF Initialise, Becomes, Fields, Call, Busy
<1>2. \A d \in Calls : call'[d].told = call[d].told /\ CellOf(d)' = CellOf(d)
  BY <1>1 DEF CellOf
<1>3. CellOf(c) \in Keys
  BY DEF Fields, Call, CellOf, Keys
<1>4. /\ \A k \in Keys : holder'[k] = IF k = CellOf(c) THEN c ELSE holder[k]
      /\ UNCHANGED <<cells, version, askedBy>>
      /\ cells[CellOf(c)] = 0 /\ holder[CellOf(c)] = NoCall
  BY DEF Initialise, Fields
<1>5. Fields'
  BY <1>1, <1>4 DEF Fields, Initialise
<1>6. HoldersAsk'
  <2>1. ~Asks(c) /\ Asks(c)' /\ CellOf(c)' = CellOf(c)
    <3>1. call[c].at = "waits"
      BY DEF Initialise
    <3>2. call[c].method = "information"
      BY <3>1 DEF WaitersAsk
    <3>3. QED
      BY <1>1, <1>2, <3>1, <3>2 DEF Asks
  <2>2. ASSUME NEW d \in Calls, NEW k \in Keys
        PROVE  holder'[k] = d <=> Asks(d)' /\ CellOf(d)' = k
    <3>1. CASE d = c
      <4>1. holder[k] # c
        BY <2>1 DEF HoldersAsk
      <4>2. QED
        BY <1>4, <2>1, <3>1, <4>1
    <3>2. CASE d # c
      <4>1. (Asks(d)' <=> Asks(d)) /\ CellOf(d)' = CellOf(d)
        BY <1>1, <3>2, OthersKeep
      <4>2. holder'[k] = d <=> holder[k] = d
        BY <1>4, <3>2, GatewayAssumption
      <4>3. QED
        BY <4>1, <4>2 DEF HoldersAsk
    <3>3. QED
      BY <3>1, <3>2
  <2>3. QED
    BY <2>2 DEF HoldersAsk
<1>7. CellsAgree'
  BY <1>2, <1>4 DEF CellsAgree
<1>8. LoginsInformed'
  BY <1>1, LoginsKeep DEF LoginsInformed
<1>9. WaitersAsk'
  BY <1>1 DEF WaitersAsk
<1>10. QED
  BY <1>5, <1>6, <1>7, <1>8, <1>9

\* A request is sent by the path that fits what is known.
LEMMA InformedSend ==
    ASSUME Informed, NEW c \in Calls, Send(c)
    PROVE  Informed'
<1> USE DEF Informed
<1> DEFINE signed == WithIdentity(Request(call[c].method, call[c].params), call[c].params)
           path == IF ~signed THEN "clients" ELSE IF cells[CellOf(c)] # 0 THEN "told" ELSE "cert"
<1>1. call[c].at = "ready" /\ call' = [call EXCEPT ![c].at = "asked", ![c].path = path]
      /\ UNCHANGED <<cells, holder, version, askedBy>>
  BY DEF Send, Becomes
<1>2. path \in {"clients", "told", "cert"} /\ (signed /\ cells[CellOf(c)] # 0 => path = "told")
  OBVIOUS
<1> HIDE DEF path
<1>3. /\ \A d \in Calls \ {c} : call'[d] = call[d]
      /\ call' \in [Calls -> Call]
      /\ call'[c].at = "asked" /\ call'[c].told = call[c].told /\ call'[c].params = call[c].params
      /\ call'[c].login = call[c].login /\ call'[c].method = call[c].method /\ call'[c].path = path
  BY <1>1, <1>2 DEF Fields, Call, Busy
<1>4. \A d \in Calls : /\ call'[d].told = call[d].told
                       /\ CellOf(d)' = CellOf(d)
                       /\ Asks(d)' <=> Asks(d)
  BY <1>1, <1>3 DEF CellOf, Asks
<1>5. Fields'
  BY <1>1, <1>3 DEF Fields
<1>6. HoldersAsk'
  BY <1>1, <1>4 DEF HoldersAsk
<1>7. CellsAgree'
  BY <1>1, <1>4 DEF CellsAgree
<1>8. LoginsInformed'
  <2>1. ASSUME call[c].login, call[c].method = "authenticate", signed
        PROVE  call'[c].path = "told"
    BY <1>2, <1>3, <2>1 DEF LoginsInformed, CellsAgree
  <2>2. QED
    BY <1>3, <2>1, LoginsKeep DEF LoginsInformed
<1>9. WaitersAsk'
  BY <1>3 DEF WaitersAsk
<1>10. QED
  BY <1>5, <1>6, <1>7, <1>8, <1>9

LEMMA InformedHeaders ==
    ASSUME Informed, NEW c \in Calls, Headers(c)
    PROVE  Informed'
<1> USE DEF Informed
<1>1. call[c].at = "asked" /\ call' = [call EXCEPT ![c].at = "reads", ![c].path = call[c].path]
      /\ UNCHANGED <<cells, holder, version, askedBy>>
  BY DEF Headers, Becomes
<1>2. /\ \A d \in Calls \ {c} : call'[d] = call[d]
      /\ call' \in [Calls -> Call]
      /\ call'[c].at = "reads" /\ call'[c].told = call[c].told /\ call'[c].params = call[c].params
      /\ call'[c].login = call[c].login /\ call'[c].method = call[c].method /\ call'[c].path = call[c].path
  BY <1>1 DEF Fields, Call, Busy
<1>3. \A d \in Calls : /\ call'[d].told = call[d].told
                       /\ CellOf(d)' = CellOf(d)
                       /\ Asks(d)' <=> Asks(d)
  BY <1>1, <1>2 DEF CellOf, Asks
<1>4. Fields' /\ HoldersAsk' /\ CellsAgree'
  BY <1>1, <1>2, <1>3 DEF Fields, HoldersAsk, CellsAgree
<1>5. LoginsInformed'
  <2>1. call[c].at = "asked" /\ LoginsInformed
    BY <1>1
  <2>2. QED
    BY <1>2, <2>1, LoginsKeep DEF LoginsInformed
<1>6. WaitersAsk'
  BY <1>2 DEF WaitersAsk
<1>7. QED
  BY <1>4, <1>5, <1>6

\* Whoever is told what its cell holds, and holds no cell, goes on or ends informed.
LEMMA InformedTold ==
    ASSUME Informed, NEW c \in Calls, NEW information \in 1..MaxVersions, Told(c, information),
           call[c].method = "information",
           \A d \in Calls, k \in Keys : holder'[k] = d <=> holder[k] = d /\ d # c,
           holder' \in [Keys -> Calls \cup {NoCall}], cells' \in [Keys -> 0..MaxVersions],
           askedBy' \in [Keys -> SUBSET Params], version' = version,
           cells'[CellOf(c)] = information,
           \A k \in Keys : \/ cells'[k] = cells[k] /\ askedBy'[k] = askedBy[k]
                           \/ /\ k = CellOf(c) /\ holder[k] = c
                              /\ askedBy'[k] = {call[c].params}
    PROVE  Informed'
<1> USE DEF Informed
<1>1. /\ \A d \in Calls \ {c} : call'[d] = call[d]
      /\ call'[c].told = information /\ call'[c].params = call[c].params
      /\ call'[c].login = call[c].login /\ call'[c].at \in {"ready", "done"}
      /\ call'[c].login => call'[c].method = "authenticate" /\ call'[c].at = "ready"
      /\ ~call'[c].login => call'[c].at = "done"
  BY DEF Told, Fields, Call
<1>2. call' \in [Calls -> Call]
  <2>1. information \in 0..MaxVersions
    BY GatewayAssumption
  <2> DEFINE at == IF call[c].login THEN "ready" ELSE "done"
             method == IF call[c].login THEN "authenticate" ELSE call[c].method
  <2>2. call' = [call EXCEPT ![c].told = information, ![c].path = "none", ![c].at = at,
                             ![c].method = method]
    BY DEF Told, Fields
  <2>3. at \in {"ready", "done"} /\ method \in Methods
    BY DEF Methods
  <2> HIDE DEF at, method
  <2>4. call[c] \in Call /\ DOMAIN call = Calls
    BY DEF Fields
  <2>5. [call[c] EXCEPT !.told = information, !.path = "none", !.at = at, !.method = method] \in Call
    BY <2>1, <2>3, <2>4 DEF Call, Busy
  <2>6. call' = [call EXCEPT ![c] = [call[c] EXCEPT !.told = information, !.path = "none", !.at = at,
                                                    !.method = method]]
    BY <2>2, <2>4
  <2>7. QED
    BY <2>5, <2>6 DEF Fields
<1>3. \A d \in Calls : CellOf(d)' = CellOf(d) /\ CellOf(d) \in Keys
  BY <1>1 DEF CellOf, Fields, Call, Keys
<1>4. Fields'
  BY <1>2 DEF Fields
<1>5. ~Asks(c)'
  BY <1>1 DEF Asks
<1>6. HoldersAsk'
  <2>1. ASSUME NEW d \in Calls, NEW k \in Keys
        PROVE  holder'[k] = d <=> Asks(d)' /\ CellOf(d)' = k
    <3>1. CASE d = c
      BY <1>5, <3>1
    <3>2. CASE d # c
      <4>1. (Asks(d)' <=> Asks(d)) /\ CellOf(d)' = CellOf(d)
        BY <1>1, <3>2, OthersKeep
      <4>2. QED
        BY <3>2, <4>1 DEF HoldersAsk
    <3>3. QED
      BY <3>1, <3>2
  <2>2. QED
    BY <2>1 DEF HoldersAsk
<1>7. CellsAgree'
  <2>1. ASSUME NEW k \in Keys, holder'[k] # NoCall PROVE cells'[k] = 0
    <3>1. PICK d \in Calls \ {c} : holder[k] = d
      BY <2>1 DEF Fields
    <3>2. cells[k] = 0 /\ holder[k] # c
      BY <3>1, GatewayAssumption DEF CellsAgree
    <3>3. QED
      BY <3>2
  <2>2. ASSUME NEW k \in Keys, NEW p \in askedBy'[k] PROVE Key(p) = k
    BY <2>2 DEF CellsAgree, CellOf
  <2>3. ASSUME NEW d \in Calls, call'[d].told # 0 PROVE call'[d].told = cells'[CellOf(d)']
    <3>1. CASE d = c
      BY <1>1, <1>3, <3>1
    <3>2. CASE d # c
      <4>1. call[d].told # 0 /\ call[d].told = cells[CellOf(d)] /\ call'[d].told = call[d].told
        BY <1>1, <2>3, <3>2 DEF CellsAgree
      <4>2. holder[CellOf(d)] # c
        BY <1>3, <4>1, GatewayAssumption DEF CellsAgree
      <4>3. QED
        BY <1>3, <4>1, <4>2
    <3>3. QED
      BY <3>1, <3>2
  <2>4. QED
    BY <2>1, <2>2, <2>3 DEF CellsAgree
<1>8. LoginsInformed'
  BY <1>1, LoginsKeep
<1>9. WaitersAsk'
  BY <1>1 DEF WaitersAsk
<1>10. QED
  BY <1>4, <1>6, <1>7, <1>8, <1>9

LEMMA InformedKnown ==
    ASSUME Informed, NEW c \in Calls, Known(c)
    PROVE  Informed'
<1> DEFINE information == cells[CellOf(c)]
<1>1. /\ call[c].at = "waits" /\ information # 0 /\ Told(c, information)
      /\ UNCHANGED <<cells, holder, version, askedBy>>
  BY DEF Known
<1>2. information \in 1..MaxVersions
  BY <1>1, GatewayAssumption DEF Informed, Fields, Call, CellOf, Keys
<1>3. call[c].method = "information" /\ ~Asks(c)
  BY <1>1 DEF Informed, WaitersAsk, Asks
<1>4. \A k \in Keys : holder[k] # c
  BY <1>3 DEF Informed, HoldersAsk
<1>5. \A d \in Calls, k \in Keys : holder'[k] = d <=> holder[k] = d /\ d # c
  BY <1>1, <1>4
<1>6. /\ holder' \in [Keys -> Calls \cup {NoCall}] /\ cells' \in [Keys -> 0..MaxVersions]
      /\ askedBy' \in [Keys -> SUBSET Params] /\ version' = version /\ cells'[CellOf(c)] = information
      /\ \A k \in Keys : cells'[k] = cells[k] /\ askedBy'[k] = askedBy[k]
  BY <1>1 DEF Informed, Fields
<1> HIDE DEF information
<1>7. QED
  BY <1>1, <1>2, <1>3, <1>5, <1>6, InformedTold

LEMMA InformedAnswered ==
    ASSUME Informed, NEW c \in Calls, NEW reply, Answered(c, reply)
    PROVE  Informed'
<1>1. CASE call[c].method = "information"
  <2>1. /\ Told(c, version) /\ Release(c) /\ version' = version /\ call[c].at = "reads"
        /\ cells' = [cells EXCEPT ![CellOf(c)] = version]
        /\ askedBy' = [askedBy EXCEPT ![CellOf(c)] = {call[c].params}]
    BY <1>1 DEF Answered
  <2>2. version \in 1..MaxVersions /\ version \in 0..MaxVersions
    BY GatewayAssumption DEF Informed, Fields
  <2>3. CellOf(c) \in Keys /\ call[c].params \in Params /\ holder[CellOf(c)] = c
    <3>1. CellOf(c) \in Keys /\ call[c].params \in Params
      BY DEF Informed, Fields, Call, CellOf, Keys
    <3>2. Asks(c)
      BY <1>1, <2>1 DEF Asks
    <3>3. QED
      BY <3>1, <3>2 DEF Informed, HoldersAsk
  <2>4. \A d \in Calls, k \in Keys : holder'[k] = d <=> holder[k] = d /\ d # c
    BY <2>1, GatewayAssumption DEF Release
  <2>5. holder' \in [Keys -> Calls \cup {NoCall}]
    BY <2>1 DEF Release, Informed, Fields
  <2>6. cells' \in [Keys -> 0..MaxVersions] /\ askedBy' \in [Keys -> SUBSET Params]
    BY <2>1, <2>2, <2>3 DEF Informed, Fields
  <2>7. /\ cells'[CellOf(c)] = version
        /\ \A k \in Keys : \/ cells'[k] = cells[k] /\ askedBy'[k] = askedBy[k]
                           \/ /\ k = CellOf(c) /\ holder[k] = c
                              /\ askedBy'[k] = {call[c].params}
    BY <2>1, <2>3 DEF Informed, Fields
  <2>8. QED
    BY <1>1, <2>1, <2>2, <2>4, <2>5, <2>6, <2>7, InformedTold
<1>2. CASE call[c].method # "information"
  BY <1>2, InformedEnd DEF Answered
<1>3. QED
  BY <1>1, <1>2

LEMMA InformedNext == Informed /\ [Next]_vars => Informed'
<1> SUFFICES ASSUME Informed, [Next]_vars PROVE Informed'
  OBVIOUS
<1>1. CASE UNCHANGED <<call, cells, holder, askedBy>> /\ version' \in 1..MaxVersions
  BY <1>1 DEF Informed, Fields, HoldersAsk, CellsAgree, LoginsInformed, WaitersAsk, Asks, CellOf
<1>2. CASE UNCHANGED vars
  BY <1>1, <1>2 DEF vars, Informed, Fields
<1>3. CASE GatewayChanges
  <2>1. version' \in 1..MaxVersions
    BY <1>3, GatewayAssumption DEF GatewayChanges, Informed, Fields
  <2>2. QED
    BY <1>1, <1>3, <2>1 DEF GatewayChanges
<1>4. ASSUME NEW c \in Calls, NEW program \in Programs[c], NEW p \in Params, Start(c, program, p)
      PROVE  Informed'
  BY <1>4, InformedStart
<1>5. ASSUME NEW c \in Calls, Known(c) \/ Initialise(c) \/ Send(c) \/ Headers(c)
      PROVE  Informed'
  BY <1>5, InformedKnown, InformedInitialise, InformedSend, InformedHeaders
<1>6. ASSUME NEW c \in Calls, SendFails(c) \/ NoAnswer(c) \/ BreaksOff(c) \/ Dropped(c)
      PROVE  Informed'
  BY <1>6, InformedEnd DEF SendFails, NoAnswer, BreaksOff, Dropped, Fails
<1>7. ASSUME NEW c \in Calls, NEW reply, Answered(c, reply) \/ NotUnderstood(c, reply)
      PROVE  Informed'
  BY <1>7, InformedAnswered, InformedEnd DEF NotUnderstood, Fails
<1>8. QED
  BY <1>2, <1>3, <1>4, <1>5, <1>6, <1>7 DEF Next, Ends

-----------------------------------------------------------------------------
(* Theorems *)

\* Every variable keeps its type, and who initialises a cell is a call that asks for it.
THEOREM GatewayTypes == Spec => []TypeOK
  BY InformedInit, InformedNext, InformedImplies, PTL DEF Spec

\* One call at a time asks a gateway what nobody knows yet, and everybody who is told what it
\* said is told the same, by somebody who trusted it as they do.
THEOREM InformationAskedOnce == Spec => []AskedOnce
  BY InformedInit, InformedNext, InformedImplies, PTL DEF Spec

\* A login that presents a certificate goes where the gateway said, and what a gateway properly
\* replies to a request is understood as a reply to it.
THEOREM LoginsAreUnderstood == Spec => []LoginsGoWell
  BY InformedInit, InformedNext, InformedImplies, PTL DEF Spec

-----------------------------------------------------------------------------
(* Keepalives: the count of unanswered keepalives *)

\* While a runner can still count one more, it has room: the check before fetch_add (ssl/keepalive.rs:46-55), the
\* return at the maximum (ipsec/keepalive.rs:106-110).
RoomToCount ==
    /\ kind = "ssl" /\ runner.at = "count" => runner.failures < Max
    /\ kind = "tun" /\ ~Stopped => runner.failures < Max

\* Every failure counted by the SSL tunnel is a keepalive begun since a packet last came in, unless that packet has
\* not been handled yet or never will be.
SslAccounted ==
    kind = "ssl" => runner.failures <= unanswered \/ incoming # <<>> \/ receiver # "waits"

\* Of the IPsec tunnel the keepalive that is waited for, too, is one of those begun.
InFlight == IF runner.at \in {"wait", "refused"} THEN 1 ELSE 0

TunAccounted ==
    kind = "tun" =>
        /\ runner.failures + InFlight <= unanswered \/ replies > 0 \/ refused
        /\ runner.at = "refused" => refused

\* The flags are Boolean, ...
Flags ==
    armed \in BOOLEAN /\ online \in BOOLEAN /\ ready \in BOOLEAN /\ refused \in BOOLEAN

\* ... and everything else has its type; no step needs the flags to keep it.
Ranges ==
    /\ kind \in TunnelKinds
    /\ tunnel \in {"up", "sendsKeepalive", "sendsData", "ended"}
    /\ runner \in [at : {"check", "count", "send", "wait", "refused", "sleep"} \cup Stops, failures : 0..Max]
    /\ receiver \in {"waits", "writes", "ended"} /\ wire \in {"open", "closed"}
    /\ outgoing \in Seq({"keepalive", "data"}) /\ Len(outgoing) <= Capacity
    /\ incoming \in Seq({"reply", "data"}) /\ Len(incoming) <= Capacity
    /\ device \in 0..MaxTravel /\ asked \in 0..MaxTravel /\ replies \in 0..MaxTravel
    /\ gateway \in {"alive", "dead"} /\ unanswered \in 0..Max
    /\ changes \in 0..MaxChanges /\ rekeys \in 0..MaxRekeys

Accounted == Ranges /\ RoomToCount /\ SslAccounted /\ TunAccounted

-----------------------------------------------------------------------------
(* Accounted is inductive *)

\* A tunnel starts with nothing counted.
LEMMA AccountedInit == KeepaliveInit => Accounted
<1> SUFFICES ASSUME KeepaliveInit PROVE Accounted
  OBVIOUS
<1>1. Max \in Nat \ {0}
  BY KeepalivesAssumption DEF KeepaliveInit, Max
<1>2. Ranges
  BY <1>1, KeepalivesAssumption DEF KeepaliveInit, Ranges
<1>3. QED
  BY <1>1, <1>2 DEF KeepaliveInit, Accounted, RoomToCount, SslAccounted, TunAccounted, InFlight, Stopped, Stops

\* A packet fits into a queue that is not full.
LEMMA AppendFits ==
    ASSUME NEW Packets, NEW queue \in Seq(Packets), NEW packet \in Packets, Len(queue) < Capacity
    PROVE  Append(queue, packet) \in Seq(Packets) /\ Len(Append(queue, packet)) <= Capacity
  BY KeepalivesAssumption

\* Every step keeps what it changes within its range: a counter is raised only where there is room for it.
LEMMA RangesNext == Accounted /\ [KeepaliveNext]_keepaliveVars => Ranges'
<1> SUFFICES ASSUME Accounted, [KeepaliveNext]_keepaliveVars PROVE Ranges'
  OBVIOUS
<1> USE KeepalivesAssumption DEF Accounted, Ranges, RoomToCount, Stopped, Stops, Max,
            fixed, network, rekeying, sending, channel, remote, history
<1>0. Max \in Nat \ {0}
  BY KeepalivesAssumption
<1>1. CASE UNCHANGED keepaliveVars
  BY <1>0, <1>1 DEF keepaliveVars
<1>2. CASE SslCheck
  BY <1>0, <1>2 DEF SslCheck, Moves
<1>3. CASE SslCount
  BY <1>0, <1>3 DEF SslCount, Counted
<1>4. CASE SslSend
  BY <1>0, <1>4, SMTT(20) DEF SslSend, Moves
<1>5. CASE SslSendFails
  BY <1>0, <1>5 DEF SslSendFails, Moves
<1>6. CASE TunCheck
  BY <1>0, <1>6, SMTT(20) DEF TunCheck, Counted, Moves
<1>7. CASE TunIdles
  BY <1>0, <1>7 DEF TunIdles
<1>8. CASE TunReply
  BY <1>0, <1>8 DEF TunReply, SocketReceives
<1>9. CASE TunFailure
  BY <1>0, <1>9 DEF TunFailure, SocketReceives, SocketTimesOut
<1>10. CASE Wake
  BY <1>0, <1>10 DEF Wake, Moves
<1>11. CASE Terminate
  BY <1>0, <1>11 DEF Terminate, TunnelEnds
<1>12. CASE KeepaliveFailed
  BY <1>0, <1>12 DEF KeepaliveFailed, TunnelEnds
<1>13. CASE ReadDevice
  BY <1>0, <1>13 DEF ReadDevice
<1>14. CASE TunnelSend
  BY <1>0, <1>14 DEF TunnelSend
<1>15. CASE TunnelSendFails
  BY <1>0, <1>15 DEF TunnelSendFails, TunnelEnds
<1>16. CASE StartRekey
  BY <1>0, <1>16 DEF StartRekey
<1>17. CASE Rekeyed
  BY <1>0, <1>17 DEF Rekeyed
<1>18. CASE SslReceive
  BY <1>0, <1>18 DEF SslReceive, ResetCounter
<1>19. CASE SslWrite
  <2>1. CASE receiver' = "waits" /\ ResetCounter /\ UNCHANGED incoming
    BY <1>0, <1>19, <2>1, SMTT(20) DEF SslWrite, ResetCounter
  <2>2. CASE receiver' = "ended" /\ incoming' = <<>> /\ UNCHANGED runner
    BY <1>0, <1>19, <2>2 DEF SslWrite
  <2>3. QED
    BY <1>19, <2>1, <2>2 DEF SslWrite
<1>20. CASE TunReceive
  BY <1>0, <1>20 DEF TunReceive
<1>21. CASE ReceiverEnds
  BY <1>0, <1>21 DEF ReceiverEnds
<1>22. CASE ChannelEnds
  BY <1>0, <1>22 DEF ChannelEnds
<1>23. CASE ConnectionCloses
  BY <1>0, <1>23 DEF ConnectionCloses
<1>24. CASE PacketLeaves
  BY <1>0, <1>24 DEF PacketLeaves
<1>25. CASE GatewayReplies \/ GatewaySends
  <2>1. /\ asked' \in 0..MaxTravel
        /\ \E packet \in {"reply", "data"} : PacketArrives(packet)
    BY <1>0, <1>25 DEF GatewayReplies, GatewaySends
  <2>2. incoming' \in Seq({"reply", "data"}) /\ Len(incoming') <= Capacity
    <3>1. PICK packet \in {"reply", "data"} : PacketArrives(packet)
      BY <2>1
    <3>2. \/ incoming' = Append(incoming, packet) /\ Len(incoming) < Capacity
          \/ incoming' = incoming
      BY <3>1 DEF PacketArrives
    <3>3. CASE incoming' = Append(incoming, packet) /\ Len(incoming) < Capacity
      BY <3>3, AppendFits
    <3>4. QED
      BY <3>2, <3>3
  <2>3. unanswered' \in {0, unanswered} /\ wire' \in {"open", "closed"} /\ outgoing' \in {<<>>, outgoing}
    BY <2>1 DEF PacketArrives
  <2>4. UNCHANGED <<fixed, network, rekeying, sending, runner, receiver, gateway, replies>>
    BY <2>1 DEF PacketArrives
  <2>5. outgoing' \in Seq({"keepalive", "data"}) /\ Len(outgoing') <= Capacity
    <3>1. CASE outgoing' = <<>>
      BY <3>1
    <3>2. CASE outgoing' = outgoing
      BY <3>2
    <3>3. QED
      BY <2>3, <3>1, <3>2
  <2>6. unanswered' \in 0..Max
    BY <1>0, <2>3
  <2>7. QED
    BY <2>1, <2>2, <2>3, <2>4, <2>5, <2>6
<1>26. CASE ReplyLost
  BY <1>0, <1>26 DEF ReplyLost
<1>27. CASE GatewayDies
  BY <1>0, <1>27 DEF GatewayDies
<1>28. CASE NetworkChanges
  BY <1>0, <1>28 DEF NetworkChanges, IsOnline
<1>29. QED
  BY <1>1, <1>2, <1>3, <1>4, <1>5, <1>6, <1>7, <1>8, <1>9, <1>10, <1>11, <1>12, <1>13, <1>14, <1>15,
     <1>16, <1>17, <1>18, <1>19, <1>20, <1>21, <1>22, <1>23, <1>24, <1>25, <1>26, <1>27, <1>28
     DEF KeepaliveNext, Runner, SslRunner, TunRunner, Tunnel, Receiver, Channel, Remote

\* Every step keeps the account: a count is raised only with a keepalive begun, a failure is what became of the one in
\* flight, and the history is cleared only by a packet that comes in, which resets the count when it is handled.
LEMMA AccountNext == Accounted /\ [KeepaliveNext]_keepaliveVars => (RoomToCount /\ SslAccounted /\ TunAccounted)'
<1> SUFFICES ASSUME Accounted, [KeepaliveNext]_keepaliveVars PROVE (RoomToCount /\ SslAccounted /\ TunAccounted)'
  OBVIOUS
<1> USE DEF Accounted, Ranges, RoomToCount, SslAccounted, TunAccounted, InFlight, Stopped, Stops, Max,
            fixed, network, rekeying, sending, channel, remote, history
<1>0. Max \in Nat \ {0}
  BY KeepalivesAssumption
<1>1. CASE UNCHANGED keepaliveVars
  BY <1>0, <1>1 DEF keepaliveVars
<1>2. CASE SslCheck
  BY <1>0, <1>2 DEF SslCheck, Moves
<1>3. CASE SslCount
  BY <1>0, <1>3 DEF SslCount, Counted
<1>4. CASE SslSend
  BY <1>0, <1>4 DEF SslSend, Moves
<1>5. CASE SslSendFails
  BY <1>0, <1>5 DEF SslSendFails, Moves
<1>6. CASE TunCheck
  BY <1>0, <1>6 DEF TunCheck, Counted, Moves
<1>7. CASE TunIdles
  BY <1>0, <1>7 DEF TunIdles
<1>8. CASE TunReply
  BY <1>0, <1>8 DEF TunReply, SocketReceives
<1>9. CASE TunFailure
  BY <1>0, <1>9 DEF TunFailure, SocketReceives, SocketTimesOut
<1>10. CASE Wake
  BY <1>0, <1>10 DEF Wake, Moves
<1>11. CASE Terminate
  BY <1>0, <1>11 DEF Terminate, TunnelEnds
<1>12. CASE KeepaliveFailed
  BY <1>0, <1>12 DEF KeepaliveFailed, TunnelEnds
<1>13. CASE ReadDevice
  BY <1>0, <1>13 DEF ReadDevice
<1>14. CASE TunnelSend
  BY <1>0, <1>14 DEF TunnelSend
<1>15. CASE TunnelSendFails
  BY <1>0, <1>15 DEF TunnelSendFails, TunnelEnds
<1>16. CASE StartRekey
  BY <1>0, <1>16 DEF StartRekey
<1>17. CASE Rekeyed
  BY <1>0, <1>17 DEF Rekeyed
<1>18. CASE SslReceive
  BY <1>0, <1>18 DEF SslReceive, ResetCounter
<1>19. CASE SslWrite
  BY <1>0, <1>19 DEF SslWrite, ResetCounter
<1>20. CASE TunReceive
  BY <1>0, <1>20 DEF TunReceive
<1>21. CASE ReceiverEnds
  BY <1>0, <1>21 DEF ReceiverEnds
<1>22. CASE ChannelEnds
  BY <1>0, <1>22 DEF ChannelEnds
<1>23. CASE ConnectionCloses
  BY <1>0, <1>23 DEF ConnectionCloses
<1>24. CASE PacketLeaves
  BY <1>0, <1>24 DEF PacketLeaves
<1>25. CASE GatewayReplies
  BY <1>0, <1>25 DEF GatewayReplies, PacketArrives
<1>26. CASE GatewaySends
  BY <1>0, <1>26 DEF GatewaySends, PacketArrives
<1>27. CASE ReplyLost
  BY <1>0, <1>27 DEF ReplyLost
<1>28. CASE GatewayDies
  BY <1>0, <1>28 DEF GatewayDies
<1>29. CASE NetworkChanges
  BY <1>0, <1>29 DEF NetworkChanges, IsOnline
<1>30. QED
  BY <1>1, <1>2, <1>3, <1>4, <1>5, <1>6, <1>7, <1>8, <1>9, <1>10, <1>11, <1>12, <1>13, <1>14, <1>15,
     <1>16, <1>17, <1>18, <1>19, <1>20, <1>21, <1>22, <1>23, <1>24, <1>25, <1>26, <1>27, <1>28, <1>29
     DEF KeepaliveNext, Runner, SslRunner, TunRunner, Tunnel, Receiver, Channel, Remote

LEMMA AccountedNext == Accounted /\ [KeepaliveNext]_keepaliveVars => Accounted'
  BY RangesNext, AccountNext DEF Accounted

LEMMA AlwaysAccounted == KeepaliveSpec => []Accounted
  BY AccountedInit, AccountedNext, PTL DEF KeepaliveSpec

-----------------------------------------------------------------------------
(* The theorems about keepalives *)

\* No step gives a flag another value than TRUE or FALSE.
LEMMA FlagsNext == Flags /\ [KeepaliveNext]_keepaliveVars => Flags'
<1> SUFFICES ASSUME Flags, [KeepaliveNext]_keepaliveVars PROVE Flags'
  OBVIOUS
<1> USE DEF Flags, fixed, network, rekeying, sending, channel, remote, history
<1>1. CASE UNCHANGED keepaliveVars
  BY <1>1 DEF keepaliveVars
<1>2. CASE SslRunner \/ Wake
  BY <1>2 DEF SslRunner, SslCheck, SslCount, SslSend, SslSendFails, Wake
<1>3. CASE TunRunner
  BY <1>3 DEF TunRunner, TunCheck, TunIdles, TunReply, TunFailure
<1>4. CASE Tunnel
  BY <1>4 DEF Tunnel, Terminate, KeepaliveFailed, ReadDevice, TunnelSend, TunnelSendFails, StartRekey, Rekeyed
<1>5. CASE Receiver
  BY <1>5 DEF Receiver, SslReceive, SslWrite, TunReceive, ReceiverEnds
<1>6. CASE Channel
  BY <1>6 DEF Channel, ChannelEnds, ConnectionCloses, PacketLeaves
<1>7. CASE GatewayReplies \/ GatewaySends \/ ReplyLost \/ GatewayDies
  BY <1>7 DEF GatewayReplies, GatewaySends, PacketArrives, ReplyLost, GatewayDies
<1>8. CASE NetworkChanges
  BY <1>8 DEF NetworkChanges, IsOnline
<1>9. QED
  BY <1>1, <1>2, <1>3, <1>4, <1>5, <1>6, <1>7, <1>8 DEF KeepaliveNext, Runner, Remote

\* The counters of both runners stay between nothing and the allowed retries, and every queue within its capacity.
THEOREM CountersStayInRange == KeepaliveSpec => []KeepaliveTypeOK
<1>1. KeepaliveInit => Flags
  BY DEF KeepaliveInit, Flags
<1>2. Flags /\ Ranges => KeepaliveTypeOK
  BY DEF Flags, Ranges, KeepaliveTypeOK
<1>3. Accounted => Ranges
  BY DEF Accounted
<1>4. QED
  BY <1>1, <1>2, <1>3, FlagsNext, AlwaysAccounted, PTL DEF KeepaliveSpec

\* A tunnel is given up as silent only after as many keepalives as are allowed, whatever the order in which the
\* keepalive task counts and the task of incoming packets resets (GiveUpMeansSilence).
THEOREM OnlySilenceIsGivenUp == KeepaliveSpec => GiveUpMeansSilence
<1>1. ASSUME Accounted, KeepaliveNext, runner.at # "silent", runner'.at = "silent"
      PROVE  unanswered = Max \/ Unheard \/ refused
  <2> USE DEF Accounted, Ranges
  <2>0. Max \in Nat \ {0}
    BY <1>1, KeepalivesAssumption DEF Max
  <2>1. CASE SslRunner
    <3>1. SslCheck
      BY <1>1, <2>1 DEF SslRunner, SslCount, SslSend, SslSendFails, Moves
    <3>2. kind = "ssl" /\ runner.failures >= Max
      BY <1>1, <3>1 DEF SslCheck, Moves
    <3>3. QED
      BY <1>1, <2>0, <3>2 DEF SslAccounted, Unheard
  <2>2. CASE TunRunner \/ Wake
    <3>1. TunFailure
      BY <1>1, <2>2 DEF TunRunner, Wake, TunCheck, TunIdles, TunReply, Moves
    <3>2. /\ kind = "tun" /\ runner.failures + 1 >= Max
          /\ runner.at \in {"wait", "refused"}
      BY <1>1, <3>1 DEF TunFailure
    <3>3. QED
      BY <1>1, <2>0, <3>2 DEF TunAccounted, InFlight, Unheard
  <2>3. CASE Tunnel
    BY <1>1, <2>3 DEF Tunnel, Terminate, KeepaliveFailed, ReadDevice, TunnelSend, TunnelSendFails, StartRekey,
                      Rekeyed, TunnelEnds
  <2>4. CASE Receiver
    BY <1>1, <2>4 DEF Receiver, SslReceive, SslWrite, TunReceive, ReceiverEnds, ResetCounter
  <2>5. CASE Channel \/ Remote
    BY <1>1, <2>5 DEF Channel, Remote, ChannelEnds, ConnectionCloses, PacketLeaves, GatewayReplies, GatewaySends,
                      PacketArrives, ReplyLost, GatewayDies, NetworkChanges
  <2>6. QED
    BY <1>1, <2>1, <2>2, <2>3, <2>4, <2>5 DEF KeepaliveNext, Runner
<1>2. Accounted /\ [KeepaliveNext]_keepaliveVars
        => [runner.at # "silent" /\ runner'.at = "silent" => unanswered = Max \/ Unheard \/ refused]_keepaliveVars
  BY <1>1
<1>3. QED
  BY <1>2, AlwaysAccounted, PTL DEF KeepaliveSpec, GiveUpMeansSilence
=============================================================================
