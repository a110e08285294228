--------------------------- MODULE IPsecConnector ---------------------------
(***************************************************************************)
(* The IPsec connector: IKE login with its challenges, the session         *)
(* exchange that leases an address, the ESP proposals that renew the keys  *)
(* of the tunnel, and the IKE session kept on disk (ike_persist), from     *)
(* which a restarted program goes on without a login.                      *)
(*                                                                         *)
(* The actor of the connector serves one request at a time, so op and at   *)
(* name the operation under way and the exchange it waits for; any         *)
(* exchange may fail, before or after the gateway has acted on it.  The    *)
(* program is the service or the standalone client, which differ in what   *)
(* an error does.  One connection exists at a time: how an old tunnel      *)
(* meets a new connection is the subject of CommandServer.                 *)
(*                                                                         *)
(* Time is counted in intervals of the RekeyCheck timer; last_rekey and    *)
(* last_ip_lease are kept as the time that has really passed since, next   *)
(* to how far the clock they are measured by was set back meanwhile.       *)
(***************************************************************************)
EXTENDS Integers, Sequences

CONSTANTS
    Ikes,             \* bound: the IKE SAs, one for each successful login
    Spis,             \* names of ESP key pairs; one in use anywhere is not given out again
    Addresses,        \* the office mode addresses
    NoIke, NoSpi, NoAddress, NoSession,
    Modes,            \* the programs: "service", "standalone"
    EspLifetimes, AddressLifetimes, \* what the gateway may grant
    EspLeeway, AddressLeeway,       \* ESP_LIFETIME_LEEWAY, ADDRESS_LIFETIME_LEEWAY
    Capacity,         \* of the tunnel's command channel
    MaxAge,           \* bound: older timestamps are as good as this one
    MaxSetBack,       \* bound: how far the clock is set back between two renewals
    Crashes           \* TRUE if the program or the computer may crash

ASSUME ConnectorAssumption ==
    /\ NoIke \notin Ikes /\ NoSpi \notin Spis /\ NoAddress \notin Addresses
    /\ \A i, c \in Ikes, a \in Addresses : NoSession # [ike |-> i, ccc |-> c, address |-> a]
    /\ Modes \subseteq {"service", "standalone"}
    /\ EspLifetimes \subseteq Nat /\ AddressLifetimes \subseteq Nat
    \* 60 and 300 seconds; the timer sends a RekeyCheck every 10 seconds.
    /\ EspLeeway \in Nat /\ AddressLeeway \in Nat /\ EspLeeway >= 2 /\ AddressLeeway >= 2
    /\ Capacity \in Nat \ {0} /\ Crashes \in BOOLEAN
    /\ MaxAge \in Nat /\ MaxSetBack \in Nat
    /\ \A l \in EspLifetimes \cup AddressLifetimes : l + MaxSetBack <= MaxAge

VARIABLES
    mode, persist, \* the program; params.ike_persist: constant
    store,         \* the row of ike-sessions.db
    valid,         \* gateway: the IKE SAs it has authenticated and still honours
    spent,         \* gateway: all it has ever authenticated
    installed,     \* gateway: the ESP keys negotiated last
    leased,        \* gateway: the address leased last
    stage,         \* of the connection: login, challenge (the user is asked), granted, tunnel
    op, at,        \* the operation of the connector, the exchange it waits for
    connector,     \* the fields of IPsecTunnelConnector
    disconnecting, \* how far a Disconnect has come
    tunnel,        \* what VpnTunnel::run works with
    commands,      \* the command channel
    disconnected,  \* the event Disconnected is on its way
    setback,       \* how far the clock was set back since the keys, the lease were given
    checked, late, \* history: a RekeyCheck was served in this interval; since the last that
                   \* found or made everything fresh, one was missed or failed
    seen,          \* history: such a RekeyCheck was served since the clock was set back
    answers,       \* history: user names sent without asking in this request
    failed,        \* history: the database failed, or an exchange that could have succeeded
    adopted,       \* history: the connector has adopted the lease, the keys given last
    resumable      \* history: the IKE SA the database was last told to keep

params == <<mode, persist>>
gateway == <<valid, spent, installed, leased>>
timer == <<setback, checked, late, seen>>
history == <<answers, failed, adopted, resumable>>
vars == <<params, store, gateway, stage, op, at, connector, disconnecting, tunnel,
          commands, disconnected, timer, history>>

-----------------------------------------------------------------------------
(* Values *)

Never == -1 \* None
Ages == {Never} \cup (0..MaxAge)

Session == [address : Addresses \cup {NoAddress}, address_lifetime : AddressLifetimes \cup {0},
            lifetime : EspLifetimes \cup {0}, esp : Spis \cup {NoSpi}]
Default == [address |-> NoAddress, address_lifetime |-> 0, lifetime |-> 0, esp |-> NoSpi]

\* ike: the SA of self.service; ccc: the IKE SA whose CCC session it is.
Connector == [ike : Ikes \cup {NoIke}, ccc : Ikes \cup {NoIke}, session : Session,
              last_challenge_type : {"none", "UserName", "Password"},
              last_rekey : Ages, last_ip_lease : Ages, sender : BOOLEAN]
NewConnector == [ike |-> NoIke, ccc |-> NoIke, session |-> Default,
                 last_challenge_type |-> "none", last_rekey |-> Never,
                 last_ip_lease |-> Never, sender |-> FALSE]
OfficeMode == [ike : Ikes, ccc : Ikes, address : Addresses]

NotSetBack == [keys |-> 0, lease |-> 0]

NoTunnel == [up |-> FALSE, address |-> NoAddress, esp |-> NoSpi]

TypeOK ==
    /\ mode \in Modes /\ persist \in BOOLEAN
    /\ store \in OfficeMode \cup {NoSession}
    /\ valid \subseteq spent /\ spent \subseteq Ikes
    /\ installed \in Spis \cup {NoSpi}
    /\ leased \in Addresses \cup {NoAddress}
    /\ stage \in {"none", "login", "challenge", "granted", "tunnel"}
    /\ op \in {"none", "restore", "authenticate", "code", "rekey"}
    /\ at \in {"idle", "load", "om", "esp", "fallback", "renew", "sa", "key",
               "identity", "ack", "answer", "reuse", "failed", "send"}
    /\ connector \in Connector
    /\ disconnecting \in {"no", "deleted", "terminated"}
    /\ tunnel \in [up : BOOLEAN, address : Addresses \cup {NoAddress}, esp : Spis \cup {NoSpi}]
    /\ commands \in Seq(Session) /\ Len(commands) <= Capacity
    /\ disconnected \in BOOLEAN
    /\ setback \in [keys : 0..MaxSetBack, lease : 0..MaxSetBack]
    /\ checked \in BOOLEAN /\ late \in BOOLEAN /\ seen \in BOOLEAN
    /\ answers \in 0..2 /\ failed \in BOOLEAN
    /\ adopted \in [lease : BOOLEAN, keys : BOOLEAN]
    /\ resumable \in Ikes \cup {NoIke}

Init ==
    /\ mode \in Modes /\ persist \in BOOLEAN
    /\ store = NoSession
    /\ valid = {} /\ spent = {} /\ installed = NoSpi /\ leased = NoAddress
    /\ stage = "none" /\ op = "none" /\ at = "idle" /\ connector = NewConnector
    /\ disconnecting = "no" /\ tunnel = NoTunnel /\ commands = <<>> /\ disconnected = FALSE
    /\ setback = NotSetBack /\ checked = FALSE /\ late = TRUE /\ seen = FALSE
    /\ answers = 0 /\ failed = FALSE
    /\ adopted = [lease |-> TRUE, keys |-> TRUE] /\ resumable = NoIke

\* The gateway may accept an exchange under the connector's IKE SA.
Honoured == connector.ike \in valid

UsedSpis == {installed, connector.session.esp, tunnel.esp}
            \cup {commands[i].esp : i \in DOMAIN commands}
UsedIkes == spent \cup {connector.ike} \cup (IF store = NoSession THEN {} ELSE {store.ike})

-----------------------------------------------------------------------------
(* The ends of an operation *)

\* Mutant of Grant: a rekey is not passed on.
GrantWithoutReKey ==
    /\ op' = "none" /\ at' = "idle"
    /\ stage' = IF op = "rekey" THEN stage ELSE "granted"

\* The exchange is complete: the caller gets a session, a rekey goes on to the tunnel.
Grant ==
    IF op = "rekey" THEN at' = "send" /\ UNCHANGED <<op, stage>>
    ELSE op' = "none" /\ at' = "idle" /\ stage' = "granted"

-----------------------------------------------------------------------------
(* connect: restore_session, then authenticate *)

Connect ==
    /\ stage = "none" /\ ~tunnel.up /\ ~disconnected
    /\ stage' = "login"
    /\ \/ persist /\ op' = "restore" /\ at' = "load"
       \/ ~persist /\ op' = "authenticate" /\ at' = "sa"
    /\ connector' = NewConnector
    /\ answers' = 0 /\ failed' = FALSE
    /\ setback' = NotSetBack /\ checked' = FALSE /\ late' = TRUE /\ seen' = FALSE
    /\ UNCHANGED <<params, store, gateway, disconnecting, tunnel, commands, disconnected,
                   adopted, resumable>>

Load ==
    /\ at = "load" /\ store # NoSession
    /\ connector' = [connector EXCEPT !.ike = store.ike]
    /\ at' = "om"
    /\ UNCHANGED <<params, store, gateway, stage, op, disconnecting, tunnel, commands,
                   disconnected, timer, history>>

LoadFails ==
    /\ at = "load"
    /\ failed' = (failed \/ store # NoSession)
    /\ at' = "failed"
    /\ UNCHANGED <<params, store, gateway, stage, op, connector, disconnecting, tunnel,
                   commands, disconnected, timer, answers, adopted, resumable>>

\* The exchanges of authenticate before the gateway has identified the client.
Negotiate ==
    /\ \/ /\ at = "sa" /\ at' = "key"
          /\ \E i \in Ikes \ UsedIkes : connector' = [connector EXCEPT !.ike = i]
       \/ at = "key" /\ at' = "identity" /\ UNCHANGED connector
    /\ UNCHANGED <<params, store, gateway, stage, op, disconnecting, tunnel, commands,
                   disconnected, timer, history>>

-----------------------------------------------------------------------------
(* process_auth_attributes *)

\* Status 1, or (with a certificate) no attributes in the reply to the identity.
Accept ==
    /\ at \in {"identity", "answer"}
    /\ valid' = valid \cup {connector.ike} /\ spent' = spent \cup {connector.ike}
    /\ \/ at' = "ack"
       \/ at = "identity" /\ at' = "om"
    /\ UNCHANGED <<params, store, installed, leased, stage, op, connector, disconnecting,
                   tunnel, commands, disconnected, timer, history>>

Acknowledge ==
    /\ at = "ack"
    /\ at' = "om"
    /\ UNCHANGED <<params, store, gateway, stage, op, connector, disconnecting, tunnel,
                   commands, disconnected, timer, history>>

\* The challenge is returned to the caller, which asks the user.
AskUser == op' = "none" /\ at' = "idle" /\ stage' = "challenge" /\ UNCHANGED answers

\* The gateway asks for the user name; it is sent at once if it is configured.
UserNameChallenge ==
    /\ at \in {"identity", "answer"}
    /\ connector.last_challenge_type # "UserName"
    /\ connector' = [connector EXCEPT !.last_challenge_type = "UserName"]
    /\ \/ at' = "answer" /\ answers' = answers + 1 /\ UNCHANGED <<op, stage>>
       \/ AskUser
    /\ UNCHANGED <<params, store, gateway, disconnecting, tunnel, commands, disconnected,
                   timer, failed, adopted, resumable>>

OtherChallenge ==
    /\ at \in {"identity", "answer"}
    /\ connector' = [connector EXCEPT !.last_challenge_type = "Password"]
    /\ AskUser
    /\ UNCHANGED <<params, store, gateway, disconnecting, tunnel, commands, disconnected,
                   timer, failed, adopted, resumable>>

\* challenge_code
ChallengeCode ==
    /\ stage = "challenge" /\ op = "none"
    /\ stage' = "login" /\ op' = "code" /\ at' = "answer" /\ answers' = 0
    /\ UNCHANGED <<params, store, gateway, connector, disconnecting, tunnel, commands,
                   disconnected, timer, failed, adopted, resumable>>

-----------------------------------------------------------------------------
(* do_session_exchange and do_esp_proposal *)

\* Mutant of OmReply: the CCC session of the reply is not taken over.
OmReplyWithoutCcc ==
    /\ at = "om" /\ Honoured
    /\ \E a \in Addresses, l \in AddressLifetimes :
           /\ leased' = a
           /\ connector' = [connector EXCEPT !.session.address = a,
                                             !.session.address_lifetime = l,
                                             !.last_ip_lease = 0]
    /\ setback' = [setback EXCEPT !.lease = 0]
    /\ adopted' = [adopted EXCEPT !.lease = FALSE]
    /\ at' = "esp"
    /\ UNCHANGED <<params, store, valid, spent, installed, stage, op, disconnecting, tunnel,
                   commands, disconnected, checked, late, seen, answers, failed, resumable>>

OmReply ==
    /\ at = "om" /\ Honoured
    /\ \E a \in Addresses, l \in AddressLifetimes :
           /\ leased' = a
           /\ connector' = [connector EXCEPT !.ccc = connector.ike, !.session.address = a,
                                             !.session.address_lifetime = l,
                                             !.last_ip_lease = 0]
    /\ setback' = [setback EXCEPT !.lease = 0]
    /\ adopted' = [adopted EXCEPT !.lease = FALSE]
    /\ at' = "esp"
    /\ UNCHANGED <<params, store, valid, spent, installed, stage, op, disconnecting, tunnel,
                   commands, disconnected, checked, late, seen, answers, failed, resumable>>

\* Mutant of Save: an earlier row is not replaced.
SaveOnce(c) ==
    \/ /\ persist
       /\ store' = IF store = NoSession
                   THEN [ike |-> c.ike, ccc |-> c.ccc, address |-> c.session.address]
                   ELSE store
       /\ resumable' = c.ike
       /\ UNCHANGED failed
    \/ /\ failed' = (failed \/ persist)
       /\ UNCHANGED <<store, resumable>>

\* save_ike_session in one transaction; a failure is only logged.
Save(c) ==
    \/ /\ persist
       /\ store' = [ike |-> c.ike, ccc |-> c.ccc, address |-> c.session.address]
       /\ resumable' = c.ike
       /\ UNCHANGED failed
    \/ /\ failed' = (failed \/ persist)
       /\ UNCHANGED <<store, resumable>>

\* The last exchange of do_session_exchange ("esp"), which then saves, of a restore that
\* has fallen back to the saved settings, and of an ESP rekey ("renew").
EspReply ==
    /\ at \in {"esp", "fallback", "renew"} /\ Honoured
    /\ \E s \in Spis \ UsedSpis, l \in EspLifetimes :
           /\ installed' = s
           /\ connector' = [connector EXCEPT !.session.esp = s, !.session.lifetime = l,
                                             !.last_rekey = 0]
    /\ setback' = [setback EXCEPT !.keys = 0]
    /\ IF at = "esp" THEN Save(connector) ELSE UNCHANGED <<store, failed, resumable>>
    /\ adopted' = [lease |-> adopted.lease \/ at = "esp", keys |-> TRUE]
    /\ Grant
    /\ UNCHANGED <<params, valid, spent, leased, disconnecting, tunnel, commands,
                   disconnected, checked, late, seen, answers>>

\* What the gateway and the connector have done of an exchange that fails: nothing, the
\* lease but not all of the reply's attributes, the new keys but no lifetime in the reply.
Remains ==
    \/ UNCHANGED <<leased, connector, installed, adopted>>
    \/ /\ at = "om" /\ Honoured
       /\ leased' \in Addresses
       /\ connector' \in {[connector EXCEPT !.ccc = connector.ike, !.session.address = a] :
                              a \in {leased', connector.session.address}}
       /\ adopted' = [adopted EXCEPT !.lease = FALSE]
       /\ UNCHANGED installed
    \/ /\ at \in {"esp", "fallback", "renew"} /\ Honoured
       /\ installed' \in Spis \ UsedSpis
       /\ adopted' = [adopted EXCEPT !.keys = FALSE]
       /\ UNCHANGED <<leased, connector>>

\* Errors, refusals, endless challenges, and what a Disconnect cancels.
ExchangeFails ==
    /\ at \in {"sa", "key", "identity", "answer", "ack", "om", "esp", "fallback", "renew"}
    /\ Remains
    /\ at' = IF op = "restore" /\ at # "fallback" THEN "reuse" ELSE "failed"
    /\ failed' = (failed \/ Honoured)
    /\ UNCHANGED <<params, store, valid, spent, stage, op, disconnecting, tunnel, commands,
                   disconnected, timer, answers, resumable>>

\* do_restore_session goes on with the settings of the row it has loaded.
ReuseSettings ==
    /\ at = "reuse"
    /\ connector' = [connector EXCEPT !.ccc = store.ccc, !.session.address = store.address]
    /\ adopted' = [adopted EXCEPT !.lease = FALSE]
    /\ at' = "fallback"
    /\ UNCHANGED <<params, store, gateway, stage, op, disconnecting, tunnel, commands,
                   disconnected, timer, answers, failed, resumable>>

-----------------------------------------------------------------------------
(* Failures *)

\* Drop of the connector: the ESP keys are deleted if the gateway can be reached.
Drop ==
    /\ installed' \in {installed} \cup (IF Honoured THEN {NoSpi} ELSE {})
    /\ connector' = NewConnector
    /\ stage' = "none" /\ op' = "none" /\ at' = "idle" /\ disconnecting' = "no"

\* restore_session: delete_session, a new service; the caller then authenticates, the
\* standalone client with a new connector.  The row stays if the database fails, the
\* service if the gateway does not give its information.
RestoreFailed ==
    /\ at = "failed" /\ op = "restore"
    /\ \/ store' = NoSession /\ resumable' = NoIke
       \/ UNCHANGED <<store, resumable>>
    /\ IF mode = "service"
       THEN /\ connector' \in {connector, [connector EXCEPT !.ike = NoIke]}
            /\ UNCHANGED installed
       ELSE /\ connector' = NewConnector
            /\ installed' \in {installed} \cup (IF Honoured THEN {NoSpi} ELSE {})
    /\ op' = "authenticate" /\ at' = "sa"
    /\ UNCHANGED <<params, valid, spent, leased, stage, disconnecting, tunnel, commands,
                   disconnected, timer, answers, failed, adopted>>

\* The service resets its state, the standalone client exits.
LoginFailed ==
    /\ at = "failed" /\ op \in {"authenticate", "code"}
    /\ Drop
    /\ UNCHANGED <<params, store, valid, spent, leased, tunnel, commands, disconnected,
                   timer, history>>

\* handle_tunnel_event failed: the service resets its state, the standalone client goes on.
RekeyFailed ==
    /\ at = "failed" /\ op = "rekey"
    /\ \/ mode = "service" /\ Drop /\ UNCHANGED <<checked, late>>
       \/ /\ mode = "standalone"
          /\ op' = "none" /\ at' = "idle" /\ checked' = TRUE /\ late' = TRUE
          /\ UNCHANGED <<installed, connector, stage, disconnecting>>
    /\ UNCHANGED <<params, store, valid, spent, leased, tunnel, commands, disconnected,
                   setback, seen, history>>

-----------------------------------------------------------------------------
(* The tunnel *)

\* create_tunnel with the session of the login, and run up to its loop.
CreateTunnel ==
    /\ stage = "granted" /\ op = "none" /\ disconnecting = "no"
    /\ stage' = "tunnel"
    /\ connector' = [connector EXCEPT !.sender = TRUE]
    /\ tunnel' = [up |-> TRUE, address |-> connector.session.address,
                  esp |-> connector.session.esp]
    /\ UNCHANGED <<params, store, gateway, op, at, disconnecting, commands, disconnected,
                   timer, history>>

\* An error of create_tunnel: `?` returns before the session is deleted.
CreateFails ==
    /\ stage = "granted" /\ op = "none" /\ disconnecting = "no"
    /\ Drop
    /\ UNCHANGED <<params, store, valid, spent, leased, tunnel, commands, disconnected,
                   timer, history>>

ApplyReKey ==
    /\ tunnel.up /\ commands # <<>>
    /\ tunnel' = [tunnel EXCEPT !.address = Head(commands).address, !.esp = Head(commands).esp]
    /\ commands' = Tail(commands)
    /\ UNCHANGED <<params, store, gateway, stage, op, at, connector, disconnecting,
                   disconnected, timer, history>>

\* The loop of run ends: a lost gateway, Terminate, or (the same) a closed channel.  In the
\* standalone client Terminate comes from a signal.
TunnelEnds ==
    /\ tunnel.up
    /\ tunnel' = NoTunnel /\ commands' = <<>> /\ disconnected' = TRUE
    /\ UNCHANGED <<params, store, gateway, stage, op, at, connector, disconnecting, timer,
                   history>>

\* The event Disconnected: delete_sa, and the connector is dropped.
HandleDisconnected ==
    /\ disconnected /\ op = "none"
    /\ disconnected' = FALSE
    /\ Drop
    /\ UNCHANGED <<params, store, valid, spent, leased, tunnel, commands, timer, history>>

-----------------------------------------------------------------------------
(* rekey_tunnel *)

\* How long keys or an address are used.
Use(lifetime, leeway) == IF lifetime < leeway THEN lifetime ELSE lifetime - leeway

\* Mutant of Due: a time that lies in the future is taken for the present.
DueByClock(last, back, lifetime, leeway) ==
    /\ last # Never
    /\ last - back >= Use(lifetime, leeway)

\* Whether the clock says that time last is that long ago: now.duration_since(last), which
\* fails if last lies in the future.
Due(last, back, lifetime, leeway) ==
    /\ last # Never
    /\ last < back \/ last - back >= Use(lifetime, leeway)

LeaseDue == Due(connector.last_ip_lease, setback.lease, connector.session.address_lifetime,
                AddressLeeway)
RekeyDue == Due(connector.last_rekey, setback.keys, connector.session.lifetime, EspLeeway)

\* A RekeyCheck has found or made everything fresh.
Timely == checked' = TRUE /\ late' = FALSE /\ seen' = TRUE /\ UNCHANGED setback

\* Mutant of RekeyCheck: keys are looked at before the lease.
RekeyCheckKeysFirst ==
    /\ stage = "tunnel" /\ op = "none"
    /\ \/ checked' = TRUE /\ late' = TRUE /\ UNCHANGED <<setback, seen, op, at>>
       \/ RekeyDue /\ op' = "rekey" /\ at' = "renew" /\ UNCHANGED timer
       \/ ~RekeyDue /\ LeaseDue /\ op' = "rekey" /\ at' = "om" /\ UNCHANGED timer
       \/ ~LeaseDue /\ ~RekeyDue /\ Timely /\ UNCHANGED <<op, at>>
    /\ UNCHANGED <<params, store, gateway, stage, connector, disconnecting, tunnel, commands,
                   disconnected, history>>

\* RekeyCheck, or a message of the gateway that proposes an SA.
RekeyCheck ==
    /\ stage = "tunnel" /\ op = "none"
    /\ \/ /\ checked' = TRUE /\ late' = TRUE \* not online
          /\ UNCHANGED <<setback, seen, op, at>>
       \/ /\ LeaseDue
          /\ op' = "rekey" /\ at' = "om" /\ UNCHANGED timer
       \/ /\ ~LeaseDue /\ RekeyDue
          /\ op' = "rekey" /\ at' = "renew" /\ UNCHANGED timer
       \/ /\ ~LeaseDue /\ ~RekeyDue
          /\ Timely /\ UNCHANGED <<op, at>>
    /\ UNCHANGED <<params, store, gateway, stage, connector, disconnecting, tunnel, commands,
                   disconnected, history>>

\* A message of the gateway that cannot be decoded.
BadMessage ==
    /\ stage = "tunnel" /\ op = "none" /\ tunnel.up
    /\ op' = "rekey" /\ at' = "failed"
    /\ UNCHANGED <<params, store, gateway, stage, connector, disconnecting, tunnel, commands,
                   disconnected, timer, history>>

\* Mutant of SendReKey: the channel is taken for unbounded.
SendReKeyUnbounded ==
    /\ at = "send"
    /\ \/ /\ connector.sender /\ tunnel.up
          /\ commands' = Append(commands, connector.session)
          /\ op' = "none" /\ at' = "idle" /\ Timely
       \/ /\ ~connector.sender \/ ~tunnel.up
          /\ at' = "failed"
          /\ UNCHANGED <<commands, op, timer>>
    /\ UNCHANGED <<params, store, gateway, stage, connector, disconnecting, tunnel,
                   disconnected, history>>

SendReKey ==
    /\ at = "send"
    /\ \/ /\ connector.sender /\ tunnel.up /\ Len(commands) < Capacity
          /\ commands' = Append(commands, connector.session)
          /\ op' = "none" /\ at' = "idle" /\ Timely
       \/ /\ ~connector.sender \/ ~tunnel.up
          /\ at' = "failed"
          /\ UNCHANGED <<commands, op, timer>>
    /\ UNCHANGED <<params, store, gateway, stage, connector, disconnecting, tunnel,
                   disconnected, history>>

-----------------------------------------------------------------------------
(* Disconnect of the service: delete_session, terminate_tunnel, reset *)

DeleteSession ==
    /\ mode = "service" /\ stage # "none" /\ op = "none" /\ disconnecting = "no"
    /\ disconnecting' = "deleted"
    /\ \/ store' = NoSession /\ resumable' = NoIke /\ UNCHANGED failed
       \/ failed' = TRUE /\ UNCHANGED <<store, resumable>>
    /\ UNCHANGED <<params, gateway, stage, op, at, connector, tunnel, commands, disconnected,
                   timer, answers, adopted>>

TerminateTunnel ==
    /\ op = "none" /\ disconnecting = "deleted"
    /\ disconnecting' = "terminated"
    /\ connector' = [connector EXCEPT !.sender = FALSE]
    /\ UNCHANGED <<params, store, gateway, stage, op, at, tunnel, commands, disconnected,
                   timer, history>>

Reset ==
    /\ op = "none" /\ disconnecting = "terminated"
    /\ Drop
    /\ UNCHANGED <<params, store, valid, spent, leased, tunnel, commands, disconnected,
                   timer, history>>

-----------------------------------------------------------------------------
(* The environment *)

\* The program or the computer goes down: memory is lost, the disk and the gateway are not.
Crash ==
    /\ Crashes /\ stage # "none"
    /\ stage' = "none" /\ op' = "none" /\ at' = "idle" /\ connector' = NewConnector
    /\ disconnecting' = "no" /\ tunnel' = NoTunnel /\ commands' = <<>> /\ disconnected' = FALSE
    /\ UNCHANGED <<params, store, gateway, timer, history>>

\* The IKE SA expires or the gateway restarts.
GatewayForgets ==
    /\ \E i \in valid : valid' = valid \ {i}
    /\ UNCHANGED <<params, store, spent, installed, leased, stage, op, at, connector,
                   disconnecting, tunnel, commands, disconnected, timer, history>>

\* Time matters once a tunnel runs.
Later(last, by) ==
    IF last = Never THEN Never
    ELSE IF last + by > MaxAge THEN MaxAge ELSE last + by

TimePasses(by) == connector' = [connector EXCEPT !.last_rekey = Later(@, by),
                                                 !.last_ip_lease = Later(@, by)]

\* The timer of a running tunnel sends a RekeyCheck in every interval, and a rekey and
\* its command are done within one.
Tick ==
    /\ stage = "tunnel" /\ op = "none"
    /\ tunnel.up => checked /\ commands = <<>>
    /\ checked' = FALSE
    /\ TimePasses(1)
    /\ UNCHANGED <<params, store, gateway, stage, op, at, disconnecting, tunnel, commands,
                   disconnected, setback, late, seen, history>>

\* The computer is suspended and resumed; what takes longer is several of these steps.
Suspend ==
    /\ stage = "tunnel" /\ op = "none"
    /\ TimePasses(1)
    /\ checked' = FALSE /\ late' = TRUE
    /\ UNCHANGED <<params, store, gateway, stage, op, at, disconnecting, tunnel, commands,
                   disconnected, setback, seen, history>>

\* The clock is set back, in one or several of these steps by less or by more than the keys and
\* the lease are old; the timer goes on as before.
ClockSetBack ==
    /\ stage = "tunnel" /\ op = "none"
    /\ setback' = [keys |-> IF connector.last_rekey = Never THEN 0 ELSE setback.keys + 1,
                   lease |-> IF connector.last_ip_lease = Never THEN 0 ELSE setback.lease + 1]
    /\ setback'.keys <= MaxSetBack /\ setback'.lease <= MaxSetBack
    /\ seen' = FALSE
    /\ UNCHANGED <<params, store, gateway, stage, op, at, connector, disconnecting, tunnel,
                   commands, disconnected, checked, late, history>>

Next ==
    \/ Connect \/ Load \/ LoadFails \/ Negotiate \/ Accept \/ Acknowledge
    \/ UserNameChallenge \/ OtherChallenge \/ ChallengeCode
    \/ OmReply \/ EspReply \/ ExchangeFails \/ ReuseSettings
    \/ RestoreFailed \/ LoginFailed \/ RekeyFailed
    \/ CreateTunnel \/ CreateFails \/ ApplyReKey \/ TunnelEnds \/ HandleDisconnected
    \/ RekeyCheck \/ BadMessage \/ SendReKey
    \/ DeleteSession \/ TerminateTunnel \/ Reset
    \/ Crash \/ GatewayForgets \/ Tick \/ Suspend \/ ClockSetBack

Spec == Init /\ [][Next]_vars

-----------------------------------------------------------------------------
(* Properties *)

\* A running tunnel for which nothing is under way.
Quiet == stage = "tunnel" /\ tunnel.up /\ op = "none" /\ commands = <<>>

\* The tunnel works with the keys that the gateway has negotiated last, whatever failed on
\* the way to them: an ESP proposal of which the gateway knows and the connector does not
\* ends the connection, or (the standalone client goes on) is made good by a later rekey.
KeysAgree == Quiet => tunnel.esp = installed \/ (mode = "standalone" /\ ~adopted.keys)

\* The tunnel's address is the one the gateway leased last, unless the exchange that
\* leased it did not come to its end (the settings of a restored session, which are
\* reused then, may be older).
TunnelHasLease == Quiet /\ adopted.lease => tunnel.address = leased

\* A tunnel for which nothing is under way agrees with the gateway on keys and address.
TunnelFitsGateway == KeysAgree /\ TunnelHasLease

\* The keys of a tunnel do not expire while RekeyChecks are served and answered, if they
\* live for at least ESP_LIFETIME_LEEWAY; nor does the lease, which must not starve behind
\* the rekeying of keys (except that a session restored with its old settings may have no
\* lease to renew). A clock that is set back delays either by no more than it was set back
\* since the keys, the lease were given; and if it was set back beyond that time they are
\* renewed by the next RekeyCheck.
NothingExpires ==
    Quiet /\ ~late =>
        /\ connector.session.lifetime >= EspLeeway =>
               connector.last_rekey < connector.session.lifetime + setback.keys
        /\ seen => connector.last_rekey >= setback.keys
        /\ connector.last_ip_lease # Never =>
               /\ connector.session.address_lifetime >= AddressLeeway =>
                      connector.last_ip_lease < connector.session.address_lifetime + setback.lease
               /\ seen => connector.last_ip_lease >= setback.lease

\* A login earns a session. The row of the database is one session, not the parts of two,
\* and one that a login has earned, so that restoring it never goes round a login; and
\* however the gateway orders its challenges, at most one answer per request is given
\* without the user, so that a login does not go round in circles with the gateway.
LoginsEarnSessions ==
    /\ store # NoSession => store.ike = store.ccc /\ store.ike \in spent
    /\ answers <= 1

\* ike_persist (docs/persistent-ipsec-session.md): a session that the gateway still
\* honours is restored without a login after any crash, unless an exchange or the
\* database fails or the session was deleted.
RestoresWithoutLogin ==
    [][op = "restore" /\ op' = "authenticate" => failed \/ resumable \notin valid]_vars
=============================================================================
