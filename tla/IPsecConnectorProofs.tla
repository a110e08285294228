------------------------ MODULE IPsecConnectorProofs ------------------------
(***************************************************************************)
(* What IPsecConnector keeps for any IKE SAs, keys, addresses, lifetimes,  *)
(* leeways, capacity and set-backs of the clock, in both programs, with    *)
(* and without crashes.                                                    *)
(***************************************************************************)
EXTENDS IPsecConnector, SequenceTheorems, TLAPS

-----------------------------------------------------------------------------
(* The invariant *)

\* The flags are Boolean, ...
Flags ==
    /\ persist \in BOOLEAN /\ disconnected \in BOOLEAN
    /\ checked \in BOOLEAN /\ late \in BOOLEAN /\ seen \in BOOLEAN /\ failed \in BOOLEAN
    /\ setback \in [keys : 0..MaxSetBack, lease : 0..MaxSetBack]
    /\ adopted \in [lease : BOOLEAN, keys : BOOLEAN]

\* ... and everything else has its type.
Ranges ==
    /\ mode \in Modes
    /\ stage \in {"none", "login", "challenge", "granted", "tunnel"}
    /\ op \in {"none", "restore", "authenticate", "code", "rekey"}
    /\ at \in {"idle", "load", "om", "esp", "fallback", "renew", "sa", "key",
               "identity", "ack", "answer", "reuse", "failed", "send"}
    /\ disconnecting \in {"no", "deleted", "terminated"}
    /\ answers \in 0..2

\* What the gateway has given and the database keeps, ...
Given ==
    /\ valid \subseteq spent /\ spent \subseteq Ikes
    /\ installed \in Spis \cup {NoSpi}
    /\ leased \in Addresses \cup {NoAddress}
    /\ store \in OfficeMode \cup {NoSession}
    /\ resumable \in Ikes \cup {NoIke}

\* ... and what the connector and the tunnel work with.
Machine == connector \in Connector

Channel ==
    /\ tunnel \in [up : BOOLEAN, address : Addresses \cup {NoAddress}, esp : Spis \cup {NoSpi}]
    /\ commands \in Seq(Session) /\ Len(commands) <= Capacity

\* Which exchanges an operation makes, in which stage it runs, and what exists then: a connection
\* is begun only when the tunnel of the last one is gone, and until then no channel to it is.
Order ==
    /\ op = "none" <=> at = "idle"
    /\ op = "restore" => stage = "login" /\ at \in {"load", "om", "esp", "reuse", "fallback", "failed"}
    /\ op = "authenticate" =>
           stage = "login" /\ at \in {"sa", "key", "identity", "answer", "ack", "om", "esp", "failed"}
    /\ op = "code" => stage = "login" /\ at \in {"answer", "ack", "om", "esp", "failed"}
    /\ op = "rekey" => stage = "tunnel" /\ at \in {"om", "esp", "renew", "send", "failed"}
    /\ stage = "login" => op # "none"
    /\ stage \in {"login", "challenge", "granted"} => tunnel.up = FALSE
    /\ tunnel.up = FALSE => commands = <<>>
    /\ disconnecting # "no" => mode = "service"
    /\ stage = "tunnel" /\ connector.sender = FALSE => disconnecting = "terminated"
    /\ at \in {"key", "identity", "answer"} \/ stage = "challenge" => connector.ike \in Ikes

\* The row of the database is the session of the IKE SA that it was last told to keep.
Saved ==
    /\ store = NoSession => resumable = NoIke
    /\ store # NoSession => /\ store.ike = resumable /\ store.ccc = resumable
                            /\ resumable \in spent
    /\ at = "esp" => connector.ccc = connector.ike /\ connector.session.address \in Addresses
    /\ op = "restore" /\ at \notin {"load", "failed"} => store # NoSession

\* A user name is given without asking only once before the user is asked.
AnsweredOnce ==
    /\ answers \in {0, 1}
    /\ at \in {"sa", "key", "identity", "answer"} =>
           answers = 0 \/ connector.last_challenge_type = "UserName"
    /\ op = "restore" => answers = 0

\* A restore that does not go on has had a reason.
Restoring ==
    op = "restore" =>
        /\ at \in {"om", "esp"} => connector.ike = resumable
        /\ at \in {"reuse", "fallback", "failed"} => failed = TRUE \/ resumable \notin valid

\* What the tunnel works with when it has applied the commands on their way.
LatestEsp == IF commands = <<>> THEN tunnel.esp ELSE commands[Len(commands)].esp
LatestAddress == IF commands = <<>> THEN tunnel.address ELSE commands[Len(commands)].address

\* The connector's keys are its tunnel's, or on their way, or an error is about to end the tunnel; and they
\* are the gateway's, or it is known that an exchange was lost.
KeysFollow ==
    /\ stage = "granted" => adopted.keys = TRUE /\ connector.session.esp = installed
    /\ stage = "tunnel" /\ tunnel.up = TRUE =>
           /\ at # "send" /\ (mode = "standalone" \/ at # "failed") => LatestEsp = connector.session.esp
           /\ adopted.keys = TRUE => connector.session.esp = installed
           /\ adopted.keys = FALSE => mode = "standalone" \/ at = "failed"
           /\ at = "send" => adopted.keys = TRUE

\* The same of the address and the lease, which one more exchange has to confirm.
LeaseFollows ==
    /\ at = "esp" => connector.session.address = leased
    /\ at \in {"esp", "fallback"} => adopted.lease = FALSE
    /\ stage = "granted" /\ adopted.lease = TRUE => connector.session.address = leased
    /\ stage = "tunnel" /\ tunnel.up = TRUE /\ adopted.lease = TRUE =>
           /\ connector.session.address = leased
           /\ at # "send" /\ (mode = "standalone" \/ at # "failed") =>
                  LatestAddress = connector.session.address

\* A time that by the clock was found fresh, or is that of an exchange just made, and at most one interval
\* more; and one that the clock has not yet to reach.
FreshAt(last, back, lifetime, leeway) ==
    last = Never \/ last - back <= 0 \/ last - back < Use(lifetime, leeway)
FreshBefore(last, back, lifetime, leeway) ==
    last = Never \/ last - back <= 1 \/ last - back <= Use(lifetime, leeway)
Reached(last, back) == last = Never \/ last >= back

KeysAt == FreshAt(connector.last_rekey, setback.keys, connector.session.lifetime, EspLeeway)
LeaseAt == FreshAt(connector.last_ip_lease, setback.lease, connector.session.address_lifetime, AddressLeeway)
KeysBefore == FreshBefore(connector.last_rekey, setback.keys, connector.session.lifetime, EspLeeway)
LeaseBefore ==
    FreshBefore(connector.last_ip_lease, setback.lease, connector.session.address_lifetime, AddressLeeway)
KeysReached == Reached(connector.last_rekey, setback.keys)
LeaseReached == Reached(connector.last_ip_lease, setback.lease)

Fresh ==
    /\ stage \in {"login", "challenge", "granted"} => late = TRUE
    /\ stage \in {"granted", "tunnel"} => connector.last_rekey # Never
    /\ stage = "tunnel" /\ tunnel.up = TRUE /\ op = "none" /\ late = FALSE =>
           /\ checked = TRUE => KeysAt /\ LeaseAt
           /\ seen = TRUE => KeysReached /\ LeaseReached
           /\ KeysBefore /\ LeaseBefore
    /\ op = "rekey" =>
           /\ at \in {"esp", "renew", "send"} => LeaseAt /\ LeaseReached
           /\ at = "send" => connector.last_rekey = 0 /\ setback.keys = 0

Kept == /\ Flags /\ Ranges /\ Given /\ Machine /\ Channel /\ Order /\ Saved
        /\ AnsweredOnce /\ Restoring /\ KeysFollow /\ LeaseFollows /\ Fresh

-----------------------------------------------------------------------------
(* The initial states and stuttering *)

\* No set-back is one.
LEMMA NoneSetBack == NotSetBack \in [keys : 0..MaxSetBack, lease : 0..MaxSetBack]
<1>1. 0 \in 0..MaxSetBack
  BY ConnectorAssumption
<1>2. QED
  BY <1>1 DEF NotSetBack

\* Nothing has happened yet.
LEMMA KeptInit == Init => Kept
<1> SUFFICES ASSUME Init PROVE Kept
  OBVIOUS
<1> USE ConnectorAssumption DEF Init
<1>1. Flags
  BY NoneSetBack DEF Flags
<1>2. Ranges /\ Given /\ Machine /\ Channel
  BY DEF Ranges, Given, Machine, Channel, NewConnector, Default, NoTunnel, Connector, Session, Ages, Never
<1>3. Order /\ AnsweredOnce /\ Restoring
  BY DEF Order, AnsweredOnce, Restoring, NoTunnel
<1>4. Saved
  BY DEF Saved
<1>5. KeysFollow /\ LeaseFollows
  BY DEF KeysFollow, LeaseFollows
<1>6. Fresh
  BY DEF Fresh
<1>7. QED
  BY <1>1, <1>2, <1>3, <1>4, <1>5, <1>6 DEF Kept

\* No part of the invariant speaks of anything but the variables.
LEMMA KeptStutter == Kept /\ UNCHANGED vars => Kept'
<1> SUFFICES ASSUME Kept, UNCHANGED vars PROVE Kept'
  OBVIOUS
<1> USE DEF Kept, vars, params, gateway, timer, history
<1>1. Flags'
  BY DEF Flags
<1>2. Ranges' /\ Given' /\ Machine' /\ Channel'
  BY DEF Ranges, Given, Machine, Channel
<1>3. Order' /\ Saved' /\ AnsweredOnce' /\ Restoring'
  BY DEF Order, Saved, AnsweredOnce, Restoring
<1>4. KeysFollow' /\ LeaseFollows' /\ Fresh'
  BY DEF KeysFollow, LatestEsp, LeaseFollows, LatestAddress, Fresh, KeysAt, LeaseAt, KeysBefore,
         LeaseBefore, KeysReached, LeaseReached
<1>5. QED
  BY <1>1, <1>2, <1>3, <1>4

-----------------------------------------------------------------------------
(* Types *)

\* Flags are set to truth values.
LEMMA FlagsNext == ASSUME Kept, Next PROVE Flags'
<1> USE DEF Kept, Flags, params, timer, history
<1>1. CASE Connect
  BY <1>1, NoneSetBack DEF Connect
<1>2. CASE Load \/ LoadFails \/ Negotiate \/ Accept \/ Acknowledge
  BY <1>2 DEF Load, LoadFails, Negotiate, Accept, Acknowledge
<1>3. CASE UserNameChallenge \/ OtherChallenge \/ ChallengeCode
  BY <1>3 DEF UserNameChallenge, OtherChallenge, ChallengeCode, AskUser
<1>4. CASE OmReply
  <2>1. setback' \in [keys : 0..MaxSetBack, lease : 0..MaxSetBack]
    BY <1>4, ConnectorAssumption DEF OmReply
  <2>2. QED
    BY <1>4, <2>1 DEF OmReply
<1>5. CASE EspReply
  <2>1. adopted' \in [lease : BOOLEAN, keys : BOOLEAN]
    BY <1>5 DEF EspReply
  <2>2. setback' \in [keys : 0..MaxSetBack, lease : 0..MaxSetBack]
    BY <1>5, ConnectorAssumption DEF EspReply
  <2>3. QED
    BY <1>5, <2>1, <2>2 DEF EspReply, Save
<1>6. CASE ExchangeFails \/ ReuseSettings
  BY <1>6 DEF ExchangeFails, Remains, Honoured, ReuseSettings
<1>7. CASE RestoreFailed \/ LoginFailed \/ RekeyFailed
  BY <1>7 DEF RestoreFailed, LoginFailed, RekeyFailed
<1>8. CASE CreateTunnel \/ CreateFails \/ ApplyReKey \/ TunnelEnds \/ HandleDisconnected
  BY <1>8 DEF CreateTunnel, CreateFails, ApplyReKey, TunnelEnds, HandleDisconnected
<1>9. CASE RekeyCheck \/ BadMessage \/ SendReKey
  BY <1>9 DEF RekeyCheck, BadMessage, SendReKey, Timely
<1>10. CASE DeleteSession \/ TerminateTunnel \/ Reset
  BY <1>10 DEF DeleteSession, TerminateTunnel, Reset
<1>11. CASE Crash \/ GatewayForgets \/ Tick \/ Suspend
  BY <1>11 DEF Crash, GatewayForgets, Tick, Suspend
<1>12. CASE ClockSetBack
  <2>1. setback' \in [keys : 0..MaxSetBack, lease : 0..MaxSetBack]
    <3>1. setback' = [keys |-> IF connector.last_rekey = Never THEN 0 ELSE setback.keys + 1,
                      lease |-> IF connector.last_ip_lease = Never THEN 0 ELSE setback.lease + 1]
      BY <1>12 DEF ClockSetBack
    <3>2. setback'.keys \in Nat /\ setback'.lease \in Nat
      BY <3>1, ConnectorAssumption
    <3>3. QED
      BY <1>12, <3>1, <3>2, ConnectorAssumption DEF ClockSetBack
  <2>2. QED
    BY <1>12, <2>1 DEF ClockSetBack
<1>13. QED
  BY <1>1, <1>2, <1>3, <1>4, <1>5, <1>6, <1>7, <1>8, <1>9, <1>10, <1>11, <1>12 DEF Next

\* Stages, operations and exchanges are the ones named.
LEMMA RangesNext == ASSUME Kept, Next PROVE Ranges'
<1> USE DEF Kept, Ranges, AnsweredOnce, params, gateway, timer, history
<1>1. CASE Connect \/ Load \/ LoadFails \/ Negotiate \/ Accept \/ Acknowledge
  BY <1>1 DEF Connect, Load, LoadFails, Negotiate, Accept, Acknowledge
<1>2. CASE UserNameChallenge \/ OtherChallenge \/ ChallengeCode
  BY <1>2 DEF UserNameChallenge, OtherChallenge, ChallengeCode, AskUser
<1>3. CASE OmReply
  BY <1>3 DEF OmReply
<1>4. CASE EspReply
  BY <1>4 DEF EspReply, Save, Grant
<1>5. CASE ExchangeFails
  BY <1>5 DEF ExchangeFails
<1>6. CASE ReuseSettings
  BY <1>6 DEF ReuseSettings
<1>7. CASE RestoreFailed \/ LoginFailed \/ RekeyFailed
  BY <1>7 DEF RestoreFailed, LoginFailed, RekeyFailed, Drop
<1>8. CASE CreateTunnel \/ CreateFails \/ ApplyReKey \/ TunnelEnds \/ HandleDisconnected
  BY <1>8 DEF CreateTunnel, CreateFails, ApplyReKey, TunnelEnds, HandleDisconnected, Drop
<1>9. CASE RekeyCheck \/ BadMessage \/ SendReKey
  BY <1>9 DEF RekeyCheck, BadMessage, SendReKey, Timely
<1>10. CASE DeleteSession \/ TerminateTunnel \/ Reset
  BY <1>10 DEF DeleteSession, TerminateTunnel, Reset, Drop
<1>11. CASE Crash \/ GatewayForgets \/ Tick \/ Suspend \/ ClockSetBack
  BY <1>11 DEF Crash, GatewayForgets, Tick, Suspend, ClockSetBack
<1>12. QED
  BY <1>1, <1>2, <1>3, <1>4, <1>5, <1>6, <1>7, <1>8, <1>9, <1>10, <1>11 DEF Next

\* No tunnel, and nothing on its way to one.
LEMMA ChannelEmpty ==
    /\ NoTunnel \in [up : BOOLEAN, address : Addresses \cup {NoAddress}, esp : Spis \cup {NoSpi}]
    /\ <<>> \in Seq(Session) /\ Len(<<>>) <= Capacity
  BY ConnectorAssumption DEF NoTunnel

\* The channel holds sessions, as many as it has room for.
LEMMA ChannelNext == ASSUME Kept, Next PROVE Channel'
<1> USE DEF Kept, Channel, params, gateway, timer, history
<1>1. CASE Connect \/ Load \/ LoadFails \/ Negotiate \/ Accept \/ Acknowledge
  BY <1>1 DEF Connect, Load, LoadFails, Negotiate, Accept, Acknowledge
<1>2. CASE UserNameChallenge \/ OtherChallenge \/ ChallengeCode
  BY <1>2 DEF UserNameChallenge, OtherChallenge, ChallengeCode
<1>3. CASE OmReply
  BY <1>3 DEF OmReply
<1>4. CASE EspReply
  BY <1>4 DEF EspReply
<1>5. CASE ExchangeFails
  BY <1>5 DEF ExchangeFails
<1>6. CASE ReuseSettings
  BY <1>6 DEF ReuseSettings
<1>7. CASE RestoreFailed \/ LoginFailed \/ RekeyFailed
  BY <1>7 DEF RestoreFailed, LoginFailed, RekeyFailed
<1>8. CASE DeleteSession \/ TerminateTunnel \/ Reset
  BY <1>8 DEF DeleteSession, TerminateTunnel, Reset
<1>9. CASE GatewayForgets \/ Tick \/ Suspend \/ ClockSetBack
  BY <1>9 DEF GatewayForgets, Tick, Suspend, ClockSetBack
<1>10. CASE CreateTunnel
  BY <1>10 DEF CreateTunnel, NoTunnel, Machine, Connector, Session
<1>11. CASE CreateFails \/ HandleDisconnected
  BY <1>11 DEF CreateFails, HandleDisconnected
<1>12. CASE TunnelEnds
  BY <1>12, ChannelEmpty DEF TunnelEnds
<1>13. CASE Crash
  BY <1>13, ChannelEmpty DEF Crash
<1>14. CASE ApplyReKey
  <2>1. Head(commands) \in Session /\ Tail(commands) \in Seq(Session)
    BY <1>14 DEF ApplyReKey
  <2>2. Len(Tail(commands)) <= Capacity
    BY <1>14, ConnectorAssumption DEF ApplyReKey
  <2>3. [tunnel EXCEPT !.address = Head(commands).address, !.esp = Head(commands).esp]
            \in [up : BOOLEAN, address : Addresses \cup {NoAddress}, esp : Spis \cup {NoSpi}]
    BY <2>1 DEF Session
  <2>4. QED
    BY <1>14, <2>1, <2>2, <2>3 DEF ApplyReKey
<1>15. CASE RekeyCheck \/ BadMessage
  BY <1>15 DEF RekeyCheck, BadMessage
<1>16. CASE SendReKey
  <2>1. connector.session \in Session
    BY DEF Machine, Connector
  <2>2. /\ Append(commands, connector.session) \in Seq(Session)
        /\ Len(Append(commands, connector.session)) = Len(commands) + 1
    BY <2>1
  <2>3. QED
    BY <1>16, <2>2, ConnectorAssumption DEF SendReKey
<1>17. QED
  BY <1>1, <1>2, <1>3, <1>4, <1>5, <1>6, <1>7, <1>8, <1>9, <1>10, <1>11, <1>12, <1>13, <1>14, <1>15, <1>16 DEF Next

\* What is given and kept is an SA, keys, an address, or nothing.
LEMMA GivenNext == ASSUME Kept, Next PROVE Given'
<1> USE DEF Kept, Given, params, gateway, timer, history
<1>1. CASE Connect \/ Load \/ LoadFails \/ Negotiate
  BY <1>1 DEF Connect, Load, LoadFails, Negotiate
<1>2. CASE Accept
  BY <1>2 DEF Accept, Order
<1>3. CASE Acknowledge
  BY <1>3 DEF Acknowledge
<1>4. CASE UserNameChallenge \/ OtherChallenge \/ ChallengeCode
  BY <1>4 DEF UserNameChallenge, OtherChallenge, ChallengeCode
<1>5. CASE OmReply
  BY <1>5 DEF OmReply
<1>6. CASE EspReply
  <2>1. at = "esp" => [ike |-> connector.ike, ccc |-> connector.ccc, address |-> connector.session.address]
                          \in OfficeMode /\ connector.ike \in Ikes
    BY <1>6 DEF EspReply, Honoured, Saved, OfficeMode
  <2>2. QED
    BY <1>6, <2>1 DEF EspReply, Save
<1>7. CASE ExchangeFails
  BY <1>7 DEF ExchangeFails, Remains
<1>8. CASE ReuseSettings
  BY <1>8 DEF ReuseSettings
<1>9. CASE RestoreFailed \/ LoginFailed \/ RekeyFailed
  BY <1>9 DEF RestoreFailed, LoginFailed, RekeyFailed, Drop
<1>10. CASE CreateTunnel \/ CreateFails \/ ApplyReKey \/ TunnelEnds \/ HandleDisconnected
  BY <1>10 DEF CreateTunnel, CreateFails, ApplyReKey, TunnelEnds, HandleDisconnected, Drop
<1>11. CASE RekeyCheck \/ BadMessage \/ SendReKey
  BY <1>11 DEF RekeyCheck, BadMessage, SendReKey, Timely
<1>12. CASE DeleteSession \/ TerminateTunnel \/ Reset
  BY <1>12 DEF DeleteSession, TerminateTunnel, Reset, Drop
<1>13. CASE Crash \/ GatewayForgets \/ Tick \/ Suspend \/ ClockSetBack
  BY <1>13 DEF Crash, GatewayForgets, Tick, Suspend, ClockSetBack
<1>14. QED
  BY <1>1, <1>2, <1>3, <1>4, <1>5, <1>6, <1>7, <1>8, <1>9, <1>10, <1>11, <1>12, <1>13 DEF Next

\* A connector that is made anew.
LEMMA MachineNew == NewConnector \in Connector
  BY DEF NewConnector, Default, Connector, Session, Ages, Never

\* Ages stay in their range as time passes.
LEMMA LaterAge == ASSUME NEW last \in Ages, NEW by \in Nat PROVE Later(last, by) \in Ages
  BY ConnectorAssumption DEF Later, Ages, Never

\* Time changes two fields of the connector.
LEMMA MachineLater == ASSUME Machine, NEW by \in Nat, TimePasses(by) PROVE Machine'
<1>1. connector.last_rekey \in Ages /\ connector.last_ip_lease \in Ages
  BY DEF Machine, Connector
<1>2. Later(connector.last_rekey, by) \in Ages /\ Later(connector.last_ip_lease, by) \in Ages
  BY <1>1, LaterAge
<1>3. QED
  BY <1>2 DEF Machine, Connector, TimePasses

\* The connector keeps its type.
LEMMA MachineNext == ASSUME Kept, Next PROVE Machine'
<1> USE DEF Kept, Machine, params, gateway, timer, history
<1>1. CASE Connect
  BY <1>1, MachineNew DEF Connect, Machine
<1>2. CASE Load
  BY <1>2, ConnectorAssumption DEF Load, Given, OfficeMode, Connector
<1>3. CASE LoadFails
  BY <1>3 DEF LoadFails
<1>4. CASE Negotiate
  BY <1>4 DEF Negotiate, Connector
<1>5. CASE Accept \/ Acknowledge
  BY <1>5 DEF Accept, Acknowledge
<1>6. CASE UserNameChallenge
  BY <1>6 DEF UserNameChallenge, Connector
<1>7. CASE OtherChallenge
  BY <1>7 DEF OtherChallenge, Connector
<1>8. CASE ChallengeCode
  BY <1>8 DEF ChallengeCode
<1>9. CASE OmReply
  <2>1. PICK a \in Addresses, l \in AddressLifetimes :
            connector' = [connector EXCEPT !.ccc = connector.ike, !.session.address = a,
                                           !.session.address_lifetime = l, !.last_ip_lease = 0]
    BY <1>9 DEF OmReply
  <2>2. [connector.session EXCEPT !.address = a, !.address_lifetime = l] \in Session
    BY DEF Connector, Session
  <2>3. 0 \in Ages
    BY ConnectorAssumption DEF Ages
  <2>4. QED
    BY <2>1, <2>2, <2>3 DEF Connector
<1>10. CASE EspReply
  <2>1. PICK s \in Spis, l \in EspLifetimes :
            connector' = [connector EXCEPT !.session.esp = s, !.session.lifetime = l, !.last_rekey = 0]
    BY <1>10 DEF EspReply
  <2>2. [connector.session EXCEPT !.esp = s, !.lifetime = l] \in Session
    BY DEF Connector, Session
  <2>3. 0 \in Ages
    BY ConnectorAssumption DEF Ages
  <2>4. QED
    BY <2>1, <2>2, <2>3 DEF Connector
<1>11. CASE ExchangeFails
  <2>1. CASE connector' = connector
    BY <2>1
  <2>2. CASE \E a \in Addresses \cup {NoAddress} :
                 connector' = [connector EXCEPT !.ccc = connector.ike, !.session.address = a]
    <3>1. PICK a \in Addresses \cup {NoAddress} :
              connector' = [connector EXCEPT !.ccc = connector.ike, !.session.address = a]
      BY <2>2
    <3>2. [connector.session EXCEPT !.address = a] \in Session
      BY DEF Connector, Session
    <3>3. QED
      BY <3>1, <3>2 DEF Connector
  <2>3. connector.session.address \in Addresses \cup {NoAddress}
    BY DEF Connector, Session
  <2>4. connector' = connector \/ \E a \in {leased', connector.session.address} :
            leased' \in Addresses /\ connector' = [connector EXCEPT !.ccc = connector.ike, !.session.address = a]
    BY <1>11 DEF ExchangeFails, Remains
  <2>5. QED
    BY <2>1, <2>2, <2>3, <2>4
<1>12. CASE ReuseSettings
  <2>1. store \in OfficeMode
    BY <1>12 DEF ReuseSettings, Given, Saved, Order, Ranges
  <2>2. [connector.session EXCEPT !.address = store.address] \in Session
    BY <2>1 DEF Connector, Session, OfficeMode
  <2>3. QED
    BY <1>12, <2>1, <2>2 DEF ReuseSettings, Connector, OfficeMode
<1>13. CASE RestoreFailed
  BY <1>13, MachineNew, ConnectorAssumption DEF RestoreFailed, Connector
<1>14. CASE LoginFailed
  BY <1>14, MachineNew DEF LoginFailed, Drop
<1>15. CASE RekeyFailed
  BY <1>15, MachineNew DEF RekeyFailed, Drop
<1>16. CASE CreateTunnel
  BY <1>16 DEF CreateTunnel, Connector
<1>17. CASE CreateFails \/ HandleDisconnected \/ Reset
  BY <1>17, MachineNew DEF CreateFails, HandleDisconnected, Reset, Drop
<1>18. CASE ApplyReKey \/ TunnelEnds
  BY <1>18 DEF ApplyReKey, TunnelEnds
<1>19. CASE RekeyCheck \/ BadMessage \/ SendReKey
  BY <1>19 DEF RekeyCheck, BadMessage, SendReKey, Timely
<1>20. CASE DeleteSession
  BY <1>20 DEF DeleteSession
<1>21. CASE TerminateTunnel
  BY <1>21 DEF TerminateTunnel, Connector
<1>22. CASE Crash
  BY <1>22, MachineNew DEF Crash
<1>23. CASE GatewayForgets
  BY <1>23 DEF GatewayForgets
<1>24. CASE Tick
  BY <1>24, MachineLater DEF Tick
<1>25. CASE Suspend
  BY <1>25, MachineLater, ConnectorAssumption DEF Suspend
<1>26. CASE ClockSetBack
  BY <1>26 DEF ClockSetBack
<1>27. QED
  BY <1>1, <1>2, <1>3, <1>4, <1>5, <1>6, <1>7, <1>8, <1>9, <1>10, <1>11, <1>12, <1>13, <1>14, <1>15, <1>16,
         <1>17, <1>18, <1>19, <1>20, <1>21, <1>22, <1>23, <1>24, <1>25, <1>26 DEF Next

\* What an exchange that fails leaves alone.
LEMMA FailureKeeps ==
  ASSUME Machine, ExchangeFails
  PROVE  /\ connector'.ike = connector.ike /\ connector'.sender = connector.sender
         /\ connector'.last_challenge_type = connector.last_challenge_type
         /\ connector'.last_rekey = connector.last_rekey
         /\ connector'.last_ip_lease = connector.last_ip_lease
         /\ connector'.session.esp = connector.session.esp
         /\ connector'.session.lifetime = connector.session.lifetime
         /\ connector'.session.address_lifetime = connector.session.address_lifetime
<1>1. connector' = connector \/ \E a \in {leased', connector.session.address} :
          connector' = [connector EXCEPT !.ccc = connector.ike, !.session.address = a]
  BY DEF ExchangeFails, Remains
<1>2. CASE connector' = connector
  BY <1>2
<1>3. ASSUME NEW a \in {leased', connector.session.address},
             connector' = [connector EXCEPT !.ccc = connector.ike, !.session.address = a]
      PROVE  /\ connector'.ike = connector.ike /\ connector'.sender = connector.sender
             /\ connector'.last_challenge_type = connector.last_challenge_type
             /\ connector'.last_rekey = connector.last_rekey
             /\ connector'.last_ip_lease = connector.last_ip_lease
             /\ connector'.session.esp = connector.session.esp
             /\ connector'.session.lifetime = connector.session.lifetime
             /\ connector'.session.address_lifetime = connector.session.address_lifetime
  BY <1>3 DEF Machine, Connector, Session
<1>4. QED
  BY <1>1, <1>2, <1>3

\* What the reply to a session exchange sets, and what it leaves alone.
LEMMA LeaseTaken ==
  ASSUME Machine, OmReply
  PROVE  /\ connector'.ike = connector.ike /\ connector'.ccc = connector.ike
         /\ connector'.sender = connector.sender
         /\ connector'.session.address = leased' /\ leased' \in Addresses
         /\ connector'.session.esp = connector.session.esp
         /\ connector'.last_ip_lease = 0 /\ connector'.last_rekey = connector.last_rekey
<1>1. PICK a \in Addresses, l \in AddressLifetimes :
          /\ leased' = a
          /\ connector' = [connector EXCEPT !.ccc = connector.ike, !.session.address = a,
                                            !.session.address_lifetime = l, !.last_ip_lease = 0]
  BY DEF OmReply
<1>2. QED
  BY <1>1 DEF Machine, Connector, Session

\* What the reply to an ESP proposal sets, and what it leaves alone.
LEMMA KeysTaken ==
  ASSUME Machine, EspReply
  PROVE  /\ connector'.ike = connector.ike /\ connector'.ccc = connector.ccc
         /\ connector'.sender = connector.sender
         /\ connector'.session.address = connector.session.address
         /\ connector'.session.address_lifetime = connector.session.address_lifetime
         /\ connector'.session.esp = installed'
         /\ connector'.last_ip_lease = connector.last_ip_lease
         /\ connector'.last_rekey = 0
<1>1. PICK s \in Spis, l \in EspLifetimes :
          /\ installed' = s
          /\ connector' = [connector EXCEPT !.session.esp = s, !.session.lifetime = l,
                                            !.last_rekey = 0]
  BY DEF EspReply
<1>2. QED
  BY <1>1 DEF Machine, Connector, Session

\* Operations begin and end in their stages.
LEMMA OrderNext == ASSUME Kept, Next PROVE Order'
<1> USE DEF Kept, Order, Flags, Ranges, Channel, Machine, Connector, params, gateway, timer, history
<1>1. CASE Connect \/ Load \/ LoadFails \/ Negotiate \/ Accept \/ Acknowledge
  BY <1>1 DEF Connect, Load, LoadFails, Negotiate, Accept, Acknowledge, NewConnector, UsedIkes
<1>2. CASE UserNameChallenge \/ OtherChallenge \/ ChallengeCode
  BY <1>2 DEF UserNameChallenge, OtherChallenge, ChallengeCode, AskUser
<1>3. CASE OmReply
  BY <1>3 DEF OmReply, Honoured
<1>4. CASE EspReply
  BY <1>4 DEF EspReply, Save, Grant, Honoured
<1>5. CASE ExchangeFails
  <2>1. connector'.ike = connector.ike /\ connector'.sender = connector.sender
    BY <1>5, FailureKeeps
  <2>2. QED
    BY <1>5, <2>1 DEF ExchangeFails
<1>6. CASE ReuseSettings
  BY <1>6 DEF ReuseSettings
<1>7. CASE RestoreFailed \/ LoginFailed \/ RekeyFailed
  BY <1>7 DEF RestoreFailed, LoginFailed, RekeyFailed, NewConnector, Drop
<1>8. CASE CreateTunnel \/ CreateFails \/ ApplyReKey \/ TunnelEnds \/ HandleDisconnected
  BY <1>8 DEF CreateTunnel, CreateFails, ApplyReKey, TunnelEnds, HandleDisconnected, Drop, NewConnector,
         NoTunnel
<1>9. CASE RekeyCheck \/ BadMessage \/ SendReKey
  BY <1>9 DEF RekeyCheck, BadMessage, SendReKey, Timely
<1>10. CASE DeleteSession \/ TerminateTunnel \/ Reset
  BY <1>10 DEF DeleteSession, TerminateTunnel, Reset, Drop, NewConnector
<1>11. CASE Crash \/ GatewayForgets \/ Tick \/ Suspend \/ ClockSetBack
  <2>1. CASE Crash
    BY <2>1 DEF Crash, NewConnector, NoTunnel
  <2>2. CASE GatewayForgets
    BY <2>2 DEF GatewayForgets
  <2>3. CASE Tick \/ Suspend \/ ClockSetBack
    <3>1. UNCHANGED <<stage, op, at, disconnecting, tunnel, commands, mode>>
      BY <2>3 DEF Tick, Suspend, ClockSetBack
    <3>2. connector'.sender = connector.sender /\ connector'.ike = connector.ike
      BY <2>3 DEF Tick, Suspend, ClockSetBack, TimePasses
    <3>3. QED
      BY <3>1, <3>2
  <2>4. QED
    BY <1>11, <2>1, <2>2, <2>3
<1>12. QED
  BY <1>1, <1>2, <1>3, <1>4, <1>5, <1>6, <1>7, <1>8, <1>9, <1>10, <1>11 DEF Next

\* What is saved is the session exchange that has just been completed.
LEMMA SavedNext == ASSUME Kept, Next PROVE Saved'
<1> USE DEF Kept, Saved, Order, Ranges, Given, OfficeMode, Flags, Machine, Connector, Session, params,
         gateway, timer, history
<1>1. CASE Connect \/ Load \/ LoadFails \/ Negotiate \/ Accept \/ Acknowledge
  BY <1>1 DEF Connect, Load, LoadFails, Negotiate, Accept, Acknowledge, NewConnector, UsedIkes
<1>2. CASE UserNameChallenge \/ OtherChallenge \/ ChallengeCode
  BY <1>2 DEF UserNameChallenge, OtherChallenge, ChallengeCode, AskUser
<1>3. CASE OmReply
  <2>1. connector'.ccc = connector.ike /\ connector'.ike = connector.ike
        /\ connector'.session.address \in Addresses
    BY <1>3, LeaseTaken
  <2>2. QED
    BY <1>3, <2>1 DEF OmReply
<1>4. CASE EspReply
  <2>1. connector.ike \in spent /\ at' # "esp" /\ op' # "restore"
    BY <1>4 DEF EspReply, Honoured, Grant
  <2>2. CASE UNCHANGED <<store, resumable>>
    BY <1>4, <2>1, <2>2 DEF EspReply
  <2>3. CASE /\ at = "esp" /\ resumable' = connector.ike
             /\ store' = [ike |-> connector.ike, ccc |-> connector.ccc, address |-> connector.session.address]
    BY <1>4, <2>1, <2>3, ConnectorAssumption DEF EspReply
  <2>4. QED
    BY <1>4, <2>2, <2>3 DEF EspReply, Save
<1>5. CASE ExchangeFails
  BY <1>5 DEF ExchangeFails, Remains, Honoured
<1>6. CASE ReuseSettings
  BY <1>6 DEF ReuseSettings
<1>7. CASE RestoreFailed \/ LoginFailed \/ RekeyFailed
  BY <1>7 DEF RestoreFailed, LoginFailed, RekeyFailed, NewConnector, Drop
<1>8. CASE CreateTunnel \/ CreateFails \/ ApplyReKey \/ TunnelEnds \/ HandleDisconnected
  BY <1>8 DEF CreateTunnel, CreateFails, ApplyReKey, TunnelEnds, HandleDisconnected, Drop, NewConnector,
         NoTunnel
<1>9. CASE RekeyCheck \/ BadMessage \/ SendReKey
  BY <1>9 DEF RekeyCheck, BadMessage, SendReKey, Timely
<1>10. CASE DeleteSession \/ TerminateTunnel \/ Reset
  BY <1>10 DEF DeleteSession, TerminateTunnel, Reset, Drop, NewConnector
<1>11. CASE Crash \/ GatewayForgets \/ Tick \/ Suspend \/ ClockSetBack
  BY <1>11 DEF Crash, GatewayForgets, Tick, Suspend, ClockSetBack, NewConnector, NoTunnel, TimePasses
<1>12. QED
  BY <1>1, <1>2, <1>3, <1>4, <1>5, <1>6, <1>7, <1>8, <1>9, <1>10, <1>11 DEF Next

\* Asking the user is what makes another answer possible.
LEMMA AnsweredOnceNext == ASSUME Kept, Next PROVE AnsweredOnce'
<1> USE DEF Kept, AnsweredOnce, Order, Ranges, Machine, Connector, params, gateway, timer, history
<1>1. CASE Connect \/ Load \/ LoadFails \/ Negotiate \/ Accept \/ Acknowledge
  BY <1>1 DEF Connect, Load, LoadFails, Negotiate, Accept, Acknowledge, NewConnector, UsedIkes
<1>2. CASE UserNameChallenge \/ OtherChallenge \/ ChallengeCode
  BY <1>2 DEF UserNameChallenge, OtherChallenge, ChallengeCode, AskUser
<1>3. CASE OmReply
  BY <1>3 DEF OmReply, Honoured
<1>4. CASE EspReply
  BY <1>4 DEF EspReply, Save, Grant, Honoured
<1>5. CASE ExchangeFails
  BY <1>5 DEF ExchangeFails, Remains, Honoured
<1>6. CASE ReuseSettings
  BY <1>6 DEF ReuseSettings
<1>7. CASE RestoreFailed \/ LoginFailed \/ RekeyFailed
  BY <1>7 DEF RestoreFailed, LoginFailed, RekeyFailed, NewConnector, Drop
<1>8. CASE CreateTunnel \/ CreateFails \/ ApplyReKey \/ TunnelEnds \/ HandleDisconnected
  BY <1>8 DEF CreateTunnel, CreateFails, ApplyReKey, TunnelEnds, HandleDisconnected, Drop, NewConnector,
         NoTunnel
<1>9. CASE RekeyCheck \/ BadMessage \/ SendReKey
  BY <1>9 DEF RekeyCheck, BadMessage, SendReKey, Timely
<1>10. CASE DeleteSession \/ TerminateTunnel \/ Reset
  BY <1>10 DEF DeleteSession, TerminateTunnel, Reset, Drop, NewConnector
<1>11. CASE Crash \/ GatewayForgets \/ Tick \/ Suspend \/ ClockSetBack
  BY <1>11 DEF Crash, GatewayForgets, Tick, Suspend, ClockSetBack, NewConnector, NoTunnel, TimePasses
<1>12. QED
  BY <1>1, <1>2, <1>3, <1>4, <1>5, <1>6, <1>7, <1>8, <1>9, <1>10, <1>11 DEF Next

\* The gateway honours fewer SAs as time goes by, and none anew while a session is restored.
LEMMA RestoringNext == ASSUME Kept, Next PROVE Restoring'
<1> USE DEF Kept, Restoring, Order, Flags, Ranges, Given, Saved, Machine, Connector, params, gateway, timer,
         history
<1>1. CASE Connect
  BY <1>1 DEF Connect, NewConnector
<1>2. CASE Load
  <2>1. connector'.ike = store.ike
    BY <1>2 DEF Load
  <2>2. QED
    BY <1>2, <2>1 DEF Load
<1>3. CASE LoadFails
  <2>1. CASE store = NoSession
    <3>1. resumable \notin valid
      BY <2>1, ConnectorAssumption
    <3>2. QED
      BY <1>3, <3>1 DEF LoadFails
  <2>2. CASE store # NoSession
    BY <1>3, <2>2 DEF LoadFails
  <2>3. QED
    BY <2>1, <2>2
<1>4. CASE Negotiate \/ Accept \/ Acknowledge
  BY <1>4 DEF Negotiate, Accept, Acknowledge, UsedIkes
<1>5. CASE UserNameChallenge \/ OtherChallenge \/ ChallengeCode
  BY <1>5 DEF UserNameChallenge, OtherChallenge, ChallengeCode, AskUser
<1>6. CASE OmReply
  BY <1>6 DEF OmReply, Honoured
<1>7. CASE EspReply
  BY <1>7 DEF EspReply, Save, Grant, Honoured
<1>8. CASE ExchangeFails
  BY <1>8 DEF ExchangeFails, Remains, Honoured
<1>9. CASE ReuseSettings
  BY <1>9 DEF ReuseSettings
<1>10. CASE RestoreFailed \/ LoginFailed \/ RekeyFailed
  BY <1>10 DEF RestoreFailed, LoginFailed, RekeyFailed, NewConnector, Drop
<1>11. CASE CreateTunnel \/ CreateFails \/ ApplyReKey \/ TunnelEnds \/ HandleDisconnected
  BY <1>11 DEF CreateTunnel, CreateFails, ApplyReKey, TunnelEnds, HandleDisconnected, Drop, NewConnector,
         NoTunnel
<1>12. CASE RekeyCheck \/ BadMessage \/ SendReKey
  BY <1>12 DEF RekeyCheck, BadMessage, SendReKey, Timely
<1>13. CASE DeleteSession \/ TerminateTunnel \/ Reset
  BY <1>13 DEF DeleteSession, TerminateTunnel, Reset, Drop, NewConnector
<1>14. CASE Crash \/ GatewayForgets \/ Tick \/ Suspend \/ ClockSetBack
  <2>1. CASE Crash
    BY <2>1 DEF Crash, NewConnector, NoTunnel
  <2>2. CASE GatewayForgets
    BY <2>2 DEF GatewayForgets
  <2>3. CASE Tick \/ Suspend \/ ClockSetBack
    <3>1. op' = "none"
      BY <2>3 DEF Tick, Suspend, ClockSetBack
    <3>2. QED
      BY <3>1
  <2>4. QED
    BY <1>14, <2>1, <2>2, <2>3
<1>15. QED
  BY <1>1, <1>2, <1>3, <1>4, <1>5, <1>6, <1>7, <1>8, <1>9, <1>10, <1>11, <1>12, <1>13, <1>14 DEF Next

\* Applying a command changes what the tunnel works with, not what it will.
LEMMA LatestApplied ==
  ASSUME Channel, ApplyReKey
  PROVE  LatestEsp' = LatestEsp /\ LatestAddress' = LatestAddress
<1>1. commands \in Seq(Session) /\ commands # <<>>
  BY DEF Channel, ApplyReKey
<1>2. tunnel'.esp = commands[1].esp /\ tunnel'.address = commands[1].address
  BY DEF Channel, ApplyReKey
<1>3. /\ Len(commands) \in Nat \ {0} /\ Tail(commands) \in Seq(Session)
      /\ Len(Tail(commands)) = Len(commands) - 1
      /\ \A i \in 1..Len(Tail(commands)) : Tail(commands)[i] = commands[i + 1]
  BY <1>1, EmptySeq, HeadTailProperties
<1>4. CASE Len(commands) = 1
  <2>1. Tail(commands) = <<>>
    <3>1. Tail(commands) # <<>> => Len(Tail(commands)) \in Nat \ {0}
      BY <1>3, EmptySeq
    <3>2. QED
      BY <1>3, <1>4, <3>1
  <2>2. QED
    BY <1>1, <1>2, <1>4, <2>1 DEF ApplyReKey, LatestEsp, LatestAddress
<1>5. CASE Len(commands) > 1
  <2>1. Tail(commands) # <<>> /\ Tail(commands)[Len(commands) - 1] = commands[Len(commands)]
    BY <1>3, <1>5, EmptySeq
  <2>2. QED
    BY <1>1, <1>3, <2>1 DEF ApplyReKey, LatestEsp, LatestAddress
<1>6. QED
  BY <1>3, <1>4, <1>5

\* A ReKey that is sent is the latest.
LEMMA LatestSent ==
  ASSUME Channel, commands' = Append(commands, connector.session)
  PROVE  LatestEsp' = connector.session.esp /\ LatestAddress' = connector.session.address
<1>1. commands \in Seq(Session)
  BY DEF Channel
<1>2. /\ Append(commands, connector.session) # <<>>
      /\ Append(commands, connector.session)[Len(commands) + 1] = connector.session
      /\ Len(Append(commands, connector.session)) = Len(commands) + 1
  BY <1>1
<1>3. QED
  BY <1>2 DEF LatestEsp, LatestAddress

\* New keys are the connector's and on their way to the tunnel, or known to be lost.
LEMMA KeysFollowNext == ASSUME Kept, Next PROVE KeysFollow'
<1> USE DEF Kept, KeysFollow, Order, Ranges, params, gateway, timer, history
<1>1. CASE Connect \/ Load \/ LoadFails \/ Negotiate \/ Accept \/ Acknowledge
  BY <1>1 DEF Connect, Load, LoadFails, Negotiate, Accept, Acknowledge, NewConnector, LatestEsp, Flags
<1>2. CASE UserNameChallenge \/ OtherChallenge \/ ChallengeCode
  BY <1>2 DEF UserNameChallenge, OtherChallenge, ChallengeCode, AskUser, LatestEsp, Flags, Machine, Connector
<1>3. CASE OmReply
  BY <1>3, LeaseTaken DEF OmReply, Flags, LatestEsp
<1>4. CASE EspReply
  BY <1>4, KeysTaken DEF EspReply, Grant, Flags, LatestEsp
<1>5. CASE ExchangeFails
  BY <1>5, FailureKeeps DEF ExchangeFails, Remains, Flags, LatestEsp
<1>6. CASE ReuseSettings
  BY <1>6 DEF ReuseSettings, Flags, LatestEsp, Machine, Connector
<1>7. CASE RestoreFailed \/ LoginFailed \/ RekeyFailed
  BY <1>7 DEF RestoreFailed, LoginFailed, RekeyFailed, Drop, LatestEsp
<1>8. CASE CreateTunnel
  BY <1>8 DEF CreateTunnel, LatestEsp, Flags, Machine, Connector, Session
<1>9. CASE ApplyReKey
  BY <1>9, LatestApplied DEF ApplyReKey
<1>10. CASE CreateFails \/ TunnelEnds \/ HandleDisconnected
  BY <1>10 DEF CreateFails, TunnelEnds, HandleDisconnected, Drop, NoTunnel, LatestEsp
<1>11. CASE RekeyCheck \/ BadMessage
  BY <1>11 DEF RekeyCheck, BadMessage, LatestEsp
<1>12. CASE SendReKey
  BY <1>12, LatestSent DEF SendReKey, LatestEsp
<1>13. CASE DeleteSession \/ TerminateTunnel \/ Reset
  BY <1>13 DEF DeleteSession, TerminateTunnel, Reset, Drop, LatestEsp, Machine, Connector
<1>14. CASE Crash \/ GatewayForgets \/ Tick \/ Suspend \/ ClockSetBack
  BY <1>14 DEF Crash, GatewayForgets, Tick, Suspend, ClockSetBack, TimePasses, LatestEsp, Machine, Connector
<1>15. QED
  BY <1>1, <1>2, <1>3, <1>4, <1>5, <1>6, <1>7, <1>8, <1>9, <1>10, <1>11, <1>12, <1>13, <1>14 DEF Next

\* A new lease is the connector's when the exchange that took it is done, and on its way to the tunnel.
LEMMA LeaseFollowsNext == ASSUME Kept, Next PROVE LeaseFollows'
<1> USE DEF Kept, LeaseFollows, Order, Ranges, params, gateway, timer, history
<1>1. CASE Connect \/ Load \/ LoadFails \/ Negotiate \/ Accept \/ Acknowledge
  BY <1>1 DEF Connect, Load, LoadFails, Negotiate, Accept, Acknowledge, NewConnector, LatestAddress, Flags
<1>2. CASE UserNameChallenge \/ OtherChallenge \/ ChallengeCode
  BY <1>2 DEF UserNameChallenge, OtherChallenge, ChallengeCode, AskUser, LatestAddress, Flags, Machine, Connector
<1>3. CASE OmReply
  BY <1>3, LeaseTaken DEF OmReply, Flags, LatestAddress
<1>4. CASE EspReply
  BY <1>4, KeysTaken DEF EspReply, Grant, Flags, LatestAddress
<1>5. CASE ExchangeFails
  BY <1>5, FailureKeeps DEF ExchangeFails, Remains, Flags, LatestAddress
<1>6. CASE ReuseSettings
  BY <1>6 DEF ReuseSettings, Flags, LatestAddress, Machine, Connector
<1>7. CASE RestoreFailed \/ LoginFailed \/ RekeyFailed
  BY <1>7 DEF RestoreFailed, LoginFailed, RekeyFailed, Drop, LatestAddress
<1>8. CASE CreateTunnel
  BY <1>8 DEF CreateTunnel, LatestAddress, Flags, Machine, Connector, Session
<1>9. CASE ApplyReKey
  BY <1>9, LatestApplied DEF ApplyReKey
<1>10. CASE CreateFails \/ TunnelEnds \/ HandleDisconnected
  BY <1>10 DEF CreateFails, TunnelEnds, HandleDisconnected, Drop, NoTunnel, LatestAddress
<1>11. CASE RekeyCheck \/ BadMessage
  BY <1>11 DEF RekeyCheck, BadMessage, LatestAddress
<1>12. CASE SendReKey
  BY <1>12, LatestSent DEF SendReKey, LatestAddress
<1>13. CASE DeleteSession \/ TerminateTunnel \/ Reset
  BY <1>13 DEF DeleteSession, TerminateTunnel, Reset, Drop, LatestAddress, Machine, Connector
<1>14. CASE Crash \/ GatewayForgets \/ Tick \/ Suspend \/ ClockSetBack
  BY <1>14 DEF Crash, GatewayForgets, Tick, Suspend, ClockSetBack, TimePasses, LatestAddress, Machine, Connector
<1>15. QED
  BY <1>1, <1>2, <1>3, <1>4, <1>5, <1>6, <1>7, <1>8, <1>9, <1>10, <1>11, <1>12, <1>13, <1>14 DEF Next

\* The numbers of the connector.
LEMMA MachineTypes ==
  ASSUME Machine
  PROVE  /\ connector.last_rekey \in Ages /\ connector.last_ip_lease \in Ages
         /\ connector.session.lifetime \in Nat /\ connector.session.address_lifetime \in Nat
<1>1. /\ connector.last_rekey \in Ages /\ connector.last_ip_lease \in Ages
      /\ connector.session \in Session
  BY DEF Machine, Connector
<1>2. /\ connector.session.lifetime \in EspLifetimes \cup {0}
      /\ connector.session.address_lifetime \in AddressLifetimes \cup {0}
  BY <1>1 DEF Session
<1>3. EspLifetimes \cup {0} \subseteq Nat /\ AddressLifetimes \cup {0} \subseteq Nat
  BY ConnectorAssumption
<1>4. QED
  BY <1>1, <1>2, <1>3

\* What time does to them.
LEMMA MachineAges ==
  ASSUME Machine, NEW by \in Nat, TimePasses(by)
  PROVE  /\ connector'.last_rekey = Later(connector.last_rekey, by)
         /\ connector'.last_ip_lease = Later(connector.last_ip_lease, by)
         /\ connector'.session = connector.session
  BY DEF Machine, Connector, TimePasses

\* How far the clock was set back is a number.
LEMMA SetBackTypes == ASSUME Flags PROVE setback.keys \in Nat /\ setback.lease \in Nat
  BY ConnectorAssumption DEF Flags

\* A time that is not due is fresh, and the clock has reached it.
LEMMA DueOrFresh ==
  ASSUME NEW last \in Ages, NEW back \in Nat, NEW lifetime \in Nat, NEW leeway \in Nat,
         ~Due(last, back, lifetime, leeway)
  PROVE  FreshAt(last, back, lifetime, leeway) /\ Reached(last, back)
  BY ConnectorAssumption DEF Due, FreshAt, Reached, Use, Ages, Never

\* What is fresh has less than an interval to go, ...
LEMMA FreshStays ==
  ASSUME NEW last \in Ages, NEW back \in Nat, NEW lifetime \in Nat, NEW leeway \in Nat,
         FreshAt(last, back, lifetime, leeway)
  PROVE  FreshBefore(last, back, lifetime, leeway)
  BY ConnectorAssumption DEF FreshAt, FreshBefore, Use, Ages, Never

\* ... also when an interval has passed; ...
LEMMA FreshLater ==
  ASSUME NEW last \in Ages, NEW back \in Nat, NEW lifetime \in Nat, NEW leeway \in Nat,
         FreshAt(last, back, lifetime, leeway)
  PROVE  FreshBefore(Later(last, 1), back, lifetime, leeway)
  BY ConnectorAssumption DEF FreshAt, FreshBefore, Use, Later, Ages, Never

\* ... the clock does not fall behind again as time passes; ...
LEMMA ReachedLater ==
  ASSUME NEW last \in Ages, NEW back \in Nat, NEW by \in Nat, Reached(last, back)
  PROVE  Reached(Later(last, by), back)
  BY ConnectorAssumption DEF Reached, Later, Ages, Never

\* ... and when the clock is set back, what was fresh seems even fresher.
LEMMA FreshSetBack ==
  ASSUME NEW last \in Ages, NEW back \in Nat, NEW by \in Nat, NEW lifetime \in Nat, NEW leeway \in Nat
  PROVE  /\ FreshAt(last, back, lifetime, leeway) =>
                FreshAt(last, IF last = Never THEN 0 ELSE back + by, lifetime, leeway)
         /\ FreshBefore(last, back, lifetime, leeway) =>
                FreshBefore(last, IF last = Never THEN 0 ELSE back + by, lifetime, leeway)
  BY ConnectorAssumption DEF FreshAt, FreshBefore, Use, Ages, Never

\* What is found fresh expires an interval later at the earliest, and by then a RekeyCheck has been served.
LEMMA FreshNext == ASSUME Kept, Next PROVE Fresh'
<1> DEFINE Measures == /\ connector.last_rekey \in Ages /\ connector.last_ip_lease \in Ages
                       /\ connector.session.lifetime \in Nat /\ connector.session.address_lifetime \in Nat
                       /\ setback.keys \in Nat /\ setback.lease \in Nat
                       /\ EspLeeway \in Nat /\ AddressLeeway \in Nat
<1> USE DEF Kept, Fresh, Order, Ranges, params, gateway, timer, history
<1>0. Measures
  BY MachineTypes, SetBackTypes, ConnectorAssumption
<1> HIDE DEF Measures
<1>1. CASE Connect \/ LoadFails \/ Accept \/ Acknowledge
  BY <1>1 DEF Connect, LoadFails, Accept, Acknowledge
<1>2. CASE Load \/ Negotiate
  BY <1>2 DEF Load, Negotiate
<1>3. CASE UserNameChallenge \/ OtherChallenge \/ ChallengeCode
  BY <1>3 DEF UserNameChallenge, OtherChallenge, ChallengeCode, AskUser
<1>4. CASE OmReply
  <2>1. setback'.lease = 0
    BY <1>4 DEF OmReply, Flags
  <2>2. LeaseAt' /\ LeaseReached'
    BY <1>4, <2>1, LeaseTaken DEF LeaseAt, LeaseReached, FreshAt, Reached
  <2>3. stage' = stage /\ op' = op /\ at' = "esp" /\ late' = late /\ op # "none" /\ connector'.last_rekey = connector.last_rekey
    BY <1>4, LeaseTaken DEF OmReply
  <2>4. QED
    BY <2>2, <2>3
<1>5. CASE EspReply
  <2>1. setback'.keys = 0 /\ setback'.lease = setback.lease /\ UNCHANGED <<checked, late, seen>>
    BY <1>5 DEF EspReply, Flags
  <2>2. connector'.last_rekey = 0 /\ connector'.last_rekey # Never
        /\ connector'.last_ip_lease = connector.last_ip_lease
        /\ connector'.session.address_lifetime = connector.session.address_lifetime
    BY <1>5, KeysTaken DEF Never
  <2>3. LeaseAt' = LeaseAt /\ LeaseReached' = LeaseReached
    BY <2>1, <2>2 DEF LeaseAt, LeaseReached
  <2>4. \/ op = "rekey" /\ at' = "send" /\ UNCHANGED <<op, stage>> /\ at \in {"esp", "renew"}
        \/ op' = "none" /\ at' = "idle" /\ stage' = "granted" /\ late = TRUE
    BY <1>5 DEF EspReply, Grant
  <2>5. QED
    BY <2>1, <2>2, <2>3, <2>4
<1>6. CASE ExchangeFails
  <2>1. UNCHANGED <<stage, op, setback, checked, late, seen>> /\ at' \in {"reuse", "failed"} /\ op # "none"
    BY <1>6 DEF ExchangeFails
  <2>2. connector'.last_rekey = connector.last_rekey
    BY <1>6, FailureKeeps
  <2>3. QED
    BY <2>1, <2>2
<1>7. CASE ReuseSettings
  BY <1>7 DEF ReuseSettings
<1>8. CASE RestoreFailed \/ LoginFailed \/ RekeyFailed
  BY <1>8 DEF RestoreFailed, LoginFailed, RekeyFailed, Drop
<1>9. CASE CreateTunnel
  BY <1>9 DEF CreateTunnel, Machine, Connector
<1>10. CASE ApplyReKey
  BY <1>10 DEF ApplyReKey, Channel, KeysAt, LeaseAt, KeysBefore, LeaseBefore, KeysReached, LeaseReached
<1>11. CASE CreateFails \/ HandleDisconnected \/ Reset
  BY <1>11 DEF CreateFails, HandleDisconnected, Reset, Drop
<1>12. CASE TunnelEnds
  BY <1>12 DEF TunnelEnds, NoTunnel, LeaseAt, LeaseReached
<1>13. CASE RekeyCheck
  <2>1. UNCHANGED <<connector, setback, stage, tunnel>> /\ stage = "tunnel" /\ op = "none"
    BY <1>13 DEF RekeyCheck, Timely
  <2>2. UNCHANGED <<KeysAt, LeaseAt, KeysBefore, LeaseBefore, KeysReached, LeaseReached>>
    BY <2>1 DEF KeysAt, LeaseAt, KeysBefore, LeaseBefore, KeysReached, LeaseReached
  <2>3. ~LeaseDue => LeaseAt /\ LeaseReached /\ LeaseBefore
    BY <1>0, DueOrFresh, FreshStays DEF LeaseDue, LeaseAt, LeaseReached, LeaseBefore, Measures
  <2>4. ~RekeyDue => KeysAt /\ KeysReached /\ KeysBefore
    BY <1>0, DueOrFresh, FreshStays DEF RekeyDue, KeysAt, KeysReached, KeysBefore, Measures
  <2>5. CASE late' = TRUE /\ UNCHANGED <<op, at>>
    BY <2>1, <2>5
  <2>6. CASE op' = "rekey" /\ (at' = "om" \/ (at' = "renew" /\ ~LeaseDue))
    BY <2>1, <2>2, <2>3, <2>6
  <2>7. CASE ~LeaseDue /\ ~RekeyDue /\ UNCHANGED <<op, at>>
    BY <2>1, <2>2, <2>3, <2>4, <2>7
  <2>8. QED
    BY <1>13, <2>5, <2>6, <2>7 DEF RekeyCheck
<1>14. CASE BadMessage
  BY <1>14 DEF BadMessage
<1>15. CASE SendReKey
  <2>1. UNCHANGED <<connector, setback, stage, tunnel>> /\ op = "rekey"
    BY <1>15 DEF SendReKey, Timely
  <2>2. UNCHANGED <<KeysAt, LeaseAt, KeysBefore, LeaseBefore, KeysReached, LeaseReached>>
    BY <2>1 DEF KeysAt, LeaseAt, KeysBefore, LeaseBefore, KeysReached, LeaseReached
  <2>3. connector.last_rekey = 0 /\ setback.keys = 0 /\ LeaseAt /\ LeaseReached
    BY <1>15, <2>1 DEF SendReKey
  <2>4. KeysAt /\ KeysReached
    BY <2>3 DEF KeysAt, KeysReached, FreshAt, Reached
  <2>5. KeysBefore /\ LeaseBefore
    BY <1>0, <2>3, <2>4, FreshStays DEF KeysAt, LeaseAt, KeysBefore, LeaseBefore, Measures
  <2>6. (op' = "none" /\ at' = "idle") \/ (op' = op /\ at' = "failed")
    BY <1>15 DEF SendReKey
  <2>7. QED
    BY <2>1, <2>2, <2>3, <2>4, <2>5, <2>6
<1>16. CASE DeleteSession \/ TerminateTunnel
  <2>1. /\ connector'.last_rekey = connector.last_rekey /\ connector'.last_ip_lease = connector.last_ip_lease
        /\ connector'.session = connector.session
        /\ UNCHANGED <<setback, stage, op, at, tunnel, checked, late, seen>>
    BY <1>16 DEF DeleteSession, TerminateTunnel, Machine, Connector
  <2>2. UNCHANGED <<KeysAt, LeaseAt, KeysBefore, LeaseBefore, KeysReached, LeaseReached>>
    BY <2>1 DEF KeysAt, LeaseAt, KeysBefore, LeaseBefore, KeysReached, LeaseReached
  <2>3. QED
    BY <2>1, <2>2
<1>17. CASE Crash \/ GatewayForgets
  BY <1>17 DEF Crash, GatewayForgets, KeysAt, LeaseAt, KeysBefore, LeaseBefore, KeysReached, LeaseReached
<1>18. CASE Tick
  <2>1. /\ connector'.last_rekey = Later(connector.last_rekey, 1)
        /\ connector'.last_ip_lease = Later(connector.last_ip_lease, 1)
        /\ connector'.session = connector.session
    BY <1>18, MachineAges DEF Tick
  <2>2. UNCHANGED <<stage, op, tunnel, setback, late, seen>> /\ stage = "tunnel" /\ op = "none"
        /\ checked' = FALSE /\ (tunnel.up = TRUE => checked = TRUE)
    BY <1>18 DEF Tick, Flags, Channel
  <2>3. connector'.last_rekey # Never
    BY <1>0, <2>1, <2>2, ConnectorAssumption DEF Later, Ages, Never, Measures
  <2>4. KeysAt => KeysBefore'
    BY <1>0, <2>1, <2>2, FreshLater DEF KeysAt, KeysBefore, Measures
  <2>5. LeaseAt => LeaseBefore'
    BY <1>0, <2>1, <2>2, FreshLater DEF LeaseAt, LeaseBefore, Measures
  <2>6. (KeysReached => KeysReached') /\ (LeaseReached => LeaseReached')
    BY <1>0, <2>1, <2>2, ReachedLater DEF KeysReached, LeaseReached, Measures
  <2>7. QED
    BY <2>2, <2>3, <2>4, <2>5, <2>6
<1>19. CASE Suspend
  <2>1. TimePasses(1)
    BY <1>19 DEF Suspend
  <2>2. connector'.last_rekey = Later(connector.last_rekey, 1)
    BY <2>1, MachineAges
  <2>3. UNCHANGED <<stage, op>> /\ stage = "tunnel" /\ op = "none" /\ late' = TRUE
    BY <1>19 DEF Suspend
  <2>4. connector'.last_rekey # Never
    BY <1>0, <2>2, <2>3, ConnectorAssumption DEF Later, Ages, Never, Measures
  <2>5. QED
    BY <2>3, <2>4
<1>20. CASE ClockSetBack
  <2>1. setback' = [keys |-> IF connector.last_rekey = Never THEN 0 ELSE setback.keys + 1,
                    lease |-> IF connector.last_ip_lease = Never THEN 0 ELSE setback.lease + 1]
    BY <1>20 DEF ClockSetBack
  <2>2. UNCHANGED <<connector, stage, op, tunnel, checked, late>> /\ op = "none" /\ seen' = FALSE
    BY <1>20 DEF ClockSetBack
  <2>3. (KeysAt => KeysAt') /\ (KeysBefore => KeysBefore')
    BY <1>0, <2>1, <2>2, FreshSetBack DEF KeysAt, KeysBefore, Measures
  <2>4. (LeaseAt => LeaseAt') /\ (LeaseBefore => LeaseBefore')
    BY <1>0, <2>1, <2>2, FreshSetBack DEF LeaseAt, LeaseBefore, Measures
  <2>5. QED
    BY <2>2, <2>3, <2>4
<1>21. QED
  BY <1>1, <1>2, <1>3, <1>4, <1>5, <1>6, <1>7, <1>8, <1>9, <1>10, <1>11, <1>12, <1>13, <1>14, <1>15, <1>16,
         <1>17, <1>18, <1>19, <1>20 DEF Next

-----------------------------------------------------------------------------
(* Theorems *)

\* Kept is inductive.
LEMMA KeptNext == Kept /\ [Next]_vars => Kept'
<1>1. ASSUME Kept, Next PROVE Kept'
  BY <1>1, FlagsNext, RangesNext, GivenNext, MachineNext, ChannelNext, OrderNext, SavedNext, AnsweredOnceNext,
     RestoringNext, KeysFollowNext, LeaseFollowsNext, FreshNext DEF Kept
<1>2. QED
  BY <1>1, KeptStutter

\* Kept holds in every behaviour.
LEMMA KeptAlways == Spec => []Kept
  BY KeptInit, KeptNext, PTL DEF Spec

\* Every variable keeps its type; the command channel holds no more than its capacity.
THEOREM ConnectorTypes == Spec => []TypeOK
<1>1. Kept => TypeOK
  BY DEF Kept, Flags, Ranges, Given, Machine, Channel, TypeOK
<1>2. QED
  BY <1>1, KeptAlways, PTL

\* The saved session is one that a login has earned, and a login answers by itself at most once
\* between two questions to the user.
THEOREM SessionsAreEarned == Spec => []LoginsEarnSessions
<1>1. Kept => LoginsEarnSessions
  BY DEF Kept, Saved, AnsweredOnce, LoginsEarnSessions
<1>2. QED
  BY <1>1, KeptAlways, PTL

\* A tunnel for which nothing is under way works with the keys and the address that the gateway
\* gave last, whatever failed on the way to them.
THEOREM TunnelKeepsUp == Spec => []TunnelFitsGateway
<1>1. ASSUME Kept, Quiet PROVE tunnel.esp = installed \/ (mode = "standalone" /\ ~adopted.keys)
  <2>1. at = "idle" /\ tunnel.up = TRUE /\ adopted.keys \in BOOLEAN
    BY <1>1 DEF Kept, Order, Quiet, Flags, Channel
  <2>2. QED
    BY <1>1, <2>1 DEF Kept, KeysFollow, LatestEsp, Quiet
<1>2. ASSUME Kept, Quiet, adopted.lease PROVE tunnel.address = leased
  <2>1. at = "idle" /\ tunnel.up = TRUE /\ adopted.lease = TRUE
    BY <1>2 DEF Kept, Order, Quiet, Flags, Channel
  <2>2. QED
    BY <1>2, <2>1 DEF Kept, LeaseFollows, LatestAddress, Quiet
<1>3. Kept => TunnelFitsGateway
  BY <1>1, <1>2 DEF TunnelFitsGateway, KeysAgree, TunnelHasLease
<1>4. QED
  BY <1>3, KeptAlways, PTL

\* What was found fresh by the clock, or has just been renewed, has not expired by it when the next RekeyCheck
\* is due, as an interval later it is still within its leeway.
LEMMA FreshIsAlive ==
  ASSUME NEW last \in Ages, NEW back \in Nat, NEW lifetime \in Nat, NEW leeway \in Nat, leeway >= 2,
         FreshBefore(last, back, lifetime, leeway), lifetime >= leeway
  PROVE  last < lifetime + back
  BY DEF FreshBefore, Use, Ages, Never

\* Neither the keys nor the lease of a tunnel outlive their lifetimes while RekeyChecks are served and
\* answered by more than the clock was set back since they were given, and the RekeyCheck after the clock was set back beyond
\* that time renews them.
THEOREM RenewedInTime == Spec => []NothingExpires
<1>1. ASSUME Kept, Quiet, ~late PROVE NothingExpires
  <2>1. stage = "tunnel" /\ op = "none" /\ tunnel.up = TRUE /\ late = FALSE
    BY <1>1 DEF Kept, Quiet, Flags, Channel
  <2>2. KeysBefore /\ LeaseBefore /\ connector.last_rekey # Never
    BY <1>1, <2>1 DEF Kept, Fresh
  <2>3. seen => /\ connector.last_rekey >= setback.keys
                /\ connector.last_ip_lease # Never => connector.last_ip_lease >= setback.lease
    BY <1>1, <2>1, <2>2 DEF Kept, Fresh, KeysReached, LeaseReached, Reached, Flags
  <2>4. setback.keys \in Nat /\ setback.lease \in Nat /\ Machine
    BY <1>1, SetBackTypes DEF Kept
  <2>5. connector.session.lifetime >= EspLeeway =>
            connector.last_rekey < connector.session.lifetime + setback.keys
    BY <2>2, <2>4, FreshIsAlive, MachineTypes, ConnectorAssumption DEF KeysBefore
  <2>6. connector.session.address_lifetime >= AddressLeeway =>
            connector.last_ip_lease < connector.session.address_lifetime + setback.lease
    BY <2>2, <2>4, FreshIsAlive, MachineTypes, ConnectorAssumption DEF LeaseBefore
  <2>7. QED
    BY <2>3, <2>5, <2>6 DEF NothingExpires
<1>2. Kept => NothingExpires
  BY <1>1 DEF NothingExpires
<1>3. QED
  BY <1>2, KeptAlways, PTL

\* A restore is given up for a login only if the database or an exchange failed that could have
\* succeeded, or the gateway does not honour the SA that was saved.
THEOREM LoginOnlyIfNeeded == Spec => RestoresWithoutLogin
<1>1. Kept /\ [Next]_vars => [op = "restore" /\ op' = "authenticate" => failed \/ resumable \notin valid]_vars
  <2> SUFFICES ASSUME Kept, Next, op = "restore", op' = "authenticate"
               PROVE  failed \/ resumable \notin valid
    OBVIOUS
  <2>1. at = "failed"
    BY DEF Next, Connect, Load, LoadFails, Negotiate, Accept, Acknowledge, UserNameChallenge, OtherChallenge,
           AskUser, ChallengeCode, OmReply, EspReply, Grant, ExchangeFails, ReuseSettings, RestoreFailed,
           LoginFailed, RekeyFailed, CreateTunnel, CreateFails, ApplyReKey, TunnelEnds, HandleDisconnected,
           RekeyCheck, BadMessage, SendReKey, DeleteSession, TerminateTunnel, Reset, Drop, Crash, GatewayForgets,
           Tick, Suspend, ClockSetBack, Kept, Order
  <2>2. QED
    BY <2>1 DEF Kept, Restoring, Flags
<1>2. QED
  BY <1>1, KeptAlways, PTL DEF Spec, RestoresWithoutLogin
=============================================================================
