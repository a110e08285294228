----------------------------- MODULE Keepalives -----------------------------
(***************************************************************************)
(* How a tunnel that is up finds out that its gateway no longer answers.   *)
(*                                                                         *)
(* An SSL tunnel spawns a task that counts a keepalive, sends it and       *)
(* sleeps; the task that receives packets sets the count back to zero.     *)
(* An IPsec tunnel over TCPT or UDP polls, in its own task, a runner that  *)
(* sends a keepalive through the tunnel device and waits for a reply, and  *)
(* counts the failures.  Both leave the gateway in peace while the network *)
(* is down, the IPsec runner also while a rekey is applied.                *)
(*                                                                         *)
(* Packets reach the gateway through a channel task (make_channel): a      *)
(* bounded queue out, the connection, a bounded queue in.  It ends, and    *)
(* with it both queues, when the connection is closed, when everybody who  *)
(* can send is gone, or when a packet comes in that nobody receives.       *)
(*                                                                         *)
(* Only what keepalives are about is told apart: packets are keepalives,   *)
(* replies and data; time is the order of timeouts and of sleeps that end. *)
(***************************************************************************)
EXTENDS Integers, Sequences

CONSTANTS
    TunnelKinds, \* kinds of tunnel: "ssl" and "tun" (IPsec over TCPT or UDP)
    MaxRetries,  \* KEEPALIVE_MAX_RETRIES of each kind: 3 and 5 in the code
    Capacity,    \* of the two queues of the channel task: 1024 in the code
    MaxTravel,   \* bound: keepalives in the device, at the gateway, and replies in the socket
    MaxChanges,  \* bound: changes of the state of the network
    MaxRekeys    \* bound: rekeys

ASSUME KeepalivesAssumption ==
    /\ TunnelKinds \subseteq {"ssl", "tun"}
    /\ MaxRetries \in [TunnelKinds -> Nat \ {0}]
    /\ Capacity \in Nat \ {0} /\ MaxTravel \in Nat \ {0}
    /\ MaxChanges \in Nat /\ MaxRekeys \in Nat

VARIABLES
    kind,      \* the kind of the tunnel
    armed,     \* keepalives of the IPsec tunnel are not switched off (no_keepalive, ipsec_keepalive)
    online,    \* ONLINE_STATE
    ready,     \* the flag a rekey clears while it is applied
    tunnel,    \* run: "up" (in its select), "sends" (a packet of the device, awaited in the select), "ended"
    runner,    \* KeepaliveRunner::run: where it is, and keepalive_counter or num_failures
    receiver,  \* the task of incoming packets: "waits", "writes" (data to the device), "ended"
    wire,      \* the channel task and its connection: "open" or "closed"
    outgoing,  \* rx_out
    incoming,  \* rx_in
    device,    \* keepalives in the tunnel device that the tunnel has not read
    asked,     \* keepalives at the gateway that it has not replied to
    replies,   \* replies in the socket of the IPsec runner
    gateway,   \* "alive" or "dead"
    unanswered,\* history: keepalives begun since a packet last came in, or the IPsec runner idled; at most MaxRetries
    refused,   \* history: the socket of the IPsec runner refused a keepalive since it last had a reply or idled
    changes, rekeys \* history

sending == <<tunnel, device>>
channel == <<wire, outgoing, incoming>>
remote == <<asked, gateway>>
network == <<online, changes>>
rekeying == <<ready, rekeys>>
history == <<unanswered, refused>>
fixed == <<kind, armed>>
keepaliveVars == <<fixed, network, rekeying, sending, runner, receiver, channel, remote, replies, history>>

Max == MaxRetries[kind]
Stops == {"silent", "cutoff", "dropped"}
Stopped == runner.at \in Stops

\* Never more than the allowed retries are counted: the counter cannot run away, nor below zero (keepalive.rs)
KeepaliveTypeOK ==
    /\ kind \in TunnelKinds /\ armed \in BOOLEAN /\ online \in BOOLEAN /\ ready \in BOOLEAN
    /\ tunnel \in {"up", "sendsKeepalive", "sendsData", "ended"}
    /\ runner \in [at : {"check", "count", "send", "wait", "refused", "sleep"} \cup Stops, failures : 0..Max]
    /\ receiver \in {"waits", "writes", "ended"} /\ wire \in {"open", "closed"}
    /\ outgoing \in Seq({"keepalive", "data"}) /\ Len(outgoing) <= Capacity
    /\ incoming \in Seq({"reply", "data"}) /\ Len(incoming) <= Capacity
    /\ device \in 0..MaxTravel /\ asked \in 0..MaxTravel /\ replies \in 0..MaxTravel
    /\ gateway \in {"alive", "dead"} /\ unanswered \in 0..Max /\ refused \in BOOLEAN
    /\ changes \in 0..MaxChanges /\ rekeys \in 0..MaxRekeys

\* run, once Connected is sent: the runners start and the ready flag is set
KeepaliveInit ==
    /\ kind \in TunnelKinds /\ armed \in BOOLEAN /\ (kind = "ssl" => armed)
    /\ online = TRUE /\ ready = TRUE /\ changes = 0 /\ rekeys = 0
    /\ tunnel = "up" /\ receiver = "waits" /\ wire = "open" /\ gateway = "alive"
    /\ runner = [at |-> "check", failures |-> 0]
    /\ outgoing = <<>> /\ incoming = <<>> /\ device = 0 /\ asked = 0 /\ replies = 0
    /\ unanswered = 0 /\ refused = FALSE

-----------------------------------------------------------------------------
(* The runner of the SSL tunnel: a task of its own, which outlives run *)

Moves(at) == runner' = [runner EXCEPT !.at = at]
Counted == unanswered' = IF unanswered < Max THEN unanswered + 1 ELSE Max

\* Mutant of SslCheck: the warning is logged, and the loop goes on.
SslCheckWarns ==
    /\ kind = "ssl" /\ runner.at = "check"
    /\ Moves(IF ~online \/ runner.failures >= Max THEN "sleep" ELSE "count")
    /\ UNCHANGED <<fixed, network, rekeying, sending, receiver, channel, remote, replies, history>>

\* The loop of the spawned task, up to fetch_add: nothing is counted, or given up, while the network is down.
SslCheck ==
    /\ kind = "ssl" /\ runner.at = "check"
    /\ Moves(IF ~online THEN "sleep" ELSE IF runner.failures >= Max THEN "silent" ELSE "count")
    /\ UNCHANGED <<fixed, network, rekeying, sending, receiver, channel, remote, replies, history>>

\* fetch_add: the receiver may have stored a zero since the check
SslCount ==
    /\ kind = "ssl" /\ runner.at = "count"
    /\ runner' = [at |-> "send", failures |-> runner.failures + 1]
    /\ Counted
    /\ UNCHANGED <<fixed, network, rekeying, sending, receiver, channel, remote, replies, refused>>

\* sender.send with its timeout: it waits for room in the queue.
SslSend ==
    /\ kind = "ssl" /\ runner.at = "send" /\ wire = "open" /\ Len(outgoing) < Capacity
    /\ outgoing' = Append(outgoing, "keepalive")
    /\ Moves("sleep")
    /\ UNCHANGED <<fixed, network, rekeying, sending, receiver, wire, incoming, remote, replies, history>>

SslSendFails ==
    /\ kind = "ssl" /\ runner.at = "send" /\ (wire = "closed" \/ Len(outgoing) = Capacity)
    /\ Moves("cutoff")
    /\ UNCHANGED <<fixed, network, rekeying, sending, receiver, channel, remote, replies, history>>

-----------------------------------------------------------------------------
(* The runner of the IPsec tunnel: it moves only while the select of run does *)

\* A keepalive is sent to the tunnel device, which drops it when it is full, or the socket refuses it.
TunCheck ==
    /\ kind = "tun" /\ tunnel = "up" /\ runner.at = "check" /\ online /\ ready /\ armed
    /\ Counted
    /\ \/ /\ Moves("wait")
          /\ device' \in {device, IF device < MaxTravel THEN device + 1 ELSE device}
          /\ UNCHANGED refused
       \/ /\ Moves("refused") /\ refused' = TRUE /\ UNCHANGED device
    /\ UNCHANGED <<fixed, network, rekeying, tunnel, receiver, channel, remote, replies>>

\* Not online, or not ready: the failures are forgotten.
TunIdles ==
    /\ kind = "tun" /\ tunnel = "up" /\ runner.at = "check" /\ ~(online /\ ready /\ armed)
    /\ runner' = [at |-> "sleep", failures |-> 0]
    /\ unanswered' = 0 /\ refused' = FALSE
    /\ UNCHANGED <<fixed, network, rekeying, sending, receiver, channel, remote, replies>>

\* udp_send_receive: any reply in the socket will do, that to an earlier keepalive too; and when the send has failed,
\* what is received all the same is thrown away.
SocketReceives == replies > 0 /\ replies' = replies - 1
SocketTimesOut == replies = 0 /\ UNCHANGED replies

TunReply ==
    /\ kind = "tun" /\ tunnel = "up" /\ runner.at = "wait" /\ SocketReceives
    /\ runner' = [at |-> "sleep", failures |-> 0]
    /\ refused' = FALSE
    /\ UNCHANGED <<fixed, network, rekeying, sending, receiver, channel, remote, unanswered>>

TunFailure ==
    /\ kind = "tun" /\ tunnel = "up"
    /\ SocketTimesOut \/ (runner.at = "refused" /\ SocketReceives)
    /\ runner.at \in {"wait", "refused"}
    /\ runner' = [at |-> IF runner.failures + 1 >= Max THEN "silent" ELSE "sleep", failures |-> runner.failures + 1]
    /\ UNCHANGED <<fixed, network, rekeying, sending, receiver, channel, remote, history>>

\* The sleep of either loop ends.
Wake ==
    /\ runner.at = "sleep" /\ (kind = "tun" => tunnel = "up")
    /\ Moves("check")
    /\ UNCHANGED <<fixed, network, rekeying, sending, receiver, channel, remote, replies, history>>

-----------------------------------------------------------------------------
(* run: its select, and the packet of the device it sends before it selects again *)

TunnelEnds ==
    /\ tunnel' = "ended"
    /\ runner' = IF kind = "tun" /\ ~Stopped THEN [runner EXCEPT !.at = "dropped"] ELSE runner

\* The tunnel was told to terminate, or reading its device failed.
Terminate ==
    /\ tunnel = "up"
    /\ TunnelEnds
    /\ UNCHANGED <<fixed, network, rekeying, device, receiver, channel, remote, replies, history>>

\* The runner has stopped.
KeepaliveFailed ==
    /\ tunnel = "up" /\ Stopped
    /\ TunnelEnds
    /\ UNCHANGED <<fixed, network, rekeying, device, receiver, channel, remote, replies, history>>

\* recv of the device: a packet of the user, or a keepalive of the IPsec runner
ReadDevice ==
    /\ tunnel = "up"
    /\ \/ tunnel' = "sendsData" /\ UNCHANGED device
       \/ device > 0 /\ device' = device - 1 /\ tunnel' = "sendsKeepalive"
    /\ UNCHANGED <<fixed, network, rekeying, runner, receiver, channel, remote, replies, history>>

\* self.send: nothing else of the select runs until there is room
TunnelSend ==
    /\ tunnel \in {"sendsData", "sendsKeepalive"} /\ wire = "open" /\ Len(outgoing) < Capacity
    /\ outgoing' = Append(outgoing, IF tunnel = "sendsData" THEN "data" ELSE "keepalive")
    /\ tunnel' = "up"
    /\ UNCHANGED <<fixed, network, rekeying, device, runner, receiver, wire, incoming, remote, replies, history>>

\* The channel is closed, or there was no room in time: run returns at once.
TunnelSendFails ==
    /\ tunnel \in {"sendsData", "sendsKeepalive"} /\ (wire = "closed" \/ Len(outgoing) = Capacity)
    /\ TunnelEnds
    /\ UNCHANGED <<fixed, network, rekeying, device, receiver, channel, remote, replies, history>>

\* ReKey: the flag is cleared while the new keys and the new address are put in place.
StartRekey ==
    /\ kind = "tun" /\ tunnel = "up" /\ ready /\ rekeys < MaxRekeys
    /\ ready' = FALSE /\ rekeys' = rekeys + 1
    /\ UNCHANGED <<fixed, network, sending, runner, receiver, channel, remote, replies, history>>

Rekeyed ==
    /\ kind = "tun" /\ tunnel = "up" /\ ~ready
    /\ ready' = TRUE
    /\ UNCHANGED <<fixed, network, rekeys, sending, runner, receiver, channel, remote, replies, history>>

-----------------------------------------------------------------------------
(* The task of incoming packets *)

\* Mutant of ResetCounter: every packet takes one from the count, as the code once did.
CountDown == runner' = [runner EXCEPT !.failures = @ - 1]

ResetCounter == runner' = [runner EXCEPT !.failures = 0]

\* SSL: a reply to a keepalive resets the counter, data does when it is written to the device.
SslReceive ==
    /\ kind = "ssl" /\ receiver = "waits" /\ incoming # <<>>
    /\ incoming' = Tail(incoming)
    /\ \/ Head(incoming) = "reply" /\ ResetCounter /\ UNCHANGED receiver
       \/ Head(incoming) = "data" /\ receiver' = "writes" /\ UNCHANGED runner
    /\ UNCHANGED <<fixed, network, rekeying, sending, wire, outgoing, remote, replies, history>>

\* Mutant of SslWrite: data leaves the count as it is.
SslWriteOnly ==
    /\ receiver = "writes"
    /\ \/ receiver' = "waits" /\ UNCHANGED incoming
       \/ receiver' = "ended" /\ incoming' = <<>>
    /\ UNCHANGED <<fixed, network, rekeying, sending, runner, wire, outgoing, remote, replies, history>>

SslWrite ==
    /\ receiver = "writes"
    /\ \/ receiver' = "waits" /\ ResetCounter /\ UNCHANGED incoming
       \/ receiver' = "ended" /\ incoming' = <<>> /\ UNCHANGED runner
    /\ UNCHANGED <<fixed, network, rekeying, sending, wire, outgoing, remote, replies, history>>

\* IPsec: a packet is decoded and written to the device, from which a reply reaches the runner's socket; it may
\* be lost on the way (keys that do not fit, a failed write).
TunReceive ==
    /\ kind = "tun" /\ receiver = "waits" /\ incoming # <<>>
    /\ incoming' = Tail(incoming)
    /\ \/ /\ Head(incoming) = "reply" /\ replies < MaxTravel
          /\ replies' = replies + 1 /\ unanswered' = 0
       \/ UNCHANGED <<replies, unanswered>>
    /\ UNCHANGED <<fixed, network, rekeying, sending, runner, receiver, wire, outgoing, remote, refused>>

\* The queue is closed; or, for SSL, the tunnel has been dropped.
ReceiverEnds ==
    /\ receiver = "waits"
    /\ (wire = "closed" /\ incoming = <<>>) \/ (kind = "ssl" /\ tunnel = "ended")
    /\ receiver' = "ended" /\ incoming' = <<>>
    /\ UNCHANGED <<fixed, network, rekeying, sending, runner, wire, outgoing, remote, replies, history>>

-----------------------------------------------------------------------------
(* The channel task, the gateway and the network *)

\* Everybody who could send is gone.
ChannelEnds ==
    /\ wire = "open" /\ tunnel = "ended" /\ (kind = "ssl" => Stopped)
    /\ wire' = "closed" /\ outgoing' = <<>>
    /\ UNCHANGED <<fixed, network, rekeying, sending, runner, receiver, incoming, remote, replies, history>>

\* The connection is closed by the gateway, or fails.
ConnectionCloses ==
    /\ wire = "open"
    /\ wire' = "closed" /\ outgoing' = <<>>
    /\ UNCHANGED <<fixed, network, rekeying, sending, runner, receiver, incoming, remote, replies, history>>

\* A packet leaves; it is lost when the gateway is dead, and may be when it is IPsec.
PacketLeaves ==
    /\ wire = "open" /\ outgoing # <<>>
    /\ outgoing' = Tail(outgoing)
    /\ \/ Head(outgoing) = "keepalive" /\ gateway = "alive" /\ asked < MaxTravel /\ asked' = asked + 1
       \/ (Head(outgoing) = "data" \/ gateway = "dead" \/ kind = "tun") /\ UNCHANGED asked
    /\ UNCHANGED <<fixed, network, rekeying, sending, runner, receiver, wire, incoming, gateway, replies, history>>

\* A packet comes in: forwarded to whoever receives, or the end of the channel task.
PacketArrives(packet) ==
    /\ gateway = "alive" /\ wire = "open"
    /\ \/ /\ receiver # "ended" /\ Len(incoming) < Capacity
          /\ incoming' = Append(incoming, packet)
          /\ unanswered' = IF kind = "ssl" THEN 0 ELSE unanswered
          /\ UNCHANGED <<wire, outgoing>>
       \/ /\ receiver = "ended"
          /\ wire' = "closed" /\ outgoing' = <<>>
          /\ UNCHANGED <<incoming, unanswered>>
    /\ UNCHANGED <<fixed, network, rekeying, sending, runner, receiver, gateway, replies, refused>>

GatewayReplies == asked > 0 /\ asked' = asked - 1 /\ PacketArrives("reply")
GatewaySends == PacketArrives("data") /\ UNCHANGED asked

\* An IPsec packet is lost on the way.
ReplyLost ==
    /\ kind = "tun" /\ asked > 0
    /\ asked' = asked - 1
    /\ UNCHANGED <<fixed, network, rekeying, sending, runner, receiver, channel, gateway, replies, history>>

GatewayDies ==
    /\ gateway = "alive"
    /\ gateway' = "dead" /\ asked' = 0
    /\ UNCHANGED <<fixed, network, rekeying, sending, runner, receiver, channel, replies, history>>

\* What NetworkManager can announce; any number it may add is "Unknown".
NetworkManagerStates ==
    {"Unknown", "Asleep", "Disconnected", "Disconnecting", "Connecting", "ConnectedLocal", "ConnectedSite", "ConnectedGlobal"}
IsOnline(state) == state \in {"ConnectedSite", "ConnectedGlobal"}

\* The network is taken to be up until NetworkManager says otherwise; states that change nothing are left out.
NetworkChanges ==
    /\ changes < MaxChanges
    /\ changes' = changes + 1
    /\ \E state \in NetworkManagerStates : IsOnline(state) # online /\ online' = IsOnline(state)
    /\ UNCHANGED <<fixed, rekeying, sending, runner, receiver, channel, remote, replies, history>>

-----------------------------------------------------------------------------
(* Specification *)

SslRunner == SslCheck \/ SslCount \/ SslSend \/ SslSendFails
TunRunner == TunCheck \/ TunIdles \/ TunReply \/ TunFailure
Runner == SslRunner \/ TunRunner \/ Wake
Tunnel == Terminate \/ KeepaliveFailed \/ ReadDevice \/ TunnelSend \/ TunnelSendFails \/ StartRekey \/ Rekeyed
Receiver == SslReceive \/ SslWrite \/ TunReceive \/ ReceiverEnds
Channel == ChannelEnds \/ ConnectionCloses \/ PacketLeaves
Remote == GatewayReplies \/ GatewaySends \/ ReplyLost \/ GatewayDies \/ NetworkChanges

KeepaliveNext == Runner \/ Tunnel \/ Receiver \/ Channel \/ Remote

KeepaliveSpec == KeepaliveInit /\ [][KeepaliveNext]_keepaliveVars

(***************************************************************************)
(* Every task goes on when it can: sleeps and timeouts end, sends find     *)
(* room or time out, the task of incoming packets takes what there is.     *)
(* A select polls its branches in random order: the IPsec runner and the   *)
(* stop of a runner get their turn however busy the device is, the end of  *)
(* the tunnel however many packets come in, so that what is ready again    *)
(* and again is taken (SF).  The gateway and the user owe nothing.         *)
(***************************************************************************)
KeepaliveFairness ==
    /\ SF_keepaliveVars(Runner) /\ SF_keepaliveVars(KeepaliveFailed) /\ SF_keepaliveVars(Rekeyed)
    /\ SF_keepaliveVars(ReceiverEnds)
    /\ WF_keepaliveVars(TunnelSend \/ TunnelSendFails)
    /\ WF_keepaliveVars(Receiver) /\ WF_keepaliveVars(ChannelEnds)

KeepaliveFairSpec == KeepaliveSpec /\ KeepaliveFairness

-----------------------------------------------------------------------------
(* Properties *)

Unheard == incoming # <<>> \/ receiver # "waits" \/ replies > 0

\* A tunnel is given up as silent only after as many keepalives as are allowed without a packet coming in, the count
\* being raised by one task and set back by another; unless what came in is not handled yet, or never will be, or the
\* socket of the runner refused to send (ssl/keepalive.rs:46-55 with ssl.rs:400-413; ipsec/keepalive.rs:78-120).
GiveUpMeansSilence ==
    [][runner.at # "silent" /\ runner'.at = "silent" => unanswered = Max \/ Unheard \/ refused]_keepaliveVars

\* A tunnel that cannot hear its gateway any more: nothing but the keepalives would notice, since the task of incoming
\* packets ends without telling run (ssl.rs:418-423).
Deaf == (gateway = "dead" \/ receiver = "ended") /\ (kind = "tun" => armed)

\* Provided the network stays up, such a tunnel ends, and nothing of a tunnel outlives it for good: the keepalive
\* task, which is not told that run has returned and holds a sender of the channel, stops, and the connection is
\* closed (ssl/keepalive.rs:43-68, ssl.rs:63-75).
DeadTunnelsEnd ==
    <>[]online => /\ [](Deaf => <>(tunnel = "ended"))
                  /\ [](tunnel = "ended" => <>(Stopped /\ wire = "closed"))

=============================================================================
