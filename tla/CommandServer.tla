--------------------------- MODULE CommandServer ---------------------------
(***************************************************************************)
(* The service's command server: one shared connection state behind a      *)
(* mutex, one handler task per client stream, one actor task per tunnel    *)
(* connector that serves a queue of requests, one task per running tunnel, *)
(* and one event task that applies tunnel events to the connection state.  *)
(* Every critical section of the mutex and every send to or reply from an  *)
(* actor is a step of its own, so the model has the interleavings that the *)
(* awaits and the separate lock() calls of the code allow.                 *)
(*                                                                         *)
(* Abstracted: packet framing and deserialization, the reply texts, the    *)
(* payload of ConnectionInfo (only its tunnel is kept), the statistics     *)
(* poller, and GetStatus and a refused Connect, which change no state.     *)
(***************************************************************************)
EXTENDS Naturals, Sequences, FiniteSets

CONSTANTS
    Clients,       \* client streams, each served by a handler task
    Connectors,    \* connector instances the factory may return
    Tunnels,       \* tunnel instances the connectors may create
    Nobody,        \* stands for the None of the code's Option fields
    Menu,          \* the kinds of request each client may send
    Requests,      \* bound: how many requests each client may send
    MaxChecks,     \* bound: RekeyCheck, RemoteControlData, Rekeyed and Rtt events
    EventCapacity, \* capacity of the event channel (16 in the code)
    RequestCapacity  \* capacity of an actor's channel (16 in the code)

ASSUME ServerAssumption ==
    /\ Nobody \notin Clients \cup Connectors \cup Tunnels
    /\ Menu \in [Clients -> SUBSET {"Connect", "ChallengeCode", "Disconnect"}]
    /\ Requests \in [Clients -> Nat]
    /\ MaxChecks \in Nat
    /\ EventCapacity \in Nat \ {0}
    /\ RequestCapacity \in Nat \ {0}

VARIABLES
    status,     \* ConnectionStateInner.status and the tunnel of its ConnectionInfo
    session,    \* .session: "none", "pending" (a challenge) or "authenticated"
    connector,  \* .connector: the actor whose handle is stored
    cancel,     \* .cancel: the client whose request holds the other end
    actor,      \* per connector: "none", "live" or "stopped"
    queue,      \* per connector: requests not yet replied to; the head is being served
    sender,     \* per connector: the tunnel its command_sender leads to
    tunnel,     \* per tunnel: how far VpnTunnel::run has come
    events,     \* the event channel
    evStage,    \* the event task: "idle", "found", "asked", "ok" or "error"
    evItem,     \* the event it is handling
    evHandle,   \* the connector handle it holds meanwhile
    pc,         \* per client: the stage of its handler
    handle,     \* per client: the connector handle its handler holds
    got,        \* per client: the tunnel just created for its handler
    budget,     \* per client: requests it may still send
    checks,     \* events of kind "Check" that may still be sent
    target      \* history, per client: the tunnel the stored connector commanded when its
                \* last Disconnect fired the cancel sender

stateVars == <<status, session, connector, cancel>>
actorVars == <<actor, queue, sender>>
eventVars == <<evStage, evItem, evHandle>>
clientVars == <<pc, handle, got, budget>>
vars == <<stateVars, actorVars, tunnel, events, eventVars, clientVars, checks, target>>

-----------------------------------------------------------------------------
(* Values *)

Kinds == {"Disconnected", "Connecting", "Mfa", "Connected"}
Status(kind, t) == [kind |-> kind, tunnel |-> t]

\* The request each sending stage of a handler puts on the actor's queue, and the
\* stage in which the handler then waits for the reply.
Op == [restore |-> "RestoreSession", authenticate |-> "Authenticate",
       challenge |-> "ChallengeCode", create |-> "CreateTunnel",
       delete |-> "DeleteSession", terminate |-> "TerminateTunnel"]
Sent == [restore |-> "restoring", authenticate |-> "authenticating",
         challenge |-> "challenging", create |-> "creating",
         delete |-> "deleting", terminate |-> "terminating"]
WaitFor == [restoring |-> "RestoreSession", authenticating |-> "Authenticate",
            challenging |-> "ChallengeCode", creating |-> "CreateTunnel",
            deleting |-> "DeleteSession", terminating |-> "TerminateTunnel"]

SendStages == {"restore", "authenticate", "challenge", "create", "delete", "terminate"}
WaitStages == {"restoring", "authenticating", "challenging", "creating", "deleting",
               "terminating"}
HeldStages == SendStages \cup WaitStages \cup {"granted", "challenged", "spawn", "token"}
Stages == HeldStages \cup
          {"idle", "admitted", "factory", "failed", "fired", "cleared"}

Request == [op : {"RestoreSession", "Authenticate", "ChallengeCode", "CreateTunnel",
                  "DeleteSession", "TerminateTunnel", "HandleEvent"},
            from : Clients \cup {Nobody}]
Event == [kind : {"Connected", "Disconnected", "Check"}, tunnel : Tunnels]
TunnelStages == {"none", "created", "starting", "configured", "up", "closed",
                 "aborted", "abandoned", "broken"}

TypeOK ==
    /\ status \in [kind : Kinds, tunnel : Tunnels \cup {Nobody}]
    /\ session \in {"none", "pending", "authenticated"}
    /\ connector \in Connectors \cup {Nobody}
    /\ cancel \in Clients \cup {Nobody}
    /\ actor \in [Connectors -> {"none", "live", "stopped"}]
    /\ queue \in [Connectors -> Seq(Request)]
    /\ sender \in [Connectors -> Tunnels \cup {Nobody}]
    /\ tunnel \in [Tunnels -> TunnelStages]
    /\ events \in Seq(Event)
    /\ evStage \in {"idle", "found", "asked", "ok", "error"}
    /\ evItem \in Event \cup {Nobody}
    /\ evHandle \in Connectors \cup {Nobody}
    /\ pc \in [Clients -> Stages]
    /\ handle \in [Clients -> Connectors \cup {Nobody}]
    /\ got \in [Clients -> Tunnels \cup {Nobody}]
    /\ budget \in [Clients -> Nat]
    /\ checks \in Nat
    /\ target \in [Clients -> Tunnels \cup {Nobody}]

Init ==
    /\ status = Status("Disconnected", Nobody)
    /\ session = "none"
    /\ connector = Nobody
    /\ cancel = Nobody
    /\ actor = [k \in Connectors |-> "none"]
    /\ queue = [k \in Connectors |-> <<>>]
    /\ sender = [k \in Connectors |-> Nobody]
    /\ tunnel = [t \in Tunnels |-> "none"]
    /\ events = <<>>
    /\ evStage = "idle"
    /\ evItem = Nobody
    /\ evHandle = Nobody
    /\ pc = [c \in Clients |-> "idle"]
    /\ handle = [c \in Clients |-> Nobody]
    /\ got = [c \in Clients |-> Nobody]
    /\ budget = Requests
    /\ checks = MaxChecks
    /\ target = [c \in Clients |-> Nobody]

-----------------------------------------------------------------------------
(* Helpers *)

\* Mutant of ResetState: the session survives.
ResetKeepsSession ==
    /\ status' = Status("Disconnected", Nobody)
    /\ connector' = Nobody
    /\ cancel' = Nobody
    /\ UNCHANGED session

\* ConnectionState::reset. Dropping the cancel sender resolves the receiver of the
\* request it belongs to, exactly as sending on it does.
ResetState ==
    /\ status' = Status("Disconnected", Nobody)
    /\ session' = "none"
    /\ connector' = Nobody
    /\ cancel' = Nobody

\* The receiver a request of client c waits on has resolved: the one sender of its
\* oneshot is in connection_state.cancel until it is fired, reset or overwritten.
Signalled(c) == cancel # c

Goto(c, stage) == pc' = [pc EXCEPT ![c] = stage]

\* A client starts a request of this kind.
Begin(c, kind) ==
    /\ pc[c] = "idle"
    /\ kind \in Menu[c]
    /\ budget[c] > 0
    /\ budget' = [budget EXCEPT ![c] = @ - 1]

\* The handler returns: it drops the handle it holds and replies.
Return(c) ==
    /\ pc' = [pc EXCEPT ![c] = "idle"]
    /\ handle' = [handle EXCEPT ![c] = Nobody]
    /\ got' = [got EXCEPT ![c] = Nobody]
    /\ UNCHANGED budget

-----------------------------------------------------------------------------
(* Connect *)

\* The check of is_connected, under a lock that is released before connect goes on.
Connect(c) ==
    /\ Begin(c, "Connect")
    /\ status.kind = "Disconnected"
    /\ Goto(c, "admitted")
    /\ UNCHANGED <<stateVars, actorVars, tunnel, events, eventVars, handle, got, checks,
                   target>>

\* connect resets the state before it asks the factory.
ResetBeforeConnect(c) ==
    /\ pc[c] = "admitted"
    /\ ResetState
    /\ Goto(c, "factory")
    /\ UNCHANGED <<actorVars, tunnel, events, eventVars, handle, got,
                   budget, checks, target>>

\* The factory returned a connector: its actor is spawned and stored, over whatever is
\* there, and connect goes on to restore_session if ike_persist is set.
NewConnector(c, k) ==
    /\ pc[c] = "factory"
    /\ actor[k] = "none"
    /\ actor' = [actor EXCEPT ![k] = "live"]
    /\ status' = Status("Connecting", Nobody)
    /\ cancel' = c
    /\ connector' = k
    /\ handle' = [handle EXCEPT ![c] = k]
    /\ \E ike_persist \in BOOLEAN :
           Goto(c, IF ike_persist THEN "restore" ELSE "authenticate")
    /\ UNCHANGED <<session, queue, sender, tunnel, events, eventVars, got, budget, checks,
                   target>>

\* The factory failed: an unreachable gateway, a bad certificate.
NoConnector(c) ==
    /\ pc[c] = "factory"
    /\ Goto(c, "failed")
    /\ UNCHANGED <<stateVars, actorVars, tunnel, events, eventVars, handle, got,
                   budget, checks, target>>

\* Mutant of AskForCode: the session of the challenge is not stored.
AskWithoutSession(c) ==
    /\ pc[c] = "challenged"
    /\ status' = Status("Mfa", Nobody)
    /\ Return(c)
    /\ UNCHANGED <<session, connector, cancel, actorVars, tunnel, events, eventVars, checks,
                   target>>

\* connect_for_session with a pending challenge: the status asks for a code.
AskForCode(c) ==
    /\ pc[c] = "challenged"
    /\ session' = "pending"
    /\ status' = Status("Mfa", Nobody)
    /\ Return(c)
    /\ UNCHANGED <<connector, cancel, actorVars, tunnel, events, eventVars, checks, target>>

\* connect_for_session with an authenticated session.
SessionGranted(c) ==
    /\ pc[c] = "granted"
    /\ session' = "authenticated"
    /\ status' = Status("Connecting", Nobody)
    /\ Goto(c, "create")
    /\ UNCHANGED <<connector, cancel, actorVars, tunnel, events, eventVars, handle, got,
                   budget, checks, target>>

\* create_tunnel succeeded: its run is spawned as a task and the request is answered Ok.
SpawnTunnel(c) ==
    /\ pc[c] = "spawn"
    /\ tunnel' = [tunnel EXCEPT ![got[c]] = "starting"]
    /\ Return(c)
    /\ UNCHANGED <<stateVars, actorVars, events, eventVars, checks, target>>

\* Mutant of RequestFailed: only the error is reported.
RequestFailedOnly(c) ==
    /\ pc[c] = "failed"
    /\ Return(c)
    /\ UNCHANGED <<stateVars, actorVars, tunnel, events, eventVars, checks, target>>

\* handle_packet: a Connect or ChallengeCode that failed resets the state, whoever's it is.
RequestFailed(c) ==
    /\ pc[c] = "failed"
    /\ ResetState
    /\ Return(c)
    /\ UNCHANGED <<actorVars, tunnel, events, eventVars, checks, target>>

(* ChallengeCode *)

\* challenge_code reads the connector and the session under one lock.
ChallengeCode(c) ==
    /\ Begin(c, "ChallengeCode")
    /\ IF connector # Nobody /\ session # "none"
       THEN /\ handle' = [handle EXCEPT ![c] = connector]
            /\ Goto(c, "token")
       ELSE /\ Goto(c, "failed")
            /\ UNCHANGED handle
    /\ UNCHANGED <<stateVars, actorVars, tunnel, events, eventVars, got, checks, target>>

\* ... and stores its cancel sender under another, dropping the one that was there.
StoreCancel(c) ==
    /\ pc[c] = "token"
    /\ cancel' = c
    /\ Goto(c, "challenge")
    /\ UNCHANGED <<status, session, connector, actorVars, tunnel, events, eventVars,
                   handle, got,
                   budget, checks, target>>

(* Disconnect *)

\* fire_cancel.
Disconnect(c) ==
    /\ Begin(c, "Disconnect")
    /\ cancel' = Nobody
    /\ target' = [target EXCEPT
                      ![c] = IF connector = Nobody THEN Nobody ELSE sender[connector]]
    /\ Goto(c, "fired")
    /\ UNCHANGED <<status, session, connector, actorVars, tunnel, events, eventVars,
                   handle, got, checks>>

\* disconnect takes the stored connector, if there is one, in a lock of its own.
FindConnector(c) ==
    /\ pc[c] = "fired"
    /\ handle' = [handle EXCEPT ![c] = connector]
    /\ Goto(c, IF connector = Nobody THEN "cleared" ELSE "delete")
    /\ UNCHANGED <<stateVars, actorVars, tunnel, events, eventVars, got, budget, checks,
                   target>>

\* delete_session and terminate_tunnel have been served: the state is reset.
Disconnected(c) ==
    /\ pc[c] = "cleared"
    /\ ResetState
    /\ Return(c)
    /\ UNCHANGED <<actorVars, tunnel, events, eventVars, checks, target>>

\* An actor's channel has room: the request at the head has left it.
Free(k) == Len(queue[k]) <= RequestCapacity

\* ConnectorHandle::send_recv up to its second await: the request is on the queue.
SendRequest(c) ==
    /\ pc[c] \in SendStages
    /\ Free(handle[c])
    /\ queue' = [queue EXCEPT ![handle[c]] =
                    Append(@, [op |-> Op[pc[c]], from |-> c])]
    /\ Goto(c, Sent[pc[c]])
    /\ UNCHANGED <<stateVars, actor, sender, tunnel, events, eventVars, handle, got,
                   budget, checks, target>>

-----------------------------------------------------------------------------
(* The connector actors. Each step is the reply to the request at the head. *)

\* The actor of k replies to client c, which waits in this stage, and takes the next request.
Serve(k, c, stage) ==
    /\ actor[k] = "live"
    /\ queue[k] # <<>>
    /\ Head(queue[k]) = [op |-> WaitFor[stage], from |-> c]
    /\ pc[c] = stage
    /\ queue' = [queue EXCEPT ![k] = Tail(@)]

\* restore_session: a restored session is authenticated; on an error connect goes on to
\* authenticate with the receiver it has kept.
Restored(k, c) ==
    /\ Serve(k, c, "restoring")
    /\ \E stage \in {"granted", "authenticate"} : Goto(c, stage)
    /\ UNCHANGED <<stateVars, actor, sender, tunnel, events, eventVars, handle, got,
                   budget, checks, target>>

\* The gateway's answer to authenticate or challenge_code: a session, a challenge or an error.
GatewayAnswers(k, c) ==
    /\ Serve(k, c, "authenticating") \/ Serve(k, c, "challenging")
    /\ \E stage \in {"granted", "challenged", "failed"} : Goto(c, stage)
    /\ UNCHANGED <<stateVars, actor, sender, tunnel, events, eventVars, handle, got,
                   budget, checks, target>>

\* Mutant of Cancelled: a challenge cannot be cancelled.
CancelledAuthentication(k, c) ==
    /\ Serve(k, c, "authenticating")
    /\ Signalled(c)
    /\ Goto(c, "failed")
    /\ UNCHANGED <<stateVars, actor, sender, tunnel, events, eventVars, handle, got,
                   budget, checks, target>>

\* The other branch of the same select: the cancel receiver resolved first.
Cancelled(k, c) ==
    /\ Serve(k, c, "authenticating") \/ Serve(k, c, "challenging")
    /\ Signalled(c)
    /\ Goto(c, "failed")
    /\ UNCHANGED <<stateVars, actor, sender, tunnel, events, eventVars, handle, got,
                   budget, checks, target>>

\* create_tunnel stores the new command sender, closing the previous tunnel's channel,
\* and then creates the tunnel ...
Created(k, c, t) ==
    /\ Serve(k, c, "creating")
    /\ tunnel[t] = "none"
    /\ tunnel' = [tunnel EXCEPT ![t] = "created"]
    /\ sender' = [sender EXCEPT ![k] = t]
    /\ got' = [got EXCEPT ![c] = t]
    /\ Goto(c, "spawn")
    /\ UNCHANGED <<stateVars, actor, events, eventVars, handle, budget, checks, target>>

\* ... or fails, with the new channel's receiver already gone.
NotCreated(k, c) ==
    /\ Serve(k, c, "creating")
    /\ sender' = [sender EXCEPT ![k] = Nobody]
    /\ Goto(c, "failed")
    /\ UNCHANGED <<stateVars, actor, tunnel, events, eventVars, handle, got,
                   budget, checks, target>>

\* Mutant of SessionDeleted: the tunnel is not terminated.
SessionDeletedOnly(k, c) ==
    /\ Serve(k, c, "deleting")
    /\ Goto(c, "cleared")
    /\ UNCHANGED <<stateVars, actor, sender, tunnel, events, eventVars, handle, got,
                   budget, checks, target>>

\* delete_session; its result is ignored.
SessionDeleted(k, c) ==
    /\ Serve(k, c, "deleting")
    /\ Goto(c, "terminate")
    /\ UNCHANGED <<stateVars, actor, sender, tunnel, events, eventVars, handle, got,
                   budget, checks, target>>

\* terminate_tunnel takes the command sender, sends Terminate and drops it.
Terminated(k, c) ==
    /\ Serve(k, c, "terminating")
    /\ sender' = [sender EXCEPT ![k] = Nobody]
    /\ Goto(c, "cleared")
    /\ UNCHANGED <<stateVars, actor, tunnel, events, eventVars, handle, got,
                   budget, checks, target>>

\* handle_tunnel_event fails only for RekeyCheck and RemoteControlData, when the exchange
\* with the gateway or the ReKey command does.
EventHandled(k) ==
    /\ evStage = "asked"
    /\ actor[k] = "live"
    /\ queue[k] # <<>>
    /\ Head(queue[k]) = [op |-> "HandleEvent", from |-> Nobody]
    /\ queue' = [queue EXCEPT ![k] = Tail(@)]
    /\ \/ evStage' = "ok"
       \/ evItem.kind = "Check" /\ evStage' = "error"
    /\ evHandle' = Nobody
    /\ UNCHANGED <<stateVars, actor, sender, tunnel, events, evItem, clientVars, checks,
                   target>>

\* Mutant of ActorStops: handles that are not stored do not count.
ActorStopsWhenReplaced(k) ==
    /\ actor[k] = "live"
    /\ queue[k] = <<>>
    /\ connector # k
    /\ actor' = [actor EXCEPT ![k] = "stopped"]
    /\ sender' = [sender EXCEPT ![k] = Nobody]
    /\ UNCHANGED <<stateVars, queue, tunnel, events, eventVars, clientVars, checks, target>>

\* Nobody holds a handle any more and the queue is drained: recv returns None, the actor
\* ends and drops its connector, and with it the command sender.
ActorStops(k) ==
    /\ actor[k] = "live"
    /\ queue[k] = <<>>
    /\ connector # k
    /\ evHandle # k
    /\ \A c \in Clients : handle[c] # k
    /\ actor' = [actor EXCEPT ![k] = "stopped"]
    /\ sender' = [sender EXCEPT ![k] = Nobody]
    /\ UNCHANGED <<stateVars, queue, tunnel, events, eventVars, clientVars, checks, target>>

-----------------------------------------------------------------------------
(* The tunnels: VpnTunnel::run as the server sees it. *)

Room == Len(events) < EventCapacity
Post(kind, t) == Room /\ events' = Append(events, [kind |-> kind, tunnel |-> t])
Advance(t, from, to) ==
    /\ tunnel[t] = from
    /\ tunnel' = [tunnel EXCEPT ![t] = to]

\* A connector still holds the sending end of the tunnel's command channel.
Commanded(t) == \E k \in Connectors : sender[k] = t

\* Device, routing and DNS are set up and the periodic RekeyCheck task is spawned ...
TunnelSetUp(t) ==
    /\ Advance(t, "starting", "configured")
    /\ UNCHANGED <<stateVars, actorVars, events, eventVars, clientVars, checks, target>>

\* ... or a step before or after that fails and run returns without any event.
SetUpFails(t) ==
    /\ Advance(t, "starting", "aborted") \/ Advance(t, "configured", "abandoned")
    /\ UNCHANGED <<stateVars, actorVars, events, eventVars, clientVars, checks, target>>

TunnelUp(t) ==
    /\ Advance(t, "configured", "up")
    /\ Post("Connected", t)
    /\ UNCHANGED <<stateVars, actorVars, eventVars, clientVars, checks, target>>

\* Mutant of TunnelStops: no Disconnected event.
TunnelStopsSilently(t) ==
    /\ ~Commanded(t)
    /\ Advance(t, "up", "closed")
    /\ UNCHANGED <<stateVars, actorVars, events, eventVars, clientVars, checks, target>>

\* The command channel is closed or carried Terminate: run leaves its loop and reports.
TunnelStops(t) ==
    /\ ~Commanded(t)
    /\ Advance(t, "up", "closed")
    /\ Post("Disconnected", t)
    /\ UNCHANGED <<stateVars, actorVars, eventVars, clientVars, checks, target>>

\* The keepalive or the tun device failed: the same exit, of the tunnel's own accord.
TunnelDies(t) ==
    /\ Commanded(t)
    /\ Advance(t, "up", "closed")
    /\ Post("Disconnected", t)
    /\ UNCHANGED <<stateVars, actorVars, eventVars, clientVars, checks, target>>

\* Sending a packet failed or timed out: `self.send(..).await?` leaves run with no event.
TunnelBreaks(t) ==
    /\ Advance(t, "up", "broken")
    /\ UNCHANGED <<stateVars, actorVars, events, eventVars, clientVars, checks, target>>

\* RekeyCheck, RemoteControlData, Rekeyed or Rtt. The RekeyCheck task of a tunnel lives as
\* long as the event channel, so it goes on after the tunnel has ended.
TunnelChecks(t) ==
    /\ tunnel[t] \in {"configured", "abandoned", "up", "closed", "broken"}
    /\ checks > 0
    /\ checks' = checks - 1
    /\ Post("Check", t)
    /\ UNCHANGED <<stateVars, actorVars, tunnel, eventVars, clientVars, target>>

-----------------------------------------------------------------------------
(* The event task *)

\* Mutant of TakeEvent: the last event first.
TakeLastEvent ==
    /\ evStage = "idle"
    /\ events # <<>>
    /\ evItem' = events[Len(events)]
    /\ events' = SubSeq(events, 1, Len(events) - 1)
    /\ evHandle' = connector
    /\ evStage' = IF connector = Nobody THEN "ok" ELSE "found"
    /\ UNCHANGED <<stateVars, actorVars, tunnel, clientVars, checks, target>>

\* handle_tunnel_event takes the next event and the connector stored at that moment.
TakeEvent ==
    /\ evStage = "idle"
    /\ events # <<>>
    /\ evItem' = Head(events)
    /\ events' = Tail(events)
    /\ evHandle' = connector
    /\ evStage' = IF connector = Nobody THEN "ok" ELSE "found"
    /\ UNCHANGED <<stateVars, actorVars, tunnel, clientVars, checks, target>>

AskConnector ==
    /\ evStage = "found"
    /\ Free(evHandle)
    /\ queue' = [queue EXCEPT ![evHandle] =
                    Append(@, [op |-> "HandleEvent", from |-> Nobody])]
    /\ evStage' = "asked"
    /\ UNCHANGED <<stateVars, actor, sender, tunnel, events, evItem, evHandle, clientVars,
                   checks, target>>

EventDone == evStage' = "idle" /\ evItem' = Nobody /\ UNCHANGED evHandle

\* The connector could not handle the event: the state is reset and the event dropped.
EventFailed ==
    /\ evStage = "error"
    /\ ResetState
    /\ EventDone
    /\ UNCHANGED <<actorVars, tunnel, events, clientVars, checks, target>>

\* Connected is stored whatever the status is now.
ApplyConnected ==
    /\ evStage = "ok"
    /\ evItem.kind = "Connected"
    /\ status' = Status("Connected", evItem.tunnel)
    /\ EventDone
    /\ UNCHANGED <<session, connector, cancel, actorVars, tunnel, events, clientVars,
                   checks, target>>

\* Mutant of ApplyDisconnected: ignored when no connector is stored.
ApplyDisconnectedToConnector ==
    /\ evStage = "ok"
    /\ evItem.kind = "Disconnected"
    /\ IF connector # Nobody THEN ResetState ELSE UNCHANGED stateVars
    /\ EventDone
    /\ UNCHANGED <<actorVars, tunnel, events, clientVars, checks, target>>

\* Disconnected resets the state whichever tunnel sent it.
ApplyDisconnected ==
    /\ evStage = "ok"
    /\ evItem.kind = "Disconnected"
    /\ ResetState
    /\ EventDone
    /\ UNCHANGED <<actorVars, tunnel, events, clientVars, checks, target>>

\* Mutant of ApplyCheck: the event itself becomes the information shown.
ApplyCheckAsStatus ==
    /\ evStage = "ok"
    /\ evItem.kind = "Check"
    /\ status' = [status EXCEPT !.tunnel = evItem]
    /\ EventDone
    /\ UNCHANGED <<session, connector, cancel, actorVars, tunnel, events, clientVars,
                   checks, target>>

\* Rekeyed and Rtt touch the payload of a Connected status only; the others nothing.
ApplyCheck ==
    /\ evStage = "ok"
    /\ evItem.kind = "Check"
    /\ EventDone
    /\ UNCHANGED <<stateVars, actorVars, tunnel, events, clientVars, checks, target>>

-----------------------------------------------------------------------------

\* What a handler does by itself once its request is started.
HandlerStep(c) ==
    \/ ResetBeforeConnect(c)
    \/ AskForCode(c)
    \/ SessionGranted(c)
    \/ SpawnTunnel(c)
    \/ RequestFailed(c)
    \/ StoreCancel(c)
    \/ FindConnector(c)
    \/ Disconnected(c)
    \/ SendRequest(c)

\* The factory has asked the gateway for its login types, or failed to.
FactoryAnswers(c) == NoConnector(c) \/ \E k \in Connectors : NewConnector(c, k)

\* An exchange of k's actor with the gateway is over.
ExchangeEnds(k, c) ==
    \/ Restored(k, c)
    \/ GatewayAnswers(k, c)
    \/ \E t \in Tunnels : Created(k, c, t)
    \/ NotCreated(k, c)
    \/ SessionDeleted(k, c)

\* What the actor of k does on its own account.
ActorStep(k) ==
    \/ \E c \in Clients : Cancelled(k, c) \/ Terminated(k, c)
    \/ ActorStops(k)

\* Of a Connected event both connectors only take note.
EventNoted(k) == evItem # Nobody /\ evItem.kind = "Connected" /\ EventHandled(k)

EventStep ==
    \/ TakeEvent
    \/ AskConnector
    \/ EventFailed
    \/ ApplyConnected
    \/ ApplyDisconnected
    \/ ApplyCheck

\* What the run of a tunnel does without a failure once the gateway has answered.
TunnelStep(t) == TunnelUp(t) \/ TunnelStops(t)

Next ==
    \/ \E c \in Clients : Connect(c) \/ ChallengeCode(c) \/ Disconnect(c)
    \/ \E c \in Clients : HandlerStep(c) \/ FactoryAnswers(c)
    \/ \E k \in Connectors : ActorStep(k) \/ EventHandled(k)
    \/ \E k \in Connectors, c \in Clients : ExchangeEnds(k, c)
    \/ EventStep
    \/ \E t \in Tunnels : \/ TunnelStep(t)
                          \/ TunnelSetUp(t)
                          \/ SetUpFails(t)
                          \/ TunnelDies(t)
                          \/ TunnelBreaks(t)
                          \/ TunnelChecks(t)

Spec == Init /\ [][Next]_vars

\* tokio runs every task that is ready: a handler, an actor, the event task, a tunnel's
\* run. Nothing is promised about requests, about failures, or about the gateway, which
\* nobody times: of an HTTP request only the headers are (gateway.rs:254), the body, the
\* TLS connection and the hello reply of an SSL tunnel (ssl.rs:134 and 195) are not. So no
\* step that ends an exchange with the gateway is fair.
Fairness ==
    /\ \A c \in Clients : WF_vars(HandlerStep(c))
    /\ \A k \in Connectors : WF_vars(ActorStep(k) \/ EventNoted(k))
    /\ WF_vars(EventStep)
    /\ \A t \in Tunnels : WF_vars(TunnelStep(t))

FairSpec == Spec /\ Fairness

-----------------------------------------------------------------------------
(* Safety *)

\* An event of this kind of tunnel t is in the channel or in the hands of the event task.
Pending(kind, t) ==
    LET e == [kind |-> kind, tunnel |-> t]
    IN  \/ evStage # "idle" /\ evItem = e
        \/ \E i \in DOMAIN events : events[i] = e

\* A Connected status is never left over: the tunnel it shows is still running, or its
\* Disconnected event has still to be applied. The one exception is a tunnel whose run
\* returned from a failed send without an event. (ApplyConnected does not look at the
\* current status or connector, so this rests on the order of the event channel.)
ConnectedHasTunnel ==
    status.kind = "Connected" =>
        /\ status.tunnel \in Tunnels
        /\ \/ tunnel[status.tunnel] \in {"up", "broken"}
           \/ Pending("Disconnected", status.tunnel)

\* The stages of a handler whose request has made, or is about to make, the status Connecting.
ConnectStages == {"restore", "restoring", "authenticate", "authenticating", "granted",
                  "challenged", "create", "creating", "spawn", "failed"}

\* A client that polls while the status is Connecting (do_connect of the controller) is
\* waiting for somebody: a handler at work, a tunnel being set up or a Connected event on
\* its way. The one exception is a tunnel whose set-up failed without an event.
ConnectingHasOwner ==
    status.kind = "Connecting" =>
        \/ \E c \in Clients : pc[c] \in ConnectStages
        \/ \E t \in Tunnels : \/ tunnel[t] \in {"starting", "configured", "aborted", "abandoned"}
                              \/ Pending("Connected", t)

\* A client that is asked for a code finds the challenge the code answers.
MfaHasPendingSession == status.kind = "Mfa" => session = "pending"

\* A Disconnected status means that neither a connector nor a session is kept: the next
\* Connect starts from nothing and an old actor is free to stop.
DisconnectedHoldsNothing ==
    status.kind = "Disconnected" => connector = Nobody /\ session = "none"

\* Every holder of a connector handle has a live actor behind it, and who waits for a reply
\* has exactly one request on that actor's queue, of the kind it waits for: neither
\* "Connector actor stopped" nor a dropped reply channel can reach a client.
HandlesAreLive ==
    /\ connector # Nobody => actor[connector] = "live"
    /\ evHandle # Nobody => actor[evHandle] = "live"
    /\ \A c \in Clients : handle[c] # Nobody => actor[handle[c]] = "live"

AskedBy(k, from) == {i \in DOMAIN queue[k] : queue[k][i].from = from}

RepliesArrive ==
    /\ HandlesAreLive
    /\ \A c \in Clients : pc[c] \in WaitStages =>
           /\ handle[c] \in Connectors
           /\ \E i \in AskedBy(handle[c], c) :
                  /\ queue[handle[c]][i].op = WaitFor[pc[c]]
                  /\ AskedBy(handle[c], c) = {i}
    /\ evStage = "asked" =>
           /\ evHandle \in Connectors
           /\ \E i \in AskedBy(evHandle, Nobody) : AskedBy(evHandle, Nobody) = {i}

\* The status implements the board of ConnectionBoard: a tunnel is announced when its
\* Connected event is applied and withdrawn when its Disconnected event is.
Board == INSTANCE ConnectionBoard WITH
             shown <- status.tunnel,
             stage <- [t \in Tunnels |->
                 IF tunnel[t] \notin {"up", "closed", "broken"} \/ Pending("Connected", t)
                 THEN "new"
                 ELSE IF tunnel[t] = "closed" /\ ~Pending("Disconnected", t)
                      THEN "withdrawn"
                      ELSE "announced"]

\* Every behaviour of the server is a behaviour of the board.
BoardSpec == Board!Spec

\* The stages in which disconnect is still to take the tunnel's commander away.
Releasing == {"fired", "delete", "deleting", "terminate", "terminating"}

\* Whatever other clients connect, answer or disconnect meanwhile, a Disconnect that is
\* about to reset the state has released the tunnel that was there when it came, and for
\* good: no stored connector leads to that tunnel any more, neither then nor later. The
\* handler took the connector in another lock than it fired the sender in, and asked it in
\* two exchanges during which a reset may drop it and a Connect replace it.
DisconnectReleasesTunnel ==
    \A c \in Clients :
        target[c] # Nobody /\ pc[c] \notin Releasing =>
            connector = Nobody \/ sender[connector] # target[c]

-----------------------------------------------------------------------------
(* What the code says and does not keep *)

\* server.rs refuses a Connect with "Another connection is already in progress!": at most
\* one connect is ever past that check.
OneConnectAtATime ==
    Cardinality({c \in Clients : pc[c] \in {"factory"} \cup (ConnectStages \ {"failed"})}) <= 1

-----------------------------------------------------------------------------
(* Liveness *)

\* The actor of k is in the middle of an exchange with the gateway, which may last for ever.
Exchanging(k) ==
    /\ queue[k] # <<>>
    /\ LET op == Head(queue[k]).op
       IN  \/ op \notin {"TerminateTunnel", "HandleEvent"}
           \/ op = "HandleEvent" /\ evItem.kind # "Connected"

\* The exchange of client c is under way, not only queued.
InExchange(c) == \E k \in Connectors : queue[k] # <<>> /\ Head(queue[k]).from = c

\* Every request is answered, unless the factory or the very actor it asks is left waiting
\* by the gateway for ever: no handler, actor or event task waits for another in a circle,
\* nor for room in a channel that never comes. And an authentication or a challenge that is
\* under way ends once it is cancelled, however long the gateway is silent.
RequestsAnswered ==
    \A c \in Clients :
        /\ \/ pc[c] # "idle" ~> pc[c] = "idle"
           \/ <>[](pc[c] = "factory")
           \/ \E k \in Connectors : <>[](handle[c] = k /\ Exchanging(k))
        /\ pc[c] \in {"authenticating", "challenging"} /\ InExchange(c) /\ Signalled(c)
               ~> pc[c] \notin {"authenticating", "challenging"}

Quiet == connector = Nobody /\ \A c \in Clients : pc[c] = "idle"

\* Once no request runs, no connector is stored and the event task is not left waiting by
\* the gateway: no Connected status stays for good, however many stale events are on their
\* way (again except for a tunnel that broke), and no tunnel goes on, because whoever lost
\* the last handle ends the tunnel. One tunnel does: one whose gateway never answers its
\* hello stays in its set-up, deaf to its commands.
NothingLeftOver ==
    <>[]Quiet /\ (\A k \in Connectors : []<>~(evHandle = k /\ Exchanging(k))) =>
        /\ <>[](status.kind = "Connected" => tunnel[status.tunnel] = "broken")
        /\ \A t \in Tunnels :
               \/ <>[](tunnel[t] \in {"none", "closed", "aborted", "abandoned", "broken"})
               \/ <>[](tunnel[t] = "starting")

=============================================================================
