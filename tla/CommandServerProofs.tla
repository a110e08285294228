------------------------ MODULE CommandServerProofs ------------------------
(***************************************************************************)
(* What CommandServer keeps for every number of clients, connectors,       *)
(* tunnels and requests and every capacity of the event channel.           *)
(***************************************************************************)
EXTENDS CommandServer, SequenceTheorems, TLAPS

-----------------------------------------------------------------------------
(* Types *)

\* The event task has an event in its hands whenever it is at work.
EventInHand == evStage # "idle" => evItem \in Event

Typed == TypeOK /\ EventInHand

\* What the actor of k replies to client c.
Reply(k, c) == ExchangeEnds(k, c) \/ Cancelled(k, c) \/ Terminated(k, c)

\* A request can be put on a queue (and is lost if there is no such queue).
LEMMA AppendRequest ==
    ASSUME NEW k \in Connectors \cup {Nobody}, NEW r \in Request,
           queue \in [Connectors -> Seq(Request)],
           queue' = [queue EXCEPT ![k] = Append(@, r)]
    PROVE  queue' \in [Connectors -> Seq(Request)]
<1>1. CASE k \in Connectors
  BY <1>1
<1>2. CASE k = Nobody
  BY <1>2, ServerAssumption
<1>3. QED
  BY <1>1, <1>2

\* The head of a queue can be taken off.
LEMMA TailRequest ==
    ASSUME NEW k \in Connectors, queue \in [Connectors -> Seq(Request)], queue[k] # <<>>,
           queue' = [queue EXCEPT ![k] = Tail(@)]
    PROVE  queue' \in [Connectors -> Seq(Request)]
  OBVIOUS

\* The states the service starts in have the declared types.
LEMMA TypedInit == Init => Typed
  BY ServerAssumption DEF Init, Typed, TypeOK, EventInHand, Status, Kinds, TunnelStages, Stages

\* A request of a handler and what its stages map to have the declared types.
LEMMA OpType ==
    ASSUME NEW c \in Clients, NEW stage \in SendStages
    PROVE  /\ [op |-> Op[stage], from |-> c] \in Request
           /\ Sent[stage] \in WaitStages
           /\ WaitFor[Sent[stage]] = Op[stage]
  BY DEF WaitFor, SendStages, Op, Sent, Request, Stages, HeldStages, WaitStages

LEMMA EventRequest == [op |-> "HandleEvent", from |-> Nobody] \in Request
  BY DEF Request

\* Every step keeps the types.
LEMMA TypedNext == Typed /\ [Next]_vars => Typed'
<1> SUFFICES ASSUME Typed, [Next]_vars PROVE Typed'
  OBVIOUS
<1> USE ServerAssumption DEF Typed, TypeOK, EventInHand
<1>1. CASE UNCHANGED vars
  BY <1>1 DEF vars, stateVars, actorVars, eventVars, clientVars
<1>2. ASSUME NEW c \in Clients, Connect(c) \/ ChallengeCode(c) \/ Disconnect(c)
      PROVE  Typed'
  <2>1. CASE Connect(c)
    BY <2>1 DEF Connect, Begin, Goto, stateVars, actorVars, eventVars, Stages
  <2>2. CASE ChallengeCode(c)
    <3>1. pc' \in [Clients -> Stages]
      BY <2>2 DEF ChallengeCode, Goto, Stages, HeldStages
    <3>2. handle' \in [Clients -> Connectors \cup {Nobody}]
      BY <2>2 DEF ChallengeCode
    <3>3. budget' \in [Clients -> Nat]
      BY <2>2 DEF ChallengeCode, Begin
    <3>4. QED
      BY <2>2, <3>1, <3>2, <3>3 DEF ChallengeCode, stateVars, actorVars, eventVars
  <2>3. CASE Disconnect(c)
    BY <2>3 DEF Disconnect, Begin, Goto, actorVars, eventVars, Stages
  <2>4. QED
    BY <1>2, <2>1, <2>2, <2>3
<1>3. ASSUME NEW c \in Clients, HandlerStep(c) \/ FactoryAnswers(c)
      PROVE  Typed'
  <2>1. CASE ResetBeforeConnect(c)
    BY <2>1 DEF ResetBeforeConnect, ResetState, Goto, stateVars, actorVars, eventVars, Stages,
                Status, Kinds
  <2>2. ASSUME NEW k \in Connectors, NewConnector(c, k) PROVE Typed'
    BY <2>2 DEF NewConnector, Goto, eventVars, Stages, HeldStages, SendStages, Status, Kinds
  <2>3. CASE NoConnector(c)
    BY <2>3 DEF NoConnector, Goto, stateVars, actorVars, eventVars, Stages
  <2>4. CASE AskForCode(c)
    BY <2>4 DEF AskForCode, Return, actorVars, eventVars, Stages, Status, Kinds
  <2>5. CASE SessionGranted(c)
    BY <2>5 DEF SessionGranted, Goto, actorVars, eventVars, Stages, HeldStages, SendStages,
                Status, Kinds
  <2>6. CASE SpawnTunnel(c)
    BY <2>6 DEF SpawnTunnel, Return, stateVars, actorVars, eventVars, Stages, TunnelStages
  <2>7. CASE RequestFailed(c)
    BY <2>7 DEF RequestFailed, ResetState, Return, actorVars, eventVars, Stages, Status, Kinds
  <2>8. CASE StoreCancel(c)
    BY <2>8 DEF StoreCancel, Goto, actorVars, eventVars, Stages, HeldStages, SendStages
  <2>9. CASE FindConnector(c)
    BY <2>9 DEF FindConnector, Goto, stateVars, actorVars, eventVars, Stages, HeldStages,
                SendStages
  <2>10. CASE Disconnected(c)
    BY <2>10 DEF Disconnected, ResetState, Return, actorVars, eventVars, Stages, Status, Kinds
  <2>11. CASE SendRequest(c)
    <3>1. queue' \in [Connectors -> Seq(Request)]
      <4> DEFINE r == [op |-> Op[pc[c]], from |-> c]
      <4>1. r \in Request
        BY <2>11, OpType DEF SendRequest
      <4>2. queue' = [queue EXCEPT ![handle[c]] = Append(@, r)]
        BY <2>11 DEF SendRequest
      <4> HIDE DEF r
      <4>3. QED
        BY <4>1, <4>2, AppendRequest
    <3>2. pc' \in [Clients -> Stages]
      BY <2>11, OpType DEF SendRequest, Goto, Stages, HeldStages
    <3>3. QED
      BY <2>11, <3>1, <3>2 DEF SendRequest, stateVars, eventVars
  <2>12. QED
    BY <1>3, <2>1, <2>2, <2>3, <2>4, <2>5, <2>6, <2>7, <2>8, <2>9, <2>10, <2>11 DEF HandlerStep,
                                                                                    FactoryAnswers
<1>4. ASSUME NEW k \in Connectors, NEW c \in Clients, Reply(k, c)
      PROVE  Typed'
  <2>1. queue' \in [Connectors -> Seq(Request)]
    BY <1>4, TailRequest DEF Reply, ExchangeEnds, GatewayAnswers, Restored, Cancelled, Created,
                             NotCreated,
                             SessionDeleted, Terminated, Serve
  <2>2. pc' \in [Clients -> Stages]
    BY <1>4 DEF Reply, ExchangeEnds, GatewayAnswers, Restored, Cancelled, Created, NotCreated,
                SessionDeleted, Terminated, Goto, Stages, HeldStages, SendStages
  <2>3. sender' \in [Connectors -> Tunnels \cup {Nobody}]
    BY <1>4 DEF Reply, ExchangeEnds, GatewayAnswers, Restored, Cancelled, Created, NotCreated,
                SessionDeleted, Terminated
  <2>4. tunnel' \in [Tunnels -> TunnelStages] /\ got' \in [Clients -> Tunnels \cup {Nobody}]
    <3>1. CASE \E t \in Tunnels : Created(k, c, t)
      BY <3>1 DEF Created, TunnelStages
    <3>2. CASE UNCHANGED <<tunnel, got>>
      BY <3>2
    <3>3. QED
      BY <1>4, <3>1, <3>2 DEF Reply, ExchangeEnds, GatewayAnswers, Restored, Cancelled, NotCreated,
                              SessionDeleted, Terminated
  <2>5. UNCHANGED <<stateVars, actor, events, eventVars, handle, budget, checks, target>>
    BY <1>4 DEF Reply, ExchangeEnds, GatewayAnswers, Restored, Cancelled, Created, NotCreated,
                SessionDeleted, Terminated
  <2>6. QED
    BY <2>1, <2>2, <2>3, <2>4, <2>5 DEF stateVars, eventVars
<1>5. ASSUME NEW k \in Connectors, EventHandled(k) \/ ActorStops(k)
      PROVE  Typed'
  <2>1. CASE EventHandled(k)
    BY <2>1, TailRequest DEF EventHandled, stateVars, clientVars
  <2>2. CASE ActorStops(k)
    BY <2>2 DEF ActorStops, stateVars, eventVars, clientVars
  <2>3. QED
    BY <1>5, <2>1, <2>2
<1>6. CASE EventStep
  <2>1. CASE TakeEvent
    BY <2>1 DEF TakeEvent, stateVars, actorVars, clientVars
  <2>2. CASE AskConnector
    <3>1. queue' \in [Connectors -> Seq(Request)]
      <4> DEFINE r == [op |-> "HandleEvent", from |-> Nobody]
      <4>1. r \in Request
        BY EventRequest
      <4>2. queue' = [queue EXCEPT ![evHandle] = Append(@, r)]
        BY <2>2 DEF AskConnector
      <4> HIDE DEF r
      <4>3. QED
        BY <4>1, <4>2, AppendRequest
    <3>2. QED
      BY <2>2, <3>1 DEF AskConnector, stateVars, clientVars
  <2>3. CASE EventFailed \/ ApplyDisconnected
    BY <2>3 DEF EventFailed, ApplyDisconnected, ResetState, EventDone, actorVars, clientVars,
                Status, Kinds
  <2>4. CASE ApplyConnected
    BY <2>4 DEF ApplyConnected, EventDone, actorVars, clientVars, Status, Kinds, Event
  <2>5. CASE ApplyCheck
    BY <2>5 DEF ApplyCheck, EventDone, stateVars, actorVars, clientVars
  <2>6. QED
    BY <1>6, <2>1, <2>2, <2>3, <2>4, <2>5 DEF EventStep
<1>7. ASSUME NEW t \in Tunnels,
             TunnelStep(t) \/ TunnelSetUp(t) \/ SetUpFails(t) \/ TunnelDies(t)
             \/ TunnelBreaks(t) \/ TunnelChecks(t)
      PROVE  Typed'
  <2>1. tunnel' \in [Tunnels -> TunnelStages]
    BY <1>7 DEF TunnelStep, TunnelSetUp, TunnelUp, TunnelStops, SetUpFails, TunnelDies,
                TunnelBreaks, TunnelChecks, Advance, TunnelStages
  <2>2. events' \in Seq(Event)
    <3>1. ASSUME NEW kind \in {"Connected", "Disconnected", "Check"}, Post(kind, t)
          PROVE  events' \in Seq(Event)
      BY <3>1 DEF Post, Event
    <3>2. QED
      BY <1>7, <3>1 DEF TunnelStep, TunnelSetUp, TunnelUp, TunnelStops, SetUpFails, TunnelDies,
                        TunnelBreaks, TunnelChecks
  <2>3. checks' \in Nat
    BY <1>7 DEF TunnelStep, TunnelSetUp, TunnelUp, TunnelStops, SetUpFails, TunnelDies,
                TunnelBreaks, TunnelChecks
  <2>4. UNCHANGED <<stateVars, actorVars, eventVars, clientVars, target>>
    BY <1>7 DEF TunnelStep, TunnelSetUp, TunnelUp, TunnelStops, SetUpFails, TunnelDies,
                TunnelBreaks, TunnelChecks
  <2>5. QED
    BY <2>1, <2>2, <2>3, <2>4 DEF stateVars, actorVars, eventVars, clientVars
<1>8. QED
  BY <1>1, <1>2, <1>3, <1>4, <1>5, <1>6, <1>7 DEF Next, ActorStep, Reply, ExchangeEnds

\* Every variable keeps its type.
THEOREM TypeCorrect == Spec => []TypeOK
  BY TypedInit, TypedNext, PTL DEF Spec, Typed

-----------------------------------------------------------------------------
(* The connection state: what a status says about the session and the connector *)

Consistent == DisconnectedHoldsNothing /\ MfaHasPendingSession

LEMMA ConsistentInit == Init => Consistent
  BY DEF Init, Consistent, DisconnectedHoldsNothing, MfaHasPendingSession, Status

\* reset leaves nothing behind.
LEMMA ConsistentReset == ResetState => Consistent'
  BY DEF ResetState, Consistent, DisconnectedHoldsNothing, MfaHasPendingSession, Status

\* Nor does a step break anything that leaves status, session and connector alone.
LEMMA ConsistentFrame ==
    Consistent /\ UNCHANGED <<status, session, connector>> => Consistent'
  BY DEF Consistent, DisconnectedHoldsNothing, MfaHasPendingSession

\* Every critical section of the connection state leaves it consistent.
LEMMA ConsistentNext == Typed /\ Consistent /\ [Next]_vars => Consistent'
<1> SUFFICES ASSUME Typed, Consistent, [Next]_vars PROVE Consistent'
  OBVIOUS
<1>1. CASE UNCHANGED vars
  BY <1>1, ConsistentFrame DEF vars, stateVars
<1>2. ASSUME NEW c \in Clients, Connect(c) \/ ChallengeCode(c) \/ Disconnect(c)
      PROVE  Consistent'
  BY <1>2, ConsistentFrame DEF Connect, ChallengeCode, Disconnect, stateVars
<1>3. ASSUME NEW c \in Clients, HandlerStep(c) \/ FactoryAnswers(c)
      PROVE  Consistent'
  <2>1. CASE ResetBeforeConnect(c) \/ RequestFailed(c) \/ Disconnected(c)
    BY <2>1, ConsistentReset DEF ResetBeforeConnect, RequestFailed, Disconnected
  <2>2. ASSUME NEW k \in Connectors, NewConnector(c, k) PROVE Consistent'
    BY <2>2 DEF NewConnector, Consistent, DisconnectedHoldsNothing, MfaHasPendingSession, Status
  <2>3. CASE AskForCode(c) \/ SessionGranted(c)
    BY <2>3 DEF AskForCode, SessionGranted, Consistent, DisconnectedHoldsNothing,
                MfaHasPendingSession, Status
  <2>4. CASE UNCHANGED <<status, session, connector>>
    BY <2>4, ConsistentFrame
  <2>5. QED
    BY <1>3, <2>1, <2>2, <2>3, <2>4
       DEF HandlerStep, FactoryAnswers, NoConnector, SpawnTunnel, StoreCancel, FindConnector,
           SendRequest,
           stateVars
<1>4. ASSUME NEW k \in Connectors, EventHandled(k) \/ ActorStops(k) \/ \E c \in Clients : Reply(k, c)
      PROVE  Consistent'
  BY <1>4, ConsistentFrame
     DEF Reply, ExchangeEnds, Restored, Cancelled, Created,
         NotCreated, SessionDeleted,
         Terminated, EventHandled, ActorStops, GatewayAnswers, stateVars
<1>5. CASE EventStep
  <2>1. CASE EventFailed \/ ApplyDisconnected
    BY <2>1, ConsistentReset DEF EventFailed, ApplyDisconnected
  <2>2. CASE ApplyConnected
    BY <2>2 DEF ApplyConnected, Consistent, DisconnectedHoldsNothing, MfaHasPendingSession, Status
  <2>3. CASE TakeEvent \/ AskConnector \/ ApplyCheck
    BY <2>3, ConsistentFrame DEF TakeEvent, AskConnector, ApplyCheck, stateVars
  <2>4. QED
    BY <1>5, <2>1, <2>2, <2>3 DEF EventStep
<1>6. ASSUME NEW t \in Tunnels,
             TunnelStep(t) \/ TunnelSetUp(t) \/ SetUpFails(t) \/ TunnelDies(t)
             \/ TunnelBreaks(t) \/ TunnelChecks(t)
      PROVE  Consistent'
  BY <1>6, ConsistentFrame
     DEF TunnelStep, TunnelSetUp, TunnelUp, TunnelStops, SetUpFails, TunnelDies, TunnelBreaks,
         TunnelChecks, stateVars
<1>7. QED
  BY <1>1, <1>2, <1>3, <1>4, <1>5, <1>6 DEF Next, ActorStep, Reply

\* Whenever the status is Disconnected neither a connector nor a session is kept, so the
\* next Connect starts from nothing, in every interleaving of handlers and tunnel events.
THEOREM NothingHeldWhenDisconnected == Spec => []DisconnectedHoldsNothing
  BY TypedInit, TypedNext, ConsistentInit, ConsistentNext, PTL DEF Spec, Consistent

\* Whenever a client is asked for a code, the session the code answers is stored.
THEOREM ChallengeIsPending == Spec => []MfaHasPendingSession
  BY TypedInit, TypedNext, ConsistentInit, ConsistentNext, PTL DEF Spec, Consistent

-----------------------------------------------------------------------------
(* Handles: who holds one, and that its actor is alive *)

\* The stages of a handler and of the event task in which each holds a connector.
Held ==
    /\ \A c \in Clients : pc[c] \in HeldStages => handle[c] \in Connectors
    /\ evStage \in {"found", "asked"} => evHandle \in Connectors

LEMMA HeldInit == Init => Held
  BY DEF Init, Held, HeldStages, SendStages, WaitStages

\* A step that moves no handler into such a stage, takes no handle away and leaves the event
\* task alone.
LEMMA HeldFrame == Held /\ UNCHANGED <<pc, handle, evStage, evHandle>> => Held'
  BY DEF Held

LEMMA HeldNext == Typed /\ Consistent /\ Held /\ [Next]_vars => Held'
<1> SUFFICES ASSUME Typed, Consistent, Held, [Next]_vars PROVE Held'
  OBVIOUS
<1> USE ServerAssumption DEF Held, Typed, TypeOK, HeldStages, SendStages, WaitStages
<1>1. CASE UNCHANGED vars
  BY <1>1 DEF vars, eventVars, clientVars
<1>2. ASSUME NEW c \in Clients, Connect(c) \/ ChallengeCode(c) \/ Disconnect(c)
      PROVE  Held'
  <2>1. CASE Connect(c) \/ Disconnect(c)
    BY <2>1 DEF Connect, Disconnect, Goto, eventVars
  <2>2. CASE ChallengeCode(c)
    <3>1. CASE connector # Nobody /\ session # "none"
      BY <2>2, <3>1 DEF ChallengeCode, Goto, eventVars
    <3>2. CASE ~(connector # Nobody /\ session # "none")
      BY <2>2, <3>2 DEF ChallengeCode, Goto, eventVars
    <3>3. QED
      BY <3>1, <3>2
  <2>3. QED
    BY <1>2, <2>1, <2>2
<1>3. ASSUME NEW c \in Clients, HandlerStep(c) \/ FactoryAnswers(c)
      PROVE  Held'
  <2>1. CASE ResetBeforeConnect(c) \/ NoConnector(c)
    BY <2>1 DEF ResetBeforeConnect, NoConnector, Goto, eventVars
  <2>2. ASSUME NEW k \in Connectors, NewConnector(c, k) PROVE Held'
    BY <2>2 DEF NewConnector, Goto, eventVars
  <2>3. CASE SessionGranted(c) \/ StoreCancel(c)
    BY <2>3 DEF SessionGranted, StoreCancel, Goto, eventVars
  <2>4. CASE AskForCode(c) \/ SpawnTunnel(c) \/ RequestFailed(c) \/ Disconnected(c)
    <3>1. Return(c) /\ UNCHANGED eventVars
      BY <2>4 DEF AskForCode, SpawnTunnel, RequestFailed, Disconnected
    <3>2. QED
      BY <3>1 DEF Return, eventVars
  <2>5. CASE FindConnector(c)
    BY <2>5 DEF FindConnector, Goto, eventVars
  <2>6. CASE SendRequest(c)
    BY <2>6 DEF SendRequest, Goto, Sent, eventVars
  <2>7. QED
    BY <1>3, <2>1, <2>2, <2>3, <2>4, <2>5, <2>6 DEF HandlerStep, FactoryAnswers
<1>4. ASSUME NEW k \in Connectors, NEW c \in Clients, Reply(k, c)
      PROVE  Held'
  <2>1. ASSUME NEW t \in Tunnels, Created(k, c, t) PROVE Held'
    BY <2>1 DEF Created, Serve, Goto, eventVars
  <2>2. CASE Restored(k, c) \/ Cancelled(k, c) \/ GatewayAnswers(k, c)
    BY <2>2 DEF Restored, Cancelled, GatewayAnswers, Serve, Goto, eventVars
  <2>3. CASE NotCreated(k, c) \/ SessionDeleted(k, c) \/ Terminated(k, c)
    BY <2>3 DEF NotCreated, SessionDeleted, Terminated, Serve, Goto, eventVars
  <2>4. QED
    BY <1>4, <2>1, <2>2, <2>3 DEF Reply, ExchangeEnds
<1>5. ASSUME NEW k \in Connectors, EventHandled(k) \/ ActorStops(k)
      PROVE  Held'
  BY <1>5 DEF EventHandled, ActorStops, eventVars, clientVars
<1>6. CASE EventStep
  BY <1>6 DEF EventStep, TakeEvent, AskConnector, EventFailed, ApplyDisconnected, ApplyConnected,
              ApplyCheck, EventDone, clientVars
<1>7. ASSUME NEW t \in Tunnels,
             TunnelStep(t) \/ TunnelSetUp(t) \/ SetUpFails(t) \/ TunnelDies(t)
             \/ TunnelBreaks(t) \/ TunnelChecks(t)
      PROVE  Held'
  BY <1>7, HeldFrame
     DEF TunnelStep, TunnelSetUp, TunnelUp, TunnelStops, SetUpFails, TunnelDies, TunnelBreaks,
         TunnelChecks, eventVars, clientVars
<1>8. QED
  BY <1>1, <1>2, <1>3, <1>4, <1>5, <1>6, <1>7 DEF Next, ActorStep, Reply, ExchangeEnds

\* A tunnel that is about to be spawned has not started, and only one handler spawns it.
Spawning ==
    \A c \in Clients : pc[c] = "spawn" =>
        /\ got[c] \in Tunnels
        /\ tunnel[got[c]] = "created"
        /\ \A d \in Clients \ {c} : pc[d] = "spawn" => got[d] # got[c]

LEMMA SpawningInit == Init => Spawning
  BY DEF Init, Spawning

\* A handler that is not, and does not come to be, about to spawn a tunnel breaks nothing.
LEMMA SpawningGoto ==
    ASSUME Spawning, NEW c \in Clients, pc'[c] # "spawn", tunnel' = tunnel,
           \A d \in Clients \ {c} : pc'[d] = pc[d] /\ got'[d] = got[d]
    PROVE  Spawning'
<1>1. ASSUME NEW d \in Clients, pc'[d] = "spawn"
      PROVE  d # c /\ pc[d] = "spawn" /\ got'[d] = got[d]
  BY <1>1
<1>2. QED
  BY <1>1 DEF Spawning

LEMMA SpawningNext == Typed /\ Spawning /\ [Next]_vars => Spawning'
<1> SUFFICES ASSUME Typed, Spawning, [Next]_vars PROVE Spawning'
  OBVIOUS
<1> USE DEF Typed, TypeOK
<1>1. CASE UNCHANGED <<pc, got, tunnel>>
  BY <1>1 DEF Spawning
<1>2. ASSUME NEW c \in Clients, Connect(c) \/ ChallengeCode(c) \/ Disconnect(c)
      PROVE  Spawning'
  <2>1. /\ pc'[c] # "spawn" /\ UNCHANGED <<tunnel, got>>
        /\ \A d \in Clients \ {c} : pc'[d] = pc[d]
    BY <1>2 DEF Connect, ChallengeCode, Disconnect, Goto
  <2>2. QED
    BY <2>1, SpawningGoto
<1>3. ASSUME NEW c \in Clients, HandlerStep(c) \/ FactoryAnswers(c)
      PROVE  Spawning'
  <2>1. CASE SpawnTunnel(c)
    BY <2>1 DEF SpawnTunnel, Return, Spawning
  <2>2. CASE AskForCode(c) \/ RequestFailed(c) \/ Disconnected(c)
    <3>1. Return(c) /\ tunnel' = tunnel
      BY <2>2 DEF AskForCode, RequestFailed, Disconnected
    <3>2. QED
      BY <3>1, SpawningGoto DEF Return
  <2>3. CASE SendRequest(c)
    <3>1. /\ pc'[c] # "spawn" /\ UNCHANGED <<tunnel, got>>
          /\ \A d \in Clients \ {c} : pc'[d] = pc[d]
      BY <2>3, OpType DEF SendRequest, Goto, WaitStages
    <3>2. QED
      BY <3>1, SpawningGoto
  <2>4. ASSUME ResetBeforeConnect(c) \/ (\E k \in Connectors : NewConnector(c, k)) \/ NoConnector(c)
                 \/ SessionGranted(c) \/ StoreCancel(c) \/ FindConnector(c)
        PROVE  Spawning'
    <3>1. /\ pc'[c] # "spawn" /\ UNCHANGED <<tunnel, got>>
          /\ \A d \in Clients \ {c} : pc'[d] = pc[d]
      BY <2>4 DEF ResetBeforeConnect, NewConnector, NoConnector, SessionGranted, StoreCancel,
                  FindConnector, Goto
    <3>2. QED
      BY <3>1, SpawningGoto
  <2>5. QED
    BY <1>3, <2>1, <2>2, <2>3, <2>4 DEF HandlerStep, FactoryAnswers
<1>4. ASSUME NEW k \in Connectors, NEW c \in Clients, Reply(k, c)
      PROVE  Spawning'
  <2>1. ASSUME NEW t \in Tunnels, Created(k, c, t) PROVE Spawning'
    BY <2>1 DEF Created, Goto, Spawning
  <2>2. ASSUME Restored(k, c) \/ Cancelled(k, c) \/ GatewayAnswers(k, c) \/ NotCreated(k, c)
                 \/ SessionDeleted(k, c) \/ Terminated(k, c)
        PROVE  Spawning'
    <3>1. /\ pc'[c] # "spawn" /\ UNCHANGED <<tunnel, got>>
          /\ \A d \in Clients \ {c} : pc'[d] = pc[d]
      BY <2>2 DEF Restored, Cancelled, GatewayAnswers, NotCreated, SessionDeleted, Terminated, Goto
    <3>2. QED
      BY <3>1, SpawningGoto
  <2>3. QED
    BY <1>4, <2>1, <2>2 DEF Reply, ExchangeEnds
<1>5. ASSUME NEW t \in Tunnels,
             TunnelStep(t) \/ TunnelSetUp(t) \/ SetUpFails(t) \/ TunnelDies(t)
             \/ TunnelBreaks(t) \/ TunnelChecks(t)
      PROVE  Spawning'
  <2>1. tunnel' = tunnel \/ (tunnel[t] # "created" /\ tunnel' = [tunnel EXCEPT ![t] = tunnel'[t]])
    BY <1>5 DEF TunnelStep, TunnelSetUp, TunnelUp, TunnelStops, SetUpFails, TunnelDies,
                TunnelBreaks, TunnelChecks, Advance
  <2>2. UNCHANGED <<pc, got>>
    BY <1>5 DEF TunnelStep, TunnelSetUp, TunnelUp, TunnelStops, SetUpFails, TunnelDies,
                TunnelBreaks, TunnelChecks, clientVars
  <2>3. QED
    BY <2>1, <2>2 DEF Spawning
<1>6. CASE EventStep \/ \E k \in Connectors : EventHandled(k) \/ ActorStops(k)
  BY <1>1, <1>6 DEF EventStep, TakeEvent, AskConnector, EventFailed, ApplyDisconnected,
                    ApplyConnected, ApplyCheck, EventHandled, ActorStops, clientVars
<1>7. QED
  BY <1>1, <1>2, <1>3, <1>4, <1>5, <1>6 DEF Next, ActorStep, Reply, ExchangeEnds, vars, clientVars

-----------------------------------------------------------------------------
(* The event channel: a tunnel's Disconnected event comes after its Connected event *)

EventKinds == {"Connected", "Disconnected", "Check"}
Notice(kind, t) == [kind |-> kind, tunnel |-> t]
Running(t) == tunnel[t] \in {"up", "broken"}

\* An event of this kind of tunnel t is in the channel behind position i.
Behind(i, kind, t) == \E j \in 1..Len(events) : i < j /\ events[j] = Notice(kind, t)

\* Whoever announced itself still runs, or has its withdrawal in the channel, behind the
\* announcement.
Ordered ==
    /\ \A t \in Tunnels, i \in 1..Len(events) :
           events[i] = Notice("Connected", t) => Running(t) \/ Behind(i, "Disconnected", t)
    /\ \A t \in Tunnels :
           evStage # "idle" /\ evItem = Notice("Connected", t)
               => Running(t) \/ Behind(0, "Disconnected", t)

Announced == Ordered /\ ConnectedHasTunnel

\* What an event is pending means for the channel.
LEMMA PendingNotice ==
    ASSUME Typed, NEW kind, NEW t
    PROVE  Pending(kind, t) <=> \/ evStage # "idle" /\ evItem = Notice(kind, t)
                                \/ Behind(0, kind, t)
<1>1. DOMAIN events = 1..Len(events) /\ Len(events) \in Nat
  BY DEF Typed, TypeOK
<1>2. \A j \in 1..Len(events) : 0 < j
  BY <1>1
<1>3. Behind(0, kind, t) <=> \E j \in DOMAIN events : events[j] = Notice(kind, t)
  BY <1>1, <1>2, Zenon DEF Behind
<1>4. QED
  BY <1>3, Zenon DEF Pending, Notice

\* Post appends.
LEMMA Posted ==
    ASSUME Typed, NEW kind \in EventKinds, NEW t \in Tunnels, Post(kind, t)
    PROVE  /\ Len(events') = Len(events) + 1
           /\ Len(events) \in Nat
           /\ \A i \in 1..Len(events) : events'[i] = events[i]
           /\ events'[Len(events) + 1] = Notice(kind, t)
<1>1. Notice(kind, t) \in Event /\ events' = Append(events, Notice(kind, t))
  BY DEF Post, Notice, Event, EventKinds
<1>2. events \in Seq(Event)
  BY DEF Typed, TypeOK
<1>3. QED
  BY <1>1, <1>2

\* TakeEvent takes the first event off the channel.
LEMMA Taken ==
    ASSUME Typed, TakeEvent
    PROVE  /\ Len(events) = Len(events') + 1
           /\ Len(events') \in Nat
           /\ \A i \in 1..Len(events') : events'[i] = events[i + 1]
           /\ evItem' = events[1]
<1>1. events \in Seq(Event) /\ events # <<>>
  BY DEF Typed, TypeOK, TakeEvent
<1>2. events' = Tail(events) /\ evItem' = Head(events)
  BY DEF TakeEvent
<1>3. QED
  BY <1>1, <1>2

LEMMA AnnouncedInit == Init => Announced
  BY DEF Init, Announced, Ordered, ConnectedHasTunnel, Status

\* A step breaks nothing that leaves the events alone, stops no tunnel and announces none.
LEMMA AnnouncedFrame ==
    ASSUME Typed, Typed', Announced, UNCHANGED <<events, evItem>>,
           evStage = "idle" <=> evStage' = "idle",
           \A t \in Tunnels : Running(t) => Running(t)',
           status' = status \/ status'.kind # "Connected"
    PROVE  Announced'
<1>1. \A i, kind, t : Behind(i, kind, t)' <=> Behind(i, kind, t)
  BY DEF Behind
<1>2. Ordered'
  BY <1>1 DEF Announced, Ordered
<1>3. ConnectedHasTunnel'
  <2> SUFFICES ASSUME status'.kind = "Connected"
               PROVE  /\ status'.tunnel \in Tunnels
                      /\ Running(status.tunnel)' \/ Pending("Disconnected", status.tunnel)'
    BY DEF ConnectedHasTunnel, Running
  <2>1. status' = status
    OBVIOUS
  <2>2. /\ status.tunnel \in Tunnels
        /\ Running(status.tunnel) \/ Pending("Disconnected", status.tunnel)
    BY <2>1 DEF Announced, ConnectedHasTunnel, Running
  <2>3. Pending("Disconnected", status.tunnel) <=> Pending("Disconnected", status.tunnel)'
    BY <2>1 DEF Pending
  <2>4. QED
    BY <2>1, <2>2, <2>3 DEF Running
<1>4. QED
  BY <1>2, <1>3 DEF Announced

\* Posting an event keeps the order, if a tunnel that stops posts Disconnected, one that
\* posts Connected runs, and no other tunnel stops.
LEMMA AnnouncedPost ==
    ASSUME Typed, Typed', Announced, NEW kind \in EventKinds, NEW t \in Tunnels, Post(kind, t),
           UNCHANGED <<status, evStage, evItem>>,
           kind = "Connected" => Running(t)',
           \A u \in Tunnels : Running(u) => Running(u)' \/ (u = t /\ kind = "Disconnected")
    PROVE  Announced'
<1>1. ASSUME NEW u \in Tunnels, NEW i \in 0..Len(events),
             Running(u) \/ Behind(i, "Disconnected", u)
      PROVE  Running(u)' \/ Behind(i, "Disconnected", u)'
  <2>1. CASE Running(u)
    <3>1. CASE Running(u)'
      BY <3>1
    <3>2. CASE u = t /\ kind = "Disconnected"
      BY <3>2, Posted DEF Behind
    <3>3. QED
      BY <2>1, <3>1, <3>2
  <2>2. CASE Behind(i, "Disconnected", u)
    BY <2>2, Posted DEF Behind
  <2>3. QED
    BY <1>1, <2>1, <2>2
<1>2. Ordered'
  <2>1. ASSUME NEW u \in Tunnels, NEW i \in 1..Len(events'), events'[i] = Notice("Connected", u)
        PROVE  Running(u)' \/ Behind(i, "Disconnected", u)'
    <3>1. CASE i \in 1..Len(events)
      <4>1. events[i] = Notice("Connected", u)
        BY <2>1, <3>1, Posted
      <4>2. QED
        BY <1>1, <3>1, <4>1, Posted DEF Announced, Ordered
    <3>2. CASE i = Len(events) + 1
      <4>1. Notice(kind, t) = Notice("Connected", u)
        BY <2>1, <3>2, Posted
      <4>2. QED
        BY <4>1 DEF Notice
    <3>3. QED
      BY <3>1, <3>2, Posted
  <2>2. ASSUME NEW u \in Tunnels, evStage' # "idle", evItem' = Notice("Connected", u)
        PROVE  Running(u)' \/ Behind(0, "Disconnected", u)'
    BY <1>1, <2>2, Posted DEF Announced, Ordered
  <2>3. QED
    BY <2>1, <2>2 DEF Ordered
<1>3. ConnectedHasTunnel'
  <2> SUFFICES ASSUME status.kind = "Connected"
               PROVE  /\ status.tunnel \in Tunnels
                      /\ Running(status.tunnel)' \/ Pending("Disconnected", status.tunnel)'
    BY DEF ConnectedHasTunnel, Running
  <2>1. /\ status.tunnel \in Tunnels
        /\ Running(status.tunnel) \/ Pending("Disconnected", status.tunnel)
    BY DEF Announced, ConnectedHasTunnel, Running
  <2>2. Running(status.tunnel) \/ Behind(0, "Disconnected", status.tunnel)
          => Running(status.tunnel)' \/ Behind(0, "Disconnected", status.tunnel)'
    BY <1>1, <2>1, Posted
  <2>3. QED
    BY <2>1, <2>2, PendingNotice DEF Pending, Behind, Notice
<1>4. QED
  BY <1>2, <1>3 DEF Announced

\* Taking the first event keeps the order: what was behind it is in the channel.
LEMMA AnnouncedTake == Typed /\ Typed' /\ Announced /\ TakeEvent => Announced'
<1> SUFFICES ASSUME Typed, Typed', Announced, TakeEvent PROVE Announced'
  OBVIOUS
<1>1. UNCHANGED <<status, tunnel>> /\ evStage = "idle"
  BY DEF TakeEvent, stateVars
<1>2. ASSUME NEW t \in Tunnels, NEW i \in 0..Len(events'), Behind(i + 1, "Disconnected", t)
      PROVE  Behind(i, "Disconnected", t)'
  <2>1. PICK j \in 1..Len(events) : i + 1 < j /\ events[j] = Notice("Disconnected", t)
    BY <1>2 DEF Behind
  <2>2. j - 1 \in 1..Len(events') /\ i < j - 1 /\ events'[j - 1] = events[j]
    BY <2>1, Taken
  <2>3. QED
    BY <2>1, <2>2 DEF Behind
<1>3. Ordered'
  <2>1. ASSUME NEW t \in Tunnels, NEW i \in 1..Len(events'), events'[i] = Notice("Connected", t)
        PROVE  Running(t)' \/ Behind(i, "Disconnected", t)'
    <3>1. i + 1 \in 1..Len(events) /\ events[i + 1] = Notice("Connected", t)
      BY <2>1, Taken
    <3>2. Running(t) \/ Behind(i + 1, "Disconnected", t)
      BY <3>1 DEF Announced, Ordered
    <3>3. QED
      BY <1>1, <1>2, <3>2, Taken DEF Running
  <2>2. ASSUME NEW t \in Tunnels, evItem' = Notice("Connected", t)
        PROVE  Running(t)' \/ Behind(0, "Disconnected", t)'
    <3>1. 1 \in 1..Len(events) /\ events[1] = Notice("Connected", t)
      BY <2>2, Taken
    <3>2. Running(t) \/ Behind(0 + 1, "Disconnected", t)
      BY <3>1 DEF Announced, Ordered
    <3>3. QED
      BY <1>1, <1>2, <3>2, Taken DEF Running
  <2>3. QED
    BY <2>1, <2>2 DEF Ordered
<1>4. ConnectedHasTunnel'
  <2> SUFFICES ASSUME status.kind = "Connected"
               PROVE  /\ status.tunnel \in Tunnels
                      /\ Running(status.tunnel)' \/ Pending("Disconnected", status.tunnel)'
    BY <1>1 DEF ConnectedHasTunnel, Running
  <2> DEFINE t == status.tunnel
  <2>1. t \in Tunnels /\ (Running(t) \/ Pending("Disconnected", t))
    BY DEF Announced, ConnectedHasTunnel, Running
  <2>2. CASE Running(t)
    BY <1>1, <2>1, <2>2 DEF Running
  <2>3. CASE Behind(0, "Disconnected", t)
    <3>1. PICK j \in 1..Len(events) : events[j] = Notice("Disconnected", t)
      BY <2>3 DEF Behind
    <3>2. CASE j = 1
      <4>1. evItem' = Notice("Disconnected", t) /\ evStage' # "idle"
        BY <3>1, <3>2, Taken DEF TakeEvent
      <4>2. QED
        BY <1>1, <2>1, <4>1 DEF Pending, Notice
    <3>3. CASE j # 1
      <4>1. j - 1 \in DOMAIN events' /\ events'[j - 1] = Notice("Disconnected", t)
        <5>1. j - 1 \in 1..Len(events') /\ events'[j - 1] = events[j]
          BY <3>3, Taken
        <5>2. DOMAIN events' = 1..Len(events')
          BY DEF Typed, TypeOK
        <5>3. QED
          BY <3>1, <5>1, <5>2
      <4>2. QED
        BY <1>1, <2>1, <4>1 DEF Pending, Notice
    <3>4. QED
      BY <3>2, <3>3
  <2>4. QED
    BY <1>1, <2>1, <2>2, <2>3, PendingNotice
<1>5. QED
  BY <1>3, <1>4 DEF Announced

\* An event that is done with leaves the order of the others alone.
LEMMA AnnouncedDone ==
    ASSUME Typed, Typed', Announced, EventDone, UNCHANGED <<events, tunnel>>,
           \/ status'.kind # "Connected"
           \/ status' = status /\ evItem.kind = "Check"
           \/ /\ evStage # "idle"
              /\ evItem.kind = "Connected"
              /\ status' = Status("Connected", evItem.tunnel)
    PROVE  Announced'
<1>1. \A i, kind, t : Behind(i, kind, t)' <=> Behind(i, kind, t)
  BY DEF Behind
<1>2. Ordered'
  BY <1>1 DEF Announced, Ordered, EventDone, Running
<1>3. ConnectedHasTunnel'
  <2> SUFFICES ASSUME status'.kind = "Connected"
               PROVE  /\ status'.tunnel \in Tunnels
                      /\ \/ Running(status'.tunnel)
                         \/ Behind(0, "Disconnected", status'.tunnel)
    <3>1. \A t : Behind(0, "Disconnected", t) => Pending("Disconnected", t)'
      BY PendingNotice DEF Typed, TypeOK, Behind, Pending, Notice
    <3>2. QED
      BY <3>1 DEF ConnectedHasTunnel, Running
  <2>1. CASE status' = status /\ evItem.kind = "Check"
    <3>1. /\ status.tunnel \in Tunnels
          /\ Running(status.tunnel) \/ Pending("Disconnected", status.tunnel)
      BY <2>1 DEF Announced, ConnectedHasTunnel, Running
    <3>2. evItem # Notice("Disconnected", status.tunnel)
      BY <2>1 DEF Notice
    <3>3. QED
      BY <2>1, <3>1, <3>2, PendingNotice
  <2>2. CASE /\ evStage # "idle"
             /\ evItem.kind = "Connected"
             /\ status' = Status("Connected", evItem.tunnel)
    <3>1. evItem.tunnel \in Tunnels /\ evItem = Notice("Connected", evItem.tunnel)
      BY <2>2 DEF Typed, EventInHand, Event, Notice
    <3>2. status'.tunnel = evItem.tunnel
      BY <2>2 DEF Status
    <3>3. QED
      BY <2>2, <3>1, <3>2 DEF Announced, Ordered
  <2>3. QED
    BY <2>1, <2>2
<1>4. QED
  BY <1>2, <1>3 DEF Announced

\* Every step keeps the order of announcements and withdrawals.
LEMMA AnnouncedNext == Typed /\ Typed' /\ Spawning /\ Announced /\ [Next]_vars => Announced'
<1> SUFFICES ASSUME Typed, Typed', Spawning, Announced, [Next]_vars PROVE Announced'
  OBVIOUS
<1>1. CASE UNCHANGED vars
  BY <1>1, AnnouncedFrame DEF vars, stateVars, eventVars, Running
<1>2. ASSUME NEW c \in Clients, Connect(c) \/ ChallengeCode(c) \/ Disconnect(c)
      PROVE  Announced'
  BY <1>2, AnnouncedFrame DEF Connect, ChallengeCode, Disconnect, stateVars, eventVars, Running
<1>3. ASSUME NEW c \in Clients, HandlerStep(c) \/ FactoryAnswers(c)
      PROVE  Announced'
  <2>1. UNCHANGED <<events, eventVars>>
    BY <1>3 DEF HandlerStep, FactoryAnswers, ResetBeforeConnect, NewConnector, NoConnector,
                AskForCode,
                SessionGranted, SpawnTunnel, RequestFailed, StoreCancel, FindConnector, Disconnected,
                SendRequest
  <2>2. status' = status \/ status'.kind # "Connected"
    BY <1>3 DEF HandlerStep, FactoryAnswers, ResetBeforeConnect, NewConnector, NoConnector,
                AskForCode,
                SessionGranted, SpawnTunnel, RequestFailed, StoreCancel, FindConnector, Disconnected,
                SendRequest, ResetState, Status, stateVars
  <2>3. \A t \in Tunnels : Running(t) => Running(t)'
    <3>1. CASE SpawnTunnel(c)
      BY <3>1 DEF SpawnTunnel, Spawning, Running, Typed, TypeOK
    <3>2. CASE tunnel' = tunnel
      BY <3>2 DEF Running
    <3>3. QED
      BY <1>3, <3>1, <3>2
         DEF HandlerStep, FactoryAnswers, ResetBeforeConnect, NewConnector, NoConnector, AskForCode,
             SessionGranted,
             RequestFailed, StoreCancel, FindConnector, Disconnected, SendRequest
  <2>4. QED
    BY <2>1, <2>2, <2>3, AnnouncedFrame DEF eventVars
<1>4. ASSUME NEW k \in Connectors, NEW c \in Clients, Reply(k, c)
      PROVE  Announced'
  <2>1. UNCHANGED <<status, events, eventVars>>
    BY <1>4 DEF Reply, ExchangeEnds, GatewayAnswers, Restored, Cancelled, Created, NotCreated,
                SessionDeleted, Terminated, stateVars
  <2>2. \A t \in Tunnels : Running(t) => Running(t)'
    <3>1. ASSUME NEW u \in Tunnels, Created(k, c, u)
          PROVE  \A t \in Tunnels : Running(t) => Running(t)'
      BY <3>1 DEF Created, Running, Typed, TypeOK
    <3>2. CASE tunnel' = tunnel
      BY <3>2 DEF Running
    <3>3. QED
      BY <1>4, <3>1, <3>2 DEF Reply, ExchangeEnds, GatewayAnswers, Restored, Cancelled, NotCreated,
                              SessionDeleted, Terminated
  <2>3. QED
    BY <2>1, <2>2, AnnouncedFrame DEF eventVars
<1>5. ASSUME NEW k \in Connectors, EventHandled(k) \/ ActorStops(k)
      PROVE  Announced'
  BY <1>5, AnnouncedFrame DEF EventHandled, ActorStops, stateVars, eventVars, Running
<1>6. CASE EventStep
  <2>1. CASE TakeEvent
    BY <2>1, AnnouncedTake
  <2>2. CASE AskConnector
    BY <2>2, AnnouncedFrame DEF AskConnector, stateVars, Running
  <2>3. CASE EventFailed \/ ApplyDisconnected
    BY <2>3, AnnouncedDone DEF EventFailed, ApplyDisconnected, ResetState, Status
  <2>4. CASE ApplyConnected
    BY <2>4, AnnouncedDone DEF ApplyConnected
  <2>5. CASE ApplyCheck
    BY <2>5, AnnouncedDone DEF ApplyCheck, stateVars
  <2>6. QED
    BY <1>6, <2>1, <2>2, <2>3, <2>4, <2>5 DEF EventStep
<1>7. ASSUME NEW t \in Tunnels,
             TunnelStep(t) \/ TunnelSetUp(t) \/ SetUpFails(t) \/ TunnelDies(t)
             \/ TunnelBreaks(t) \/ TunnelChecks(t)
      PROVE  Announced'
  <2>1. CASE TunnelSetUp(t) \/ SetUpFails(t) \/ TunnelBreaks(t)
    <3>1. \A u \in Tunnels : Running(u) => Running(u)'
      BY <2>1 DEF TunnelSetUp, SetUpFails, TunnelBreaks, Advance, Running, Typed, TypeOK
    <3>2. QED
      BY <2>1, <3>1, AnnouncedFrame DEF TunnelSetUp, SetUpFails, TunnelBreaks, stateVars, eventVars
  <2>2. CASE TunnelUp(t)
    <3>1. Running(t)' /\ \A u \in Tunnels : Running(u) => Running(u)'
      BY <2>2 DEF TunnelUp, Advance, Running, Typed, TypeOK
    <3>2. QED
      BY <2>2, <3>1, AnnouncedPost DEF TunnelUp, stateVars, eventVars, EventKinds
  <2>3. CASE TunnelStops(t) \/ TunnelDies(t)
    <3>1. \A u \in Tunnels : Running(u) => Running(u)' \/ u = t
      BY <2>3 DEF TunnelStops, TunnelDies, Advance, Running, Typed, TypeOK
    <3>2. QED
      BY <2>3, <3>1, AnnouncedPost DEF TunnelStops, TunnelDies, stateVars, eventVars, EventKinds
  <2>4. CASE TunnelChecks(t)
    BY <2>4, AnnouncedPost DEF TunnelChecks, stateVars, eventVars, EventKinds, Running
  <2>5. QED
    BY <1>7, <2>1, <2>2, <2>3, <2>4 DEF TunnelStep
<1>8. QED
  BY <1>1, <1>2, <1>3, <1>4, <1>5, <1>6, <1>7 DEF Next, ActorStep, Reply, ExchangeEnds

\* A Connected status always shows a tunnel that is up or broken, or whose Disconnected event
\* has still to be applied, however requests, actors and tunnels interleave.
THEOREM ConnectedIsNeverLeftOver == Spec => []ConnectedHasTunnel
  BY TypedInit, TypedNext, SpawningInit, SpawningNext, AnnouncedInit, AnnouncedNext, PTL
     DEF Spec, Announced

-----------------------------------------------------------------------------
(* Connecting: somebody is at work on the connection *)

SettingUp(t) == tunnel[t] \in {"starting", "configured", "aborted", "abandoned"}

HasOwner ==
    \/ \E c \in Clients : pc[c] \in ConnectStages
    \/ \E t \in Tunnels : SettingUp(t) \/ Pending("Connected", t)

LEMMA ConnectingMeansOwner == ConnectingHasOwner <=> (status.kind = "Connecting" => HasOwner)
  BY DEF ConnectingHasOwner, HasOwner, SettingUp

\* A step of client c keeps an owner, unless c itself stops being one.
LEMMA OwnerGoto ==
    ASSUME NEW c \in Clients, HasOwner, UNCHANGED <<events, evItem>>,
           evStage = "idle" <=> evStage' = "idle",
           \A t \in Tunnels : SettingUp(t) => SettingUp(t)',
           \A d \in Clients \ {c} : pc'[d] = pc[d],
           pc[c] \in ConnectStages => pc'[c] \in ConnectStages
    PROVE  HasOwner'
  BY DEF HasOwner, Pending

\* A Connected event is pending after Post if it was before, or if it is the one posted.
LEMMA PendingPost ==
    ASSUME Typed, Typed', NEW kind \in EventKinds, NEW t \in Tunnels, Post(kind, t),
           UNCHANGED <<evStage, evItem>>
    PROVE  /\ Pending(kind, t)'
           /\ \A u \in Tunnels : Pending("Connected", u) => Pending("Connected", u)'
<1>1. \A i \in 1..Len(events') : i \in DOMAIN events'
  BY DEF Typed, TypeOK
<1>2. Pending(kind, t)'
  <2>1. /\ Len(events) + 1 \in 1..Len(events')
        /\ events'[Len(events) + 1] = Notice(kind, t)
    BY Posted
  <2>2. QED
    BY <1>1, <2>1 DEF Pending, Notice
<1>3. ASSUME NEW u \in Tunnels, Behind(0, "Connected", u)
      PROVE  Pending("Connected", u)'
  <2>1. PICK j \in 1..Len(events) : events[j] = Notice("Connected", u)
    BY <1>3 DEF Behind
  <2>2. j \in 1..Len(events') /\ events'[j] = Notice("Connected", u)
    BY <2>1, Posted
  <2>3. QED
    BY <1>1, <2>2 DEF Pending, Notice
<1>4. QED
  BY <1>2, <1>3, PendingNotice DEF Pending, Notice

\* ... and after TakeEvent if it was before.
LEMMA PendingTake ==
    ASSUME Typed, Typed', TakeEvent, NEW u \in Tunnels, Pending("Connected", u)
    PROVE  Pending("Connected", u)'
<1>1. evStage = "idle" /\ evStage' # "idle"
  BY DEF TakeEvent
<1>2. PICK j \in 1..Len(events) : events[j] = Notice("Connected", u)
  BY <1>1, PendingNotice DEF Behind
<1>3. CASE j = 1
  BY <1>1, <1>2, <1>3, Taken DEF Pending, Notice
<1>4. CASE j # 1
  <2>1. j - 1 \in 1..Len(events') /\ events'[j - 1] = Notice("Connected", u)
    <3>1. j - 1 \in 1..Len(events') /\ (j - 1) + 1 = j
      BY <1>4, Taken
    <3>2. events'[j - 1] = events[j]
      BY <3>1, Taken
    <3>3. QED
      BY <1>2, <3>1, <3>2
  <2>2. j - 1 \in DOMAIN events'
    BY <2>1 DEF Typed, TypeOK
  <2>3. QED
    BY <2>1, <2>2 DEF Pending, Notice
<1>5. QED
  BY <1>3, <1>4

LEMMA OwnerInit == Init => ConnectingHasOwner
  BY DEF Init, ConnectingHasOwner, Status

LEMMA OwnerNext ==
    Typed /\ Typed' /\ Spawning /\ ConnectingHasOwner /\ [Next]_vars => ConnectingHasOwner'
<1> SUFFICES ASSUME Typed, Typed', Spawning, status.kind = "Connecting" => HasOwner, [Next]_vars,
                    status'.kind = "Connecting"
             PROVE  HasOwner'
  BY ConnectingMeansOwner DEF ConnectingHasOwner, HasOwner, SettingUp
<1>1. CASE UNCHANGED vars
  BY <1>1 DEF vars, stateVars, eventVars, clientVars, HasOwner, Pending, SettingUp
<1>2. ASSUME NEW c \in Clients, Connect(c) \/ ChallengeCode(c) \/ Disconnect(c)
      PROVE  HasOwner'
  <2>1. /\ UNCHANGED <<status, events, evItem, evStage, tunnel>>
        /\ \A d \in Clients \ {c} : pc'[d] = pc[d]
        /\ pc[c] = "idle"
    BY <1>2 DEF Connect, ChallengeCode, Disconnect, Begin, Goto, stateVars, eventVars, Typed, TypeOK
  <2>2. QED
    BY <2>1, OwnerGoto DEF SettingUp, ConnectStages
<1>3. ASSUME NEW c \in Clients, HandlerStep(c) \/ FactoryAnswers(c)
      PROVE  HasOwner'
  <2>1. CASE ResetBeforeConnect(c) \/ RequestFailed(c) \/ Disconnected(c) \/ AskForCode(c)
    BY <2>1 DEF ResetBeforeConnect, RequestFailed, Disconnected, AskForCode, ResetState, Status
  <2>2. CASE SessionGranted(c) \/ \E k \in Connectors : NewConnector(c, k)
    <3>1. pc'[c] \in ConnectStages
      BY <2>2 DEF SessionGranted, NewConnector, Goto, ConnectStages, Typed, TypeOK
    <3>2. QED
      BY <3>1 DEF HasOwner
  <2>3. CASE SpawnTunnel(c)
    <3>1. PICK t \in Tunnels : t = got[c]
      BY <2>3 DEF SpawnTunnel, Spawning
    <3>2. SettingUp(t)'
      BY <2>3, <3>1 DEF SpawnTunnel, SettingUp, Typed, TypeOK
    <3>3. QED
      BY <3>2 DEF HasOwner
  <2>4. CASE NoConnector(c) \/ StoreCancel(c) \/ FindConnector(c) \/ SendRequest(c)
    <3>1. /\ UNCHANGED <<status, events, evItem, evStage, tunnel>>
          /\ \A d \in Clients \ {c} : pc'[d] = pc[d]
      BY <2>4 DEF NoConnector, StoreCancel, FindConnector, SendRequest, Goto, stateVars, eventVars,
                  Typed, TypeOK
    <3>2. pc[c] \in ConnectStages => pc'[c] \in ConnectStages
      <4>1. CASE NoConnector(c) \/ StoreCancel(c) \/ FindConnector(c)
        BY <4>1 DEF NoConnector, StoreCancel, FindConnector, Goto, ConnectStages, Typed, TypeOK
      <4>2. CASE SendRequest(c)
        BY <4>2 DEF SendRequest, Goto, Sent, SendStages, ConnectStages, Typed, TypeOK
      <4>3. QED
        BY <2>4, <4>1, <4>2
    <3>3. QED
      BY <3>1, <3>2, OwnerGoto DEF SettingUp
  <2>5. QED
    BY <1>3, <2>1, <2>2, <2>3, <2>4 DEF HandlerStep, FactoryAnswers
<1>4. ASSUME NEW k \in Connectors, NEW c \in Clients, Reply(k, c)
      PROVE  HasOwner'
  <2>1. /\ UNCHANGED <<status, events, evItem, evStage>>
        /\ \A d \in Clients \ {c} : pc'[d] = pc[d]
    BY <1>4 DEF Reply, ExchangeEnds, GatewayAnswers, Restored, Cancelled, Created, NotCreated,
                SessionDeleted, Terminated, Goto, stateVars, eventVars, Typed, TypeOK
  <2>2. \A t \in Tunnels : SettingUp(t) => SettingUp(t)'
    <3>1. ASSUME NEW u \in Tunnels, Created(k, c, u)
          PROVE  \A t \in Tunnels : SettingUp(t) => SettingUp(t)'
      BY <3>1 DEF Created, SettingUp, Typed, TypeOK
    <3>2. CASE tunnel' = tunnel
      BY <3>2 DEF SettingUp
    <3>3. QED
      BY <1>4, <3>1, <3>2 DEF Reply, ExchangeEnds, GatewayAnswers, Restored, Cancelled, NotCreated,
                              SessionDeleted, Terminated
  <2>3. pc[c] \in ConnectStages => pc'[c] \in ConnectStages
    BY <1>4 DEF Reply, ExchangeEnds, GatewayAnswers, Restored, Cancelled, Created, NotCreated,
                SessionDeleted, Terminated, Serve, Goto, ConnectStages, Typed, TypeOK
  <2>4. QED
    BY <2>1, <2>2, <2>3, OwnerGoto
<1>5. ASSUME NEW k \in Connectors, EventHandled(k) \/ ActorStops(k)
      PROVE  HasOwner'
  BY <1>5 DEF EventHandled, ActorStops, stateVars, eventVars, clientVars, HasOwner, Pending,
              SettingUp
<1>6. CASE EventStep
  <2>1. CASE TakeEvent
    BY <2>1, PendingTake DEF TakeEvent, stateVars, clientVars, HasOwner, SettingUp
  <2>2. CASE AskConnector
    BY <2>2 DEF AskConnector, stateVars, clientVars, HasOwner, Pending, SettingUp
  <2>3. CASE EventFailed \/ ApplyDisconnected \/ ApplyConnected
    BY <2>3 DEF EventFailed, ApplyDisconnected, ApplyConnected, ResetState, Status
  <2>4. CASE ApplyCheck
    <3>1. \A t : Pending("Connected", t) => Pending("Connected", t)'
      BY <2>4 DEF ApplyCheck, EventDone, Pending
    <3>2. QED
      BY <2>4, <3>1 DEF ApplyCheck, stateVars, clientVars, HasOwner, SettingUp
  <2>5. QED
    BY <1>6, <2>1, <2>2, <2>3, <2>4 DEF EventStep
<1>7. ASSUME NEW t \in Tunnels,
             TunnelStep(t) \/ TunnelSetUp(t) \/ SetUpFails(t) \/ TunnelDies(t)
             \/ TunnelBreaks(t) \/ TunnelChecks(t)
      PROVE  HasOwner'
  <2>1. UNCHANGED <<status, pc, evItem, evStage>>
    BY <1>7 DEF TunnelStep, TunnelSetUp, TunnelUp, TunnelStops, SetUpFails, TunnelDies,
                TunnelBreaks, TunnelChecks, stateVars, eventVars, clientVars
  <2>2. CASE TunnelUp(t)
    <3>1. Pending("Connected", t)'
      BY <2>1, <2>2, PendingPost DEF TunnelUp, EventKinds
    <3>2. QED
      BY <3>1 DEF HasOwner
  <2>3. CASE ~TunnelUp(t)
    <3>1. \A u \in Tunnels : SettingUp(u) => SettingUp(u)'
      BY <1>7, <2>3 DEF TunnelStep, TunnelSetUp, TunnelStops, SetUpFails, TunnelDies, TunnelBreaks,
                        TunnelChecks, Advance, SettingUp, Typed, TypeOK
    <3>2. \A u \in Tunnels : Pending("Connected", u) => Pending("Connected", u)'
      <4>1. events' = events \/ \E kind \in EventKinds : Post(kind, t)
        BY <1>7, <2>3 DEF TunnelStep, TunnelSetUp, TunnelStops, SetUpFails, TunnelDies,
                          TunnelBreaks, TunnelChecks, EventKinds
      <4>2. CASE events' = events
        BY <2>1, <4>2 DEF Pending
      <4>3. QED
        BY <2>1, <4>1, <4>2, PendingPost
    <3>3. QED
      BY <2>1, <3>1, <3>2 DEF HasOwner
  <2>4. QED
    BY <2>2, <2>3
<1>8. QED
  BY <1>1, <1>2, <1>3, <1>4, <1>5, <1>6, <1>7 DEF Next, ActorStep, Reply, ExchangeEnds

\* While the status is Connecting, a handler is at work on a connection, a tunnel is being set
\* up (or gave up without an event) or its Connected event is on its way.
THEOREM ConnectingIsOwned == Spec => []ConnectingHasOwner
  BY TypedInit, TypedNext, SpawningInit, SpawningNext, OwnerInit, OwnerNext, PTL DEF Spec

-----------------------------------------------------------------------------
(* Replies: a live actor behind every handle, one request for everyone who waits *)

LEMMA LiveInit == Init => HandlesAreLive
  BY DEF Init, HandlesAreLive

\* No actor stops that somebody holds a handle to, and every handle is a copy of the stored one
\* or of one whose actor has just been spawned.
LEMMA LiveNext == Typed /\ HandlesAreLive /\ [Next]_vars => HandlesAreLive'
<1> SUFFICES ASSUME Typed, HandlesAreLive, [Next]_vars PROVE HandlesAreLive'
  OBVIOUS
<1> USE ServerAssumption DEF HandlesAreLive, Typed, TypeOK
<1>1. CASE UNCHANGED vars
  BY <1>1 DEF vars, stateVars, actorVars, eventVars, clientVars
<1>2. ASSUME NEW c \in Clients, Connect(c) \/ ChallengeCode(c) \/ Disconnect(c)
      PROVE  HandlesAreLive'
  BY <1>2 DEF Connect, ChallengeCode, Disconnect, stateVars, actorVars, eventVars
<1>3. ASSUME NEW c \in Clients, HandlerStep(c) \/ FactoryAnswers(c)
      PROVE  HandlesAreLive'
  <2>1. CASE ResetBeforeConnect(c)
    BY <2>1 DEF ResetBeforeConnect, ResetState, actorVars, eventVars
  <2>2. ASSUME NEW k \in Connectors, NewConnector(c, k) PROVE HandlesAreLive'
    BY <2>2 DEF NewConnector, eventVars
  <2>3. CASE AskForCode(c) \/ SpawnTunnel(c) \/ RequestFailed(c) \/ Disconnected(c)
    <3>1. /\ handle' = [handle EXCEPT ![c] = Nobody] /\ UNCHANGED <<actor, evHandle>>
          /\ connector' \in {connector, Nobody}
      BY <2>3 DEF AskForCode, SpawnTunnel, RequestFailed, Disconnected, Return, ResetState,
                  actorVars,
                  eventVars, stateVars
    <3>2. QED
      BY <3>1
  <2>4. CASE FindConnector(c)
    BY <2>4 DEF FindConnector, stateVars, actorVars, eventVars
  <2>5. CASE NoConnector(c) \/ SessionGranted(c) \/ StoreCancel(c) \/ SendRequest(c)
    BY <2>5 DEF NoConnector, SessionGranted, StoreCancel, SendRequest, stateVars, actorVars,
                eventVars
  <2>6. QED
    BY <1>3, <2>1, <2>2, <2>3, <2>4, <2>5 DEF HandlerStep, FactoryAnswers
<1>4. ASSUME NEW k \in Connectors, NEW c \in Clients, Reply(k, c)
      PROVE  HandlesAreLive'
  <2>1. UNCHANGED <<connector, actor, evHandle, handle>>
    BY <1>4 DEF Reply, ExchangeEnds, GatewayAnswers, Restored, Cancelled, Created, NotCreated,
                SessionDeleted, Terminated, stateVars, eventVars
  <2>2. QED
    BY <2>1
<1>5. ASSUME NEW k \in Connectors, EventHandled(k) \/ ActorStops(k)
      PROVE  HandlesAreLive'
  BY <1>5 DEF EventHandled, ActorStops, stateVars, eventVars, clientVars
<1>6. CASE EventStep
  BY <1>6 DEF EventStep, TakeEvent, AskConnector, EventFailed, ApplyDisconnected, ApplyConnected,
              ApplyCheck, EventDone, ResetState, stateVars, actorVars, clientVars
<1>7. ASSUME NEW t \in Tunnels,
             TunnelStep(t) \/ TunnelSetUp(t) \/ SetUpFails(t) \/ TunnelDies(t)
             \/ TunnelBreaks(t) \/ TunnelChecks(t)
      PROVE  HandlesAreLive'
  BY <1>7 DEF TunnelStep, TunnelSetUp, TunnelUp, TunnelStops, SetUpFails, TunnelDies, TunnelBreaks,
              TunnelChecks, stateVars, actorVars, eventVars, clientVars
<1>8. QED
  BY <1>1, <1>2, <1>3, <1>4, <1>5, <1>6, <1>7 DEF Next, ActorStep, Reply, ExchangeEnds

\* Party p, a client or (Nobody) the event task, waits for the actor of k.
Waits(p, k) ==
    \/ p \in Clients /\ pc[p] \in WaitStages /\ handle[p] = k
    \/ p = Nobody /\ evStage = "asked" /\ evHandle = k

\* What it has asked for.
Operation(p) == IF p = Nobody THEN "HandleEvent" ELSE WaitFor[pc[p]]

Parties == Clients \cup {Nobody}

\* Party p has one request on the queue of k if it waits for its actor, and none otherwise.
MatchedAt(k, p) ==
    /\ \A i \in 1..Len(queue[k]) :
           queue[k][i].from = p => Waits(p, k) /\ queue[k][i].op = Operation(p)
    /\ \A i, j \in 1..Len(queue[k]) : queue[k][i].from = p /\ queue[k][j].from = p => i = j
    /\ Waits(p, k) => \E i \in 1..Len(queue[k]) : queue[k][i].from = p

Matched == \A k \in Connectors, p \in Parties : MatchedAt(k, p)

\* What is waited for does not change for the parties other than p.
OthersWait(p) ==
    \A q \in Parties \ {p} :
        /\ \A k \in Connectors : Waits(q, k)' <=> Waits(q, k)
        /\ \A k \in Connectors : Waits(q, k) => Operation(q)' = Operation(q)

\* Nobody waits at the start.
LEMMA MatchedInit == Init => Matched
  BY DEF Init, Matched, MatchedAt, Waits, WaitStages

\* A party whose waiting and whose requests do not change stays matched.
LEMMA MatchedFrame ==
    ASSUME NEW k \in Connectors, NEW p \in Parties, MatchedAt(k, p), queue'[k] = queue[k],
           Waits(p, k)' <=> Waits(p, k), Waits(p, k) => Operation(p)' = Operation(p)
    PROVE  MatchedAt(k, p)'
  BY DEF MatchedAt

\* A party that does not wait, and does not come to, changes nothing.
LEMMA MatchedIdle ==
    ASSUME Matched, UNCHANGED queue, NEW p \in Parties, OthersWait(p),
           \A k \in Connectors : ~Waits(p, k) /\ ~Waits(p, k)'
    PROVE  Matched'
<1> SUFFICES ASSUME NEW k \in Connectors, NEW q \in Parties PROVE MatchedAt(k, q)'
  BY DEF Matched
<1>1. CASE q = p
  BY <1>1, MatchedFrame DEF Matched
<1>2. CASE q # p
  BY <1>2, MatchedFrame DEF Matched, OthersWait
<1>3. QED
  BY <1>1, <1>2

\* A party that sends a request begins to wait for that one actor.
LEMMA MatchedSend ==
    ASSUME Typed, Matched, NEW p \in Parties, OthersWait(p),
           NEW k \in Connectors, NEW r \in Request, r.from = p, r.op = Operation(p)',
           queue' = [queue EXCEPT ![k] = Append(@, r)],
           \A l \in Connectors : ~Waits(p, l) /\ (Waits(p, l)' <=> l = k)
    PROVE  Matched'
<1> SUFFICES ASSUME NEW l \in Connectors, NEW q \in Parties PROVE MatchedAt(l, q)'
  BY DEF Matched
<1>1. MatchedAt(l, q)
  BY DEF Matched
<1>2. q # p => (Waits(q, l)' <=> Waits(q, l)) /\ (Waits(q, l) => Operation(q)' = Operation(q))
  BY DEF OthersWait
<1>3. CASE l # k
  <2>1. queue'[l] = queue[l]
    BY <1>3 DEF Typed, TypeOK
  <2>2. (Waits(q, l)' <=> Waits(q, l)) /\ (Waits(q, l) => Operation(q)' = Operation(q))
    BY <1>2, <1>3
  <2>3. QED
    BY <1>1, <2>1, <2>2, MatchedFrame
<1>4. CASE l = k
  <2>1. /\ Len(queue'[l]) = Len(queue[l]) + 1 /\ Len(queue[l]) \in Nat
        /\ \A i \in 1..Len(queue[l]) : queue'[l][i] = queue[l][i]
        /\ queue'[l][Len(queue[l]) + 1] = r
    BY <1>4 DEF Typed, TypeOK
  <2>2. \A i \in 1..Len(queue'[l]) : i \in 1..Len(queue[l]) \/ i = Len(queue[l]) + 1
    BY <2>1
  <2>3. \A i \in 1..Len(queue[l]) : i \in 1..Len(queue'[l])
    BY <2>1
  <2>4. Len(queue[l]) + 1 \in 1..Len(queue'[l])
    BY <2>1
  <2>5. CASE q = p
    <3>1. \A i \in 1..Len(queue[l]) : queue[l][i].from # p
      BY <1>1, <2>5 DEF MatchedAt
    <3>2. \A i \in 1..Len(queue'[l]) : queue'[l][i].from = p => i = Len(queue[l]) + 1
      BY <2>1, <2>2, <3>1
    <3>3. Waits(q, l)'
      BY <1>4, <2>5
    <3>4. QED
      BY <2>1, <2>4, <2>5, <3>2, <3>3 DEF MatchedAt
  <2>6. CASE q # p
    <3>1. \A i \in 1..Len(queue'[l]) :
              queue'[l][i].from = q => i \in 1..Len(queue[l]) /\ queue[l][i] = queue'[l][i]
      BY <2>1, <2>2, <2>6
    <3>2. Waits(q, l) => \E i \in 1..Len(queue'[l]) : queue'[l][i].from = q
      BY <1>1, <2>1, <2>3 DEF MatchedAt
    <3>3. QED
      BY <1>1, <1>2, <2>6, <3>1, <3>2 DEF MatchedAt
  <2>7. QED
    BY <2>5, <2>6
<1>5. QED
  BY <1>3, <1>4

\* The party whose request is at the head has its reply and no longer waits.
LEMMA MatchedServe ==
    ASSUME Typed, Matched, NEW p \in Parties, OthersWait(p),
           NEW k \in Connectors, queue[k] # <<>>, Head(queue[k]).from = p,
           queue' = [queue EXCEPT ![k] = Tail(@)],
           \A l \in Connectors : ~Waits(p, l)'
    PROVE  Matched'
<1> SUFFICES ASSUME NEW l \in Connectors, NEW q \in Parties PROVE MatchedAt(l, q)'
  BY DEF Matched
<1>1. MatchedAt(l, q)
  BY DEF Matched
<1>2. q # p => (Waits(q, l)' <=> Waits(q, l)) /\ (Waits(q, l) => Operation(q)' = Operation(q))
  BY DEF OthersWait
<1>3. 1 \in 1..Len(queue[k]) /\ queue[k][1].from = p
  BY DEF Typed, TypeOK
<1>4. Waits(p, k)
  BY <1>3 DEF Matched, MatchedAt
<1>5. CASE l # k
  <2>1. queue'[l] = queue[l]
    BY <1>5 DEF Typed, TypeOK
  <2>2. ~Waits(p, l)
    BY <1>4, <1>5, ServerAssumption DEF Waits, Parties
  <2>3. (Waits(q, l)' <=> Waits(q, l)) /\ (Waits(q, l) => Operation(q)' = Operation(q))
    BY <1>2, <2>2
  <2>4. QED
    BY <1>1, <2>1, <2>3, MatchedFrame
<1>6. CASE l = k
  <2>1. /\ Len(queue[l]) = Len(queue'[l]) + 1 /\ Len(queue'[l]) \in Nat
        /\ \A i \in 1..Len(queue'[l]) : queue'[l][i] = queue[l][i + 1]
    BY <1>6 DEF Typed, TypeOK
  <2>2. \A i \in 1..Len(queue'[l]) : i + 1 \in 1..Len(queue[l]) /\ i + 1 # 1
    BY <2>1
  <2>3. \A i \in 1..Len(queue[l]) :
            i # 1 => i - 1 \in 1..Len(queue'[l]) /\ queue'[l][i - 1] = queue[l][i]
    BY <2>1
  <2>4. \A i, j \in 1..Len(queue'[l]) : i + 1 = j + 1 => i = j
    BY <2>1
  <2>5. \A i, j \in 1..Len(queue'[l]) : queue'[l][i].from = q /\ queue'[l][j].from = q => i = j
    <3>1. ASSUME NEW i \in 1..Len(queue'[l]), NEW j \in 1..Len(queue'[l]),
                 queue'[l][i].from = q, queue'[l][j].from = q
          PROVE  i = j
      <4>1. queue[l][i + 1].from = q /\ queue[l][j + 1].from = q
        BY <2>1, <3>1
      <4>2. i + 1 = j + 1
        BY <1>1, <2>2, <4>1 DEF MatchedAt
      <4>3. QED
        BY <2>4, <4>2
    <3>2. QED
      BY <3>1
  <2>6. CASE q = p
    <3>1. \A i \in 1..Len(queue'[l]) : queue'[l][i].from # q
      <4>1. \A i \in 1..Len(queue[l]) : queue[l][i].from = q => i = 1
        BY <1>1, <1>3, <1>6, <2>6 DEF MatchedAt
      <4>2. QED
        BY <2>1, <2>2, <4>1
    <3>2. ~Waits(q, l)'
      BY <2>6
    <3>3. QED
      BY <3>1, <3>2 DEF MatchedAt
  <2>7. CASE q # p
    <3>1. \A i \in 1..Len(queue'[l]) :
              queue'[l][i].from = q => Waits(q, l) /\ queue'[l][i].op = Operation(q)
      BY <1>1, <2>1, <2>2 DEF MatchedAt
    <3>2. Waits(q, l) => \E i \in 1..Len(queue'[l]) : queue'[l][i].from = q
      <4>1. \A i \in 1..Len(queue[l]) : queue[l][i].from = q => i # 1
        BY <1>3, <1>6, <2>7
      <4>2. QED
        BY <1>1, <2>3, <4>1 DEF MatchedAt
    <3>3. QED
      BY <1>2, <2>5, <2>7, <3>1, <3>2 DEF MatchedAt
  <2>8. QED
    BY <2>6, <2>7
<1>7. QED
  BY <1>5, <1>6

\* Steps of client c that touch no other handler and no event leave the other parties as they wait.
LEMMA ClientAlone ==
    ASSUME NEW c \in Clients, UNCHANGED <<evStage, evHandle>>,
           \A d \in Clients \ {c} : pc'[d] = pc[d] /\ handle'[d] = handle[d]
    PROVE  OthersWait(c)
  BY ServerAssumption DEF OthersWait, Waits, Operation, Parties

\* So do those of the event task.
LEMMA EventsAlone == UNCHANGED <<pc, handle>> => OthersWait(Nobody)
  BY DEF OthersWait, Waits, Operation, Parties

LEMMA MatchedNext == Typed /\ Held /\ Matched /\ [Next]_vars => Matched'
<1> SUFFICES ASSUME Typed, Held, Matched, [Next]_vars PROVE Matched'
  OBVIOUS
<1>1. CASE UNCHANGED <<queue, pc, handle, evStage, evHandle>>
  BY <1>1 DEF Matched, MatchedAt, Waits, Operation
<1>2. ASSUME NEW c \in Clients, UNCHANGED <<queue, evStage, evHandle>>,
             \A d \in Clients \ {c} : pc'[d] = pc[d] /\ handle'[d] = handle[d],
             pc[c] \notin WaitStages, pc'[c] \notin WaitStages
      PROVE  Matched'
  <2>1. \A k \in Connectors : ~Waits(c, k) /\ ~Waits(c, k)'
    BY <1>2, ServerAssumption DEF Waits
  <2>2. QED
    BY <1>2, <2>1, ClientAlone, MatchedIdle DEF Parties
<1>3. ASSUME NEW c \in Clients, Connect(c) \/ ChallengeCode(c) \/ Disconnect(c)
      PROVE  Matched'
  <2>1. /\ UNCHANGED <<queue, evStage, evHandle>>
        /\ \A d \in Clients \ {c} : pc'[d] = pc[d] /\ handle'[d] = handle[d]
        /\ pc[c] \notin WaitStages /\ pc'[c] \notin WaitStages
    BY <1>3 DEF Connect, ChallengeCode, Disconnect, Begin, Goto, WaitStages, actorVars, eventVars,
                Typed, TypeOK
  <2>2. QED
    BY <1>2, <2>1
<1>4. ASSUME NEW c \in Clients, HandlerStep(c) \/ FactoryAnswers(c)
      PROVE  Matched'
  <2>1. CASE SendRequest(c)
    <3> DEFINE k == handle[c]
               r == [op |-> Op[pc[c]], from |-> c]
    <3>1. k \in Connectors /\ pc[c] \in SendStages
      BY <2>1 DEF SendRequest, Held, HeldStages
    <3>2. /\ r \in Request /\ r.from = c
          /\ pc'[c] = Sent[pc[c]] /\ pc'[c] \in WaitStages /\ WaitFor[pc'[c]] = Op[pc[c]]
      BY <2>1, <3>1, OpType DEF SendRequest, Goto, Typed, TypeOK
    <3>3. r.op = Operation(c)'
      BY <3>2, ServerAssumption DEF Operation
    <3>4. /\ queue' = [queue EXCEPT ![k] = Append(@, r)]
          /\ UNCHANGED <<evStage, evHandle, handle>>
          /\ \A d \in Clients \ {c} : pc'[d] = pc[d]
      BY <2>1 DEF SendRequest, Goto, eventVars, Typed, TypeOK
    <3>5. \A l \in Connectors : ~Waits(c, l) /\ (Waits(c, l)' <=> l = k)
      BY <3>1, <3>2, <3>4, ServerAssumption DEF Waits, SendStages, WaitStages
    <3>6. OthersWait(c)
      BY <3>4, ClientAlone
    <3> HIDE DEF k, r
    <3>7. QED
      BY <3>1, <3>2, <3>3, <3>4, <3>5, <3>6, MatchedSend DEF Parties
  <2>2. CASE ~SendRequest(c)
    <3>1. /\ UNCHANGED <<queue, evStage, evHandle>>
          /\ \A d \in Clients \ {c} : pc'[d] = pc[d] /\ handle'[d] = handle[d]
          /\ pc[c] \notin WaitStages /\ pc'[c] \notin WaitStages
      BY <1>4, <2>2
         DEF HandlerStep, FactoryAnswers, ResetBeforeConnect, NewConnector, NoConnector, AskForCode,
             SessionGranted,
             SpawnTunnel, RequestFailed, StoreCancel, FindConnector, Disconnected, Return, Goto,
             WaitStages, actorVars, eventVars, Typed, TypeOK
    <3>2. QED
      BY <1>2, <3>1
  <2>3. QED
    BY <2>1, <2>2
<1>5. ASSUME NEW k \in Connectors, NEW c \in Clients, Reply(k, c)
      PROVE  Matched'
  <2>1. /\ queue[k] # <<>> /\ Head(queue[k]).from = c
        /\ queue' = [queue EXCEPT ![k] = Tail(@)]
    BY <1>5 DEF Reply, ExchangeEnds, GatewayAnswers, Restored, Cancelled, Created, NotCreated,
                SessionDeleted, Terminated, Serve
  <2>2. /\ UNCHANGED <<evStage, evHandle, handle>>
        /\ \A d \in Clients \ {c} : pc'[d] = pc[d]
        /\ pc'[c] \notin WaitStages
    BY <1>5 DEF Reply, ExchangeEnds, GatewayAnswers, Restored, Cancelled, Created, NotCreated,
                SessionDeleted, Terminated, Goto, WaitStages, eventVars, Typed, TypeOK
  <2>3. \A l \in Connectors : ~Waits(c, l)'
    BY <2>2, ServerAssumption DEF Waits
  <2>4. QED
    BY <2>1, <2>2, <2>3, ClientAlone, MatchedServe DEF Parties
<1>6. ASSUME NEW k \in Connectors, EventHandled(k) \/ ActorStops(k)
      PROVE  Matched'
  <2>1. CASE EventHandled(k)
    <3>1. /\ queue[k] # <<>> /\ Head(queue[k]).from = Nobody
          /\ queue' = [queue EXCEPT ![k] = Tail(@)]
          /\ UNCHANGED <<pc, handle>> /\ evHandle' = Nobody
      BY <2>1 DEF EventHandled, clientVars
    <3>2. \A l \in Connectors : ~Waits(Nobody, l)'
      BY <3>1, ServerAssumption DEF Waits
    <3>3. QED
      BY <3>1, <3>2, EventsAlone, MatchedServe DEF Parties
  <2>2. CASE ActorStops(k)
    BY <1>1, <2>2 DEF ActorStops, eventVars, clientVars
  <2>3. QED
    BY <1>6, <2>1, <2>2
<1>7. CASE EventStep
  <2>1. CASE AskConnector
    <3> DEFINE r == [op |-> "HandleEvent", from |-> Nobody]
    <3>1. r \in Request /\ r.from = Nobody /\ r.op = Operation(Nobody)'
      BY EventRequest DEF Operation
    <3>2. /\ evHandle \in Connectors
          /\ queue' = [queue EXCEPT ![evHandle] = Append(@, r)]
          /\ UNCHANGED <<pc, handle, evHandle>> /\ evStage = "found" /\ evStage' = "asked"
      BY <2>1 DEF AskConnector, Held, clientVars
    <3>3. \A l \in Connectors : ~Waits(Nobody, l) /\ (Waits(Nobody, l)' <=> l = evHandle)
      BY <3>2, ServerAssumption DEF Waits
    <3> HIDE DEF r
    <3>4. QED
      BY <3>1, <3>2, <3>3, EventsAlone, MatchedSend DEF Parties
  <2>2. CASE ~AskConnector
    <3>1. UNCHANGED <<queue, pc, handle>> /\ evStage # "asked" /\ evStage' # "asked"
      BY <1>7, <2>2 DEF EventStep, TakeEvent, EventFailed, ApplyConnected, ApplyDisconnected,
                        ApplyCheck, EventDone, actorVars, clientVars
    <3>2. \A k \in Connectors : ~Waits(Nobody, k) /\ ~Waits(Nobody, k)'
      BY <3>1, ServerAssumption DEF Waits
    <3>3. QED
      BY <3>1, <3>2, EventsAlone, MatchedIdle DEF Parties
  <2>3. QED
    BY <2>1, <2>2
<1>8. ASSUME NEW t \in Tunnels,
             TunnelStep(t) \/ TunnelSetUp(t) \/ SetUpFails(t) \/ TunnelDies(t)
             \/ TunnelBreaks(t) \/ TunnelChecks(t)
      PROVE  Matched'
  BY <1>1, <1>8
     DEF TunnelStep, TunnelSetUp, TunnelUp, TunnelStops, SetUpFails, TunnelDies, TunnelBreaks,
         TunnelChecks, actorVars, eventVars, clientVars
<1>9. QED
  BY <1>1, <1>3, <1>4, <1>5, <1>6, <1>7, <1>8
     DEF Next, ActorStep, Reply, ExchangeEnds, vars, actorVars, eventVars, clientVars

\* Every handle leads to a live actor, and whoever waits for a reply has exactly one request on
\* its queue, of the kind it waits for.
THEOREM EveryWaiterIsServed == Spec => []RepliesArrive
<1>1. Typed /\ Held /\ HandlesAreLive /\ Matched => RepliesArrive
  <2> SUFFICES ASSUME Typed, Held, HandlesAreLive, Matched PROVE RepliesArrive
    OBVIOUS
  <2>1. ASSUME NEW p \in Parties, NEW k \in Connectors, Waits(p, k)
        PROVE  \E i \in AskedBy(k, p) : queue[k][i].op = Operation(p) /\ AskedBy(k, p) = {i}
    <3>1. DOMAIN queue[k] = 1..Len(queue[k])
      BY DEF Typed, TypeOK
    <3>2. PICK i \in 1..Len(queue[k]) : queue[k][i].from = p
      BY <2>1 DEF Matched, MatchedAt
    <3>3. queue[k][i].op = Operation(p)
      BY <2>1, <3>2 DEF Matched, MatchedAt
    <3>4. \A j \in 1..Len(queue[k]) : queue[k][j].from = p => j = i
      BY <2>1, <3>2 DEF Matched, MatchedAt
    <3>5. AskedBy(k, p) = {i}
      BY <3>1, <3>2, <3>4 DEF AskedBy
    <3>6. QED
      BY <3>3, <3>5
  <2>2. ASSUME NEW c \in Clients, pc[c] \in WaitStages
        PROVE  /\ handle[c] \in Connectors
               /\ \E i \in AskedBy(handle[c], c) : /\ queue[handle[c]][i].op = WaitFor[pc[c]]
                                                   /\ AskedBy(handle[c], c) = {i}
    <3>1. handle[c] \in Connectors /\ Waits(c, handle[c])
      BY <2>2 DEF Held, HeldStages, Waits
    <3>2. Operation(c) = WaitFor[pc[c]]
      BY ServerAssumption DEF Operation
    <3>3. QED
      BY <2>1, <3>1, <3>2 DEF Parties
  <2>3. ASSUME evStage = "asked"
        PROVE  /\ evHandle \in Connectors
               /\ \E i \in AskedBy(evHandle, Nobody) : AskedBy(evHandle, Nobody) = {i}
    BY <2>1, <2>3 DEF Held, Waits, Parties
  <2>4. QED
    BY <2>2, <2>3 DEF RepliesArrive
<1>2. QED
  BY <1>1, TypedInit, TypedNext, ConsistentInit, ConsistentNext, HeldInit, HeldNext, LiveInit, LiveNext,
     MatchedInit, MatchedNext, PTL DEF Spec


-----------------------------------------------------------------------------
(* Disconnect lets go of the tunnel it found *)

\* A tunnel that has a commander was created, and an actor not yet spawned commands none.
Commanding ==
    \A k \in Connectors : /\ sender[k] # Nobody => tunnel[sender[k]] # "none"
                          /\ actor[k] = "none" => sender[k] = Nobody

Released(c) == connector = Nobody \/ sender[connector] # target[c]

\* The tunnel client c found is one that was created; from the time disconnect has taken the
\* connector, the one that is stored leads to that tunnel only if it is the one it took, and
\* when it has been asked to terminate not even then.
ReleasedBy(c) ==
    target[c] # Nobody =>
        /\ tunnel[target[c]] # "none"
        /\ pc[c] \in Releasing \ {"fired"} => connector = handle[c] \/ Released(c)
        /\ pc[c] \notin Releasing => Released(c)

Releases == Commanding /\ \A c \in Clients : ReleasedBy(c)

LEMMA ReleasesInit == Init => Releases
  BY DEF Init, Releases, Commanding, ReleasedBy

\* Tunnels are created once, and only for an actor that has been spawned.
LEMMA CommandingNext == Typed /\ Commanding /\ [Next]_vars => Commanding'
<1> SUFFICES ASSUME Typed, Commanding, [Next]_vars PROVE Commanding'
  OBVIOUS
<1> USE DEF Typed, TypeOK
<1>1. CASE UNCHANGED <<sender, tunnel, actor>>
  BY <1>1 DEF Commanding
<1>2. ASSUME NEW c \in Clients, Connect(c) \/ ChallengeCode(c) \/ Disconnect(c)
      PROVE  Commanding'
  BY <1>1, <1>2 DEF Connect, ChallengeCode, Disconnect, actorVars
<1>3. ASSUME NEW c \in Clients, HandlerStep(c) \/ FactoryAnswers(c)
      PROVE  Commanding'
  <2>1. CASE SpawnTunnel(c)
    BY <2>1 DEF SpawnTunnel, actorVars, Commanding
  <2>2. ASSUME NEW k \in Connectors, NewConnector(c, k) PROVE Commanding'
    BY <2>2 DEF NewConnector, Commanding
  <2>3. CASE \/ ResetBeforeConnect(c) \/ NoConnector(c) \/ AskForCode(c) \/ SessionGranted(c)
             \/ RequestFailed(c) \/ StoreCancel(c) \/ FindConnector(c) \/ Disconnected(c)
             \/ SendRequest(c)
    BY <1>1, <2>3 DEF ResetBeforeConnect, NoConnector, AskForCode, SessionGranted, RequestFailed,
                      StoreCancel, FindConnector, Disconnected, SendRequest, actorVars
  <2>4. QED
    BY <1>3, <2>1, <2>2, <2>3 DEF HandlerStep, FactoryAnswers
<1>4. ASSUME NEW k \in Connectors, NEW c \in Clients, Reply(k, c)
      PROVE  Commanding'
  <2>1. ASSUME NEW t \in Tunnels, Created(k, c, t) PROVE Commanding'
    BY <2>1, ServerAssumption DEF Created, Serve, Commanding
  <2>2. CASE NotCreated(k, c) \/ Terminated(k, c)
    BY <2>2 DEF NotCreated, Terminated, Commanding
  <2>3. CASE Restored(k, c) \/ GatewayAnswers(k, c) \/ Cancelled(k, c) \/ SessionDeleted(k, c)
    BY <1>1, <2>3 DEF Restored, GatewayAnswers, Cancelled, SessionDeleted
  <2>4. QED
    BY <1>4, <2>1, <2>2, <2>3 DEF Reply, ExchangeEnds
<1>5. ASSUME NEW k \in Connectors, EventHandled(k) \/ ActorStops(k)
      PROVE  Commanding'
  BY <1>1, <1>5 DEF EventHandled, ActorStops, Commanding
<1>6. CASE EventStep
  BY <1>1, <1>6 DEF EventStep, TakeEvent, AskConnector, EventFailed, ApplyDisconnected,
                    ApplyConnected, ApplyCheck, actorVars
<1>7. ASSUME NEW t \in Tunnels,
             TunnelStep(t) \/ TunnelSetUp(t) \/ SetUpFails(t) \/ TunnelDies(t) \/ TunnelBreaks(t)
             \/ TunnelChecks(t)
      PROVE  Commanding'
  BY <1>7 DEF TunnelStep, TunnelSetUp, TunnelUp, TunnelStops, SetUpFails, TunnelDies,
              TunnelBreaks, TunnelChecks, Advance, actorVars, Commanding
<1>8. QED
  BY <1>1, <1>2, <1>3, <1>4, <1>5, <1>6, <1>7
     DEF Next, ActorStep, Reply, ExchangeEnds, vars, actorVars

\* A tunnel is never uncreated.
LEMMA TunnelsStay ==
    ASSUME Typed, [Next]_vars, NEW t \in Tunnels, tunnel[t] # "none"
    PROVE  tunnel'[t] # "none"
<1> USE DEF Typed, TypeOK
<1>1. CASE UNCHANGED tunnel
  BY <1>1
<1>2. ASSUME NEW c \in Clients, Connect(c) \/ ChallengeCode(c) \/ Disconnect(c)
      PROVE  UNCHANGED tunnel
  BY <1>2 DEF Connect, ChallengeCode, Disconnect
<1>3. ASSUME NEW c \in Clients, HandlerStep(c) \/ FactoryAnswers(c)
      PROVE  tunnel'[t] # "none"
  BY <1>3 DEF HandlerStep, FactoryAnswers, ResetBeforeConnect, NewConnector, NoConnector,
              AskForCode,
              SessionGranted, SpawnTunnel, RequestFailed, StoreCancel, FindConnector, Disconnected,
              SendRequest
<1>4. ASSUME NEW k \in Connectors, NEW c \in Clients, Reply(k, c)
      PROVE  tunnel'[t] # "none"
  BY <1>4 DEF Reply, ExchangeEnds, Restored, GatewayAnswers, Cancelled, Created, NotCreated,
              SessionDeleted, Terminated
<1>5. ASSUME NEW k \in Connectors, EventHandled(k) \/ ActorStops(k)
      PROVE  UNCHANGED tunnel
  BY <1>5 DEF EventHandled, ActorStops
<1>6. CASE EventStep
  BY <1>1, <1>6 DEF EventStep, TakeEvent, AskConnector, EventFailed, ApplyDisconnected,
                    ApplyConnected, ApplyCheck
<1>7. ASSUME NEW u \in Tunnels,
             TunnelStep(u) \/ TunnelSetUp(u) \/ SetUpFails(u) \/ TunnelDies(u) \/ TunnelBreaks(u)
             \/ TunnelChecks(u)
      PROVE  tunnel'[t] # "none"
  BY <1>7 DEF TunnelStep, TunnelSetUp, TunnelUp, TunnelStops, SetUpFails, TunnelDies,
              TunnelBreaks, TunnelChecks, Advance
<1>8. QED
  BY <1>1, <1>2, <1>3, <1>4, <1>5, <1>6, <1>7 DEF Next, ActorStep, Reply, ExchangeEnds, vars

\* A step that gives no stored connector an old tunnel leaves what client c has released as it is.
LEMMA ReleasedFrame ==
    ASSUME Typed, Typed', [Next]_vars, NEW c \in Clients, Commanding, ReleasedBy(c),
           target'[c] = target[c],
           \A k \in Connectors :
               sender'[k] # sender[k] => sender'[k] = Nobody \/ tunnel[sender'[k]] = "none",
           \/ connector' = connector
           \/ connector' = Nobody
           \/ connector' \in Connectors /\ sender'[connector'] = Nobody,
           \/ pc[c] \notin Releasing /\ pc'[c] \notin Releasing
           \/ pc[c] \in Releasing /\ pc'[c] = "fired"
           \/ /\ pc[c] \in Releasing \ {"fired"} /\ pc'[c] \in Releasing
              /\ handle'[c] = handle[c]
    PROVE  ReleasedBy(c)'
<1> USE DEF Typed, TypeOK
<1> SUFFICES ASSUME target[c] # Nobody
             PROVE  /\ tunnel'[target[c]] # "none"
                    /\ pc'[c] \in Releasing \ {"fired"} => connector' = handle'[c] \/ Released(c)'
                    /\ pc'[c] \notin Releasing => Released(c)'
  BY DEF ReleasedBy
<1>1. target[c] \in Tunnels /\ tunnel[target[c]] # "none"
  BY DEF ReleasedBy
<1>2. tunnel'[target[c]] # "none"
  BY <1>1, TunnelsStay
<1>3. Released(c) => Released(c)'
  <2> SUFFICES ASSUME Released(c), connector' # Nobody PROVE sender'[connector'] # target[c]
    BY DEF Released
  <2>1. CASE connector' = connector
    BY <1>1, <2>1 DEF Released
  <2>2. CASE sender'[connector'] = Nobody
    BY <2>2
  <2>3. QED
    BY <2>1, <2>2
<1>4. connector = handle[c] => connector' = handle[c] \/ Released(c)'
  BY DEF Released
<1>5. QED
  BY <1>2, <1>3, <1>4 DEF ReleasedBy, Releasing

LEMMA ReleasesNext == Typed /\ Typed' /\ Matched /\ Releases /\ [Next]_vars => Releases'
<1> SUFFICES ASSUME Typed, Typed', Matched, Commanding, [Next]_vars,
                    NEW c \in Clients, ReleasedBy(c)
             PROVE  ReleasedBy(c)'
  BY CommandingNext DEF Releases
<1> USE DEF Typed, TypeOK
<1>1. ASSUME UNCHANGED <<connector, sender, target>>, pc'[c] = pc[c], handle'[c] = handle[c]
      PROVE  ReleasedBy(c)'
  BY <1>1, ReleasedFrame
<1>2. ASSUME NEW d \in Clients, Connect(d) \/ ChallengeCode(d) \/ Disconnect(d)
      PROVE  ReleasedBy(c)'
  <2>1. CASE d # c
    BY <1>2, <2>1, ReleasedFrame
       DEF Connect, ChallengeCode, Disconnect, Begin, Goto, stateVars, actorVars
  <2>2. CASE Connect(c) \/ ChallengeCode(c)
    <3>1. pc[c] \notin Releasing /\ pc'[c] \notin Releasing
      BY <2>2 DEF Connect, ChallengeCode, Begin, Goto, Releasing
    <3>2. UNCHANGED <<connector, sender, target>>
      BY <2>2 DEF Connect, ChallengeCode, stateVars, actorVars
    <3>3. QED
      BY <3>1, <3>2, ReleasedFrame
  <2>3. CASE Disconnect(c)
    BY <2>3 DEF Disconnect, Goto, ReleasedBy, Releasing, Commanding, actorVars
  <2>4. QED
    BY <1>2, <2>1, <2>2, <2>3
<1>3. ASSUME NEW d \in Clients, HandlerStep(d) \/ FactoryAnswers(d)
      PROVE  ReleasedBy(c)'
  <2>1. /\ target' = target /\ sender' = sender
        /\ d # c => pc'[c] = pc[c] /\ handle'[c] = handle[c]
    BY <1>3 DEF HandlerStep, FactoryAnswers, ResetBeforeConnect, NewConnector, NoConnector,
                AskForCode, SessionGranted, SpawnTunnel, RequestFailed, StoreCancel, FindConnector,
                Disconnected, SendRequest, Return, Goto, actorVars
  <2>2. CASE FindConnector(d)
    <3>1. CASE d # c
      BY <2>1, <2>2, <3>1, <1>1 DEF FindConnector, stateVars
    <3>2. CASE d = c
      BY <2>1, <2>2, <3>2 DEF FindConnector, Goto, stateVars, ReleasedBy, Released, Releasing
    <3>3. QED
      BY <3>1, <3>2
  <2>3. ASSUME ~FindConnector(d)
        PROVE  \/ connector' = connector
               \/ connector' = Nobody
               \/ connector' \in Connectors /\ sender'[connector'] = Nobody
    BY <1>3, <2>1, <2>3
       DEF HandlerStep, FactoryAnswers, ResetBeforeConnect, NewConnector, NoConnector, AskForCode,
           SessionGranted, SpawnTunnel, RequestFailed, StoreCancel, Disconnected, SendRequest,
           ResetState, Commanding, stateVars
  <2>4. ASSUME d = c, ~FindConnector(c)
        PROVE  \/ pc[c] \notin Releasing /\ pc'[c] \notin Releasing
               \/ /\ pc[c] \in Releasing \ {"fired"} /\ pc'[c] \in Releasing
                  /\ handle'[c] = handle[c]
    <3>1. CASE SendRequest(c)
      BY <3>1 DEF SendRequest, Goto, SendStages, Sent, Releasing
    <3>2. CASE ~SendRequest(c)
      BY <1>3, <2>4, <3>2
         DEF HandlerStep, FactoryAnswers, ResetBeforeConnect, NewConnector, NoConnector,
             AskForCode, SessionGranted, SpawnTunnel, RequestFailed, StoreCancel, Disconnected,
             Return, Goto, Releasing
    <3>3. QED
      BY <3>1, <3>2
  <2>5. QED
    BY <2>1, <2>2, <2>3, <2>4, ReleasedFrame
<1>4. ASSUME NEW k \in Connectors, NEW d \in Clients, Reply(k, d)
      PROVE  ReleasedBy(c)'
  <2>1. /\ UNCHANGED <<connector, handle, target>>
        /\ d # c => pc'[c] = pc[c]
        /\ \A l \in Connectors :
               sender'[l] # sender[l] => sender'[l] = Nobody \/ tunnel[sender'[l]] = "none"
    BY <1>4 DEF Reply, ExchangeEnds, Restored, GatewayAnswers, Cancelled, Created, NotCreated,
                SessionDeleted, Terminated, Goto, stateVars
  <2>2. CASE d = c /\ Terminated(k, c)
    <3>1. /\ queue[k] # <<>> /\ Head(queue[k]).from = c
          /\ sender' = [sender EXCEPT ![k] = Nobody]
          /\ pc' = [pc EXCEPT ![c] = "cleared"] /\ pc[c] = "terminating"
      BY <2>2 DEF Terminated, Serve, Goto
    <3>2. 1 \in 1..Len(queue[k]) /\ queue[k][1].from = c
      BY <3>1
    <3>3. handle[c] = k
      <4>1. MatchedAt(k, c)
        BY DEF Matched, Parties
      <4>2. Waits(c, k)
        BY <3>2, <4>1 DEF MatchedAt
      <4>3. QED
        BY <4>2, ServerAssumption DEF Waits
    <3>4. QED
      BY <2>1, <2>2, <3>1, <3>3 DEF Terminated, ReleasedBy, Released, Releasing
  <2>3. CASE d = c /\ ~Terminated(k, c)
    <3>1. \/ pc[c] \notin Releasing /\ pc'[c] \notin Releasing
          \/ pc[c] \in Releasing \ {"fired"} /\ pc'[c] \in Releasing
      BY <1>4, <2>3 DEF Reply, ExchangeEnds, Restored, GatewayAnswers, Cancelled, Created,
                        NotCreated, SessionDeleted, Serve, Goto, Releasing
    <3>2. QED
      BY <2>1, <3>1, ReleasedFrame
  <2>4. CASE d # c
    BY <2>1, <2>4, ReleasedFrame
  <2>5. QED
    BY <2>2, <2>3, <2>4
<1>5. ASSUME NEW k \in Connectors, EventHandled(k) \/ ActorStops(k)
      PROVE  ReleasedBy(c)'
  <2>1. /\ UNCHANGED <<connector, pc, handle, target>>
        /\ \A l \in Connectors : sender'[l] # sender[l] => sender'[l] = Nobody
    BY <1>5 DEF EventHandled, ActorStops, stateVars, clientVars
  <2>2. QED
    BY <2>1, ReleasedFrame
<1>6. CASE EventStep
  <2>1. /\ UNCHANGED <<sender, pc, handle, target>>
        /\ connector' = connector \/ connector' = Nobody
    BY <1>6 DEF EventStep, TakeEvent, AskConnector, EventFailed, ApplyDisconnected, ApplyConnected,
                ApplyCheck, ResetState, stateVars, actorVars, clientVars
  <2>2. QED
    BY <2>1, ReleasedFrame
<1>7. ASSUME NEW t \in Tunnels,
             TunnelStep(t) \/ TunnelSetUp(t) \/ SetUpFails(t) \/ TunnelDies(t) \/ TunnelBreaks(t)
             \/ TunnelChecks(t)
      PROVE  ReleasedBy(c)'
  BY <1>1, <1>7 DEF TunnelStep, TunnelSetUp, TunnelUp, TunnelStops, SetUpFails, TunnelDies,
                    TunnelBreaks, TunnelChecks, stateVars, actorVars, clientVars
<1>8. CASE UNCHANGED vars
  BY <1>1, <1>8 DEF vars, stateVars, actorVars, clientVars
<1>9. QED
  BY <1>2, <1>3, <1>4, <1>5, <1>6, <1>7, <1>8 DEF Next, ActorStep, Reply, ExchangeEnds

\* Whatever other clients do in between, from the moment a Disconnect has asked its connector to
\* terminate, no stored connector ever again leads to the tunnel that was there when it came.
THEOREM TunnelsAreReleased == Spec => []DisconnectReleasesTunnel
<1>1. Releases => DisconnectReleasesTunnel
  BY DEF Releases, ReleasedBy, Released, DisconnectReleasesTunnel
<1>2. QED
  BY <1>1, TypedInit, TypedNext, ConsistentInit, ConsistentNext, HeldInit, HeldNext, MatchedInit,
     MatchedNext, ReleasesInit, ReleasesNext, PTL DEF Spec


-----------------------------------------------------------------------------
(* The board: the status implements ConnectionBoard *)

\* An announcement or a withdrawal of t is on its way at most once ...
OnceAt(kind, t) ==
    /\ \A i, j \in 1..Len(events) :
           events[i] = Notice(kind, t) /\ events[j] = Notice(kind, t) => i = j
    /\ evStage # "idle" /\ evItem = Notice(kind, t) =>
           \A i \in 1..Len(events) : events[i] # Notice(kind, t)

\* ... and only if t has come so far.
Reached(t) ==
    /\ Pending("Connected", t) => tunnel[t] \in {"up", "broken", "closed"}
    /\ Pending("Disconnected", t) => tunnel[t] = "closed"

\* A connector refuses events of other kinds only.
Refused == evStage = "error" => evItem.kind = "Check"

Once ==
    /\ \A t \in Tunnels : Reached(t) /\ OnceAt("Connected", t) /\ OnceAt("Disconnected", t)
    /\ Refused

LEMMA OnceInit == Init => Once
  BY DEF Init, Once, Reached, OnceAt, Refused, Pending

\* What is pending after Post was pending before or is what was posted.
LEMMA PendingAfterPost ==
    ASSUME Typed, Typed', NEW kind \in EventKinds, NEW t \in Tunnels, Post(kind, t),
           UNCHANGED <<evStage, evItem>>, NEW other \in EventKinds, NEW u \in Tunnels
    PROVE  Pending(other, u)' <=> Pending(other, u) \/ (other = kind /\ u = t)
<1>1. /\ DOMAIN events = 1..Len(events) /\ DOMAIN events' = 1..Len(events')
      /\ Len(events') = Len(events) + 1 /\ Len(events) \in Nat
      /\ \A i \in 1..Len(events) : events'[i] = events[i]
      /\ events'[Len(events) + 1] = Notice(kind, t)
  BY Posted DEF Typed, TypeOK
<1>2. /\ \A i \in 1..Len(events') : i \in 1..Len(events) \/ i = Len(events) + 1
      /\ \A i \in 1..Len(events) : i \in 1..Len(events')
      /\ Len(events) + 1 \in 1..Len(events')
  BY <1>1
<1>3. Notice(kind, t) = Notice(other, u) <=> other = kind /\ u = t
  BY DEF Notice
<1>4. (\E i \in DOMAIN events' : events'[i] = Notice(other, u))
          <=> \/ \E i \in DOMAIN events : events[i] = Notice(other, u)
              \/ other = kind /\ u = t
  BY <1>1, <1>2, <1>3
<1>5. Pending(other, u) <=> \/ evStage # "idle" /\ evItem = Notice(other, u)
                            \/ \E i \in DOMAIN events : events[i] = Notice(other, u)
  BY DEF Pending, Notice
<1>6. Pending(other, u)' <=> \/ evStage' # "idle" /\ evItem' = Notice(other, u)
                             \/ \E i \in DOMAIN events' : events'[i] = Notice(other, u)
  BY DEF Pending, Notice
<1>7. QED
  BY <1>4, <1>5, <1>6

\* An event that is taken stays pending.
LEMMA PendingAfterTake ==
    ASSUME Typed, Typed', TakeEvent, NEW other \in EventKinds, NEW u \in Tunnels
    PROVE  Pending(other, u)' <=> Pending(other, u)
<1>1. /\ DOMAIN events = 1..Len(events) /\ DOMAIN events' = 1..Len(events')
      /\ Len(events) = Len(events') + 1 /\ Len(events') \in Nat
      /\ \A i \in 1..Len(events') : events'[i] = events[i + 1]
      /\ evItem' = events[1]
  BY Taken DEF Typed, TypeOK
<1>2. /\ \A i \in 1..Len(events') : i + 1 \in 1..Len(events)
      /\ \A i \in 1..Len(events) : i = 1 \/ (i - 1 \in 1..Len(events') /\ (i - 1) + 1 = i)
      /\ 1 \in 1..Len(events)
  BY <1>1
<1>3. \A i \in 1..Len(events) : i = 1 \/ (i - 1 \in 1..Len(events') /\ events'[i - 1] = events[i])
  BY <1>1, <1>2
<1>4. (\E i \in 1..Len(events) : events[i] = Notice(other, u))
          <=> \/ evItem' = Notice(other, u)
              \/ \E i \in 1..Len(events') : events'[i] = Notice(other, u)
  BY <1>1, <1>2, <1>3
<1>5. evStage = "idle" /\ evStage' # "idle"
  BY DEF TakeEvent
<1>6. Pending(other, u) <=> \E i \in 1..Len(events) : events[i] = Notice(other, u)
  BY <1>1, <1>5 DEF Pending, Notice
<1>7. Pending(other, u)' <=> \/ evItem' = Notice(other, u)
                             \/ \E i \in 1..Len(events') : events'[i] = Notice(other, u)
  BY <1>1, <1>5 DEF Pending, Notice
<1>8. QED
  BY <1>4, <1>6, <1>7

\* An event that is applied or dropped is no longer pending; the others are.
LEMMA PendingAfterDone ==
    ASSUME Typed, evStage # "idle", EventDone, UNCHANGED events,
           NEW other \in EventKinds, NEW u \in Tunnels,
           OnceAt(other, u) \/ evItem # Notice(other, u)
    PROVE  Pending(other, u)' <=> Pending(other, u) /\ evItem # Notice(other, u)
<1>1. DOMAIN events = 1..Len(events)
  BY DEF Typed, TypeOK
<1>2. evItem = Notice(other, u) => \A i \in DOMAIN events : events[i] # Notice(other, u)
  BY <1>1 DEF OnceAt
<1>3. Pending(other, u) <=> \/ evItem = Notice(other, u)
                            \/ \E i \in DOMAIN events : events[i] = Notice(other, u)
  BY DEF Pending, Notice
<1>4. Pending(other, u)' <=> \E i \in DOMAIN events : events[i] = Notice(other, u)
  BY DEF Pending, Notice, EventDone
<1>5. QED
  BY <1>2, <1>3, <1>4

\* Posting something else, or what is not pending, keeps Once.
LEMMA OncePost ==
    ASSUME Typed, Typed', NEW kind \in EventKinds, NEW t \in Tunnels, Post(kind, t),
           UNCHANGED <<evStage, evItem>>, NEW other \in EventKinds, NEW u \in Tunnels,
           OnceAt(other, u), other = kind /\ u = t => ~Pending(kind, t)
    PROVE  OnceAt(other, u)'
<1>1. /\ DOMAIN events = 1..Len(events) /\ Len(events) \in Nat
      /\ Len(events') = Len(events) + 1
      /\ \A i \in 1..Len(events) : events'[i] = events[i]
      /\ events'[Len(events) + 1] = Notice(kind, t)
  BY Posted DEF Typed, TypeOK
<1>2. \A i \in 1..Len(events') : i \in 1..Len(events) \/ i = Len(events) + 1
  BY <1>1
<1>3. Notice(kind, t) = Notice(other, u) <=> other = kind /\ u = t
  BY DEF Notice
<1>4. CASE other = kind /\ u = t
  <2>1. /\ \A i \in 1..Len(events) : events[i] # Notice(other, u)
        /\ ~(evStage # "idle" /\ evItem = Notice(other, u))
    BY <1>1, <1>4 DEF Pending, Notice
  <2>2. \A i \in 1..Len(events') : events'[i] = Notice(other, u) => i = Len(events) + 1
    BY <1>1, <1>2, <2>1
  <2>3. QED
    BY <2>1, <2>2 DEF OnceAt
<1>5. CASE ~(other = kind /\ u = t)
  <2>1. \A i \in 1..Len(events') :
            events'[i] = Notice(other, u) => i \in 1..Len(events) /\ events[i] = Notice(other, u)
    BY <1>1, <1>2, <1>3, <1>5
  <2>2. QED
    BY <2>1 DEF OnceAt
<1>6. QED
  BY <1>4, <1>5

LEMMA OnceTake ==
    ASSUME Typed, Typed', TakeEvent, NEW kind, NEW u, OnceAt(kind, u)
    PROVE  OnceAt(kind, u)'
<1>1. /\ Len(events) = Len(events') + 1 /\ Len(events') \in Nat
      /\ \A i \in 1..Len(events') : events'[i] = events[i + 1]
      /\ evItem' = events[1]
  BY Taken
<1>2. /\ \A i \in 1..Len(events') : i + 1 \in 1..Len(events) /\ i + 1 # 1
      /\ \A i, j \in 1..Len(events') : i + 1 = j + 1 => i = j
      /\ 1 \in 1..Len(events)
  BY <1>1
<1>3. \A i, j \in 1..Len(events) :
          events[i] = Notice(kind, u) /\ events[j] = Notice(kind, u) => i = j
  BY DEF OnceAt
<1>4. \A i, j \in 1..Len(events') :
          events'[i] = Notice(kind, u) /\ events'[j] = Notice(kind, u) => i = j
  <2>1. ASSUME NEW i \in 1..Len(events'), NEW j \in 1..Len(events'),
               events'[i] = Notice(kind, u), events'[j] = Notice(kind, u)
        PROVE  i = j
    <3>1. events[i + 1] = Notice(kind, u) /\ events[j + 1] = Notice(kind, u)
      BY <1>1, <2>1
    <3>2. i + 1 = j + 1
      BY <1>2, <1>3, <3>1
    <3>3. QED
      BY <1>2, <3>2
  <2>2. QED
    BY <2>1
<1>5. evItem' = Notice(kind, u) => \A i \in 1..Len(events') : events'[i] # Notice(kind, u)
  BY <1>1, <1>2, <1>3
<1>6. QED
  BY <1>4, <1>5 DEF OnceAt

\* Steps that leave the channel and the event task alone and move no tunnel out of the stages
\* in which its events are on their way.
LEMMA OnceFrame ==
    ASSUME Once, UNCHANGED <<events, evItem>>,
           evStage' = evStage \/ (evStage # "idle" /\ evStage' # "idle"), Refused',
           \A t \in Tunnels : \/ tunnel'[t] = tunnel[t]
                              \/ tunnel[t] \notin {"up", "broken", "closed"}
                              \/ tunnel[t] = "up" /\ tunnel'[t] = "broken"
    PROVE  Once'
<1>1. ASSUME NEW t \in Tunnels
      PROVE  Reached(t)' /\ OnceAt("Connected", t)' /\ OnceAt("Disconnected", t)'
  <2>1. Pending("Connected", t)' <=> Pending("Connected", t)
    BY DEF Pending
  <2>2. Pending("Disconnected", t)' <=> Pending("Disconnected", t)
    BY DEF Pending
  <2>3. Reached(t)'
    BY <2>1, <2>2 DEF Once, Reached
  <2>4. QED
    BY <2>3 DEF Once, OnceAt
<1>2. QED
  BY <1>1 DEF Once

LEMMA OnceNext == Typed /\ Typed' /\ Spawning /\ Once /\ [Next]_vars => Once'
<1> SUFFICES ASSUME Typed, Typed', Spawning, Once, [Next]_vars PROVE Once'
  OBVIOUS
<1>1. CASE UNCHANGED <<tunnel, events, eventVars>>
  BY <1>1, OnceFrame DEF eventVars, Once, Refused
<1>2. ASSUME NEW c \in Clients, Connect(c) \/ ChallengeCode(c) \/ Disconnect(c)
      PROVE  Once'
  BY <1>1, <1>2 DEF Connect, ChallengeCode, Disconnect
<1>3. ASSUME NEW c \in Clients, HandlerStep(c) \/ FactoryAnswers(c)
      PROVE  Once'
  <2>1. CASE SpawnTunnel(c)
    <3>1. \A t \in Tunnels : tunnel'[t] = tunnel[t] \/ tunnel[t] = "created"
      BY <2>1 DEF SpawnTunnel, Spawning, Typed, TypeOK
    <3>2. QED
      BY <2>1, <3>1, OnceFrame DEF SpawnTunnel, eventVars, Once, Refused
  <2>2. CASE ~SpawnTunnel(c)
    BY <1>1, <1>3, <2>2
       DEF HandlerStep, FactoryAnswers, ResetBeforeConnect, NewConnector, NoConnector, AskForCode,
           SessionGranted,
           RequestFailed, StoreCancel, FindConnector, Disconnected, SendRequest
  <2>3. QED
    BY <2>1, <2>2
<1>4. ASSUME NEW k \in Connectors, NEW c \in Clients, Reply(k, c)
      PROVE  Once'
  <2>1. ASSUME NEW u \in Tunnels, Created(k, c, u)
        PROVE  Once'
    <3>1. \A t \in Tunnels : tunnel'[t] = tunnel[t] \/ tunnel[t] = "none"
      BY <2>1 DEF Created, Typed, TypeOK
    <3>2. QED
      BY <2>1, <3>1, OnceFrame DEF Created, eventVars, Once, Refused
  <2>2. QED
    BY <1>1, <1>4, <2>1 DEF Reply, ExchangeEnds, GatewayAnswers, Restored, Cancelled, NotCreated,
                            SessionDeleted, Terminated
<1>5. ASSUME NEW k \in Connectors, EventHandled(k) \/ ActorStops(k)
      PROVE  Once'
  <2>1. CASE EventHandled(k)
    <3>1. Refused'
      BY <2>1 DEF EventHandled, Refused
    <3>2. QED
      BY <2>1, <3>1, OnceFrame DEF EventHandled
  <2>2. QED
    BY <1>1, <1>5, <2>1 DEF ActorStops
<1>6. CASE EventStep
  <2>1. CASE TakeEvent
    <3>1. ASSUME NEW t \in Tunnels
          PROVE  Reached(t)' /\ OnceAt("Connected", t)' /\ OnceAt("Disconnected", t)'
      <4>1. /\ Pending("Connected", t)' <=> Pending("Connected", t)
            /\ Pending("Disconnected", t)' <=> Pending("Disconnected", t)
        BY <2>1, PendingAfterTake DEF EventKinds
      <4>2. tunnel' = tunnel
        BY <2>1 DEF TakeEvent
      <4>3. QED
        BY <2>1, <4>1, <4>2, OnceTake DEF Once, Reached
    <3>2. Refused'
      BY <2>1 DEF TakeEvent, Refused
    <3>3. QED
      BY <3>1, <3>2 DEF Once
  <2>2. CASE AskConnector
    <3>1. Refused'
      BY <2>2 DEF AskConnector, Refused
    <3>2. QED
      BY <2>2, <3>1, OnceFrame DEF AskConnector
  <2>3. CASE EventFailed \/ ApplyDisconnected \/ ApplyConnected \/ ApplyCheck
    <3>1. evStage # "idle" /\ EventDone /\ UNCHANGED <<events, tunnel>>
      BY <2>3 DEF EventFailed, ApplyDisconnected, ApplyConnected, ApplyCheck
    <3>2. ASSUME NEW t \in Tunnels
          PROVE  Reached(t)' /\ OnceAt("Connected", t)' /\ OnceAt("Disconnected", t)'
      <4>1. /\ Pending("Connected", t)' => Pending("Connected", t)
            /\ Pending("Disconnected", t)' => Pending("Disconnected", t)
        BY <3>1, PendingAfterDone DEF EventKinds, Once
      <4>2. QED
        BY <3>1, <4>1 DEF Once, Reached, OnceAt, EventDone
    <3>3. Refused'
      BY <3>1 DEF EventDone, Refused
    <3>4. QED
      BY <3>2, <3>3 DEF Once
  <2>4. QED
    BY <1>6, <2>1, <2>2, <2>3 DEF EventStep
<1>7. ASSUME NEW t \in Tunnels,
             TunnelStep(t) \/ TunnelSetUp(t) \/ SetUpFails(t) \/ TunnelDies(t)
             \/ TunnelBreaks(t) \/ TunnelChecks(t)
      PROVE  Once'
  <2>1. UNCHANGED <<evStage, evItem>>
    BY <1>7 DEF TunnelStep, TunnelSetUp, TunnelUp, TunnelStops, SetUpFails, TunnelDies,
                TunnelBreaks, TunnelChecks, eventVars
  <2>2. Refused'
    BY <2>1 DEF Once, Refused
  <2>3. CASE TunnelSetUp(t) \/ SetUpFails(t) \/ TunnelBreaks(t)
    <3>1. \A u \in Tunnels : \/ tunnel'[u] = tunnel[u]
                             \/ tunnel[u] \notin {"up", "broken", "closed"}
                             \/ tunnel[u] = "up" /\ tunnel'[u] = "broken"
      BY <2>3 DEF TunnelSetUp, SetUpFails, TunnelBreaks, Advance, Typed, TypeOK
    <3>2. events' = events
      BY <2>3 DEF TunnelSetUp, SetUpFails, TunnelBreaks
    <3>3. QED
      BY <2>1, <2>2, <3>1, <3>2, OnceFrame
  <2>4. ASSUME NEW kind \in EventKinds, Post(kind, t),
               kind \in {"Connected", "Disconnected"} => ~Pending(kind, t),
               kind = "Connected" => tunnel'[t] \in {"up", "broken", "closed"},
               kind = "Disconnected" => tunnel'[t] = "closed",
               \A u \in Tunnels : \/ tunnel'[u] = tunnel[u]
                                  \/ tunnel[u] \notin {"up", "broken", "closed"}
                                  \/ tunnel[u] = "up" /\ tunnel'[u] = "closed"
        PROVE  Once'
    <3>1. ASSUME NEW u \in Tunnels
          PROVE  Reached(u)' /\ OnceAt("Connected", u)' /\ OnceAt("Disconnected", u)'
      <4>1. OnceAt("Connected", u)' /\ OnceAt("Disconnected", u)'
        BY <2>1, <2>4, OncePost DEF Once, EventKinds
      <4>2. /\ Pending("Connected", u)' <=> Pending("Connected", u) \/ ("Connected" = kind /\ u = t)
            /\ Pending("Disconnected", u)' <=>
                   Pending("Disconnected", u) \/ ("Disconnected" = kind /\ u = t)
        BY <2>1, <2>4, PendingAfterPost DEF EventKinds
      <4>3. Reached(u)'
        BY <2>4, <4>2 DEF Once, Reached
      <4>4. QED
        BY <4>1, <4>3
    <3>2. QED
      BY <2>2, <3>1 DEF Once
  <2>5. CASE TunnelUp(t)
    <3>1. /\ Post("Connected", t) /\ tunnel[t] = "configured"
          /\ tunnel' = [tunnel EXCEPT ![t] = "up"]
      BY <2>5 DEF TunnelUp, Advance
    <3>2. ~Pending("Connected", t)
      BY <3>1 DEF Once, Reached
    <3>3. QED
      BY <2>4, <3>1, <3>2 DEF EventKinds, Typed, TypeOK
  <2>6. CASE TunnelStops(t) \/ TunnelDies(t)
    <3>1. /\ Post("Disconnected", t) /\ tunnel[t] = "up"
          /\ tunnel' = [tunnel EXCEPT ![t] = "closed"]
      BY <2>6 DEF TunnelStops, TunnelDies, Advance
    <3>2. ~Pending("Disconnected", t)
      BY <3>1 DEF Once, Reached
    <3>3. QED
      BY <2>4, <3>1, <3>2 DEF EventKinds, Typed, TypeOK
  <2>7. CASE TunnelChecks(t)
    <3>1. Post("Check", t) /\ tunnel' = tunnel
      BY <2>7 DEF TunnelChecks
    <3>2. QED
      BY <2>4, <3>1 DEF EventKinds
  <2>8. QED
    BY <1>7, <2>3, <2>5, <2>6, <2>7 DEF TunnelStep
<1>8. QED
  BY <1>1, <1>2, <1>3, <1>4, <1>5, <1>6, <1>7 DEF Next, ActorStep, Reply, ExchangeEnds, vars


\* The stage at which the board of CommandServer has t.
StageOf(t) ==
    IF tunnel[t] \notin {"up", "closed", "broken"} \/ Pending("Connected", t)
    THEN "new"
    ELSE IF tunnel[t] = "closed" /\ ~Pending("Disconnected", t) THEN "withdrawn" ELSE "announced"

\* The four ways in which a step of the server is a step of the board.
LEMMA BoardStutters ==
    ASSUME status'.tunnel = status.tunnel, \A t \in Tunnels : StageOf(t)' = StageOf(t)
    PROVE  UNCHANGED Board!vars
  BY DEF Board!vars, StageOf

LEMMA BoardClears ==
    ASSUME status'.tunnel = Nobody, \A t \in Tunnels : StageOf(t)' = StageOf(t)
    PROVE  Board!Clear
  BY DEF Board!Clear, StageOf

LEMMA BoardAnnounces ==
    ASSUME NEW t \in Tunnels, status'.tunnel = t, StageOf(t) = "new", StageOf(t)' = "announced",
           \A u \in Tunnels \ {t} : StageOf(u)' = StageOf(u)
    PROVE  Board!Announce(t)
<1> DEFINE s == [u \in Tunnels |-> StageOf(u)]
<1>1. s[t] = "new" /\ s' = [s EXCEPT ![t] = "announced"]
  OBVIOUS
<1>2. QED
  BY <1>1 DEF Board!Announce, StageOf

LEMMA BoardWithdraws ==
    ASSUME NEW t \in Tunnels, status'.tunnel = Nobody, StageOf(t) = "announced",
           StageOf(t)' = "withdrawn", \A u \in Tunnels \ {t} : StageOf(u)' = StageOf(u)
    PROVE  Board!Withdraw(t)
<1> DEFINE s == [u \in Tunnels |-> StageOf(u)]
<1>1. s[t] = "announced" /\ s' = [s EXCEPT ![t] = "withdrawn"]
  OBVIOUS
<1>2. QED
  BY <1>1 DEF Board!Withdraw, StageOf

\* A tunnel that does not move, or moves before it is up or after it is announced, and whose
\* events stay pending, keeps its stage.
LEMMA StageFrame ==
    ASSUME NEW t \in Tunnels,
           Pending("Connected", t)' <=> Pending("Connected", t),
           Pending("Disconnected", t)' <=> Pending("Disconnected", t),
           \/ tunnel'[t] = tunnel[t]
           \/ /\ tunnel[t] \notin {"up", "closed", "broken"}
              /\ tunnel'[t] \notin {"up", "closed", "broken"}
           \/ tunnel[t] \in {"up", "broken"} /\ tunnel'[t] \in {"up", "broken"}
    PROVE  StageOf(t)' = StageOf(t)
  BY DEF StageOf

LEMMA BoardInit == Init => Board!Init
<1> SUFFICES ASSUME Init PROVE Board!Init
  OBVIOUS
<1>1. status.tunnel = Nobody
  BY DEF Init, Status
<1>2. \A t \in Tunnels : tunnel[t] \notin {"up", "closed", "broken"}
  BY DEF Init
<1>3. QED
  BY <1>1, <1>2 DEF Board!Init

LEMMA BoardNext ==
    Typed /\ Typed' /\ Spawning /\ Announced /\ Once /\ [Next]_vars => [Board!Next]_(Board!vars)
<1> SUFFICES ASSUME Typed, Typed', Spawning, Announced, Once, [Next]_vars
             PROVE  [Board!Next]_(Board!vars)
  OBVIOUS
<1>1. ASSUME status'.tunnel \in {status.tunnel, Nobody}, \A t \in Tunnels : StageOf(t)' = StageOf(t)
      PROVE  [Board!Next]_(Board!vars)
  BY <1>1, BoardStutters, BoardClears DEF Board!Next
<1>2. ASSUME UNCHANGED <<events, eventVars>>, status'.tunnel \in {status.tunnel, Nobody},
             \A t \in Tunnels :
                 \/ tunnel'[t] = tunnel[t]
                 \/ /\ tunnel[t] \notin {"up", "closed", "broken"}
                    /\ tunnel'[t] \notin {"up", "closed", "broken"}
                 \/ tunnel[t] \in {"up", "broken"} /\ tunnel'[t] \in {"up", "broken"}
      PROVE  [Board!Next]_(Board!vars)
  <2>1. ASSUME NEW t \in Tunnels PROVE StageOf(t)' = StageOf(t)
    <3>1. /\ Pending("Connected", t)' <=> Pending("Connected", t)
          /\ Pending("Disconnected", t)' <=> Pending("Disconnected", t)
      BY <1>2 DEF Pending, eventVars
    <3>2. QED
      BY <1>2, <3>1, StageFrame
  <2>2. QED
    BY <1>1, <1>2, <2>1
<1>3. CASE UNCHANGED vars
  BY <1>2, <1>3 DEF vars, stateVars
<1>4. ASSUME NEW c \in Clients, Connect(c) \/ ChallengeCode(c) \/ Disconnect(c)
      PROVE  [Board!Next]_(Board!vars)
  BY <1>2, <1>4 DEF Connect, ChallengeCode, Disconnect, stateVars
<1>5. ASSUME NEW c \in Clients, HandlerStep(c) \/ FactoryAnswers(c)
      PROVE  [Board!Next]_(Board!vars)
  <2>1. UNCHANGED <<events, eventVars>>
    BY <1>5 DEF HandlerStep, FactoryAnswers, ResetBeforeConnect, NewConnector, NoConnector,
                AskForCode,
                SessionGranted, SpawnTunnel, RequestFailed, StoreCancel, FindConnector, Disconnected,
                SendRequest
  <2>2. status' = status \/ status'.tunnel = Nobody
    BY <1>5 DEF HandlerStep, FactoryAnswers, ResetBeforeConnect, NewConnector, NoConnector,
                AskForCode,
                SessionGranted, SpawnTunnel, RequestFailed, StoreCancel, FindConnector, Disconnected,
                SendRequest, ResetState, Status, stateVars
  <2>3. CASE SpawnTunnel(c)
    <3>1. \A t \in Tunnels : \/ tunnel'[t] = tunnel[t]
                             \/ tunnel[t] = "created" /\ tunnel'[t] = "starting"
      BY <2>3 DEF SpawnTunnel, Spawning, Typed, TypeOK
    <3>2. QED
      BY <1>2, <2>1, <2>2, <3>1
  <2>4. CASE ~SpawnTunnel(c)
    <3>1. tunnel' = tunnel
      BY <1>5, <2>4 DEF HandlerStep, FactoryAnswers, ResetBeforeConnect, NewConnector, NoConnector,
                        AskForCode,
                        SessionGranted, RequestFailed, StoreCancel, FindConnector, Disconnected,
                        SendRequest
    <3>2. QED
      BY <1>2, <2>1, <2>2, <3>1
  <2>5. QED
    BY <2>3, <2>4
<1>6. ASSUME NEW k \in Connectors, NEW c \in Clients, Reply(k, c)
      PROVE  [Board!Next]_(Board!vars)
  <2>1. UNCHANGED <<status, events, eventVars>>
    BY <1>6 DEF Reply, ExchangeEnds, GatewayAnswers, Restored, Cancelled, Created, NotCreated,
                SessionDeleted, Terminated, stateVars
  <2>2. \A t \in Tunnels : \/ tunnel'[t] = tunnel[t]
                           \/ tunnel[t] = "none" /\ tunnel'[t] = "created"
    <3>1. ASSUME NEW u \in Tunnels, Created(k, c, u)
          PROVE  \A t \in Tunnels : \/ tunnel'[t] = tunnel[t]
                                    \/ tunnel[t] = "none" /\ tunnel'[t] = "created"
      BY <3>1 DEF Created, Typed, TypeOK
    <3>2. QED
      BY <1>6, <3>1 DEF Reply, ExchangeEnds, GatewayAnswers, Restored, Cancelled, NotCreated,
                        SessionDeleted, Terminated
  <2>3. QED
    BY <1>2, <2>1, <2>2
<1>7. ASSUME NEW k \in Connectors, EventHandled(k) \/ ActorStops(k)
      PROVE  [Board!Next]_(Board!vars)
  <2>1. CASE EventHandled(k)
    <3>1. ASSUME NEW t \in Tunnels PROVE StageOf(t)' = StageOf(t)
      BY <2>1 DEF EventHandled, StageOf, Pending
    <3>2. QED
      BY <1>1, <2>1, <3>1 DEF EventHandled, stateVars
  <2>2. CASE ActorStops(k)
    BY <1>2, <2>2 DEF ActorStops, stateVars
  <2>3. QED
    BY <1>7, <2>1, <2>2
<1>8. CASE EventStep
  <2>1. CASE TakeEvent
    <3>1. ASSUME NEW t \in Tunnels PROVE StageOf(t)' = StageOf(t)
      <4>1. /\ Pending("Connected", t)' <=> Pending("Connected", t)
            /\ Pending("Disconnected", t)' <=> Pending("Disconnected", t)
        BY <2>1, PendingAfterTake DEF EventKinds
      <4>2. QED
        BY <2>1, <4>1, StageFrame DEF TakeEvent
    <3>2. QED
      BY <1>1, <2>1, <3>1 DEF TakeEvent, stateVars
  <2>2. CASE AskConnector
    <3>1. ASSUME NEW t \in Tunnels PROVE StageOf(t)' = StageOf(t)
      BY <2>2 DEF AskConnector, StageOf, Pending
    <3>2. QED
      BY <1>1, <2>2, <3>1 DEF AskConnector, stateVars
  <2>3. ASSUME evStage # "idle", EventDone, UNCHANGED <<events, tunnel>>, NEW t \in Tunnels
        PROVE  /\ Pending("Connected", t)' <=> Pending("Connected", t) /\ evItem # Notice("Connected", t)
               /\ Pending("Disconnected", t)' <=>
                      Pending("Disconnected", t) /\ evItem # Notice("Disconnected", t)
    BY <2>3, PendingAfterDone DEF Once, EventKinds
  <2>4. CASE EventFailed \/ ApplyCheck
    <3>1. evStage # "idle" /\ EventDone /\ UNCHANGED <<events, tunnel>> /\ evItem.kind = "Check"
      BY <2>4 DEF EventFailed, ApplyCheck, Once, Refused
    <3>2. status'.tunnel \in {status.tunnel, Nobody}
      BY <2>4 DEF EventFailed, ApplyCheck, ResetState, Status, stateVars
    <3>3. ASSUME NEW t \in Tunnels PROVE StageOf(t)' = StageOf(t)
      <4>1. evItem # Notice("Connected", t) /\ evItem # Notice("Disconnected", t)
        BY <3>1 DEF Notice
      <4>2. QED
        BY <2>3, <3>1, <4>1, StageFrame
    <3>4. QED
      BY <1>1, <3>2, <3>3
  <2>5. ASSUME NEW kind \in {"Connected", "Disconnected"}, evStage # "idle", EventDone,
               evItem.kind = kind, UNCHANGED <<events, tunnel>>
        PROVE  \E t \in Tunnels :
                   /\ evItem = Notice(kind, t) /\ t = evItem.tunnel
                   /\ \A u \in Tunnels \ {t} : StageOf(u)' = StageOf(u)
    <3>1. PICK t \in Tunnels : evItem = Notice(kind, t) /\ t = evItem.tunnel
      BY <2>5 DEF Typed, EventInHand, Event, Notice
    <3>2. ASSUME NEW u \in Tunnels \ {t} PROVE StageOf(u)' = StageOf(u)
      <4>1. evItem # Notice("Connected", u) /\ evItem # Notice("Disconnected", u)
        BY <3>1 DEF Notice
      <4>2. QED
        BY <2>3, <2>5, <4>1, StageFrame
    <3>3. QED
      BY <3>1, <3>2
  <2>6. CASE ApplyConnected
    <3>1. /\ evStage # "idle" /\ EventDone /\ UNCHANGED <<events, tunnel>>
          /\ evItem.kind = "Connected" /\ status'.tunnel = evItem.tunnel
      BY <2>6 DEF ApplyConnected, Status
    <3>2. PICK t \in Tunnels : /\ evItem = Notice("Connected", t) /\ t = evItem.tunnel
                               /\ \A u \in Tunnels \ {t} : StageOf(u)' = StageOf(u)
      BY <2>5, <3>1
    <3>3. Pending("Connected", t) /\ ~Pending("Connected", t)'
      <4>1. Pending("Connected", t)
        BY <3>1, <3>2 DEF Pending, Notice
      <4>2. QED
        BY <2>3, <3>1, <3>2, <4>1
    <3>4. tunnel[t] \in {"up", "broken", "closed"}
      BY <3>3 DEF Once, Reached
    <3>5. tunnel[t] = "closed" => Pending("Disconnected", t)'
      <4>1. Notice("Connected", t) # Notice("Disconnected", t)
        BY DEF Notice
      <4>2. tunnel[t] = "closed" => Behind(0, "Disconnected", t)
        BY <3>1, <3>2 DEF Announced, Ordered, Running
      <4>3. tunnel[t] = "closed" => Pending("Disconnected", t)
        BY <4>2, PendingNotice
      <4>4. QED
        BY <2>3, <3>1, <3>2, <4>1, <4>3
    <3>6. StageOf(t) = "new" /\ StageOf(t)' = "announced"
      BY <3>1, <3>3, <3>4, <3>5 DEF StageOf
    <3>7. Board!Announce(t)
      BY <3>1, <3>2, <3>6, BoardAnnounces
    <3>8. QED
      BY <3>7 DEF Board!Next
  <2>7. CASE ApplyDisconnected
    <3>1. /\ evStage # "idle" /\ EventDone /\ UNCHANGED <<events, tunnel>>
          /\ evItem.kind = "Disconnected" /\ status'.tunnel = Nobody
      BY <2>7 DEF ApplyDisconnected, ResetState, Status
    <3>2. PICK t \in Tunnels : /\ evItem = Notice("Disconnected", t)
                               /\ \A u \in Tunnels \ {t} : StageOf(u)' = StageOf(u)
      BY <2>5, <3>1
    <3>3. Pending("Disconnected", t) /\ ~Pending("Disconnected", t)'
      <4>1. Pending("Disconnected", t)
        BY <3>1, <3>2 DEF Pending, Notice
      <4>2. QED
        BY <2>3, <3>1, <3>2, <4>1
    <3>4. tunnel[t] = "closed"
      BY <3>3 DEF Once, Reached
    <3>5. ~Pending("Connected", t)
      <4>1. \A j \in 1..Len(events) : events[j] # Notice("Disconnected", t)
        BY <3>1, <3>2 DEF Once, OnceAt
      <4>2. \A i \in 1..Len(events) : events[i] # Notice("Connected", t)
        BY <3>4, <4>1 DEF Announced, Ordered, Behind, Running
      <4>3. evItem # Notice("Connected", t)
        BY <3>2 DEF Notice
      <4>4. QED
        BY <4>2, <4>3, PendingNotice DEF Behind
    <3>6. ~Pending("Connected", t)'
      BY <2>3, <3>1, <3>5
    <3>7. StageOf(t) = "announced" /\ StageOf(t)' = "withdrawn"
      BY <3>1, <3>3, <3>4, <3>5, <3>6 DEF StageOf
    <3>8. Board!Withdraw(t)
      BY <3>1, <3>2, <3>7, BoardWithdraws
    <3>9. QED
      BY <3>8 DEF Board!Next
  <2>8. QED
    BY <1>8, <2>1, <2>2, <2>4, <2>6, <2>7 DEF EventStep
<1>9. ASSUME NEW t \in Tunnels,
             TunnelStep(t) \/ TunnelSetUp(t) \/ SetUpFails(t) \/ TunnelDies(t)
             \/ TunnelBreaks(t) \/ TunnelChecks(t)
      PROVE  [Board!Next]_(Board!vars)
  <2>1. UNCHANGED <<status, eventVars>>
    BY <1>9 DEF TunnelStep, TunnelSetUp, TunnelUp, TunnelStops, SetUpFails, TunnelDies,
                TunnelBreaks, TunnelChecks, stateVars
  <2>2. CASE TunnelSetUp(t) \/ SetUpFails(t) \/ TunnelBreaks(t)
    <3>1. \A u \in Tunnels :
              \/ tunnel'[u] = tunnel[u]
              \/ /\ tunnel[u] \notin {"up", "closed", "broken"}
                 /\ tunnel'[u] \notin {"up", "closed", "broken"}
              \/ tunnel[u] \in {"up", "broken"} /\ tunnel'[u] \in {"up", "broken"}
      BY <2>2 DEF TunnelSetUp, SetUpFails, TunnelBreaks, Advance, Typed, TypeOK
    <3>2. events' = events
      BY <2>2 DEF TunnelSetUp, SetUpFails, TunnelBreaks
    <3>3. QED
      BY <1>2, <2>1, <3>1, <3>2
  <2>3. ASSUME NEW kind \in EventKinds, Post(kind, t), NEW u \in Tunnels
        PROVE  /\ Pending("Connected", u)' <=> Pending("Connected", u) \/ ("Connected" = kind /\ u = t)
               /\ Pending("Disconnected", u)' <=>
                      Pending("Disconnected", u) \/ ("Disconnected" = kind /\ u = t)
    BY <2>1, <2>3, PendingAfterPost DEF EventKinds, eventVars
  <2>4. CASE TunnelUp(t)
    <3>1. /\ Post("Connected", t) /\ tunnel[t] = "configured"
          /\ tunnel' = [tunnel EXCEPT ![t] = "up"]
      BY <2>4 DEF TunnelUp, Advance
    <3>2. ASSUME NEW u \in Tunnels PROVE StageOf(u)' = StageOf(u)
      <4>1. CASE u = t
        <5>1. Pending("Connected", t)'
          BY <2>3, <3>1 DEF EventKinds
        <5>2. QED
          BY <3>1, <4>1, <5>1 DEF StageOf
      <4>2. CASE u # t
        BY <2>3, <3>1, <4>2, StageFrame DEF EventKinds, Typed, TypeOK
      <4>3. QED
        BY <4>1, <4>2
    <3>3. QED
      BY <1>1, <2>1, <3>2
  <2>5. CASE TunnelStops(t) \/ TunnelDies(t)
    <3>1. /\ Post("Disconnected", t) /\ tunnel[t] = "up"
          /\ tunnel' = [tunnel EXCEPT ![t] = "closed"]
      BY <2>5 DEF TunnelStops, TunnelDies, Advance
    <3>2. ASSUME NEW u \in Tunnels PROVE StageOf(u)' = StageOf(u)
      <4>1. CASE u = t
        <5>1. Pending("Disconnected", t)' /\ (Pending("Connected", t)' <=> Pending("Connected", t))
          BY <2>3, <3>1 DEF EventKinds
        <5>2. tunnel'[t] = "closed"
          BY <3>1 DEF Typed, TypeOK
        <5>3. QED
          BY <3>1, <4>1, <5>1, <5>2 DEF StageOf
      <4>2. CASE u # t
        BY <2>3, <3>1, <4>2, StageFrame DEF EventKinds, Typed, TypeOK
      <4>3. QED
        BY <4>1, <4>2
    <3>3. QED
      BY <1>1, <2>1, <3>2
  <2>6. CASE TunnelChecks(t)
    <3>1. Post("Check", t) /\ tunnel' = tunnel
      BY <2>6 DEF TunnelChecks
    <3>2. ASSUME NEW u \in Tunnels PROVE StageOf(u)' = StageOf(u)
      BY <2>3, <3>1, StageFrame DEF EventKinds
    <3>3. QED
      BY <1>1, <2>1, <3>2
  <2>7. QED
    BY <1>9, <2>2, <2>4, <2>5, <2>6 DEF TunnelStep
<1>10. QED
  BY <1>3, <1>4, <1>5, <1>6, <1>7, <1>8, <1>9 DEF Next, ActorStep, Reply, ExchangeEnds

\* The status is a board on which every tunnel is announced at most once and withdrawn at most
\* once, in this order, whatever requests, actors and events do in between.
THEOREM ServerImplementsBoard == Spec => BoardSpec
<1>1. Init => Board!Init
  BY BoardInit
<1>2. Typed /\ Typed' /\ Spawning /\ Announced /\ Once /\ [Next]_vars => [Board!Next]_(Board!vars)
  BY BoardNext
<1>3. QED
  BY <1>1, <1>2, TypedInit, TypedNext, SpawningInit, SpawningNext, AnnouncedInit, AnnouncedNext,
     OnceInit, OnceNext, PTL DEF Spec, BoardSpec, Board!Spec
=============================================================================
