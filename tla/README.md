# TLA+ models of snx-rs

snx-rs is an open-source client for Check Point VPN gateways. It runs either as
a privileged service that front ends (`snxctl`, the GUI) command over a local
socket, or standalone. This directory holds TLA+ modules that model the parts of
it in which several tasks, clients, timers or failures meet, the TLC
configurations that check them, and TLAPS proofs about them. All paths below are
relative to `src/`; `snxcore` stands for `src/crates/snxcore/src`.

## 1. Inventory

### How the parts hang together

```
 snxctl, GUI                      service process
 -----------                      ---------------------------------------------------
 ServiceController --socket-->  CommandServer --- mutex: ConnectionState
  (prompts, keychain,           handler task       status, session, connector, cancel
   browser, OTP listener)       per stream   ---> ConnectorHandle --queue--> actor task
                                                                      TunnelConnector
                                event task <---- event channel (16) <----+  | command
                                   |                                     |  v channel
                                   +--> ConnectionState          tunnel task: VpnTunnel::run
                                                                 device, routes, DNS, xfrm
```

| Component | State | Operations | Interacts with | What is hard | What makes it correct |
|---|---|---|---|---|---|
| Command server, `snxcore/server.rs` | `ConnectionState`: status, session, connector handle, cancel sender | Connect, ChallengeCode, Disconnect, GetStatus; the event task; reset | front ends by framed JSON on a socket, connector actors by queue, tunnels by the event channel | a lock that is released around every await; several clients; stale events; cancellation | the status never claims a tunnel, a session or a request that is not there; every request is answered; nothing is left running |
| Connector actor, `snxcore/server.rs` and `snxcore/tunnel/connector.rs` | queue of requests, the connector | restore_session, authenticate, challenge_code, create_tunnel, delete_session, terminate_tunnel, handle_tunnel_event | server handlers, gateway, the tunnel's command channel | ends when its last handle is dropped, with requests of others queued | no handle without an actor, no request without its reply |
| SSL connector, `snxcore/tunnel/ssl/connector.rs` | command sender | as above, without restore and rekey | gateway (CCC) | the command sender changes hands with every tunnel | an old tunnel ends when a new one is made |
| IPsec connector, `snxcore/tunnel/ipsec/connector.rs` | IKE session, ESP SAs, lease, last rekey, saved session, command sender | IKE phases, identity and challenge exchanges, rekey, save, restore, delete | gateway by isakmp (external crate), the session database | partial failure of an exchange; restart; expiry against a lease | a saved session is the one in use or none; a rekey never leaves the tunnel on dead keys |
| IPsec tunnels, `snxcore/tunnel/ipsec/imp/*` | gateway information, keepalive and rekey tasks, device, routes | run: set-up, loop, clean-up in Drop | event and command channels, kernel | exits at every await; clean-up after the event was sent | what is set up is removed, and no more than that |
| SSL tunnel, `snxcore/tunnel/ssl.rs` | session id, keepalive counter, device, routes | as above, plus the client hello | gateway by SLIM frames | as above | as above |
| Keepalives, `snxcore/tunnel/ipsec/keepalive.rs`, `snxcore/tunnel/ssl/keepalive.rs` | counter, ready flag | send, receive, give up after three losses | the tunnel | races of sender, receiver and rekey | a silent gateway is noticed, a live one is not given up |
| Xfrm, `snxcore/platform/linux/xfrm.rs` | kernel states and policies | configure, rekey, clean up | kernel | failure in the middle | one pair of states at a time, nothing left behind |
| Service controller, `snxcore/controller.rs` | user name, MFA index, stored password | connect, challenge, disconnect, reconnect, status | the server, prompts, keychain, browser | polling against timeouts, recursion over challenges | every prompt answers the challenge it is for; what is stored is the password |
| OTP listener, `snxcore/otp.rs` | listener, one answer | serve requests of the browser until the code came | browser | early, repeated, unrelated requests, connections that say nothing | the first request decides, and nobody waits for ever |
| Gateway connector, `snxcore/tunnel/gateway.rs` | cached server information, per process | CCC requests | gateway by HTTPS | calls that overlap, fail or are dropped share a cell; replies are told apart by the fields they have | each gateway is asked once, with the trust of those who are told; a login goes where the gateway said |
| Profiles and parameters, `snxcore/profiles.rs`, `snxcore/model/params.rs` | profiles on disk and in memory, their order, the connected one | load, save, rename, reorder, remove | file system, other programs that read the files | failure and crash between file and memory | memory and disk agree, also after a restart |
| Settings window, `apps/snx-rs-gui/src/ui/settings.rs` | rows, selection, fields, login types of the gateway | select, edit, create, rename, drag, delete, save | profiles, gateways, keychain | rows move while answers are on their way | what is saved goes to the profile that is shown |
| Desktop, `apps/snx-rs-gui/src/main.rs`, `ui.rs`, `ui/*`, `platform/linux/tray.rs` | tray, cancel sender of the attempt, windows, last status | commands of tray, window and other instances; poll | service controllers, one per task; prompt; tray channel (16) | tasks that run beside each other on one service and one prompt | one attempt is live and what it waits for is on the screen; every task ends |
| Service executable, `apps/snx-rs/src/main.rs`, `cmdline.rs`, `snxcore/tunnel/ipsec/natt.rs` | parameters, the challenge, the tunnel's channels | info, enroll, renew, standalone; signals | prompts, OTP listener, connector, tunnel | the factors' order, late probes, signals at any time | options go where they belong; every run ends or has its tunnel |
| Linux platform, `snxcore/platform/linux/*` | routes, rules, DNS settings | set up, clean up | kernel, resolved, resolv.conf | old and new tunnel overlap | the host's DNS and routes return |
| Utilities, `snxcore/util.rs` | none | ranges to subnets, password obfuscation | callers | boundaries of the address space | the subnets cover the range exactly |
| Windows and macOS platform, translations | presentation and system calls | - | - | - | - |

The full list, with what is modelled of each, is `components` in `PROJECT.json`;
`hazards` lists what is hard to test, each at its line.

### The behaviours that are hard, in one place

* **Interleaving.** `ConnectionState` is behind a mutex that no task holds across an await, and every
  operation takes it several times: `connect` to check the status, to reset and
  to store the connector; `challenge_code` to read and to store; `disconnect`
  to fire the cancel sender, to take the connector and to reset. Between any two
  of them any other client or the event task may run.
* **Stale events.** The event channel delays what a tunnel reports. The event
  task applies it to whatever the state has become meanwhile.
* **Ownership by handle.** A connector lives as long as somebody holds a handle
  to its actor, a tunnel as long as a connector holds its command sender. Nobody
  stops either one explicitly when another connection takes over.
* **Cancellation.** One cancel sender for all clients; storing another one or
  resetting the state drops it, which cancels as well.
* **Failure.** Every `?` in a tunnel's `run` ends it without an event.

## 2. Plan

The order is that of importance; each module stands alone unless it says
otherwise.

1. `CommandServer`: the server, the actors and the tunnels as the server sees
   them, composed: the shared state, both channels and all the tasks are in one
   module because every interesting property relates them. `ConnectionBoard` is its
   abstract specification. Proofs in `CommandServerProofs`.
2. `ServiceController`: `do_connect`, `do_status` and the recursion over challenges,
   keychain, OTP and browser prompts, time-outs and reconnect, against a service that
   answers as 1 does to a single client.
3. `IPsecConnector`: logins with their challenges, sessions, keys, lease, rekeying,
   saving and restoring across a crash, partial failure of an exchange, in the service
   and the standalone client.
4. `TunnelHost`: set-up, rekey and Drop of an old and of a new tunnel over device,
   xfrm tables, routes, rules and DNS of a Linux host, step by step. It refines what 1
   calls the stages of a tunnel and 3 a rekey, but is not composed with them: tunnels
   come and go as they like.
5. `Keepalives`: both keepalive runners with the tasks and channels of a tunnel that
   is up. Proofs in `GatewayProofs`, with those of 8: both are about a client and its
   gateway.
6. `Profiles`: files, memory and the settings window.
7. `Desktop`: the tray, the tasks behind it, the prompt.
8. `Gateway`: the requests to gateways and the cache of what they say.
9. `Standalone`: a run of the executable: options, probing, the factors of a login,
   the listener for the browser, signals.

All of these exist, and each has a module of proofs, `<module>Proofs` (that of 5 and 8 is one):
every invariant that a passing run checks, every action property and the refinement of the
board are theorems, 33 in all. Left, as a pure function to be checked against a reference
definition: `ranges_to_subnets` of `util.rs`.

### How the proofs are laid out

Each module of proofs first states the inductive invariant as a conjunction of named
parts, a line of comment each, then lemmas about the operators of the model, then one
lemma per part (`<Part>Init`, `<Part>Next`) with a step per action, and at its end the
theorems. What the model's operators do is proved once (`*Shape`, `*Is`, `*Steps`
lemmas) and cited. No theorem has a bound of a run among its hypotheses: the constants are
only what the `ASSUME` of the module says, which TLC evaluates on every run; where more
is needed (`ServiceController`) the theorem names it. What is said of all the proofs:

* `Spec` is the specification without fairness, so the theorems are about safety.
* Liveness (`RequestsAnswered`, `NothingLeftOver`, `CommandsEnd`, `DeadTunnelsEnd`, `TasksEnd`,
  `CallsEnd`, `RunsEnd`) is out of the prover's reach and is only model-checked.
* None of the modules with theorems has a recursive operator; lists are handled by `Len`,
  indices, `Head` and `Tail`. What `retain` leaves of a list is defined by the places it
  keeps (`Without`), and that a set of places has a first one comes from inclusion being
  well-founded among finite sets, not from an induction theorem.

## 3. CommandServer

### State and code

| TLA+ | Code |
|---|---|
| `status`, `session`, `connector`, `cancel` | the fields of `ConnectionState` in `snxcore/server.rs`, all behind its mutex |
| `actor[k]`, `queue[k]` | the task of `spawn_connector_actor` and the channel of its `ConnectorHandle`s, with room for 16 requests (`server.rs:125`; `RequestCapacity`); the head of the queue is the request being served |
| `sender[k]` | `command_sender` of the connector: the tunnel whose command channel it can reach |
| `tunnel[t]` | how far `VpnTunnel::run` has come: `created` by the connector, `starting` once spawned, `configured`, `up` once Connected is sent, `closed` after Disconnected was sent; `aborted` and `abandoned` (the set-up failed, before or after it spawned its RekeyCheck task) and `broken` (a send failed) are the exits without an event |
| `events`, `evStage`, `evItem`, `evHandle` | the event channel and the event task |
| `pc[c]`, `handle[c]`, `got[c]` | the handler task of client stream `c`: its next step, the handle and the tunnel in its local variables |
| `target[c]` | history: the tunnel that was there when `disconnect` of `c` began |
| `budget`, `checks` | bounds only |

A step is one critical section of the mutex, or one send, or one reply. So
`connect` is `Connect` (the check), `ResetBeforeConnect`, `NewConnector` or
`NoConnector` (the factory's await), then alternately `SendRequest` and the
reply of the actor (`Restored`, `GatewayAnswers`, `Cancelled`, `Created`,
`NotCreated`), `SessionGranted` or `AskForCode` (connect_for_session) and
`SpawnTunnel`; any error leads to `RequestFailed`, the reset in
`handle_packet`. `challenge_code` is `ChallengeCode`, `StoreCancel` and the
same continuation. `disconnect` is `Disconnect` (fire_cancel), `FindConnector`,
two requests to the actor and `Disconnected`. An event is applied by
`TakeEvent`, `AskConnector`, `EventHandled` by the actor, and `ApplyConnected`,
`ApplyDisconnected`, `ApplyCheck` or `EventFailed`.

Details that matter and are kept: the first reset of `connect` happens after its
check and under another lock; `NewConnector` stores over whatever is there; the
cancel receiver resolves when its sender is fired, overwritten or dropped, and a
restored session that fails keeps the receiver for `authenticate`; a request
that fails resets the state even when another client owns it by then; an error
of `handle_tunnel_event` resets the state and drops the event; `Connected` is
applied without a look at the status; `create_tunnel` replaces the command
sender before it can fail; a tunnel's RekeyCheck task outlives the tunnel.

Abstracted: framing, texts, `ConnectionInfo` apart from its tunnel, the
statistics poller, `GetStatus` and a refused Connect (no change of state), and
the gateway, whose answers are any session, challenge or error, at any time or
never. Which of the two kinds of connector is used does not matter to the server:
the SSL one never restores a session and never fails a RekeyCheck, so its
behaviours are among those of the model.

### Runs

| Run | Instance | What it shows |
|---|---|---|
| `server_races` | two clients (2 + 1 requests of any kind), two connectors, two tunnels, one Check event | `TypeOK`; `ConnectedHasTunnel`, `ConnectingHasOwner`, `MfaHasPendingSession`, `DisconnectedHoldsNothing`: what the status says is so, in every interleaving; `RepliesArrive`: nobody waits on a stopped actor or for a reply that does not come; `DisconnectReleasesTunnel`: whoever takes or replaces the connector meanwhile, a Disconnect lets go of the tunnel that was there when it came, for good; `BoardSpec`: the server implements `ConnectionBoard` |
| `server_liveness` | two clients, one that connects and answers challenges and one that disconnects | `RequestsAnswered`: a request is answered unless the factory, or the very actor it asks, is left waiting by the gateway for ever, and what is cancelled in an authentication or a challenge ends even then; `NothingLeftOver`: once all is quiet no Connected status and no tunnel remain, but a tunnel that never gets its gateway's hello |
| `server_double_connect` | two clients, one connect each | violates `OneConnectAtATime`: a finding |

**Bounds.** Two clients suffice for every race over the one shared state: the
state keeps no more than one owner per field, and a third client adds only
another party that overwrites. Three requests let a Connect, its Disconnect and a
competing request all overlap, and let an answered Connect be followed by a
second one while the events of the first are still queued. Two connectors and two
tunnels are "the old and the new". An event channel of two is full when both
tunnels have something to report, so tunnels wait for room; an actor's channel of
one (besides the request being served) makes handlers and the event task wait for room there. One Check event is
enough for a failing event to reset a connection it does not belong to. The
liveness run splits the kinds of request between the clients: with two clients
that connect, one may overwrite the cancel sender another is to be cancelled by,
between the check and the wait, and `RequestsAnswered` is then a statement about
the race that `server_double_connect` already shows. `CHECK_DEADLOCK` is off:
clients stop after their last request and the system then rests.

**Fairness.** `FairSpec` assumes weak fairness of what a handler, an actor, the
event task and a tunnel do on their own account: tokio polls every task that is
ready, and no step competes with another for being polled. It assumes nothing of
requests, of failures, or of the gateway, since nothing bounds an exchange with it: an
HTTP request times only the headers, not the body (`tunnel/gateway.rs:254`), the TLS
connection and the hello reply of an SSL tunnel are not timed at all (`tunnel/ssl.rs:134`,
195), and a tunnel reads its command channel only once it is set up (446).
So `RequestsAnswered` excepts a client whose factory or whose own actor is in such an
exchange for ever, which includes a Disconnect queued behind it: that is what the code
does, and `docs/options.md:43` speaks of gateways that hang there. What it does claim is that
nothing else keeps a client waiting, neither a circle of tasks nor a full channel. `NothingLeftOver` names
the tunnel that waits for its hello for ever as its exception.

### Proofs

`CommandServerProofs` proves, for any sets of clients, connectors and tunnels,
any menus, any numbers of requests and any capacity of the event channel:

| Theorem | Property | Argument |
|---|---|---|
| `TypeCorrect` | `TypeOK` | inductive with two facts about who holds what (`Typed`): a handler in a sending or waiting stage holds a connector, one that is to spawn holds a tunnel |
| `NothingHeldWhenDisconnected` | `DisconnectedHoldsNothing` | inductive as part of `Consistent`: every step that makes the status Disconnected is a reset, and a session or connector is only stored together with another status |
| `ChallengeIsPending` | `MfaHasPendingSession` | the other half of `Consistent` |
| `ConnectedIsNeverLeftOver` | `ConnectedHasTunnel` | the property alone is not inductive: that a Connected event is applied before the Disconnected event of its tunnel has to be known. `Announced` adds that a tunnel whose Connected event is pending is up, broken, or closed with its Disconnected event *behind* it, which needs that the channel is first in, first out and that each tunnel sends either event once |
| `ConnectingIsOwned` | `ConnectingHasOwner` | inductive with `Spawning`: a tunnel named by a handler at `spawn` is `created` and is named by no other, so when the handler leaves, the tunnel that takes over is starting |
| `EveryWaiterIsServed` | `RepliesArrive` | `Held` (every handle that is stored, held by a handler or by the event task has a live actor behind it) is not enough: `Matched` adds that the requests on the queues and the parties that wait correspond one to one, each of the kind that is waited for |
| `TunnelsAreReleased` | `DisconnectReleasesTunnel` | inductive with `Releases`: from the time the handler has taken a connector, the stored one leads to the target only if it is that one, and not even then once TerminateTunnel is served; a tunnel is created once (`Commanding`), so none leads to it again; `Matched` says which request the reply is for |
| `ServerImplementsBoard` | `BoardSpec` | the refinement: the initial states map to the board's, and each step of `Next` is shown to be `Announce`, `Withdraw`, `Clear` or a stutter, from `Announced` (a tunnel's events come in order and once) |

Only model-checked: `RequestsAnswered` and `NothingLeftOver`, which are liveness.

### Findings

* `connect` refuses a second connection with "Another connection is already in
  progress!", but it tests the status under a lock that it gives up before it
  awaits the factory. Two Connects sent at once are both admitted; the second
  connector replaces the first, whose client is cancelled and whose failure then
  resets the state under the second (`server_double_connect`).
* Observed, not a run: after a Disconnect that came while a tunnel was being set up
  the status turns to Connected, until the Disconnected event of that same tunnel
  follows (`server.rs:302`); the tests of the repository expect Disconnected
  (`tests/test_server.rs:291`), from a tunnel that announces itself in time. `NothingLeftOver`
  shows that it does not stay so, and `ServiceController` what the front end makes of it.
* Observed, not a run: a reset between the actor's reply and `connect_for_session`
  (`server.rs:393`) leaves a status that asks for a code and a session, but no connector:
  the code fails with "No connector" and resets the state. `MfaHasPendingSession` speaks of the session only.
* Not a violation of anything written: a tunnel that fails in its set-up or by a
  failed send reports nothing. `ConnectedHasTunnel`, `ConnectingHasOwner` and
  `NothingLeftOver` name these exits (`aborted`, `abandoned`, `broken`) as the
  exceptions they are.

## 4. ServiceController

### State and code

`params` (chosen once per behaviour), `mfa_index` and `password_from_keychain`
are the fields of those names. `pc` says where the current `command` is, `frames`
holds the calls of `process_mfa_request` that wait for `do_challenge_code`: the
recursion `do_status` - `process_mfa_request` - `do_challenge_code` - `do_status`
is a stack of them, and `Unwind` is the code after the call, where the keychain is
written. `stream` is the re-used stream of `GetStatus` with the replies that have
not been read. `request` is the request on a stream of its own that the
controller waits for; one it gave up waiting for goes to `orphans`, because its
handler in the service goes on. `late` is the elapsed `CONNECT_TIMEOUT` of
`do_connect`. `status`, `challenge`, `posed` and `passwords` are the service: what
`CommandServer` shows to its only client. A login that a reset cancels has the stage
`cancelled`: its handler answers yet, and may store its session after the reset
(`GrantLate`, `PoseLate`). `coming` counts the tunnels that were spawned and have not
announced themselves; a Connected event (`TunnelUp`) is applied whatever the status is, after
a Disconnect or in the middle of the next login, and the Disconnected event or a failed check
of a tunnel (`TunnelDown`) resets the state at any time (`server.rs:284-304`).
`lost`, `retried` and `since` are history: `since` holds the statuses the service has had
since the command was given, or since it reset the state for the Disconnect it was sent.

Left out: the time a Connect spends in the factory with the status still Disconnected, which
is in `CommandServer`, and the answer to a login the controller has abandoned that comes in the very
moment it is cancelled.

Texts are abstracted to what they are: `n` is the answer to the n-th password
challenge of a login, whoever gives it; the configured password is by the
definition of `password-factor` the answer number `password_factor`.

### Runs

| Run | Instance | What it shows |
|---|---|---|
| `controller_commands` | two commands of any kind, up to two challenges per login; logins with two password challenges and no keychain, and with one and a keychain; failed attempts; interruptions at prompts, the one for the PIN included, in the pause of a reconnect and while the service disconnects | `SecretsFit` (each challenge gets its own answer, unless one was repeated, and the keychain the password), `ResultsTrue` (the status a command returns is one the service has had since the command was given, after a Disconnect since the reset for it, and an error leaves no login open), and `CommandsEnd`, which relies on the time-outs only |
| `controller_keychain` | one connect, two password challenges and a keychain | violates `KeychainHoldsPassword`: a finding |

**Bounds.** Two commands are one that fails or is interrupted and one that meets
what it left behind (`Reconnect` is itself a Disconnect and a Connect). Two
challenges make the recursion two deep, which is where the order of unwinding
shows. The keychain and the configured secrets are in separate configurations, since the
one is asked only where the other is not set.

**Fairness.** The controller's own steps, the clock and the start of a handler
that was sent a request. Not the gateway, the tunnel or the end of a handler's work:
time-outs must do. `CommandsEnd` assumes that no prompt stays open for ever.

### Proofs

`ServiceControllerProofs` proves, for any number of commands, challenges and failed attempts:

| Theorem | Property | Argument |
|---|---|---|
| `ControllerTypes` | `TypeOK` | that `mfa_index` stays below the number of challenges needs `Counts`, which relates it to the challenges the service has posed |
| `ResultsAreTrue` | `ResultsTrue` | `Past`: the status is in `since`, and so is every status that is still to be read of the stream while a command runs; `OneReply` (the stream holds the reply that is waited for and no other), `OneLogin` (one request for a login at a time is at the gateway, and it is the controller's while it follows the login) and `MfaOwned` (a status that asks for a code belongs to a login somebody follows) |
| `SecretsReachTheirFactor` | `SecretsFit` | `ReadsTrue`: a challenge that is read is the one the service waits for, if it still waits, and fits the index; `PasswordKept` for the keychain |

Their hypotheses are named definitions. `Harmless`: a command is interrupted at a prompt, in a
pause or while it disconnects, not while a reply on the stream of `GetStatus` or a request
of a login is on its way; without it the properties are false, as the observation below
says. `FirstFactorStored`, for `SecretsReachTheirFactor` only: where the keychain is used, the
password is the first password challenge; without it the run `controller_keychain`
shows the violation. Both hold of `controller_commands`. `CommandsEnd` is only model-checked.

`ResultsTrue` does not say that a Disconnect returns Disconnected, because it need not: a
tunnel that was being set up when the Disconnect came announces itself after the reset, and
`do_status` reads Connected (`controller.rs:340`, `server.rs:302`). `tests/test_server.rs:291`
asserts Disconnected of a service whose tunnel has announced itself. What is proved is that nothing
older than the reset is ever returned.

### Findings

* Whether an input goes to the keychain is decided by `mfa_index` after the
  recursion has advanced it. With a password that is the second password challenge
  the keychain ends up with the answer to the first (`controller_keychain`). By the
  same comparison, a password that is the first of two is not stored at all.
* Observed, not runs: `mfa_index` counts answers, not factors, so that when the gateway
  repeats the first of two password challenges after a failed attempt, it is answered
  with the configured password of the second (`controller.rs:182`; `SecretsFit` excepts
  repeated challenges). And the stream of `GetStatus` is put back before the reply is
  read, so a command that is dropped while it waits for a status leaves its reply to the
  next command (`controller.rs:357`; the run interrupts commands at prompts, in pauses and at disconnects only).
  After a time-out this does not happen: the stream is dropped then.

## 5. IPsecConnector

### State and code

| TLA+ | Code |
|---|---|
| `connector` | the fields of `IPsecTunnelConnector` in `snxcore/tunnel/ipsec/connector.rs`; `ike` is the SA of `self.service`, `ccc` stands for the CCC session by the IKE SA it belongs to; `last_rekey` and `last_ip_lease` are kept as the time that has really passed since, and `setback` as how far the clock was set back meanwhile: the clock reads the difference, and `duration_since` fails when it is negative |
| `op`, `at` | the operation the actor serves (restore, authenticate, challenge code, rekey) and the exchange it waits for; an actor serves one at a time |
| `stage` | of the connection: a request is served, the user is asked, a session was returned, a tunnel was created |
| `store` | the row of `ike-sessions.db` for the profile and server |
| `tunnel`, `commands`, `disconnected` | what `run` of a tunnel works with, its command channel, its Disconnected event |
| `disconnecting` | the three steps of `disconnect` in the server |
| `valid`, `spent`, `installed`, `leased` | the gateway: IKE SAs it honours, those it has ever authenticated, the ESP keys and the address it gave last |
| `mode` | the service, or the standalone client of `apps/snx-rs/src/main.rs` |

`do_session_exchange` is `OmReply`, `EspReply` and the save in it; `do_esp_proposal`
is `EspReply` alone; a rekey ends in `SendReKey`. Each exchange may fail
(`ExchangeFails`), and `Remains` says what is left when it does: nothing, an address
or keys that only the gateway knows of, or a lease half taken over. What follows
differs by mode: the service drops the connector (`LoginFailed`, `RekeyFailed`,
`Reset` contain `Drop`), the standalone client ignores an error of a rekey and goes
on.

Abstracted: the IKE messages (external `isakmp` crate; `delete_sa` is taken to delete
the ESP pair), DNS and domain lists (they travel with the address), being offline
(a RekeyCheck that does nothing), whether a user name is configured (any challenge for
it may be answered at once), Terminate (to the tunnel it is what a closed channel is).
One connection exists at a time: the meeting of two is in `CommandServer`. Time
passes once a tunnel runs, in intervals of the RekeyCheck timer.

### Runs

| Run | Instance | What it shows |
|---|---|---|
| `ipsec_sessions` | two successful logins, four key pairs, two addresses, keys and leases that live for two intervals, crashes, suspend, and a clock set back by up to two intervals between two renewals; both modes, with and without `ike_persist` | `TunnelFitsGateway`: partial failures never leave a tunnel on other keys or another address than the gateway's, with the named exceptions; `LoginsEarnSessions`: the saved session is not made of two and was earned by a login, which gives at most one answer by itself; `RestoresWithoutLogin`: a session that the gateway honours is restored; `NothingExpires`: what is checked in time is renewed in time, and renewing keys does not starve the lease; a clock that is set back delays a renewal by no more than it was set back, and by nothing but the next check if it is set back beyond the time of the last one |

**Bounds.** Two IKE SAs are the restored one and its replacement. Four ESP pairs are
those of the tunnel, of a command under way, of the connector and of the gateway,
which is the most that can differ. A channel of one is full with one rekey on
its way. Lifetimes of two intervals with leeways of two make a renewal due at every check, keys and lease at once,
unless the clock was set back; a set-back of one or two then delays it, that of two until the lifetime is over, and
what was just made lies in the clock's future. Longer and shorter lifetimes, and longer set-backs, are the theorem's
(with one login and one address, lifetimes of 1 to 3 were checked once as well). Older timestamps than `MaxAge` behave as
`MaxAge` does, as no lifetime and set-back together exceed it. Symmetry is sound: the run checks safety only, and no constant names a member of
the sets. `CHECK_DEADLOCK` is off because the IKE SAs run out.

No fairness is assumed; that a running tunnel is served its RekeyChecks is a guard of
`Tick`, justified by the ticker task of `run` (10 seconds, against leeways of minutes),
and `late` records when the assumption did not hold, because the computer slept or a
check failed.

### Proofs

`IPsecConnectorProofs` proves, for any IKE SAs, keys, addresses, lifetimes and capacities, in
both programs, with crashes and without, all that the run checks. The invariant is `Kept`:

| Theorem | Property | Argument |
|---|---|---|
| `ConnectorTypes` | `TypeOK` | `Order`: which exchange an operation makes, in which stage |
| `SessionsAreEarned` | `LoginsEarnSessions` | `Saved`: the row of the database belongs to one SA that was authenticated; `AnsweredOnce` |
| `TunnelKeepsUp` | `TunnelFitsGateway` | not inductive, as commands are on their way to the tunnel: `KeysFollow` and `LeaseFollows` relate the connector to what the tunnel has *after* its queue, and say which step of an exchange may differ from the gateway |
| `RenewedInTime` | `NothingExpires` | `Fresh`: by the clock each is one that a check has found below its lifetime less the leeway, or just made, and at most one interval older; setting the clock back only lowers what it reads, so what has really passed exceeds it by the set-back at most |
| `LoginOnlyIfNeeded` | `RestoresWithoutLogin`, an action property | `Restoring` |

`RenewedInTime` needs leeways of two intervals or more, in `ConnectorAssumption`: the code has 60 and
300 seconds against a timer of 10. That the gateway may lose or keep what it pleases is no
hypothesis: `valid` changes freely.

### Observed

* "Delete persistent IKE session if the tunnel cannot be created"
  (`CHANGELOG.md:320`): `create_tunnel` contains that code, behind `?` operators that
  return before it (`connector.rs:786`). The next connect restores the session
  that could not be used.
* Exceptions that the properties name, of which the repository says nothing: a
  standalone client may go on with keys the gateway has replaced, after a lost
  answer to an ESP proposal, until the next rekey; a session restored with its saved
  settings has no lease to renew; a lifetime shorter than its leeway is used to the
  end; a clock that is set back by less than the age of the keys delays their renewal by
  as much (`connector.rs:444`, 451 measure with `SystemTime`).

## 6. TunnelHost

### State and code

| TLA+ | Code |
|---|---|
| `tunnel[t]` | a `NativeIPsecTunnel`, `TunIPsecTunnel` (over TCPT or UDP) or `SslTunnel`: parameters, how far it is, the key pair and the addresses of its session |
| `todo` | the operations on the host that the function it is in has still to await, in their order; `Configure`, `SetUpRouting`, `CleanUpRouting`, `SetUpDns`, `CleanUpDns`, `CleanUp` and `ReKey` give that order |
| `HasDevice`, `HasRouting` | `tun_device` and `routing_configurator` are `Some` |
| `index`, `conf` | `device_index` of a routing configurator, the text `configure_or_cleanup` has read |
| `host` | the kernel's links, routes and rules of table 18000, xfrm states and policies, the sysctl `disable_ipv6`, `/etc/resolv.conf`, and which resolver `detect_resolver` finds |

Every operation is an action of its own (`AddLink`, `AddRoute`, `WriteConf`, ...);
`CanDo` says when the kernel refuses it, and `run_netlink_op`'s tolerance of
EEXIST and ENOENT is in its effect. `CreateFails`, `SetUpFails`, `ReKeyFails`
and `CleanUpFails` are what `?`, `let _ =` and `inspect_err` make of an error, which
is either the kernel's refusal or a fault. The native tunnel's `try_join!` of
routing and DNS puts the DNS operations anywhere between those of routing. The
clean-up in `Drop` follows `Disconnected`, so other tunnels may be created during it.

Abstracted: all split routes are one destination, both keepalive rules one rule, both
policies one, the states of a clean-up are deleted together, the lines of
`resolv.conf` that are not ours are there or not; MTU and sysctls of the device; rule
priorities. `no_routing` is split routing. A TUN device goes when the process dies.

### Run

`host_tunnels`: two tunnels, each native with full routing, IPsec over TUN with
split routing to the same gateway, or SSL with full routing to another one; two
addresses, one rekey each, one fault (any operation, or a crash), either resolver.

| Property | What it says |
|---|---|
| `NothingLeftBehind` | device, states, policies, routes, rules, the IPv6 switch and DNS servers do not outlive the tunnel, and the read-modify-write of `resolv.conf` loses nothing of others |
| `UpTunnelWorks` | while a tunnel is up nobody takes away what it needs, in particular not the clean-up of the one before, and no exclusion rule of another gateway sends its packets into itself |
| `KeysInstalled` | a native tunnel always has both states of one key pair, at every step of a rekey that fails or not |

**Bounds.** What can go wrong between tunnels needs two of them, alive together or
one after the other on what the first one left. Two tunnels of one gateway and of
different ones, with the same and with different addresses, occur. One fault reaches
every error path; a second one would have to undo what the first one left. Symmetry is
sound as only safety is checked. `CHECK_DEADLOCK` is off: all tunnels are gone in the
end. No fairness is assumed.

**Exceptions the properties name.** They are what the code does, and worth its
authors' attention:

* *Native tunnels that overlap with another tunnel* (`disturbed`). The link has a
  fixed name and its EEXIST is ignored, so a native tunnel created while another
  one cleans up shares that one's link and loses it; the clean-up of the first to
  go deletes the link, and that of the second does not find the device and leaves its
  rules. Rules, the IPv6 switch and `resolv.conf` are shared as well. TUN tunnels are
  kept apart by the name of the device, which the second one cannot open before
  the first one has cleaned up everything else.
* *A crash with a native tunnel* (`Haunted`) leaves a link whose default route, EEXIST
  being ignored, keeps every later tunnel from getting its own; a native tunnel with
  the same address cannot be created at all.
* *A routing set-up of a TUN tunnel that fails after the exclusion rule* leaves the
  rule and the IPv6 switch, as the configurator that would undo it is stored last (`tun.rs:173`;
  `CHANGELOG.md:107` says of routing that "a partial failure no longer leaves stale routes behind").
* *A create of the native tunnel that fails in the middle*, a rekey that fails or is
  cancelled by the keepalive before the new session is stored, and a clean-up that
  fails leave what they have done.
* IPv6 is switched on by the clean-up, whatever it was before.

### Proofs

`TunnelHostProofs` proves the four invariants for any sets of tunnels and devices, any
configurations, addresses and numbers of rekeys, and, above all, for any number of faults and
crashes, where the run has one:

| Theorem | Property |
|---|---|
| `HostTypes` | `TypeOK` |
| `KeysAreInstalled` | `KeysInstalled` |
| `NothingIsLeftBehind` | `NothingLeftBehind` |
| `UpTunnelsWork` | `UpTunnelWorks` |

The first two follow from `Kept`. Its core is `HasKeys`: what a native tunnel has installed is told by
what is left of its list (`Configuring`, `Adding`, `Completing`, `Deleting`, `Moving`), which is
how "the old pair until the new one is complete" becomes inductive. The other two need
`InUse`. `Meets`: a native tunnel and another one that is alive with it are both `disturbed`. `LinksInUse`, `KeysInUse`, `RoutingInUse`, `DnsInUse`: each
entry of a table has a tunnel that will remove it, that is, one that is up, is being
set up past the operation that made the entry, or has the operation that removes it still on
its list; `InOrder` keeps the lists in the order this reads off. `SetUpThere` is the converse for
`UpTunnelWorks`: what a tunnel has done of its set-up is there until its clean-up. A step of one
tunnel disturbs the entries of another only where they share a device or the rules, which is
where `disturbed` and `damaged` come from.

The proof corrected the model in three places that one rekey, two tunnels and one fault had
hidden: the clean-up of a disturbed native tunnel may fail to resolve a device although it
is there; a link of a crashed tunnel on *any* device spoils later ones (`Haunted`); and the rules
and routes of an undisturbed tunnel are removed whether or not others are disturbed, so
`NothingLeftBehind` now says so without that exception.

## 7. Keepalives

### State and code

| TLA+ | Code |
|---|---|
| `runner` | `KeepaliveRunner::run`: of `snxcore/tunnel/ssl/keepalive.rs` with the `keepalive_counter` it shares with the receiver, of `snxcore/tunnel/ipsec/keepalive.rs` with its `num_failures` |
| `tunnel` | the select loop of `run` in `ssl.rs` and `ipsec/imp/tun.rs`; while it sends a packet of the device the branches of the select stand still, the IPsec runner among them |
| `receiver` | the task of incoming packets |
| `wire`, `outgoing`, `incoming` | the channel task (`make_channel` of `ssl.rs`, `tcpt.rs`, `udp.rs`) with its two bounded queues |
| `device`, `asked`, `replies` | where keepalives and their replies are |
| `online`, `ready`, `armed` | `Platform::is_online`, the flag a rekey clears, the options that switch keepalives off |
| `unanswered`, `refused` | history: what the properties compare the count with |

The SSL runner is a task of its own that counts, then sends, then sleeps; the
receiver stores a zero for every packet, in between if it likes. The IPsec runner is a
branch of the select; a reply in its socket answers whichever keepalive is out. Neither
gives up while the network is down. The channel task ends with the connection, with its
last sender, or when a packet comes in that nobody receives.

### Run

`keepalives`: either kind of tunnel, three retries, queues of one place, two changes of
the network, one rekey. `KeepaliveTypeOK` holds the counters between zero and the retries (the
mutant is the decrement that `CHANGELOG.md:363` reports as fixed); `GiveUpMeansSilence`:
a tunnel is given up only after as many keepalives as are allowed without a packet, unless
what came in is not handled yet or the runner's socket refused to send; `DeadTunnelsEnd`:
if the network stays up, a tunnel that cannot hear its gateway ends, and its keepalive
task and its connection do not outlive it for good.

**Bounds.** Three retries are one after which nothing happens, one before the last, and the
last; the code has 3 and 5. A queue of one is full with one packet. One keepalive in each
place is enough for a late reply to answer the next one. `CHECK_DEADLOCK` is off: a tunnel
that has ended stops.

**Fairness.** Sleeps end and sends time out, so the runner, the receiver and the channel
task go on (WF). A select of tokio polls its branches in random order, so a branch that is
ready again and again is taken: strong fairness of the runner, of its stop, of the end of a
rekey, and of the receiver's stop. Nothing is assumed of the gateway and of the user.

### Proofs

The second half of `GatewayProofs` proves `KeepaliveTypeOK` (`CountersStayInRange`) and
`GiveUpMeansSilence` (`OnlySilenceIsGivenUp`) for any number of retries, any queues and any
bounds. The names of `Keepalives` (`KeepaliveSpec`, `TunnelKinds` and so on) are its own, so
that one module can extend it and `Gateway`. The invariant is `Accounted`: for SSL the count is never ahead
of `unanswered` unless something has come in that the receiver has not handled; for IPsec
the failures, with the keepalive that is out, are not, unless a reply is in the socket or a
send was refused. That a task between its check and its `fetch_add` has room to count is
the part that makes it inductive. `DeadTunnelsEnd` is liveness and is only model-checked.

### Observed

The SSL count is not set back while the network is down, so a tunnel may be given up at the
first check after it has come back. After a failed write to the device the receiver of an
SSL tunnel ends without a word (`ssl.rs:410`), and the tunnel is deaf until the keepalives
have given it up.

## 8. Profiles

### State and code

| TLA+ | Code |
|---|---|
| `files`, `order` | `profiles/*.conf`, `snx-rs.conf` and `profiles.order` |
| `store`, `connected` | `ProfilesState` behind the mutex of `snxcore/profiles.rs` |
| `form` | `SettingsWindow` and `SettingsState` of `apps/snx-rs-gui/src/ui/settings.rs`: rows, selected index, fields, the login types of the list |
| `work` | what the handler that runs has still to do to files and memory, in its order |
| `fetches`, `logins`, `deletions`, `keychain` | `fetch_server_info` tasks, logins that will store their password, `delete_password` tasks, the OS keychain |

An element of `work` is a call, and its `do` says how far it has come: a save goes through
`truncate`, `write`, `put` and, for a new profile, `clear` and `order`; a removal through
`unlink`, `clear` and `order`, a drag through the last two, for both change the memory under
its lock before they touch a file. Each of these writes and the removal may fail (`WriteFails`,
`UnlinkFails`, `OrderFails`), which no handler notices: `profiles.rs` drops the errors of
`save_profile_order` and `remove_file` (71, 119, 135, 137). `forget` spawns a `delete_password` task. The handlers are `Select`, `ProfileNew`,
`ProfileRename`, `ProfileReorder`, `ProfileDelete`, `SaveSettings` (OK and Apply),
`FetchInfo`; `Stop` is the end of the program, in the middle of `work` if it is a crash, and
`Start` loads what is there (`Loads` is `load_all_from` with its comparator, over a
directory read in any order). `Reread` is what writing and reading a file does to the
options: there is no line for the color theme.

### Run

`profiles_window`: a default profile and two more, one name and one gateway that lists
nothing, three handlers that write, one crash, failed write or failed removal (1,073,705 states).
`StoreSurvives` has three parts, which hold at every moment, also between the steps of a handler:

* `FilesHoldStore`: the files say what the memory says, except for the profile that is being saved
  or whose save failed.
* `RestartKeepsProfiles`: a restart brings back every profile that has its file and no other. What it
  may also bring back is the default profile, which always exists, and one whose save or removal
  is under way or failed (`lost`): a deleted profile whose file could not be removed returns.
* `RestartKeepsOrder`: they come back in the order of the window, those that the order file does not
  list by name. That is claimed only where the code can keep it: not while the order file is being rewritten
  (a crash between truncation and write leaves it empty) and not after a write of it that failed until the next
  one (`astray`).

`WindowFollowsStore`:
the rows are the profiles in memory in their order, and the fields are those of the
selected profile, so that what is saved goes where the user sees it.

**Bounds.** Three profiles are needed for a drag over one that stays; three writing handlers
create them and move one. One fault reaches every point between two writes; a second one
would have to undo the first. Gateways that list nothing keep late answers in the run and
the lists out of it. Symmetry in the identifiers is sound as only safety is checked.
`CHECK_DEADLOCK` is off: the handlers run out. No fairness is assumed. More changes and
more faults are left to the proofs.

### Proofs

`ProfilesProofs` proves, for any finite set of identifiers, any names, servers and login types, and
any numbers of changes and faults:

| Theorem | Property | Argument |
|---|---|---|
| `ProfilesTypes` | `TypeOK` | `Types`: the sequences that drags, removals, loads and the rows of the window make are sequences of profiles and rows |
| `ProfilesStoreSurvives` | `StoreSurvives` | `FilesHoldStore` needs `StoreFits` (no two profiles in memory share a file) and `SaveFits` (a save writes the file of the profile it replaces, or nobody's), so that a write disturbs one profile only; the order needs `OrderFits`: but between `unlink`, `clear` and `order`, and after a write that failed, the order file lists the memory in its order, as far as it goes, and with `FilesKnown` (no file that the memory does not know, but one that could not be removed) every list that `Loads` allows is then the memory without what was never saved |
| `ProfilesWindowFollowsStore` | `WindowFollowsStore` | `RowsFit`: the rows are those of the memory *as it will be when the handler has ended* (`Settled`), for the window is changed first and the store by the last step of a save; `WorkShape`: calls after the first save only what is in memory already, under its name, so that `Settled` does not change when a call is done |

`Kept`, the conjunction of these parts, is an invariant given `Types` (`ProfilesInvariant`); TLC
checked each part on the run's instance before it was proved. Two cases make it long: a
`Start` in an arbitrary state of the directory, where the loaded list is any arrangement that
`Before` allows, and a drag, where positions in the memory, in the rows and in the order
file move together (`From`, `Whence`).

The proof found what the run had not. `StoreSurvives` and `WindowFollowsStore` were once stated
without `Distinct`, and three changes found nothing wrong with that; the step of `Start` could not
be proved, and with five changes TLC gives the reason. A crash leaves a file truncated; the next
program loads it as a second profile with the identifier of the default one (`params.rs:597`);
the two are in memory with other profiles between them, and are one in the order file, so a
restart puts them together again. `Get` finds only the first of them, and so do the handlers.
`Distinct` names the exception: two profiles in memory with one identifier.

### Observed

* A row dropped on the place of the selected row changes the selected profile without
  loading its fields (`settings.rs:766`): named as the exception `dropped`.
* Apply with a server name that no gateway has answered for saves a profile without a login
  type, although `docs/options.md:6` calls it required (`settings.rs:893`); a color theme is
  never saved (`params.rs:672-787`).
* A keychain option that is turned off deletes the password by a task of its own, and a
  login that began before stores it afterwards (`settings.rs:994`, `controller.rs:153`),
  although the option says whether a password is stored (`docs/options.md:28`).
* An empty or torn file is loaded as a profile with the identifier of the default one
  (`params.rs:597`), which the order file cannot tell from the real one; see Proofs.

## 9. Desktop

### State and code

| TLA+ | Code |
|---|---|
| `events` | tray events on their way to `handle_tray_events` of `apps/snx-rs-gui/src/main.rs`, each sent by a spawned task, so in any order |
| `cancelSender`, `tasks` | the sender `handle_tray_events` keeps for the attempt; `on_connect` and `on_disconnect`, each with its phase |
| `opening`, `prompt`, `window` | the event loop of the windows: prompts about to open, the open one, the status window |
| `updates`, `tray` | the channel of tray commands and what the tray shows |
| `poll` | `status_poll` |
| `service` | the status of the service |

`HandleConnect` takes the sender of the attempt before it away, which cancels that one;
`HandleDisconnect` hands it to a task that first sends Disconnect and cancels afterwards. An
attempt waits for the gateway, the service and the user (`Step`), and every phase but the first may be cut
short by its cancel channel: it asks the gateway for its login prompts (`GatewayAnswers`,
`main.rs:304`) before it listens to that channel (321). `OpenPrompt` opens the one prompt window, or tells an attempt
that there is one already.

### Run

`desktop_tasks`: two commands, from the tray, the status window, another instance or
auto-connect, two changes of the service that nobody here asked for, a tray channel of one
place. `OneVisibleAttempt`: each attempt but the newest is cancelled or is about to be, and
an attempt that waits for input has its window on the screen. `TasksEnd`: every task reports
and ends, unless the user leaves its own prompt open, or the gateway that it has asked itself never
finishes its reply; another task that hangs does not hold it up.

**Bounds.** Two tasks are the attempt and the one that replaces or ends it; that a third task begins while
a Disconnect still holds the sender of the first is left to the theorem. Two changes of the
service are a tunnel that comes and goes, or a service that stops and starts. A channel of
one is full with one report. `CHECK_DEADLOCK` is off: commands run out.

**Fairness.** Spawned tasks, the event loop, the tray and the poll loop run when they can (WF);
requests of a controller end by its time-outs. Nothing is assumed of the user, nor of the gateway
an attempt asks itself: of that request only the headers are timed (`tunnel/gateway.rs:254`).

### Proofs

`DesktopProofs` proves `TypeOK` (`DesktopTypes`) and `OneVisibleAttempt` (`OneAttemptInSight`) for any
commands, tasks, changes and capacity. The invariant is `Orderly`; its part that matters is
`LatestSender`: no attempt is younger than the one whose sender the handler keeps, and a sender
is only held by a younger task, which is why a replaced attempt is cancelled or is about to be.
`TasksEnd` is only model-checked.

### Observed

* An attempt whose gateway does not answer posts Disconnected whatever the service says
  (`main.rs:312`), and the poll loop, which compares with what it posted itself
  (`main.rs:237`), does not correct the tray until the service changes again: the menu then has
  no Disconnect item for a tunnel that is up, which `CHANGELOG.md:101` has it show.
* Between the two steps of a Disconnect the attempt may still send its Connect
  (`main.rs:283-287`); the prompt of a cancelled attempt stays open and refuses later ones
  (`ui.rs:24`); auto-connect is given up for good when the service is not there at the first
  poll (`main.rs:248`).

## 10. Gateway

### State and code

`call[c]` is one run of a method of `CccGatewayConnector` in `snxcore/tunnel/gateway.rs`, or a
login of `SslTunnelConnector`; `cells` is `GATEWAY_INFO_CACHE`, `holder` the permit of each
`OnceCell`, and `version` stands for what a gateway says of itself at a time. `Key` is the key of
a cell. A reply is the set of groups of fields it has; `Kinds` is the order in which the
untagged `ResponseData` of `snxcore/model/proto.rs` tries them, `Understood` what each method
accepts. A request is timed until the headers of its reply are there (`Headers`, `NoAnswer`); the body
(`reads`) ends when the gateway likes (`Answered`, `BreaksOff`), or never. `Dropped` is a call whose future is dropped.

### Run

`gateway`: three calls (the information, a login, any method) of three connectors to one
gateway, two of which share a cell, and one change of what the gateway says. `AskedOnce`: each
cell is filled by one request of a connector with the same trust in certificates, and all who
are told are told the same; the mutant is the key by name alone that `CHANGELOG.md:52` reports as
fixed. `LoginsGoWell`: a login with a certificate goes to the path that the gateway gave, and the
gateway's own reply, a refusal with an error code too, is understood as what it is.
`CallsEnd`: a call hangs only on a body that never ends, that of its own reply or that of the reply to the one
call that asks for what it wants to know; whatever else fails, is dropped or hangs, it ends.

**Bounds.** Three calls are one that asks and two that wait, or one that has other parameters.
**Fairness.** Headers come or time out (WF, `gateway.rs:254`); nothing is assumed of a body (257-258); a permit is handed on in order, so who
waits for a cell that becomes free again and again gets it (SF). `CHECK_DEADLOCK` is off: calls
run out. That what is told may be out of date is how the cache is meant.

### Proofs

The first half of `GatewayProofs` proves `TypeOK` (`GatewayTypes`), `AskedOnce` (`InformationAskedOnce`) and `LoginsGoWell`
(`LoginsAreUnderstood`) for any calls, parameters and changes. `HoldersAsk`: a call asks exactly while
it holds its cell; `CellsAgree`: the cell is empty then, and who was told was told what it
holds. The lemma `KeyTrust` says that two connectors share a cell exactly if they trust alike, and
`ProperUnderstood` goes through the kinds of `ResponseData` in their order: every reply that is
proper to a request is understood as one to it. `CallsEnd` is only model-checked.

## 11. Standalone

### State and code

| TLA+ | Code |
|---|---|
| `mode`, `params` | `CmdlineParams` merged into `TunnelParams`; `Merge` is `merge_into_tunnel_params` |
| `at` | how far `main_info`, `main_enroll`, `main_renew` or `main_standalone` of `apps/snx-rs/src/main.rs` is |
| `probe`, `transport` | `NattProber` of `snxcore/tunnel/ipsec/natt.rs`, `esp_transport` |
| `challenge`, `mfa_index`, `answer`, `passed`, `again` | the loop over the challenges of a login, and the gateway's side of it |
| `listener`, `connections` | `OtpListener` of `snxcore/otp.rs` and what connects to it |
| `signals`, `commands`, `events` | the task that waits for signals, the two channels of the tunnel |

Two clocks run where the code measures time: tenths of a second while it probes, half minutes
while it listens; a half minute passes only when nothing else can be done at once.

### Run

`standalone`: two configuration files and four command lines (which reach all modes, both
connectors, every transport), gateways with one or three factors that may pose one again, probes
answered after 0.1, 0.4 or 1 second, knocked for, oddly or never, and three connections to the
listener. `OptionsObeyed`: the configured password answers the factor it is for and no other, the code
every other one, a token only the provider's challenge, and UDP is used where probes are answered
within a second. `FirstRequestDecides`: connections that say nothing or are closed do not count, and
none waits longer than the silent ones before it may last. `RunsEnd`: unless it waits for the gateway for ever,
a run ends or has its tunnel, though no browser ever comes, no probe is answered and silent connections hold up
the listener, and a signal it has heard ends it.

**Bounds.** Three connections are a silent one, one that is closed and one that asks, in any order.
The delays fall into the first, second and third try. One repetition makes the count of answers and of
factors differ. `CHECK_DEADLOCK` is off: runs end.
**Fairness.** The process goes on, a prompt is answered, time passes. Nothing is assumed of the gateway
(`AwaitsGateway`): of an HTTP request only the headers are timed (`tunnel/gateway.rs:254`), the TLS connection
and the hello reply of an SSL tunnel (`tunnel/ssl.rs:134`, 195) and the handshake of TCPT
(`ipsec/imp/tcpt.rs:67`) are not. So a run whose gateway falls silent there stays as it is, and once its task
for signals is armed not even a signal ends it, for an SSL tunnel reads its commands only from line 446 on; before that
task, a signal kills the process.

### Proofs

`StandaloneProofs` proves, for any parameters, lists of factors and numbers of connections, and
delays of up to a second:

| Theorem | Property | Argument |
|---|---|---|
| `StandaloneTypes` | `TypeOK` | `Asked`: the pending challenge is the gateway's next factor or the connector's own question before the first |
| `OptionsAreObeyed` | `OptionsObeyed` | `Fits`: `mfa_index` is the number of challenges for a text that have passed, and one more while an answer is with the gateway; `Probed`: an answer on its way shows that the gateway can be reached, and at the last try of a round of a gateway that answers none is left, for its answer to that try comes within the second that is waited |
| `FirstRequestIsDecisive` | `FirstRequestDecides` | `Listened`: whoever was served and is not in the channel said nothing, and the wait of the next ones is bounded by the silent connections served *before*, with the idle time of the one being served; the property, which counts all before one, is weaker and not inductive |

`RunsEnd` is only model-checked.

### Observed

A signal before the task that waits for it was polled kills the process without clean-up
(`main.rs:347`); the URL is printed before the listener is bound (`main.rs:313`); a code that is
configured answers every factor but the password's; a challenge posed again counts as another factor
(`OptionsObeyed` excepts it, as `SecretsFit` does).

## 12. Not modelled

The IKE and ESP protocols (the `isakmp` crate, not in this repository), the formats of packets and
messages (SLIM, S-expressions, the fields of CCC), the calls to Windows and macOS, the frame of
the Windows service manager, the look of windows, icons and menus, the embedded browser, the
`util.rs` functions on addresses and bytes, and the translations: parsing, system calls,
presentation, or pure functions that unit tests reach. What the models need of them is a
nondeterministic answer.

The modules are composed where one property spans them (`CommandServer` is the server, its
actors and its tunnels in one); otherwise each takes its neighbours as what they may answer. The
re-authentication time-out of the SSL tunnel (`ssl.rs:205`), which panics when the gateway's value is
below the leeway, is a bound on one value without a state before or after it.
