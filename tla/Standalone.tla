----------------------------- MODULE Standalone -----------------------------
(***************************************************************************)
(* One run of snx-rs from a command line: the one request of the info,     *)
(* enroll and renew modes, or the standalone mode, which finds out how to  *)
(* reach the gateway (NattProber), logs in, with a listener for the        *)
(* browser where the gateway wants one (OtpListener), and runs the tunnel  *)
(* until a signal or an error ends it.                                     *)
(*                                                                         *)
(* Two clocks run where the code measures time: tenths of a second while   *)
(* it probes, half minutes while it listens.  What a tunnel does to the    *)
(* host is in TunnelHost, what the connector tells the gateway in          *)
(* IPsecConnector; an answer is only what it is taken from.                *)
(***************************************************************************)
EXTENDS Integers, Sequences, FiniteSets

CONSTANTS
    Configs,        \* configuration files, with the defaults
    CommandLines,   \* the parameters given on the command line
    FactorLists,    \* the factors a gateway may ask for, in their order
    Delays,         \* how late a gateway may answer a probe, in tenths of a second
    MaxAgain,       \* bound: how often a gateway poses a challenge again
    MaxConnections  \* bound: connections of the browser, and of others, to the listener

Modes == {"standalone", "info", "enroll", "renew"}
ParamsType == [server : BOOLEAN, login : {"none", "factors", "mobile"}, user : BOOLEAN,
               cert : {"none", "file", "pkcs11"}, cert_password : BOOLEAN, reg_key : BOOLEAN,
               password : BOOLEAN, password_factor : 0..3, mfa_code : BOOLEAN, ike_persist : BOOLEAN,
               ipsec : BOOLEAN, transport : {"auto", "udp", "kernel", "tcpt"}, port_knock : BOOLEAN]

Factors == {"PasswordInput", "IdentityProvider"}
Kinds == {"token", "other", "closed", "silent"}

\* merge_into_tunnel_params: what the command line gives replaces what the file says.
Merge(cmdline, config) == [p \in DOMAIN config |-> IF p \in DOMAIN cmdline THEN cmdline[p] ELSE config[p]]

ASSUME StandaloneAssumption ==
    /\ \A cmdline \in CommandLines, config \in Configs : Merge(cmdline, config) \in ParamsType
    /\ \A f \in FactorLists : f \in Seq(Factors)
    /\ Delays \subseteq 1..10 /\ Delays # {}
    /\ MaxAgain \in Nat /\ MaxConnections \in Nat

VARIABLES
    mode, params, \* what the run is to do, constant
    factors,      \* what the gateway asks for, constant
    natt,         \* whether the gateway answers probes: "open", "knock", "odd" or "closed", constant
    at,           \* where the run is
    restoring,    \* a saved session is to be tried first
    transport,    \* esp_transport, "none" before it is known
    probe,        \* the probes under way
    challenge,    \* the challenge to answer, "none" without one
    passed,       \* the factors the gateway has let pass
    again,        \* how often it has posed one again
    mfa_index,    \* the challenges answered that asked for a text
    answer,       \* the answer that is with the gateway
    listener,     \* the listener for the browser
    connections,  \* the connections made to it
    signals,      \* the task that waits for signals: "none", "spawned", "armed", "fired" or "done"
    commands,     \* a Terminate waits for the tunnel
    events        \* events that wait for their task

given == <<mode, params, factors, natt>>
probing == <<transport, probe>>
login == <<challenge, passed, again, mfa_index, answer>>
browser == <<listener, connections>>
tasks == <<signals, commands, events>>
vars == <<given, at, restoring, probing, login, browser, tasks>>

Ended == {"ended", "failed", "killed"}
Stages == Ended \cup {"begin", "pin", "request", "information", "connector", "probe", "session", "question",
                      "bind", "listen", "reply", "create", "configure", "up", "stopped"}

NoProbe == [round |-> 0, try |-> 1, now |-> 0, due |-> {}, broken |-> FALSE]
NoListener == [clock |-> 0, serving |-> 0, accepted |-> 0, idle |-> 0, mailbox |-> 0]

-----------------------------------------------------------------------------
(* Parameters *)

\* The connectors: a mobile access portal is for SSL.
OverIPsec == params.ipsec /\ params.login # "mobile"

OtpTimeout == 4    \* OTP_TIMEOUT, in half minutes
HeaderTimeout == 1 \* how long a connection may be silent, in half minutes

\* TIMEOUTS, in tenths of a second.
Timeouts == <<2, 5, 10>>

TypeOK ==
    /\ mode \in Modes /\ params \in ParamsType /\ factors \in Seq(Factors)
    /\ at \in Stages /\ restoring \in BOOLEAN
    /\ transport \in {"none", "udp", "kernel", "tcpt"}
    /\ probe.round \in 0..2 /\ probe.try \in 1..Len(Timeouts) + 1 /\ probe.broken \in BOOLEAN
    /\ challenge \in Factors \cup {"none", "MobileAccess", "UserNameInput"}
    /\ passed \in 0..Len(factors) /\ again \in 0..MaxAgain /\ mfa_index \in 0..Len(factors) + MaxAgain
    /\ answer \in {"none", "password", "mfa_code", "typed", "token"}
    /\ listener.clock \in 0..OtpTimeout /\ listener.idle \in 0..HeaderTimeout
    /\ listener.accepted \in 0..Len(connections) /\ listener.serving \in {0, listener.accepted}
    /\ listener.mailbox \in 0..listener.accepted
    /\ Len(connections) <= MaxConnections
    /\ signals \in {"none", "spawned", "armed", "fired", "done"} /\ commands \in BOOLEAN
    /\ events \in Seq({"Connected", "Disconnected"}) /\ Len(events) <= 2
    /\ challenge # "none" <=> at \in {"question", "bind", "listen", "reply"}
    /\ at \in {"create", "configure", "up", "stopped"} => passed \in {0, Len(factors)}

Init ==
    /\ mode \in Modes /\ factors \in FactorLists
    /\ \E cmdline \in CommandLines, config \in Configs : params = Merge(cmdline, config)
    /\ natt \in IF mode = "standalone" /\ OverIPsec /\ params.transport = "auto"
                THEN {"open", "knock", "odd", "closed"} ELSE {"open"}
    /\ at = "begin" /\ restoring = params.ike_persist
    /\ transport = "none" /\ probe = NoProbe
    /\ challenge = "none" /\ passed = 0 /\ again = 0 /\ mfa_index = 0 /\ answer = "none"
    /\ listener = NoListener /\ connections = <<>>
    /\ signals = "none" /\ commands = FALSE /\ events = <<>>

Goes(from, to) == at = from /\ at' = to
MayFail(from, to) == Goes(from, to) \/ Goes(from, "failed")

-----------------------------------------------------------------------------
(* Before the login *)

\* What a mode must be given.
Complete ==
    /\ params.server
    /\ mode = "standalone" => params.login # "none"
    /\ mode \in {"enroll", "renew"} => params.cert # "none" /\ params.cert_password
    /\ mode = "enroll" => params.reg_key

Begin ==
    /\ LET pin == mode = "standalone" /\ params.cert = "pkcs11" /\ ~params.cert_password
       IN Goes("begin", IF ~Complete THEN "failed" ELSE IF pin THEN "pin"
                        ELSE IF mode = "standalone" THEN "information" ELSE "request")
    /\ UNCHANGED <<given, restoring, probing, login, browser, tasks>>

\* The user enters a pin, or nothing, or has no terminal.
AskPin ==
    /\ MayFail("pin", "information")
    /\ UNCHANGED <<given, restoring, probing, login, browser, tasks>>

\* main_info, main_enroll, main_renew: one request, and what it returns is printed or, a certificate, written.
OneRequest ==
    /\ MayFail("request", "ended")
    /\ UNCHANGED <<given, restoring, probing, login, browser, tasks>>

GetInformation ==
    /\ MayFail("information", "connector")
    /\ UNCHANGED <<given, restoring, probing, login, browser, tasks>>

\* new_tunnel_connector: the way to the gateway is found out when it is left open.
NewConnector ==
    /\ at = "connector"
    /\ \/ at' = "failed" /\ UNCHANGED probing
       \/ /\ ~OverIPsec
          /\ at' = "session" /\ UNCHANGED probing
       \/ /\ OverIPsec /\ params.transport # "auto"
          /\ transport' = params.transport
          /\ at' = "session" /\ UNCHANGED probe
       \/ /\ OverIPsec /\ params.transport = "auto"
          /\ probe' = [NoProbe EXCEPT !.round = 1]
          /\ transport' = "none"
          /\ at' = "probe"
    /\ UNCHANGED <<given, restoring, login, browser, tasks>>

\* The gateway answers probes, if need be after the port was knocked at.
Answers == natt \in {"open", "odd"} \/ (natt = "knock" /\ params.port_knock /\ probe.round = 2)

Heard ==
    /\ transport' \in {"kernel", "udp"}
    /\ at' = "session" /\ probe' = [NoProbe EXCEPT !.broken = probe.broken]

NextTry(now, due) ==
    /\ probe' = [probe EXCEPT !.try = @ + 1, !.now = now, !.due = due]
    /\ UNCHANGED <<at, transport>>

\* send_probe: a probe, and the wait for whatever reaches the socket, be it the answer to an earlier one.  A reply
\* of another size ends the wait.
Probe(delay) ==
    /\ at = "probe" /\ probe.try <= Len(Timeouts)
    /\ LET limit == probe.now + Timeouts[probe.try]
           due == probe.due \cup IF Answers THEN {probe.now + delay} ELSE {}
           first == CHOOSE t \in due : \A u \in due : t <= u
       IN \/ /\ due # {} /\ first <= limit /\ natt # "odd"
             /\ Heard
          \/ /\ due # {} /\ first <= limit /\ natt = "odd"
             /\ NextTry(IF first < probe.now THEN probe.now ELSE first, due \ {first})
          \/ /\ \A t \in due : t > limit
             /\ NextTry(limit, due)
    /\ UNCHANGED <<given, restoring, login, browser, tasks>>

Unreached ==
    /\ transport' = "tcpt"
    /\ at' = "session" /\ probe' = [NoProbe EXCEPT !.broken = probe.broken]

\* probe: a second round, after two knocks if they are wanted.
RoundFails ==
    /\ at = "probe" /\ probe.try > Len(Timeouts)
    /\ IF probe.round = 1
       THEN /\ probe' = [NoProbe EXCEPT !.round = 2, !.broken = probe.broken]
            /\ UNCHANGED <<at, transport>>
       ELSE Unreached
    /\ UNCHANGED <<given, restoring, login, browser, tasks>>

\* No socket for a round, or for a knock.
SocketFails ==
    /\ at = "probe" /\ probe.try = 1
    /\ \/ /\ probe' = [probe EXCEPT !.try = Len(Timeouts) + 1, !.broken = TRUE]
          /\ UNCHANGED <<at, transport>>
       \/ /\ params.port_knock /\ probe.round = 2
          /\ transport' = "tcpt" /\ at' = "session"
          /\ probe' = [NoProbe EXCEPT !.broken = TRUE]
    /\ UNCHANGED <<given, restoring, login, browser, tasks>>

-----------------------------------------------------------------------------
(* The login *)

\* Mutant of AsksFor: one challenge at most.
AsksOnce(n) ==
    IF n = 0 /\ n < Len(factors) THEN challenge' = factors[n + 1] /\ at' = "question"
    ELSE challenge' = "none" /\ at' = "create"

\* The gateway asks for its next factor, or has let all of them pass.
AsksFor(n) ==
    IF n < Len(factors) THEN challenge' = factors[n + 1] /\ at' = "question"
    ELSE challenge' = "none" /\ at' = "create"

\* restore_session, which only IPsec has: no login, or a new connector for one.
Restore ==
    /\ at = "session" /\ restoring
    /\ restoring' = FALSE
    /\ at' \in IF OverIPsec THEN {"create", "connector"} ELSE {"connector"}
    /\ UNCHANGED <<given, probing, login, browser, tasks>>

\* The SSL connector asks for the name of the user when it needs one, that of IPsec when the gateway does.
MayAskName ==
    ~params.user /\ (OverIPsec \/ (params.cert = "none" /\ \A i \in DOMAIN factors : factors[i] # "IdentityProvider"))

\* authenticate: some logins begin with a question of the connector's own.
Authenticate ==
    /\ at = "session" /\ ~restoring
    /\ \/ at' = "failed" /\ UNCHANGED challenge
       \/ /\ params.login = "mobile"
          /\ challenge' = "MobileAccess" /\ at' = "question"
       \/ /\ params.login # "mobile" /\ MayAskName
          /\ challenge' = "UserNameInput" /\ at' = "question"
       \/ /\ params.login # "mobile" /\ (MayAskName => OverIPsec)
          /\ AsksFor(0)
    /\ UNCHANGED <<given, restoring, probing, passed, again, mfa_index, answer, browser, tasks>>

\* The input of the user, who may have no terminal.
Typed ==
    \/ answer' = "typed" /\ Goes("question", "reply") /\ UNCHANGED challenge
    \/ Goes("question", "failed") /\ challenge' = "none" /\ UNCHANGED answer

\* Mutant of AnswerPassword: the next challenge is not counted.
AnswerUncounted ==
    /\ at = "question" /\ challenge = "PasswordInput"
    /\ mfa_index' = 1
    /\ IF params.password /\ mfa_index' = params.password_factor
       THEN answer' = "password" /\ at' = "reply" /\ UNCHANGED challenge
       ELSE IF params.mfa_code /\ mfa_index' # params.password_factor
       THEN answer' = "mfa_code" /\ at' = "reply" /\ UNCHANGED challenge
       ELSE Typed
    /\ UNCHANGED <<given, restoring, probing, passed, again, browser, tasks>>

\* A challenge for a text: the password, the code of the parameters, or the user's.
AnswerPassword ==
    /\ at = "question" /\ challenge = "PasswordInput"
    /\ mfa_index' = mfa_index + 1
    /\ IF params.password /\ mfa_index' = params.password_factor
       THEN answer' = "password" /\ at' = "reply" /\ UNCHANGED challenge
       ELSE IF params.mfa_code /\ mfa_index' # params.password_factor
       THEN answer' = "mfa_code" /\ at' = "reply" /\ UNCHANGED challenge
       ELSE Typed
    /\ UNCHANGED <<given, restoring, probing, passed, again, browser, tasks>>

\* A user name, or what a mobile access portal shows.
AnswerTyped ==
    /\ challenge \in {"MobileAccess", "UserNameInput"}
    /\ Typed
    /\ UNCHANGED <<given, restoring, probing, passed, again, mfa_index, browser, tasks>>

\* The address for the browser is printed.
ShowUrl ==
    /\ challenge = "IdentityProvider" /\ Goes("question", "bind")
    /\ UNCHANGED <<given, restoring, probing, login, browser, tasks>>

\* challenge_code: the gateway lets the answer pass, poses the challenge again, or refuses.
Reply ==
    /\ at = "reply"
    /\ answer' = "none"
    /\ \/ at' = "failed" /\ challenge' = "none" /\ UNCHANGED <<passed, again>>
       \/ /\ challenge = "MobileAccess"
          /\ at' = "create" /\ challenge' = "none" /\ UNCHANGED <<passed, again>>
       \/ /\ challenge = "UserNameInput"
          /\ AsksFor(0) /\ UNCHANGED <<passed, again>>
       \/ /\ challenge \in Factors
          /\ passed' = passed + 1 /\ AsksFor(passed + 1) /\ UNCHANGED again
       \/ /\ challenge \in Factors /\ again < MaxAgain
          /\ again' = again + 1 /\ at' = "question" /\ UNCHANGED <<challenge, passed>>
    /\ UNCHANGED <<given, restoring, probing, mfa_index, browser, tasks>>

-----------------------------------------------------------------------------
(* The browser *)

\* OtpListener::new: the port may be taken.
Bind ==
    /\ \/ Goes("bind", "listen") /\ UNCHANGED challenge
       \/ Goes("bind", "failed") /\ challenge' = "none"
    /\ listener' = NoListener /\ connections' = <<>>
    /\ UNCHANGED <<given, restoring, probing, passed, again, mfa_index, answer, tasks>>

\* A connection, of the browser or of something else: with a token, which any path of a GET or OPTIONS is, with
\* another request, closed at once, or one that says nothing.
Connect(kind) ==
    /\ at = "listen" /\ Len(connections) < MaxConnections
    /\ connections' = Append(connections, [kind |-> kind, time |-> listener.clock])
    /\ UNCHANGED <<given, at, restoring, probing, login, listener, tasks>>

Serving == connections[listener.serving].kind

\* Connections are served one after the other.
Accept ==
    /\ at = "listen" /\ listener.serving = 0 /\ listener.accepted < Len(connections)
    /\ listener' = [listener EXCEPT !.accepted = @ + 1, !.serving = listener.accepted + 1, !.idle = 0]
    /\ UNCHANGED <<given, at, restoring, probing, login, connections, tasks>>

\* Mutant of Serve: what the next request brings replaces what is in the channel.
ServeOver ==
    /\ at = "listen" /\ listener.serving # 0 /\ Serving # "silent"
    /\ listener' = [listener EXCEPT !.serving = 0,
                                    !.mailbox = IF Serving = "closed" THEN @ ELSE listener.serving]
    /\ UNCHANGED <<given, at, restoring, probing, login, connections, tasks>>

\* otp_handler: what the request brings goes to a channel of one place.
Serve ==
    /\ at = "listen" /\ listener.serving # 0 /\ Serving # "silent"
    /\ Serving = "closed" \/ listener.mailbox = 0
    /\ listener' = [listener EXCEPT !.serving = 0,
                                    !.mailbox = IF Serving = "closed" THEN @ ELSE listener.serving]
    /\ UNCHANGED <<given, at, restoring, probing, login, connections, tasks>>

\* A connection on which no request comes is closed.
HangUp ==
    /\ at = "listen" /\ listener.serving # 0 /\ Serving = "silent" /\ listener.idle = HeaderTimeout
    /\ listener' = [listener EXCEPT !.serving = 0]
    /\ UNCHANGED <<given, at, restoring, probing, login, connections, tasks>>

ListenFails ==
    /\ Goes("listen", "failed") /\ challenge' = "none"
    /\ listener' = NoListener /\ connections' = <<>>
    /\ UNCHANGED <<given, restoring, probing, passed, again, mfa_index, answer, tasks>>

\* acquire_otp: the first request decides,
Receive ==
    /\ at = "listen" /\ listener.mailbox # 0
    /\ IF connections[listener.mailbox].kind = "token"
       THEN at' = "reply" /\ answer' = "token" /\ UNCHANGED challenge
       ELSE at' = "failed" /\ challenge' = "none" /\ UNCHANGED answer
    /\ listener' = NoListener /\ connections' = <<>>
    /\ UNCHANGED <<given, restoring, probing, passed, again, mfa_index, tasks>>

\* Mutant of TimesOut: it listens for ever.
WaitsOn == FALSE /\ UNCHANGED vars

\* or the time is over,
TimesOut == listener.clock = OtpTimeout /\ ListenFails

\* or the listener cannot go on.
AcceptFails == listener.serving = 0 /\ ListenFails

\* Time passes while there is nothing to do at once: the process is fast compared to half a minute.
Tick ==
    /\ at = "listen" /\ listener.clock < OtpTimeout /\ listener.mailbox = 0
    /\ \/ /\ listener.serving = 0 /\ listener.accepted = Len(connections)
          /\ listener' = [listener EXCEPT !.clock = @ + 1]
       \/ /\ listener.serving # 0 /\ Serving = "silent" /\ listener.idle < HeaderTimeout
          /\ listener' = [listener EXCEPT !.clock = @ + 1, !.idle = @ + 1]
    /\ UNCHANGED <<given, at, restoring, probing, login, connections, tasks>>

-----------------------------------------------------------------------------
(* The tunnel *)

\* create_tunnel, and the tasks for signals and events.
Create ==
    /\ \/ Goes("create", "configure") /\ signals' = "spawned"
       \/ Goes("create", "failed") /\ UNCHANGED signals
    /\ UNCHANGED <<given, restoring, probing, login, browser, commands, events>>

\* await_termination listens for signals once its task has run.
Arm ==
    /\ signals = "spawned" /\ at \notin Ended
    /\ signals' = "armed"
    /\ UNCHANGED <<given, at, restoring, probing, login, browser, commands, events>>

\* The user, or the system, sends a signal: nobody listens, or the task does, once.
Signal ==
    /\ at \notin Ended
    /\ IF signals \in {"none", "spawned"} THEN at' = "killed" /\ UNCHANGED signals
       ELSE signals = "armed" /\ signals' = "fired" /\ UNCHANGED at
    /\ IF at' = "killed"
       THEN /\ challenge' = "none" /\ answer' = "none" /\ probe' = [NoProbe EXCEPT !.broken = probe.broken]
            /\ listener' = NoListener /\ connections' = <<>>
       ELSE UNCHANGED <<challenge, answer, probe, browser>>
    /\ UNCHANGED <<given, restoring, transport, passed, again, mfa_index, commands, events>>

Terminate ==
    /\ signals = "fired" /\ at \notin Ended
    /\ signals' = "done" /\ commands' = TRUE
    /\ UNCHANGED <<given, at, restoring, probing, login, browser, events>>

\* run: the host is set up, the events begin,
Configure ==
    /\ \/ Goes("configure", "up") /\ events' = Append(events, "Connected")
       \/ Goes("configure", "failed") /\ UNCHANGED events
    /\ UNCHANGED <<given, restoring, probing, login, browser, signals, commands>>

\* until a command or a failure.
Stop ==
    /\ Goes("up", "stopped")
    /\ events' = Append(events, "Disconnected")
    /\ UNCHANGED <<given, restoring, probing, login, browser, signals, commands>>

Obeys == commands /\ Stop
Breaks == ~commands /\ Stop

\* The event task prints what happens, and ends with the tunnel.
HandleEvent ==
    /\ events # <<>> /\ at \notin Ended
    /\ events' = Tail(events)
    /\ UNCHANGED <<given, at, restoring, probing, login, browser, signals, commands>>

\* run returns, and with it the process, whatever its tasks are at.
Return ==
    /\ MayFail("stopped", "ended")
    /\ UNCHANGED <<given, restoring, probing, login, browser, tasks>>

-----------------------------------------------------------------------------
(* The specification *)

Listening == Accept \/ Serve \/ HangUp \/ Receive \/ TimesOut

Steps ==
    \/ Begin \/ AskPin \/ OneRequest \/ GetInformation \/ NewConnector
    \/ (\E delay \in Delays : Probe(delay)) \/ RoundFails
    \/ Restore \/ Authenticate \/ AnswerPassword \/ AnswerTyped \/ ShowUrl \/ Reply
    \/ Bind \/ Create \/ Configure \/ Obeys \/ Return

Next ==
    \/ Steps \/ SocketFails
    \/ Listening \/ AcceptFails \/ Tick \/ \E kind \in Kinds : Connect(kind)
    \/ Arm \/ Signal \/ Terminate \/ HandleEvent \/ Breaks

Spec == Init /\ [][Next]_vars

\* A step that is the end of an exchange with the gateway, which nobody times: of an HTTP request only the headers
\* are (gateway.rs:254), the TLS connection (ssl.rs:134), the TCPT handshake (tcpt.rs:67) and the hello reply
\* (ssl.rs:195) are not; and a tunnel of SSL reads its commands only after that reply (ssl.rs:446).  What is known
\* of the gateway is cached by the time a connector is made; a portal, a question for the user name and a session
\* that SSL cannot restore ask it nothing.
AwaitsGateway ==
    \/ at \in {"request", "information", "reply", "create"}
    \/ at = "session" /\ (OverIPsec \/ (~restoring /\ params.login # "mobile" /\ ~MayAskName))
    \/ at = "configure" /\ ~OverIPsec

\* The process goes on, the user answers what is asked at the terminal, and time passes.  Nothing is promised of the
\* gateway.
FairSpec ==
    /\ Spec
    /\ WF_vars(~AwaitsGateway /\ Steps) /\ WF_vars(Listening) /\ WF_vars(Tick)
    /\ WF_vars(Arm) /\ WF_vars(Terminate) /\ WF_vars(HandleEvent)

-----------------------------------------------------------------------------
(* Properties *)

\* Which of the gateway's challenges for a text the pending one is.
Nth == Cardinality({i \in 1..passed + 1 : factors[i] = "PasswordInput"})

\* The configured password answers the factor it is for and no other, the code every other one, and a token of the
\* browser only the provider's challenge, in whatever order the factors come, with a question for the user name or
\* without, as long as nothing is posed again (main.rs:283-328, docs/options.md:9).
AnswersFitFactors ==
    at = "reply" /\ again = 0 /\ challenge \in Factors =>
        /\ answer = "password" => challenge = "PasswordInput" /\ Nth = params.password_factor
        /\ answer = "mfa_code" => challenge = "PasswordInput" /\ Nth # params.password_factor
        /\ answer = "token" <=> challenge = "IdentityProvider"
        /\ challenge = "PasswordInput" /\ Nth = params.password_factor /\ params.password => answer = "password"

\* A gateway that answers probes within a second is reached over UDP, however its answers fall between the tries,
\* and TCPT is left for the others (natt.rs:60-103, ipsec/connector.rs:138-152).
TransportFits ==
    params.transport = "auto" /\ transport # "none" =>
        LET reached == natt = "open" \/ (natt = "knock" /\ params.port_knock)
        IN /\ transport # "tcpt" => reached
           /\ transport = "tcpt" => ~reached \/ probe.broken

\* What the user has configured is what the gateway gets: password, code and transport.
OptionsObeyed == AnswersFitFactors /\ TransportFits

\* The first request decides, whatever is sent after it and however many connections say nothing; and none waits
\* longer than the silent connections before it may last (otp.rs:69-101).
FirstRequestDecides ==
    at = "listen" =>
        /\ \A i \in 1..listener.mailbox - 1 : connections[i].kind \in {"closed", "silent"}
        /\ \A i \in listener.accepted + 1..Len(connections) :
               listener.clock - connections[i].time
                   <= HeaderTimeout * Cardinality({j \in 1..i - 1 : connections[j].kind = "silent"})

\* Unless it waits for the gateway for ever, a run ends or has its tunnel, also when no browser ever comes, when no
\* probe is answered or when other connections hold up the listener; and a signal the process has heard ends it
\* (otp.rs:82-86, natt.rs:52-94, main.rs:347-350).
RunsEnd ==
    []<>~AwaitsGateway =>
        /\ []<>(at \in Ended \cup {"up"})
        /\ (signals \in {"fired", "done"}) ~> (at \in Ended)

=============================================================================
