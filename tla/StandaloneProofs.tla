-------------------------- MODULE StandaloneProofs --------------------------
(***************************************************************************)
(* What Standalone keeps for any parameters, lists of factors, delays, and *)
(* numbers of challenges and connections.                                  *)
(***************************************************************************)
EXTENDS Standalone, FiniteSetTheorems, TLAPS

-----------------------------------------------------------------------------
(* The invariant *)

Before == {"begin", "pin", "request", "information", "connector", "probe", "session"}
Since == {"create", "configure", "up", "stopped"}
Asking == {"question", "bind", "listen", "reply"}

ProbeRecord == [round |-> probe.round, try |-> probe.try, now |-> probe.now, due |-> probe.due,
              broken |-> probe.broken]
ListenerType == [clock : 0..OtpTimeout, serving : Nat, accepted : Nat, idle : 0..HeaderTimeout,
                 mailbox : Nat]

Shaped ==
    /\ mode \in Modes /\ params \in ParamsType /\ factors \in Seq(Factors)
    /\ natt \in {"open", "knock", "odd", "closed"}
    /\ at \in Stages /\ restoring \in BOOLEAN
    /\ transport \in {"none", "udp", "kernel", "tcpt"}
    /\ probe = ProbeRecord
    /\ probe.round \in 0..2 /\ probe.try \in 1..4 /\ probe.broken \in BOOLEAN
    /\ signals \in {"none", "spawned", "armed", "fired", "done"} /\ commands \in BOOLEAN

\* The answer to a challenge for a text is with the gateway.
Answered == at = "reply" /\ challenge = "PasswordInput"

\* The challenge is the gateway's next factor, or the connector's own question before the first.
Asked ==
    /\ challenge \in Factors \cup {"none", "MobileAccess", "UserNameInput"}
    /\ challenge # "none" <=> at \in Asking
    /\ challenge \in Factors => passed < Len(factors) /\ challenge = factors[passed + 1]
    /\ challenge \in {"MobileAccess", "UserNameInput"} => passed = 0
    /\ at \in {"bind", "listen"} => challenge = "IdentityProvider"
    /\ passed \in 0..Len(factors) /\ again \in 0..MaxAgain
    /\ mfa_index \in 0..Len(factors) + MaxAgain
    /\ at \in Before => passed = 0 /\ again = 0 /\ mfa_index = 0
    /\ at \in Since => passed \in {0, Len(factors)}
    /\ at \notin Ended => mfa_index <= passed + again + (IF Answered THEN 1 ELSE 0)
    /\ answer \in {"none", "password", "mfa_code", "typed", "token"}

\* The challenges for a text among the first n.
Texts(n) == {i \in 1..n : factors[i] = "PasswordInput"}

\* Unless one was posed again, each was counted once.
Fits ==
    /\ at \notin Ended /\ again = 0 =>
           mfa_index = Cardinality(Texts(passed)) + (IF Answered THEN 1 ELSE 0)
    /\ Answered =>
           /\ answer \in {"password", "mfa_code", "typed"}
           /\ answer = "password" => mfa_index = params.password_factor
           /\ answer = "mfa_code" => mfa_index # params.password_factor
           /\ mfa_index = params.password_factor /\ params.password => answer = "password"
    /\ at = "reply" /\ challenge = "IdentityProvider" => answer = "token"

\* The gateway can be reached over UDP.
Reached == natt = "open" \/ (natt = "knock" /\ params.port_knock)

\* An answer that is under way shows it; and the last try of a round leaves none of a gateway
\* that answers, for each comes within that try's time-out.
Probed ==
    /\ at = "probe" =>
           /\ params.transport = "auto" /\ transport = "none" /\ probe.round \in 1..2
           /\ natt # "odd" =>
                  /\ probe.now \in Nat /\ probe.due \subseteq Nat
                  /\ probe.due # {} => Reached
                  /\ probe.try = 4 => probe.broken \/ ~Answers
    /\ params.transport = "auto" /\ transport \in {"udp", "kernel"} => Reached
    /\ params.transport = "auto" /\ transport = "tcpt" => ~Reached \/ probe.broken

\* The silent connections that have been served until the n-th, but for the one that is being served.
Silent(n) == {j \in 1..n : connections[j].kind = "silent" /\ j # listener.serving}

\* Who was served and brought nothing for the channel said nothing; and only silent connections made
\* the others wait.
Listened ==
    /\ listener \in ListenerType
    /\ connections \in Seq([kind : Kinds, time : 0..OtpTimeout]) /\ Len(connections) <= MaxConnections
    /\ listener.accepted <= Len(connections) /\ listener.serving \in {0, listener.accepted}
    /\ listener.mailbox <= listener.accepted
    /\ listener.mailbox # 0 => listener.mailbox # listener.serving
    /\ \A i \in 1..listener.accepted :
           i # listener.serving /\ (listener.mailbox = 0 \/ i < listener.mailbox) =>
               connections[i].kind \in {"closed", "silent"}
    /\ \A i \in listener.accepted + 1..Len(connections) :
           listener.clock - connections[i].time
               <= HeaderTimeout * Cardinality(Silent(listener.accepted))
                  + (IF listener.serving # 0 /\ Serving = "silent" THEN listener.idle ELSE 0)

\* Connected is the first event and Disconnected the last one.
Told ==
    /\ events \in Seq({"Connected", "Disconnected"}) /\ Len(events) <= 2
    /\ at \in Before \cup Asking \cup {"create", "configure"} => events = <<>>
    /\ at = "up" => Len(events) <= 1

Kept == Shaped /\ Asked /\ Fits /\ Probed /\ Listened /\ Told

-----------------------------------------------------------------------------
(* Lemmas *)

LEMMA TimeoutsAre ==
    Len(Timeouts) = 3 /\ Timeouts[1] = 2 /\ Timeouts[2] = 5 /\ Timeouts[3] = 10
BY DEF Timeouts

\* What the steps do to the login.
Elsewhere == \/ \E kind \in Kinds : Connect(kind)
             \/ Accept \/ Serve \/ HangUp \/ Tick \/ Arm \/ Terminate \/ HandleEvent
Early == \/ Begin \/ AskPin \/ OneRequest \/ GetInformation \/ NewConnector \/ RoundFails \/ SocketFails
         \/ Restore \/ \E delay \in Delays : Probe(delay)
Late == Create \/ Configure \/ Stop \/ Return
InLogin == \/ Authenticate \/ AnswerPassword \/ AnswerTyped \/ ShowUrl \/ Reply \/ Bind \/ Receive
           \/ ListenFails

LEMMA NextSteps == Next => Elsewhere \/ Early \/ Late \/ InLogin \/ Signal
BY DEF Next, Steps, Listening, Obeys, Breaks, TimesOut, AcceptFails, Elsewhere, Early, Late, InLogin

LEMMA Given == ASSUME Next \/ UNCHANGED vars
               PROVE  UNCHANGED given
BY DEF Next, Steps, Listening, Obeys, Breaks, TimesOut, AcceptFails, Begin, AskPin, OneRequest,
       GetInformation, NewConnector, Probe, RoundFails, SocketFails, Restore, Authenticate, AnswerPassword,
       AnswerTyped, ShowUrl, Reply, Bind, Connect, Accept, Serve, HangUp, ListenFails, Receive, Tick, Create,
       Arm, Signal, Terminate, Configure, Stop, HandleEvent, Return, vars

LEMMA Elsewheres == ASSUME Elsewhere
                    PROVE  UNCHANGED <<at, login, probing, restoring>>
BY DEF Elsewhere, Connect, Accept, Serve, HangUp, Tick, Arm, Terminate, HandleEvent

LEMMA Earlies ==
    ASSUME Early
    PROVE  /\ UNCHANGED <<login, browser, tasks>>
           /\ at \in Before /\ at' \in Before \cup {"failed", "ended", "create"}
<1>1. CASE Begin \/ AskPin \/ OneRequest \/ GetInformation
  BY <1>1 DEF Begin, AskPin, OneRequest, GetInformation, MayFail, Goes, Before
<1>2. CASE NewConnector \/ SocketFails \/ RoundFails
  BY <1>2 DEF NewConnector, SocketFails, RoundFails, Unreached, Before
<1>3. CASE \E delay \in Delays : Probe(delay)
  BY <1>3 DEF Probe, Heard, NextTry, Before
<1>4. CASE Restore
  BY <1>4 DEF Restore, Before
<1>5. QED
  BY <1>1, <1>2, <1>3, <1>4 DEF Early

LEMMA Lates ==
    ASSUME Late
    PROVE  /\ UNCHANGED <<login, browser, probing, restoring>>
           /\ at \in Since /\ at' \in (Since \ {"create"}) \cup {"failed", "ended"}
BY DEF Late, Create, Configure, Stop, Return, MayFail, Goes, Since

LEMMA Logins ==
    ASSUME InLogin
    PROVE  UNCHANGED <<restoring, probing, tasks>>
BY DEF InLogin, Authenticate, AnswerPassword, AnswerTyped, ShowUrl, Reply, Bind, Receive, ListenFails

LEMMA Killed ==
    ASSUME Signal
    PROVE  /\ UNCHANGED <<restoring, transport, passed, again, mfa_index, commands, events>>
           /\ at \notin Ended
           /\ \/ /\ at' = "killed" /\ UNCHANGED signals
                 /\ challenge' = "none" /\ answer' = "none"
                 /\ probe' = [NoProbe EXCEPT !.broken = probe.broken]
                 /\ listener' = NoListener /\ connections' = <<>>
              \/ /\ at' = at /\ signals' = "fired"
                 /\ UNCHANGED <<challenge, answer, probe, browser>>
BY DEF Signal, Ended

LEMMA NoProbeIs ==
    ASSUME NEW b \in BOOLEAN
    PROVE  LET p == [NoProbe EXCEPT !.broken = b]
           IN  /\ p = [round |-> 0, try |-> 1, now |-> 0, due |-> {}, broken |-> b]
               /\ p.round = 0 /\ p.try = 1 /\ p.now = 0 /\ p.due = {} /\ p.broken = b
BY DEF NoProbe

LEMMA NoListenerIs == NoListener = [clock |-> 0, serving |-> 0, accepted |-> 0, idle |-> 0, mailbox |-> 0]
BY DEF NoListener

\* What the steps do to the probes.
LEMMA ProbeSteps ==
    ASSUME Shaped, Next
    PROVE  \/ UNCHANGED probing
           \/ NewConnector \/ RoundFails \/ SocketFails \/ \E delay \in Delays : Probe(delay)
           \/ Signal /\ transport' = transport /\ at' = "killed"
                     /\ probe' = [NoProbe EXCEPT !.broken = probe.broken]
<1>1. CASE Elsewhere \/ Late \/ InLogin
  BY <1>1, Elsewheres, Lates, Logins
<1>2. CASE Signal
  BY <1>2, Killed DEF probing
<1>3. CASE Early
  BY <1>3 DEF Early, Begin, AskPin, OneRequest, GetInformation, Restore
<1>4. QED
  BY <1>1, <1>2, <1>3, NextSteps

-----------------------------------------------------------------------------
(* Types *)

LEMMA ShapedInit == Init => Shaped
<1> SUFFICES ASSUME Init
             PROVE  Shaped
  OBVIOUS
<1>1. params \in ParamsType /\ factors \in Seq(Factors)
  BY StandaloneAssumption DEF Init
<1>2. /\ probe = ProbeRecord /\ probe.round \in 0..2 /\ probe.try \in 1..4 /\ probe.broken \in BOOLEAN
  BY DEF Init, NoProbe, ProbeRecord
<1>3. restoring \in BOOLEAN /\ commands \in BOOLEAN
  BY <1>1 DEF Init, ParamsType
<1>4. natt \in {"open", "knock", "odd", "closed"} /\ mode \in Modes
  BY DEF Init
<1>5. QED
  BY <1>1, <1>2, <1>3, <1>4 DEF Init, Shaped, Stages, Ended

LEMMA InRound ==
    ASSUME NEW p, NEW r, NEW b \in BOOLEAN,
           p = [round |-> 0, try |-> 1, now |-> 0, due |-> {}, broken |-> b]
    PROVE  [p EXCEPT !.round = r] = [round |-> r, try |-> 1, now |-> 0, due |-> {}, broken |-> b]
<1> DEFINE P(f, g, h, i, j) == [round |-> f, try |-> g, now |-> h, due |-> i, broken |-> j]
<1>1. ASSUME NEW f, NEW g, NEW h, NEW i, NEW j
      PROVE  [P(f, g, h, i, j) EXCEPT !.round = r] = P(r, g, h, i, j)
  OBVIOUS
<1> SUFFICES ASSUME p = P(0, 1, 0, {}, b)
             PROVE  [p EXCEPT !.round = r] = P(r, 1, 0, {}, b)
  OBVIOUS
<1> HIDE DEF P
<1>2. QED
  BY <1>1

\* The fields of the probes under way.
LEMMA ProbeShape ==
    ASSUME Shaped, NEW r, NEW n, NEW t, NEW d, NEW b
    PROVE  /\ [NoProbe EXCEPT !.round = r] =
                  [round |-> r, try |-> 1, now |-> 0, due |-> {}, broken |-> FALSE]
           /\ [NoProbe EXCEPT !.round = r, !.broken = b] =
                  [round |-> r, try |-> 1, now |-> 0, due |-> {}, broken |-> b]
           /\ [probe EXCEPT !.try = n, !.now = t, !.due = d] =
                  [round |-> probe.round, try |-> n, now |-> t, due |-> d, broken |-> probe.broken]
           /\ [probe EXCEPT !.try = n, !.broken = b] =
                  [round |-> probe.round, try |-> n, now |-> probe.now, due |-> probe.due, broken |-> b]
<1> DEFINE P(f, g, h, i, j) == [round |-> f, try |-> g, now |-> h, due |-> i, broken |-> j]
<1>1. \A f, g, h, i, j : /\ [P(f, g, h, i, j) EXCEPT !.round = r] = P(r, g, h, i, j)
                         /\ [P(f, g, h, i, j) EXCEPT !.try = n] = P(f, n, h, i, j)
                         /\ [P(f, g, h, i, j) EXCEPT !.now = t] = P(f, g, t, i, j)
                         /\ [P(f, g, h, i, j) EXCEPT !.due = d] = P(f, g, h, d, j)
                         /\ [P(f, g, h, i, j) EXCEPT !.broken = b] = P(f, g, h, i, b)
  OBVIOUS
<1>3. probe = P(probe.round, probe.try, probe.now, probe.due, probe.broken)
  BY DEF Shaped, ProbeRecord
<1> DEFINE X == probe.round
           Y == probe.now
           Z == probe.due
           B == probe.broken
           T == probe.try
<1>4. /\ [NoProbe EXCEPT !.round = r] = P(r, 1, 0, {}, FALSE)
      /\ [NoProbe EXCEPT !.round = r, !.broken = b] = P(r, 1, 0, {}, b)
  <2>0. NoProbe = P(0, 1, 0, {}, FALSE)
    BY DEF NoProbe
  <2>1. [NoProbe EXCEPT !.round = r] = P(r, 1, 0, {}, FALSE)
    BY <2>0, InRound
  <2>2. [NoProbe EXCEPT !.round = r, !.broken = b] = [[NoProbe EXCEPT !.round = r] EXCEPT !.broken = b]
    OBVIOUS
  <2>3. [P(r, 1, 0, {}, FALSE) EXCEPT !.broken = b] = P(r, 1, 0, {}, b)
    OBVIOUS
  <2>4. QED
    BY <2>1, <2>2, <2>3
<1>5. /\ [probe EXCEPT !.try = n, !.now = t, !.due = d] = P(X, n, t, d, B)
      /\ [probe EXCEPT !.try = n, !.broken = b] = P(X, n, Y, Z, b)
  <2>1. probe = P(X, T, Y, Z, B)
    BY <1>3
  <2> HIDE DEF P, X, Y, Z, B, T
  <2>2. [probe EXCEPT !.try = n] = P(X, n, Y, Z, B)
    BY <1>1, <2>1
  <2>3. [probe EXCEPT !.try = n, !.broken = b] = [[probe EXCEPT !.try = n] EXCEPT !.broken = b]
    OBVIOUS
  <2>4. [P(X, n, Y, Z, B) EXCEPT !.broken = b] = P(X, n, Y, Z, b)
    BY <1>1
  <2>5. [probe EXCEPT !.try = n, !.now = t, !.due = d] =
            [[[probe EXCEPT !.try = n] EXCEPT !.now = t] EXCEPT !.due = d]
    OBVIOUS
  <2>6. [P(X, n, Y, Z, B) EXCEPT !.now = t] = P(X, n, t, Z, B)
    BY <1>1
  <2>7. [P(X, n, t, Z, B) EXCEPT !.due = d] = P(X, n, t, d, B)
    BY <1>1
  <2>8. QED
    BY <2>2, <2>3, <2>4, <2>5, <2>6, <2>7
<1>6. QED
  BY <1>4, <1>5

\* One step of the probing.
LEMMA Probing ==
    ASSUME Shaped, Asked, Next
    PROVE  \/ UNCHANGED probing /\ (at' = "probe" => at = "probe")
           \/ /\ at = "connector" /\ at' = "session" /\ params.transport # "auto"
              /\ transport' = params.transport /\ probe' = probe
           \/ /\ at = "connector" /\ at' = "probe" /\ params.transport = "auto" /\ transport' = "none"
              /\ probe' = [round |-> 1, try |-> 1, now |-> 0, due |-> {}, broken |-> FALSE]
           \/ /\ at' \in {"session", "killed"}
              /\ probe' = [round |-> 0, try |-> 1, now |-> 0, due |-> {}, broken |-> probe.broken]
              /\ \/ at' = "killed" /\ transport' = transport
                 \/ /\ at = "probe" /\ transport' \in {"kernel", "udp"} /\ natt # "odd"
                    /\ probe.due # {} \/ Answers
                 \/ /\ at = "probe" /\ transport' = "tcpt" /\ probe.round # 1 /\ probe.try = 4
           \/ /\ at = "probe" /\ at' = "session" /\ transport' = "tcpt"
              /\ probe' = [round |-> 0, try |-> 1, now |-> 0, due |-> {}, broken |-> TRUE]
           \/ /\ at = "probe" /\ at' = "probe" /\ transport' = transport
              /\ \/ probe' = [round |-> 2, try |-> 1, now |-> 0, due |-> {}, broken |-> probe.broken]
                 \/ probe' = [round |-> probe.round, try |-> 4, now |-> probe.now, due |-> probe.due,
                              broken |-> TRUE]
                 \/ \E delay \in Delays : \E t, d :
                        /\ probe' = [round |-> probe.round, try |-> probe.try + 1, now |-> t, due |-> d,
                                     broken |-> probe.broken]
                        /\ probe.try \in 1..3
                        /\ natt # "odd" =>
                               /\ t = probe.now + Timeouts[probe.try]
                               /\ d = probe.due \cup (IF Answers THEN {probe.now + delay} ELSE {})
                               /\ \A x \in d : x > t
<1>1. CASE UNCHANGED probing /\ ~NewConnector
  <2>1. at' = "probe" => at = "probe"
    <3>1. CASE Elsewhere \/ Late \/ Signal
      BY <3>1, Elsewheres, Lates, Killed DEF Since
    <3>2. CASE InLogin
      BY <3>2 DEF InLogin, Authenticate, AsksFor, AnswerPassword, AnswerTyped, Typed, ShowUrl, Reply, Bind,
                  Receive, ListenFails, Goes
    <3>3. CASE Early /\ ~NewConnector
      BY <3>3 DEF Early, Begin, AskPin, OneRequest, GetInformation, Restore, RoundFails, SocketFails, Probe,
                  MayFail, Goes
    <3>4. QED
      BY <1>1, <3>1, <3>2, <3>3, NextSteps
  <2>2. QED
    BY <1>1, <2>1
<1>2. CASE NewConnector
  BY <1>2, ProbeShape DEF NewConnector, probing
<1>3. CASE RoundFails
  <2>1. at = "probe" /\ probe.try = 4
    BY <1>3, TimeoutsAre DEF RoundFails, Shaped
  <2>2. CASE probe.round = 1
    <3>1. probe' = [NoProbe EXCEPT !.round = 2, !.broken = probe.broken] /\ at' = at /\ transport' = transport
      BY <1>3, <2>2 DEF RoundFails
    <3>2. probe' = [round |-> 2, try |-> 1, now |-> 0, due |-> {}, broken |-> probe.broken]
      BY <3>1, ProbeShape
    <3>3. QED
      BY <2>1, <3>1, <3>2
  <2>3. CASE probe.round # 1
    <3>1. transport' = "tcpt" /\ at' = "session" /\ probe' = [NoProbe EXCEPT !.broken = probe.broken]
      BY <1>3, <2>3 DEF RoundFails, Unreached
    <3>2. QED
      BY <2>1, <2>3, <3>1, NoProbeIs DEF Shaped
  <2>4. QED
    BY <2>2, <2>3
<1>4. CASE SocketFails
  <2>1. at = "probe"
    BY <1>4 DEF SocketFails
  <2>2. \/ /\ probe' = [probe EXCEPT !.try = 4, !.broken = TRUE] /\ at' = at /\ transport' = transport
        \/ transport' = "tcpt" /\ at' = "session" /\ probe' = [NoProbe EXCEPT !.broken = TRUE]
    BY <1>4, TimeoutsAre DEF SocketFails
  <2>3. QED
    BY <2>1, <2>2, ProbeShape, NoProbeIs
<1>5. CASE \E delay \in Delays : Probe(delay)
  <2>1. PICK delay \in Delays : Probe(delay)
    BY <1>5
  <2> DEFINE limit == probe.now + Timeouts[probe.try]
             due == probe.due \cup IF Answers THEN {probe.now + delay} ELSE {}
             first == CHOOSE t \in due : \A u \in due : t <= u
  <2>2. at = "probe" /\ probe.try \in 1..3
    BY <2>1, TimeoutsAre DEF Probe, Shaped
  <2>3. \/ due # {} /\ natt # "odd" /\ Heard
        \/ natt = "odd" /\ NextTry(IF first < probe.now THEN probe.now ELSE first, due \ {first})
        \/ (\A t \in due : t > limit) /\ NextTry(limit, due)
    BY <2>1 DEF Probe
  <2> HIDE DEF first
  <2>4. CASE due # {} /\ natt # "odd" /\ Heard
    <3>1. probe.due # {} \/ Answers
      BY <2>4
    <3>2. /\ transport' \in {"kernel", "udp"} /\ at' = "session"
          /\ probe' = [NoProbe EXCEPT !.broken = probe.broken]
      BY <2>4 DEF Heard
    <3>3. QED
      BY <2>2, <2>4, <3>1, <3>2, NoProbeIs DEF Shaped
  <2>5. ASSUME NEW t, NEW d, NextTry(t, d), natt # "odd" => t = limit /\ d = due /\ \A x \in due : x > limit
        PROVE  /\ at' = at /\ transport' = transport
               /\ \E e \in Delays : \E y, z :
                        /\ probe' = [round |-> probe.round, try |-> probe.try + 1, now |-> y, due |-> z,
                                     broken |-> probe.broken]
                        /\ probe.try \in 1..3
                        /\ natt # "odd" =>
                               /\ y = probe.now + Timeouts[probe.try]
                               /\ z = probe.due \cup (IF Answers THEN {probe.now + e} ELSE {})
                               /\ \A x \in z : x > y
    <3>1. at' = at /\ transport' = transport
          /\ probe' = [probe EXCEPT !.try = probe.try + 1, !.now = t, !.due = d]
      BY <2>5 DEF NextTry
    <3>2. probe' = [round |-> probe.round, try |-> probe.try + 1, now |-> t, due |-> d,
                    broken |-> probe.broken]
      BY <3>1, ProbeShape
    <3>3. natt # "odd" =>
              /\ t = probe.now + Timeouts[probe.try]
              /\ d = probe.due \cup (IF Answers THEN {probe.now + delay} ELSE {})
              /\ \A x \in d : x > t
      BY <2>5
    <3>4. QED
      BY <2>2, <3>1, <3>2, <3>3
  <2>6. QED
    BY <2>2, <2>3, <2>4, <2>5
<1>6. CASE Signal
  BY <1>1, <1>6, Killed, NoProbeIs DEF Shaped, probing, NewConnector
<1>7. QED
  BY <1>1, <1>2, <1>3, <1>4, <1>5, <1>6, ProbeSteps

LEMMA ShapedNext == ASSUME Shaped, Asked, Next
                    PROVE  Shaped'
<1>1. UNCHANGED given
  BY Given
<1>2. restoring' \in BOOLEAN
  <2>1. CASE Elsewhere \/ Late \/ InLogin \/ Signal
    BY <2>1, Elsewheres, Lates, Logins, Killed DEF Shaped
  <2>2. CASE Early
    BY <2>2 DEF Early, Begin, AskPin, OneRequest, GetInformation, NewConnector, RoundFails, SocketFails,
                Restore, Probe, Shaped
  <2>3. QED
    BY <2>1, <2>2, NextSteps
<1>3. at' \in Stages
  <2>1. CASE Elsewhere
    BY <2>1, Elsewheres DEF Shaped
  <2>2. CASE Early
    BY <2>2, Earlies DEF Before, Stages, Ended
  <2>3. CASE Late
    BY <2>3, Lates DEF Since, Stages, Ended
  <2>4. CASE Signal
    BY <2>4, Killed DEF Shaped, Stages, Ended
  <2>5. CASE InLogin
    BY <2>5 DEF InLogin, Authenticate, AsksFor, AnswerPassword, AnswerTyped, Typed, ShowUrl, Reply, Bind,
                Receive, ListenFails, Goes, Stages, Ended
  <2>6. QED
    BY <2>1, <2>2, <2>3, <2>4, <2>5, NextSteps
<1>4. signals' \in {"none", "spawned", "armed", "fired", "done"} /\ commands' \in BOOLEAN
  <2>1. CASE Elsewhere
    BY <2>1 DEF Elsewhere, Connect, Accept, Serve, HangUp, Tick, Arm, Terminate, HandleEvent, tasks, Shaped
  <2>2. CASE Early \/ InLogin
    BY <2>2, Earlies, Logins DEF Shaped, tasks
  <2>3. CASE Late
    BY <2>3 DEF Late, Create, Configure, Stop, Return, tasks, Shaped
  <2>4. CASE Signal
    BY <2>4, Killed DEF Shaped
  <2>5. QED
    BY <2>1, <2>2, <2>3, <2>4, NextSteps
<1>5. /\ transport' \in {"none", "udp", "kernel", "tcpt"} /\ probe' = ProbeRecord'
      /\ probe'.round \in 0..2 /\ probe'.try \in 1..4 /\ probe'.broken \in BOOLEAN
  <2>1. CASE UNCHANGED probing
    BY <2>1 DEF probing, Shaped, ProbeRecord
  <2>2. ASSUME NEW r \in 0..2, NEW n \in 1..4, NEW t, NEW d, NEW b \in BOOLEAN,
               probe' = [round |-> r, try |-> n, now |-> t, due |-> d, broken |-> b]
        PROVE  /\ probe' = ProbeRecord'
               /\ probe'.round \in 0..2 /\ probe'.try \in 1..4 /\ probe'.broken \in BOOLEAN
    BY <2>2 DEF ProbeRecord
  <2>3. params \in ParamsType
    BY DEF Shaped
  <2>4. CASE /\ transport' = params.transport /\ params.transport # "auto" /\ probe' = probe
    BY <2>3, <2>4 DEF ParamsType, Shaped, ProbeRecord
  <2>5. CASE /\ transport' \in {transport, "none", "kernel", "udp", "tcpt"}
             /\ \E r \in 0..2, n \in 1..4, b \in BOOLEAN : \E t, d :
                    probe' = [round |-> r, try |-> n, now |-> t, due |-> d, broken |-> b]
    BY <2>2, <2>5 DEF Shaped
  <2>6. probe.round \in 0..2 /\ probe.try \in 1..4 /\ probe.broken \in BOOLEAN
    BY DEF Shaped
  <2>7. CASE \E delay \in Delays : \E t, d :
                 /\ probe' = [round |-> probe.round, try |-> probe.try + 1, now |-> t, due |-> d,
                              broken |-> probe.broken]
                 /\ probe.try \in 1..3 /\ transport' = transport
    <3>1. PICK t, d : /\ probe' = [round |-> probe.round, try |-> probe.try + 1, now |-> t, due |-> d,
                                   broken |-> probe.broken]
                      /\ probe.try \in 1..3 /\ transport' = transport
      BY <2>7
    <3>2. probe.try + 1 \in 1..4
      BY <3>1
    <3>3. QED
      BY <2>5, <2>6, <3>1, <3>2
  <2>8. CASE probe' = [round |-> 1, try |-> 1, now |-> 0, due |-> {}, broken |-> FALSE] /\ transport' = "none"
    <3> DEFINE b == FALSE
    <3>1. b \in BOOLEAN /\ probe' = [round |-> 1, try |-> 1, now |-> 0, due |-> {}, broken |-> b]
      BY <2>8
    <3>3. transport' \in {transport, "none", "tcpt"}
      BY <2>8
    <3> HIDE DEF b
    <3>2. QED
      BY <2>2, <3>1, <3>3 DEF Shaped
  <2>9. CASE probe' = [round |-> 0, try |-> 1, now |-> 0, due |-> {}, broken |-> probe.broken]
             /\ transport' \in {transport, "kernel", "udp", "tcpt"}
    <3>1. QED
      BY <2>2, <2>6, <2>9 DEF Shaped
  <2>10. CASE probe' = [round |-> 0, try |-> 1, now |-> 0, due |-> {}, broken |-> TRUE] /\ transport' = "tcpt"
    <3> DEFINE b == TRUE
    <3>1. b \in BOOLEAN /\ probe' = [round |-> 0, try |-> 1, now |-> 0, due |-> {}, broken |-> b]
      BY <2>10
    <3>3. transport' \in {transport, "none", "tcpt"}
      BY <2>10
    <3> HIDE DEF b
    <3>2. QED
      BY <2>2, <3>1, <3>3 DEF Shaped
  <2>11. CASE probe' = [round |-> 2, try |-> 1, now |-> 0, due |-> {}, broken |-> probe.broken]
              /\ transport' = transport
    BY <2>2, <2>6, <2>11 DEF Shaped
  <2>12. CASE probe' = [round |-> probe.round, try |-> 4, now |-> probe.now, due |-> probe.due, broken |-> TRUE]
              /\ transport' = transport
    <3> DEFINE b == TRUE
    <3>1. b \in BOOLEAN /\ probe' = [round |-> probe.round, try |-> 4, now |-> probe.now, due |-> probe.due, broken |-> b]
      BY <2>12
    <3>3. transport' \in {transport, "none", "tcpt"}
      BY <2>12
    <3> HIDE DEF b
    <3>2. QED
      BY <2>2, <2>6, <3>1, <3>3 DEF Shaped
  <2>13. QED
    BY <2>1, <2>4, <2>7, <2>8, <2>9, <2>10, <2>11, <2>12, Probing
<1>6. QED
  BY <1>1, <1>2, <1>3, <1>4, <1>5 DEF Shaped, given

-----------------------------------------------------------------------------
(* The challenges *)

LEMMA AskedInit == Init => Asked
<1> SUFFICES ASSUME Init
             PROVE  Asked
  OBVIOUS
<1>1. factors \in Seq(Factors) /\ Len(factors) \in Nat
  BY StandaloneAssumption DEF Init
<1>2. QED
  BY <1>1, StandaloneAssumption DEF Init, Asked, Asking, Before, Since, Ended, Answered, Factors

LEMMA AskedElsewhere ==
    ASSUME Shaped, Asked, Next, Elsewhere \/ Early \/ Late
    PROVE  Asked'
<1>1. UNCHANGED given
  BY Given
<1>2. UNCHANGED login
  BY Elsewheres, Earlies, Lates
<1>3. factors \in Seq(Factors) /\ Len(factors) \in Nat
  BY DEF Shaped
<1>4. CASE at' = at
  BY <1>1, <1>2, <1>4 DEF Asked, Answered, given, login
<1>5. CASE Early
  <2>1. at \in Before /\ at' \in Before \cup {"failed", "ended", "create"}
    BY <1>5, Earlies
  <2>2. challenge = "none" /\ passed = 0 /\ again = 0 /\ mfa_index = 0
    BY <2>1 DEF Asked, Before, Asking
  <2>3. QED
    BY <1>1, <1>2, <1>3, <2>1, <2>2, StandaloneAssumption
    DEF Asked, Before, Asking, Since, Ended, Answered, Factors, given, login
<1>6. CASE Late
  <2>1. at \in Since /\ at' \in (Since \ {"create"}) \cup {"failed", "ended"}
    BY <1>6, Lates
  <2>2. challenge = "none" /\ passed \in {0, Len(factors)}
    BY <2>1 DEF Asked, Since, Asking
  <2>3. passed \in 0..Len(factors) /\ again \in 0..MaxAgain /\ mfa_index \in 0..Len(factors) + MaxAgain
        /\ mfa_index <= passed + again
    BY <2>1 DEF Asked, Since, Ended, Answered
  <2>4. QED
    BY <1>1, <1>2, <1>3, <2>1, <2>2, <2>3
    DEF Asked, Before, Asking, Since, Ended, Answered, Factors, given, login
<1>7. QED
  BY <1>4, <1>5, <1>6, Elsewheres

LEMMA AskedKilled == ASSUME Shaped, Asked, Next, Signal
                     PROVE  Asked'
<1>1. UNCHANGED <<given, passed, again, mfa_index>>
  BY Given, Killed
<1>2. CASE at' = at /\ UNCHANGED <<challenge, answer>>
  BY <1>1, <1>2 DEF Asked, Answered, given
<1>3. CASE at' = "killed" /\ challenge' = "none" /\ answer' = "none"
  BY <1>1, <1>3 DEF Asked, Answered, given, Ended, Before, Since, Asking, Factors
<1>4. QED
  BY <1>2, <1>3, Killed

\* A step of the login to a challenge of the gateway's, or to the end of the login.
LEMMA AskedAfter ==
    ASSUME Shaped, Asked, UNCHANGED given, at' = "failed" => challenge' = "none",
           at' \in Asking \cup {"failed", "create"},
           challenge' # "none" <=> at' \in Asking,
           challenge' \in Factors \cup {"none", "MobileAccess", "UserNameInput"},
           challenge' \in Factors => passed' < Len(factors) /\ challenge' = factors[passed' + 1],
           challenge' \in {"MobileAccess", "UserNameInput"} => passed' = 0,
           at' \in {"bind", "listen"} => challenge' = "IdentityProvider",
           passed' \in 0..Len(factors), again' \in 0..MaxAgain, mfa_index' \in 0..Len(factors) + MaxAgain,
           at' = "create" => passed' \in {0, Len(factors)},
           at' # "failed" => mfa_index' <= passed' + again' + (IF Answered THEN 1 ELSE 0)',
           answer' \in {"none", "password", "mfa_code", "typed", "token"}
    PROVE  Asked'
<1>1. at' \notin Before
  BY DEF Asking, Before
<1>2. at' \in Since => at' = "create"
  BY DEF Asking, Since
<1>3. at' \notin Ended => at' # "failed"
  BY DEF Ended
<1>4. QED
  BY <1>1, <1>2, <1>3 DEF Asked, given

LEMMA AskedInLogin == ASSUME Shaped, Asked, Next, InLogin
                      PROVE  Asked'
<1>1. UNCHANGED given
  BY Given
<1>2. Len(factors) \in Nat /\ \A i \in 1..Len(factors) : factors[i] \in Factors
  BY DEF Shaped
<1>3. /\ passed \in 0..Len(factors) /\ again \in 0..MaxAgain /\ mfa_index \in 0..Len(factors) + MaxAgain
      /\ answer \in {"none", "password", "mfa_code", "typed", "token"}
      /\ MaxAgain \in Nat
  BY StandaloneAssumption DEF Asked
<1>4. CASE Authenticate
  <2>1. at = "session" /\ challenge = "none" /\ passed = 0 /\ again = 0 /\ mfa_index = 0
    BY <1>4 DEF Authenticate, Asked, Before, Asking
  <2>2. passed' = 0 /\ again' = 0 /\ mfa_index' = 0 /\ answer' = answer
    BY <1>4, <2>1 DEF Authenticate
  <2>3. CASE at' = "failed" /\ UNCHANGED challenge
    BY <1>1, <1>2, <1>3, <2>1, <2>2, <2>3, AskedAfter DEF Asking, Factors
  <2>4. CASE challenge' \in {"MobileAccess", "UserNameInput"} /\ at' = "question"
    BY <1>1, <1>2, <1>3, <2>1, <2>2, <2>4, AskedAfter DEF Asking, Factors
  <2>5. CASE AsksFor(0)
    <3>1. CASE 0 < Len(factors) /\ challenge' = factors[1] /\ at' = "question"
      BY <1>1, <1>2, <1>3, <2>1, <2>2, <3>1, AskedAfter DEF Asking, Factors
    <3>2. CASE 0 = Len(factors) /\ challenge' = "none" /\ at' = "create"
      BY <1>1, <1>2, <1>3, <2>1, <2>2, <3>2, AskedAfter DEF Asking, Factors, Answered
    <3>3. QED
      BY <1>2, <2>5, <3>1, <3>2 DEF AsksFor
  <2>6. QED
    BY <1>4, <2>3, <2>4, <2>5 DEF Authenticate
<1>5. CASE AnswerPassword
  <2>1. /\ at = "question" /\ challenge = "PasswordInput" /\ mfa_index' = mfa_index + 1
        /\ UNCHANGED <<passed, again>> /\ passed < Len(factors) /\ challenge = factors[passed + 1]
        /\ mfa_index <= passed + again
    BY <1>5 DEF AnswerPassword, Asked, Factors, Answered, Ended
  <2>2. \/ at' = "reply" /\ challenge' = challenge
        \/ at' = "failed" /\ challenge' = "none"
    BY <1>5 DEF AnswerPassword, Typed, Goes
  <2>3. answer' \in {"none", "password", "mfa_code", "typed", "token"}
    BY <1>3, <1>5 DEF AnswerPassword, Typed, Goes
  <2>4. mfa_index' \in 0..Len(factors) + MaxAgain
    BY <1>2, <1>3, <2>1
  <2>5. CASE at' = "reply" /\ challenge' = challenge
    BY <1>1, <1>2, <1>3, <2>1, <2>3, <2>4, <2>5, AskedAfter DEF Asking, Factors, Answered
  <2>6. CASE at' = "failed" /\ challenge' = "none"
    BY <1>1, <1>2, <1>3, <2>1, <2>3, <2>4, <2>6, AskedAfter DEF Asking, Factors
  <2>7. QED
    BY <2>2, <2>5, <2>6
<1>6. CASE AnswerTyped
  <2>1. /\ challenge \in {"MobileAccess", "UserNameInput"} /\ UNCHANGED <<passed, again, mfa_index>>
        /\ passed = 0 /\ at = "question" /\ mfa_index <= passed + again
    BY <1>6 DEF AnswerTyped, Asked, Typed, Goes, Answered, Ended
  <2>2. \/ at' = "reply" /\ challenge' = challenge /\ answer' = "typed"
        \/ at' = "failed" /\ challenge' = "none" /\ answer' = answer
    BY <1>6 DEF AnswerTyped, Typed, Goes
  <2>3. CASE at' = "reply" /\ challenge' = challenge /\ answer' = "typed"
    BY <1>1, <1>2, <1>3, <2>1, <2>3, AskedAfter DEF Asking, Factors, Answered
  <2>4. CASE at' = "failed" /\ challenge' = "none" /\ answer' = answer
    BY <1>1, <1>2, <1>3, <2>1, <2>4, AskedAfter DEF Asking, Factors
  <2>5. QED
    BY <2>2, <2>3, <2>4
<1>7. CASE ShowUrl
  <2>1. /\ at = "question" /\ at' = "bind" /\ challenge = "IdentityProvider" /\ UNCHANGED login
        /\ mfa_index <= passed + again /\ passed < Len(factors) /\ challenge = factors[passed + 1]
    BY <1>7 DEF ShowUrl, Goes, Asked, Answered, Ended, Factors
  <2>2. QED
    BY <1>1, <1>2, <1>3, <2>1, AskedAfter DEF Asking, Factors, Answered, login
<1>8. CASE Bind \/ ListenFails \/ Receive
  <2>1. /\ at \in {"bind", "listen"} /\ challenge = "IdentityProvider"
        /\ mfa_index <= passed + again /\ passed < Len(factors) /\ challenge = factors[passed + 1]
    BY <1>8 DEF Bind, ListenFails, Receive, Goes, Asked, Answered, Ended, Factors
  <2>2. /\ UNCHANGED <<passed, again, mfa_index>>
        /\ \/ at' \in {"listen", "reply"} /\ challenge' = challenge /\ answer' \in {answer, "token"}
           \/ at' = "failed" /\ challenge' = "none" /\ answer' = answer
    BY <1>8 DEF Bind, ListenFails, Receive, Goes
  <2>3. CASE at' \in {"listen", "reply"} /\ challenge' = challenge /\ answer' \in {answer, "token"}
    BY <1>1, <1>2, <1>3, <2>1, <2>2, <2>3, AskedAfter DEF Asking, Factors, Answered
  <2>4. CASE at' = "failed" /\ challenge' = "none" /\ answer' = answer
    BY <1>1, <1>2, <1>3, <2>1, <2>2, <2>4, AskedAfter DEF Asking, Factors
  <2>5. QED
    BY <2>2, <2>3, <2>4
<1>9. CASE Reply
  <2>1. /\ at = "reply" /\ answer' = "none" /\ UNCHANGED mfa_index
        /\ mfa_index <= passed + again + (IF challenge = "PasswordInput" THEN 1 ELSE 0)
    BY <1>9 DEF Reply, Asked, Answered, Ended
  <2>2. CASE at' = "failed" /\ challenge' = "none" /\ UNCHANGED <<passed, again>>
    BY <1>1, <1>2, <1>3, <2>1, <2>2, AskedAfter DEF Asking, Factors
  <2>3. CASE challenge = "MobileAccess" /\ at' = "create" /\ challenge' = "none" /\ UNCHANGED <<passed, again>>
    <3>1. passed = 0
      BY <2>3 DEF Asked
    <3>2. QED
      BY <1>1, <1>2, <1>3, <2>1, <2>3, <3>1, AskedAfter DEF Asking, Factors, Answered
  <2>4. CASE challenge = "UserNameInput" /\ AsksFor(0) /\ UNCHANGED <<passed, again>>
    <3>1. passed = 0
      BY <2>4 DEF Asked
    <3>2. CASE 0 < Len(factors) /\ challenge' = factors[1] /\ at' = "question"
      BY <1>1, <1>2, <1>3, <2>1, <2>4, <3>1, <3>2, AskedAfter DEF Asking, Factors, Answered
    <3>3. CASE 0 = Len(factors) /\ challenge' = "none" /\ at' = "create"
      BY <1>1, <1>2, <1>3, <2>1, <2>4, <3>1, <3>3, AskedAfter DEF Asking, Factors, Answered
    <3>4. QED
      BY <1>2, <2>4, <3>2, <3>3 DEF AsksFor
  <2>5. CASE challenge \in Factors /\ passed' = passed + 1 /\ AsksFor(passed + 1) /\ UNCHANGED again
    <3>1. passed < Len(factors) /\ passed' \in 0..Len(factors)
      BY <1>2, <1>3, <2>5 DEF Asked
    <3>2. mfa_index' <= passed' + again'
      BY <1>2, <1>3, <2>1, <2>5
    <3>3. CASE passed + 1 < Len(factors) /\ challenge' = factors[passed + 1 + 1] /\ at' = "question"
      <4>1. challenge' \in Factors /\ passed' < Len(factors) /\ challenge' = factors[passed' + 1]
        BY <1>2, <1>3, <2>5, <3>3
      <4>2. QED
        BY <1>1, <1>2, <1>3, <2>1, <2>5, <3>1, <3>2, <3>3, <4>1, AskedAfter DEF Asking, Factors, Answered
    <3>4. CASE ~(passed + 1 < Len(factors)) /\ challenge' = "none" /\ at' = "create"
      <4>1. passed' = Len(factors)
        BY <1>2, <1>3, <2>5, <3>1, <3>4
      <4>2. QED
        BY <1>1, <1>2, <1>3, <2>1, <2>5, <3>1, <3>2, <3>4, <4>1, AskedAfter DEF Asking, Factors, Answered
    <3>5. QED
      BY <2>5, <3>3, <3>4 DEF AsksFor
  <2>6. CASE /\ challenge \in Factors /\ again < MaxAgain
             /\ again' = again + 1 /\ at' = "question" /\ UNCHANGED <<challenge, passed>>
    <3>1. passed < Len(factors) /\ challenge = factors[passed + 1]
      BY <2>6 DEF Asked
    <3>2. again' \in 0..MaxAgain /\ mfa_index' <= passed' + again'
      BY <1>2, <1>3, <2>1, <2>6
    <3>3. QED
      BY <1>1, <1>2, <1>3, <2>1, <2>6, <3>1, <3>2, AskedAfter DEF Asking, Factors, Answered
  <2>7. QED
    BY <1>9, <2>2, <2>3, <2>4, <2>5, <2>6 DEF Reply
<1>10. QED
  BY <1>4, <1>5, <1>6, <1>7, <1>8, <1>9 DEF InLogin

LEMMA AskedNext == ASSUME Shaped, Asked, Next
                   PROVE  Asked'
BY AskedElsewhere, AskedKilled, AskedInLogin, NextSteps

-----------------------------------------------------------------------------
(* The answers *)

LEMMA TextsIs ==
    ASSUME NEW n \in Nat
    PROVE  /\ IsFiniteSet(Texts(n)) /\ Cardinality(Texts(n)) \in Nat
           /\ factors[n + 1] = "PasswordInput" => Cardinality(Texts(n + 1)) = Cardinality(Texts(n)) + 1
           /\ factors[n + 1] # "PasswordInput" => Texts(n + 1) = Texts(n)
<1>1. IsFiniteSet(1..n)
  BY FS_Interval
<1>2. Texts(n) \subseteq 1..n
  BY DEF Texts
<1>3. IsFiniteSet(Texts(n)) /\ Cardinality(Texts(n)) \in Nat
  BY <1>1, <1>2, FS_Subset, FS_CardinalityType
<1>4. n + 1 \notin Texts(n)
  BY DEF Texts
<1>5. factors[n + 1] = "PasswordInput" => Texts(n + 1) = Texts(n) \cup {n + 1}
  BY DEF Texts
<1>6. factors[n + 1] # "PasswordInput" => Texts(n + 1) = Texts(n)
  BY DEF Texts
<1>7. QED
  BY <1>3, <1>4, <1>5, <1>6, FS_AddElement

LEMMA FitsInit == Init => Fits
<1> SUFFICES ASSUME Init
             PROVE  Fits
  OBVIOUS
<1>1. Texts(passed) = {}
  BY DEF Texts, Init
<1>2. Cardinality(Texts(passed)) = 0
  BY <1>1, FS_EmptySet
<1>3. QED
  BY <1>2 DEF Init, Fits, Answered

\* A step that answers no challenge for a text and lets nothing pass.
LEMMA FitsStill ==
    ASSUME Fits, UNCHANGED <<given, passed, again, mfa_index>>,
           at' \notin Ended => at \notin Ended,
           at' \notin Ended => ~Answered /\ ~Answered',
           at' = "reply" /\ challenge' = "IdentityProvider" => answer' = "token"
    PROVE  Fits'
<1>1. Answered' => at' \notin Ended
  BY DEF Answered, Ended
<1>2. Texts(passed)' = Texts(passed)
  BY DEF Texts, given
<1>3. QED
  BY <1>1, <1>2 DEF Fits

LEMMA FitsNext == ASSUME Shaped, Asked, Fits, Next
                  PROVE  Fits'
<1>1. UNCHANGED given
  BY Given
<1>2. CASE UNCHANGED <<at, login>>
  BY <1>1, <1>2 DEF Fits, Answered, Texts, login, given
<1>3. CASE Elsewhere
  BY <1>2, <1>3, Elsewheres
<1>4. CASE Early \/ Late
  <2>1. UNCHANGED login /\ at \in Before \cup Since /\ at' \in Before \cup Since \cup {"failed", "ended"}
    BY <1>4, Earlies, Lates DEF Before, Since
  <2>2. ~Answered /\ ~Answered' /\ at' # "reply" /\ (at' \notin Ended => at \notin Ended)
    BY <2>1 DEF Answered, Before, Since, Ended
  <2>3. QED
    BY <1>1, <2>1, <2>2, FitsStill DEF login
<1>5. CASE Signal
  <2>1. CASE at' = at /\ UNCHANGED <<challenge, answer>>
    BY <1>2, <1>5, <2>1, Killed DEF login
  <2>2. CASE at' = "killed"
    BY <1>1, <1>5, <2>2, Killed, FitsStill DEF Ended
  <2>3. QED
    BY <1>5, <2>1, <2>2, Killed
<1>6. CASE Authenticate
  <2>1. at = "session" /\ at' \in {"failed", "question", "create"} /\ UNCHANGED <<passed, again, mfa_index>>
    BY <1>6 DEF Authenticate, AsksFor
  <2>2. QED
    BY <1>1, <2>1, FitsStill DEF Answered, Ended
<1>7. CASE AnswerPassword
  <2>1. /\ at = "question" /\ challenge = "PasswordInput" /\ mfa_index' = mfa_index + 1
        /\ UNCHANGED <<passed, again>>
    BY <1>7 DEF AnswerPassword
  <2>2. CASE at' = "failed" /\ challenge' = "none"
    <3>1. ~Answered' /\ at' \in Ended
      BY <2>2 DEF Answered, Ended
    <3>2. QED
      BY <2>2, <3>1 DEF Fits
  <2>3. CASE at' = "reply" /\ challenge' = challenge
    <3>1. Answered' /\ ~Answered /\ at \notin Ended /\ UNCHANGED params
      BY <1>1, <2>1, <2>3 DEF Answered, Ended, given
    <3>2. again' = 0 => mfa_index' = Cardinality(Texts(passed)') + 1
      <4>1. again = 0 => mfa_index = Cardinality(Texts(passed)) + 0
        BY <3>1 DEF Fits
      <4>3. passed \in Nat /\ Cardinality(Texts(passed)) \in Nat
        BY TextsIs DEF Asked, Shaped
      <4>2. Texts(passed)' = Texts(passed)
        BY <1>1, <2>1 DEF Texts, given
      <4>4. QED
        BY <2>1, <4>1, <4>2, <4>3
    <3>3. params \in ParamsType
      BY DEF Shaped
    <3>4. /\ answer' \in {"password", "mfa_code", "typed"}
          /\ answer' = "password" => mfa_index' = params.password_factor
          /\ answer' = "mfa_code" => mfa_index' # params.password_factor
          /\ mfa_index' = params.password_factor /\ params.password => answer' = "password"
      BY <1>7, <2>3, <3>3 DEF AnswerPassword, Typed, Goes, ParamsType
    <3>5. QED
      BY <2>1, <2>3, <3>1, <3>2, <3>4 DEF Fits
  <2>4. QED
    BY <1>7, <2>2, <2>3 DEF AnswerPassword, Typed, Goes
<1>8. CASE AnswerTyped \/ ShowUrl \/ Bind \/ ListenFails \/ Receive
  <2>1. UNCHANGED <<passed, again, mfa_index>>
    BY <1>8 DEF AnswerTyped, ShowUrl, Bind, ListenFails, Receive, login
  <2>2. at \in {"question", "bind", "listen"} /\ at' \in {"failed", "bind", "listen", "reply"}
    <3>1. CASE AnswerTyped
      BY <3>1 DEF AnswerTyped, Typed, Goes
    <3>2. CASE ShowUrl \/ Bind \/ ListenFails \/ Receive
      BY <3>2 DEF ShowUrl, Bind, ListenFails, Receive, Goes
    <3>3. QED
      BY <1>8, <3>1, <3>2
  <2>3. at' = "reply" => challenge' # "PasswordInput" /\ (challenge' = "IdentityProvider" => answer' = "token")
    <3>1. CASE AnswerTyped
      BY <3>1 DEF AnswerTyped, Typed, Goes
    <3>2. CASE ShowUrl \/ Bind \/ ListenFails
      BY <3>2 DEF ShowUrl, Bind, ListenFails, Goes
    <3>3. CASE Receive
      BY <3>3 DEF Receive, Asked
    <3>4. QED
      BY <1>8, <3>1, <3>2, <3>3
  <2>4. QED
    BY <1>1, <2>1, <2>2, <2>3, FitsStill DEF Answered, Ended
<1>9. CASE Reply
  <2>1. at = "reply" /\ UNCHANGED mfa_index /\ at' \in {"failed", "create", "question"}
    BY <1>9 DEF Reply, AsksFor
  <2>2. ~Answered' /\ at \notin Ended
    BY <2>1 DEF Answered, Ended
  <2>3. passed \in Nat /\ again \in Nat
    BY DEF Asked, Shaped
  <2>4. again = 0 /\ at' # "failed" => again' # 0 \/ mfa_index' = Cardinality(Texts(passed)')
    <3>1. SUFFICES ASSUME again = 0, at' # "failed", again' = 0
                   PROVE  mfa_index' = Cardinality(Texts(passed)')
      OBVIOUS
    <3>2. mfa_index = Cardinality(Texts(passed)) + (IF Answered THEN 1 ELSE 0)
      BY <2>2, <3>1 DEF Fits
    <3>3. CASE challenge \in {"MobileAccess", "UserNameInput"} /\ UNCHANGED passed
      <4>1. ~Answered /\ Texts(passed)' = Texts(passed)
        BY <1>1, <3>3 DEF Answered, Texts, given
      <4>2. QED
        BY <2>1, <2>3, <3>2, <4>1, TextsIs
    <3>4. CASE challenge \in Factors /\ passed' = passed + 1
      <4>1. challenge = factors[passed + 1]
        BY <3>4 DEF Asked
      <4>2. Texts(passed)' = Texts(passed + 1)
        BY <1>1, <3>4 DEF Texts, given
      <4>3. CASE challenge = "PasswordInput"
        BY <2>1, <2>3, <3>2, <4>1, <4>2, <4>3, TextsIs DEF Answered
      <4>4. CASE challenge # "PasswordInput"
        BY <2>1, <2>3, <3>2, <4>1, <4>2, <4>4, TextsIs DEF Answered
      <4>5. QED
        BY <4>3, <4>4
    <3>5. QED
      BY <1>9, <2>3, <3>1, <3>3, <3>4 DEF Reply
  <2>5. again' = 0 => again = 0
    BY <1>9, <2>3 DEF Reply
  <2>6. at' \notin Ended => at' # "failed"
    BY DEF Ended
  <2>7. at' # "reply"
    BY <2>1
  <2>8. mfa_index' \in Nat
    BY <2>1, StandaloneAssumption DEF Asked, Shaped
  <2>9. at' \notin Ended /\ again' = 0 => mfa_index' = Cardinality(Texts(passed)') + 0
    BY <2>4, <2>5, <2>6, <2>8
  <2>10. QED
    BY <2>2, <2>7, <2>9 DEF Fits
<1>10. QED
  BY <1>3, <1>4, <1>5, <1>6, <1>7, <1>8, <1>9, NextSteps DEF InLogin

-----------------------------------------------------------------------------
(* The probes *)

LEMMA ProbedInit == Init => Probed
BY DEF Init, Probed

LEMMA AnswersReach ==
    /\ natt # "odd" /\ Answers => Reached
    /\ probe.round = 2 /\ ~Answers => ~Reached
    /\ natt = "odd" => ~Reached
BY DEF Answers, Reached

LEMMA ProbedNext == ASSUME Shaped, Asked, Probed, Next
                    PROVE  Probed'
<1>1. UNCHANGED <<params, natt>> /\ Reached' = Reached
  BY Given DEF given, Reached
<1> DEFINE Way == /\ params.transport = "auto" /\ transport \in {"udp", "kernel"} => Reached
                  /\ params.transport = "auto" /\ transport = "tcpt" => ~Reached \/ probe.broken
           At == /\ params.transport = "auto" /\ transport = "none" /\ probe.round \in 1..2
                 /\ natt # "odd" =>
                        /\ probe.now \in Nat /\ probe.due \subseteq Nat
                        /\ probe.due # {} => Reached
                        /\ probe.try = 4 => probe.broken \/ ~Answers
<1>2. Way /\ (at = "probe" => At)
  BY DEF Probed
<1>3. SUFFICES Way' /\ (at' = "probe" => At')
  BY DEF Probed
<1>4. probe.broken \in BOOLEAN /\ probe.round \in 0..2 /\ probe.try \in 1..4
  BY DEF Shaped
<1>5. CASE UNCHANGED probing /\ (at' = "probe" => at = "probe")
  <2>1. Answers' = Answers
    BY <1>1, <1>5 DEF Answers, probing
  <2>2. QED
    BY <1>1, <1>2, <1>5, <2>1 DEF probing
<1>6. CASE /\ at = "connector" /\ at' = "session" /\ params.transport # "auto"
           /\ transport' = params.transport /\ probe' = probe
  BY <1>1, <1>6
<1>7. CASE /\ at = "connector" /\ at' = "probe" /\ params.transport = "auto" /\ transport' = "none"
           /\ probe' = [round |-> 1, try |-> 1, now |-> 0, due |-> {}, broken |-> FALSE]
  <2>1. probe'.round = 1 /\ probe'.try = 1 /\ probe'.now = 0 /\ probe'.due = {}
    BY <1>7
  <2>2. QED
    BY <1>1, <1>7, <2>1
<1>8. CASE /\ at' \in {"session", "killed"}
           /\ probe' = [round |-> 0, try |-> 1, now |-> 0, due |-> {}, broken |-> probe.broken]
           /\ \/ at' = "killed" /\ transport' = transport
              \/ /\ at = "probe" /\ transport' \in {"kernel", "udp"} /\ natt # "odd"
                 /\ probe.due # {} \/ Answers
              \/ /\ at = "probe" /\ transport' = "tcpt" /\ probe.round # 1 /\ probe.try = 4
  <2>1. probe'.broken = probe.broken /\ at' # "probe"
    BY <1>8
  <2>2. CASE at' = "killed" /\ transport' = transport
    BY <1>1, <1>2, <2>1, <2>2
  <2>3. CASE /\ at = "probe" /\ transport' \in {"kernel", "udp"} /\ natt # "odd"
             /\ probe.due # {} \/ Answers
    BY <1>1, <1>2, <2>1, <2>3, AnswersReach
  <2>4. CASE at = "probe" /\ transport' = "tcpt" /\ probe.round # 1 /\ probe.try = 4
    <3>1. probe.round = 2 /\ (probe.broken \/ ~Answers \/ natt = "odd")
      BY <1>2, <2>4
    <3>2. ~Reached \/ probe.broken
      BY <3>1, AnswersReach
    <3>3. QED
      BY <1>1, <2>1, <2>4, <3>2
  <2>5. QED
    BY <1>8, <2>2, <2>3, <2>4
<1>9. CASE /\ at = "probe" /\ at' = "session" /\ transport' = "tcpt"
           /\ probe' = [round |-> 0, try |-> 1, now |-> 0, due |-> {}, broken |-> TRUE]
  <2>1. probe'.broken
    BY <1>9
  <2>2. QED
    BY <1>1, <1>9, <2>1
<1>10. CASE /\ at = "probe" /\ at' = "probe" /\ transport' = transport
            /\ probe' = [round |-> 2, try |-> 1, now |-> 0, due |-> {}, broken |-> probe.broken]
  <2>1. probe'.round = 2 /\ probe'.try = 1 /\ probe'.now = 0 /\ probe'.due = {}
    BY <1>10
  <2>2. QED
    BY <1>1, <1>2, <1>10, <2>1
<1>11. CASE /\ at = "probe" /\ at' = "probe" /\ transport' = transport
            /\ probe' = [round |-> probe.round, try |-> 4, now |-> probe.now, due |-> probe.due,
                         broken |-> TRUE]
  <2>1. probe'.round = probe.round /\ probe'.now = probe.now /\ probe'.due = probe.due
    BY <1>11
  <2>2. probe'.broken
    BY <1>11
  <2>3. QED
    BY <1>1, <1>2, <1>11, <2>1, <2>2
<1>12. ASSUME at = "probe", at' = "probe", transport' = transport, NEW delay \in Delays, NEW t, NEW d,
              probe' = [round |-> probe.round, try |-> probe.try + 1, now |-> t, due |-> d,
                        broken |-> probe.broken],
              probe.try \in 1..3,
              natt # "odd" =>
                  /\ t = probe.now + Timeouts[probe.try]
                  /\ d = probe.due \cup (IF Answers THEN {probe.now + delay} ELSE {})
                  /\ \A x \in d : x > t
       PROVE  Way' /\ At'
  <2>1. /\ probe'.round = probe.round /\ probe'.now = t /\ probe'.due = d
        /\ probe'.try = probe.try + 1
    BY <1>12
  <2>2. probe'.broken = probe.broken
    BY <1>12
  <2>3. Answers' = Answers
    BY <1>1, <2>1 DEF Answers
  <2>4. delay \in 1..10
    BY StandaloneAssumption
  <2>5. ASSUME natt # "odd"
        PROVE  /\ t \in Nat /\ d \subseteq Nat /\ (d # {} => Reached)
               /\ probe.try + 1 = 4 => ~Answers
    <3>1. probe.now \in Nat /\ probe.due \subseteq Nat /\ (probe.due # {} => Reached)
      BY <1>2, <1>12, <2>5
    <3>2. t = probe.now + Timeouts[probe.try] /\ Timeouts[probe.try] \in Nat
      BY <1>12, <2>5, TimeoutsAre
    <3>3. d = probe.due \cup (IF Answers THEN {probe.now + delay} ELSE {})
      BY <1>12, <2>5
    <3>4. d \subseteq Nat /\ (d # {} => Reached)
      <4>1. CASE Answers
        BY <2>4, <2>5, <3>1, <3>3, <4>1, AnswersReach
      <4>2. CASE ~Answers
        BY <3>1, <3>3, <4>2
      <4>3. QED
        BY <4>1, <4>2
    <3>5. probe.try + 1 = 4 => ~Answers
      <4>1. SUFFICES ASSUME probe.try = 3, Answers
                     PROVE  FALSE
        BY <1>12
      <4>2. probe.now + delay \in d /\ t = probe.now + 10
        BY <3>2, <3>3, <4>1, TimeoutsAre
      <4>3. probe.now + delay > probe.now + 10
        BY <1>12, <2>5, <4>2
      <4>4. QED
        BY <2>4, <3>1, <4>3
    <3>6. QED
      BY <3>1, <3>2, <3>4, <3>5
  <2>6. QED
    BY <1>1, <1>2, <1>12, <2>1, <2>2, <2>3, <2>5
<1> HIDE DEF Way, At
<1>13. QED
  BY <1>5, <1>6, <1>7, <1>8, <1>9, <1>10, <1>11, <1>12, Probing

-----------------------------------------------------------------------------
(* The listener *)

\* The fields of the listener after a step.
LEMMA ListenerShape ==
    ASSUME listener \in ListenerType, NEW a, NEW s, NEW m, NEW c, NEW d
    PROVE  /\ [listener EXCEPT !.accepted = a, !.serving = a, !.idle = d] =
                  [clock |-> listener.clock, serving |-> a, accepted |-> a, idle |-> d,
                   mailbox |-> listener.mailbox]
           /\ [listener EXCEPT !.serving = s, !.mailbox = m] =
                  [clock |-> listener.clock, serving |-> s, accepted |-> listener.accepted,
                   idle |-> listener.idle, mailbox |-> m]
           /\ [listener EXCEPT !.serving = s] =
                  [clock |-> listener.clock, serving |-> s, accepted |-> listener.accepted,
                   idle |-> listener.idle, mailbox |-> listener.mailbox]
           /\ [listener EXCEPT !.clock = c] =
                  [clock |-> c, serving |-> listener.serving, accepted |-> listener.accepted,
                   idle |-> listener.idle, mailbox |-> listener.mailbox]
           /\ [listener EXCEPT !.clock = c, !.idle = d] =
                  [clock |-> c, serving |-> listener.serving, accepted |-> listener.accepted,
                   idle |-> d, mailbox |-> listener.mailbox]
<1> DEFINE P(f, g, h, i, j) == [clock |-> f, serving |-> g, accepted |-> h, idle |-> i, mailbox |-> j]
<1>1. \A f, g, h, i, j : /\ [P(f, g, h, i, j) EXCEPT !.accepted = a] = P(f, g, a, i, j)
                         /\ [P(f, g, h, i, j) EXCEPT !.serving = s] = P(f, s, h, i, j)
                         /\ [P(f, g, h, i, j) EXCEPT !.serving = a] = P(f, a, h, i, j)
                         /\ [P(f, g, h, i, j) EXCEPT !.mailbox = m] = P(f, g, h, i, m)
                         /\ [P(f, g, h, i, j) EXCEPT !.clock = c] = P(c, g, h, i, j)
                         /\ [P(f, g, h, i, j) EXCEPT !.idle = d] = P(f, g, h, d, j)
  OBVIOUS
<1> DEFINE F == listener.clock
           G == listener.serving
           H == listener.accepted
           I == listener.idle
           J == listener.mailbox
<1>2. listener = P(F, G, H, I, J)
  BY DEF ListenerType
<1>3. /\ [listener EXCEPT !.accepted = a, !.serving = a, !.idle = d] =
             [[[listener EXCEPT !.accepted = a] EXCEPT !.serving = a] EXCEPT !.idle = d]
      /\ [listener EXCEPT !.serving = s, !.mailbox = m] =
             [[listener EXCEPT !.serving = s] EXCEPT !.mailbox = m]
      /\ [listener EXCEPT !.clock = c, !.idle = d] = [[listener EXCEPT !.clock = c] EXCEPT !.idle = d]
  OBVIOUS
<1> HIDE DEF P, F, G, H, I, J
<1>4. /\ [listener EXCEPT !.accepted = a] = P(F, G, a, I, J)
      /\ [listener EXCEPT !.serving = s] = P(F, s, H, I, J)
      /\ [listener EXCEPT !.clock = c] = P(c, G, H, I, J)
  BY <1>1, <1>2
<1>5. /\ [P(F, G, a, I, J) EXCEPT !.serving = a] = P(F, a, a, I, J)
      /\ [P(F, a, a, I, J) EXCEPT !.idle = d] = P(F, a, a, d, J)
      /\ [P(F, s, H, I, J) EXCEPT !.mailbox = m] = P(F, s, H, I, m)
      /\ [P(c, G, H, I, J) EXCEPT !.idle = d] = P(c, G, H, d, J)
  BY <1>1
<1>6. /\ [listener EXCEPT !.accepted = a, !.serving = a, !.idle = d] = P(F, a, a, d, J)
      /\ [listener EXCEPT !.serving = s, !.mailbox = m] = P(F, s, H, I, m)
      /\ [listener EXCEPT !.serving = s] = P(F, s, H, I, J)
      /\ [listener EXCEPT !.clock = c] = P(c, G, H, I, J)
      /\ [listener EXCEPT !.clock = c, !.idle = d] = P(c, G, H, d, J)
  BY <1>3, <1>4, <1>5
<1>7. QED
  BY <1>6 DEF P, F, G, H, I, J

LEMMA SilentIs ==
    ASSUME NEW n \in Nat
    PROVE  IsFiniteSet(Silent(n)) /\ Cardinality(Silent(n)) \in Nat
<1>1. IsFiniteSet(1..n) /\ Silent(n) \subseteq 1..n
  BY FS_Interval DEF Silent
<1>2. QED
  BY <1>1, FS_Subset, FS_CardinalityType

LEMMA NobodyListens ==
    ASSUME listener = NoListener, connections = <<>>
    PROVE  Listened
<1>1. listener \in ListenerType
  BY NoListenerIs DEF ListenerType, OtpTimeout, HeaderTimeout
<1>2. listener.accepted = 0 /\ listener.serving = 0 /\ listener.mailbox = 0
  BY NoListenerIs
<1>3. Len(connections) = 0 /\ connections \in Seq([kind : Kinds, time : 0..OtpTimeout])
  OBVIOUS
<1>4. QED
  BY <1>1, <1>2, <1>3, StandaloneAssumption DEF Listened

LEMMA NobodyListensNext ==
    ASSUME listener' = NoListener, connections' = <<>>
    PROVE  Listened'
<1>1. listener' \in ListenerType
  BY NoListenerIs DEF ListenerType, OtpTimeout, HeaderTimeout
<1>2. listener'.accepted = 0 /\ listener'.serving = 0 /\ listener'.mailbox = 0
  BY NoListenerIs
<1>3. Len(connections') = 0 /\ connections' \in Seq([kind : Kinds, time : 0..OtpTimeout])
  OBVIOUS
<1>4. ListenerType' = ListenerType
  BY DEF ListenerType
<1>5. QED
  BY <1>1, <1>2, <1>3, <1>4, StandaloneAssumption DEF Listened

LEMMA ListenerFields ==
    ASSUME Listened
    PROVE  /\ listener.clock \in 0..4 /\ listener.idle \in 0..1
           /\ listener.accepted \in Nat /\ listener.serving \in Nat /\ listener.mailbox \in Nat
           /\ Len(connections) \in Nat
           /\ \A i \in 1..Len(connections) :
                  connections[i].kind \in Kinds /\ connections[i].time \in 0..4
<1>1. listener \in [clock : 0..4, serving : Nat, accepted : Nat, idle : 0..1, mailbox : Nat]
  BY DEF Listened, ListenerType, OtpTimeout, HeaderTimeout
<1> DEFINE T == [kind : Kinds, time : 0..4]
<1>2. connections \in Seq(T)
  BY DEF Listened, OtpTimeout
<1>3. \A t \in T : t.kind \in Kinds /\ t.time \in 0..4
  OBVIOUS
<1> HIDE DEF T
<1>4. Len(connections) \in Nat /\ \A i \in 1..Len(connections) : connections[i] \in T
  BY <1>2
<1>5. QED
  BY <1>1, <1>3, <1>4

\* A step of the listener's, field by field: the others wait no longer than the silent ones served let them.
LEMMA ListenedAfter ==
    ASSUME Listened, UNCHANGED connections,
           NEW c \in 0..4, NEW s \in Nat, NEW a \in Nat, NEW d \in 0..1, NEW m \in Nat,
           listener' = [clock |-> c, serving |-> s, accepted |-> a, idle |-> d, mailbox |-> m],
           a <= Len(connections), s \in {0, a}, m <= a, m # 0 => m # s,
           \A i \in 1..a : i # s /\ (m = 0 \/ i < m) => connections[i].kind \in {"closed", "silent"},
           \A i \in a + 1..Len(connections) :
               c - connections[i].time
                   <= Cardinality({j \in 1..a : connections[j].kind = "silent" /\ j # s})
                      + (IF s # 0 /\ connections[s].kind = "silent" THEN d ELSE 0)
    PROVE  Listened'
<1>1. /\ listener'.clock = c /\ listener'.serving = s /\ listener'.accepted = a /\ listener'.idle = d
      /\ listener'.mailbox = m
  OBVIOUS
<1>2. listener' \in ListenerType
  BY DEF ListenerType, OtpTimeout, HeaderTimeout
<1>3. Silent(a)' = {j \in 1..a : connections[j].kind = "silent" /\ j # s}
  BY <1>1 DEF Silent
<1>4. Cardinality(Silent(a)') \in Nat
  <2>1. IsFiniteSet(1..a) /\ Silent(a)' \subseteq 1..a
    BY <1>3, FS_Interval
  <2>2. QED
    BY <2>1, FS_Subset, FS_CardinalityType
<1>5. Serving' = connections[s].kind
  BY <1>1 DEF Serving
<1>6. connections \in Seq([kind : Kinds, time : 0..OtpTimeout]) /\ Len(connections) <= MaxConnections
  BY DEF Listened
<1>7. ListenerType' = ListenerType
  BY DEF ListenerType
<1> DEFINE C == Cardinality(Silent(a)')
<1>8. HeaderTimeout * C = C
  BY <1>4 DEF HeaderTimeout
<1>9. \A i \in a + 1..Len(connections) :
          c - connections[i].time <= C + (IF s # 0 /\ connections[s].kind = "silent" THEN d ELSE 0)
  BY <1>3
<1>10. Silent(listener.accepted)' = Silent(a)'
  BY <1>1 DEF Silent
<1> HIDE DEF C
<1>11. \A i \in (listener.accepted + 1..Len(connections))' :
           (listener.clock - connections[i].time)'
               <= HeaderTimeout * C + (IF listener.serving # 0 /\ Serving = "silent" THEN listener.idle ELSE 0)'
  BY <1>1, <1>5, <1>8, <1>9
<1>12. QED
  BY <1>1, <1>2, <1>6, <1>7, <1>10, <1>11 DEF Listened, C

LEMMA ListenedInit == Init => Listened
BY NobodyListens DEF Init

LEMMA ListenedConnect ==
    ASSUME Listened, NEW kind \in Kinds, Connect(kind)
    PROVE  Listened'
<1> DEFINE new == [kind |-> kind, time |-> listener.clock]
<1>1. /\ listener' = listener /\ connections' = Append(connections, new)
      /\ Len(connections) < MaxConnections
  BY DEF Connect
<1>2. /\ new \in [kind : Kinds, time : 0..OtpTimeout] /\ new.time = listener.clock
  BY ListenerFields DEF OtpTimeout
<1>3. connections \in Seq([kind : Kinds, time : 0..OtpTimeout])
  BY DEF Listened
<1> HIDE DEF new
<1>4. /\ connections' \in Seq([kind : Kinds, time : 0..OtpTimeout])
      /\ Len(connections') = Len(connections) + 1
      /\ \A i \in 1..Len(connections) : connections'[i] = connections[i]
      /\ connections'[Len(connections) + 1] = new
  BY <1>1, <1>2, <1>3
<1>5. /\ listener.accepted \in Nat /\ listener.accepted <= Len(connections) /\ Len(connections) \in Nat
      /\ listener.serving \in {0, listener.accepted}
  BY ListenerFields DEF Listened
<1>6. Silent(listener.accepted)' = Silent(listener.accepted)
  BY <1>1, <1>4, <1>5 DEF Silent
<1>7. listener.serving # 0 => Serving' = Serving
  BY <1>1, <1>4, <1>5 DEF Serving
<1> DEFINE C == Cardinality(Silent(listener.accepted))
           W == IF listener.serving # 0 /\ Serving = "silent" THEN listener.idle ELSE 0
<1>8. C \in Nat /\ W \in Nat
  <2>1. C \in Nat
    BY <1>5, SilentIs
  <2>2. listener.idle \in Nat
    BY ListenerFields
  <2>3. QED
    BY <2>1, <2>2
<1>9. W' = W
  BY <1>1, <1>7
<1>10. \A i \in listener.accepted + 1..Len(connections) :
           listener.clock - connections[i].time <= HeaderTimeout * C + W
  BY DEF Listened
<1> HIDE DEF C, W
<1>11. \A i \in listener.accepted + 1..Len(connections') :
           listener.clock - connections'[i].time <= HeaderTimeout * C + W
  <2>1. TAKE i \in listener.accepted + 1..Len(connections')
  <2>2. CASE i \in listener.accepted + 1..Len(connections)
    BY <1>4, <1>5, <1>10, <2>2
  <2>3. CASE i = Len(connections) + 1
    <3>1. listener.clock - connections'[i].time = 0
      BY <1>2, <1>4, <2>3, ListenerFields
    <3>2. QED
      BY <1>8, <3>1 DEF HeaderTimeout
  <2>4. QED
    BY <1>4, <1>5, <2>2, <2>3
<1>12. \A i \in 1..listener.accepted :
           i # listener.serving /\ (listener.mailbox = 0 \/ i < listener.mailbox) =>
               connections'[i].kind \in {"closed", "silent"}
  <2>1. \A i \in 1..listener.accepted :
            i # listener.serving /\ (listener.mailbox = 0 \/ i < listener.mailbox) =>
                connections[i].kind \in {"closed", "silent"}
    BY DEF Listened
  <2>2. \A i \in 1..listener.accepted : connections'[i] = connections[i]
    BY <1>4, <1>5
  <2>3. QED
    BY <2>1, <2>2
<1>13. /\ listener \in ListenerType /\ ListenerType' = ListenerType
       /\ listener.mailbox <= listener.accepted
       /\ listener.mailbox # 0 => listener.mailbox # listener.serving
  BY DEF Listened, ListenerType
<1>14. \A i \in (listener.accepted + 1..Len(connections))' :
           (listener.clock - connections[i].time)'
               <= HeaderTimeout * Cardinality(Silent(listener.accepted)')
                  + (IF listener.serving # 0 /\ Serving = "silent" THEN listener.idle ELSE 0)'
  BY <1>1, <1>6, <1>9, <1>11 DEF C, W
<1>15. Len(connections') <= MaxConnections
  BY <1>1, <1>4, <1>5, StandaloneAssumption
<1>16. QED
  BY <1>1, <1>4, <1>5, <1>12, <1>13, <1>14, <1>15 DEF Listened

\* How long the others have waited, in the terms of ListenedAfter.
LEMMA Waits ==
    ASSUME Listened
    PROVE  /\ Cardinality(Silent(listener.accepted)) \in Nat
           /\ \A i \in listener.accepted + 1..Len(connections) :
                  listener.clock - connections[i].time
                      <= Cardinality(Silent(listener.accepted))
                         + (IF listener.serving # 0 /\ connections[listener.serving].kind = "silent"
                            THEN listener.idle ELSE 0)
<1>1. Cardinality(Silent(listener.accepted)) \in Nat
  BY SilentIs, ListenerFields
<1>2. HeaderTimeout * Cardinality(Silent(listener.accepted)) = Cardinality(Silent(listener.accepted))
  BY <1>1 DEF HeaderTimeout
<1>3. QED
  BY <1>1, <1>2 DEF Listened, Serving

LEMMA ListenedAccept == ASSUME Listened, Accept
                        PROVE  Listened'
<1> DEFINE a == listener.accepted + 1
           silent == {j \in 1..a : connections[j].kind = "silent" /\ j # a}
<1>1. /\ listener' = [listener EXCEPT !.accepted = a, !.serving = a, !.idle = 0]
      /\ listener.serving = 0 /\ listener.accepted < Len(connections) /\ UNCHANGED connections
  BY DEF Accept
<1>2. listener \in ListenerType /\ listener.mailbox <= listener.accepted
  BY DEF Listened
<1>3. listener' = [clock |-> listener.clock, serving |-> a, accepted |-> a, idle |-> 0,
                   mailbox |-> listener.mailbox]
  <2> DEFINE none == 0
  <2>1. listener' = [listener EXCEPT !.accepted = a, !.serving = a, !.idle = none]
    BY <1>1
  <2> HIDE DEF a, none
  <2>2. [listener EXCEPT !.accepted = a, !.serving = a, !.idle = none] =
            [clock |-> listener.clock, serving |-> a, accepted |-> a, idle |-> none,
             mailbox |-> listener.mailbox]
    BY <1>2, ListenerShape
  <2>3. QED
    BY <2>1, <2>2 DEF none
<1>4. a \in Nat /\ listener.accepted \in Nat /\ listener.clock \in 0..4 /\ listener.mailbox \in Nat
      /\ Len(connections) \in Nat
  BY ListenerFields
<1>5. \A i \in 1..a : i # a /\ (listener.mailbox = 0 \/ i < listener.mailbox) =>
          connections[i].kind \in {"closed", "silent"}
  BY <1>1, <1>4 DEF Listened
<1>6. silent = Silent(listener.accepted)
  BY <1>1, <1>4 DEF Silent
<1>7. \A i \in a + 1..Len(connections) :
          listener.clock - connections[i].time
              <= Cardinality(silent) + (IF a # 0 /\ connections[a].kind = "silent" THEN 0 ELSE 0)
  <2> HIDE DEF silent
  <2>1. \A i \in a + 1..Len(connections) :
            listener.clock - connections[i].time <= Cardinality(Silent(listener.accepted)) + 0
    BY <1>1, <1>4, Waits
  <2>2. QED
    BY <1>6, <2>1
<1>8. a <= Len(connections) /\ listener.mailbox <= a /\ listener.mailbox # a
  BY <1>1, <1>2, <1>4
<1> DEFINE c == listener.clock
           m == listener.mailbox
           d == 0
<1>9. d \in 0..1 /\ a \in {0, a}
  OBVIOUS
<1>10. \A i \in a + 1..Len(connections) :
          c - connections[i].time
              <= Cardinality(silent) + (IF a # 0 /\ connections[a].kind = "silent" THEN d ELSE 0)
  BY <1>7
<1>11. /\ listener' = [clock |-> c, serving |-> a, accepted |-> a, idle |-> d, mailbox |-> m]
       /\ UNCHANGED connections
       /\ c \in 0..4 /\ m \in Nat /\ a \in Nat /\ a <= Len(connections) /\ m <= a /\ (m # 0 => m # a)
       /\ \A i \in 1..a : i # a /\ (m = 0 \/ i < m) => connections[i].kind \in {"closed", "silent"}
  BY <1>1, <1>3, <1>4, <1>5, <1>8
<1> HIDE DEF a, c, m, d
<1>12. QED
  BY <1>9, <1>10, <1>11, ListenedAfter

LEMMA ListenedServe == ASSUME Listened, Serve
                       PROVE  Listened'
<1> DEFINE s == listener.serving
           a == listener.accepted
           m == IF Serving = "closed" THEN listener.mailbox ELSE s
           silent == {j \in 1..a : connections[j].kind = "silent" /\ j # 0}
<1>1. /\ listener' = [listener EXCEPT !.serving = 0, !.mailbox = m]
      /\ s # 0 /\ Serving # "silent" /\ (Serving = "closed" \/ listener.mailbox = 0) /\ UNCHANGED connections
  BY DEF Serve
<1>2. /\ listener \in ListenerType /\ listener.mailbox <= a /\ s = a /\ a <= Len(connections)
      /\ listener.mailbox # 0 => listener.mailbox # s
  BY <1>1 DEF Listened
<1>3. listener' = [clock |-> listener.clock, serving |-> 0, accepted |-> a, idle |-> listener.idle,
                   mailbox |-> m]
  BY <1>1, <1>2, ListenerShape
<1>4. /\ a \in Nat /\ s \in Nat /\ m \in Nat /\ listener.clock \in 0..4 /\ listener.idle \in 0..1
      /\ Len(connections) \in Nat
  BY ListenerFields
<1>5. \A i \in 1..a : i # 0 /\ (m = 0 \/ i < m) => connections[i].kind \in {"closed", "silent"}
  <2>1. \A i \in 1..a : i # s /\ (listener.mailbox = 0 \/ i < listener.mailbox) =>
            connections[i].kind \in {"closed", "silent"}
    BY DEF Listened
  <2>2. CASE Serving = "closed"
    BY <1>1, <1>2, <1>4, <2>1, <2>2 DEF Serving
  <2>3. CASE Serving # "closed"
    BY <1>1, <1>2, <1>4, <2>1, <2>3
  <2>4. QED
    BY <2>2, <2>3
<1>6. silent = Silent(a)
  BY <1>1, <1>2, <1>4 DEF Silent, Serving
<1>7. \A i \in a + 1..Len(connections) :
          listener.clock - connections[i].time
              <= Cardinality(silent) + (IF 0 # 0 /\ connections[0].kind = "silent" THEN listener.idle ELSE 0)
  <2> HIDE DEF silent
  <2>1. \A i \in a + 1..Len(connections) :
            listener.clock - connections[i].time <= Cardinality(Silent(a)) + 0
    BY <1>1, Waits DEF Serving
  <2>2. QED
    BY <1>6, <2>1
<1>8. m <= a /\ (m # 0 => m # 0) /\ a <= Len(connections)
  BY <1>2, <1>4
<1> HIDE DEF m, a, s
<1>9. QED
  BY <1>1, <1>3, <1>4, <1>5, <1>7, <1>8, ListenedAfter

LEMMA ListenedHangUp == ASSUME Listened, HangUp
                        PROVE  Listened'
<1> DEFINE s == listener.serving
           a == listener.accepted
           m == listener.mailbox
           silent == {j \in 1..a : connections[j].kind = "silent" /\ j # 0}
<1>1. /\ listener' = [listener EXCEPT !.serving = 0]
      /\ s # 0 /\ Serving = "silent" /\ listener.idle = 1 /\ UNCHANGED connections
  BY DEF HangUp, HeaderTimeout
<1>2. /\ listener \in ListenerType /\ m <= a /\ s = a /\ a <= Len(connections)
      /\ m # 0 => m # s
  BY <1>1 DEF Listened
<1>3. listener' = [clock |-> listener.clock, serving |-> 0, accepted |-> a, idle |-> listener.idle,
                   mailbox |-> m]
  BY <1>1, <1>2, ListenerShape
<1>4. /\ a \in Nat /\ s \in Nat /\ m \in Nat /\ listener.clock \in 0..4 /\ listener.idle \in 0..1
      /\ Len(connections) \in Nat
      /\ \A i \in 1..Len(connections) : connections[i].time \in 0..4
  BY ListenerFields
<1>5. \A i \in 1..a : i # 0 /\ (m = 0 \/ i < m) => connections[i].kind \in {"closed", "silent"}
  BY <1>1, <1>2, <1>4 DEF Listened, Serving
<1>6. silent = Silent(a) \cup {s} /\ s \notin Silent(a)
  BY <1>1, <1>2, <1>4 DEF Silent, Serving
<1>7. Cardinality(silent) = Cardinality(Silent(a)) + 1
  <2> HIDE DEF silent
  <2>1. QED
    BY <1>4, <1>6, SilentIs, FS_AddElement
<1>8. \A i \in a + 1..Len(connections) :
          listener.clock - connections[i].time
              <= Cardinality(silent) + (IF 0 # 0 /\ connections[0].kind = "silent" THEN listener.idle ELSE 0)
  <2> HIDE DEF silent
  <2>1. \A i \in a + 1..Len(connections) :
            listener.clock - connections[i].time <= Cardinality(Silent(a)) + 1
    BY <1>1, Waits DEF Serving
  <2>2. Cardinality(Silent(a)) \in Nat
    BY Waits
  <2>3. QED
    BY <1>7, <2>1, <2>2
<1> HIDE DEF m, a, s
<1>9. QED
  BY <1>1, <1>2, <1>3, <1>4, <1>5, <1>8, ListenedAfter

LEMMA ListenedTick == ASSUME Listened, Tick
                      PROVE  Listened'
<1> DEFINE s == listener.serving
           a == listener.accepted
           m == listener.mailbox
           c == listener.clock + 1
           silent == {j \in 1..a : connections[j].kind = "silent" /\ j # s}
<1>1. listener.clock < 4 /\ m = 0 /\ UNCHANGED connections
  BY DEF Tick, OtpTimeout
<1>2. /\ listener \in ListenerType /\ s \in {0, a} /\ a <= Len(connections)
  BY DEF Listened
<1>4. /\ a \in Nat /\ s \in Nat /\ m \in Nat /\ c \in 0..4 /\ listener.clock \in 0..4 /\ listener.idle \in 0..1
      /\ Len(connections) \in Nat
      /\ \A i \in 1..Len(connections) : connections[i].time \in 0..4
  BY <1>1, ListenerFields
<1>5. \A i \in 1..a : i # s /\ (m = 0 \/ i < m) => connections[i].kind \in {"closed", "silent"}
  BY DEF Listened
<1>6. silent = Silent(a)
  BY DEF Silent
<1>7. CASE /\ s = 0 /\ a = Len(connections)
           /\ listener' = [listener EXCEPT !.clock = c]
  <2>1. listener' = [clock |-> c, serving |-> s, accepted |-> a, idle |-> listener.idle, mailbox |-> m]
    BY <1>2, <1>7, ListenerShape
  <2>2. \A i \in a + 1..Len(connections) :
            c - connections[i].time
                <= Cardinality(silent) + (IF s # 0 /\ connections[s].kind = "silent" THEN listener.idle ELSE 0)
    BY <1>4, <1>7
  <2> DEFINE d == listener.idle
  <2>3. d \in 0..1 /\ m <= a /\ (m # 0 => m # s)
    BY <1>1, <1>4
  <2> HIDE DEF c, m, a, s, d
  <2>4. QED
    BY <1>1, <1>2, <1>4, <1>5, <2>1, <2>2, <2>3, ListenedAfter
<1>8. CASE /\ s # 0 /\ Serving = "silent" /\ listener.idle < 1
           /\ listener' = [listener EXCEPT !.clock = c, !.idle = listener.idle + 1]
  <2> DEFINE d == listener.idle + 1
  <2>1. d \in 0..1
    BY <1>4, <1>8
  <2>2. listener' = [clock |-> c, serving |-> s, accepted |-> a, idle |-> d, mailbox |-> m]
    BY <1>2, <1>8, ListenerShape
  <2>3. \A i \in a + 1..Len(connections) :
            c - connections[i].time
                <= Cardinality(silent) + (IF s # 0 /\ connections[s].kind = "silent" THEN d ELSE 0)
    <3> HIDE DEF silent
    <3>1. \A i \in a + 1..Len(connections) :
              listener.clock - connections[i].time <= Cardinality(Silent(a)) + listener.idle
      BY <1>8, Waits DEF Serving
    <3>2. Cardinality(Silent(a)) \in Nat
      BY Waits
    <3>3. TAKE i \in a + 1..Len(connections)
    <3>4. i \in 1..Len(connections) /\ connections[i].time \in 0..4
      BY <1>4
    <3>5. c - connections[i].time <= Cardinality(Silent(a)) + d
      <4> DEFINE k == listener.clock
                 t == connections[i].time
                 n == Cardinality(Silent(a))
                 e == listener.idle
      <4>1. k \in 0..4 /\ t \in 0..4 /\ n \in Nat /\ e \in 0..1
        BY <1>4, <3>2, <3>4
      <4>2. k - t <= n + e
        BY <3>1
      <4> HIDE DEF k, t, n, e
      <4>3. (k + 1) - t <= n + (e + 1)
        BY <4>1, <4>2
      <4>4. QED
        BY <4>3 DEF k, t, n, e
    <3>6. connections[s].kind = "silent"
      BY <1>8 DEF Serving
    <3>7. QED
      BY <1>6, <1>8, <3>5, <3>6
  <2>4. m <= a /\ (m # 0 => m # s)
    BY <1>1, <1>4
  <2> HIDE DEF c, m, a, s, d
  <2>5. QED
    BY <1>1, <1>2, <1>4, <1>5, <2>1, <2>2, <2>3, <2>4, ListenedAfter
<1>9. QED
  BY <1>7, <1>8 DEF Tick, HeaderTimeout

LEMMA ListenedNext == ASSUME Shaped, Listened, Next
                      PROVE  Listened'
<1>1. CASE UNCHANGED browser
  BY <1>1 DEF browser, Listened, ListenerType, Silent, Serving
<1>2. CASE listener' = NoListener /\ connections' = <<>>
  BY <1>2, NobodyListensNext
<1>3. CASE Elsewhere
  <2>1. CASE Arm \/ Terminate \/ HandleEvent
    BY <1>1, <2>1 DEF Arm, Terminate, HandleEvent
  <2>2. CASE \E kind \in Kinds : Connect(kind)
    BY <2>2, ListenedConnect
  <2>3. QED
    BY <1>3, <2>1, <2>2, ListenedAccept, ListenedServe, ListenedHangUp, ListenedTick DEF Elsewhere
<1>4. CASE Early \/ Late
  BY <1>1, <1>4, Earlies, Lates
<1>5. CASE InLogin
  BY <1>1, <1>2, <1>5 DEF InLogin, Authenticate, AnswerPassword, AnswerTyped, ShowUrl, Reply, Bind, Receive,
                          ListenFails
<1>6. CASE Signal
  BY <1>1, <1>2, <1>6, Killed
<1>7. QED
  BY <1>3, <1>4, <1>5, <1>6, NextSteps

-----------------------------------------------------------------------------
(* The events *)

LEMMA ToldInit == Init => Told
BY DEF Init, Told

LEMMA ToldNext == ASSUME Shaped, Asked, Told, Next
                  PROVE  Told'
<1> DEFINE Events == {"Connected", "Disconnected"}
           Quiet == Before \cup Asking \cup {"create", "configure"}
<1>1. /\ events \in Seq(Events) /\ Len(events) \in Nat /\ Len(events) <= 2
      /\ at \in Quiet => events = <<>>
      /\ at = "up" => Len(events) <= 1
  BY DEF Told
<1>2. "up" \notin Quiet /\ "stopped" \notin Quiet /\ "ended" \notin Quiet /\ "failed" \notin Quiet
      /\ "killed" \notin Quiet
  BY DEF Before, Asking
<1>3. CASE UNCHANGED events /\ (at' \in Quiet => at \in Quiet) /\ (at' = "up" => at = "up")
  BY <1>1, <1>3 DEF Told
<1>4. CASE Elsewhere
  <2>1. UNCHANGED at
    BY <1>4, Elsewheres
  <2>2. CASE HandleEvent
    <3>1. events # <<>> /\ events' = Tail(events)
      BY <2>2 DEF HandleEvent
    <3>2. events' \in Seq(Events) /\ Len(events') = Len(events) - 1
      BY <1>1, <3>1
    <3>3. at' \notin Quiet
      BY <1>1, <2>1, <3>1
    <3>4. QED
      BY <1>1, <2>1, <3>2, <3>3 DEF Told
  <2>3. CASE ~HandleEvent
    BY <1>3, <1>4, <2>1, <2>3 DEF Elsewhere, Connect, Accept, Serve, HangUp, Tick, Arm, Terminate, tasks
  <2>4. QED
    BY <2>2, <2>3
<1>5. CASE Early
  <2>1. UNCHANGED events /\ at \in Before /\ at' \in Before \cup {"failed", "ended", "create"}
    BY <1>5, Earlies DEF tasks
  <2>2. QED
    BY <1>2, <1>3, <2>1 DEF Before
<1>6. CASE Signal
  <2>1. UNCHANGED events /\ at' \in {at, "killed"}
    BY <1>6, Killed
  <2>2. QED
    BY <1>2, <1>3, <2>1
<1>7. CASE InLogin
  <2>1. UNCHANGED events
    BY <1>7, Logins DEF tasks
  <2>2. at \in {"session", "question", "bind", "listen", "reply"}
    BY <1>7 DEF InLogin, Authenticate, AnswerPassword, AnswerTyped, Asked, Asking, ShowUrl, Reply, Bind, Receive,
                ListenFails, Goes, Typed
  <2>3. at' \in {"failed", "question", "create", "reply", "bind", "listen"}
    BY <1>7 DEF InLogin, Authenticate, AsksFor, AnswerPassword, AnswerTyped, Typed, ShowUrl, Reply, Bind,
                Receive, ListenFails, Goes
  <2>4. at \in Quiet /\ at' # "up"
    BY <2>2, <2>3 DEF Before, Asking
  <2>5. QED
    BY <1>3, <2>1, <2>4
<1>8. CASE Create \/ Return
  <2>1. UNCHANGED events
    BY <1>8 DEF Create, Return, tasks
  <2>2. /\ at' \in {"configure", "failed", "ended"}
        /\ at' = "configure" => at = "create"
    BY <1>8 DEF Create, Return, MayFail, Goes
  <2>3. QED
    BY <1>2, <1>3, <2>1, <2>2
<1>9. CASE Configure
  <2>1. events = <<>>
    BY <1>1, <1>9 DEF Configure, Goes
  <2>2. CASE at' = "up" /\ events' = Append(events, "Connected")
    <3>1. events' \in Seq(Events) /\ Len(events') = 1
      BY <2>1, <2>2
    <3>2. QED
      BY <1>2, <2>2, <3>1 DEF Told
  <2>3. CASE at' = "failed" /\ UNCHANGED events
    BY <1>2, <1>3, <2>3
  <2>4. QED
    BY <1>9, <2>2, <2>3 DEF Configure, Goes
<1>10. CASE Stop
  <2>1. at = "up" /\ at' = "stopped" /\ events' = Append(events, "Disconnected")
    BY <1>10 DEF Stop, Goes
  <2>2. events' \in Seq(Events) /\ Len(events') = Len(events) + 1
    BY <1>1, <2>1
  <2>3. QED
    BY <1>1, <1>2, <2>1, <2>2 DEF Told
<1>11. QED
  BY <1>4, <1>5, <1>6, <1>7, <1>8, <1>9, <1>10, NextSteps DEF Late

-----------------------------------------------------------------------------
(* The theorems *)

LEMMA KeptInit == Init => Kept
BY ShapedInit, AskedInit, FitsInit, ProbedInit, ListenedInit, ToldInit DEF Kept

LEMMA KeptNext == Kept /\ [Next]_vars => Kept'
<1>1. ASSUME Kept, Next
      PROVE  Kept'
  BY <1>1, ShapedNext, AskedNext, FitsNext, ProbedNext, ListenedNext, ToldNext DEF Kept
<1>2. ASSUME Kept, UNCHANGED vars
      PROVE  Kept'
  BY <1>2 DEF Kept, Shaped, ProbeRecord, Asked, Answered, Fits, Texts, Probed, Reached, Answers, Listened,
              ListenerType, Silent, Serving, Told, vars, given, probing, login, browser, tasks
<1>3. QED
  BY <1>1, <1>2

LEMMA KeptAlways == Spec => []Kept
BY KeptInit, KeptNext, PTL DEF Spec

\* Every variable has its type; a challenge is pending exactly while it is asked about, answered or with the gateway;
\* and a tunnel is only made after the whole login or, with a saved session, after none (main.rs:270-328).
THEOREM StandaloneTypes == Spec => []TypeOK
<1>1. ASSUME Kept
      PROVE  TypeOK
  <2>1. Shaped /\ Asked /\ Listened /\ Told
    BY <1>1 DEF Kept
  <2>2. probe.try \in 1..Len(Timeouts) + 1
    BY <2>1, TimeoutsAre DEF Shaped
  <2>3. /\ listener.clock \in 0..OtpTimeout /\ listener.idle \in 0..HeaderTimeout
        /\ listener.accepted \in 0..Len(connections) /\ listener.serving \in {0, listener.accepted}
        /\ listener.mailbox \in 0..listener.accepted /\ Len(connections) <= MaxConnections
    BY <2>1, ListenerFields DEF Listened, OtpTimeout, HeaderTimeout
  <2>4. /\ challenge # "none" <=> at \in {"question", "bind", "listen", "reply"}
        /\ at \in {"create", "configure", "up", "stopped"} => passed \in {0, Len(factors)}
    BY <2>1 DEF Asked, Asking, Since
  <2>5. QED
    BY <2>1, <2>2, <2>3, <2>4 DEF TypeOK, Shaped, Asked, Told
<1>2. QED
  BY <1>1, KeptAlways, PTL

\* What the user has configured is what the gateway gets, for any list of factors: the password answers the challenge
\* it is for, the code the other ones, the browser's token the provider's; and a gateway that answers probes in time
\* is reached over UDP (main.rs:283-328, natt.rs:60-103).
THEOREM OptionsAreObeyed == Spec => []OptionsObeyed
<1>1. ASSUME Kept
      PROVE  OptionsObeyed
  <2>1. Shaped /\ Asked /\ Fits /\ Probed
    BY <1>1 DEF Kept
  <2>2. TransportFits
    <3>1. params.transport = "auto" /\ transport \in {"udp", "kernel"} => Reached
      BY <2>1 DEF Probed
    <3>2. params.transport = "auto" /\ transport = "tcpt" => ~Reached \/ probe.broken
      BY <2>1 DEF Probed
    <3>3. transport \in {"none", "udp", "kernel", "tcpt"}
      BY <2>1 DEF Shaped
    <3>4. QED
      BY <3>1, <3>2, <3>3 DEF TransportFits, Reached
  <2>3. AnswersFitFactors
    <3>1. SUFFICES ASSUME at = "reply", again = 0, challenge \in Factors
                   PROVE  /\ answer = "password" => challenge = "PasswordInput" /\ Nth = params.password_factor
                          /\ answer = "mfa_code" => challenge = "PasswordInput" /\ Nth # params.password_factor
                          /\ answer = "token" <=> challenge = "IdentityProvider"
                          /\ challenge = "PasswordInput" /\ Nth = params.password_factor /\ params.password =>
                                 answer = "password"
      BY DEF AnswersFitFactors
    <3>2. CASE challenge = "IdentityProvider"
      BY <2>1, <3>1, <3>2 DEF Fits
    <3>3. CASE challenge = "PasswordInput"
      <4>1. Answered /\ at \notin Ended /\ factors[passed + 1] = "PasswordInput" /\ passed \in Nat
        BY <2>1, <3>1, <3>3 DEF Answered, Ended, Asked, Shaped
      <4>2. Nth = Cardinality(Texts(passed + 1))
        BY DEF Nth, Texts
      <4>3. mfa_index = Cardinality(Texts(passed)) + 1
        BY <2>1, <3>1, <4>1 DEF Fits
      <4>4. Nth = mfa_index
        BY <4>1, <4>2, <4>3, TextsIs
      <4>5. QED
        BY <2>1, <3>3, <4>1, <4>4 DEF Fits
    <3>4. QED
      BY <3>1, <3>2, <3>3 DEF Factors
  <2>4. QED
    BY <2>2, <2>3 DEF OptionsObeyed
<1>2. QED
  BY <1>1, KeptAlways, PTL

\* The first request decides about the login, for any number of connections and whatever they bring; and none waits
\* longer than the silent connections before it may last (otp.rs:69-101).
THEOREM FirstRequestIsDecisive == Spec => []FirstRequestDecides
<1>1. ASSUME Kept
      PROVE  FirstRequestDecides
  <2>1. Listened
    BY <1>1 DEF Kept
  <2>2. /\ listener.clock \in 0..4 /\ listener.idle \in 0..1
        /\ listener.accepted \in Nat /\ listener.serving \in Nat /\ listener.mailbox \in Nat
        /\ Len(connections) \in Nat /\ listener.accepted <= Len(connections)
        /\ listener.serving \in {0, listener.accepted} /\ listener.mailbox <= listener.accepted
        /\ \A i \in 1..Len(connections) : connections[i].time \in 0..4
    BY <2>1, ListenerFields DEF Listened
  <2>3. \A i \in 1..listener.mailbox - 1 : connections[i].kind \in {"closed", "silent"}
    <3>1. \A i \in 1..listener.accepted :
              i # listener.serving /\ (listener.mailbox = 0 \/ i < listener.mailbox) =>
                  connections[i].kind \in {"closed", "silent"}
      BY <2>1 DEF Listened
    <3>2. \A i \in 1..listener.mailbox - 1 :
              i \in 1..listener.accepted /\ i # listener.serving /\ i < listener.mailbox
      BY <2>2
    <3>3. QED
      BY <3>1, <3>2
  <2>4. ASSUME NEW i \in listener.accepted + 1..Len(connections)
        PROVE  listener.clock - connections[i].time
                   <= HeaderTimeout * Cardinality({j \in 1..i - 1 : connections[j].kind = "silent"})
    <3> DEFINE before == {j \in 1..i - 1 : connections[j].kind = "silent"}
               silent == Silent(listener.accepted)
    <3>1. i \in Nat /\ connections[i].time \in 0..4 /\ listener.accepted <= i - 1
      BY <2>2
    <3>2. IsFiniteSet(before)
      <4>1. IsFiniteSet(1..i - 1) /\ before \subseteq 1..i - 1
        BY <3>1, FS_Interval
      <4>2. QED
        BY <4>1, FS_Subset
    <3>3. IsFiniteSet(silent) /\ Cardinality(silent) \in Nat
      BY <2>2, SilentIs
    <3>4. silent \subseteq before
      BY <2>2, <3>1 DEF Silent
    <3>5. CASE listener.serving # 0 /\ Serving = "silent"
      <4>1. silent \cup {listener.serving} \subseteq before /\ listener.serving \notin silent
        BY <2>2, <3>1, <3>4, <3>5 DEF Serving, Silent
      <4>2. listener.clock - connections[i].time <= Cardinality(silent) + listener.idle
        BY <2>1, <3>5, Waits DEF Serving
      <4> HIDE DEF before, silent
      <4>3. Cardinality(silent) + 1 <= Cardinality(before) /\ Cardinality(before) \in Nat
        BY <3>2, <3>3, <4>1, FS_AddElement, FS_Subset, FS_CardinalityType
      <4>4. listener.clock - connections[i].time <= Cardinality(before)
        <5> DEFINE c == listener.clock
                   t == connections[i].time
                   d == listener.idle
                   n == Cardinality(silent)
                   m == Cardinality(before)
        <5>1. c \in 0..4 /\ t \in 0..4 /\ d \in 0..1 /\ n \in Nat /\ m \in Nat /\ n + 1 <= m
          BY <2>2, <3>1, <3>3, <4>3
        <5>2. c - t <= n + d
          BY <4>2
        <5> HIDE DEF c, t, d, n, m
        <5>3. c - t <= m
          BY <5>1, <5>2
        <5>4. QED
          BY <5>3 DEF c, t, m
      <4>5. HeaderTimeout * Cardinality(before) = Cardinality(before)
        BY <4>3 DEF HeaderTimeout
      <4>6. QED
        BY <4>4, <4>5 DEF before
    <3>6. CASE ~(listener.serving # 0 /\ Serving = "silent")
      <4>1. listener.clock - connections[i].time <= Cardinality(silent) + 0
        BY <2>1, <3>6, Waits DEF Serving
      <4> HIDE DEF before, silent
      <4>2. Cardinality(silent) <= Cardinality(before) /\ Cardinality(before) \in Nat
        BY <3>2, <3>4, FS_Subset, FS_CardinalityType
      <4>3. listener.clock - connections[i].time <= Cardinality(before)
        <5> DEFINE c == listener.clock
                   t == connections[i].time
                   n == Cardinality(silent)
                   m == Cardinality(before)
        <5>1. c \in 0..4 /\ t \in 0..4 /\ n \in Nat /\ m \in Nat /\ n <= m
          BY <2>2, <3>1, <3>3, <4>2
        <5>2. c - t <= n + 0
          BY <4>1
        <5> HIDE DEF c, t, n, m
        <5>3. c - t <= m
          BY <5>1, <5>2
        <5>4. QED
          BY <5>3 DEF c, t, m
      <4>4. HeaderTimeout * Cardinality(before) = Cardinality(before)
        BY <4>2 DEF HeaderTimeout
      <4>5. QED
        BY <4>3, <4>4 DEF before
    <3>7. QED
      BY <3>5, <3>6
  <2>5. QED
    BY <2>3, <2>4 DEF FirstRequestDecides
<1>2. QED
  BY <1>1, KeptAlways, PTL
=============================================================================
