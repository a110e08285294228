------------------------- MODULE ServiceController -------------------------
(***************************************************************************)
(* The controller with which a front end (snxctl, the connect task of the  *)
(* GUI) drives the service: connect polls the status, answers challenges   *)
(* from the configuration, the keychain or the user, and recurs into the   *)
(* status for every challenge; each request but GetStatus has a stream of  *)
(* its own, and every wait has a time-out.                                 *)
(*                                                                         *)
(* The service is what CommandServer gives to a single client: a status, a *)
(* challenge, handlers that work until the gateway has answered, and the   *)
(* events of tunnels, which are applied whatever the status has become.    *)
(* The texts that travel are abstracted to what they are: the answer to    *)
(* the n-th password challenge of a login, the configured MFA code,        *)
(* another text (a user name, a code of the browser), or nothing.          *)
(***************************************************************************)
EXTENDS Naturals, Sequences

CONSTANTS
    NoText,        \* the empty string, and an empty keychain
    OtherText,     \* a user name or what the browser returns
    MfaCode,       \* params.mfa_code
    Options,       \* the configurations and gateways to be considered, see OptionType
    Commands,      \* the commands the user may give
    MaxCommands,   \* bound: how many of them
    MaxChallenges, \* bound: challenges of one login
    FailedAttempts, \* TRUE if the gateway poses a challenge again after a wrong answer
    Interrupts     \* where the user may interrupt a command (Ctrl-C, cancel)

Secrets == 1..MaxChallenges \* n: the answer to the n-th password challenge
Texts == Secrets \cup {NoText, OtherText, MfaCode}

\* Where the controller waits: for a reply, for the user, for its sleep to end.
Waits == {"pin", "connect", "status", "input", "challenge", "giveup", "disconnect", "pause"}

\* user_name, password, mfa_code and keychain: whether the parameter is set;
\* password_factor: the parameter; factors: how often the gateway asks for a password.
OptionType == [user_name : BOOLEAN, password : BOOLEAN, mfa_code : BOOLEAN,
               keychain : BOOLEAN, password_factor : Secrets, factors : 0..MaxChallenges]

ASSUME ControllerAssumption ==
    /\ MaxCommands \in Nat /\ MaxChallenges \in Nat \ {0}
    /\ Options \subseteq OptionType
    /\ Commands \subseteq {"Status", "Connect", "Disconnect", "Reconnect"}
    /\ Interrupts \subseteq Waits
    /\ FailedAttempts \in BOOLEAN
    /\ NoText \notin Secrets /\ OtherText \notin Secrets /\ MfaCode \notin Secrets
    /\ NoText # OtherText /\ OtherText # MfaCode /\ NoText # MfaCode

VARIABLES
    params,      \* the TunnelParams of the commands, constant
    keychain,    \* the password the keychain holds for the profile
    command,     \* the command under way, "none" when there is none
    pc,          \* where the controller is
    with_mfa,    \* the parameter of the do_status under way
    frames,      \* the calls of process_mfa_request that wait for do_challenge_code
    result,      \* what the command returns
    mfa_index,   \* ServiceController.mfa_index
    password_from_keychain,
    mfa,         \* the challenge of the status just read
    stream,      \* the stream of GetStatus: the replies not yet read, or Closed
    late,        \* CONNECT_TIMEOUT has elapsed since the reply to Connect
    request,     \* the request the controller waits for
    orphans,     \* requests nobody waits for any more, still with the service
    status,      \* the status of the service
    challenge,   \* the last challenge, until the state is reset
    pending,     \* the session that waits for its answer and its connector are stored
    posed,       \* how many challenges the login has posed, and how many of them
    passwords,   \* asked for another password
    coming,      \* how many tunnels have been spawned and not announced themselves yet
    spawned,     \* a tunnel was spawned, whose events may reset the state at any time
    since,       \* history: the statuses since the command was given, or since the
                 \* service reset the state for the Disconnect that it sent
    retried,     \* history: a password challenge of the login was posed again
    lost,        \* history: a request or reply was lost, or a command interrupted
    commands     \* how many commands may still be given

local == <<frames, mfa_index, password_from_keychain, mfa>>
login == <<posed, passwords, retried>>
tunnels == <<coming, spawned>>
service == <<status, challenge, pending, login, tunnels>>
vars == <<params, keychain, command, pc, with_mfa, local, result, stream, late, request,
          orphans, service, since, lost, commands>>

-----------------------------------------------------------------------------
(* Values *)

Statuses == {"Disconnected", "Connecting", "Mfa", "Connected"}
MfaTypes == {"PasswordInput", "UserNameInput", "Browser"}

\* nth: which password challenge of the login it is, 0 if it does not ask for a password.
Challenge == [type : MfaTypes, nth : 0..MaxChallenges]
NoChallenge == [type |-> "Browser", nth |-> 0]

\* A reply on the stream of GetStatus; Due stands for one that is still to come.
Report(kind, c) == [kind |-> kind, challenge |-> c]
Due == Report("due", NoChallenge)
Closed == [open |-> FALSE, replies |-> <<>>]

\* A login that is "cancelled" has lost its place in the state to a reset.
Stages == {"none", "sent", "working", "cancelled", "Ok", "Error"}
Request == [op : {"none", "Connect", "ChallengeCode", "Disconnect"}, code : Texts,
            nth : 0..MaxChallenges, stage : Stages]
NoRequest == [op |-> "none", code |-> NoText, nth |-> 0, stage |-> "none"]

TypeOK ==
    /\ params \in Options
    /\ keychain \in Texts
    /\ command \in {"none", "Status", "Connect", "Disconnect", "Reconnect"}
    /\ pc \in Waits \cup {"idle", "poll", "return"}
    /\ with_mfa \in BOOLEAN
    /\ frames \in Seq([type : MfaTypes, input : Texts])
    /\ result \in Statuses \cup {"none", "Error"}
    /\ mfa_index \in 0..MaxChallenges
    /\ password_from_keychain \in Texts
    /\ mfa \in Challenge
    /\ stream.open \in BOOLEAN
    /\ stream.replies \in Seq([kind : Statuses \cup {"due"}, challenge : Challenge])
    /\ late \in BOOLEAN
    /\ request \in Request
    /\ orphans \subseteq Request
    /\ status \in Statuses
    /\ challenge \in Challenge
    /\ pending \in BOOLEAN
    /\ posed \in 0..MaxChallenges
    /\ passwords \in 0..MaxChallenges
    /\ coming \in Nat /\ spawned \in BOOLEAN
    /\ since \subseteq Statuses
    /\ retried \in BOOLEAN
    /\ lost \in BOOLEAN
    /\ commands \in 0..MaxCommands

Init ==
    /\ params \in Options
    /\ keychain \in IF params.keychain THEN {NoText, params.password_factor} ELSE {NoText}
    /\ command = "none" /\ pc = "idle" /\ with_mfa = FALSE
    /\ frames = <<>> /\ result = "none"
    /\ mfa_index = 0 /\ password_from_keychain = NoText /\ mfa = NoChallenge
    /\ stream = Closed /\ late = FALSE
    /\ request = NoRequest /\ orphans = {}
    /\ status = "Disconnected" /\ challenge = NoChallenge /\ pending = FALSE
    /\ posed = 0 /\ passwords = 0 /\ coming = 0 /\ spawned = FALSE /\ since = {"Disconnected"}
    /\ retried = FALSE /\ lost = FALSE /\ commands = MaxCommands

-----------------------------------------------------------------------------
(* Sending and waiting *)

\* send_receive up to the wait, on a stream of its own. The service may be out of reach, or
\* the request cannot be sent, in which case the stream of GetStatus is dropped as well.
Send(op, code, nth, next, res) ==
    \/ /\ request' = [op |-> op, code |-> code, nth |-> nth, stage |-> "sent"]
       /\ pc' = next
       /\ result' = res
       /\ UNCHANGED <<stream, lost>>
    \/ /\ request' = NoRequest
       /\ pc' = "return"
       /\ result' = "Error"
       /\ stream' \in {stream, Closed}
       /\ lost' = TRUE

\* The controller reads the reply to its request.
Reply(at, kind) ==
    /\ pc = at
    /\ request.stage = kind

\* Nobody waits for this request any more: its stream is dropped, its handler goes on.
Abandon ==
    /\ request' = NoRequest
    /\ orphans' = IF request.stage \in {"sent", "working", "cancelled"}
                  THEN orphans \cup {request} ELSE orphans

Return(res) ==
    /\ pc' = "return"
    /\ result' = res

-----------------------------------------------------------------------------
(* Commands *)

Give(cmd) ==
    /\ pc = "idle"
    /\ commands > 0
    /\ cmd \in Commands
    /\ commands' = commands - 1
    /\ command' = cmd
    /\ since' = {status}

\* do_status without challenges.
Status ==
    /\ Give("Status")
    /\ pc' = "poll"
    /\ with_mfa' = FALSE
    /\ result' = "none"
    /\ UNCHANGED <<params, keychain, local, stream, late, request, orphans, service, lost>>

\* Mutant of SendConnect: the index goes on from the last login.
SendConnectWithIndex ==
    /\ \E loaded \in {keychain, password_from_keychain} :
           password_from_keychain' =
               IF params.user_name /\ params.keychain /\ ~params.password
               THEN loaded ELSE password_from_keychain
    /\ Send("Connect", NoText, 0, "connect", "none")
    /\ UNCHANGED <<params, keychain, with_mfa, frames, mfa_index, mfa, late, orphans, service>>

\* do_connect up to the wait for the reply. The keychain may refuse.
SendConnect ==
    /\ mfa_index' = 0
    /\ \E loaded \in {keychain, password_from_keychain} :
           password_from_keychain' =
               IF params.user_name /\ params.keychain /\ ~params.password
               THEN loaded ELSE password_from_keychain
    /\ Send("Connect", NoText, 0, "connect", "none")
    /\ UNCHANGED <<params, keychain, with_mfa, frames, mfa, late, orphans, service>>

\* do_connect asks for nothing, or for the PIN of a PKCS11 token, or fails at once: without
\* a server name or a login type.
BeginConnect ==
    \/ SendConnect
    \/ /\ \/ pc' = "pin" /\ result' = "none"
          \/ Return("Error")
       /\ UNCHANGED <<params, keychain, with_mfa, local, stream, late, request, orphans, service,
                      lost>>

Connect == Give("Connect") /\ BeginConnect

\* The PIN is given ...
PinGiven ==
    /\ pc = "pin"
    /\ SendConnect
    /\ UNCHANGED <<command, since, commands>>

\* ... or it is empty, or the prompt fails.
NoPin ==
    /\ pc = "pin"
    /\ Return("Error")
    /\ UNCHANGED <<params, keychain, command, with_mfa, local, stream, late, request, orphans,
                   service, since, lost, commands>>

\* do_disconnect; do_reconnect begins with one whose result it ignores.
Disconnect ==
    /\ Give("Disconnect") \/ Give("Reconnect")
    /\ Send("Disconnect", NoText, 0, "disconnect", "none")
    /\ UNCHANGED <<params, keychain, with_mfa, local, late, orphans, service>>

\* do_reconnect after its sleep.
ConnectAgain ==
    /\ pc = "pause"
    /\ command' = "Connect"
    /\ BeginConnect
    /\ UNCHANGED <<since, commands>>

ConnectAnswered ==
    /\ \/ /\ Reply("connect", "Ok")
          /\ pc' = "poll"
          /\ with_mfa' = TRUE
          /\ late' = FALSE
          /\ UNCHANGED result
       \/ /\ Reply("connect", "Error")
          /\ Return("Error")
          /\ UNCHANGED <<with_mfa, late>>
    /\ request' = NoRequest
    /\ UNCHANGED <<params, keychain, command, local, stream, orphans, service, lost, since, commands>>

\* Whatever the service answered, do_disconnect asks for the status.
DisconnectAnswered ==
    /\ Reply("disconnect", "Ok") \/ Reply("disconnect", "Error")
    /\ pc' = "poll"
    /\ with_mfa' = FALSE
    /\ request' = NoRequest
    /\ UNCHANGED <<params, keychain, command, local, result, stream, late, orphans, service,
                   lost, since, commands>>

\* A reply did not come in time. The service starts the handler of a request at once, so
\* what takes too long is the handler's work.
ReplyLost ==
    /\ pc \in {"connect", "challenge", "disconnect", "giveup"}
    /\ request.stage \in {"working", "cancelled"}
    /\ Abandon
    /\ Return("Error")
    /\ stream' = Closed
    /\ lost' = TRUE
    /\ UNCHANGED <<params, keychain, command, with_mfa, local, late, service, since, commands>>

(* do_status *)

GetStatus ==
    /\ pc = "poll"
    /\ \/ /\ stream' = [open |-> TRUE, replies |-> Append(stream.replies, Due)]
          /\ pc' = "status"
          /\ UNCHANGED <<result, lost>>
       \/ /\ stream' = Closed
          /\ Return("Error")
          /\ lost' = TRUE
    /\ UNCHANGED <<params, keychain, command, with_mfa, local, late, request, orphans, service,
                   since, commands>>

\* The status is what the command returns, or the challenge is processed.
StatusRead ==
    /\ pc = "status"
    /\ Head(stream.replies) # Due
    /\ stream' = [stream EXCEPT !.replies = Tail(@)]
    /\ LET report == Head(stream.replies)
       IN  IF with_mfa /\ report.kind = "Mfa"
           THEN /\ mfa' = report.challenge
                /\ pc' = "input"
                /\ UNCHANGED result
           ELSE /\ Return(report.kind)
                /\ UNCHANGED mfa
    /\ UNCHANGED <<params, keychain, command, with_mfa, frames, mfa_index,
                   password_from_keychain, late, request, orphans, service, lost, since, commands>>

\* Mutant of StatusLost: the stream is kept.
StatusLostStreamKept ==
    /\ pc = "status"
    /\ Head(stream.replies) = Due
    /\ Return("Error")
    /\ lost' = TRUE
    /\ UNCHANGED <<params, keychain, command, with_mfa, local, stream, late, request, orphans,
                   service, since, commands>>

\* No reply in time: the stream is dropped, and with it the reply that may still come.
StatusLost ==
    /\ pc = "status"
    /\ Head(stream.replies) = Due
    /\ stream' = Closed
    /\ Return("Error")
    /\ lost' = TRUE
    /\ UNCHANGED <<params, keychain, command, with_mfa, local, late, request, orphans, service,
                   since, commands>>

(* process_mfa_request and get_mfa_input *)

\* What answers the n-th password challenge without the user, if anything does.
Supplied(n) ==
    IF n = params.password_factor
    THEN IF params.password THEN {params.password_factor}
         ELSE {password_from_keychain} \ {NoText}
    ELSE IF params.mfa_code THEN {MfaCode} ELSE {}

\* do_challenge_code is called with the input; the call is completed by Unwind.
Answer(text) ==
    /\ frames' = Append(frames, [type |-> mfa.type, input |-> text])
    /\ Send("ChallengeCode", text, mfa.nth, "challenge", result)

\* Mutant of PasswordInput: the index is looked up before it is advanced.
PasswordInputEarly ==
    /\ pc = "input"
    /\ mfa.type = "PasswordInput"
    /\ mfa_index' = mfa_index + 1
    /\ LET supplied == Supplied(mfa_index)
       IN  \E text \in IF supplied # {} THEN supplied ELSE {mfa.nth, NoText} : Answer(text)
    /\ UNCHANGED <<params, keychain, command, with_mfa, password_from_keychain, mfa, late,
                   orphans, service, since, commands>>

PasswordInput ==
    /\ pc = "input"
    /\ mfa.type = "PasswordInput"
    /\ mfa_index' = mfa_index + 1
    /\ LET supplied == Supplied(mfa_index + 1)
       IN  \E text \in IF supplied # {} THEN supplied ELSE {mfa.nth, NoText} : Answer(text)
    /\ UNCHANGED <<params, keychain, command, with_mfa, password_from_keychain, mfa, late,
                   orphans, service, since, commands>>

\* The user gives a name, empty perhaps, and the keychain is asked for the password.
UserNameInput ==
    /\ pc = "input"
    /\ mfa.type = "UserNameInput"
    /\ \E text \in {OtherText, NoText}, loaded \in {keychain, password_from_keychain} :
           /\ password_from_keychain' =
                  IF text # NoText /\ params.keychain /\ ~params.password
                  THEN loaded ELSE password_from_keychain
           /\ Answer(text)
    /\ UNCHANGED <<params, keychain, command, with_mfa, mfa_index, mfa, late, orphans, service,
                   since, commands>>

\* IdentityProvider and MobileAccess: the browser returns a code.
BrowserInput ==
    /\ pc = "input"
    /\ mfa.type = "Browser"
    /\ Answer(OtherText)
    /\ UNCHANGED <<params, keychain, command, with_mfa, mfa_index, password_from_keychain, mfa,
                   late, orphans, service, since, commands>>

\* The user declines, or the browser or its listener fails: the service is told to disconnect.
NoInput ==
    /\ pc = "input"
    /\ mfa.type = "PasswordInput" => Supplied(mfa_index + 1) = {}
    /\ mfa_index' = IF mfa.type = "PasswordInput" THEN mfa_index + 1 ELSE mfa_index
    /\ Send("Disconnect", NoText, 0, "giveup", "Error")
    /\ UNCHANGED <<params, keychain, command, with_mfa, frames, password_from_keychain, mfa,
                   late, orphans, service, since, commands>>

\* do_challenge_code: the status once more, or a Disconnect.
ChallengeAnswered ==
    /\ \/ /\ Reply("challenge", "Ok")
          /\ pc' = "poll"
          /\ with_mfa' = TRUE
          /\ request' = NoRequest
          /\ UNCHANGED <<result, stream, lost>>
       \/ /\ Reply("challenge", "Error")
          /\ Send("Disconnect", NoText, 0, "giveup", "Error")
          /\ UNCHANGED with_mfa
    /\ UNCHANGED <<params, keychain, command, local, late, orphans, service, since, commands>>

GaveUp ==
    /\ Reply("giveup", "Ok") \/ Reply("giveup", "Error")
    /\ request' = NoRequest
    /\ pc' = "return"
    /\ UNCHANGED <<params, keychain, command, with_mfa, local, result, stream, late, orphans,
                   service, lost, since, commands>>

(* The way back *)

Last == frames[Len(frames)]

\* do_challenge_code has returned to process_mfa_request: the input is stored if mfa_index
\* is now the password factor. The keychain may refuse.
Unwind ==
    /\ pc = "return"
    /\ frames # <<>>
    /\ frames' = SubSeq(frames, 1, Len(frames) - 1)
    /\ IF /\ result # "Error"
          /\ Last.type = "PasswordInput"
          /\ mfa_index = params.password_factor
          /\ params.keychain
          /\ Last.input # NoText
       THEN keychain' \in {Last.input, keychain}
       ELSE UNCHANGED keychain
    /\ UNCHANGED <<params, command, pc, with_mfa, result, mfa_index, password_from_keychain,
                   mfa, stream, late, request, orphans, service, lost, since, commands>>

Connecting == command = "Connect" /\ result = "Connecting"

\* do_connect polls while the status is Connecting ...
PollAgain ==
    /\ pc = "return" /\ frames = <<>>
    /\ Connecting /\ ~late
    /\ pc' = "poll"
    /\ UNCHANGED <<params, keychain, command, with_mfa, local, result, stream, late, request,
                   orphans, service, lost, since, commands>>

\* Mutant of ConnectTimedOut: polled for ever.
ConnectNeverTimesOut ==
    /\ pc = "return" /\ frames = <<>>
    /\ Connecting /\ late
    /\ pc' = "poll"
    /\ UNCHANGED <<params, keychain, command, with_mfa, local, result, stream, late, request,
                   orphans, service, lost, since, commands>>

\* ... until the time-out.
ConnectTimedOut ==
    /\ pc = "return" /\ frames = <<>>
    /\ Connecting /\ late
    /\ pc' = "idle"
    /\ result' = "Error"
    /\ command' = "none"
    /\ lost' = TRUE
    /\ UNCHANGED <<params, keychain, with_mfa, local, stream, late, request, orphans, service,
                   since, commands>>

Finish ==
    /\ pc = "return" /\ frames = <<>>
    /\ ~Connecting
    /\ IF command = "Reconnect"
       THEN pc' = "pause" /\ UNCHANGED command
       ELSE pc' = "idle" /\ command' = "none"
    /\ UNCHANGED <<params, keychain, with_mfa, local, result, stream, late, request, orphans,
                   service, lost, since, commands>>

\* The future of the command is dropped where it waits. What the controller has stored
\* stays, the stream of GetStatus with its replies included.
Interrupt ==
    /\ pc \in Interrupts
    /\ pc' = "idle"
    /\ command' = "none"
    /\ frames' = <<>>
    /\ result' = "none"
    /\ lost' = TRUE
    /\ Abandon
    /\ UNCHANGED <<params, keychain, with_mfa, mfa_index, password_from_keychain, mfa, stream,
                   late, service, since, commands>>

TimePasses ==
    /\ command = "Connect" /\ pc \notin {"idle", "connect"}
    /\ ~late
    /\ late' = TRUE
    /\ UNCHANGED <<params, keychain, command, pc, with_mfa, local, result, stream, request,
                   orphans, service, lost, since, commands>>

-----------------------------------------------------------------------------
(* The service *)

controllerVars == <<params, keychain, command, pc, with_mfa, local, result, stream, late, lost,
                    commands>>

LoginRequest(r) == r.stage = "working" /\ r.op \in {"Connect", "ChallengeCode"}

Become(kind) ==
    /\ status' = kind
    /\ since' = since \cup {kind}

\* The handler of r moves on; r is the request waited for or an abandoned one.
Handle(r, stage) ==
    \/ /\ r = request
       /\ request' = [r EXCEPT !.stage = stage]
       /\ UNCHANGED orphans
    \/ /\ r \in orphans
       /\ orphans' = IF stage = "working"
                     THEN (orphans \ {r}) \cup {[r EXCEPT !.stage = stage]}
                     ELSE orphans \ {r}
       /\ UNCHANGED request

\* ConnectionState::reset drops the cancel sender of a login that is under way.
Cancel(r) == IF LoginRequest(r) THEN [r EXCEPT !.stage = "cancelled"] ELSE r
CancelAll(reqs) == {Cancel(o) : o \in reqs}

Clear ==
    /\ challenge' = NoChallenge
    /\ pending' = FALSE

\* The handler of r resets the state and replies.
ResetBy(r, reply) ==
    /\ \/ /\ r = request
          /\ request' = [r EXCEPT !.stage = reply]
          /\ orphans' = CancelAll(orphans)
       \/ /\ r \in orphans
          /\ orphans' = CancelAll(orphans \ {r})
          /\ request' = Cancel(request)
    /\ Clear

\* A Connect is refused or begins; the time it spends in the factory, with the status still
\* Disconnected, is left to CommandServer. A code needs the session that is asking for it.
Take(r) ==
    /\ r.stage = "sent"
    /\ \/ /\ r.op = "Connect" /\ status = "Disconnected"
          /\ Handle(r, "working")
          /\ Become("Connecting")
          /\ posed' = 0 /\ passwords' = 0 /\ retried' = FALSE
          /\ UNCHANGED <<challenge, pending>>
       \/ /\ r.op = "Connect" /\ status # "Disconnected"
          /\ Handle(r, "Error")
          /\ UNCHANGED <<status, since, challenge, pending, login>>
       \/ /\ \/ r.op = "ChallengeCode" /\ pending
             \/ r.op = "Disconnect"
          /\ Handle(r, "working")
          /\ UNCHANGED <<status, since, challenge, pending, login>>
       \/ /\ r.op = "ChallengeCode" /\ ~pending
          /\ ResetBy(r, "Error")
          /\ Become("Disconnected")
          /\ UNCHANGED login
    /\ UNCHANGED <<tunnels, controllerVars>>

\* A challenge for the user, and how many it makes.
Challenged(type) ==
    /\ posed < MaxChallenges
    /\ type = "PasswordInput" => passwords < params.factors
    /\ posed' = posed + 1
    /\ passwords' = IF type = "PasswordInput" THEN passwords + 1 ELSE passwords
    /\ challenge' = [type |-> type, nth |-> IF type = "PasswordInput" THEN passwords + 1 ELSE 0]
    /\ Become("Mfa")
    /\ UNCHANGED <<retried, tunnels, controllerVars>>

\* The gateway poses a challenge ...
Pose(r, type) ==
    /\ LoginRequest(r)
    /\ Challenged(type)
    /\ pending' = TRUE
    /\ Handle(r, "Ok")

\* ... or has just done so when the state is reset, and the handler stores the session after
\* that: the code is asked for all the same, but the connector is gone. (That the answer to an
\* abandoned login comes in that moment is left out.)
PoseLate(type) ==
    /\ request.stage = "cancelled"
    /\ Challenged(type)
    /\ pending' = FALSE
    /\ request' = [request EXCEPT !.stage = "Ok"]
    /\ UNCHANGED orphans

\* ... or the same one once more, after a failed attempt ...
PoseAgain(r) ==
    /\ FailedAttempts
    /\ LoginRequest(r) /\ r.op = "ChallengeCode"
    /\ posed < MaxChallenges
    /\ challenge.type = "PasswordInput"
    /\ posed' = posed + 1
    /\ retried' = TRUE
    /\ Become("Mfa")
    /\ Handle(r, "Ok")
    /\ UNCHANGED <<challenge, pending, passwords, tunnels, controllerVars>>

Spawn ==
    /\ coming' = coming + 1
    /\ spawned' = TRUE

\* ... or lets the client in, and a tunnel is spawned ...
Grant(r) ==
    /\ LoginRequest(r)
    /\ Handle(r, "Ok")
    /\ Become("Connecting")
    /\ Clear
    /\ Spawn
    /\ UNCHANGED <<login, controllerVars>>

\* ... which a cancelled login that is past its cancellable part does as well: it stores its
\* session after the reset, or has done so before ...
GrantLate(r) ==
    /\ r.stage = "cancelled"
    /\ Handle(r, "Ok")
    /\ \/ Become("Connecting") /\ Clear
       \/ UNCHANGED <<status, since, challenge, pending>>
    /\ Spawn
    /\ UNCHANGED <<login, controllerVars>>

\* ... or refuses; or the login was cancelled.
Refuse(r) ==
    /\ LoginRequest(r) \/ r.stage = "cancelled"
    /\ ResetBy(r, "Error")
    /\ Become("Disconnected")
    /\ UNCHANGED <<login, tunnels, controllerVars>>

\* The disconnect is through.
Disconnected(r) ==
    /\ r.stage = "working" /\ r.op = "Disconnect"
    /\ ResetBy(r, "Ok")
    /\ status' = "Disconnected"
    /\ since' = IF r = request THEN {"Disconnected"} ELSE since \cup {"Disconnected"}
    /\ UNCHANGED <<login, tunnels, controllerVars>>

\* The handler of the polled stream answers in the order of the requests.
Reported ==
    /\ \E i \in DOMAIN stream.replies :
           /\ stream.replies[i] = Due
           /\ \A j \in 1..(i - 1) : stream.replies[j] # Due
           /\ stream' = [stream EXCEPT !.replies[i] = Report(status, challenge)]
    /\ UNCHANGED <<params, keychain, command, pc, with_mfa, local, result, late, request,
                   orphans, service, since, lost, commands>>

\* The Connected event of a tunnel is applied whatever the status is by then: after a
\* Disconnect, or in the middle of the next login.
TunnelUp ==
    /\ coming > 0
    /\ coming' = coming - 1
    /\ Become("Connected")
    /\ UNCHANGED <<challenge, pending, login, spawned, request, orphans, controllerVars>>

\* A tunnel's Disconnected event, or a check of its that the connector fails, resets the
\* state in any status, even long after the tunnel has ended.
TunnelDown ==
    /\ spawned
    /\ request' = Cancel(request)
    /\ orphans' = CancelAll(orphans)
    /\ Clear
    /\ Become("Disconnected")
    /\ UNCHANGED <<login, tunnels, controllerVars>>

-----------------------------------------------------------------------------

UserInput == PinGiven \/ NoPin \/ PasswordInput \/ UserNameInput \/ BrowserInput \/ NoInput

ControllerStep ==
    \/ ConnectAgain \/ ConnectAnswered \/ DisconnectAnswered \/ ReplyLost
    \/ GetStatus \/ StatusRead \/ StatusLost
    \/ ChallengeAnswered \/ GaveUp
    \/ Unwind \/ PollAgain \/ ConnectTimedOut \/ Finish

Next ==
    \/ Status \/ Connect \/ Disconnect
    \/ UserInput
    \/ ControllerStep
    \/ TimePasses
    \/ Interrupt
    \/ \E r \in orphans \cup {request} :
           \/ Take(r) \/ PoseAgain(r) \/ Grant(r) \/ GrantLate(r) \/ Refuse(r) \/ Disconnected(r)
           \/ \E type \in MfaTypes : Pose(r, type)
    \/ \E type \in MfaTypes : PoseLate(type)
    \/ Reported
    \/ TunnelUp
    \/ TunnelDown

Spec == Init /\ [][Next]_vars

\* The controller's task runs when it is ready, time passes, and the service starts the
\* handler of a request it was sent. Neither the gateway, nor the tunnel, nor the user need
\* ever answer.
Fairness ==
    /\ WF_vars(ControllerStep)
    /\ WF_vars(TimePasses)
    /\ WF_vars(\E r \in orphans \cup {request} : Take(r))

FairSpec == Spec /\ Fairness

-----------------------------------------------------------------------------
(* Properties *)

\* What the controller answers is what it was asked for: as long as no password challenge
\* was repeated, the n-th one gets the n-th secret, be it from the configuration, the
\* keychain or the user, and the configured MFA code never answers the challenge for the
\* password. The index and the challenges are counted on either side of the socket.
AnswersFit ==
    request.op = "ChallengeCode" /\ ~retried =>
        /\ request.code \in Secrets => request.code = request.nth
        /\ request.code = MfaCode => request.nth \notin {0, params.password_factor}

\* docs/options.md: the password factor is "used for keychain storage": nothing else is
\* ever stored there.
KeychainHoldsPassword == keychain \in {NoText, params.password_factor}

\* Both together, on either side of the socket and through every retry, interruption and
\* lost reply: a secret is sent to the factor and stored for the factor it is for.
SecretsFit == AnswersFit /\ KeychainHoldsPassword

\* What a command returns is true of the service. The status it returns, read from a stream
\* that earlier commands and earlier polls have used, is one the service has had since the
\* command was given, and after a Disconnect since the service reset the state for it: so it
\* is Disconnected (test_server.rs: assert_eq!(status, ConnectionStatus::Disconnected))
\* unless something has changed the status between the reset and the reply, a tunnel that
\* announces itself late or an abandoned login that is granted. And an error means that the
\* login is not left waiting for a code, which would make the service refuse the next
\* Connect, unless a request or a reply was lost.
ResultsTrue ==
    /\ pc = "return" /\ result \in Statuses => result \in since
    /\ pc = "idle" /\ result = "Error" /\ ~lost => status # "Mfa"

\* A command comes to its end however silent the gateway, the tunnel and the service are,
\* as long as the user does not leave a prompt open for ever.
CommandsEnd == []<>(pc \notin {"pin", "input"}) => (pc # "idle" ~> pc = "idle")

=============================================================================
