---------------------- MODULE ServiceControllerProofs -----------------------
(***************************************************************************)
(* What ServiceController keeps for any number of commands, challenges and *)
(* failed attempts, and for any configurations.                            *)
(***************************************************************************)
EXTENDS ServiceController, SequenceTheorems, TLAPS

\* A command is interrupted at a prompt, in the pause of a reconnect, or while the service disconnects: not
\* where a reply on the stream of GetStatus, or a request of a login, is still on its way.
Harmless == Interrupts \subseteq {"pin", "input", "pause", "giveup", "disconnect"}

\* The keychain is used for the first password.
FirstFactorStored == \A o \in Options : o.keychain = TRUE => o.password_factor = 1

-----------------------------------------------------------------------------
(* The invariant *)

\* What may be on the stream of GetStatus.
Replies == {Due} \cup [kind : Statuses, challenge : Challenge]

\* The configuration and what is noted of the history.
Flags ==
    /\ params \in Options
    /\ with_mfa \in BOOLEAN /\ late \in BOOLEAN /\ retried \in BOOLEAN /\ lost \in BOOLEAN
    /\ pending \in BOOLEAN /\ spawned \in BOOLEAN

\* The command under way and what it returns.
Control ==
    /\ command \in {"none", "Status", "Connect", "Disconnect", "Reconnect"}
    /\ pc \in Waits \cup {"idle", "poll", "return"}
    /\ result \in Statuses \cup {"none", "Error"}
    /\ commands \in 0..MaxCommands

\* What the controller remembers.
Memory ==
    /\ keychain \in Texts /\ password_from_keychain \in Texts
    /\ frames \in Seq([type : MfaTypes, input : Texts])
    /\ mfa_index \in 0..MaxChallenges
    /\ mfa \in Challenge

Requests == request \in Request /\ orphans \subseteq Request

\* The service has posed as many challenges as it has asked for passwords, or more.
Login ==
    /\ status \in Statuses /\ challenge \in Challenge
    /\ posed \in 0..MaxChallenges /\ passwords \in 0..MaxChallenges /\ passwords <= posed
    /\ coming \in Nat

Ranges == Control /\ Memory /\ Requests /\ Login

\* The login goes on, with this controller: its Connect was taken, and what comes next is an answer, a
\* challenge or another poll.
Flow ==
    /\ command = "Connect"
    /\ \/ pc \in {"poll", "status", "input", "challenge"}
       \/ pc = "connect" /\ request.stage \in {"working", "cancelled", "Ok"}
       \/ pc = "return" /\ result = "Connecting"

\* Where a command can be, and what it waits for there.
Order ==
    /\ pc = "idle" <=> command = "none"
    /\ pc = "connect" => request.op = "Connect" /\ request.stage # "none" /\ mfa_index = 0
    /\ pc = "challenge" => request.op = "ChallengeCode" /\ request.stage # "none"
    /\ pc \in {"giveup", "disconnect"} => request.op = "Disconnect" /\ request.stage \in {"sent", "working", "Ok"}
    /\ pc \notin {"connect", "challenge", "giveup", "disconnect"} => request = NoRequest
    /\ pc \in {"pin", "connect", "input", "challenge", "giveup"} => command = "Connect"
    /\ pc = "disconnect" => command \in {"Disconnect", "Reconnect"}
    /\ pc = "pause" => command = "Reconnect"
    /\ pc = "giveup" => result = "Error"
    /\ pc \in {"connect", "disconnect"} => result = "none"
    /\ frames # <<>> => command = "Connect" /\ pc \notin {"pin", "connect"}

\* A stream has the reply that is waited for, and no other; with_mfa is the parameter of this poll.
OneReply ==
    /\ stream = [open |-> stream.open, replies |-> stream.replies]
    /\ pc = "status" => /\ stream.open = TRUE
                        /\ stream.replies = <<stream.replies[1]>>
                        /\ stream.replies[1] \in Replies
    /\ pc # "status" => stream.open \in BOOLEAN /\ stream.replies = <<>>
    /\ pc \in {"poll", "status"} => (with_mfa = TRUE <=> command = "Connect")
    /\ pc = "return" /\ command = "Connect" /\ result = "Connecting" => with_mfa = TRUE

\* At most one login has a place in the state, and it is the controller's own while the controller follows the
\* login; a reset takes the place from all.
OneLogin ==
    /\ \A o \in orphans : o.stage \in {"working", "cancelled"} \/ (o.stage = "sent" /\ o.op = "Disconnect")
    /\ \A o \in orphans : LoginRequest(o) =>
           ~Flow /\ ~LoginRequest(request) /\ \A p \in orphans : LoginRequest(p) => p = o
    /\ \A r \in orphans \cup {request} : LoginRequest(r) => status # "Disconnected"
    /\ request.stage = "cancelled" => status # "Mfa" /\ pending = FALSE

\* A password challenge that is asked and not answered yet.
Asked == IF challenge.type = "PasswordInput" /\ request.stage \notin {"sent", "working", "cancelled"} THEN 1 ELSE 0

\* The controller's login may still be asked for a code.
Live == Flow /\ (status = "Mfa" \/ pending = TRUE \/ request.stage \in {"working", "cancelled"})

\* The index and the challenges agree, on either side of the socket.
Counts ==
    /\ status = "Disconnected" => challenge = NoChallenge /\ pending = FALSE
    /\ challenge.type = "PasswordInput" => challenge.nth = passwords /\ passwords >= 1
    /\ Live =>
           /\ mfa_index + Asked <= posed
           /\ passwords <= mfa_index + Asked
           /\ retried = FALSE => passwords = mfa_index + Asked

Fits(c) ==
    c.type = "PasswordInput" =>
        /\ mfa_index < MaxChallenges /\ c.nth >= 1 /\ c.nth <= mfa_index + 1
        /\ retried = FALSE => c.nth = mfa_index + 1

\* The challenge that is read is the one that the service waits for, if it still waits.
ReadsTrue ==
    /\ pc = "status" /\ command = "Connect" /\ stream.replies[1] # Due =>
           /\ status = "Mfa" => stream.replies[1].kind = "Mfa"
           /\ status = "Mfa" \/ pending = TRUE => stream.replies[1].challenge = challenge
           /\ stream.replies[1].kind = "Mfa" => Fits(stream.replies[1].challenge)
    /\ pc = "input" => Fits(mfa) /\ (status = "Mfa" \/ pending = TRUE => mfa = challenge)

\* The keychain holds the password, and so does what was loaded from it and what may be stored in it.
PasswordKept ==
    /\ keychain \in {NoText, params.password_factor}
    /\ password_from_keychain \in {NoText, params.password_factor}
    /\ params.keychain = TRUE /\ mfa_index <= 1 =>
           \A i \in 1..Len(frames) : frames[i].type = "PasswordInput" =>
               frames[i].input \in {NoText, params.password_factor}

\* A login that waits for a code is the controller's, unless something was lost.
MfaOwned ==
    lost = FALSE =>
        /\ orphans = {}
        /\ status = "Mfa" =>
               \/ Flow /\ pc # "return"
               \/ pc = "giveup" /\ request.stage \in {"sent", "working"}

\* What is on the stream, and what is returned, is a status the service has had since.
Past ==
    /\ since \subseteq Statuses /\ status \in since
    /\ pc = "status" /\ stream.replies[1] # Due => stream.replies[1].kind \in since
    /\ pc = "return" /\ result \in Statuses => result \in since

Kept == Flags /\ Ranges /\ Order /\ OneReply /\ OneLogin /\ Counts /\ ReadsTrue /\ MfaOwned /\ Past

-----------------------------------------------------------------------------
(* What the operators of the model do *)

\* A stream to which one reply is added, and from which it is taken.
LEMMA OneElement == \A x : Append(<<>>, x) = <<x>> /\ Head(<<x>>) = x /\ Tail(<<x>>) = <<>> /\ <<x>>[1] = x
  OBVIOUS

\* What is read from the stream is the only reply on it.
LEMMA ReadsOne ==
  ASSUME OneReply, pc = "status"
  PROVE  Head(stream.replies) = stream.replies[1] /\ Tail(stream.replies) = <<>>
  BY OneElement DEF OneReply

\* The service answers the one GetStatus that is on the stream.
LEMMA ReportedAnswers ==
  ASSUME OneReply, Reported
  PROVE  /\ pc = "status" /\ stream.replies[1] = Due
         /\ stream' = [open |-> TRUE, replies |-> <<Report(status, challenge)>>]
         /\ stream'.replies[1] = Report(status, challenge)
<1>1. PICK i \in DOMAIN stream.replies :
          /\ stream.replies[i] = Due
          /\ stream' = [stream EXCEPT !.replies[i] = Report(status, challenge)]
  BY DEF Reported
<1>2. pc = "status"
  BY <1>1 DEF OneReply
<1>3. i = 1
  BY <1>1, <1>2 DEF OneReply
<1>4. stream.open = TRUE /\ stream.replies = <<stream.replies[1]>>
  BY <1>2 DEF OneReply
<1>5. [stream.replies EXCEPT ![1] = Report(status, challenge)] = <<Report(status, challenge)>>
  BY <1>4
<1>6. stream' = [open |-> TRUE, replies |-> <<Report(status, challenge)>>]
  BY <1>1, <1>3, <1>4, <1>5 DEF OneReply
<1>7. QED
  BY <1>1, <1>2, <1>3, <1>6, OneElement

\* What is configured can be sent.
LEMMA OptionTypes == ASSUME Flags PROVE params.password_factor \in Secrets /\ params \in OptionType
  BY ControllerAssumption DEF Flags, OptionType

\* What is sent, and what becomes of it, is a request; so is none.
LEMMA RequestTypes ==
  /\ NoRequest \in Request /\ NoText \in Texts /\ 0 \in 0..MaxChallenges
  /\ \A op \in {"Connect", "ChallengeCode", "Disconnect"}, code \in Texts, nth \in 0..MaxChallenges :
         [op |-> op, code |-> code, nth |-> nth, stage |-> "sent"] \in Request
  /\ \A r \in Request, s \in {"working", "Ok", "Error"} :
         LET moved == [r EXCEPT !.stage = s]
         IN  /\ moved \in Request /\ moved.op = r.op /\ moved.code = r.code /\ moved.nth = r.nth
             /\ moved.stage = s
<1>1. NoRequest \in Request /\ NoText \in Texts /\ 0 \in 0..MaxChallenges
  BY ControllerAssumption DEF NoRequest, Request, Texts, Stages
<1>2. ASSUME NEW op \in {"Connect", "ChallengeCode", "Disconnect"},
             NEW code \in Texts, NEW nth \in 0..MaxChallenges
      PROVE  [op |-> op, code |-> code, nth |-> nth, stage |-> "sent"] \in Request
  BY DEF Request, Stages
<1>3. ASSUME NEW r \in Request, NEW s \in {"working", "Ok", "Error"}
      PROVE  LET moved == [r EXCEPT !.stage = s]
             IN  /\ moved \in Request /\ moved.op = r.op /\ moved.code = r.code /\ moved.nth = r.nth
                 /\ moved.stage = s
  BY DEF Request, Stages
<1>4. QED
  BY <1>1, <1>2, <1>3

\* A handler moves one request on, the one that is waited for or an abandoned one.
LEMMA Handled ==
  ASSUME Requests, NEW r \in orphans \cup {request}, NEW s \in {"working", "Ok", "Error"}, Handle(r, s)
  PROVE  \/ /\ r = request /\ request' \in Request /\ orphans' = orphans
            /\ request'.op = r.op /\ request'.code = r.code /\ request'.nth = r.nth /\ request'.stage = s
         \/ /\ r \in orphans /\ request' = request /\ orphans' \subseteq Request
            /\ s # "working" => orphans' = orphans \ {r}
            /\ \A o \in orphans' : \/ o \in orphans /\ o # r
                                   \/ s = "working" /\ o.op = r.op /\ o.stage = "working"
<1>1. r \in Request
  BY DEF Requests
<1> DEFINE moved == [r EXCEPT !.stage = s]
<1>2. /\ moved \in Request /\ moved.op = r.op /\ moved.code = r.code /\ moved.nth = r.nth
      /\ moved.stage = s
  BY <1>1, RequestTypes
<1>3. QED
  BY <1>2 DEF Handle, Requests

\* A login that is cancelled remains the request it was.
LEMMA CancelTypes ==
  \A r \in Request :
      LET c == Cancel(r)
      IN  /\ c \in Request /\ c.op = r.op /\ c.code = r.code /\ c.nth = r.nth /\ ~LoginRequest(c)
          /\ c.stage = IF LoginRequest(r) THEN "cancelled" ELSE r.stage
          /\ ~LoginRequest(r) => c = r
  BY DEF Cancel, LoginRequest, Request, Stages

\* When all are cancelled no login is left.
LEMMA CancelAllTypes ==
  ASSUME NEW S, S \subseteq Request
  PROVE  /\ CancelAll(S) \subseteq Request /\ (S = {} => CancelAll(S) = {})
         /\ \A c \in CancelAll(S) :
                /\ ~LoginRequest(c)
                /\ \E o \in S : c.op = o.op /\ (c.stage = o.stage \/ c.stage = "cancelled")
<1>1. \A c \in CancelAll(S) : \E o \in S : c = Cancel(o)
  BY DEF CancelAll
<1>2. QED
  BY <1>1, CancelTypes DEF CancelAll

\* A reset by the handler of r: r is answered, and every login is cancelled.
LEMMA ResetDone ==
  ASSUME Requests, NEW r \in orphans \cup {request}, NEW s \in {"Ok", "Error"}, ResetBy(r, s)
  PROVE  /\ challenge' = NoChallenge /\ pending' = FALSE
         /\ \/ r = request /\ request'.stage = s
            \/ r \in orphans /\ IF LoginRequest(request) THEN request'.stage = "cancelled" ELSE request' = request
         /\ request' \in Request /\ ~LoginRequest(request')
         /\ request'.op = request.op /\ request'.code = request.code /\ request'.nth = request.nth
         /\ orphans' \subseteq Request /\ (orphans = {} => orphans' = {})
         /\ \A c \in orphans' :
                /\ ~LoginRequest(c)
                /\ \E o \in orphans : c.op = o.op /\ (c.stage = o.stage \/ c.stage = "cancelled")
<1>1. request \in Request /\ orphans \subseteq Request /\ orphans \ {r} \subseteq Request
  BY DEF Requests
<1>2. challenge' = NoChallenge /\ pending' = FALSE
  BY DEF ResetBy, Clear
<1>3. CASE r = request /\ request' = [r EXCEPT !.stage = s] /\ orphans' = CancelAll(orphans)
  <2>1. /\ request' \in Request /\ request'.stage = s /\ request'.op = request.op
        /\ request'.code = request.code /\ request'.nth = request.nth
    BY <1>1, <1>3, RequestTypes
  <2>2. QED
    BY <1>1, <1>2, <1>3, <2>1, CancelAllTypes DEF LoginRequest
<1>4. CASE r \in orphans /\ orphans' = CancelAll(orphans \ {r}) /\ request' = Cancel(request)
  BY <1>1, <1>2, <1>4, CancelTypes, CancelAllTypes
<1>5. QED
  BY <1>3, <1>4 DEF ResetBy

\* A tunnel's reset cancels every login.
LEMMA TunnelDownDone ==
  ASSUME Requests, TunnelDown
  PROVE  /\ challenge' = NoChallenge /\ pending' = FALSE
         /\ IF LoginRequest(request) THEN request'.stage = "cancelled" ELSE request' = request
         /\ request' \in Request /\ ~LoginRequest(request')
         /\ request'.op = request.op /\ request'.code = request.code /\ request'.nth = request.nth
         /\ orphans' \subseteq Request /\ (orphans = {} => orphans' = {})
         /\ \A c \in orphans' :
                /\ ~LoginRequest(c)
                /\ \E o \in orphans : c.op = o.op /\ (c.stage = o.stage \/ c.stage = "cancelled")
<1>1. request \in Request /\ orphans \subseteq Request
  BY DEF Requests
<1>2. challenge' = NoChallenge /\ pending' = FALSE /\ request' = Cancel(request) /\ orphans' = CancelAll(orphans)
  BY DEF TunnelDown, Clear
<1>3. QED
  BY <1>1, <1>2, CancelTypes, CancelAllTypes

\* A request is with the service only where the command waits for it, and a login's in a Connect.
LEMMA WhereRequest ==
  ASSUME Order, request.stage # "none"
  PROVE  /\ pc \in {"connect", "challenge", "giveup", "disconnect"}
         /\ pc = "connect" => request.op = "Connect" /\ command = "Connect"
         /\ pc = "challenge" => request.op = "ChallengeCode" /\ command = "Connect"
         /\ pc \in {"giveup", "disconnect"} => request.op = "Disconnect" /\ request.stage # "cancelled"
  BY DEF Order, NoRequest

\* All but the last element of a sequence.
LEMMA AllButLast ==
  ASSUME NEW S, NEW s \in Seq(S), s # <<>>
  PROVE  /\ Len(s) \in Nat \ {0} /\ s[Len(s)] \in S
         /\ SubSeq(s, 1, Len(s) - 1) \in Seq(S)
         /\ Len(SubSeq(s, 1, Len(s) - 1)) = Len(s) - 1
         /\ \A i \in 1..(Len(s) - 1) : SubSeq(s, 1, Len(s) - 1)[i] = s[i]
<1>1. Len(s) \in Nat \ {0}
  BY EmptySeq, LenProperties
<1>2. \A i \in 1..Len(s) : s[i] \in S
  BY ElementOfSeq
<1>3. PICK n \in Nat : n = Len(s) - 1
  BY <1>1
<1>4. \A i \in 1..n : s[i] \in S
  BY <1>1, <1>2, <1>3
<1>5. /\ SubSeq(s, 1, n) \in Seq(S)
      /\ Len(SubSeq(s, 1, n)) = IF 1 <= n THEN n - 1 + 1 ELSE 0
      /\ \A i \in 1..(n - 1 + 1) : SubSeq(s, 1, n)[i] = s[1 + i - 1]
  BY <1>3, <1>4, SubSeqProperties
<1>6. Len(SubSeq(s, 1, n)) = n
  BY <1>3, <1>5
<1>7. ASSUME NEW i \in 1..n PROVE SubSeq(s, 1, n)[i] = s[i]
  <2>1. i \in 1..(n - 1 + 1) /\ 1 + i - 1 = i
    BY <1>3
  <2>2. QED
    BY <1>5, <2>1
<1>8. QED
  BY <1>1, <1>2, <1>3, <1>5, <1>6, <1>7

\* Whatever is sent is a request.
LEMMA SentRequest ==
  ASSUME NEW op \in {"Connect", "ChallengeCode", "Disconnect"}, NEW code \in Texts, NEW nth \in 0..MaxChallenges,
         NEW next, NEW res, Send(op, code, nth, next, res)
  PROVE  request' \in Request
  BY RequestTypes DEF Send

\* Whoever gives it, the answer is a text, and the index has room for it.
LEMMA InputGiven ==
  ASSUME Kept, PasswordInput \/ UserNameInput \/ BrowserInput
  PROVE  \E text \in Texts : Answer(text)
<1>1. CASE PasswordInput
  <2> DEFINE supplied == Supplied(mfa_index + 1)
  <2>1. PICK text \in IF supplied # {} THEN supplied ELSE {mfa.nth, NoText} : Answer(text)
    BY <1>1 DEF PasswordInput
  <2>2. supplied \subseteq Texts
    BY OptionTypes DEF Supplied, Texts, Kept, Ranges, Memory
  <2>3. mfa.nth \in Secrets
    BY <1>1, ControllerAssumption DEF PasswordInput, Kept, Ranges, Memory, Challenge, ReadsTrue, Fits, Secrets
  <2>4. text \in Texts
    BY <2>1, <2>2, <2>3 DEF Texts
  <2>5. QED
    BY <2>1, <2>4
<1>2. CASE UserNameInput
  BY <1>2 DEF UserNameInput, Texts
<1>3. CASE BrowserInput
  BY <1>3 DEF BrowserInput, Texts
<1>4. QED
  BY <1>1, <1>2, <1>3

\* An input is stacked and sent.
LEMMA AnswerTypes ==
  ASSUME Kept, PasswordInput \/ UserNameInput \/ BrowserInput
  PROVE  request' \in Request /\ frames' \in Seq([type : MfaTypes, input : Texts])
<1>1. PICK text \in Texts : Answer(text)
  BY InputGiven
<1>2. mfa.type \in MfaTypes /\ mfa.nth \in 0..MaxChallenges /\ frames \in Seq([type : MfaTypes, input : Texts])
  BY DEF Kept, Ranges, Memory, Challenge
<1>3. request' \in Request
  BY <1>1, <1>2, SentRequest DEF Answer
<1>4. QED
  BY <1>1, <1>2, <1>3 DEF Answer

-----------------------------------------------------------------------------
(* Each part is kept by every step *)

\* The configuration is constant.
LEMMA FlagsNext == ASSUME Kept, Harmless, Next PROVE Flags'
<1> USE DEF Kept, Flags, vars, local, service, login, tunnels
<1>1. CASE Status \/ Connect \/ Disconnect \/ ConnectAgain \/ PinGiven \/ NoPin
  BY <1>1 DEF Status, Connect, Disconnect, ConnectAgain, PinGiven, NoPin, Give,
         BeginConnect, SendConnect, Return, Send
<1>2. CASE PasswordInput
  BY <1>2 DEF PasswordInput, Answer, Send
<1>3. CASE UserNameInput
  BY <1>3 DEF UserNameInput, Answer, Send
<1>4. CASE BrowserInput \/ NoInput
  BY <1>4 DEF BrowserInput, NoInput, Answer, Send
<1>5. CASE ConnectAnswered \/ DisconnectAnswered \/ ReplyLost \/ ChallengeAnswered \/ GaveUp
  BY <1>5 DEF ConnectAnswered, DisconnectAnswered, ReplyLost, ChallengeAnswered, GaveUp, Reply, Return,
         Abandon, Send
<1>6. CASE GetStatus
  BY <1>6, OneElement, ReadsOne DEF GetStatus, Return
<1>7. CASE StatusRead
  BY <1>7, OneElement, ReadsOne DEF StatusRead, Return
<1>8. CASE StatusLost
  BY <1>8 DEF StatusLost, Return
<1>9. CASE Unwind \/ PollAgain \/ ConnectTimedOut \/ Finish
  BY <1>9 DEF Unwind, PollAgain, ConnectTimedOut, Finish, Connecting
<1>10. CASE TimePasses \/ Interrupt
  BY <1>10 DEF TimePasses, Interrupt, Abandon
<1>11. ASSUME NEW r \in orphans \cup {request},
              Take(r) \/ (\E type \in MfaTypes : Pose(r, type)) \/ PoseAgain(r)
                 \/ Grant(r) \/ GrantLate(r) \/ Refuse(r) \/ Disconnected(r)
       PROVE  Flags'
  BY <1>11 DEF Take, Pose, PoseAgain, Grant, GrantLate, Spawn, Refuse, Disconnected, ResetBy, Clear, Become, Challenged, controllerVars, LoginRequest
<1>12. CASE Reported
  BY <1>12, ReportedAnswers DEF Reported
<1>13. CASE TunnelUp \/ TunnelDown \/ (\E type \in MfaTypes : PoseLate(type))
  BY <1>13 DEF TunnelUp, TunnelDown, PoseLate, Challenged, controllerVars, Become, Clear
<1>14. QED
  BY <1>1, <1>2, <1>3, <1>4, <1>5, <1>6, <1>7, <1>8, <1>9, <1>10, <1>11, <1>12, <1>13
     DEF Next, UserInput, ControllerStep

\* A command returns a status that was read, or an error.
LEMMA ControlNext == ASSUME Kept, Harmless, Next PROVE Control'
<1> USE DEF Kept, Ranges, Control, Waits, Statuses, Order, vars, local, service, login, tunnels
<1>1. CASE Status \/ Connect \/ Disconnect \/ ConnectAgain \/ PinGiven \/ NoPin
  BY <1>1, ControllerAssumption DEF Status, Connect, Disconnect, ConnectAgain, PinGiven, NoPin, Give,
         BeginConnect, SendConnect, Return, Send
<1>2. CASE PasswordInput \/ UserNameInput \/ BrowserInput
  BY <1>2, ControllerAssumption DEF PasswordInput, UserNameInput, BrowserInput, Answer, Send
<1>3. CASE NoInput
  BY <1>3, ControllerAssumption DEF NoInput, Send
<1>4. CASE ConnectAnswered \/ DisconnectAnswered \/ ReplyLost \/ ChallengeAnswered \/ GaveUp
  BY <1>4, ControllerAssumption DEF ConnectAnswered, DisconnectAnswered, ReplyLost, ChallengeAnswered, GaveUp,
         Reply, Return, Abandon, Send
<1>5. CASE GetStatus
  BY <1>5, ControllerAssumption, OneElement, ReadsOne DEF GetStatus, Return
<1>6. CASE StatusRead
  <2>1. stream.replies[1].kind \in Statuses
    BY <1>6, ReadsOne DEF StatusRead, OneReply, Replies
  <2>2. QED
    BY <1>6, ReadsOne, <2>1 DEF StatusRead, Return
<1>7. CASE StatusLost
  BY <1>7, ControllerAssumption DEF StatusLost, Return
<1>8. CASE Unwind \/ PollAgain \/ ConnectTimedOut \/ Finish
  BY <1>8, ControllerAssumption DEF Unwind, PollAgain, ConnectTimedOut, Finish, Connecting
<1>9. CASE TimePasses \/ Interrupt
  BY <1>9, ControllerAssumption DEF TimePasses, Interrupt, Abandon
<1>10. ASSUME NEW r \in orphans \cup {request},
              Take(r) \/ (\E type \in MfaTypes : Pose(r, type)) \/ PoseAgain(r)
                 \/ Grant(r) \/ GrantLate(r) \/ Refuse(r) \/ Disconnected(r)
       PROVE  Control'
  BY <1>10, ControllerAssumption DEF Take, Pose, PoseAgain, Grant, GrantLate, Spawn, Refuse, Disconnected, ResetBy, Clear, Become, Challenged,
         controllerVars, LoginRequest
<1>11. CASE Reported
  BY <1>11, ControllerAssumption, ReportedAnswers DEF Reported
<1>12. CASE TunnelUp \/ TunnelDown \/ (\E type \in MfaTypes : PoseLate(type))
  BY <1>12, ControllerAssumption DEF TunnelUp, TunnelDown, PoseLate, Challenged, controllerVars, Become, Clear
<1>13. QED
  BY <1>1, <1>2, <1>3, <1>4, <1>5, <1>6, <1>7, <1>8, <1>9, <1>10, <1>11, <1>12
     DEF Next, UserInput, ControllerStep

\* The index has room for every password challenge, and what is stored is a text.
LEMMA MemoryNext == ASSUME Kept, Harmless, Next PROVE Memory'
<1> USE DEF Kept, Ranges, Memory, vars, local, service, login, tunnels
<1>1. CASE Status \/ Connect \/ Disconnect \/ ConnectAgain \/ PinGiven \/ NoPin
  BY <1>1, ControllerAssumption, OptionTypes DEF Status, Connect, Disconnect, ConnectAgain, PinGiven, NoPin, Give,
         BeginConnect, SendConnect, Return, Send
<1>2. CASE PasswordInput \/ UserNameInput \/ BrowserInput
  <2>1. mfa_index' \in 0..MaxChallenges
    BY <1>2, ControllerAssumption DEF PasswordInput, UserNameInput, BrowserInput, ReadsTrue, Fits
  <2>2. QED
    BY <1>2, <2>1, AnswerTypes DEF PasswordInput, UserNameInput, BrowserInput
<1>3. CASE NoInput
  <2>1. mfa_index' \in 0..MaxChallenges
    BY <1>3, ControllerAssumption DEF NoInput, ReadsTrue, Fits
  <2>2. QED
    BY <1>3, <2>1 DEF NoInput
<1>4. CASE ConnectAnswered \/ DisconnectAnswered \/ ReplyLost \/ ChallengeAnswered \/ GaveUp
  BY <1>4, ControllerAssumption, OptionTypes DEF ConnectAnswered, DisconnectAnswered, ReplyLost,
         ChallengeAnswered, GaveUp, Reply, Return, Abandon, Send
<1>5. CASE GetStatus
  BY <1>5, ControllerAssumption, OptionTypes, OneElement, ReadsOne DEF GetStatus, Return
<1>6. CASE StatusRead
  <2>1. stream.replies[1] = Head(stream.replies) /\ stream.replies[1] \in Replies /\ pc = "status"
    BY <1>6, ReadsOne DEF StatusRead, OneReply
  <2>2. stream.replies[1] # Due => stream.replies[1].challenge \in Challenge
    BY <2>1 DEF Replies
  <2>3. mfa' \in Challenge
    BY <1>6, <2>1, <2>2 DEF StatusRead, Return
  <2>4. QED
    BY <1>6, <2>3 DEF StatusRead
<1>7. CASE StatusLost
  BY <1>7, ControllerAssumption, OptionTypes DEF StatusLost, Return
<1>8. CASE Unwind \/ PollAgain \/ ConnectTimedOut \/ Finish
  <2>1. CASE Unwind
    <3>1. Last \in [type : MfaTypes, input : Texts] /\ frames' \in Seq([type : MfaTypes, input : Texts])
      BY <2>1, AllButLast DEF Unwind, Last
    <3>2. QED
      BY <2>1, <3>1 DEF Unwind
  <2>2. CASE PollAgain \/ ConnectTimedOut \/ Finish
    BY <2>2 DEF PollAgain, ConnectTimedOut, Finish
  <2>3. QED
    BY <1>8, <2>1, <2>2
<1>9. CASE TimePasses \/ Interrupt
  <2>1. frames' = frames \/ frames' = <<>>
    BY <1>9 DEF TimePasses, Interrupt
  <2>2. frames' \in Seq([type : MfaTypes, input : Texts])
    BY <2>1, EmptySeq
  <2>3. QED
    BY <1>9, <2>2 DEF TimePasses, Interrupt
<1>10. ASSUME NEW r \in orphans \cup {request},
              Take(r) \/ (\E type \in MfaTypes : Pose(r, type)) \/ PoseAgain(r)
                 \/ Grant(r) \/ GrantLate(r) \/ Refuse(r) \/ Disconnected(r)
       PROVE  Memory'
  BY <1>10, ControllerAssumption, OptionTypes DEF Take, Pose, PoseAgain, Grant, GrantLate, Spawn, Refuse, Disconnected, ResetBy, Clear, Become, Challenged,
         controllerVars, LoginRequest
<1>11. CASE Reported
  BY <1>11, ControllerAssumption, OptionTypes, ReportedAnswers DEF Reported
<1>12. CASE TunnelUp \/ TunnelDown \/ (\E type \in MfaTypes : PoseLate(type))
  BY <1>12, ControllerAssumption, OptionTypes DEF TunnelUp, TunnelDown, PoseLate, Challenged, controllerVars, Become, Clear
<1>13. QED
  BY <1>1, <1>2, <1>3, <1>4, <1>5, <1>6, <1>7, <1>8, <1>9, <1>10, <1>11, <1>12
     DEF Next, UserInput, ControllerStep

\* Requests and abandoned requests are requests.
LEMMA RequestsNext == ASSUME Kept, Harmless, Next PROVE Requests'
<1> USE DEF Kept, Ranges, Requests, vars, local, service, login, tunnels
<1>1. CASE Status \/ Connect \/ Disconnect \/ ConnectAgain \/ PinGiven \/ NoPin
  BY <1>1, RequestTypes DEF Status, Connect, Disconnect, ConnectAgain, PinGiven, NoPin, Give,
         BeginConnect, SendConnect, Return, Send
<1>2. CASE PasswordInput \/ UserNameInput \/ BrowserInput
  BY <1>2, AnswerTypes DEF PasswordInput, UserNameInput, BrowserInput
<1>3. CASE NoInput
  BY <1>3, RequestTypes DEF NoInput, Send
<1>4. CASE ConnectAnswered \/ DisconnectAnswered \/ ReplyLost \/ ChallengeAnswered \/ GaveUp
  BY <1>4, RequestTypes DEF ConnectAnswered, DisconnectAnswered, ReplyLost, ChallengeAnswered, GaveUp, Reply,
         Return, Abandon, Send
<1>5. CASE GetStatus
  BY <1>5, RequestTypes, OneElement, ReadsOne DEF GetStatus, Return
<1>6. CASE StatusRead
  BY <1>6, RequestTypes, OneElement, ReadsOne DEF StatusRead, Return
<1>7. CASE StatusLost
  BY <1>7, RequestTypes DEF StatusLost, Return
<1>8. CASE Unwind \/ PollAgain \/ ConnectTimedOut \/ Finish
  BY <1>8, RequestTypes DEF Unwind, PollAgain, ConnectTimedOut, Finish, Connecting
<1>9. CASE TimePasses \/ Interrupt
  BY <1>9, RequestTypes DEF TimePasses, Interrupt, Abandon
<1>10. ASSUME NEW r \in orphans \cup {request}, Take(r) PROVE Requests'
  BY <1>10, RequestTypes, Handled, ResetDone DEF Take, ResetBy, Clear, Become, Challenged, controllerVars
<1>11. ASSUME NEW r \in orphans \cup {request}, \E type \in MfaTypes : Pose(r, type) PROVE Requests'
  BY <1>11, RequestTypes, Handled DEF Pose, LoginRequest, controllerVars
<1>12. ASSUME NEW r \in orphans \cup {request}, PoseAgain(r) PROVE Requests'
  BY <1>12, RequestTypes, Handled DEF PoseAgain, LoginRequest, controllerVars
<1>13. ASSUME NEW r \in orphans \cup {request}, Grant(r) \/ GrantLate(r) \/ Refuse(r) PROVE Requests'
  BY <1>13, RequestTypes, Handled, ResetDone DEF Grant, GrantLate, Spawn, Refuse, LoginRequest, controllerVars, ResetBy, Clear, Become, Challenged
<1>14. ASSUME NEW r \in orphans \cup {request}, Disconnected(r) PROVE Requests'
  BY <1>14, ResetDone DEF Disconnected, LoginRequest, ResetBy, Clear, Become, Challenged, controllerVars
<1>15. CASE Reported
  BY <1>15, RequestTypes, ReportedAnswers DEF Reported
<1>16. CASE TunnelUp \/ TunnelDown \/ (\E type \in MfaTypes : PoseLate(type))
  BY <1>16, RequestTypes, TunnelDownDone DEF TunnelUp, TunnelDown, PoseLate, Challenged, controllerVars, Become, Clear
<1>17. QED
  BY <1>1, <1>2, <1>3, <1>4, <1>5, <1>6, <1>7, <1>8, <1>9, <1>10, <1>11, <1>12, <1>13, <1>14,
     <1>15, <1>16 DEF Next, UserInput, ControllerStep

\* The service asks for no more passwords than it poses challenges.
LEMMA LoginNext == ASSUME Kept, Harmless, Next PROVE Login'
<1> USE DEF Kept, Ranges, Login, Statuses, Challenge, NoChallenge, MfaTypes, vars, local, service, login, tunnels
<1>1. CASE Status \/ Connect \/ Disconnect \/ ConnectAgain \/ PinGiven \/ NoPin
  BY <1>1, ControllerAssumption DEF Status, Connect, Disconnect, ConnectAgain, PinGiven, NoPin, Give,
         BeginConnect, SendConnect, Return, Send
<1>2. CASE PasswordInput \/ UserNameInput \/ BrowserInput
  BY <1>2, ControllerAssumption DEF PasswordInput, UserNameInput, BrowserInput, Answer, Send
<1>3. CASE NoInput
  BY <1>3, ControllerAssumption DEF NoInput, Send
<1>4. CASE ConnectAnswered \/ DisconnectAnswered \/ ReplyLost \/ ChallengeAnswered \/ GaveUp
  BY <1>4, ControllerAssumption DEF ConnectAnswered, DisconnectAnswered, ReplyLost, ChallengeAnswered, GaveUp,
         Reply, Return, Abandon, Send
<1>5. CASE GetStatus
  BY <1>5, ControllerAssumption, OneElement, ReadsOne DEF GetStatus, Return
<1>6. CASE StatusRead
  BY <1>6, ControllerAssumption, OneElement, ReadsOne DEF StatusRead, Return
<1>7. CASE StatusLost
  BY <1>7, ControllerAssumption DEF StatusLost, Return
<1>8. CASE Unwind \/ PollAgain \/ ConnectTimedOut \/ Finish
  BY <1>8, ControllerAssumption DEF Unwind, PollAgain, ConnectTimedOut, Finish, Connecting
<1>9. CASE TimePasses \/ Interrupt
  BY <1>9, ControllerAssumption DEF TimePasses, Interrupt, Abandon
<1>10. ASSUME NEW r \in orphans \cup {request},
              Take(r) \/ (\E type \in MfaTypes : Pose(r, type)) \/ PoseAgain(r)
                 \/ Grant(r) \/ GrantLate(r) \/ Refuse(r) \/ Disconnected(r)
       PROVE  Login'
  BY <1>10, ControllerAssumption DEF Take, Pose, PoseAgain, Grant, GrantLate, Spawn, Refuse, Disconnected, ResetBy, Clear, Become, Challenged,
         controllerVars, LoginRequest
<1>11. CASE Reported
  BY <1>11, ControllerAssumption, ReportedAnswers DEF Reported
<1>12. CASE TunnelUp \/ TunnelDown \/ (\E type \in MfaTypes : PoseLate(type))
  BY <1>12, ControllerAssumption DEF TunnelUp, TunnelDown, PoseLate, Challenged, controllerVars, Become, Clear
<1>13. QED
  BY <1>1, <1>2, <1>3, <1>4, <1>5, <1>6, <1>7, <1>8, <1>9, <1>10, <1>11, <1>12
     DEF Next, UserInput, ControllerStep

\* A status that the service takes is noted, and no more are forgotten than it had before the Disconnect.
LEMMA PastNext == ASSUME Kept, Harmless, Next PROVE Past'
<1> USE DEF Kept, Ranges, Past, Control, Login, Order, OneReply, Statuses, Harmless, Report, Due, vars, local, service,
         login, tunnels
<1>1. CASE Status \/ Connect \/ Disconnect \/ ConnectAgain \/ PinGiven \/ NoPin
  BY <1>1 DEF Status, Connect, Disconnect, ConnectAgain, PinGiven, NoPin, Give, BeginConnect, SendConnect,
         Return, Send
<1>2. CASE PasswordInput
  BY <1>2 DEF PasswordInput, Answer, Send
<1>3. CASE UserNameInput
  BY <1>3 DEF UserNameInput, Answer, Send
<1>4. CASE BrowserInput \/ NoInput
  BY <1>4 DEF BrowserInput, NoInput, Answer, Send
<1>5. CASE ConnectAnswered \/ DisconnectAnswered \/ ReplyLost \/ ChallengeAnswered \/ GaveUp
  BY <1>5 DEF ConnectAnswered, DisconnectAnswered, ReplyLost, ChallengeAnswered, GaveUp, Reply, Return,
         Abandon, Send
<1>6. CASE GetStatus
  BY <1>6, OneElement, ReadsOne DEF GetStatus, Return
<1>7. CASE StatusRead
  BY <1>7, OneElement, ReadsOne DEF StatusRead, Return
<1>8. CASE StatusLost
  BY <1>8 DEF StatusLost, Return
<1>9. CASE Unwind \/ PollAgain \/ ConnectTimedOut \/ Finish
  BY <1>9 DEF Unwind, PollAgain, ConnectTimedOut, Finish, Connecting
<1>10. CASE TimePasses \/ Interrupt
  BY <1>10 DEF TimePasses, Interrupt, Abandon
<1>11. ASSUME NEW r \in orphans \cup {request},
              Take(r) \/ (\E type \in MfaTypes : Pose(r, type)) \/ PoseAgain(r)
                 \/ Grant(r) \/ GrantLate(r) \/ Refuse(r)
       PROVE  Past'
  BY <1>11 DEF Take, Pose, PoseAgain, Grant, GrantLate, Spawn, Refuse, controllerVars, Become, Challenged
<1>12. ASSUME NEW r \in orphans \cup {request}, Disconnected(r) PROVE Past'
  BY <1>12 DEF Disconnected, controllerVars, NoRequest
<1>13. CASE Reported
  BY <1>13, ReportedAnswers DEF Reported
<1>14. CASE TunnelUp \/ TunnelDown \/ (\E type \in MfaTypes : PoseLate(type))
  BY <1>14 DEF TunnelUp, TunnelDown, PoseLate, Challenged, controllerVars, Become
<1>15. QED
  BY <1>1, <1>2, <1>3, <1>4, <1>5, <1>6, <1>7, <1>8, <1>9, <1>10, <1>11, <1>12, <1>13, <1>14
     DEF Next, UserInput, ControllerStep

\* A command stays where it waits while its request is served.
LEMMA OrderMoved ==
  ASSUME Order, UNCHANGED <<pc, command, mfa_index, frames, result>>, request'.op = request.op,
         request.stage # "none" => request'.stage # "none",
         request.op = "Disconnect" => request'.stage \in {"sent", "working", "Ok"},
         request = NoRequest => request' = NoRequest
  PROVE  Order'
  BY DEF Order

\* A handler answers a Disconnect with Ok.
LEMMA OrderHandled ==
  ASSUME Kept, NEW r \in orphans \cup {request},
         Take(r) \/ (\E type \in MfaTypes : Pose(r, type)) \/ PoseAgain(r)
            \/ Grant(r) \/ GrantLate(r) \/ Refuse(r) \/ Disconnected(r)
  PROVE  Order'
<1>1. UNCHANGED <<pc, command, mfa_index, frames, result>>
  BY DEF Take, Pose, PoseAgain, Grant, GrantLate, Spawn, Refuse, Disconnected, Challenged, controllerVars, local
<1>2. Order /\ Requests /\ r.stage # "none"
  BY DEF Kept, Ranges, Take, Pose, PoseAgain, Grant, GrantLate, Refuse, Disconnected, LoginRequest
<1>3. request.op = "Disconnect" /\ request.stage # "none" => request.stage \in {"sent", "working", "Ok"}
  BY <1>2, WhereRequest DEF Order
<1>4. /\ request.stage = "none" => request = NoRequest /\ request.op = "none"
      /\ request = NoRequest => request.stage = "none" /\ request.op = "none"
  BY <1>2 DEF Order, NoRequest
<1>5. CASE \E s \in {"working", "Ok", "Error"} : Handle(r, s) /\ (s = "Error" => r.op # "Disconnect")
  <2>1. PICK s \in {"working", "Ok", "Error"} : Handle(r, s) /\ (s = "Error" => r.op # "Disconnect")
    BY <1>5
  <2>2. CASE r = request /\ request'.op = r.op /\ request'.stage = s
    BY <1>1, <1>2, <1>4, <2>1, <2>2, OrderMoved
  <2>3. CASE request' = request
    BY <1>1, <1>2, <1>3, <1>4, <2>3, OrderMoved
  <2>4. QED
    BY <1>2, <2>1, <2>2, <2>3, Handled
<1>6. CASE \E s \in {"Ok", "Error"} : ResetBy(r, s) /\ (r = request /\ s = "Error" => r.op # "Disconnect")
  <2>1. request.op = "Disconnect" \/ request.stage = "none" => ~LoginRequest(request)
    BY DEF LoginRequest
  <2>2. PICK s \in {"Ok", "Error"} : ResetBy(r, s) /\ (r = request /\ s = "Error" => r.op # "Disconnect")
    BY <1>6
  <2>3. request'.op = request.op
    BY <1>2, <2>2, ResetDone
  <2>4. CASE r = request /\ request'.stage = s
    BY <1>1, <1>2, <1>4, <2>2, <2>3, <2>4, OrderMoved
  <2>5. CASE LoginRequest(request) /\ request'.stage = "cancelled"
    BY <1>1, <1>2, <1>4, <2>1, <2>3, <2>5, OrderMoved
  <2>6. CASE request' = request
    BY <1>1, <1>2, <1>3, <1>4, <2>6, OrderMoved
  <2>7. QED
    BY <1>2, <2>2, <2>4, <2>5, <2>6, ResetDone
<1>7. r = request /\ Refuse(r) => r.op # "Disconnect"
  BY <1>3 DEF Refuse, LoginRequest
<1>8. QED
  BY <1>5, <1>6, <1>7 DEF Take, Pose, PoseAgain, Grant, GrantLate, Refuse, Disconnected

\* A command is where its last reply has brought it.
LEMMA OrderNext == ASSUME Kept, Harmless, Next PROVE Order'
<1> USE DEF Kept, Order, Harmless, NoRequest, Ranges, Control, Memory, Requests, Login, Request, OneReply,
         vars, local, service, login, tunnels
<1>1. CASE Status \/ Connect \/ Disconnect \/ ConnectAgain \/ PinGiven \/ NoPin
  BY <1>1 DEF Status, Connect, Disconnect, ConnectAgain, PinGiven, NoPin, Give,
         BeginConnect, SendConnect, Return, Send
<1>2. CASE PasswordInput
  BY <1>2 DEF PasswordInput, Answer, Send
<1>3. CASE UserNameInput
  BY <1>3 DEF UserNameInput, Answer, Send
<1>4. CASE BrowserInput \/ NoInput
  BY <1>4 DEF BrowserInput, NoInput, Answer, Send
<1>5. CASE ConnectAnswered \/ DisconnectAnswered \/ ReplyLost \/ ChallengeAnswered \/ GaveUp
  BY <1>5 DEF ConnectAnswered, DisconnectAnswered, ReplyLost, ChallengeAnswered, GaveUp, Reply, Return,
         Abandon, Send
<1>6. CASE GetStatus
  BY <1>6, OneElement, ReadsOne DEF GetStatus, Return
<1>7. CASE StatusRead
  BY <1>7, OneElement, ReadsOne DEF StatusRead, Return
<1>8. CASE StatusLost
  BY <1>8 DEF StatusLost, Return
<1>9. CASE Unwind \/ PollAgain \/ ConnectTimedOut \/ Finish
  BY <1>9 DEF Unwind, PollAgain, ConnectTimedOut, Finish, Connecting
<1>10. CASE TimePasses \/ Interrupt
  BY <1>10 DEF TimePasses, Interrupt, Abandon
<1>11. ASSUME NEW r \in orphans \cup {request},
              Take(r) \/ (\E type \in MfaTypes : Pose(r, type)) \/ PoseAgain(r)
                 \/ Grant(r) \/ GrantLate(r) \/ Refuse(r) \/ Disconnected(r)
       PROVE  Order'
  BY <1>11, OrderHandled
<1>12. CASE Reported
  BY <1>12, ReportedAnswers DEF Reported
<1>13. CASE TunnelUp \/ TunnelDown \/ (\E type \in MfaTypes : PoseLate(type))
  <2>1. CASE TunnelUp
    BY <2>1 DEF TunnelUp, controllerVars
  <2>2. CASE TunnelDown
    <3>1. UNCHANGED <<pc, command, mfa_index, frames, result>>
      BY <2>2 DEF TunnelDown, controllerVars
    <3>2. /\ request'.op = request.op
          /\ IF LoginRequest(request) THEN request'.stage = "cancelled" ELSE request' = request
      BY <2>2, TunnelDownDone
    <3>3. request.stage # "none" => request'.stage # "none"
      BY <3>2
    <3>4. request.op = "Disconnect" \/ request.stage = "none" => ~LoginRequest(request)
      BY DEF LoginRequest
    <3>5. request.op = "Disconnect" => request.stage \in {"sent", "working", "Ok"}
      BY WhereRequest
    <3>6. request = NoRequest => request' = NoRequest
      BY <3>2, <3>4
    <3>7. QED
      BY <3>1, <3>2, <3>3, <3>4, <3>5, <3>6, OrderMoved
  <2>3. CASE \E type \in MfaTypes : PoseLate(type)
    BY <2>3 DEF PoseLate, Challenged, controllerVars
  <2>4. QED
    BY <1>13, <2>1, <2>2, <2>3
<1>14. QED
  BY <1>1, <1>2, <1>3, <1>4, <1>5, <1>6, <1>7, <1>8, <1>9, <1>10, <1>11, <1>12, <1>13
     DEF Next, UserInput, ControllerStep

\* What is sent leaves no reply on the stream.
LEMMA StreamKept ==
  ASSUME OneReply, pc # "status", stream' \in {stream, Closed}, pc' # "status",
         pc' = "poll" => (with_mfa' = TRUE <=> command' = "Connect"),
         pc' = "return" => result' = "Error"
  PROVE  OneReply'
<1>1. CASE stream' = stream
  BY <1>1 DEF OneReply
<1>2. CASE stream' = Closed
  <2>1. stream'.open = FALSE /\ stream'.replies = <<>> /\ stream' = [open |-> stream'.open, replies |-> stream'.replies]
    BY <1>2 DEF Closed
  <2>2. QED
    BY <2>1 DEF OneReply
<1>3. QED
  BY <1>1, <1>2

\* Commands and answers, and what becomes of them.
LEMMA OneReplySent ==
  ASSUME Kept, Status \/ Connect \/ Disconnect \/ ConnectAgain \/ UserInput \/ ReplyLost \/ ChallengeAnswered
  PROVE  OneReply'
<1> USE DEF vars, local, service, login, tunnels
<1>1. CASE Status \/ Connect \/ Disconnect \/ ConnectAgain \/ PinGiven \/ NoPin
  <2>1. stream' \in {stream, Closed} /\ pc # "status" /\ pc' # "status"
    BY <1>1 DEF Status, Connect, Disconnect, ConnectAgain, PinGiven, NoPin, Give, BeginConnect, SendConnect,
           Return, Send
  <2>2. /\ pc' = "poll" => with_mfa' = FALSE /\ command' = "Status"
        /\ pc' = "return" => result' = "Error"
    BY <1>1 DEF Status, Connect, Disconnect, ConnectAgain, PinGiven, NoPin, Give, BeginConnect, SendConnect,
           Return, Send
  <2>3. QED
    BY <2>1, <2>2, StreamKept DEF Kept
<1>2. CASE PasswordInput \/ UserNameInput \/ BrowserInput
  <2>1. /\ stream' \in {stream, Closed} /\ pc # "status" /\ pc' \in {"challenge", "return"}
        /\ pc' = "return" => result' = "Error"
    BY <1>2 DEF PasswordInput, UserNameInput, BrowserInput, Answer, Send
  <2>2. QED
    BY <2>1, StreamKept DEF Kept
<1>3. CASE NoInput
  <2>1. stream' \in {stream, Closed} /\ pc # "status" /\ pc' \in {"giveup", "return"} /\ result' = "Error"
    BY <1>3 DEF NoInput, Send
  <2>2. QED
    BY <2>1, StreamKept DEF Kept
<1>4. CASE ReplyLost \/ ChallengeAnswered
  <2>1. stream' \in {stream, Closed} /\ pc # "status" /\ pc' # "status"
    BY <1>4 DEF ReplyLost, ChallengeAnswered, Reply, Return, Send
  <2>2. /\ pc' = "poll" => with_mfa' = TRUE /\ command' = command /\ pc = "challenge"
        /\ pc' = "return" => result' = "Error"
    BY <1>4 DEF ReplyLost, ChallengeAnswered, Reply, Return, Send
  <2>3. pc' = "poll" => command' = "Connect"
    BY <2>2 DEF Kept, Order
  <2>4. QED
    BY <2>1, <2>2, <2>3, StreamKept DEF Kept
<1>5. QED
  BY <1>1, <1>2, <1>3, <1>4 DEF UserInput

\* Each poll puts one reply on the stream, which the same poll reads, or closes the stream.
LEMMA OneReplyNext == ASSUME Kept, Harmless, Next PROVE OneReply'
<1> USE DEF Kept, OneReply, Order, Ranges, Control, Memory, Requests, Login, Harmless, Report, Due, Closed,
         NoChallenge, Challenge, Replies, vars, local, service, login, tunnels
<1>1. CASE Status \/ Connect \/ Disconnect \/ ConnectAgain
  BY <1>1, OneReplySent
<1>2. CASE UserInput
  BY <1>2, OneReplySent
<1>3. CASE ReplyLost \/ ChallengeAnswered
  BY <1>3, OneReplySent
<1>4. CASE ConnectAnswered \/ DisconnectAnswered
  BY <1>4 DEF ConnectAnswered, DisconnectAnswered, Reply, Return
<1>5. CASE GaveUp
  BY <1>5 DEF GaveUp, Reply
<1>6. CASE GetStatus
  <2>1. Due \in Replies
    OBVIOUS
  <2>2. pc = "poll" /\ stream.replies = <<>> /\ UNCHANGED <<command, with_mfa>>
    BY <1>6 DEF GetStatus
  <2>3. CASE pc' = "status" /\ stream' = [open |-> TRUE, replies |-> <<Due>>]
    BY <2>1, <2>2, <2>3, OneElement
  <2>4. CASE pc' = "return" /\ stream' = Closed /\ result' = "Error"
    BY <2>2, <2>4
  <2>5. \/ pc' = "status" /\ stream' = [open |-> TRUE, replies |-> Append(stream.replies, Due)]
        \/ pc' = "return" /\ stream' = Closed /\ result' = "Error"
    BY <1>6 DEF GetStatus, Return
  <2>6. Append(stream.replies, Due) = <<Due>>
    BY <2>2, OneElement
  <2>7. QED
    BY <2>3, <2>4, <2>5, <2>6
<1>7. CASE StatusRead
  BY <1>7, OneElement, ReadsOne DEF StatusRead, Return
<1>8. CASE StatusLost
  BY <1>8 DEF StatusLost, Return
<1>9. CASE Unwind \/ PollAgain \/ ConnectTimedOut \/ Finish
  BY <1>9 DEF Unwind, PollAgain, ConnectTimedOut, Finish, Connecting
<1>10. CASE TimePasses \/ Interrupt
  BY <1>10 DEF TimePasses, Interrupt, Abandon
<1>11. ASSUME NEW r \in orphans \cup {request},
              Take(r) \/ (\E type \in MfaTypes : Pose(r, type)) \/ PoseAgain(r)
                 \/ Grant(r) \/ GrantLate(r) \/ Refuse(r) \/ Disconnected(r)
       PROVE  OneReply'
  BY <1>11 DEF Take, Pose, PoseAgain, Grant, GrantLate, Spawn, Refuse, Disconnected, ResetBy, Clear, Become, Challenged, controllerVars, LoginRequest
<1>12. CASE Reported
  BY <1>12, ReportedAnswers DEF Reported
<1>13. CASE TunnelUp \/ TunnelDown \/ (\E type \in MfaTypes : PoseLate(type))
  BY <1>13 DEF TunnelUp, TunnelDown, PoseLate, Challenged, controllerVars, Become, Clear
<1>14. QED
  BY <1>1, <1>2, <1>3, <1>4, <1>5, <1>6, <1>7, <1>8, <1>9, <1>10, <1>11, <1>12, <1>13
     DEF Next, ControllerStep

\* A handler poses a challenge to the controller that waits for it, or resets the state.
LEMMA MfaOwnedHandled ==
  ASSUME Kept, NEW r \in orphans \cup {request},
         Take(r) \/ PoseAgain(r) \/ Grant(r) \/ GrantLate(r) \/ Refuse(r) \/ Disconnected(r)
  PROVE  MfaOwned'
<1>1. UNCHANGED <<pc, command, lost, result>>
  BY DEF Take, PoseAgain, Grant, GrantLate, Spawn, Refuse, Disconnected, controllerVars, local
<1>2. SUFFICES ASSUME lost = FALSE PROVE MfaOwned'
  BY <1>1 DEF MfaOwned
<1>3. r = request /\ orphans = {} /\ request.stage # "none"
  BY <1>2 DEF Kept, MfaOwned, Take, PoseAgain, Grant, GrantLate, Refuse, Disconnected, LoginRequest
<1>4. Order /\ Requests
  BY DEF Kept, Ranges
<1>5. CASE \E s \in {"Ok", "Error"} : ResetBy(r, s) /\ status' = "Disconnected"
  <2>1. orphans' = {}
    BY <1>3, <1>4, <1>5, ResetDone
  <2>2. QED
    BY <1>5, <2>1 DEF MfaOwned
<1>6. CASE \E s \in {"working", "Ok", "Error"} : Handle(r, s)
  <2>1. orphans' = {} /\ request'.op = request.op /\ request'.stage \in {"working", "Ok", "Error"}
    BY <1>3, <1>4, <1>6, Handled
  <2>2. CASE status' # "Mfa"
    BY <2>1, <2>2 DEF MfaOwned
  <2>3. CASE status' = "Mfa" /\ request.op = "Connect"
    <3>1. pc = "connect"
      BY <1>3, <1>4, <2>3, WhereRequest
    <3>2. status = "Mfa" /\ (Take(r) \/ GrantLate(r))
      BY <1>3, <1>5, <2>3 DEF Take, PoseAgain, Grant, GrantLate, Refuse, Disconnected, Become
    <3>3. Flow
      BY <1>2, <3>1, <3>2 DEF Kept, MfaOwned
    <3>4. GrantLate(r) /\ request.stage = "cancelled"
      BY <1>3, <3>1, <3>2, <3>3 DEF Flow, Take, GrantLate
    <3>5. QED
      BY <3>2, <3>4 DEF Kept, OneLogin
  <2>4. CASE status' = "Mfa" /\ request.op = "ChallengeCode"
    <3>1. pc = "challenge" /\ command = "Connect"
      BY <1>3, <1>4, <2>4, WhereRequest
    <3>2. QED
      BY <1>1, <2>1, <3>1 DEF MfaOwned, Flow
  <2>5. CASE status' = "Mfa" /\ request.op = "Disconnect"
    <3>1. Take(r) /\ Handle(r, "working") /\ status = "Mfa"
      BY <1>3, <1>5, <2>5 DEF Take, PoseAgain, Grant, GrantLate, Refuse, Disconnected, LoginRequest, Kept, OneLogin,
             Become, Order, NoRequest
    <3>2. request'.stage = "working"
      BY <1>3, <1>4, <3>1, Handled
    <3>3. pc = "giveup"
      BY <1>2, <1>3, <1>4, <2>5, <3>1, WhereRequest DEF Kept, MfaOwned, Flow
    <3>4. QED
      BY <1>1, <2>1, <3>2, <3>3 DEF MfaOwned
  <2>6. QED
    BY <1>3, <1>4, <2>2, <2>3, <2>4, <2>5, WhereRequest
<1>7. QED
  BY <1>5, <1>6 DEF Take, PoseAgain, Grant, GrantLate, Refuse, Disconnected, Become

\* The controller that polls a login answers its challenge, or gives up, or something was lost.
LEMMA MfaOwnedNext == ASSUME Kept, Harmless, Next PROVE MfaOwned'
<1> USE DEF Kept, Ranges, MfaOwned, Order, OneLogin, Flow, OneReply, ReadsTrue, Report, Due, Harmless, vars,
         local, service, login, tunnels
<1>1. CASE Status \/ Connect \/ Disconnect \/ ConnectAgain \/ PinGiven \/ NoPin
  BY <1>1 DEF Status, Connect, Disconnect, ConnectAgain, PinGiven, NoPin, Give,
         BeginConnect, SendConnect, Return, Send
<1>2. CASE PasswordInput
  BY <1>2 DEF PasswordInput, Answer, Send
<1>3. CASE UserNameInput
  BY <1>3 DEF UserNameInput, Answer, Send
<1>4. CASE BrowserInput \/ NoInput
  BY <1>4 DEF BrowserInput, NoInput, Answer, Send
<1>5. CASE ConnectAnswered \/ DisconnectAnswered \/ ReplyLost \/ ChallengeAnswered \/ GaveUp
  BY <1>5 DEF ConnectAnswered, DisconnectAnswered, ReplyLost, ChallengeAnswered, GaveUp, Reply, Return,
         Abandon, Send
<1>6. CASE GetStatus
  BY <1>6, OneElement, ReadsOne DEF GetStatus, Return
<1>7. CASE StatusRead
  BY <1>7, OneElement, ReadsOne DEF StatusRead, Return
<1>8. CASE StatusLost
  BY <1>8 DEF StatusLost, Return
<1>9. CASE Unwind \/ PollAgain \/ ConnectTimedOut \/ Finish
  BY <1>9 DEF Unwind, PollAgain, ConnectTimedOut, Finish, Connecting
<1>10. CASE TimePasses \/ Interrupt
  BY <1>10 DEF TimePasses, Interrupt, Abandon
<1>11. ASSUME NEW r \in orphans \cup {request},
              Take(r) \/ PoseAgain(r) \/ Grant(r) \/ GrantLate(r) \/ Refuse(r) \/ Disconnected(r)
       PROVE  MfaOwned'
  BY <1>11, MfaOwnedHandled
<1>12. ASSUME NEW r \in orphans \cup {request}, \E type \in MfaTypes : Pose(r, type) PROVE MfaOwned'
  <2>1. LoginRequest(r) /\ Handle(r, "Ok") /\ UNCHANGED <<pc, command, lost, result>>
    BY <1>12 DEF Pose, Challenged, controllerVars
  <2>2. SUFFICES ASSUME lost = FALSE PROVE orphans' = {} /\ Flow' /\ pc' # "return"
    BY <2>1
  <2>3. r = request /\ orphans = {}
    BY <2>2
  <2>4. orphans' = {} /\ request'.stage = "Ok"
    BY <2>1, <2>3, Handled
  <2>5. QED
    BY <2>1, <2>3, <2>4 DEF LoginRequest, NoRequest
<1>13. CASE Reported
  BY <1>13, ReportedAnswers DEF Reported
<1>14. CASE TunnelUp \/ TunnelDown \/ (\E type \in MfaTypes : PoseLate(type))
  <2>1. CASE TunnelUp
    BY <2>1 DEF TunnelUp, controllerVars, Become
  <2>2. CASE TunnelDown
    <3>1. status' = "Disconnected" /\ lost' = lost
      BY <2>2 DEF TunnelDown, controllerVars, Become
    <3>2. QED
      BY <2>2, <3>1, TunnelDownDone
  <2>3. CASE \E type \in MfaTypes : PoseLate(type)
    <3>1. /\ UNCHANGED <<pc, command, lost, result, orphans>> /\ request.stage = "cancelled"
          /\ request' = [request EXCEPT !.stage = "Ok"]
      BY <2>3 DEF PoseLate, Challenged, controllerVars
    <3>2. pc \in {"connect", "challenge"} /\ request'.stage = "Ok"
      BY <3>1, RequestTypes DEF NoRequest, Requests
    <3>3. QED
      BY <3>1, <3>2
  <2>4. QED
    BY <1>14, <2>1, <2>2, <2>3
<1>15. QED
  BY <1>1, <1>2, <1>3, <1>4, <1>5, <1>6, <1>7, <1>8, <1>9, <1>10, <1>11, <1>12, <1>13, <1>14
     DEF Next, UserInput, ControllerStep

\* A step that puts no login to work, and none where another one waits, keeps it at one.
LEMMA OneLoginMoved ==
  ASSUME OneLogin,
         \A c \in orphans' : c \in orphans \/ (~LoginRequest(c) /\ c.stage \in {"working", "cancelled"}),
         LoginRequest(request') => request' = request,
         Flow' => Flow,
         \A c \in (orphans' \cup {request'}) : LoginRequest(c) => status' # "Disconnected",
         request'.stage = "cancelled" => status' # "Mfa" /\ pending' = FALSE
  PROVE  OneLogin'
  BY DEF OneLogin, LoginRequest

\* After a reset no login is left.
LEMMA OneLoginReset ==
  ASSUME OneLogin, status' = "Disconnected", pending' = FALSE, ~LoginRequest(request'),
         \A c \in orphans' : ~LoginRequest(c) /\ \E o \in orphans : c.op = o.op /\ (c.stage = o.stage \/ c.stage = "cancelled")
  PROVE  OneLogin'
  BY DEF OneLogin, LoginRequest

\* A request that was cancelled is one of the login that the controller follows.
LEMMA CancelledFlow == ASSUME Order, request.stage = "cancelled" PROVE Flow
  BY WhereRequest DEF Flow

\* A login is taken only when no other is at the gateway, and answered only by the controller that follows it.
LEMMA OneLoginNext == ASSUME Kept, Harmless, Next PROVE OneLogin'
<1> USE DEF Kept, Ranges, OneLogin, Order, Flow, LoginRequest, Harmless, NoRequest, vars, local, service, login, tunnels
<1>1. CASE Status \/ Connect \/ Disconnect \/ ConnectAgain \/ PinGiven \/ NoPin
  BY <1>1 DEF Status, Connect, Disconnect, ConnectAgain, PinGiven, NoPin, Give,
         BeginConnect, SendConnect, Return, Send
<1>2. CASE PasswordInput
  BY <1>2 DEF PasswordInput, Answer, Send
<1>3. CASE UserNameInput
  BY <1>3 DEF UserNameInput, Answer, Send
<1>4. CASE BrowserInput \/ NoInput
  BY <1>4 DEF BrowserInput, NoInput, Answer, Send
<1>5. CASE ConnectAnswered \/ DisconnectAnswered \/ ReplyLost \/ ChallengeAnswered \/ GaveUp
  BY <1>5 DEF ConnectAnswered, DisconnectAnswered, ReplyLost, ChallengeAnswered, GaveUp, Reply, Return,
         Abandon, Send
<1>6. CASE GetStatus
  BY <1>6, OneElement, ReadsOne DEF GetStatus, Return
<1>7. CASE StatusRead
  BY <1>7, OneElement, ReadsOne DEF StatusRead, Return
<1>8. CASE StatusLost
  BY <1>8 DEF StatusLost, Return
<1>9. CASE Unwind \/ PollAgain \/ ConnectTimedOut \/ Finish
  BY <1>9 DEF Unwind, PollAgain, ConnectTimedOut, Finish, Connecting
<1>10. CASE TimePasses \/ Interrupt
  BY <1>10 DEF TimePasses, Interrupt, Abandon
<1>11. ASSUME NEW r \in orphans \cup {request}, Take(r) PROVE OneLogin'
  <2>1. UNCHANGED <<command, pc, result>>
    BY <1>11 DEF Take, controllerVars
  <2>2. CASE r.op = "Disconnect"
    <3>1. Handle(r, "working") /\ UNCHANGED <<status, pending>> /\ r.stage = "sent"
      BY <1>11, <2>2 DEF Take
    <3>2. CASE r = request /\ orphans' = orphans /\ request'.op = "Disconnect" /\ request'.stage = "working"
      <4>1. Flow' => Flow
        BY <2>1, <2>2, <3>2 DEF Order
      <4>2. QED
        BY <3>1, <3>2, <4>1, OneLoginMoved
    <3>3. CASE request' = request /\ \A o \in orphans' : o \in orphans \/ (o.op = "Disconnect" /\ o.stage = "working")
      <4>1. Flow' => Flow
        BY <2>1, <3>3
      <4>2. QED
        BY <3>1, <3>3, <4>1, OneLoginMoved
    <3>4. \/ /\ r = request /\ orphans' = orphans /\ request'.op = r.op /\ request'.stage = "working"
          \/ /\ r \in orphans /\ request' = request
             /\ \A o \in orphans' : \/ o \in orphans /\ o # r
                                    \/ o.op = r.op /\ o.stage = "working"
      BY <3>1, Handled
    <3>5. QED
      BY <2>2, <3>2, <3>3, <3>4
  <2>3. CASE r = request /\ r.op = "Connect" /\ status = "Disconnected"
    <3>1. Handle(r, "working") /\ status' = "Connecting" /\ r \notin orphans
      BY <1>11, <2>3 DEF Take, Become
    <3>2. \A o \in orphans : ~LoginRequest(o)
      BY <2>3
    <3>3. orphans' = orphans /\ request'.stage = "working"
      BY <2>3, <3>1, Handled
    <3>4. QED
      BY <3>1, <3>2, <3>3
  <2>4. CASE r = request /\ r.op = "Connect" /\ status # "Disconnected"
    <3>1. Handle(r, "Error") /\ UNCHANGED <<status, pending>> /\ r \notin orphans
      BY <1>11, <2>4 DEF Take
    <3>2. orphans' = orphans /\ request'.stage = "Error" /\ request'.op = "Connect"
      BY <2>4, <3>1, Handled
    <3>3. Flow' => Flow
      BY <2>1, <2>4, <3>2
    <3>4. QED
      BY <3>1, <3>2, <3>3, OneLoginMoved
  <2>5. CASE r = request /\ r.op = "ChallengeCode"
    <3>1. Flow /\ r \notin orphans
      BY <1>11, <2>5, WhereRequest DEF Take
    <3>2. \A o \in orphans : ~LoginRequest(o)
      BY <3>1
    <3>3. CASE ResetBy(r, "Error") /\ status' = "Disconnected"
      BY <3>3, ResetDone, OneLoginReset
    <3>4. CASE pending = TRUE /\ Handle(r, "working") /\ UNCHANGED <<status, pending>>
      <4>1. orphans' = orphans /\ request'.stage = "working"
        BY <3>1, <3>4, Handled
      <4>2. status # "Disconnected"
        BY <3>4 DEF Counts
      <4>3. QED
        BY <3>2, <3>4, <4>1, <4>2
    <3>5. QED
      BY <1>11, <2>5, <3>3, <3>4 DEF Take, Become, Flags
  <2>6. r.stage = "sent" /\ r.op \in {"Connect", "ChallengeCode", "Disconnect"}
    BY <1>11 DEF Take
  <2>7. r # request => r.op = "Disconnect"
    BY <2>6
  <2>8. QED
    BY <2>2, <2>3, <2>4, <2>5, <2>6, <2>7
<1>12. ASSUME NEW r \in orphans \cup {request},
              (\E type \in MfaTypes : Pose(r, type)) \/ PoseAgain(r) \/ Grant(r)
       PROVE  OneLogin'
  <2>1. UNCHANGED <<command, pc, result>> /\ LoginRequest(r) /\ Handle(r, "Ok") /\ status' \in {"Mfa", "Connecting"}
    BY <1>12 DEF Pose, PoseAgain, Grant, Spawn, Challenged, controllerVars, Become
  <2>2. CASE r = request /\ orphans' = orphans /\ request'.op = r.op /\ request'.stage = "Ok"
    <3>1. Flow' => Flow
      BY <2>1, <2>2
    <3>2. QED
      BY <2>1, <2>2, <3>1, OneLoginMoved
  <2>3. CASE r \in orphans /\ request' = request /\ orphans' = orphans \ {r}
    <3>1. Flow' => Flow
      BY <2>1, <2>3
    <3>2. request.stage # "cancelled"
      BY <2>1, <2>3, CancelledFlow
    <3>3. QED
      BY <2>1, <2>3, <3>1, <3>2, OneLoginMoved
  <2>4. QED
    BY <2>1, <2>2, <2>3, Handled
<1>13. ASSUME NEW r \in orphans \cup {request}, Refuse(r) \/ Disconnected(r) PROVE OneLogin'
  <2>1. (ResetBy(r, "Error") \/ ResetBy(r, "Ok")) /\ status' = "Disconnected"
    BY <1>13 DEF Refuse, Disconnected, Become
  <2>2. QED
    BY <2>1, ResetDone, OneLoginReset
<1>14. CASE Reported
  BY <1>14, ReportedAnswers DEF Reported
<1>15. ASSUME NEW r \in orphans \cup {request}, GrantLate(r) PROVE OneLogin'
  <2>0. (status' = status /\ pending' = pending) \/ (status' = "Connecting" /\ pending' = FALSE)
    <3>1. (Become("Connecting") /\ Clear) \/ UNCHANGED <<status, since, challenge, pending>>
      BY <1>15 DEF GrantLate
    <3>2. QED
      BY <3>1 DEF Become, Clear
  <2>1. /\ UNCHANGED <<command, pc, result>> /\ r.stage = "cancelled" /\ Handle(r, "Ok")
        /\ (status' = status /\ pending' = pending) \/ (status' = "Connecting" /\ pending' = FALSE)
    BY <1>15, <2>0 DEF GrantLate, controllerVars
  <2>2. CASE r = request /\ orphans' = orphans /\ request'.op = r.op /\ request'.stage = "Ok"
    <3>1. Flow' => Flow
      BY <2>1, <2>2
    <3>2. QED
      BY <2>1, <2>2, <3>1, OneLoginMoved
  <2>3. CASE r \in orphans /\ request' = request /\ orphans' = orphans \ {r}
    <3>1. Flow' => Flow
      BY <2>1, <2>3
    <3>2. QED
      BY <2>1, <2>3, <3>1, OneLoginMoved
  <2>4. QED
    BY <2>1, <2>2, <2>3, Handled
<1>16. CASE TunnelUp \/ TunnelDown
  <2>1. CASE TunnelUp
    BY <2>1 DEF TunnelUp, controllerVars, Become
  <2>2. CASE TunnelDown
    <3>1. status' = "Disconnected"
      BY <2>2 DEF TunnelDown, Become
    <3>2. QED
      BY <2>2, <3>1, TunnelDownDone, OneLoginReset
  <2>3. QED
    BY <1>16, <2>1, <2>2
<1>17. CASE \E type \in MfaTypes : PoseLate(type)
  <2>1. /\ UNCHANGED <<pc, command, result, orphans>> /\ request.stage = "cancelled" /\ status' = "Mfa"
        /\ request' = [request EXCEPT !.stage = "Ok"]
    BY <1>17 DEF PoseLate, Challenged, controllerVars, Become
  <2>2. request'.stage = "Ok"
    BY <2>1, RequestTypes DEF Requests
  <2>3. Flow /\ \A o \in orphans : ~LoginRequest(o)
    BY <2>1, CancelledFlow
  <2>4. QED
    BY <2>1, <2>2, <2>3
<1>18. QED
  BY <1>1, <1>2, <1>3, <1>4, <1>5, <1>6, <1>7, <1>8, <1>9, <1>10, <1>11, <1>12, <1>13, <1>14, <1>15, <1>16, <1>17
     DEF Next, UserInput, ControllerStep

\* The counts stay as they are while the login goes on; it may end.
LEMMA CountsMoved ==
  ASSUME Counts, UNCHANGED <<posed, passwords>>, retried' = TRUE \/ retried' = retried,
         challenge' = NoChallenge \/ challenge' = challenge,
         status' = "Disconnected" => challenge' = NoChallenge /\ pending' = FALSE,
         Live' => Live /\ mfa_index' + Asked' = mfa_index + Asked
  PROVE  Counts'
<1>1. NoChallenge.type # "PasswordInput"
  BY DEF NoChallenge
<1>2. CASE Live'
  BY <1>1, <1>2 DEF Counts
<1>3. CASE ~Live'
  BY <1>1, <1>3 DEF Counts
<1>4. QED
  BY <1>2, <1>3

\* No step of a command changes what the service has counted.
LEMMA CountsSent ==
  ASSUME Counts, UNCHANGED <<posed, passwords, retried, challenge, status, pending>>,
         Live' => Live /\ mfa_index' + Asked' = mfa_index + Asked
  PROVE  Counts'
<1>1. status = "Disconnected" => challenge = NoChallenge /\ pending = FALSE
  BY DEF Counts
<1>2. QED
  BY <1>1, CountsMoved

\* A reset, or another login, leaves nothing to ask for but what is asked of the handler that is cancelled.
LEMMA CountsCleared ==
  ASSUME Counts, UNCHANGED <<posed, passwords, mfa_index, pc, command, result>>, retried' = TRUE \/ retried' = retried,
         challenge' = NoChallenge, pending' = FALSE, status' # "Mfa",
         \/ request' = request
         \/ request'.stage \in {"Ok", "Error"}
         \/ request'.stage = "cancelled" /\ request.stage = "working"
  PROVE  Counts'
<1>1. NoChallenge.type # "PasswordInput"
  BY DEF NoChallenge
<1>2. ASSUME Live' PROVE Live /\ Asked' = 0 /\ Asked = 0
  BY <1>1, <1>2 DEF Live, Flow, Asked
<1>3. QED
  BY <1>2, CountsMoved

\* Each password challenge is counted once by the gateway when it is posed and once by the controller when it is
\* answered.
LEMMA CountsNext == ASSUME Kept, Harmless, Next PROVE Counts'
<1> USE DEF vars, local, service, login, tunnels
<1>0. Counts /\ Order /\ Requests /\ OneLogin /\ ReadsTrue /\ OneReply /\ Flags /\ mfa_index \in Nat /\ mfa.type \in MfaTypes
  BY DEF Kept, Ranges, Memory, Challenge
<1>1. CASE Status \/ Connect \/ Disconnect \/ ConnectAgain \/ PinGiven \/ NoPin
  <2>1. UNCHANGED <<posed, passwords, retried, challenge, status, pending>>
    BY <1>1 DEF Status, Connect, Disconnect, ConnectAgain, PinGiven, NoPin, Give, BeginConnect, SendConnect,
           Return, Send
  <2>2. \/ pc' = "poll" /\ command' = "Status"
        \/ pc' \in {"pin", "disconnect"}
        \/ pc' = "connect" /\ request'.stage = "sent"
        \/ pc' = "return" /\ result' = "Error"
    BY <1>1 DEF Status, Connect, Disconnect, ConnectAgain, PinGiven, NoPin, Give, BeginConnect, SendConnect,
           Return, Send
  <2>3. ~Live'
    BY <2>2 DEF Live, Flow
  <2>4. QED
    BY <1>0, <2>1, <2>3, CountsSent
<1>2. CASE PasswordInput \/ UserNameInput \/ BrowserInput
  <2>1. UNCHANGED <<posed, passwords, retried, challenge, status, pending, command>> /\ pc = "input"
    BY <1>2 DEF PasswordInput, UserNameInput, BrowserInput
  <2>2. mfa_index' = IF mfa.type = "PasswordInput" THEN mfa_index + 1 ELSE mfa_index
    BY <1>2 DEF PasswordInput, UserNameInput, BrowserInput
  <2>3. (pc' = "challenge" /\ request'.stage = "sent") \/ (pc' = "return" /\ result' = "Error")
    <3>1. PICK text : Answer(text)
      BY <1>2 DEF PasswordInput, UserNameInput, BrowserInput
    <3>2. Send("ChallengeCode", text, mfa.nth, "challenge", result)
      BY <3>1 DEF Answer
    <3>3. QED
      BY <3>2 DEF Send
  <2>4. ASSUME Live' PROVE Live /\ mfa_index' + Asked' = mfa_index + Asked
    <3>1. request.stage = "none" /\ request'.stage = "sent" /\ command = "Connect"
      BY <1>0, <2>1, <2>3, <2>4 DEF Order, NoRequest, Live, Flow
    <3>2. status = "Mfa" \/ pending = TRUE
      BY <2>1, <2>4, <3>1 DEF Live
    <3>3. mfa = challenge
      BY <1>0, <2>1, <3>2 DEF ReadsTrue
    <3>4. Asked' = 0 /\ Asked = IF mfa.type = "PasswordInput" THEN 1 ELSE 0
      BY <2>1, <3>1, <3>3 DEF Asked
    <3>5. Live
      BY <2>1, <3>1, <3>2 DEF Live, Flow
    <3>6. QED
      BY <1>0, <2>2, <3>4, <3>5
  <2>5. QED
    BY <1>0, <2>1, <2>4, CountsSent
<1>3. CASE NoInput
  <2>1. UNCHANGED <<posed, passwords, retried, challenge, status, pending>> /\ (pc' = "giveup" \/ (pc' = "return" /\ result' = "Error"))
    BY <1>3 DEF NoInput, Send
  <2>2. ~Live'
    BY <2>1 DEF Live, Flow
  <2>3. QED
    BY <1>0, <2>1, <2>2, CountsSent
<1>4. CASE ConnectAnswered \/ ChallengeAnswered
  <2>1. UNCHANGED <<posed, passwords, retried, challenge, status, pending, mfa_index, command>>
    BY <1>4 DEF ConnectAnswered, ChallengeAnswered
  <2>2. \/ pc \in {"connect", "challenge"} /\ request.stage = "Ok" /\ pc' = "poll" /\ request' = NoRequest
        \/ pc' = "giveup"
        \/ pc' = "return" /\ result' = "Error"
    BY <1>4 DEF ConnectAnswered, ChallengeAnswered, Reply, Return, Send
  <2>3. ASSUME Live' PROVE Live /\ mfa_index' + Asked' = mfa_index + Asked
    <3>1. pc \in {"connect", "challenge"} /\ request.stage = "Ok" /\ request'.stage = "none"
      BY <2>2, <2>3 DEF Live, Flow, NoRequest
    <3>2. Asked' = Asked
      BY <2>1, <3>1 DEF Asked
    <3>3. Live
      BY <2>1, <2>3, <3>1 DEF Live, Flow
    <3>4. QED
      BY <2>1, <3>2, <3>3
  <2>4. QED
    BY <1>0, <2>1, <2>3, CountsSent
<1>5. CASE DisconnectAnswered \/ ReplyLost \/ GaveUp \/ StatusLost \/ ConnectTimedOut \/ Interrupt
  <2>1. UNCHANGED <<posed, passwords, retried, challenge, status, pending>>
    BY <1>5 DEF DisconnectAnswered, ReplyLost, GaveUp, StatusLost, ConnectTimedOut, Interrupt
  <2>2. ~Live'
    BY <1>0, <1>5 DEF DisconnectAnswered, ReplyLost, GaveUp, StatusLost, ConnectTimedOut, Interrupt, Reply, Return,
           Live, Flow, Order
  <2>3. QED
    BY <1>0, <2>1, <2>2, CountsSent
<1>6. CASE GetStatus \/ StatusRead
  <2>1. UNCHANGED <<posed, passwords, retried, challenge, status, pending, mfa_index, command, request>> /\ pc \in {"poll", "status"}
    BY <1>6 DEF GetStatus, StatusRead
  <2>2. ASSUME Live' PROVE Live /\ mfa_index' + Asked' = mfa_index + Asked
    BY <2>1, <2>2 DEF Live, Flow, Asked
  <2>3. QED
    BY <1>0, <2>1, <2>2, CountsSent
<1>7. CASE Unwind \/ PollAgain \/ Finish \/ TimePasses \/ Reported
  <2>1. UNCHANGED <<posed, passwords, retried, challenge, status, pending, mfa_index, request>>
    BY <1>7 DEF Unwind, PollAgain, Finish, TimePasses, Reported
  <2>2. Flow' => Flow
    <3>1. CASE Finish
      BY <3>1 DEF Finish, Flow
    <3>2. CASE PollAgain
      BY <3>2 DEF PollAgain, Connecting, Flow
    <3>3. CASE Unwind \/ TimePasses \/ Reported
      BY <3>3 DEF Unwind, TimePasses, Reported, Flow
    <3>4. QED
      BY <1>7, <3>1, <3>2, <3>3
  <2>3. ASSUME Live' PROVE Live /\ mfa_index' + Asked' = mfa_index + Asked
    BY <2>1, <2>2, <2>3 DEF Live, Asked
  <2>4. QED
    BY <1>0, <2>1, <2>3, CountsSent
<1>8. ASSUME NEW r \in orphans \cup {request}, Take(r) PROVE Counts'
  <2>1. UNCHANGED <<command, pc, result, mfa_index>> /\ r.stage = "sent"
    BY <1>8 DEF Take, controllerVars
  <2>2. r # request => r.op = "Disconnect"
    BY <1>0, <2>1 DEF OneLogin
  <2>3. CASE r = request /\ r.op = "Connect" /\ status = "Disconnected"
    <3>1. Handle(r, "working") /\ status' = "Connecting" /\ passwords' = 0 /\ posed' = 0 /\ UNCHANGED <<challenge, pending>>
      BY <1>8, <2>3 DEF Take, Become
    <3>2. challenge' = NoChallenge /\ pending' = FALSE
      BY <1>0, <2>3, <3>1 DEF Counts
    <3>3. mfa_index' = 0
      BY <1>0, <2>1, <2>3, WhereRequest DEF Order
    <3>4. Asked' = 0 /\ challenge'.type # "PasswordInput"
      BY <3>2 DEF Asked, NoChallenge
    <3>5. QED
      BY <3>1, <3>2, <3>3, <3>4 DEF Counts
  <2>4. CASE ResetBy(r, "Error") /\ status' = "Disconnected" /\ UNCHANGED <<posed, passwords, retried>> /\ r = request
    <3>1. challenge' = NoChallenge /\ pending' = FALSE
      BY <1>0, <2>4, ResetDone
    <3>2. \/ request' = request
          \/ request'.stage \in {"Ok", "Error"}
          \/ request'.stage = "cancelled" /\ request.stage = "working"
      BY <1>0, <2>4, ResetDone DEF LoginRequest
    <3>3. QED
      BY <1>0, <2>1, <2>4, <3>1, <3>2, CountsCleared
  <2>5. CASE UNCHANGED <<status, challenge, pending, posed, passwords, retried>>
    <3>1. CASE request' = request
      <4>1. Live' => Live /\ mfa_index' + Asked' = mfa_index + Asked
        BY <2>1, <2>5, <3>1 DEF Live, Flow, Asked
      <4>2. QED
        BY <1>0, <2>5, <4>1, CountsSent
    <3>2. CASE r = request /\ pc = "connect" /\ request'.stage = "Error"
      <4>1. ~Live'
        BY <2>1, <3>2 DEF Live, Flow
      <4>2. QED
        BY <1>0, <2>5, <4>1, CountsSent
    <3>3. CASE r = request /\ pc = "challenge" /\ request'.stage = "working" /\ pending = TRUE
      <4>1. Live /\ Asked' = Asked
        BY <1>0, <2>1, <2>5, <3>3, WhereRequest DEF Live, Flow, Asked
      <4>2. QED
        BY <1>0, <2>1, <2>5, <4>1, CountsSent
    <3>4. CASE r = request /\ pc \in {"giveup", "disconnect"}
      <4>1. ~Live'
        BY <2>1, <3>4 DEF Live, Flow
      <4>2. QED
        BY <1>0, <2>5, <4>1, CountsSent
    <3>5. r = request => pc \in {"connect", "challenge", "giveup", "disconnect"}
      BY <1>0, <2>1, WhereRequest
    <3>6. r = request /\ pc = "connect" /\ status # "Disconnected" => Handle(r, "Error")
      BY <1>0, <1>8, <2>1, WhereRequest DEF Take
    <3>7. r = request /\ pc = "challenge" => (Handle(r, "working") /\ pending = TRUE) \/ (ResetBy(r, "Error") /\ status' = "Disconnected")
      BY <1>0, <1>8, <2>1, WhereRequest DEF Take, Become, Flags
    <3>8. CASE r = request /\ pc = "connect" /\ status # "Disconnected"
      BY <1>0, <3>1, <3>2, <3>6, <3>8, Handled
    <3>9. CASE r = request /\ pc = "challenge" /\ Handle(r, "working") /\ pending = TRUE
      BY <1>0, <3>1, <3>3, <3>9, Handled
    <3>10. CASE r # request
      <4>1. Handle(r, "working")
        BY <1>8, <2>2, <3>10 DEF Take
      <4>2. QED
        BY <1>0, <3>1, <3>10, <4>1, Handled
    <3>11. QED
      BY <1>0, <2>1, <2>3, <2>4, <2>5, <3>4, <3>5, <3>7, <3>8, <3>9, <3>10, WhereRequest
  <2>6. QED
    BY <1>8, <2>2, <2>3, <2>4, <2>5 DEF Take, Become
<1>9. ASSUME NEW r \in orphans \cup {request}, PoseAgain(r) PROVE Counts'
  <2>1. /\ UNCHANGED <<command, pc, result, mfa_index, challenge, pending, passwords>> /\ LoginRequest(r) /\ Handle(r, "Ok")
        /\ posed' = posed + 1 /\ retried' = TRUE /\ status' = "Mfa" /\ r.op = "ChallengeCode"
    BY <1>9 DEF PoseAgain, controllerVars, Become
  <2>2. CASE r = request /\ request'.stage = "Ok"
    <3>1. pc = "challenge" /\ Live /\ Asked = 0 /\ Asked' \in {0, 1}
      BY <1>0, <2>1, <2>2, WhereRequest DEF Live, Flow, Asked, LoginRequest
    <3>2. mfa_index <= posed /\ passwords <= mfa_index /\ posed \in Nat /\ passwords \in Nat
      BY <1>0, <3>1 DEF Counts, Kept, Ranges, Login
    <3>3. mfa_index' + Asked' <= posed' /\ passwords' <= mfa_index' + Asked'
      <4>1. mfa_index' = mfa_index /\ posed' = posed + 1 /\ passwords' = passwords
        BY <2>1
      <4>2. mfa_index \in Nat
        BY <1>0
      <4>3. CASE Asked' = 0
        BY <3>2, <4>1, <4>2, <4>3
      <4>4. CASE Asked' = 1
        BY <3>2, <4>1, <4>2, <4>4
      <4>5. QED
        BY <3>1, <4>3, <4>4
    <3>4. challenge'.type = "PasswordInput" => challenge'.nth = passwords' /\ passwords' >= 1
      BY <1>0, <2>1 DEF Counts
    <3>5. QED
      BY <2>1, <3>3, <3>4 DEF Counts
  <2>3. CASE r \in orphans /\ request' = request
    <3>1. ~Flow'
      BY <1>0, <2>1, <2>3 DEF OneLogin, Flow
    <3>2. QED
      BY <1>0, <2>1, <3>1 DEF Counts, Live
  <2>4. QED
    BY <1>0, <2>1, <2>2, <2>3, Handled
<1>10. ASSUME NEW type \in MfaTypes, Challenged(type), pending' \in BOOLEAN,
              \/ \E r \in orphans \cup {request} : LoginRequest(r) /\ Handle(r, "Ok")
              \/ request.stage = "cancelled" /\ request' = [request EXCEPT !.stage = "Ok"]
       PROVE  Counts'
  <2>1. /\ UNCHANGED <<command, pc, result, mfa_index, retried>> /\ posed' = posed + 1 /\ status' = "Mfa"
        /\ passwords' = IF type = "PasswordInput" THEN passwords + 1 ELSE passwords
        /\ challenge' = [type |-> type, nth |-> IF type = "PasswordInput" THEN passwords + 1 ELSE 0]
    BY <1>10 DEF Challenged, controllerVars, Become
  <2>2. posed \in Nat /\ passwords \in Nat
    BY DEF Kept, Ranges, Login
  <2>3. challenge'.type = "PasswordInput" => challenge'.nth = passwords' /\ passwords' >= 1
    BY <2>1, <2>2
  <2>4. CASE request.stage \in {"working", "cancelled"} /\ request.op # "Disconnect" /\ request'.stage = "Ok"
    <3>1. Live /\ Asked = 0
      BY <1>0, <2>4, WhereRequest DEF Live, Flow, Asked
    <3>2. Asked' = IF type = "PasswordInput" THEN 1 ELSE 0
      BY <2>1, <2>4 DEF Asked
    <3>3. mfa_index <= posed /\ passwords <= mfa_index /\ (retried = FALSE => passwords = mfa_index)
      BY <1>0, <2>2, <3>1 DEF Counts
    <3>4. QED
      BY <1>0, <2>1, <2>2, <2>3, <3>2, <3>3 DEF Counts
  <2>5. CASE ~Flow /\ request' = request
    <3>1. ~Flow'
      BY <2>1, <2>5 DEF Flow
    <3>2. QED
      BY <2>1, <2>3, <3>1 DEF Counts, Live
  <2>6. CASE request.stage = "cancelled" /\ request' = [request EXCEPT !.stage = "Ok"]
    <3>1. request'.stage = "Ok" /\ request.op # "Disconnect"
      BY <1>0, <2>6, RequestTypes, WhereRequest DEF Requests
    <3>2. QED
      BY <2>4, <2>6, <3>1
  <2>7. ASSUME NEW r \in orphans \cup {request}, LoginRequest(r), Handle(r, "Ok") PROVE Counts'
    <3>1. CASE r = request /\ request'.stage = "Ok"
      BY <2>4, <2>7, <3>1 DEF LoginRequest
    <3>2. CASE r \in orphans /\ request' = request
      BY <1>0, <2>5, <2>7, <3>2 DEF OneLogin
    <3>3. QED
      BY <1>0, <2>7, <3>1, <3>2, Handled
  <2>8. QED
    BY <1>10, <2>6, <2>7
<1>11. ASSUME NEW r \in orphans \cup {request}, \E type \in MfaTypes : Pose(r, type) PROVE Counts'
  BY <1>10, <1>11 DEF Pose
<1>12. ASSUME NEW r \in orphans \cup {request}, Grant(r) PROVE Counts'
  <2>1. /\ UNCHANGED <<command, pc, result, mfa_index, posed, passwords, retried>> /\ Handle(r, "Ok")
        /\ challenge' = NoChallenge /\ pending' = FALSE /\ status' = "Connecting"
    BY <1>12 DEF Grant, Spawn, controllerVars, Become, Clear
  <2>2. QED
    BY <1>0, <2>1, Handled, CountsCleared
<1>13. ASSUME NEW r \in orphans \cup {request}, GrantLate(r) PROVE Counts'
  <2>1. UNCHANGED <<command, pc, result, mfa_index, posed, passwords, retried>> /\ Handle(r, "Ok") /\ r.stage = "cancelled"
    BY <1>13 DEF GrantLate, Spawn, controllerVars
  <2>2. request' = request \/ (r = request /\ request'.stage = "Ok")
    BY <1>0, <2>1, Handled
  <2>3. CASE challenge' = NoChallenge /\ pending' = FALSE /\ status' = "Connecting"
    BY <1>0, <2>1, <2>2, <2>3, CountsCleared
  <2>4. CASE UNCHANGED <<status, challenge, pending>>
    <3>1. ASSUME Live' PROVE Live /\ mfa_index' + Asked' = mfa_index + Asked
      <4>1. request' = request
        BY <1>0, <2>1, <2>2, <2>4, <3>1 DEF OneLogin, Live
      <4>2. QED
        BY <2>1, <2>4, <3>1, <4>1 DEF Live, Flow, Asked
    <3>2. QED
      BY <1>0, <2>1, <2>4, <3>1, CountsSent
  <2>5. QED
    BY <1>13, <2>3, <2>4 DEF GrantLate, Become, Clear
<1>14. ASSUME NEW r \in orphans \cup {request}, Refuse(r) \/ Disconnected(r) PROVE Counts'
  <2>1. /\ UNCHANGED <<command, pc, result, mfa_index, posed, passwords, retried>> /\ status' = "Disconnected"
        /\ ResetBy(r, "Error") \/ ResetBy(r, "Ok")
    BY <1>14 DEF Refuse, Disconnected, controllerVars, Become
  <2>2. /\ challenge' = NoChallenge /\ pending' = FALSE
        /\ \/ request' = request
           \/ request'.stage \in {"Ok", "Error"}
           \/ request'.stage = "cancelled" /\ request.stage = "working"
    BY <1>0, <2>1, ResetDone DEF LoginRequest
  <2>3. QED
    BY <1>0, <2>1, <2>2, CountsCleared
<1>15. CASE TunnelUp
  <2>1. UNCHANGED <<command, pc, result, mfa_index, posed, passwords, retried, challenge, pending, request>> /\ status' = "Connected"
    BY <1>15 DEF TunnelUp, controllerVars, Become
  <2>2. ASSUME Live' PROVE Live /\ mfa_index' + Asked' = mfa_index + Asked
    BY <2>1, <2>2 DEF Live, Flow, Asked
  <2>3. QED
    BY <1>0, <2>1, <2>2, CountsMoved
<1>16. CASE TunnelDown
  <2>1. UNCHANGED <<command, pc, result, mfa_index, posed, passwords, retried>> /\ status' = "Disconnected"
    BY <1>16 DEF TunnelDown, controllerVars, Become
  <2>2. /\ challenge' = NoChallenge /\ pending' = FALSE
        /\ \/ request' = request
           \/ request'.stage = "cancelled" /\ request.stage = "working"
    BY <1>0, <1>16, TunnelDownDone DEF LoginRequest
  <2>3. QED
    BY <1>0, <2>1, <2>2, CountsCleared
<1>17. CASE \E type \in MfaTypes : PoseLate(type)
  BY <1>10, <1>17 DEF PoseLate
<1>18. QED
  BY <1>1, <1>2, <1>3, <1>4, <1>5, <1>6, <1>7, <1>8, <1>9, <1>11, <1>12, <1>13, <1>14, <1>15, <1>16, <1>17
     DEF Next, UserInput, ControllerStep

\* What was read stays true while nothing else is asked.
LEMMA ReadsKept ==
  ASSUME ReadsTrue, UNCHANGED <<command, pc, mfa, mfa_index, stream>>,
         pc \in {"status", "input"} /\ command = "Connect" =>
             /\ retried' = retried
             /\ status' = "Mfa" => status = "Mfa"
             /\ status' = "Mfa" \/ pending' = TRUE => (status = "Mfa" \/ pending = TRUE) /\ challenge' = challenge,
         Order
  PROVE  ReadsTrue'
<1>1. pc = "input" => command = "Connect"
  BY DEF Order
<1>2. QED
  BY <1>1 DEF ReadsTrue, Fits

\* No step of the service changes the challenge that was read while the controller has it answered.
LEMMA ReadsTrueNext == ASSUME Kept, Harmless, Next PROVE ReadsTrue'
<1> USE DEF Kept, ReadsTrue, Fits, Order, OneReply, OneLogin, LoginRequest, Counts, Flow, Asked, Ranges,
         Control, Memory, Requests, Login, Report, Due, vars, local, service, login, tunnels
<1>1. CASE Status \/ Connect \/ Disconnect \/ ConnectAgain \/ PinGiven \/ NoPin
  BY <1>1 DEF Status, Connect, Disconnect, ConnectAgain, PinGiven, NoPin, Give,
         BeginConnect, SendConnect, Return, Send
<1>2. CASE PasswordInput
  BY <1>2 DEF PasswordInput, Answer, Send
<1>3. CASE UserNameInput
  BY <1>3 DEF UserNameInput, Answer, Send
<1>4. CASE BrowserInput \/ NoInput
  BY <1>4 DEF BrowserInput, NoInput, Answer, Send
<1>5. CASE ConnectAnswered \/ DisconnectAnswered \/ ReplyLost \/ ChallengeAnswered \/ GaveUp
  BY <1>5 DEF ConnectAnswered, DisconnectAnswered, ReplyLost, ChallengeAnswered, GaveUp, Reply, Return,
         Abandon, Send
<1>6. CASE GetStatus
  BY <1>6, OneElement, ReadsOne DEF GetStatus, Return
<1>7. CASE StatusRead
  BY <1>7, OneElement, ReadsOne DEF StatusRead, Return
<1>8. CASE StatusLost
  BY <1>8 DEF StatusLost, Return
<1>9. CASE Unwind \/ PollAgain \/ ConnectTimedOut \/ Finish
  BY <1>9 DEF Unwind, PollAgain, ConnectTimedOut, Finish, Connecting
<1>10. CASE TimePasses \/ Interrupt
  BY <1>10 DEF TimePasses, Interrupt, Abandon
<1>11. ASSUME NEW r \in orphans \cup {request}, Take(r) PROVE ReadsTrue'
  <2>1. UNCHANGED <<command, pc, mfa, mfa_index, stream>> /\ r.stage = "sent"
    BY <1>11 DEF Take, controllerVars
  <2>2. CASE r = request
    BY <2>1, <2>2, WhereRequest, ReadsKept
  <2>3. CASE r # request
    <3>1. r.op = "Disconnect"
      BY <2>1, <2>3
    <3>2. UNCHANGED <<status, challenge, pending, retried>>
      BY <1>11, <3>1 DEF Take
    <3>3. QED
      BY <2>1, <3>2, ReadsKept
  <2>4. QED
    BY <2>2, <2>3
<1>12. ASSUME NEW r \in orphans \cup {request},
              (\E type \in MfaTypes : Pose(r, type)) \/ PoseAgain(r) \/ Grant(r)
       PROVE  ReadsTrue'
  <2>1. UNCHANGED <<command, pc, mfa, mfa_index, stream>> /\ LoginRequest(r)
    BY <1>12 DEF Pose, PoseAgain, Grant, Spawn, Challenged, controllerVars
  <2>2. ~(pc \in {"status", "input"} /\ command = "Connect")
    BY <2>1, WhereRequest
  <2>3. QED
    BY <2>1, <2>2, ReadsKept
<1>13. ASSUME NEW r \in orphans \cup {request}, GrantLate(r) \/ Refuse(r) \/ Disconnected(r) PROVE ReadsTrue'
  <2>1. UNCHANGED <<command, pc, mfa, mfa_index, stream, retried>>
    BY <1>13 DEF GrantLate, Spawn, Refuse, Disconnected, controllerVars
  <2>2. \/ status' # "Mfa" /\ pending' = FALSE
        \/ UNCHANGED <<status, challenge, pending>>
    <3>1. CASE GrantLate(r)
      BY <3>1 DEF GrantLate, Become, Clear
    <3>2. CASE Refuse(r) \/ Disconnected(r)
      BY <3>2 DEF Refuse, Disconnected, Become, ResetBy, Clear
    <3>3. QED
      BY <1>13, <3>1, <3>2
  <2>3. QED
    BY <2>1, <2>2, ReadsKept
<1>14. CASE Reported
  <2>1. UNCHANGED <<command, pc, mfa, mfa_index, status, challenge, pending, retried, request>>
    BY <1>14 DEF Reported
  <2>2. pc = "status" /\ stream'.replies[1] = Report(status, challenge) /\ request.stage = "none"
    <3>1. pc = "status" /\ stream'.replies[1] = Report(status, challenge)
      BY <1>14, ReportedAnswers
    <3>2. request = NoRequest
      BY <3>1 DEF Order
    <3>3. QED
      BY <3>1, <3>2 DEF NoRequest
  <2>3. ASSUME command = "Connect", status = "Mfa" PROVE Fits(challenge)
    <3>1. CASE challenge.type = "PasswordInput"
      <4>1. Live /\ Asked = 1
        BY <2>2, <2>3, <3>1 DEF Live
      <4>2. QED
        BY <2>3, <3>1, <4>1, ControllerAssumption
    <3>2. QED
      BY <3>1
  <2>4. stream'.replies[1].kind = status /\ stream'.replies[1].challenge = challenge
    BY <2>2
  <2>5. QED
    BY <2>1, <2>2, <2>3, <2>4
<1>15. CASE TunnelUp \/ TunnelDown
  <2>1. UNCHANGED <<command, pc, mfa, mfa_index, stream, retried>> /\ status' \in {"Connected", "Disconnected"}
    BY <1>15 DEF TunnelUp, TunnelDown, controllerVars, Become
  <2>2. pending' = FALSE \/ UNCHANGED <<pending, challenge>>
    BY <1>15 DEF TunnelUp, TunnelDown, Clear
  <2>3. QED
    BY <2>1, <2>2, ReadsKept
<1>16. CASE \E type \in MfaTypes : PoseLate(type)
  <2>1. UNCHANGED <<command, pc, mfa, mfa_index, stream>> /\ request.stage = "cancelled"
    BY <1>16 DEF PoseLate, Challenged, controllerVars
  <2>2. pc \notin {"status", "input"}
    BY <2>1, WhereRequest
  <2>3. QED
    BY <2>1, <2>2, ReadsKept
<1>17. QED
  BY <1>1, <1>2, <1>3, <1>4, <1>5, <1>6, <1>7, <1>8, <1>9, <1>10, <1>11, <1>12, <1>13, <1>14, <1>15, <1>16
     DEF Next, UserInput, ControllerStep

-----------------------------------------------------------------------------
(* Secrets *)

\* What answers a password challenge without being asked for is the answer to it.
LEMMA SuppliedFits ==
  ASSUME Kept, PasswordKept, NEW n \in Secrets, NEW text \in Supplied(n)
  PROVE  /\ text \in Secrets => text = n
         /\ text = MfaCode => n # params.password_factor
<1>1. params.password_factor \in Secrets
  BY OptionTypes DEF Kept
<1>2. QED
  BY <1>1, ControllerAssumption DEF Supplied, PasswordKept

\* An answer to a password challenge of a login without a repeated challenge is the answer to that one.
LEMMA InputFits ==
  ASSUME Kept, PasswordKept, PasswordInput, retried = FALSE,
         NEW text \in IF Supplied(mfa_index + 1) # {} THEN Supplied(mfa_index + 1) ELSE {mfa.nth, NoText}
  PROVE  /\ mfa.nth = mfa_index + 1 /\ mfa.nth \in Secrets
         /\ text \in Secrets => text = mfa.nth
         /\ text = MfaCode => mfa.nth # params.password_factor
<1>1. mfa.nth = mfa_index + 1 /\ mfa.nth \in Secrets
  BY ControllerAssumption DEF PasswordInput, Kept, Ranges, Memory, Challenge, ReadsTrue, Fits, Secrets
<1>2. QED
  BY <1>1, SuppliedFits, ControllerAssumption

\* Only an input is sent as an answer, and a login starts with none.
LEMMA AnswersFitNext ==
  ASSUME Kept, Harmless, FirstFactorStored, PasswordKept, AnswersFit, Next
  PROVE  AnswersFit'
<1> USE DEF Kept, AnswersFit, Order, OneLogin, Requests, Ranges, NoRequest, vars, local, service, login, tunnels
<1>1. CASE Status \/ Connect \/ Disconnect \/ ConnectAgain \/ PinGiven \/ NoPin
  BY <1>1 DEF Status, Connect, Disconnect, ConnectAgain, PinGiven, NoPin, Give,
         BeginConnect, SendConnect, Return, Send
<1>2. CASE PasswordInput
  <2>1. PICK text \in IF Supplied(mfa_index + 1) # {} THEN Supplied(mfa_index + 1) ELSE {mfa.nth, NoText} :
            Answer(text)
    BY <1>2 DEF PasswordInput
  <2>2. CASE request' = NoRequest
    BY <2>2
  <2>3. CASE request'.op = "ChallengeCode" /\ request'.code = text /\ request'.nth = mfa.nth
    <3>1. UNCHANGED <<retried, params>>
      BY <1>2 DEF PasswordInput
    <3>2. SUFFICES ASSUME retried = FALSE PROVE AnswersFit'
      BY <3>1 DEF Flags
    <3>3. /\ mfa.nth \in Secrets
          /\ text \in Secrets => text = mfa.nth
          /\ text = MfaCode => mfa.nth # params.password_factor
      BY <1>2, <2>1, <3>2, InputFits
    <3>4. 0 \notin Secrets
      BY DEF Secrets
    <3>5. QED
      BY <2>3, <3>1, <3>3, <3>4
  <2>4. QED
    BY <2>1, <2>2, <2>3 DEF Answer, Send
<1>3. CASE UserNameInput
  <2>1. request'.op = "ChallengeCode" => request'.code \in {OtherText, NoText}
    BY <1>3 DEF UserNameInput, Answer, Send
  <2>2. QED
    BY <2>1, ControllerAssumption
<1>4. CASE BrowserInput \/ NoInput
  <2>1. request'.op = "ChallengeCode" => request'.code = OtherText
    BY <1>4 DEF BrowserInput, NoInput, Answer, Send
  <2>2. QED
    BY <2>1, ControllerAssumption
<1>5. CASE ConnectAnswered \/ DisconnectAnswered \/ ReplyLost \/ ChallengeAnswered \/ GaveUp
  BY <1>5 DEF ConnectAnswered, DisconnectAnswered, ReplyLost, ChallengeAnswered, GaveUp, Reply, Return,
         Abandon, Send
<1>6. CASE GetStatus
  BY <1>6, OneElement, ReadsOne DEF GetStatus, Return
<1>7. CASE StatusRead
  BY <1>7, OneElement, ReadsOne DEF StatusRead, Return
<1>8. CASE StatusLost
  BY <1>8 DEF StatusLost, Return
<1>9. CASE Unwind \/ PollAgain \/ ConnectTimedOut \/ Finish
  BY <1>9 DEF Unwind, PollAgain, ConnectTimedOut, Finish, Connecting
<1>10. CASE TimePasses \/ Interrupt
  BY <1>10 DEF TimePasses, Interrupt, Abandon
<1>11. ASSUME NEW r \in orphans \cup {request},
              Take(r) \/ (\E type \in MfaTypes : Pose(r, type)) \/ PoseAgain(r)
                 \/ Grant(r) \/ GrantLate(r) \/ Refuse(r) \/ Disconnected(r)
       PROVE  AnswersFit'
  <2>1. params' = params
    BY <1>11 DEF Take, Pose, PoseAgain, Grant, GrantLate, Spawn, Refuse, Disconnected, Challenged, controllerVars
  <2>2. (\E s \in {"working", "Ok", "Error"} : Handle(r, s)) \/ (\E s \in {"Ok", "Error"} : ResetBy(r, s))
    BY <1>11 DEF Take, Pose, PoseAgain, Grant, GrantLate, Refuse, Disconnected
  <2>3. request'.op = request.op /\ request'.code = request.code /\ request'.nth = request.nth
    BY <2>2, Handled, ResetDone
  <2>4. request.op # "Connect" => retried' \in {retried, TRUE}
    <3>1. CASE Take(r)
      <4>1. r.op = "Connect" => r = request
        BY <3>1 DEF Take
      <4>2. QED
        BY <3>1, <4>1 DEF Take
    <3>2. QED
      BY <1>11, <3>1 DEF Pose, PoseAgain, Grant, GrantLate, Spawn, Refuse, Disconnected, Challenged
  <2>5. QED
    BY <2>1, <2>3, <2>4
<1>12. CASE Reported
  BY <1>12, ReportedAnswers DEF Reported
<1>13. CASE TunnelUp
  BY <1>13 DEF TunnelUp, controllerVars
<1>14. CASE TunnelDown
  <2>1. UNCHANGED <<params, retried>>
    BY <1>14 DEF TunnelDown, controllerVars
  <2>2. request'.op = request.op /\ request'.code = request.code /\ request'.nth = request.nth
    BY <1>14, TunnelDownDone
  <2>3. QED
    BY <2>1, <2>2
<1>15. CASE \E type \in MfaTypes : PoseLate(type)
  <2>1. UNCHANGED <<params, retried>> /\ request' = [request EXCEPT !.stage = "Ok"]
    BY <1>15 DEF PoseLate, Challenged, controllerVars
  <2>2. request'.op = request.op /\ request'.code = request.code /\ request'.nth = request.nth
    BY <2>1, RequestTypes
  <2>3. QED
    BY <2>1, <2>2
<1>16. QED
  BY <1>1, <1>2, <1>3, <1>4, <1>5, <1>6, <1>7, <1>8, <1>9, <1>10, <1>11, <1>12, <1>13, <1>14, <1>15
     DEF Next, UserInput, ControllerStep

\* Only the first password is stored.
LEMMA PasswordKeptNext ==
  ASSUME Kept, Harmless, FirstFactorStored, PasswordKept, AnswersFit, Next
  PROVE  PasswordKept'
<1> USE DEF Kept, PasswordKept, Order, Ranges, Memory, FirstFactorStored, vars, local, service, login, tunnels
<1>1. CASE Status \/ Connect \/ Disconnect \/ ConnectAgain \/ PinGiven \/ NoPin
  BY <1>1, OptionTypes DEF Status, Connect, Disconnect, ConnectAgain, PinGiven, NoPin, Give,
         BeginConnect, SendConnect, Return, Send
<1>2. CASE PasswordInput
  <2>1. PICK text \in IF Supplied(mfa_index + 1) # {} THEN Supplied(mfa_index + 1) ELSE {mfa.nth, NoText} :
            Answer(text)
    BY <1>2 DEF PasswordInput
  <2>2. frames' = Append(frames, [type |-> mfa.type, input |-> text])
    BY <2>1 DEF Answer
  <2>3. UNCHANGED <<keychain, password_from_keychain, params>> /\ mfa_index' = mfa_index + 1
    BY <1>2 DEF PasswordInput
  <2>4. SUFFICES ASSUME params.keychain = TRUE, mfa_index' <= 1, NEW i \in 1..Len(frames'),
                        frames'[i].type = "PasswordInput"
                 PROVE  frames'[i].input \in {NoText, params.password_factor}
    BY <2>3
  <2>5. params.password_factor = 1 /\ mfa_index = 0
    BY <2>3, <2>4 DEF Flags
  <2>6. CASE i \in 1..Len(frames)
    BY <2>2, <2>4, <2>5, <2>6
  <2>7. CASE i = Len(frames) + 1
    <3>1. frames'[i].input = text
      BY <2>2, <2>7
    <3>2. mfa.nth = 1
      BY <1>2, <2>5 DEF PasswordInput, ReadsTrue, Fits, Challenge
    <3>3. Supplied(1) \subseteq {params.password_factor}
      BY <2>5 DEF Supplied
    <3>4. QED
      BY <2>1, <2>5, <3>1, <3>2, <3>3
  <2>8. QED
    BY <2>2, <2>6, <2>7
<1>3. CASE UserNameInput
  BY <1>3, OptionTypes DEF UserNameInput, Answer, Send
<1>4. CASE BrowserInput \/ NoInput
  <2>1. CASE BrowserInput
    BY <2>1 DEF BrowserInput, Answer
  <2>2. CASE NoInput
    <3>1. /\ UNCHANGED <<keychain, password_from_keychain, params, frames>>
          /\ mfa_index' \in {mfa_index, mfa_index + 1}
      BY <2>2 DEF NoInput
    <3>2. QED
      BY <3>1
  <2>3. QED
    BY <1>4, <2>1, <2>2
<1>5. CASE ConnectAnswered \/ DisconnectAnswered \/ ReplyLost \/ ChallengeAnswered \/ GaveUp
  BY <1>5, OptionTypes DEF ConnectAnswered, DisconnectAnswered, ReplyLost, ChallengeAnswered, GaveUp, Reply,
         Return, Abandon, Send
<1>6. CASE GetStatus
  BY <1>6, OptionTypes, OneElement, ReadsOne DEF GetStatus, Return
<1>7. CASE StatusRead
  BY <1>7, OptionTypes, OneElement, ReadsOne DEF StatusRead, Return
<1>8. CASE StatusLost
  BY <1>8, OptionTypes DEF StatusLost, Return
<1>9. CASE Unwind \/ PollAgain \/ ConnectTimedOut \/ Finish
  <2>1. CASE Unwind
    <3>1. Len(frames) \in Nat \ {0}
      BY <2>1, AllButLast DEF Unwind
    <3>2. UNCHANGED <<password_from_keychain, params, mfa_index>>
      BY <2>1 DEF Unwind
    <3>3. keychain' \in {NoText, params.password_factor}
      <4>1. CASE Last.type = "PasswordInput" /\ mfa_index = params.password_factor /\ params.keychain
        <5>1. mfa_index <= 1
          BY <4>1 DEF Flags
        <5>2. Last.input \in {NoText, params.password_factor}
          BY <3>1, <4>1, <5>1 DEF Last
        <5>3. QED
          BY <2>1, <5>2 DEF Unwind
      <4>2. QED
        BY <2>1, <4>1 DEF Unwind
    <3>4. /\ Len(frames') = Len(frames) - 1
          /\ \A i \in 1..(Len(frames) - 1) : frames'[i] = frames[i]
      BY <2>1, AllButLast DEF Unwind
    <3>5. QED
      BY <3>1, <3>2, <3>3, <3>4
  <2>2. CASE PollAgain \/ ConnectTimedOut \/ Finish
    BY <2>2 DEF PollAgain, ConnectTimedOut, Finish
  <2>3. QED
    BY <1>9, <2>1, <2>2
<1>10. CASE TimePasses \/ Interrupt
  BY <1>10, OptionTypes DEF TimePasses, Interrupt, Abandon
<1>11. ASSUME NEW r \in orphans \cup {request},
              Take(r) \/ (\E type \in MfaTypes : Pose(r, type)) \/ PoseAgain(r)
                 \/ Grant(r) \/ GrantLate(r) \/ Refuse(r) \/ Disconnected(r)
       PROVE  PasswordKept'
  BY <1>11, OptionTypes, Handled DEF Take, Pose, PoseAgain, Grant, GrantLate, Spawn, Refuse, Disconnected, ResetBy, Clear, Become, Challenged,
         controllerVars, LoginRequest
<1>12. CASE Reported
  BY <1>12, OptionTypes, ReportedAnswers DEF Reported
<1>13. CASE TunnelUp \/ TunnelDown \/ (\E type \in MfaTypes : PoseLate(type))
  BY <1>13, OptionTypes DEF TunnelUp, TunnelDown, PoseLate, Challenged, controllerVars, Become, Clear
<1>14. QED
  BY <1>1, <1>2, <1>3, <1>4, <1>5, <1>6, <1>7, <1>8, <1>9, <1>10, <1>11, <1>12, <1>13
     DEF Next, UserInput, ControllerStep

-----------------------------------------------------------------------------
(* The invariants hold *)

\* Before the first command nothing is on its way and nothing is remembered but what the keychain holds.
LEMMA KeptInit == Init => Kept
<1> SUFFICES ASSUME Init PROVE Kept
  OBVIOUS
<1>1. params.password_factor \in Secrets
  BY ControllerAssumption DEF Init, OptionType
<1>2. Flags /\ Requests
  BY RequestTypes DEF Init, Flags, Requests
<1>3. Control
  BY ControllerAssumption DEF Init, Control
<1>4. Memory
  BY <1>1, ControllerAssumption, EmptySeq DEF Init, Memory, Texts, NoChallenge, Challenge, MfaTypes
<1>5. Login
  BY ControllerAssumption DEF Init, Login, Statuses, NoChallenge, Challenge, MfaTypes
<1>6. Order /\ OneReply /\ OneLogin
  BY DEF Init, Order, OneReply, OneLogin, LoginRequest, NoRequest, Closed
<1>7. Counts /\ ReadsTrue /\ MfaOwned /\ Past
  BY DEF Init, Counts, Live, Flow, ReadsTrue, MfaOwned, Past, NoChallenge, Statuses
<1>8. QED
  BY <1>2, <1>3, <1>4, <1>5, <1>6, <1>7 DEF Kept, Ranges

\* Every step keeps every part.
LEMMA KeptNext == Harmless /\ Kept /\ [Next]_vars => Kept'
<1> SUFFICES ASSUME Harmless, Kept, [Next]_vars PROVE Kept'
  OBVIOUS
<1>1. CASE Next
  BY <1>1, FlagsNext, ControlNext, MemoryNext, RequestsNext, LoginNext, OrderNext, OneReplyNext, OneLoginNext,
     CountsNext, ReadsTrueNext, MfaOwnedNext, PastNext DEF Kept, Ranges
<1>2. CASE UNCHANGED vars
  <2> USE <1>2 DEF vars, local, service, login, tunnels, Kept
  <2>1. Flags' /\ Ranges'
    BY DEF Flags, Ranges, Control, Memory, Requests, Login
  <2>2. Order' /\ OneReply' /\ Past'
    BY DEF Order, OneReply, Past
  <2>3. OneLogin' /\ MfaOwned'
    BY DEF OneLogin, LoginRequest, Flow, MfaOwned
  <2>4. Counts' /\ ReadsTrue'
    BY DEF Live, Flow, Counts, Asked, ReadsTrue, Fits
  <2>5. QED
    BY <2>1, <2>2, <2>3, <2>4
<1>3. QED
  BY <1>1, <1>2

\* They hold at every step of every behaviour.
LEMMA KeptAlways == Harmless => (Spec => []Kept)
<1> SUFFICES ASSUME Harmless PROVE Spec => []Kept
  OBVIOUS
<1>1. Kept /\ [Next]_vars => Kept'
  BY KeptNext
<1>2. QED
  BY <1>1, KeptInit, PTL DEF Spec

\* Kept implies the types.
LEMMA KeptTyped == Kept => TypeOK
<1> SUFFICES ASSUME Kept PROVE TypeOK
  OBVIOUS
<1>1. stream.open \in BOOLEAN
  BY DEF Kept, OneReply
<1>2. stream.replies \in Seq([kind : Statuses \cup {"due"}, challenge : Challenge])
  <2>1. Replies \subseteq [kind : Statuses \cup {"due"}, challenge : Challenge]
    BY ControllerAssumption DEF Replies, Due, Report, NoChallenge, Challenge, MfaTypes
  <2>2. CASE pc = "status"
    <3>1. stream.replies[1] \in [kind : Statuses \cup {"due"}, challenge : Challenge]
      BY <2>1, <2>2 DEF Kept, OneReply
    <3>2. <<stream.replies[1]>> \in Seq([kind : Statuses \cup {"due"}, challenge : Challenge])
      BY <3>1
    <3>3. QED
      BY <2>2, <3>2 DEF Kept, OneReply
  <2>3. CASE pc # "status"
    BY <2>3, EmptySeq DEF Kept, OneReply
  <2>4. QED
    BY <2>2, <2>3
<1>3. QED
  BY <1>1, <1>2 DEF Kept, Flags, Ranges, Control, Memory, Requests, Login, Past, TypeOK

\* What a command returns is read from the service, or tells that something was lost.
LEMMA KeptTrue == Kept => ResultsTrue
  BY DEF Kept, Flags, Past, MfaOwned, Flow, Order, ResultsTrue

\* A login starts with no answer, and with what the keychain holds.
LEMMA SecretsInit == Init => PasswordKept /\ AnswersFit
  BY EmptySeq DEF Init, PasswordKept, AnswersFit, NoRequest

\* With one secret per factor, and the first one in the keychain, every step keeps the answers apart.
LEMMA SecretsNext ==
  Harmless /\ FirstFactorStored /\ Kept /\ PasswordKept /\ AnswersFit /\ [Next]_vars =>
      (PasswordKept /\ AnswersFit)'
<1> SUFFICES ASSUME Harmless, FirstFactorStored, Kept, PasswordKept, AnswersFit, [Next]_vars
             PROVE  (PasswordKept /\ AnswersFit)'
  OBVIOUS
<1>1. CASE Next
  BY <1>1, PasswordKeptNext, AnswersFitNext
<1>2. CASE UNCHANGED vars
  BY <1>2 DEF vars, local, service, login, tunnels, PasswordKept, AnswersFit
<1>3. QED
  BY <1>1, <1>2

-----------------------------------------------------------------------------
(* Theorems *)

\* The variables of the controller and of the service keep their types: the index of the secrets and the
\* challenges that are counted at the other end of the socket never exceed what one login can pose.
THEOREM ControllerTypes == Harmless => (Spec => []TypeOK)
<1> SUFFICES ASSUME Harmless PROVE Spec => []TypeOK
  OBVIOUS
<1>1. QED
  BY KeptAlways, KeptTyped, PTL

\* The status that a Disconnect returns is that of the service, and a command that fails without a lost
\* request or reply leaves no login waiting for a code.
THEOREM ResultsAreTrue == Harmless => (Spec => []ResultsTrue)
<1> SUFFICES ASSUME Harmless PROVE Spec => []ResultsTrue
  OBVIOUS
<1>1. QED
  BY KeptAlways, KeptTrue, PTL

\* When the keychain is used for the first factor, the n-th password challenge gets the n-th secret and the
\* keychain stores nothing but the password.
THEOREM SecretsReachTheirFactor == Harmless /\ FirstFactorStored => (Spec => []SecretsFit)
<1> SUFFICES ASSUME Harmless, FirstFactorStored PROVE Spec => []SecretsFit
  OBVIOUS
<1>1. Spec => []Kept
  BY KeptAlways
<1>2. Kept /\ PasswordKept /\ AnswersFit /\ [Next]_vars => (PasswordKept /\ AnswersFit)'
  BY SecretsNext
<1>3. PasswordKept /\ AnswersFit => SecretsFit
  BY DEF PasswordKept, SecretsFit, KeychainHoldsPassword
<1>4. QED
  BY <1>1, <1>2, <1>3, SecretsInit, PTL DEF Spec

=============================================================================
