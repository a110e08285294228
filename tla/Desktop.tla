------------------------------ MODULE Desktop -------------------------------
(***************************************************************************)
(* The graphical front end: the tray icon and its menu, the loop that      *)
(* handles tray events, the task each Connect or Disconnect spawns, the    *)
(* loop that polls the service once a second, the prompt and the status    *)
(* windows.  All of them run side by side.                                 *)
(*                                                                         *)
(* The service is seen through the requests of the controllers: a request  *)
(* is one step, in which the service has served it and the answer is back  *)
(* (ServiceController has the steps between).  What one task reads and     *)
(* another changes before the first one uses it is kept: every answer is   *)
(* posted to the tray in a later step.  The service is also changed by the *)
(* gateway, by other programs, and by its own end and restart.             *)
(*                                                                         *)
(* Profiles are left out (Profiles has their store): a Connect is for a    *)
(* profile, or for one that is in the store no longer.  The settings and   *)
(* about windows only open and close.                                      *)
(***************************************************************************)
EXTENDS Integers, Sequences, FiniteSets

CONSTANTS
    Remote,      \* commands given on the command line: to this instance at its start, to it by others later
    AutoConnect, \* the auto-connect option of the profile
    NoTray,      \* --no-tray: there is only the status window, and closing it ends the program
    Capacity,    \* of the channel of tray commands; 16 in the code
    MaxTasks,    \* bound: Connects and Disconnects handled
    MaxClicks,   \* bound: commands, those of the user and the one of auto-connect
    MaxChanges   \* bound: changes of the service that no request of this program asked for

Events == {"connect", "connectRemoved", "disconnect", "status", "exit"}
Statuses == {"Disconnected", "Connecting", "Mfa", "Connected", "Error"}

ASSUME DesktopAssumption ==
    /\ Remote \subseteq {"connect", "disconnect", "status", "exit"}
    /\ AutoConnect \in BOOLEAN /\ NoTray \in BOOLEAN
    /\ Capacity \in Nat \ {0} /\ MaxTasks \in Nat /\ MaxClicks \in Nat \ {0} /\ MaxChanges \in Nat

VARIABLES
    events,       \* how many of each event are on their way to handle_tray_events, from spawned senders
    cancelSender, \* the task whose cancel channel handle_tray_events has the sender of, or 0
    tasks,        \* on_connect and on_disconnect tasks, in the order they were spawned
    opening,      \* tasks whose prompt window waits for the event loop of the windows
    prompt,       \* the task the prompt window on the screen belongs to, or 0
    updates,      \* the channel of tray commands
    tray,         \* AppTray.status
    poll,         \* status_poll: its old_status, whether it reads or posts, and first_run
    window,       \* what the status window shows, or "closed"
    service,      \* the status of the service; "Error" if it does not answer
    program,      \* "running", "leaving" after Exit, or "ended"
    clicks,       \* history: commands given
    changes       \* history: changes of the service nobody here asked for

dispatch == <<events, cancelSender>>
screen == <<opening, prompt, window>>
icon == <<updates, tray>>
history == <<clicks, changes>>
vars == <<dispatch, tasks, screen, icon, poll, service, program, history>>

-----------------------------------------------------------------------------
(* Values *)

\* "start" to "refused": on_connect; "leave": on_disconnect; the others both
Phases == {"start", "info", "login", "wait", "asked", "answered", "refused", "leave", "query", "post", "cancel", "done"}
Task == [phase : Phases, status : Statuses, holds : 0..MaxTasks, connects : BOOLEAN]

ConnectTask == [phase |-> "start", status |-> "Connecting", holds |-> 0, connects |-> TRUE]
DisconnectTask(sender) == [phase |-> "leave", status |-> "Error", holds |-> sender, connects |-> FALSE]

Ended(i) == [tasks[i] EXCEPT !.phase = "done", !.status = "Error", !.holds = 0]
Active(i) == tasks[i].phase # "done"
\* The cancel channel of task i has a message or has lost its senders: its receive returns.
Cancelled(i) == cancelSender # i /\ \A j \in DOMAIN tasks : tasks[j].holds # i

TypeOK ==
    /\ events \in [Events -> 0..(MaxClicks + 2)]
    /\ tasks \in Seq(Task) /\ Len(tasks) <= MaxTasks
    /\ cancelSender \in 0..Len(tasks)
    /\ opening \subseteq DOMAIN tasks /\ prompt \in 0..Len(tasks)
    /\ updates \in Seq(Statuses) /\ Len(updates) <= Capacity
    /\ tray \in Statuses
    /\ poll \in [old : Statuses \cup {"none"}, phase : {"ask", "post"}, firstRun : BOOLEAN]
    /\ window \in Statuses \cup {"closed", "blank"}
    /\ service \in Statuses /\ program \in {"running", "leaving", "ended"}
    /\ clicks \in 0..(MaxClicks + 1) /\ changes \in 0..MaxChanges

Init ==
    /\ \E command \in {"none"} \cup Remote :
           events = [e \in Events |-> IF e = command \/ (NoTray /\ command = "none" /\ e = "status") THEN 1 ELSE 0]
    /\ cancelSender = 0 /\ tasks = <<>>
    /\ opening = {} /\ prompt = 0 /\ window = "closed"
    /\ updates = <<>> /\ tray = "Error"
    /\ poll = [old |-> "none", phase |-> "ask", firstRun |-> TRUE]
    /\ service \in {"Disconnected", "Connected"}
    /\ program = "running" /\ changes = 0
    /\ clicks = Cardinality({e \in Remote : events[e] > 0})

-----------------------------------------------------------------------------
(* Commands of the user *)

TrayMenu ==
    IF NoTray THEN {}
    ELSE {"status", "exit"} \cup IF tray = "Disconnected" THEN {"connect", "connectRemoved"} ELSE {"disconnect"}

StatusButtons ==
    CASE window = "Disconnected" -> {"connect", "connectRemoved"}
      [] window \in {"Connected", "Connecting", "Mfa"} -> {"disconnect"}
      [] OTHER -> {}

\* While auto-connect may still come, the bound keeps a place for it.
Reserved == IF AutoConnect /\ poll.firstRun THEN 1 ELSE 0

Click ==
    /\ program = "running" /\ clicks + Reserved < MaxClicks
    /\ \E e \in TrayMenu \cup StatusButtons \cup Remote : events' = [events EXCEPT ![e] = @ + 1]
    /\ clicks' = clicks + 1
    /\ UNCHANGED <<cancelSender, tasks, screen, icon, poll, service, program, changes>>

\* Its poll loop and the loop that shows what it sends: the window has what was read last.
WindowPolls ==
    /\ program # "ended" /\ window # "closed"
    /\ window' = service
    /\ UNCHANGED <<dispatch, tasks, opening, prompt, icon, poll, service, program, history>>

CloseStatusWindow ==
    /\ program = "running" /\ window # "closed"
    /\ window' = "closed"
    /\ events' = [events EXCEPT !["exit"] = IF NoTray THEN @ + 1 ELSE @]
    /\ events["exit"] = 0
    /\ UNCHANGED <<cancelSender, tasks, opening, prompt, icon, poll, service, program, history>>

-----------------------------------------------------------------------------
(* handle_tray_events *)

Take(e) ==
    /\ program = "running" /\ events[e] > 0
    /\ events' = [events EXCEPT ![e] = @ - 1]

\* Mutant of HandleConnect: the sender of the attempt before is kept as long as there is one.
HandleConnectKeepsSender ==
    /\ Take("connect") /\ Len(tasks) < MaxTasks
    /\ tasks' = Append(tasks, ConnectTask)
    /\ cancelSender' = IF cancelSender = 0 THEN Len(tasks') ELSE cancelSender
    /\ UNCHANGED <<screen, icon, poll, service, program, history>>

\* The sender of the attempt before is dropped, which cancels that one.
HandleConnect ==
    /\ Take("connect") /\ Len(tasks) < MaxTasks
    /\ tasks' = Append(tasks, ConnectTask)
    /\ cancelSender' = Len(tasks')
    /\ UNCHANGED <<screen, icon, poll, service, program, history>>

HandleConnectRemoved ==
    /\ Take("connectRemoved")
    /\ cancelSender' = 0
    /\ UNCHANGED <<tasks, screen, icon, poll, service, program, history>>

HandleDisconnect ==
    /\ Take("disconnect") /\ Len(tasks) < MaxTasks
    /\ tasks' = Append(tasks, DisconnectTask(cancelSender))
    /\ cancelSender' = 0
    /\ UNCHANGED <<screen, icon, poll, service, program, history>>

HandleStatus ==
    /\ Take("status")
    /\ window' = IF window = "closed" THEN "blank" ELSE window
    /\ UNCHANGED <<cancelSender, tasks, opening, prompt, icon, poll, service, program, history>>

\* The end of a prompt window without an answer: the sender is dropped with it.
Refuse(i) == [tasks EXCEPT ![i].phase = IF @ = "asked" THEN "refused" ELSE @]

HandleExit ==
    /\ Take("exit")
    /\ tasks' = IF prompt = 0 THEN tasks ELSE Refuse(prompt)
    /\ prompt' = 0 /\ window' = "closed"
    /\ program' = "leaving"
    /\ UNCHANGED <<cancelSender, opening, icon, poll, service, history>>

\* main returns, and with the runtime all tasks are gone.
Quit ==
    /\ program = "leaving"
    /\ program' = "ended"
    /\ tasks' = [i \in DOMAIN tasks |-> Ended(i)]
    /\ events' = [e \in Events |-> 0] /\ cancelSender' = 0 /\ updates' = <<>>
    /\ opening' = {} /\ prompt' = 0 /\ window' = "closed"
    /\ UNCHANGED <<tray, poll, service, history>>

-----------------------------------------------------------------------------
(* on_connect and on_disconnect *)

\* Mutant of Post: the channel has no bound.
PostUnbounded(status) ==
    IF program = "leaving" THEN UNCHANGED updates
    ELSE program = "running" /\ updates' = Append(updates, status)

\* Sends to the tray wait while the channel is full; after Exit nobody receives and they fail.
Post(status) ==
    IF program = "leaving" THEN UNCHANGED updates
    ELSE /\ program = "running" /\ Len(updates) < Capacity
         /\ updates' = Append(updates, status)

Announce(i) ==
    /\ tasks[i].phase = "start"
    /\ Post("Connecting")
    /\ tasks' = [tasks EXCEPT ![i].phase = "info"]
    /\ UNCHANGED <<dispatch, screen, tray, poll, service, program, history>>

\* get_gateway_information, which no cancellation interrupts and no time-out ends once the headers are there
GatewayAnswers(i) ==
    /\ tasks[i].phase = "info"
    /\ \/ tasks' = [tasks EXCEPT ![i].phase = "login"]
       \/ tasks' = [tasks EXCEPT ![i].phase = "post", ![i].status = "Disconnected"]
    /\ UNCHANGED <<dispatch, screen, icon, poll, service, program, history>>

\* The service takes a Connect only when it is disconnected.
Login(i) ==
    /\ tasks[i].phase = "login"
    /\ IF service = "Disconnected"
       THEN service' = "Connecting" /\ tasks' = [tasks EXCEPT ![i].phase = "wait"]
       ELSE UNCHANGED service /\ tasks' = [tasks EXCEPT ![i].phase = "query"]
    /\ UNCHANGED <<dispatch, screen, icon, poll, program, history>>

\* process_mfa_request: the window is asked for, and the task waits for its answer.
AskUser(i) ==
    /\ tasks[i].phase = "wait" /\ service = "Mfa"
    /\ tasks' = [tasks EXCEPT ![i].phase = "asked"]
    /\ opening' = opening \cup {i}
    /\ UNCHANGED <<dispatch, prompt, window, icon, poll, service, program, history>>

\* The status polled is final, or the answer to the Connect is an error, or it is late.
WaitEnds(i) ==
    /\ tasks[i].phase = "wait"
    /\ \/ /\ service \in {"Connected", "Disconnected"}
          /\ tasks' = [tasks EXCEPT ![i].phase = "post", ![i].status = service]
       \/ tasks' = [tasks EXCEPT ![i].phase = "query"]
    /\ UNCHANGED <<dispatch, screen, icon, poll, service, program, history>>

\* A ChallengeCode with no challenge pending fails, and resets the service.
Answer(i) ==
    /\ tasks[i].phase = "answered"
    /\ CASE service = "Mfa" -> service' = "Connecting" /\ tasks' = [tasks EXCEPT ![i].phase = "wait"]
         [] service = "Error" -> UNCHANGED service /\ tasks' = [tasks EXCEPT ![i].phase = "query"]
         [] OTHER -> service' = "Disconnected" /\ tasks' = [tasks EXCEPT ![i].phase = "refused"]
    /\ UNCHANGED <<dispatch, screen, icon, poll, program, history>>

\* No input, or a wrong one: the controller disconnects, and Connect ends with the error.
GiveUp(i) ==
    /\ tasks[i].phase = "refused"
    /\ service' = IF service = "Error" THEN service ELSE "Disconnected"
    /\ tasks' = [tasks EXCEPT ![i].phase = "query"]
    /\ UNCHANGED <<dispatch, screen, icon, poll, program, history>>

\* The select of on_connect: the controller's future is dropped where it is, its window stays.
Cancel(i) ==
    /\ tasks[i].phase \in {"login", "wait", "asked", "answered", "refused"} /\ Cancelled(i)
    /\ tasks' = [tasks EXCEPT ![i].phase = "query"]
    /\ UNCHANGED <<dispatch, screen, icon, poll, service, program, history>>

Leave(i) ==
    /\ tasks[i].phase = "leave"
    /\ \/ /\ service # "Error"
          /\ service' = "Disconnected" /\ tasks' = [tasks EXCEPT ![i].phase = "query"]
       \/ /\ service' = IF service = "Error" THEN service ELSE "Disconnected" \* the reply is late
          /\ tasks' = [tasks EXCEPT ![i].phase = "post", ![i].status = "Error"]
    /\ UNCHANGED <<dispatch, screen, icon, poll, program, history>>

Query(i) ==
    /\ tasks[i].phase = "query"
    /\ tasks' = [tasks EXCEPT ![i].phase = "post", ![i].status = service]
    /\ UNCHANGED <<dispatch, screen, icon, poll, service, program, history>>

Report(i) ==
    /\ tasks[i].phase = "post"
    /\ Post(tasks[i].status)
    /\ tasks' = [tasks EXCEPT ![i] = IF @.connects THEN Ended(i) ELSE [@ EXCEPT !.phase = "cancel"]]
    /\ UNCHANGED <<dispatch, screen, tray, poll, service, program, history>>

\* Only now does on_disconnect cancel the attempt, by a message and by dropping the sender.
SendCancel(i) ==
    /\ tasks[i].phase = "cancel"
    /\ tasks' = [tasks EXCEPT ![i] = Ended(i)]
    /\ UNCHANGED <<dispatch, screen, icon, poll, service, program, history>>

OwnStep(i) ==
    \/ Announce(i) \/ Login(i) \/ AskUser(i) \/ WaitEnds(i) \/ Answer(i) \/ GiveUp(i)
    \/ Cancel(i) \/ Leave(i) \/ Query(i) \/ Report(i) \/ SendCancel(i)

Step(i) == OwnStep(i) \/ GatewayAnswers(i)

-----------------------------------------------------------------------------
(* The prompt window: there is one at a time *)

\* If there is one already, the closure that would make the other is dropped, and its sender too.
OpenPrompt ==
    \E i \in opening :
        /\ opening' = opening \ {i}
        /\ IF prompt = 0 THEN prompt' = i /\ UNCHANGED tasks
                         ELSE tasks' = Refuse(i) /\ UNCHANGED prompt
        /\ UNCHANGED <<dispatch, window, icon, poll, service, program, history>>

\* The text goes to whoever still waits for it.
Ok ==
    /\ prompt # 0 /\ program = "running"
    /\ tasks' = [tasks EXCEPT ![prompt].phase = IF @ = "asked" THEN "answered" ELSE @]
    /\ prompt' = 0
    /\ UNCHANGED <<dispatch, opening, window, icon, poll, service, program, history>>

\* Mutant of ClosePrompt: a window that is closed is only hidden.
HidePrompt ==
    /\ prompt # 0 /\ program = "running"
    /\ prompt' = 0
    /\ UNCHANGED <<dispatch, tasks, opening, window, icon, poll, service, program, history>>

ClosePrompt ==
    /\ prompt # 0 /\ program = "running"
    /\ tasks' = Refuse(prompt)
    /\ prompt' = 0
    /\ UNCHANGED <<dispatch, opening, window, icon, poll, service, program, history>>

-----------------------------------------------------------------------------
(* The poll loop and the tray *)

PollReads ==
    /\ poll.phase = "ask" /\ program # "ended"
    /\ service # poll.old \* same_status
    /\ poll' = [poll EXCEPT !.old = service, !.phase = "post"]
    /\ UNCHANGED <<dispatch, tasks, screen, icon, service, program, history>>

\* With the first status auto-connect is decided.
PollPosts ==
    /\ poll.phase = "post"
    /\ Post(poll.old)
    /\ poll' = [poll EXCEPT !.phase = "ask", !.firstRun = FALSE]
    /\ LET connects == IF poll.firstRun /\ AutoConnect /\ poll.old = "Disconnected" THEN 1 ELSE 0
       IN  events' = [events EXCEPT !["connect"] = @ + connects] /\ clicks' = clicks + connects
    /\ UNCHANGED <<cancelSender, tasks, screen, tray, service, program, changes>>

TrayShows ==
    /\ updates # <<>> /\ program = "running"
    /\ tray' = Head(updates) /\ updates' = Tail(updates)
    /\ UNCHANGED <<dispatch, tasks, screen, poll, service, program, history>>

-----------------------------------------------------------------------------
(* The service *)

\* A login goes on at the gateway and ends: with a challenge, a tunnel or a failure.
LoginGoesOn ==
    /\ service = "Connecting" /\ program # "ended"
    /\ service' \in {"Mfa", "Connected", "Disconnected"}
    /\ changes < MaxChanges \/ service' = "Disconnected"
    /\ changes' = IF service' = "Disconnected" THEN changes ELSE changes + 1
    /\ UNCHANGED <<dispatch, tasks, screen, icon, poll, program, clicks>>

\* The tunnel ends; another program connects or disconnects; the service stops or starts.
ServiceChanges ==
    /\ changes < MaxChanges /\ program # "ended"
    /\ \/ service = "Connected" /\ service' \in {"Disconnected", "Error"}
       \/ service = "Disconnected" /\ service' \in {"Connected", "Error"}
       \/ service = "Error" /\ service' = "Disconnected"
    /\ changes' = changes + 1
    /\ UNCHANGED <<dispatch, tasks, screen, icon, poll, program, clicks>>

-----------------------------------------------------------------------------

Handle == HandleConnect \/ HandleConnectRemoved \/ HandleDisconnect \/ HandleStatus \/ HandleExit \/ Quit
Background == OpenPrompt \/ PollReads \/ PollPosts \/ TrayShows \/ WindowPolls
User == Click \/ CloseStatusWindow \/ Ok \/ ClosePrompt

Next ==
    \/ User \/ Handle \/ Background
    \/ \E i \in DOMAIN tasks : Step(i)
    \/ LoginGoesOn \/ ServiceChanges

Spec == Init /\ [][Next]_vars

\* Spawned tasks, the handler, the event loop of the windows and the tray run whenever they can, and
\* the requests of the controllers have time-outs.  The gateway's answer to get_gateway_information has
\* none (gateway.rs:254-258), and nobody is owed an answer of the user.
Fairness ==
    /\ WF_vars(Handle) /\ WF_vars(OpenPrompt) /\ WF_vars(PollReads) /\ WF_vars(PollPosts) /\ WF_vars(TrayShows)
    /\ \A i \in 1..MaxTasks : WF_vars(i \in DOMAIN tasks /\ OwnStep(i))

FairSpec == Spec /\ Fairness

-----------------------------------------------------------------------------
(* Properties *)

\* There is one attempt to connect, and nothing the user cannot see keeps it waiting: each older one is
\* cancelled, or a Disconnect task is about to; and one that waits for input has its window on the screen, or
\* about to be shown: when another prompt is in the way it is told at once.
OneVisibleAttempt ==
    /\ \A i, j \in DOMAIN tasks :
           (i < j /\ tasks[i].connects /\ tasks[j].connects /\ Active(i) /\ ~Cancelled(i))
               => \E k \in DOMAIN tasks : tasks[k].holds = i /\ k > i
    /\ \A i \in DOMAIN tasks : tasks[i].phase = "asked" => i \in opening \cup {prompt}

\* Every Connect or Disconnect task comes to its end and reports, unless the user leaves its own prompt
\* open, or the gateway that it has asked itself for its login prompts (main.rs:304) never finishes its
\* reply: whatever else is clicked, however the service behaves, although the tray's channel is bounded,
\* and although another task hangs on its prompt or on its gateway.
AsksGateway(i) == i \in DOMAIN tasks /\ tasks[i].phase = "info"
TasksEnd ==
    \A i \in 1..MaxTasks :
        []<>~AsksGateway(i)
            => ((i \in DOMAIN tasks) ~> (i \in DOMAIN tasks /\ (~Active(i) \/ prompt = i)))
=============================================================================
