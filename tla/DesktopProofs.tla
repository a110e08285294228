--------------------------- MODULE DesktopProofs ----------------------------
(***************************************************************************)
(* What Desktop keeps for any commands, any capacity of the tray's channel *)
(* and any number of tasks, commands and changes of the service.           *)
(***************************************************************************)
EXTENDS Desktop, SequenceTheorems, FiniteSetTheorems, TLAPS

-----------------------------------------------------------------------------
(* The invariant *)

\* No event waits more often than commands were given; one may be the program's own.
Counted ==
    /\ events \in [Events -> Nat] /\ clicks \in Nat /\ changes \in 0..MaxChanges
    /\ \A e \in Events : events[e] <= clicks + 1
    /\ clicks + Reserved <= MaxClicks + 1

\* The tasks, and the windows that belong to them.
Spawned ==
    /\ tasks \in Seq(Task) /\ Len(tasks) <= MaxTasks
    /\ cancelSender \in 0..Len(tasks)
    /\ opening \subseteq 1..Len(tasks) /\ prompt \in 0..Len(tasks)

\* The tray, the poll loop and what they show.
Shown ==
    /\ updates \in Seq(Statuses) /\ Len(updates) <= Capacity
    /\ tray \in Statuses
    /\ poll \in [old : Statuses \cup {"none"}, phase : {"ask", "post"}, firstRun : BOOLEAN]
    /\ poll.phase = "post" => poll.old \in Statuses
    /\ window \in Statuses \cup {"closed", "blank"}
    /\ service \in Statuses /\ program \in {"running", "leaving", "ended"}

\* The handler has the sender of the latest attempt; only a Disconnect handled later has that of an earlier one.
LatestSender ==
    /\ cancelSender # 0 => \A j \in 1..Len(tasks) : j > cancelSender => tasks[j].connects = FALSE
    /\ \A k \in 1..Len(tasks) : tasks[k].holds < k

\* Who waits for the user has a window on the screen or about to be shown.
AskedInSight == \A i \in 1..Len(tasks) : tasks[i].phase = "asked" => i \in opening \cup {prompt}

Orderly == Counted /\ Spawned /\ Shown /\ LatestSender /\ AskedInSight

\* Orderly implies what the runs check.
LEMMA OrderlyImplies == Orderly => TypeOK /\ OneVisibleAttempt
<1> SUFFICES ASSUME Orderly PROVE TypeOK /\ OneVisibleAttempt
  OBVIOUS
<1>1. DOMAIN tasks = 1..Len(tasks)
  BY LenProperties DEF Orderly, Spawned
<1>2. Reserved \in {0, 1}
  BY DEF Reserved
<1>3. clicks \in 0..(MaxClicks + 1) /\ \A e \in Events : events[e] \in 0..(MaxClicks + 2)
  BY <1>2, DesktopAssumption DEF Orderly, Counted
<1>4. TypeOK
  BY <1>1, <1>3 DEF Orderly, Counted, Spawned, Shown, TypeOK
<1>5. ASSUME NEW i \in 1..Len(tasks), NEW j \in 1..Len(tasks), i < j, tasks[j].connects, ~Cancelled(i)
      PROVE  \E k \in 1..Len(tasks) : tasks[k].holds = i /\ k > i
  <2>1. CASE cancelSender = i
    BY <1>5, <2>1 DEF Orderly, LatestSender
  <2>2. CASE \E k \in 1..Len(tasks) : tasks[k].holds = i
    BY <2>2 DEF Orderly, LatestSender
  <2>3. QED
    BY <1>1, <1>5, <2>1, <2>2 DEF Cancelled
<1>6. OneVisibleAttempt
  BY <1>1, <1>5 DEF OneVisibleAttempt, Orderly, AskedInSight
<1>7. QED
  BY <1>4, <1>6

\* A set within a singleton has at most one element.
LEMMA AtMostOne == ASSUME NEW S, NEW x, S \subseteq {x} PROVE Cardinality(S) \in {0, 1}
<1>1. S = {} \/ S = {x}
  OBVIOUS
<1>2. QED
  BY <1>1, FS_Singleton, FS_EmptySet

\* The program starts with one command at most.
LEMMA OrderlyInit == Init => Orderly
<1> SUFFICES ASSUME Init PROVE Orderly
  OBVIOUS
<1>1. PICK command \in {"none"} \cup Remote :
          events = [e \in Events |-> IF e = command \/ (NoTray /\ command = "none" /\ e = "status") THEN 1 ELSE 0]
  BY DEF Init
<1>2. events \in [Events -> Nat] /\ \A e \in Events : events[e] \in {0, 1}
  BY <1>1
<1>3. clicks \in {0, 1}
  <2> DEFINE Given == {e \in Remote : events[e] > 0}
  <2>1. Remote \subseteq Events /\ "none" \notin Remote
    BY DesktopAssumption DEF Events
  <2>2. \A e \in Remote : events[e] > 0 => e = IF command = "none" THEN "status" ELSE command
    BY <1>1, <2>1
  <2>3. Given \subseteq {IF command = "none" THEN "status" ELSE command}
    BY <2>2
  <2>4. Cardinality(Given) \in {0, 1}
    BY <2>3, AtMostOne
  <2>5. QED
    BY <2>4 DEF Init
<1>4. Reserved \in {0, 1}
  BY DEF Reserved
<1>5. clicks + Reserved <= MaxClicks + 1 /\ \A e \in Events : events[e] <= clicks + 1
  BY <1>2, <1>3, <1>4, DesktopAssumption
<1>8. Counted
  BY <1>2, <1>3, <1>5, DesktopAssumption DEF Counted, Init
<1>6. Spawned /\ LatestSender /\ AskedInSight
  BY DesktopAssumption DEF Init, Spawned, LatestSender, AskedInSight
<1>7. Shown
  BY DesktopAssumption DEF Init, Shown, Statuses
<1>9. QED
  BY <1>6, <1>7, <1>8 DEF Orderly

-----------------------------------------------------------------------------
(* How tasks change *)

\* Tasks go on or end; none is turned into another kind, none gets a sender it had not.
Moved ==
    /\ tasks' \in Seq(Task) /\ Len(tasks') = Len(tasks)
    /\ \A k \in 1..Len(tasks) : /\ tasks'[k].connects = tasks[k].connects
                                /\ tasks'[k].holds \in {tasks[k].holds, 0}

OnlyMoved(i) == Moved /\ \A k \in 1..Len(tasks) : k # i => tasks'[k] = tasks[k]

\* One task goes on.
LEMMA TaskMoves ==
  ASSUME Spawned, NEW i \in 1..Len(tasks), NEW t \in Task,
         t.connects = tasks[i].connects, t.holds \in {tasks[i].holds, 0},
         tasks' = [tasks EXCEPT ![i] = t]
  PROVE  OnlyMoved(i) /\ tasks'[i] = t
<1>1. /\ tasks' \in Seq(Task) /\ Len(tasks') = Len(tasks)
      /\ \A k \in 1..Len(tasks) : tasks'[k] = IF k = i THEN t ELSE tasks[k]
  BY ExceptSeq DEF Spawned
<1>2. QED
  BY <1>1 DEF OnlyMoved, Moved

\* It goes on to another phase, ...
LEMMA PhaseMoves ==
  ASSUME Spawned, NEW i \in 1..Len(tasks), NEW p \in Phases, tasks' = [tasks EXCEPT ![i].phase = p]
  PROVE  OnlyMoved(i) /\ tasks'[i].phase = p
<1> DEFINE t == [tasks[i] EXCEPT !.phase = p]
<1>1. tasks[i] \in Task
  BY ElementOfSeq DEF Spawned
<1>2. t \in Task /\ t.connects = tasks[i].connects /\ t.holds = tasks[i].holds /\ t.phase = p
  BY <1>1 DEF Task
<1>3. tasks' = [tasks EXCEPT ![i] = t]
  OBVIOUS
<1>4. QED
  BY <1>2, <1>3, TaskMoves

\* ... has read a status besides, ...
LEMMA StatusMoves ==
  ASSUME Spawned, NEW i \in 1..Len(tasks), NEW p \in Phases, NEW s \in Statuses,
         tasks' = [tasks EXCEPT ![i].phase = p, ![i].status = s]
  PROVE  OnlyMoved(i) /\ tasks'[i].phase = p
<1> DEFINE t == [tasks[i] EXCEPT !.phase = p, !.status = s]
<1>1. tasks[i] \in Task
  BY ElementOfSeq DEF Spawned
<1>2. t \in Task /\ t.connects = tasks[i].connects /\ t.holds = tasks[i].holds /\ t.phase = p
  BY <1>1 DEF Task
<1>3. DOMAIN tasks = 1..Len(tasks)
  BY LenProperties DEF Spawned
<1>4. tasks' = [tasks EXCEPT ![i] = t]
  BY <1>1, <1>3 DEF Task
<1>5. QED
  BY <1>2, <1>4, TaskMoves

\* ... or ends.
LEMMA EndedTask ==
  ASSUME NEW i, tasks[i] \in Task
  PROVE  /\ Ended(i) \in Task /\ Ended(i).connects = tasks[i].connects
         /\ Ended(i).holds = 0 /\ Ended(i).phase = "done"
<1>1. "done" \in Phases /\ "Error" \in Statuses /\ 0 \in 0..MaxTasks
  BY DesktopAssumption DEF Phases, Statuses
<1>2. QED
  BY <1>1 DEF Ended, Task

\* Ended, a task is one that has moved.
LEMMA EndMoves ==
  ASSUME Spawned, NEW i \in 1..Len(tasks), tasks' = [tasks EXCEPT ![i] = Ended(i)]
  PROVE  OnlyMoved(i) /\ tasks'[i].phase = "done"
<1>1. tasks[i] \in Task
  BY ElementOfSeq DEF Spawned
<1>2. /\ Ended(i) \in Task /\ Ended(i).connects = tasks[i].connects /\ Ended(i).holds = 0
      /\ Ended(i).phase = "done"
  BY <1>1, EndedTask
<1>3. QED
  BY <1>2, TaskMoves

\* A step of a task moves this one, and only one step makes it wait for the user.
LEMMA StepMoves ==
  ASSUME Spawned, Shown, NEW i \in 1..Len(tasks), Step(i)
  PROVE  OnlyMoved(i) /\ (tasks'[i].phase = "asked" => AskUser(i))
<1> USE DEF Phases, Statuses
<1>1. CASE Announce(i)
  BY <1>1, PhaseMoves DEF Announce
<1>2. CASE GatewayAnswers(i)
  BY <1>2, PhaseMoves, StatusMoves DEF GatewayAnswers
<1>3. CASE Login(i)
  BY <1>3, PhaseMoves DEF Login
<1>4. CASE AskUser(i)
  BY <1>4, PhaseMoves DEF AskUser
<1>5. CASE WaitEnds(i)
  BY <1>5, PhaseMoves, StatusMoves DEF WaitEnds, Shown
<1>6. CASE Answer(i)
  BY <1>6, PhaseMoves DEF Answer
<1>7. CASE GiveUp(i) \/ Cancel(i)
  BY <1>7, PhaseMoves DEF GiveUp, Cancel
<1>8. CASE Leave(i)
  BY <1>8, PhaseMoves, StatusMoves DEF Leave
<1>9. CASE Query(i)
  BY <1>9, StatusMoves DEF Query, Shown
<1>10. CASE Report(i)
  <2>1. CASE tasks[i].connects
    <3>1. tasks' = [tasks EXCEPT ![i] = Ended(i)]
      BY <1>10, <2>1 DEF Report
    <3>2. QED
      BY <3>1, EndMoves
  <2>2. CASE ~tasks[i].connects
    <3>1. tasks' = [tasks EXCEPT ![i].phase = "cancel"]
      BY <1>10, <2>2 DEF Report
    <3>2. QED
      BY <3>1, PhaseMoves
  <2>3. QED
    BY <2>1, <2>2
<1>11. CASE SendCancel(i)
  BY <1>11, EndMoves DEF SendCancel
<1>12. QED
  BY <1>1, <1>2, <1>3, <1>4, <1>5, <1>6, <1>7, <1>8, <1>9, <1>10, <1>11 DEF Step, OwnStep

\* A window that is closed or cannot be opened tells the task that waits for it, and no other.
LEMMA RefuseMoves ==
  ASSUME Spawned, NEW i \in 1..Len(tasks), tasks' = Refuse(i)
  PROVE  OnlyMoved(i) /\ tasks'[i].phase # "asked"
<1> DEFINE p == IF tasks[i].phase = "asked" THEN "refused" ELSE tasks[i].phase
<1>1. tasks[i] \in Task
  BY ElementOfSeq DEF Spawned
<1>2. p \in Phases /\ p # "asked"
  BY <1>1 DEF Task, Phases
<1>3. tasks' = [tasks EXCEPT ![i].phase = p]
  BY DEF Refuse
<1>4. QED
  BY <1>2, <1>3, PhaseMoves

\* The text of a window goes to the task that waits for it, and to no other.
LEMMA OkMoves ==
  ASSUME Spawned, Ok
  PROVE  OnlyMoved(prompt) /\ tasks'[prompt].phase # "asked"
<1> DEFINE p == IF tasks[prompt].phase = "asked" THEN "answered" ELSE tasks[prompt].phase
<1>1. prompt \in 1..Len(tasks)
  BY DEF Spawned, Ok
<1>2. tasks[prompt] \in Task
  BY <1>1, ElementOfSeq DEF Spawned
<1>3. p \in Phases /\ p # "asked"
  BY <1>2 DEF Task, Phases
<1>4. tasks' = [tasks EXCEPT ![prompt].phase = p]
  BY DEF Ok
<1>5. QED
  BY <1>1, <1>3, <1>4, PhaseMoves

\* With the program all tasks end.
LEMMA QuitMoves ==
  ASSUME Spawned, Quit
  PROVE  Moved /\ \A k \in 1..Len(tasks) : tasks'[k].phase = "done"
<1>1. DOMAIN tasks = 1..Len(tasks) /\ Len(tasks) \in Nat
  BY LenProperties DEF Spawned
<1>2. \A k \in 1..Len(tasks) : /\ Ended(k) \in Task /\ Ended(k).connects = tasks[k].connects
                               /\ Ended(k).holds = 0 /\ Ended(k).phase = "done"
  <2> SUFFICES ASSUME NEW k \in 1..Len(tasks)
               PROVE  /\ Ended(k) \in Task /\ Ended(k).connects = tasks[k].connects
                      /\ Ended(k).holds = 0 /\ Ended(k).phase = "done"
    OBVIOUS
  <2>1. tasks[k] \in Task
    BY ElementOfSeq DEF Spawned
  <2>2. QED
    BY <2>1, EndedTask
<1>3. tasks' = [k \in 1..Len(tasks) |-> Ended(k)]
  BY <1>1 DEF Quit
<1>4. tasks' \in Seq(Task) /\ Len(tasks') = Len(tasks)
  <2>1. tasks' \in [1..Len(tasks) -> Task]
    BY <1>2, <1>3
  <2>2. QED
    BY <1>1, <1>3, <2>1
<1>5. QED
  BY <1>2, <1>3, <1>4 DEF Moved

-----------------------------------------------------------------------------
(* Orderly is inductive *)

\* What neither adds a task nor touches the windows' tasks leaves the rest of Spawned alone.
LEMMA MovedSpawned ==
  ASSUME Spawned, Moved, UNCHANGED <<cancelSender, opening, prompt>>
  PROVE  Spawned'
  BY DEF Spawned, Moved

\* A task that is spawned comes last.
LEMMA TaskSpawned ==
  ASSUME Spawned, NEW t \in Task, Len(tasks) < MaxTasks, tasks' = Append(tasks, t)
  PROVE  /\ tasks' \in Seq(Task) /\ Len(tasks') = Len(tasks) + 1 /\ Len(tasks') <= MaxTasks
         /\ tasks'[Len(tasks')] = t
         /\ \A k \in 1..Len(tasks) : tasks'[k] = tasks[k]
  BY DesktopAssumption DEF Spawned

\* The tasks that the handler spawns.
LEMMA NewTasks ==
  ASSUME NEW sender \in 0..MaxTasks
  PROVE  ConnectTask \in Task /\ DisconnectTask(sender) \in Task
<1>1. {"start", "leave"} \subseteq Phases /\ {"Connecting", "Error"} \subseteq Statuses /\ 0 \in 0..MaxTasks
  BY DesktopAssumption DEF Phases, Statuses
<1>2. QED
  BY <1>1 DEF ConnectTask, DisconnectTask, Task

\* Tasks are only added at the end, and windows belong to tasks there are.
LEMMA SpawnedNext == ASSUME Orderly, Next PROVE Spawned'
<1> USE DEF Orderly, dispatch, screen, icon, history
<1>1. DOMAIN tasks = 1..Len(tasks) /\ Len(tasks) \in Nat
  BY LenProperties DEF Spawned
<1>2. ASSUME UNCHANGED <<tasks, cancelSender, opening, prompt>> PROVE Spawned'
  BY <1>2 DEF Spawned
<1>3. CASE Click \/ CloseStatusWindow \/ PollReads \/ PollPosts \/ TrayShows \/ WindowPolls \/ HandleStatus
           \/ LoginGoesOn \/ ServiceChanges
  BY <1>2, <1>3 DEF Click, CloseStatusWindow, PollReads, PollPosts, TrayShows, WindowPolls, HandleStatus,
                    LoginGoesOn, ServiceChanges
<1>4. CASE HandleConnectRemoved
  BY <1>1, <1>4 DEF HandleConnectRemoved, Spawned
<1>5. CASE HandleConnect
  <2>1. ConnectTask \in Task
    BY NewTasks, DesktopAssumption
  <2>2. QED
    BY <1>1, <1>5, <2>1, TaskSpawned DEF HandleConnect, Spawned
<1>6. CASE HandleDisconnect
  <2>1. DisconnectTask(cancelSender) \in Task
    BY <1>1, NewTasks, DesktopAssumption DEF Spawned
  <2>2. QED
    BY <1>1, <1>6, <2>1, TaskSpawned DEF HandleDisconnect, Spawned
<1>7. CASE HandleExit
  <2>1. Moved
    BY <1>1, <1>7, RefuseMoves DEF HandleExit, OnlyMoved, Moved, Spawned
  <2>2. QED
    BY <1>1, <1>7, <2>1 DEF HandleExit, Moved, Spawned
<1>8. CASE Quit
  BY <1>1, <1>8, QuitMoves DEF Quit, Moved, Spawned
<1>9. CASE OpenPrompt
  <2>1. PICK i \in opening : /\ opening' = opening \ {i} /\ UNCHANGED cancelSender
                             /\ \/ prompt' = i /\ UNCHANGED tasks
                                \/ tasks' = Refuse(i) /\ UNCHANGED prompt
    BY <1>9 DEF OpenPrompt
  <2>2. i \in 1..Len(tasks)
    BY DEF Spawned
  <2>3. QED
    BY <1>1, <2>1, <2>2, RefuseMoves DEF OnlyMoved, Moved, Spawned
<1>10. CASE Ok
  <2>1. Moved
    BY <1>10, OkMoves DEF OnlyMoved
  <2>2. QED
    BY <1>1, <1>10, <2>1 DEF Ok, Moved, Spawned
<1>11. CASE ClosePrompt
  <2>1. prompt \in 1..Len(tasks)
    BY <1>1, <1>11 DEF ClosePrompt, Spawned
  <2>2. Moved
    BY <1>11, <2>1, RefuseMoves DEF ClosePrompt, OnlyMoved
  <2>3. QED
    BY <1>1, <1>11, <2>2 DEF ClosePrompt, Moved, Spawned
<1>12. ASSUME NEW i \in 1..Len(tasks), Step(i) PROVE Spawned'
  <2>1. Moved
    BY <1>12, StepMoves DEF OnlyMoved
  <2>2. CASE AskUser(i)
    BY <1>1, <2>1, <2>2 DEF AskUser, Moved, Spawned
  <2>3. CASE ~AskUser(i)
    <3>1. UNCHANGED <<cancelSender, opening, prompt>>
      BY <1>12, <2>3 DEF Step, OwnStep, Announce, GatewayAnswers, Login, WaitEnds, Answer, GiveUp, Cancel, Leave, Query,
                         Report, SendCancel
    <3>2. QED
      BY <2>1, <3>1, MovedSpawned
  <2>4. QED
    BY <2>2, <2>3
<1>13. QED
  BY <1>1, <1>3, <1>4, <1>5, <1>6, <1>7, <1>8, <1>9, <1>10, <1>11, <1>12 DEF Next, Handle, Background, User

\* Each command and each event of the program's own is counted.
LEMMA CountedNext == ASSUME Orderly, Next PROVE Counted'
<1> USE DEF Orderly, dispatch, screen, icon, history
<1>1. Reserved \in {0, 1}
  BY DEF Reserved
<1>2. ASSUME UNCHANGED <<events, clicks, changes, poll>> PROVE Counted'
  BY <1>2 DEF Counted, Reserved
<1>3. CASE Click
  <2>1. PICK e \in Events : events' = [events EXCEPT ![e] = @ + 1]
    BY <1>3, DesktopAssumption DEF Click, TrayMenu, StatusButtons, Events
  <2>2. events' \in [Events -> Nat] /\ \A d \in Events : events'[d] <= clicks + 2
    BY <2>1 DEF Counted
  <2>3. Reserved' = Reserved
    BY <1>3 DEF Click, Reserved
  <2>4. QED
    BY <1>1, <1>3, <2>2, <2>3, DesktopAssumption DEF Click, Counted
<1>4. CASE CloseStatusWindow
  <2>1. "exit" \in Events
    BY DEF Events
  <2>2. events' \in [Events -> Nat] /\ \A d \in Events : events'[d] <= clicks + 1
    BY <1>4, <2>1 DEF CloseStatusWindow, Counted
  <2>3. QED
    BY <1>4, <2>2 DEF CloseStatusWindow, Counted, Reserved
<1>5. ASSUME NEW e \in Events, Take(e), UNCHANGED <<clicks, changes, poll>> PROVE Counted'
  <2>1. events' \in [Events -> Nat] /\ \A d \in Events : events'[d] <= clicks + 1
    BY <1>5 DEF Take, Counted
  <2>2. QED
    BY <1>5, <2>1 DEF Counted, Reserved
<1>6. CASE HandleConnect \/ HandleConnectRemoved \/ HandleDisconnect \/ HandleStatus \/ HandleExit
  BY <1>5, <1>6 DEF HandleConnect, HandleConnectRemoved, HandleDisconnect, HandleStatus, HandleExit, Events
<1>7. CASE Quit
  BY <1>7 DEF Quit, Counted, Reserved
<1>8. CASE OpenPrompt \/ TrayShows \/ WindowPolls \/ Ok \/ ClosePrompt
  BY <1>2, <1>8 DEF OpenPrompt, TrayShows, WindowPolls, Ok, ClosePrompt
<1>9. CASE PollReads
  <2>1. poll'.firstRun = poll.firstRun
    BY <1>9 DEF PollReads, Shown
  <2>2. QED
    BY <1>9, <2>1 DEF PollReads, Counted, Reserved
<1>10. CASE PollPosts
  <2> DEFINE connects == IF poll.firstRun /\ AutoConnect /\ poll.old = "Disconnected" THEN 1 ELSE 0
  <2>1. "connect" \in Events /\ connects \in {0, 1} /\ connects <= Reserved
    BY DEF Events, Reserved
  <2>2. events' = [events EXCEPT !["connect"] = @ + connects] /\ clicks' = clicks + connects
    BY <1>10 DEF PollPosts
  <2>3. Reserved' = 0
    BY <1>10 DEF PollPosts, Reserved, Shown
  <2>4. events' \in [Events -> Nat] /\ \A d \in Events : events'[d] <= clicks + 1 + connects
    BY <2>1, <2>2 DEF Counted
  <2>5. clicks' \in Nat /\ clicks' + Reserved' <= MaxClicks + 1
    BY <1>1, <2>1, <2>2, <2>3, DesktopAssumption DEF Counted
  <2>6. QED
    BY <1>10, <2>1, <2>2, <2>4, <2>5 DEF PollPosts, Counted
<1>11. CASE LoginGoesOn \/ ServiceChanges
  <2>1. changes' \in 0..MaxChanges
    BY <1>11, DesktopAssumption DEF LoginGoesOn, ServiceChanges, Counted
  <2>2. QED
    BY <1>11, <2>1 DEF LoginGoesOn, ServiceChanges, Counted, Reserved
<1>12. ASSUME NEW i \in 1..Len(tasks), Step(i) PROVE Counted'
  BY <1>2, <1>12 DEF Step, OwnStep, Announce, GatewayAnswers, Login, AskUser, WaitEnds, Answer, GiveUp, Cancel, Leave, Query,
                     Report, SendCancel
<1>13. DOMAIN tasks = 1..Len(tasks)
  BY LenProperties DEF Spawned
<1>14. QED
  BY <1>3, <1>4, <1>6, <1>7, <1>8, <1>9, <1>10, <1>11, <1>12, <1>13 DEF Next, Handle, Background, User

\* A status that is posted waits in the channel, if there is room.
LEMMA PostFits ==
  ASSUME Shown, NEW s \in Statuses, Post(s)
  PROVE  updates' \in Seq(Statuses) /\ Len(updates') <= Capacity
<1>1. Append(updates, s) \in Seq(Statuses) /\ Len(Append(updates, s)) = Len(updates) + 1
  BY DEF Shown
<1>2. QED
  BY <1>1, DesktopAssumption DEF Shown, Post

\* What is posted and shown is a status.
LEMMA ShownNext == ASSUME Orderly, Next PROVE Shown'
<1> USE DEF Orderly, dispatch, screen, icon, history
<1>1. ASSUME UNCHANGED <<updates, tray, poll, window, service, program>> PROVE Shown'
  BY <1>1 DEF Shown
<1>2. CASE Click \/ HandleConnect \/ HandleConnectRemoved \/ HandleDisconnect \/ OpenPrompt \/ Ok \/ ClosePrompt
  BY <1>1, <1>2 DEF Click, HandleConnect, HandleConnectRemoved, HandleDisconnect, OpenPrompt, Ok, ClosePrompt
<1>3. CASE WindowPolls \/ CloseStatusWindow \/ HandleStatus
  BY <1>3 DEF WindowPolls, CloseStatusWindow, HandleStatus, Shown
<1>4. CASE HandleExit
  BY <1>4 DEF HandleExit, Shown
<1>5. CASE Quit
  BY <1>5, EmptySeq, DesktopAssumption DEF Quit, Shown
<1>6. CASE PollReads
  BY <1>6 DEF PollReads, Shown
<1>7. CASE PollPosts
  <2>1. poll.old \in Statuses
    BY <1>7 DEF PollPosts, Shown
  <2>2. updates' \in Seq(Statuses) /\ Len(updates') <= Capacity
    BY <1>7, <2>1, PostFits DEF PollPosts
  <2>3. [poll EXCEPT !.phase = "ask", !.firstRun = FALSE]
            \in [old : Statuses \cup {"none"}, phase : {"ask", "post"}, firstRun : BOOLEAN]
    BY DEF Shown
  <2>4. poll' = [poll EXCEPT !.phase = "ask", !.firstRun = FALSE] /\ poll'.phase # "post"
    BY <1>7 DEF PollPosts, Shown
  <2>5. QED
    BY <1>7, <2>2, <2>3, <2>4 DEF PollPosts, Shown
<1>8. CASE TrayShows
  <2>1. /\ Head(updates) \in Statuses /\ Tail(updates) \in Seq(Statuses)
        /\ Len(Tail(updates)) = Len(updates) - 1
    BY <1>8, HeadTailProperties DEF TrayShows, Shown
  <2>2. Len(updates) \in Nat
    BY LenProperties DEF Shown
  <2>3. QED
    BY <1>8, <2>1, <2>2, DesktopAssumption DEF TrayShows, Shown
<1>9. CASE LoginGoesOn \/ ServiceChanges
  BY <1>9 DEF LoginGoesOn, ServiceChanges, Shown, Statuses
<1>10. ASSUME NEW i \in 1..Len(tasks), Step(i) PROVE Shown'
  <2>1. CASE Announce(i)
    <3>1. updates' \in Seq(Statuses) /\ Len(updates') <= Capacity
      BY <2>1, PostFits DEF Announce, Statuses
    <3>2. QED
      BY <2>1, <3>1 DEF Announce, Shown
  <2>2. CASE Report(i)
    <3>1. tasks[i].status \in Statuses
      <4>1. tasks[i] \in Task
        BY ElementOfSeq DEF Spawned
      <4>2. QED
        BY <4>1 DEF Task
    <3>2. updates' \in Seq(Statuses) /\ Len(updates') <= Capacity
      BY <2>2, <3>1, PostFits DEF Report
    <3>3. QED
      BY <2>2, <3>2 DEF Report, Shown
  <2>3. CASE GatewayAnswers(i) \/ AskUser(i) \/ WaitEnds(i) \/ Cancel(i) \/ Query(i) \/ SendCancel(i)
    BY <1>1, <2>3 DEF GatewayAnswers, AskUser, WaitEnds, Cancel, Query, SendCancel
  <2>4. CASE Login(i) \/ Answer(i) \/ GiveUp(i) \/ Leave(i)
    <3>1. service' \in Statuses
      BY <2>4 DEF Login, Answer, GiveUp, Leave, Shown, Statuses
    <3>2. QED
      BY <2>4, <3>1 DEF Login, Answer, GiveUp, Leave, Shown
  <2>5. QED
    BY <1>10, <2>1, <2>2, <2>3, <2>4 DEF Step, OwnStep
<1>11. DOMAIN tasks = 1..Len(tasks)
  BY LenProperties DEF Spawned
<1>12. QED
  BY <1>2, <1>3, <1>4, <1>5, <1>6, <1>7, <1>8, <1>9, <1>10, <1>11 DEF Next, Handle, Background, User

\* Moving tasks changes neither who connects nor who holds an earlier sender.
LEMMA MovedSenders ==
  ASSUME Spawned, LatestSender, Moved, cancelSender' \in {cancelSender, 0}
  PROVE  LatestSender'
<1>1. Len(tasks) \in Nat /\ \A k \in 1..Len(tasks) : tasks[k].holds \in 0..MaxTasks
  <2>1. \A k \in 1..Len(tasks) : tasks[k] \in Task
    BY ElementOfSeq DEF Spawned
  <2>2. QED
    BY <2>1, LenProperties DEF Spawned, Task
<1>2. \A k \in 1..Len(tasks) : tasks'[k].holds < k
  BY <1>1 DEF LatestSender, Moved
<1>3. QED
  BY <1>2 DEF LatestSender, Moved

\* The handler keeps the newest sender, and hands an old one to a newer task.
LEMMA LatestSenderNext == ASSUME Orderly, Next PROVE LatestSender'
<1> USE DEF Orderly, dispatch, screen, icon, history
<1>1. DOMAIN tasks = 1..Len(tasks) /\ Len(tasks) \in Nat
  BY LenProperties DEF Spawned
<1>2. ASSUME UNCHANGED <<tasks, cancelSender>> PROVE LatestSender'
  BY <1>2 DEF LatestSender
<1>3. CASE Click \/ CloseStatusWindow \/ PollReads \/ PollPosts \/ TrayShows \/ WindowPolls \/ HandleStatus
           \/ LoginGoesOn \/ ServiceChanges
  BY <1>2, <1>3 DEF Click, CloseStatusWindow, PollReads, PollPosts, TrayShows, WindowPolls, HandleStatus,
                    LoginGoesOn, ServiceChanges
<1>4. CASE HandleConnectRemoved
  BY <1>4 DEF HandleConnectRemoved, LatestSender
<1>5. CASE HandleConnect
  <2>1. ConnectTask \in Task /\ ConnectTask.holds = 0
    BY NewTasks, DesktopAssumption DEF ConnectTask
  <2>2. /\ Len(tasks') = Len(tasks) + 1 /\ tasks'[Len(tasks')] = ConnectTask
        /\ \A k \in 1..Len(tasks) : tasks'[k] = tasks[k]
    BY <1>5, <2>1, TaskSpawned DEF HandleConnect
  <2>3. cancelSender' = Len(tasks')
    BY <1>5 DEF HandleConnect
  <2>4. QED
    BY <1>1, <2>1, <2>2, <2>3 DEF LatestSender
<1>6. CASE HandleDisconnect
  <2>1. DisconnectTask(cancelSender) \in Task /\ DisconnectTask(cancelSender).holds = cancelSender
    BY <1>1, NewTasks, DesktopAssumption DEF Spawned, DisconnectTask
  <2>2. /\ Len(tasks') = Len(tasks) + 1 /\ tasks'[Len(tasks')] = DisconnectTask(cancelSender)
        /\ \A k \in 1..Len(tasks) : tasks'[k] = tasks[k]
    BY <1>6, <2>1, TaskSpawned DEF HandleDisconnect
  <2>3. cancelSender' = 0 /\ cancelSender <= Len(tasks)
    BY <1>1, <1>6 DEF HandleDisconnect, Spawned
  <2>4. QED
    BY <1>1, <2>1, <2>2, <2>3 DEF LatestSender, Spawned
<1>7. CASE HandleExit
  <2>1. Moved
    BY <1>1, <1>7, RefuseMoves DEF HandleExit, OnlyMoved, Moved, Spawned
  <2>2. QED
    BY <1>7, <2>1, MovedSenders DEF HandleExit
<1>8. CASE Quit
  BY <1>8, QuitMoves, MovedSenders DEF Quit
<1>9. CASE OpenPrompt
  <2>1. PICK i \in opening : UNCHANGED tasks \/ tasks' = Refuse(i)
    BY <1>9 DEF OpenPrompt
  <2>2. i \in 1..Len(tasks)
    BY DEF Spawned
  <2>3. Moved
    BY <1>1, <2>1, <2>2, RefuseMoves DEF OnlyMoved, Moved, Spawned
  <2>4. QED
    BY <1>9, <2>3, MovedSenders DEF OpenPrompt
<1>10. CASE Ok
  BY <1>10, OkMoves, MovedSenders DEF Ok, OnlyMoved
<1>11. CASE ClosePrompt
  <2>1. prompt \in 1..Len(tasks)
    BY <1>1, <1>11 DEF ClosePrompt, Spawned
  <2>2. QED
    BY <1>11, <2>1, RefuseMoves, MovedSenders DEF ClosePrompt, OnlyMoved
<1>12. ASSUME NEW i \in 1..Len(tasks), Step(i) PROVE LatestSender'
  <2>1. Moved
    BY <1>12, StepMoves DEF OnlyMoved
  <2>2. UNCHANGED cancelSender
    BY <1>12 DEF Step, OwnStep, Announce, GatewayAnswers, Login, AskUser, WaitEnds, Answer, GiveUp, Cancel, Leave, Query,
                 Report, SendCancel
  <2>3. QED
    BY <2>1, <2>2, MovedSenders
<1>13. QED
  BY <1>1, <1>3, <1>4, <1>5, <1>6, <1>7, <1>8, <1>9, <1>10, <1>11, <1>12 DEF Next, Handle, Background, User

\* A window comes after the task that asked for it, and goes with the task being told.
LEMMA AskedInSightNext == ASSUME Orderly, Next PROVE AskedInSight'
<1> USE DEF Orderly, dispatch, screen, icon, history
<1>1. DOMAIN tasks = 1..Len(tasks) /\ Len(tasks) \in Nat
  BY LenProperties DEF Spawned
<1>2. ASSUME UNCHANGED <<tasks, opening, prompt>> PROVE AskedInSight'
  BY <1>2 DEF AskedInSight
<1>3. CASE Click \/ CloseStatusWindow \/ PollReads \/ PollPosts \/ TrayShows \/ WindowPolls \/ HandleStatus
           \/ HandleConnectRemoved \/ LoginGoesOn \/ ServiceChanges
  BY <1>2, <1>3 DEF Click, CloseStatusWindow, PollReads, PollPosts, TrayShows, WindowPolls, HandleStatus,
                    HandleConnectRemoved, LoginGoesOn, ServiceChanges
<1>4. ASSUME NEW t \in Task, t.phase # "asked", Len(tasks) < MaxTasks, tasks' = Append(tasks, t),
             UNCHANGED <<opening, prompt>>
      PROVE  AskedInSight'
  BY <1>1, <1>4, TaskSpawned DEF AskedInSight
<1>5. CASE HandleConnect
  <2>1. ConnectTask \in Task /\ ConnectTask.phase # "asked"
    BY NewTasks, DesktopAssumption DEF ConnectTask
  <2>2. QED
    BY <1>4, <1>5, <2>1 DEF HandleConnect
<1>6. CASE HandleDisconnect
  <2>1. DisconnectTask(cancelSender) \in Task /\ DisconnectTask(cancelSender).phase # "asked"
    BY <1>1, NewTasks, DesktopAssumption DEF Spawned, DisconnectTask
  <2>2. QED
    BY <1>4, <1>6, <2>1 DEF HandleDisconnect
<1>7. CASE HandleExit
  <2>1. CASE prompt = 0
    BY <1>7, <2>1 DEF HandleExit, AskedInSight
  <2>2. CASE prompt # 0
    <3>1. prompt \in 1..Len(tasks) /\ tasks' = Refuse(prompt)
      BY <1>1, <1>7, <2>2 DEF HandleExit, Spawned
    <3>2. OnlyMoved(prompt) /\ tasks'[prompt].phase # "asked"
      BY <3>1, RefuseMoves
    <3>3. QED
      BY <1>7, <3>2 DEF HandleExit, AskedInSight, OnlyMoved, Moved
  <2>3. QED
    BY <2>1, <2>2
<1>8. CASE Quit
  BY <1>8, QuitMoves DEF Quit, AskedInSight, Moved
<1>9. CASE OpenPrompt
  <2>1. PICK i \in opening : /\ opening' = opening \ {i}
                             /\ \/ prompt = 0 /\ prompt' = i /\ UNCHANGED tasks
                                \/ tasks' = Refuse(i) /\ UNCHANGED prompt
    BY <1>9 DEF OpenPrompt
  <2>2. i \in 1..Len(tasks)
    BY DEF Spawned
  <2>3. CASE prompt = 0 /\ prompt' = i /\ UNCHANGED tasks
    BY <2>1, <2>2, <2>3 DEF AskedInSight
  <2>4. CASE tasks' = Refuse(i) /\ UNCHANGED prompt
    <3>1. OnlyMoved(i) /\ tasks'[i].phase # "asked"
      BY <2>2, <2>4, RefuseMoves
    <3>2. QED
      BY <2>1, <2>4, <3>1 DEF AskedInSight, OnlyMoved, Moved
  <2>5. QED
    BY <2>1, <2>3, <2>4
<1>10. CASE Ok
  BY <1>10, OkMoves DEF Ok, AskedInSight, OnlyMoved, Moved
<1>11. CASE ClosePrompt
  <2>1. prompt \in 1..Len(tasks)
    BY <1>1, <1>11 DEF ClosePrompt, Spawned
  <2>2. OnlyMoved(prompt) /\ tasks'[prompt].phase # "asked"
    BY <1>11, <2>1, RefuseMoves DEF ClosePrompt
  <2>3. QED
    BY <1>11, <2>2 DEF ClosePrompt, AskedInSight, OnlyMoved, Moved
<1>12. ASSUME NEW i \in 1..Len(tasks), Step(i) PROVE AskedInSight'
  <2>1. OnlyMoved(i) /\ (tasks'[i].phase = "asked" => AskUser(i))
    BY <1>12, StepMoves
  <2>2. CASE AskUser(i)
    BY <2>1, <2>2 DEF AskUser, AskedInSight, OnlyMoved, Moved
  <2>3. CASE ~AskUser(i)
    <3>1. UNCHANGED <<opening, prompt>>
      BY <1>12, <2>3 DEF Step, OwnStep, Announce, GatewayAnswers, Login, WaitEnds, Answer, GiveUp, Cancel, Leave, Query,
                         Report, SendCancel
    <3>2. QED
      BY <2>1, <2>3, <3>1 DEF AskedInSight, OnlyMoved, Moved
  <2>4. QED
    BY <2>2, <2>3
<1>13. QED
  BY <1>1, <1>3, <1>5, <1>6, <1>7, <1>8, <1>9, <1>10, <1>11, <1>12 DEF Next, Handle, Background, User

\* Orderly holds in every behaviour.
LEMMA OrderlyAlways == Spec => []Orderly
<1>1. Orderly /\ Next => Orderly'
  BY CountedNext, SpawnedNext, ShownNext, LatestSenderNext, AskedInSightNext DEF Orderly
<1>2. Orderly /\ UNCHANGED vars => Orderly'
  <2> SUFFICES ASSUME Orderly, UNCHANGED vars PROVE Orderly'
    OBVIOUS
  <2> USE DEF Orderly, vars, dispatch, screen, icon, history
  <2>1. Counted' /\ Spawned'
    BY DEF Counted, Reserved, Spawned
  <2>2. Shown' /\ LatestSender' /\ AskedInSight'
    BY DEF Shown, LatestSender, AskedInSight
  <2>3. QED
    BY <2>1, <2>2
<1>3. QED
  BY OrderlyInit, <1>1, <1>2, PTL DEF Spec

-----------------------------------------------------------------------------
(* Theorems *)

\* Every variable keeps its type: no more tasks, events and posted statuses than there is room for, and
\* windows only for tasks that exist.
THEOREM DesktopTypes == Spec => []TypeOK
  BY OrderlyAlways, OrderlyImplies, PTL

\* However Connects and Disconnects follow each other, an attempt to connect that a later one replaces is
\* cancelled, or a Disconnect is about to cancel it; and one that waits for input can be seen.
THEOREM OneAttemptInSight == Spec => []OneVisibleAttempt
  BY OrderlyAlways, OrderlyImplies, PTL
=============================================================================
