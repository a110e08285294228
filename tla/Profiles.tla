------------------------------ MODULE Profiles ------------------------------
(***************************************************************************)
(* The connection profiles: a file for each and one with their order, the  *)
(* copy of them in the memory of the program (ConnectionProfilesStore),    *)
(* and the settings window, which shows one profile at a time and saves    *)
(* it.  Logins and the deletion of stored passwords go on beside it.       *)
(*                                                                         *)
(* The handlers of the window run to their end in the one thread of the    *)
(* user interface; the calls with which they change files and memory are   *)
(* the sequence work and are done step by step, for the program may stop   *)
(* between two of them, other programs (snxctl) read the files, and a      *)
(* write or a removal may fail, which the code ignores.  What a handler    *)
(* does to its window, or to memory before it writes the first file,       *)
(* nobody can see before it ends, so it is done at once.  A dialog asks    *)
(* before a handler runs; it is modal.                                     *)
(*                                                                         *)
(* Of the options the model keeps the server name, which stands for all    *)
(* that the window shows and stores as they are, the login type, which it  *)
(* stores by its place in a list, the keychain option, and the look, which *)
(* stands for the options that are always kept in the default profile.     *)
(***************************************************************************)
EXTENDS Integers, Sequences, FiniteSets, SequencesExt

CONSTANTS
    Default,    \* DEFAULT_PROFILE_UUID, and the name of its file, snx-rs.conf
    Ids,        \* what Uuid::new_v4 returns, and the names of the files
    Names,      \* profile names, numbers in alphabetical order
    Servers, NoServer,
    LoginTypes, NoLogin,
    Offered,    \* [Servers -> Seq(LoginTypes)]: what a gateway lists
    Looks,      \* what users pick: "plain", "icon" (icon theme, locale, auto-connect), "color" (theme)
    Keychain,   \* TRUE if users tick the keychain option and log in
    MaxChanges, \* bound: handlers that write
    MaxFaults   \* bound: crashes, failed writes and removals

AllIds == Ids \cup {Default}

ASSUME ProfilesAssumption ==
    /\ Default \notin Ids /\ IsFiniteSet(Ids)
    /\ Names \subseteq Nat \ {0}
    /\ NoServer \notin Servers /\ NoLogin \notin LoginTypes
    /\ Offered \in [Servers -> Seq(LoginTypes)]
    /\ Looks \subseteq {"plain", "icon", "color"}
    /\ Keychain \in BOOLEAN /\ MaxChanges \in Nat /\ MaxFaults \in Nat

VARIABLES
    files,      \* the contents of the .conf files
    order,      \* of profiles.order
    store,      \* ProfilesState.profiles
    connected,  \* ProfilesState.connected
    running,    \* the program that has the window
    work,       \* what the handler that runs has still to do to files and memory: its calls
    form,       \* the settings window and its SettingsState
    fetches,    \* requests of the window to gateways, under way
    logins,     \* profiles whose login will store its password
    deletions,  \* spawned delete_password tasks
    keychain,   \* profiles with a password in the keychain
    used,       \* history: identifiers given out
    lost,       \* history: files whose last save or removal failed
    astray,     \* history: the last write of the order failed
    changes,    \* history: handlers that wrote
    faults      \* history: crashes, failed writes and removals

disk == <<files, order>>
memory == <<store, connected>>
passwords == <<logins, deletions, keychain>>
history == <<used, lost, astray, changes, faults>>
vars == <<disk, memory, running, work, form, fetches, passwords, history>>

-----------------------------------------------------------------------------
(* Values *)

\* The name of a new default profile is 0: no user types it.
Profile == [id : AllIds, name : Names \cup {0}, server : Servers \cup {NoServer},
            login : LoginTypes \cup {NoLogin}, keychain : BOOLEAN, look : Looks \cup {"plain"}, file : AllIds]
DefaultParams == [id |-> Default, name |-> 0, server |-> NoServer, login |-> NoLogin,
                  keychain |-> FALSE, look |-> "plain", file |-> Default]

Missing == [state |-> "missing", with |-> DefaultParams]
Empty == [state |-> "empty", with |-> DefaultParams] \* truncated, not yet written
Whole(p) == [state |-> "whole", with |-> p]

\* What a file written for p says when it is read: there is no line for the color theme.
Reread(p) == [p EXCEPT !.look = IF @ = "color" THEN "plain" ELSE @]

\* TunnelParams::eq, which does not compare the color themes either.
Same(p, q) == [p EXCEPT !.look = q.look] = q /\ (p.look = "icon" <=> q.look = "icon")

\* TunnelParams::load: what the file does not say is as in DefaultParams, identifier and name too.
Load(f) == [(IF files[f].state = "whole" THEN Reread(files[f].with) ELSE DefaultParams)
               EXCEPT !.file = f]

Range1(s) == {s[i] : i \in DOMAIN s}
IdsOf(s) == [i \in DOMAIN s |-> s[i].id]
IsIn(id, s) == \E i \in DOMAIN s : s[i].id = id
Position(id, s) == CHOOSE i \in DOMAIN s : s[i].id = id /\ \A j \in 1..(i - 1) : s[j].id # id
Get(id, s) == s[Position(id, s)]

\* What retain leaves of s.
Nth(n, places) == CHOOSE i \in places : Cardinality({j \in places : j <= i}) = n
Without(id, s) ==
    LET kept == {i \in DOMAIN s : s[i].id # id}
    IN  [n \in 1..Cardinality(kept) |-> s[Nth(n, kept)]]

\* The order of load_all_from; the directory lists files in any order, equals stay in that one.
Known(id) == id \in Range1(order)
Place(id) == CHOOSE i \in DOMAIN order : order[i] = id /\ \A j \in 1..(i - 1) : order[j] # id
Before(p, q) ==
    \/ Known(p.id) /\ Known(q.id) /\ Place(p.id) <= Place(q.id)
    \/ Known(p.id) /\ ~Known(q.id)
    \/ ~Known(p.id) /\ ~Known(q.id) /\
           (p.id = Default \/ (q.id # Default /\ p.name <= q.name))

\* ConnectionProfilesStore::new_in: the stores that a program may start with.
Loads ==
    LET loaded == {Load(f) : f \in {g \in AllIds : files[g].state # "missing"}}
    IN  IF loaded = {} THEN {<<DefaultParams>>}
        ELSE {s \in SetToSeqs(loaded) :
                  \A i, j \in DOMAIN s : i < j => Before(s[i], s[j])}

GetDefault == IF IsIn(Default, store) THEN Get(Default, store) ELSE DefaultParams
GetConnected == IF IsIn(connected, store) THEN Get(connected, store) ELSE GetDefault

-----------------------------------------------------------------------------
(* What handlers do to files and memory, in steps: the first element of work says how far its *)
(* call has come.                                                                             *)

Step(do, p) == [do |-> do, with |-> p]

Put(p, s) == IF IsIn(p.id, s) THEN [s EXCEPT ![Position(p.id, s)] = p] ELSE Append(s, p)
Moved(s, from, to) == InsertAt(RemoveAt(s, from), to, s[from])

Idle == running /\ work = <<>>
Doing(do) == running /\ work # <<>> /\ Head(work).do = do
Then(do) == work' = [work EXCEPT ![1].do = do]
Done == work' = Tail(work)
Subject == Head(work).with

\* ConnectionProfilesStore::save writes the file, ...
Truncate ==
    /\ Doing("truncate") /\ Then("write")
    /\ files' = [files EXCEPT ![Subject.file] = Empty]
    /\ UNCHANGED <<order, memory, running, form, fetches, passwords, history>>

Write ==
    /\ Doing("write") /\ Then("put")
    /\ files' = [files EXCEPT ![Subject.file] = Whole(Subject)]
    /\ lost' = lost \ {Subject.file}
    /\ UNCHANGED <<order, memory, running, form, fetches, passwords, used, astray, changes, faults>>

\* ... ignoring the error, whether the file could not be opened or not be written, ...
WriteFails ==
    /\ faults < MaxFaults
    /\ Doing("truncate") \/ Doing("write")
    /\ Then("put")
    /\ lost' = lost \cup {Subject.file} /\ faults' = faults + 1
    /\ UNCHANGED <<disk, memory, running, form, fetches, passwords, used, astray, changes>>

\* ... then puts the profile in its place, or adds it and writes the order.
PutInStore ==
    /\ Doing("put")
    /\ store' = Put(Subject, store)
    /\ IF IsIn(Subject.id, store) THEN Done ELSE Then("clear")
    /\ UNCHANGED <<disk, connected, running, form, fetches, passwords, history>>

\* TunnelParams::save_profile_order truncates the file, then writes it; no profile comes or
\* goes in between.
ClearOrder ==
    /\ Doing("clear") /\ Then("order")
    /\ order' = <<>>
    /\ UNCHANGED <<files, memory, running, form, fetches, passwords, history>>

WriteOrder ==
    /\ Doing("order") /\ Done
    /\ order' = IdsOf(store) /\ astray' = FALSE
    /\ UNCHANGED <<files, memory, running, form, fetches, passwords, used, lost, changes, faults>>

\* Its errors are ignored, too: the file stays as it was, or stays truncated.
OrderFails ==
    /\ faults < MaxFaults
    /\ Doing("clear") \/ Doing("order")
    /\ Done
    /\ astray' = TRUE /\ faults' = faults + 1
    /\ UNCHANGED <<disk, memory, running, form, fetches, passwords, used, lost, changes>>

\* ConnectionProfilesStore::remove, once the profile has left the memory, ...
Unlink ==
    /\ Doing("unlink") /\ Then("clear")
    /\ files' = [files EXCEPT ![Subject.file] = Missing]
    /\ lost' = lost \ {Subject.file}
    /\ UNCHANGED <<order, memory, running, form, fetches, passwords, used, astray, changes, faults>>

\* ... which does not notice that the file stays.
UnlinkFails ==
    /\ faults < MaxFaults
    /\ Doing("unlink") /\ Then("clear")
    /\ lost' = lost \cup {Subject.file} /\ faults' = faults + 1
    /\ UNCHANGED <<disk, memory, running, form, fetches, passwords, used, astray, changes>>

SpawnDeletion ==
    /\ Doing("forget") /\ Done
    /\ deletions' = deletions \cup {Subject.id}
    /\ UNCHANGED <<disk, memory, running, form, fetches, logins, keychain, history>>

-----------------------------------------------------------------------------
(* The settings window *)

\* owner: history, the profile whose values the fields show; dropped: history, a row was
\* dropped on the place of the selected one.
NoForm == [open |-> FALSE, rows |-> <<>>, index |-> 1, server |-> NoServer, keychain |-> FALSE,
           look |-> "plain", auth_ids |-> <<>>, auth_type |-> 1, fetch |-> TRUE,
           owner |-> Default, dropped |-> FALSE]

Rows(s) == [i \in DOMAIN s |-> [id |-> s[i].id, name |-> s[i].name]]
Selected(w) == IF w.index \in DOMAIN w.rows THEN w.rows[w.index].id ELSE Default

\* load_profile_into_window, when the memory is s; the list of login types stays until the
\* gateway has answered, unless there is no gateway to ask.
Loaded(w, s) ==
    IF ~IsIn(Selected(w), s) THEN w
    ELSE LET p == Get(Selected(w), s)
             d == IF IsIn(Default, s) THEN Get(Default, s) ELSE DefaultParams
             asks == p.server # NoServer
         IN  [w EXCEPT !.server = p.server, !.keychain = p.keychain, !.look = d.look,
                       !.auth_ids = IF asks THEN @ ELSE <<>>, !.fetch = @ \/ ~asks,
                       !.owner = p.id, !.dropped = FALSE]

\* Mutant of Asked: without a server name the gateway is asked all the same.
AskedAnyway(w, s) ==
    IF ~IsIn(Selected(w), s) THEN {}
    ELSE {[server |-> Get(Selected(w), s).server, login |-> Get(Selected(w), s).login]}

\* The request that fetch_server_info makes in doing so.
Asked(w, s) ==
    IF ~IsIn(Selected(w), s) \/ Get(Selected(w), s).server = NoServer THEN {}
    ELSE {[server |-> Get(Selected(w), s).server, login |-> Get(Selected(w), s).login]}

Show(w, s) == form' = Loaded(w, s) /\ fetches' = fetches \cup Asked(w, s)

Free == Idle /\ form.open
Changes == changes < MaxChanges /\ changes' = changes + 1

\* SettingsWindowController::present.
Open ==
    /\ Idle /\ ~form.open
    /\ LET id == GetConnected.id
       IN  Show([NoForm EXCEPT !.open = TRUE, !.rows = Rows(store),
                               !.index = IF IsIn(id, store) THEN Position(id, store) ELSE 1], store)
    /\ UNCHANGED <<disk, memory, running, work, passwords, history>>

\* The answers to a closed window find nobody.
Close ==
    /\ Free
    /\ form' = NoForm /\ fetches' = {}
    /\ UNCHANGED <<disk, memory, running, work, passwords, history>>

\* The user selects another row: profile-index changes, which calls on_profile_changed.
Select(i) ==
    /\ Free /\ i \in DOMAIN form.rows \ {form.index}
    /\ Show([form EXCEPT !.index = i], store)
    /\ UNCHANGED <<disk, memory, running, work, passwords, history>>

\* The window after the user has edited a field or picked a login type; the server name can
\* be edited only while the answer to FetchInfo is not awaited.
Edited(w) ==
    {[w EXCEPT !.server = g] : g \in IF w.fetch THEN Servers ELSE {}}
    \cup {[w EXCEPT !.keychain = k] : k \in IF Keychain THEN BOOLEAN ELSE {}}
    \cup {[w EXCEPT !.look = l] : l \in Looks}
    \cup {[w EXCEPT !.auth_type = i] : i \in DOMAIN w.auth_ids}

Edit ==
    /\ Free
    /\ form' \in Edited(form)
    /\ UNCHANGED <<disk, memory, running, work, fetches, passwords, history>>

\* The button that asks the gateway again.
FetchInfo ==
    /\ Free /\ form.fetch /\ form.server # NoServer
    /\ IsIn(Selected(form), store)
    /\ form' = [form EXCEPT !.fetch = FALSE]
    /\ fetches' = fetches \cup
           {[server |-> form.server, login |-> Get(Selected(form), store).login]}
    /\ UNCHANGED <<disk, memory, running, work, passwords, history>>

\* An answer is shown whatever profile is selected by now; an error only enables the button.
FetchDone(f) ==
    /\ Free /\ f \in fetches
    /\ fetches' = fetches \ {f}
    /\ \/ form' = [form EXCEPT !.fetch = TRUE]
       \/ LET ids == Offered[f.server]
          IN  form' = [form EXCEPT !.fetch = TRUE, !.auth_ids = ids,
                           !.auth_type = IF f.login \in Range1(ids)
                                         THEN CHOOSE i \in DOMAIN ids : ids[i] = f.login ELSE 1]
    /\ UNCHANGED <<disk, memory, running, work, passwords, history>>

\* on_profile_new
ProfileNew(id, name) ==
    /\ Free /\ id \notin used
    /\ LET p == [DefaultParams EXCEPT !.id = id, !.name = name, !.file = id]
           rows == Append(form.rows, [id |-> id, name |-> name])
       IN  /\ work' = <<Step("truncate", p)>>
           /\ Show([form EXCEPT !.rows = rows, !.index = Len(rows)], Put(p, store))
    /\ used' = used \cup {id}
    /\ Changes /\ UNCHANGED <<disk, memory, running, passwords, lost, astray, faults>>

\* on_profile_rename
ProfileRename(name) ==
    /\ Free /\ form.index \in DOMAIN form.rows
    /\ work' = IF IsIn(Selected(form), store)
               THEN <<Step("truncate", [Get(Selected(form), store) EXCEPT !.name = name])>>
               ELSE <<>>
    /\ form' = [form EXCEPT !.rows[form.index].name = name]
    /\ Changes /\ UNCHANGED <<disk, memory, running, fetches, passwords, used, lost, astray, faults>>

\* ConnectionProfilesStore::reorder in memory, ...
Reordered(from, to, s) == IF {from, to} \subseteq DOMAIN s THEN Moved(s, from, to) ELSE s

\* Mutant of OrderStep: the order file is forgotten.
NoOrderStep(from, to, s) == <<>>

\* ... and what is left to do.
OrderStep(from, to, s) ==
    IF {from, to} \subseteq DOMAIN s THEN <<Step("clear", s[from])>> ELSE <<>>

\* Mutant of ProfileReorder: the selection stays at its place.
ProfileReorderInPlace(from, to) ==
    /\ Free /\ {from, to} \subseteq DOMAIN form.rows /\ from # to
    /\ store' = Reordered(from, to, store) /\ work' = OrderStep(from, to, store)
    /\ form' = [form EXCEPT !.rows = Rows(Reordered(from, to, store))]
    /\ Changes
    /\ UNCHANGED <<disk, connected, running, fetches, passwords, used, lost, astray, faults>>

\* Row from is pressed, which selects it, and dropped at to: on_profile_reorder, which moves
\* the selection along.  on_profile_changed is called afterwards, if the index has changed in
\* the end.
ProfileReorder(from, to) ==
    /\ Free /\ {from, to} \subseteq DOMAIN form.rows /\ from # to
    /\ store' = Reordered(from, to, store) /\ work' = OrderStep(from, to, store)
    /\ LET now == Reordered(from, to, store)
           id == form.rows[from].id
           w == [form EXCEPT !.rows = Rows(now),
                             !.index = IF IsIn(id, now) THEN Position(id, now) ELSE 1]
       IN  IF w.index # form.index THEN Show(w, now)
           ELSE form' = [w EXCEPT !.dropped = TRUE] /\ UNCHANGED fetches
    /\ Changes
    /\ UNCHANGED <<disk, connected, running, passwords, used, lost, astray, faults>>

\* on_profile_delete of the selected row; there is no button at the row of the default
\* profile (refresh_default_profile_index), which is the first if there is no such row.
ProfileDelete ==
    /\ Free /\ form.index \in DOMAIN form.rows
    /\ form.index # (IF IsIn(Default, form.rows) THEN Position(Default, form.rows) ELSE 1)
    /\ Selected(form) # Default /\ IsIn(Selected(form), store)
    /\ LET p == Get(Selected(form), store)
           rows == RemoveAt(form.rows, form.index)
           left == Without(p.id, store)
       IN  /\ store' = left /\ work' = <<Step("unlink", p), Step("forget", p)>>
           /\ Show([form EXCEPT !.rows = rows, !.index = 1], left)
    /\ Changes
    /\ UNCHANGED <<disk, connected, running, passwords, used, lost, astray, faults>>

\* The profile that save_settings makes of p and the fields of the window.
Submitted(p) ==
    [p EXCEPT !.server = form.server, !.keychain = form.keychain, !.look = form.look,
              !.login = IF form.auth_type \in DOMAIN form.auth_ids
                        THEN form.auth_ids[form.auth_type] ELSE NoLogin]

\* What validate asks of the fields.
Valid == form.server # NoServer

\* OK closes the window, Apply does not.
Accepted(closes) ==
    IF closes THEN form' = NoForm /\ fetches' = {} ELSE UNCHANGED <<form, fetches>>

\* save_settings, which Accepted ends.
SaveSettings(closes) ==
    /\ Free /\ Valid /\ form.index \in DOMAIN form.rows
    /\ IsIn(Selected(form), store)
    /\ LET p == Get(Selected(form), store)
           d == [GetDefault EXCEPT !.look = form.look]
       IN  work' = (IF p.id # Default THEN <<Step("truncate", d)>> ELSE <<>>)
                   \o (IF p.keychain /\ ~form.keychain THEN <<Step("forget", p)>> ELSE <<>>)
                   \o <<Step("truncate", Submitted(p))>>
    /\ Accepted(closes)
    /\ Changes /\ UNCHANGED <<disk, memory, running, passwords, used, lost, astray, faults>>

-----------------------------------------------------------------------------
(* Beside the window; what these find while a handler is at work they would also find before
   or after it, so the model lets them happen when none is *)

\* A tray menu or the status of the service names the profile in use.  The model looks at it
\* when a window is opened, and lets it change just before.
SetConnected(id) ==
    /\ Idle /\ ~form.open /\ id # connected
    /\ connected' = id
    /\ UNCHANGED <<disk, store, running, work, form, fetches, passwords, history>>

\* A login takes a copy of the profile; if it has the keychain option it will store the
\* password that the user enters.
Login(id) ==
    /\ Idle /\ IsIn(id, store) /\ Get(id, store).keychain
    /\ logins' = logins \cup {id}
    /\ UNCHANGED <<disk, memory, running, work, form, fetches, deletions, keychain, history>>

StorePassword(id) ==
    /\ Idle /\ id \in logins
    /\ logins' = logins \ {id} /\ keychain' = keychain \cup {id}
    /\ UNCHANGED <<disk, memory, running, work, form, fetches, deletions, history>>

DeletePassword(id) ==
    /\ Idle /\ id \in deletions
    /\ deletions' = deletions \ {id} /\ keychain' = keychain \ {id}
    /\ UNCHANGED <<disk, memory, running, work, form, fetches, logins, history>>

Start ==
    /\ ~running /\ running' = TRUE
    /\ store' \in Loads /\ connected' = Default
    /\ lost' = {} /\ astray' = FALSE
    /\ UNCHANGED <<disk, work, form, fetches, passwords, used, changes, faults>>

\* The program ends, tasks and all: when the user wants it to, or at any time in a crash.
Stop ==
    /\ running /\ running' = FALSE
    /\ \/ work = <<>> /\ UNCHANGED faults
       \/ work # <<>> /\ faults < MaxFaults /\ faults' = faults + 1
    /\ store' = <<>> /\ connected' = Default /\ work' = <<>>
    /\ form' = NoForm /\ fetches' = {} /\ logins' = {} /\ deletions' = {}
    /\ UNCHANGED <<disk, keychain, used, lost, astray, changes>>

Init ==
    /\ files = [f \in AllIds |-> Missing] /\ order = <<>>
    /\ store = <<>> /\ connected = Default /\ running = FALSE
    /\ work = <<>> /\ form = NoForm /\ fetches = {}
    /\ logins = {} /\ deletions = {} /\ keychain = {}
    /\ used = {} /\ lost = {} /\ astray = FALSE /\ changes = 0 /\ faults = 0

Next ==
    \/ Truncate \/ Write \/ WriteFails \/ PutInStore
    \/ Unlink \/ UnlinkFails \/ ClearOrder \/ WriteOrder \/ OrderFails \/ SpawnDeletion
    \/ Open \/ Close \/ Edit \/ FetchInfo \/ ProfileDelete \/ Start \/ Stop
    \/ \E f \in fetches : FetchDone(f)
    \/ \E i, j \in DOMAIN form.rows : ProfileReorder(i, j)
    \/ \E i \in DOMAIN form.rows : Select(i)
    \/ \E name \in Names : ProfileRename(name)
    \/ \E id \in Ids, name \in Names : ProfileNew(id, name)
    \/ \E closes \in BOOLEAN : SaveSettings(closes)
    \/ \E id \in AllIds : SetConnected(id)
    \/ \E id \in AllIds : Login(id) \/ StorePassword(id) \/ DeletePassword(id)

Spec == Init /\ [][Next]_vars

-----------------------------------------------------------------------------
(* Properties *)

TypeOK ==
    /\ \A f \in AllIds : files[f].state \in {"missing", "empty", "whole"} /\ files[f].with \in Profile
    /\ order \in Seq(AllIds)
    /\ store \in Seq(Profile) /\ connected \in AllIds
    /\ running \in BOOLEAN /\ astray \in BOOLEAN
    /\ \A i \in DOMAIN work : work[i].with \in Profile
    /\ form.rows \in Seq([id : AllIds, name : Names \cup {0}])
    /\ form.index \in Nat \ {0} /\ form.auth_type \in Nat \ {0}
    /\ fetches \subseteq [server : Servers, login : LoginTypes \cup {NoLogin}]
    /\ UNION {logins, deletions, keychain, lost} \subseteq AllIds /\ used \subseteq Ids
    /\ changes \in 0..MaxChanges /\ faults \in 0..MaxFaults

\* The file that is being written right now.
InWork == IF work # <<>> /\ Head(work).do \in {"write", "put"} THEN {Subject.file} ELSE {}

\* At every moment, so also if the program stops there or another one reads the files, the
\* file of each profile in memory says what the memory says; except for the one that is
\* being written, one whose last save failed, and a default profile that was never saved.
FilesHoldStore ==
    running =>
        \A i \in DOMAIN store :
            LET p == store[i]
            IN  \/ p.file \in InWork \cup lost
                \/ files[p.file].state = "missing" /\ p = DefaultParams
                \/ Same(Load(p.file), p)

\* A file that was truncated and never written gives its profile the identifier of the default one.
Distinct(s) == \A i, j \in DOMAIN s : s[i].id = s[j].id => i = j

\* The profile of place i in s comes back as one that the memory has.
Returns(s, i) == \E p \in Range1(store) : p.file = s[i].file /\ p.id = s[i].id

\* If the program ends now, between any two calls of a handler, and starts again, it finds
\* every profile of the memory that has a file, unless that is left truncated, and no other (but
\* for a new default profile if there is no file):
\* only the one that is just coming or going, and one whose removal failed, which the code
\* ignores, so that a deleted profile is back.
RestartKeepsProfiles ==
    running => \A s \in Loads :
        /\ \A p \in Range1(store) :
               \/ files[p.file].state = "missing"
               \/ files[p.file].state = "empty" /\ p.file \in InWork \cup lost
               \/ \E i \in DOMAIN s : s[i].file = p.file /\ s[i].id = p.id
        /\ \A i \in DOMAIN s :
               \/ \E p \in Range1(store) : p.file = s[i].file
               \/ s[i].file \in lost
               \/ work # <<>> /\ s[i].file = Subject.file
               \/ files[s[i].file].state = "missing" /\ s[i] = DefaultParams

\* They come back in the order in which the window shows them, those that the order file does
\* not list behind the others and by name.  The order is lost where the code can lose it: while
\* the file is being rewritten, until its next write after one that failed, and among profiles
\* that it does not list, which are all of them if it was left truncated.  (Profiles with one
\* identifier, that of a truncated file, are excepted.)
RestartKeepsOrder ==
    /\ running /\ Distinct(store) /\ ~astray
    /\ ~(work # <<>> /\ Head(work).do \in {"unlink", "clear", "order"})
    => \A s \in Loads : \A i, j \in {k \in DOMAIN s : Returns(s, k)} :
           i < j => \/ Position(s[i].id, store) < Position(s[j].id, store)
                    \/ ~Known(s[i].id) /\ ~Known(s[j].id)

\* The store survives what may happen to the program and to its writes.
StoreSurvives == FilesHoldStore /\ RestartKeepsProfiles /\ RestartKeepsOrder

\* Handlers find profiles by the number of a row, so the rows must be the profiles in memory
\* with their names, in the same order; only a default profile that Apply has just made may
\* be missing among them.  (Two profiles with the identifier of a broken file are excepted.)
\* And what OK and Apply save goes to the profile whose values the fields show, through
\* selections, creations, deletions, drags and late answers.  The exception is what the code
\* does when a row is dropped on the place of the selected row: the index does not change, so
\* the fields are not loaded again.
WindowFollowsStore ==
    /\ Free /\ Distinct(store) => form.rows \in {Rows(store), Without(Default, Rows(store))}
    /\ Free /\ form.index \in DOMAIN form.rows /\ ~form.dropped =>
           form.owner = Selected(form)
=============================================================================
