--------------------------- MODULE DesktopSession ---------------------------
(***************************************************************************)
(* The native window's session and the settings file it shares with the    *)
(* API (native_app.py, desktop_settings.py, the desktop routes of api.py). *)
(*                                                                         *)
(* The window's thread handles clicks and the answers that background      *)
(* operations queue for it.  It keeps a copy of the settings and writes    *)
(* the whole file from that copy; the API loads the file and writes it     *)
(* back.  A save is three steps - open and truncate .desktop-settings.tmp, *)
(* write it, rename it - and all of them use that one temporary name.      *)
(* What open handles do under a rename is as on POSIX.                     *)
(***************************************************************************)
EXTENDS Naturals, Sequences

CONSTANTS
    Users, Notebooks, Ports,
    DefaultPort,                \* of BridgeConfig
    None,                       \* no user, no notebook, no argument
    Absent, Empty, Garbled,     \* a file that is not there or not readable
    MaxEvents                   \* bound: clicks, browser requests and crashes

VARIABLES
    file,           \* desktop-settings.json
    temporary,      \* .desktop-settings.tmp
    saver,          \* save() in the window's thread, in the port operation, in the API
    account,        \* whose tokens the keyring has
    window,         \* what the application keeps
    op,             \* the background operations
    queue,          \* their answers, in the order they wait for the window's thread
    told,           \* history: what the file may hold by what the user was told
    disturbances,   \* history: what happened since the window was opened
    events          \* history: how many of MaxEvents

vars == <<file, temporary, saver, account, window, op, queue, told, disturbances, events>>

Settings == [port : Ports, notebook : Notebooks \cup {None}, user : Users \cup {None}]
Unreadable == {Absent, Empty, Garbled}

ASSUME SessionConstants ==
    /\ DefaultPort \in Ports /\ MaxEvents \in Nat
    /\ None \notin Users /\ Settings \cap Unreadable = {}

Kinds == {"start", "resume", "login", "logout", "default", "port"}
Savers == {"ui", "port", "api"}
Buttons == {"login", "default", "port"}

(* DesktopSettings.load                                                    *)
Load(port) ==
    IF file \in Unreadable THEN [port |-> port, notebook |-> None, user |-> None] ELSE file

NoSave == [step |-> "idle", value |-> Absent, at |-> "none", for |-> "none"]
NoOp == [step |-> "none", arg |-> None, value |-> Absent, ok |-> FALSE]
Begun(arg) == [NoOp EXCEPT !.step = "begun", !.arg = arg]
Gone == [phase |-> "gone", settings |-> Absent, page |-> "login", client |-> "none",
         port |-> DefaultPort, owned |-> FALSE, busy |-> {}]

Init ==
    /\ file = Absent /\ temporary = Absent
    /\ saver = [s \in Savers |-> NoSave]
    /\ account \in Users \cup {None}        \* of an earlier session
    /\ window = Gone
    /\ op = [k \in Kinds |-> NoOp]
    /\ queue = <<>>
    /\ told = {Absent}
    /\ disturbances = {}
    /\ events = 0

TypeOK ==
    /\ file \in Settings \cup Unreadable
    /\ temporary \in Settings \cup Unreadable
    /\ saver \in [Savers -> [step : {"idle", "open", "write", "replace"},
                             value : Settings \cup {Absent},
                             at : {"none", "temporary", "file", "unlinked"},
                             for : {"none", "console", "login", "stay", "port", "default",
                                    "browser"}]]
    /\ account \in Users \cup {None}
    /\ window.phase \in {"gone", "open", "closed"}
    /\ window.settings \in Settings \cup {Absent}
    /\ window.page \in {"login", "console"} /\ window.client \in {"none", "open", "closed"}
    /\ window.port \in Ports /\ window.owned \in BOOLEAN /\ window.busy \subseteq Buttons
    /\ \A k \in Kinds : op[k].step \in {"none", "begun", "session", "stored", "list", "restart",
                                        "connect", "saving", "answered"}
    (* An answer waits exactly once, for the operation it belongs to.      *)
    /\ {queue[i] : i \in DOMAIN queue} = {k \in Kinds : op[k].step = "answered"}
    /\ \A i, j \in DOMAIN queue : queue[i] = queue[j] => i = j
-----------------------------------------------------------------------------
Saving(s) == saver[s].step # "idle"
Serves == window.client = "open" /\ window.owned
UiFree == window.phase = "open" /\ ~Saving("ui")

Event == events < MaxEvents /\ events' = events + 1
Disturb(D) == disturbances' = disturbances \cup D
NoEvent == UNCHANGED events

(* What a window's save would undo or be undone by: the API has saved a    *)
(* default notebook the window has not heard of, or the port operation has *)
(* taken its own copy.                                                     *)
Outrun ==
    \/ op["default"].step = "answered" /\ op["default"].ok
    \/ op["port"].step = "answered" /\ op["port"].ok
    \/ Saving("port")

BeginSave(s, value, for) ==
    saver' = [saver EXCEPT ![s] = [step |-> "open", value |-> value, at |-> "none", for |-> for]]

SaveDisturbs(s) ==
    Disturb((IF \E r \in Savers \ {s} : Saving(r) THEN {"overlap"} ELSE {})
            \cup (IF s # "api" /\ Outrun THEN {"outrun"} ELSE {})
            \cup (IF s = "api" /\ file \in Unreadable THEN {"defaulted"} ELSE {}))

(* finished() of _run: the answer waits for the window's thread, unless    *)
(* the window is closed.                                                   *)
Answer(k, ok, value) ==
    IF window.phase = "open"
    THEN /\ op' = [op EXCEPT ![k].step = "answered", ![k].ok = ok, ![k].value = value]
         /\ queue' = Append(queue, k)
    ELSE op' = [op EXCEPT ![k] = NoOp] /\ UNCHANGED queue
Fails(k) == Answer(k, FALSE, Absent)
-----------------------------------------------------------------------------
(* DesktopSettings.save, step by step.                                     *)

(* Mutant: the file itself is opened and truncated.                        *)
SaveOpen_InPlace(s) ==
    /\ saver[s].step = "open"
    /\ file' = Empty
    /\ saver' = [saver EXCEPT ![s].step = "write", ![s].at = "file"]
    /\ UNCHANGED <<temporary, account, window, op, queue, told, disturbances, events>>

SaveOpen(s) ==
    /\ saver[s].step = "open"
    /\ temporary' = Empty
    /\ saver' = [saver EXCEPT ![s].step = "write", ![s].at = "temporary"]
    /\ UNCHANGED <<file, account, window, op, queue, told, disturbances, events>>

(* Two texts written to one file need not leave either of them.            *)
Texts(old, new) == IF old = Empty THEN {new} ELSE {new, Garbled}

SaveWrite(s) ==
    /\ saver[s].step = "write"
    /\ temporary' \in IF saver[s].at = "temporary" THEN Texts(temporary, saver[s].value)
                      ELSE {temporary}
    /\ file' \in IF saver[s].at = "file" THEN Texts(file, saver[s].value) ELSE {file}
    /\ saver' = [saver EXCEPT ![s].step = "replace"]
    /\ UNCHANGED <<account, window, op, queue, told, disturbances, events>>

(* What follows save() in each of its callers.                             *)
AfterSave(s) ==
    LET save == saver[s] IN
    CASE save.for \in {"console", "login", "stay"} ->
            /\ window' = [window EXCEPT !.page = IF save.for = "stay" THEN @ ELSE save.for]
            /\ told' = {save.value}
            /\ UNCHANGED <<op, queue, disturbances>>
      [] save.for \in {"port", "default"} ->
            /\ \/ Answer(save.for, TRUE, save.value) /\ UNCHANGED disturbances
               \/ save.for = "default" /\ Fails("default") /\ Disturb({"lost"})
            /\ told' = IF window.phase = "open" THEN told ELSE told \cup {save.value}
            /\ UNCHANGED window
      [] save.for = "browser" -> UNCHANGED <<window, told, op, queue, disturbances>>

(* os.replace: whoever still has the temporary file open goes on in the    *)
(* settings file.                                                          *)
SaveReplace(s) ==
    /\ saver[s].step = "replace"
    /\ temporary # Absent
    /\ file' = temporary /\ temporary' = Absent
    /\ saver' = [r \in Savers |->
          IF r = s THEN NoSave
          ELSE [saver[r] EXCEPT !.at = CASE @ = "temporary" -> "file"
                                         [] @ = "file" -> "unlinked"
                                         [] OTHER -> @]]
    /\ AfterSave(s)
    /\ UNCHANGED <<account, events>>

(* An OSError: the temporary file is gone, or the disk is full.  In the    *)
(* window's thread nothing after save() is done.                           *)
SaveFails(s) ==
    /\ Saving(s)
    /\ saver' = [saver EXCEPT ![s] = NoSave]
    /\ IF saver[s].for \in {"port", "default"} THEN Fails(saver[s].for)
       ELSE UNCHANGED <<op, queue>>
    /\ Disturb({"failed"})
    /\ UNCHANGED <<file, temporary, account, window, told, events>>

Save(s) == SaveOpen(s) \/ SaveWrite(s) \/ SaveReplace(s) \/ SaveFails(s)
-----------------------------------------------------------------------------
(* The background operations, each from its submission to its answer.      *)
Proceeds(k, step) == op' = [op EXCEPT ![k].step = step] /\ UNCHANGED queue

(* _start_service: any free port from the settings' port on may be taken;  *)
(* a service that runs is kept when its client cannot be built.            *)
ServiceStarts ==
    /\ op["start"].step = "begun"
    /\ \/ Fails("start") /\ UNCHANGED window
       \/ \E p \in Ports :
             /\ p >= window.settings.port
             /\ \/ /\ window' = [window EXCEPT !.port = p, !.owned = TRUE, !.client = "open"]
                   /\ Proceeds("start", "session")
                \/ window' = [window EXCEPT !.port = p, !.owned = TRUE] /\ Fails("start")
    /\ UNCHANGED <<file, temporary, saver, account, told, disturbances, events>>

(* Its last call, GET /v1/ui/session: whose tokens are stored, if any.     *)
SessionRead ==
    /\ op["start"].step = "session"
    /\ Answer("start", TRUE, account) \/ Fails("start")
    /\ UNCHANGED <<file, temporary, saver, account, window, told, disturbances, events>>

(* GET /v1/ui/notebooks: the stored tokens are read when MatElab is asked, *)
(* the answer comes later.                                                 *)
NotebooksRead ==
    /\ op["resume"].step = "begun"
    /\ \/ Serves /\ account # None /\ Proceeds("resume", "list")
       \/ Fails("resume")
    /\ UNCHANGED <<file, temporary, saver, account, window, told, disturbances, events>>

(* POST /v1/ui/login stores the tokens and reads the notebooks with what   *)
(* is stored then; it fails when they cannot be loaded.                    *)
LoginServed ==
    /\ op["login"].step = "begun"
    /\ \/ Serves /\ account' = op["login"].arg /\ Proceeds("login", "stored")
       \/ Fails("login") /\ UNCHANGED account
    /\ UNCHANGED <<file, temporary, saver, window, told, disturbances, events>>

LoginReads ==
    /\ op["login"].step = "stored"
    /\ \/ account # None /\ Proceeds("login", "list")
       \/ Fails("login")
    /\ UNCHANGED <<file, temporary, saver, account, window, told, disturbances, events>>

Listed(k) ==
    /\ op[k].step = "list"
    /\ Answer(k, TRUE, Absent) \/ Fails(k)
    /\ UNCHANGED <<file, temporary, saver, account, window, told, disturbances, events>>

(* POST /v1/ui/logout; its reply may be lost.  A login or a resumed        *)
(* session whose answer is on its way is overtaken.                        *)
LogoutServed ==
    /\ op["logout"].step = "begun"
    /\ \/ /\ Serves
          /\ account' = None
          /\ \/ Answer("logout", TRUE, Absent) /\ Disturb(
                   IF op["resume"] # NoOp \/ op["login"] # NoOp THEN {"late"} ELSE {})
             \/ Fails("logout") /\ Disturb({"lost"})
       \/ Fails("logout") /\ UNCHANGED <<account, disturbances>>
    /\ UNCHANGED <<file, temporary, saver, window, told, events>>

(* PUT /v1/ui/default-notebook asks MatElab for the notebooks ...          *)
DefaultServed ==
    /\ op["default"].step = "begun"
    /\ \/ Serves /\ account # None /\ Proceeds("default", "list")
       \/ Fails("default")
    /\ UNCHANGED <<file, temporary, saver, account, window, told, disturbances, events>>

(* ... and then loads the settings and saves them.                         *)
DefaultListed ==
    /\ op["default"].step = "list"
    /\ \/ /\ ~Saving("api")
          /\ BeginSave("api", [Load(window.port) EXCEPT !.notebook = op["default"].arg], "default")
          /\ SaveDisturbs("api")
          /\ Proceeds("default", "saving")
       \/ Fails("default") /\ UNCHANGED <<saver, disturbances>>
    /\ UNCHANGED <<file, temporary, account, window, told, events>>

(* save_port: the client is closed and the service stopped ...             *)
PortStopped ==
    /\ op["port"].step = "begun"
    /\ window' = [window EXCEPT !.client = "closed", !.owned = FALSE]
    /\ Proceeds("port", "restart")
    /\ UNCHANGED <<file, temporary, saver, account, told, disturbances, events>>

(* ... it is started again, at the port that was asked for or a later one  *)
PortRestarted ==
    /\ op["port"].step = "restart"
    /\ \E p \in Ports :
          /\ p >= op["port"].arg
          /\ \/ /\ window' = [window EXCEPT !.port = p, !.owned = TRUE]
                /\ Proceeds("port", "connect")
             \/ window' = [window EXCEPT !.port = p] /\ Fails("port")
    /\ UNCHANGED <<file, temporary, saver, account, told, disturbances, events>>

(* ... and with a new client the settings are saved, from the window's     *)
(* copy as it is now.                                                      *)
PortConnects ==
    /\ op["port"].step = "connect"
    /\ \/ /\ BeginSave("port", [window.settings EXCEPT !.port = op["port"].arg], "port")
          /\ SaveDisturbs("port")
          /\ Proceeds("port", "saving")
       \/ Fails("port") /\ UNCHANGED <<saver, disturbances>>
    /\ UNCHANGED <<file, temporary, account, window, told, events>>
-----------------------------------------------------------------------------
(* The clicks.                                                             *)
Submit(k, arg) == op' = [op EXCEPT ![k] = Begun(arg)]
Disable(b) == window' = [window EXCEPT !.busy = @ \cup {b}]

(* The window is opened: __init__                                          *)
Open ==
    /\ window.phase = "gone"
    /\ LET settings == Load(DefaultPort) IN
          window' = [Gone EXCEPT !.phase = "open", !.settings = settings, !.port = settings.port]
    /\ Submit("start", None)
    /\ told' = {file}
    /\ disturbances' = {}
    /\ UNCHANGED <<file, temporary, saver, account, queue, events>>

(* One login at a time is the bound of this model: set_error of a start or *)
(* a resumed session that failed enables the button while another login is *)
(* under way.                                                              *)
Login(u) ==
    /\ UiFree /\ window.page = "login" /\ "login" \notin window.busy
    /\ op["login"] = NoOp
    /\ Event
    /\ Disable("login")
    /\ Submit("login", u)
    /\ UNCHANGED <<file, temporary, saver, account, queue, told, disturbances>>

(* The button stays enabled; one logout at a time is a bound, too.         *)
Logout ==
    /\ UiFree /\ window.page = "console"
    /\ op["logout"] = NoOp
    /\ Event
    /\ Submit("logout", None)
    /\ UNCHANGED <<file, temporary, saver, account, window, queue, told, disturbances>>

SaveDefaultNotebook(n) ==
    /\ UiFree /\ window.page = "console" /\ "default" \notin window.busy
    /\ Event
    /\ Disable("default")
    /\ Submit("default", n)
    /\ UNCHANGED <<file, temporary, saver, account, queue, told, disturbances>>

(* The port in use is only saved; for another one the API is restarted,    *)
(* if it is the window's own.                                              *)
SavePort(p) ==
    /\ UiFree /\ window.page = "console" /\ "port" \notin window.busy
    /\ Event
    /\ \/ LET settings == [window.settings EXCEPT !.port = p] IN
             /\ p = window.port
             /\ window' = [window EXCEPT !.settings = settings]
             /\ BeginSave("ui", settings, "stay")
             /\ SaveDisturbs("ui")
             /\ UNCHANGED op
       \/ /\ p # window.port /\ window.owned
          /\ Disable("port")
          /\ Submit("port", p)
          /\ UNCHANGED <<saver, disturbances>>
    /\ UNCHANGED <<file, temporary, account, queue, told>>
-----------------------------------------------------------------------------
(* The answers, in the window's thread.                                    *)
Takes(k) == UiFree /\ queue # <<>> /\ Head(queue) = k /\ queue' = Tail(queue)
Done(k) == op' = [op EXCEPT ![k] = NoOp]

(* Mutant: after a failure the button stays as it is.                      *)
Enable_Forgotten(b) == UNCHANGED window

Enable(b) == window' = [window EXCEPT !.busy = @ \ {b}]

(* _service_ready: a session that is logged in is resumed; and             *)
(* _service_start_failed, which closes a second window like Close does.    *)
StartAnswered ==
    /\ Takes("start")
    /\ \/ /\ op["start"].ok /\ op["start"].value # None
          /\ op' = [op EXCEPT !["start"] = NoOp, !["resume"] = Begun(None)]
          /\ UNCHANGED window
       \/ /\ op["start"].ok /\ op["start"].value = None
          /\ Done("start") /\ UNCHANGED window
       \/ ~op["start"].ok /\ Done("start") /\ Enable("login")
    /\ UNCHANGED <<file, temporary, saver, account, told, disturbances, events>>

ResumeAnswered ==
    /\ Takes("resume")
    /\ IF op["resume"].ok THEN window' = [window EXCEPT !.page = "console"] ELSE Enable("login")
    /\ Done("resume")
    /\ UNCHANGED <<file, temporary, saver, account, told, disturbances, events>>

(* The recorded user is saved before the page is changed.                  *)
RecordUser(u, busy, page) ==
    LET settings == [window.settings EXCEPT !.user = u] IN
    /\ window' = [window EXCEPT !.settings = settings, !.busy = busy]
    /\ BeginSave("ui", settings, page)
    /\ SaveDisturbs("ui")

LoginAnswered ==
    /\ Takes("login")
    /\ IF op["login"].ok THEN RecordUser(op["login"].arg, window.busy \ {"login"}, "console")
       ELSE Enable("login") /\ UNCHANGED <<saver, disturbances>>
    /\ Done("login")
    /\ UNCHANGED <<file, temporary, account, told, events>>

(* Mutant: the window's page stays.                                        *)
LogoutAnswered_Stays ==
    /\ Takes("logout")
    /\ IF op["logout"].ok THEN RecordUser(None, window.busy, "stay")
       ELSE UNCHANGED <<window, saver, disturbances>>
    /\ Done("logout")
    /\ UNCHANGED <<file, temporary, account, told, events>>

LogoutAnswered ==
    /\ Takes("logout")
    /\ IF op["logout"].ok THEN RecordUser(None, window.busy, "login")
       ELSE UNCHANGED <<window, saver, disturbances>>
    /\ Done("logout")
    /\ UNCHANGED <<file, temporary, account, told, events>>

(* Mutant: the window's copy of the settings is not brought up to date.    *)
DefaultAnswered_Forgets ==
    /\ Takes("default")
    /\ Enable("default")
    /\ told' = IF op["default"].ok THEN {op["default"].value} ELSE told
    /\ Done("default")
    /\ UNCHANGED <<file, temporary, saver, account, disturbances, events>>

DefaultAnswered ==
    /\ Takes("default")
    /\ IF op["default"].ok
       THEN /\ window' = [window EXCEPT !.busy = @ \ {"default"},
                                        !.settings.notebook = op["default"].arg]
            /\ told' = {op["default"].value}
       ELSE Enable("default") /\ UNCHANGED told
    /\ Done("default")
    /\ UNCHANGED <<file, temporary, saver, account, disturbances, events>>

PortAnswered ==
    /\ Takes("port")
    /\ IF op["port"].ok
       THEN /\ window' = [window EXCEPT !.busy = @ \ {"port"}, !.client = "open",
                                        !.settings = op["port"].value]
            /\ told' = {op["port"].value}
       ELSE Enable("port") /\ UNCHANGED told
    /\ Done("port")
    /\ UNCHANGED <<file, temporary, saver, account, disturbances, events>>
-----------------------------------------------------------------------------
(* What the user may find in the file after a crash, besides told.         *)
Pending ==
    {saver[s].value : s \in {r \in Savers : Saving(r)}}
    \cup {op[k].value : k \in {j \in {"default", "port"} : op[j].step = "answered" /\ op[j].ok}}

Ends ==
    /\ window' = Gone
    /\ saver' = [s \in Savers |-> NoSave]
    /\ op' = [k \in Kinds |-> NoOp]
    /\ queue' = <<>>
    /\ told' = told \cup Pending
    /\ UNCHANGED <<file, temporary, account, disturbances>>

(* Mutant: the waiting answers are forgotten in the queue.                 *)
Close_KeepsQueue ==
    /\ UiFree
    /\ Event
    /\ window' = [window EXCEPT !.phase = "closed", !.owned = FALSE,
                     !.client = IF @ = "none" THEN @ ELSE "closed"]
    /\ op' = [k \in Kinds |-> IF op[k].step = "answered" THEN NoOp ELSE op[k]]
    /\ told' = told \cup Pending
    /\ UNCHANGED <<file, temporary, saver, account, queue, disturbances>>

(* close(): waiting answers are dropped, running operations go on.         *)
Close ==
    /\ UiFree
    /\ Event
    /\ window' = [window EXCEPT !.phase = "closed", !.owned = FALSE,
                     !.client = IF @ = "none" THEN @ ELSE "closed"]
    /\ op' = [k \in Kinds |-> IF op[k].step = "answered" THEN NoOp ELSE op[k]]
    /\ queue' = <<>>
    /\ told' = told \cup Pending
    /\ UNCHANGED <<file, temporary, saver, account, disturbances>>

(* The process waits for its background threads, not for the API's.        *)
ProcessEnds ==
    /\ window.phase = "closed"
    /\ \A k \in Kinds : op[k] = NoOp
    /\ Ends
    /\ UNCHANGED events

Crash == window.phase # "gone" /\ Event /\ Ends

(* Somebody uses the web console of the same service, or the auth commands. *)
BrowserDefault(n) ==
    /\ window.owned /\ account # None
    /\ ~Saving("api")
    /\ Event
    /\ BeginSave("api", [Load(window.port) EXCEPT !.notebook = n], "browser")
    /\ Disturb({"browser"})
    /\ UNCHANGED <<file, temporary, account, window, op, queue, told>>

ElsewhereSignedIn(a) ==
    /\ Event
    /\ account' = a
    /\ Disturb(IF a = None THEN {"signedOut"} ELSE {})
    /\ UNCHANGED <<file, temporary, saver, window, op, queue, told>>

Background ==
    \/ ServiceStarts \/ SessionRead \/ NotebooksRead \/ Listed("resume")
    \/ LoginServed \/ LoginReads \/ Listed("login")
    \/ LogoutServed \/ DefaultServed \/ DefaultListed \/ PortStopped \/ PortRestarted \/ PortConnects

TakeAnswer ==
    StartAnswered \/ ResumeAnswered \/ LoginAnswered \/ LogoutAnswered \/ DefaultAnswered \/ PortAnswered

Next ==
    \/ Background
    \/ TakeAnswer
    \/ \E s \in Savers : Save(s)
    \/ Open \/ Close \/ ProcessEnds \/ Crash \/ Logout
    \/ \E u \in Users : Login(u)
    \/ \E n \in Notebooks : SaveDefaultNotebook(n) \/ BrowserDefault(n)
    \/ \E p \in Ports : SavePort(p)
    \/ \E a \in Users \cup {None} : ElsewhereSignedIn(a)

Spec == Init /\ [][Next]_vars

(* Every request has a time limit, and the window's thread runs its loop.  *)
FairSpec ==
    /\ Spec
    /\ WF_vars(TakeAnswer)
    /\ WF_vars(ServiceStarts \/ SessionRead) /\ WF_vars(NotebooksRead \/ Listed("resume"))
    /\ WF_vars(LoginServed \/ LoginReads \/ Listed("login")) /\ WF_vars(LogoutServed)
    /\ WF_vars(DefaultServed \/ DefaultListed)
    /\ WF_vars(PortStopped \/ PortRestarted \/ PortConnects)
    /\ \A s \in Savers : WF_vars(Save(s))
-----------------------------------------------------------------------------
Undisturbed(D) == disturbances \cap D = {}

(* Wherever the process dies, the settings file is what the user was last  *)
(* told is saved, or the change that was being made: it is never torn and  *)
(* never goes back - as long as no two saves overlap, no window's save     *)
(* meets a default notebook it has not heard of, and the browser is left   *)
(* alone.                                                                  *)
FileIsTold == Undisturbed({"overlap", "outrun", "lost", "browser"}) => file \in told \cup Pending

(* An idle window's copy, which its next save will write, is the file.     *)
WindowKnowsFile ==
    Undisturbed({"overlap", "outrun", "lost", "browser", "failed", "defaulted"})
    /\ window.phase = "open" /\ Pending = {} =>
        Load(DefaultPort) = window.settings

(* The console is shown only while somebody is signed in, or until the     *)
(* window has handled the logout - unless an earlier login's answer, or a  *)
(* resumed session's, comes after it.                                      *)
ConsoleIsSignedIn ==
    Undisturbed({"late", "lost", "failed", "signedOut"}) /\ window.phase = "open"
    /\ window.page = "console" =>
        account # None \/ op["logout"].step = "answered" \/ saver["ui"].for = "login"

(* Whatever fails, a button that was disabled is enabled again.            *)
ButtonsReturn ==
    \A b \in Buttons : b \in window.busy ~> window.phase # "open" \/ b \notin window.busy

(* What docs/error-handling.md says of the native console: without a login *)
(* the login page stays - also when an answer comes late.                  *)
LateAnswersIgnored ==
    Undisturbed({"lost", "failed", "signedOut"}) /\ window.phase = "open"
    /\ window.page = "console" =>
        account # None \/ op["logout"].step = "answered" \/ saver["ui"].for = "login"

(* What docs/operations.md says of the default notebook: the selection is  *)
(* stored - and nothing but another selection, in the API, changes it.     *)
DefaultKept ==
    [][({file, file'} \subseteq Settings /\ file'.notebook # file.notebook)
          => saver["api"].step = "replace" /\ saver'["api"] = NoSave]_vars

(* A window whose restart of the API failed gets a usable client again.    *)
WindowRecovers == window.client = "closed" ~> window.phase # "open" \/ window.client = "open"
=============================================================================
