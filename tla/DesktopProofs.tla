---------------------------- MODULE DesktopProofs ----------------------------
(***************************************************************************)
(* The settings file and the session of the window, for any number of      *)
(* users, notebooks, ports, clicks and crashes.                            *)
(*                                                                         *)
(* Saves do not overlap unless that is recorded as a disturbance (OneSave),*)
(* so what a save renames is what it wrote (Handles).  The file is then    *)
(* what the last answer said that the window has handled or that waits for *)
(* it, and the answers wait in the order in which the file was written     *)
(* (Kept, InOrder); what the window's copy will be once it has handled     *)
(* them is the file (Knows).  Signed in is known of a login or a resumed   *)
(* session that is under way, and of the console (Session).                *)
(***************************************************************************)
EXTENDS DesktopSession, TLAPS

SaveStates ==
    [step : {"idle", "open", "write", "replace"},
     value : Settings \cup {Absent}, at : {"none", "temporary", "file", "unlinked"},
     for : {"none", "console", "login", "stay", "port", "default", "browser"}]
OpSteps ==
    {"none", "begun", "session", "stored", "list", "restart", "connect", "saving", "answered"}
Args == Users \cup Notebooks \cup Ports \cup {None}
Values == Settings \cup Users \cup {Absent, None}
OpStates == [step : OpSteps, arg : Args, value : Values, ok : BOOLEAN]
WindowStates ==
    [phase : {"gone", "open", "closed"}, settings : Settings \cup {Absent},
     page : {"login", "console"}, client : {"none", "open", "closed"},
     port : Ports, owned : BOOLEAN, busy : SUBSET Buttons]

Told(k) == op[k].step = "answered" /\ op[k].ok

(* What a background operation has in hand.                                *)
Fits(k, o) ==
    /\ o \in OpStates
    /\ o.step # "none" => /\ k = "login" => o.arg \in Users
                          /\ k = "default" => o.arg \in Notebooks
                          /\ k = "port" => o.arg \in Ports
    /\ k \in {"default", "port"} /\ o.step = "answered" /\ o.ok => o.value \in Settings

Operations ==
    /\ op \in [Kinds -> OpStates]
    /\ \A k \in Kinds : Fits(k, op[k])
    /\ op["start"].step # "none" => op["resume"].step = "none"

(* An answer waits exactly once.                                           *)
Waiting ==
    /\ queue \in Seq(Kinds)
    /\ \A k \in Kinds : (\E i \in DOMAIN queue : queue[i] = k) <=> op[k].step = "answered"
    /\ \A i, j \in DOMAIN queue : queue[i] = queue[j] => i = j

Saves ==
    /\ saver \in [Savers -> SaveStates]
    /\ \A s \in Savers : IF Saving(s) THEN saver[s].value \in Settings ELSE saver[s] = NoSave
    /\ Saving("ui") => saver["ui"].for \in {"console", "login", "stay"}
    /\ Saving("port") => saver["port"].for = "port"
    /\ Saving("port") <=> op["port"].step = "saving"
    /\ Saving("api") => saver["api"].for \in {"default", "browser"}
    /\ saver["api"].for = "default" <=> op["default"].step = "saving"

Windows ==
    /\ window \in WindowStates
    /\ window.phase # "gone" => window.settings \in Settings
    /\ window.phase = "gone" =>
          /\ ~window.owned
          /\ \A k \in Kinds : op[k].step = "none"
          /\ \A s \in Savers : ~Saving(s)
    /\ window.phase # "open" => \A k \in Kinds : op[k].step # "answered"
    /\ \A k \in {"default", "port"} :
          window.phase = "open" /\ op[k].step # "none" => k \in window.busy

Shape ==
    /\ file \in Settings \cup Unreadable /\ temporary \in Settings \cup Unreadable
    /\ account \in Users \cup {None}
    /\ Operations /\ Waiting /\ Saves /\ Windows

OneSave ==
    Undisturbed({"overlap", "browser"}) =>
        /\ \A r, s \in Savers : Saving(r) /\ Saving(s) => r = s
        /\ saver["api"].for # "browser"

Handles ==
    Undisturbed({"overlap", "browser"}) =>
        \A s \in Savers :
            /\ saver[s].step = "write" => saver[s].at = "temporary" /\ temporary = Empty
            /\ saver[s].step = "replace" => temporary = saver[s].value

InOrder ==
    \A i, j \in DOMAIN queue :
        queue[i] = "default" /\ queue[j] = "port" /\ Told("default") /\ Told("port") => j < i

Written == {op[k].value : k \in {j \in {"default", "port"} : Told(j)}}

Kept ==
    Undisturbed({"overlap", "outrun", "lost", "browser"}) =>
        /\ file \in told \cup Written
        /\ Told("default") => file = op["default"].value
        /\ Told("port") /\ ~Told("default") => file = op["port"].value
        /\ Saving("ui") \/ Saving("port") => ~Told("default") /\ ~Told("port")
        /\ InOrder

(* The window's copy when it will have handled what waits.                 *)
Coming ==
    LET copy == IF Told("port") THEN op["port"].value ELSE window.settings IN
    IF Told("default") THEN [copy EXCEPT !.notebook = op["default"].arg] ELSE copy

Knows ==
    Undisturbed({"overlap", "outrun", "lost", "browser", "failed", "defaulted"})
    /\ window.phase = "open" =>
        /\ IF Saving("ui") THEN saver["ui"].value = window.settings
           ELSE Load(DefaultPort) = Coming
        /\ saver["api"].for = "default" =>
              /\ file \in Settings
              /\ saver["api"].value = [file EXCEPT !.notebook = op["default"].arg]

LoggingIn == op["login"].step \in {"stored", "list"} \/ Told("login")
Resuming == op["resume"].step = "list" \/ Told("resume")

Session ==
    Undisturbed({"late", "lost", "failed", "signedOut"}) /\ window.phase = "open" =>
        /\ LoggingIn \/ Resuming => account # None
        /\ window.page = "console" \/ saver["ui"].for = "console" =>
              account # None \/ Told("logout") \/ saver["ui"].for = "login"

FileInv == Shape /\ OneSave /\ Handles /\ Kept /\ Knows
DesktopInv == FileInv /\ Session
-----------------------------------------------------------------------------
LEMMA Constants ==
    /\ \A x \in Settings : x \notin Unreadable
    /\ Settings \cup {Absent} \subseteq Settings \cup Unreadable
    /\ Absent \in Unreadable /\ Empty \in Unreadable /\ Garbled \in Unreadable
    /\ DefaultPort \in Ports /\ None \notin Users
BY SessionConstants DEF Unreadable

LEMMA ShapeTypes == Shape => TypeOK
<1>. SUFFICES ASSUME Shape PROVE TypeOK
  OBVIOUS
<1>1. /\ {queue[i] : i \in DOMAIN queue} = {k \in Kinds : op[k].step = "answered"}
      /\ \A i, j \in DOMAIN queue : queue[i] = queue[j] => i = j
  <2>1. \A i \in DOMAIN queue : queue[i] \in Kinds
    BY DEF Shape, Waiting
  <2>. QED  BY <2>1 DEF Shape, Waiting
<1>2. \A k \in Kinds : op[k].step \in OpSteps
  BY DEF Shape, Operations, OpStates
<1>. QED  BY <1>1, <1>2 DEF Shape, TypeOK, Saves, SaveStates, Windows, WindowStates, OpSteps

LEMMA NoOpFits == NoOp \in OpStates /\ NoOp.step = "none" /\ \A k \in Kinds : Fits(k, NoOp)
<1>1. NoOp \in OpStates /\ NoOp.step = "none"
  BY DEF NoOp, OpStates, OpSteps, Args, Values
<1>. QED  BY <1>1 DEF Fits

LEMMA GoneIs ==
    /\ Gone \in WindowStates /\ ~Gone.owned /\ Gone.phase = "gone" /\ Gone.busy = {} /\ Gone.page = "login"
    /\ NoSave \in SaveStates /\ NoSave.step = "idle" /\ NoSave.for = "none"
BY Constants DEF Gone, WindowStates, NoSave, SaveStates

LEMMA DesktopInitial == Init => DesktopInv
<1>. SUFFICES ASSUME Init PROVE DesktopInv
  OBVIOUS
<1>1. /\ \A k \in Kinds : op[k] = NoOp /\ op[k].step = "none"
      /\ \A s \in Savers : saver[s] = NoSave /\ ~Saving(s)
  BY NoOpFits, GoneIs DEF Init, Saving
<1>2. Operations
  BY <1>1, NoOpFits DEF Init, Operations, Kinds
<1>3. Waiting
  BY <1>1 DEF Init, Waiting
<1>4. Saves
  <2>1. saver \in [Savers -> SaveStates]
    BY GoneIs DEF Init
  <2>. QED  BY <1>1, <2>1, GoneIs DEF Saves, Savers, Kinds
<1>5. Windows
  BY <1>1, GoneIs DEF Init, Windows
<1>6. Shape
  BY <1>2, <1>3, <1>4, <1>5, Constants DEF Shape, Init
<1>7. OneSave /\ Handles
  BY <1>1, GoneIs DEF OneSave, Handles, Savers
<1>8. Kept
  <2>1. InOrder
    BY DEF Init, InOrder
  <2>2. ~Told("default") /\ ~Told("port") /\ ~Saving("ui") /\ ~Saving("port")
    BY <1>1 DEF Told, Kinds, Savers
  <2>. QED  BY <2>1, <2>2 DEF Kept, Init
<1>9. Knows /\ Session
  <2>1. ~LoggingIn /\ ~Resuming
    BY <1>1 DEF LoggingIn, Resuming, Told, Kinds
  <2>. QED  BY <2>1, GoneIs DEF Init, Knows, Session
<1>. QED  BY <1>6, <1>7, <1>8, <1>9 DEF DesktopInv, FileInv
-----------------------------------------------------------------------------
(* The queue of answers.                                                   *)
LEMMA QueueGrows ==
    ASSUME Waiting, NEW k \in Kinds, op[k].step # "answered", queue' = Append(queue, k),
           op'[k].step = "answered",
           \A j \in Kinds \ {k} : op'[j].step = op[j].step
    PROVE  Waiting'
<1>. DEFINE n == Len(queue)
<1>1. /\ n \in Nat /\ DOMAIN queue = 1..n /\ DOMAIN queue' = 1..(n + 1)
      /\ queue' \in Seq(Kinds) /\ queue'[n + 1] = k
      /\ \A i \in 1..n : queue'[i] = queue[i] /\ i \in 1..(n + 1)
      /\ \A i \in 1..(n + 1) : i \in 1..n \/ i = n + 1
      /\ n + 1 \in 1..(n + 1)
  BY DEF Waiting
<1>. HIDE DEF n
<1>2. \A i \in 1..n : queue[i] # k
  BY <1>1 DEF Waiting
<1>3. ASSUME NEW j \in Kinds
      PROVE  (\E i \in DOMAIN queue' : queue'[i] = j) <=> op'[j].step = "answered"
  <2>1. CASE j = k
    BY <1>1, <2>1
  <2>2. CASE j # k
    BY <1>1, <2>2 DEF Waiting
  <2>. QED  BY <2>1, <2>2
<1>4. \A i, j \in DOMAIN queue' : queue'[i] = queue'[j] => i = j
  BY <1>1, <1>2 DEF Waiting
<1>. QED  BY <1>1, <1>3, <1>4 DEF Waiting

LEMMA TailIs ==
    ASSUME NEW T, NEW q \in Seq(T), q # <<>>
    PROVE  /\ Len(q) \in Nat \ {0} /\ Head(q) = q[1] /\ Head(q) \in T /\ Tail(q) \in Seq(T)
           /\ DOMAIN q = 1..Len(q) /\ DOMAIN Tail(q) = 1..(Len(q) - 1)
           /\ \A i \in 1..(Len(q) - 1) : Tail(q)[i] = q[i + 1] /\ i + 1 \in 1..Len(q)
           /\ \A i \in 1..Len(q) : i = 1 \/ i - 1 \in 1..(Len(q) - 1)
OBVIOUS

LEMMA QueueShrinks ==
    ASSUME Waiting, queue # <<>>, queue' = Tail(queue), op'[Head(queue)].step # "answered",
           \A j \in Kinds \ {Head(queue)} :
               op'[j].step = op[j].step \/ (op[j].step # "answered" /\ op'[j].step # "answered")
    PROVE  Waiting'
<1>. DEFINE n == Len(queue)
<1>1. /\ n \in Nat \ {0} /\ Head(queue) = queue[1] /\ queue' \in Seq(Kinds)
      /\ DOMAIN queue = 1..n /\ DOMAIN queue' = 1..(n - 1)
      /\ \A i \in 1..(n - 1) : queue'[i] = queue[i + 1] /\ i + 1 \in 1..n
      /\ \A i \in 1..n : i = 1 \/ i - 1 \in 1..(n - 1)
  BY TailIs DEF Waiting
<1>. HIDE DEF n
<1>2. 1 \in 1..n /\ queue[1] \in Kinds
  BY <1>1 DEF Waiting
<1>3. ASSUME NEW j \in Kinds
      PROVE  (\E i \in DOMAIN queue' : queue'[i] = j) <=> op'[j].step = "answered"
  <2>1. CASE j = queue[1]
    <3>1. ASSUME NEW i \in 1..(n - 1), queue'[i] = j PROVE FALSE
      <4>1. queue[i + 1] = queue[1] /\ i + 1 \in DOMAIN queue /\ 1 \in DOMAIN queue
        BY <1>1, <1>2, <2>1, <3>1
      <4>2. i + 1 = 1
        BY <4>1 DEF Waiting
      <4>. QED  BY <1>1, <4>2
    <3>. QED  BY <1>1, <2>1, <3>1
  <2>2. CASE j # queue[1]
    <3>1. (\E i \in 1..(n - 1) : queue'[i] = j) <=> (\E i \in 1..n : queue[i] = j)
      <4>1. ASSUME NEW i \in 1..n, queue[i] = j PROVE \E m \in 1..(n - 1) : queue'[m] = j
        <5>1. i - 1 \in 1..(n - 1) /\ (i - 1) + 1 = i
          BY <1>1, <2>2, <4>1
        <5>2. queue'[i - 1] = queue[i]
          BY <1>1, <5>1
        <5>. QED  BY <4>1, <5>1, <5>2
      <4>. QED  BY <1>1, <4>1
    <3>. QED  BY <1>1, <2>2, <3>1 DEF Waiting
  <2>. QED  BY <2>1, <2>2
<1>4. ASSUME NEW i \in DOMAIN queue', NEW j \in DOMAIN queue', queue'[i] = queue'[j]
      PROVE  i = j
  <2>1. i \in 1..(n - 1) /\ j \in 1..(n - 1)
    BY <1>1, <1>4
  <2>2. i + 1 \in DOMAIN queue /\ j + 1 \in DOMAIN queue /\ queue[i + 1] = queue[j + 1]
    BY <1>1, <1>4, <2>1
  <2>3. i \in Nat /\ j \in Nat
    BY <1>1, <2>1
  <2>4. i + 1 = j + 1
    BY <2>2 DEF Waiting
  <2>. QED  BY <2>3, <2>4
<1>. QED  BY <1>1, <1>3, <1>4 DEF Waiting

LEMMA QueueStays ==
    ASSUME Waiting, queue' = queue,
           \A j \in Kinds : op'[j].step = op[j].step
                             \/ (op[j].step # "answered" /\ op'[j].step # "answered")
    PROVE  Waiting'
BY DEF Waiting

(* The order of the two answers that the file was written for.             *)
LEMMA OrderStays ==
    ASSUME Waiting, InOrder,
           op'["default"].step = "answered" /\ op'["default"].ok => Told("default"),
           op'["port"].step = "answered" /\ op'["port"].ok => Told("port"),
           \/ queue' = queue
           \/ queue # <<>> /\ queue' = Tail(queue)
           \/ \E k \in Kinds : /\ queue' = Append(queue, k)
                               /\ k \notin {"default", "port"} \/ ~op'[k].ok
    PROVE  InOrder'
<1>. SUFFICES ASSUME NEW i \in DOMAIN queue', NEW j \in DOMAIN queue',
                     queue'[i] = "default", queue'[j] = "port",
                     op'["default"].step = "answered" /\ op'["default"].ok,
                     op'["port"].step = "answered" /\ op'["port"].ok
              PROVE  j < i
  BY DEF InOrder, Told
<1>1. Told("default") /\ Told("port")
  OBVIOUS
<1>2. CASE queue' = queue
  BY <1>1, <1>2 DEF InOrder
<1>3. CASE queue # <<>> /\ queue' = Tail(queue)
  <2>1. /\ i + 1 \in DOMAIN queue /\ j + 1 \in DOMAIN queue /\ i \in Nat /\ j \in Nat
        /\ queue[i + 1] = "default" /\ queue[j + 1] = "port"
    BY <1>3, TailIs DEF Waiting
  <2>2. j + 1 < i + 1
    BY <1>1, <2>1 DEF InOrder
  <2>. QED  BY <2>1, <2>2
<1>4. ASSUME NEW k \in Kinds, queue' = Append(queue, k), k \notin {"default", "port"} \/ ~op'[k].ok
      PROVE  j < i
  <2>. DEFINE n == Len(queue)
  <2>1. /\ n \in Nat /\ DOMAIN queue = 1..n /\ DOMAIN queue' = 1..(n + 1)
        /\ queue'[n + 1] = k /\ \A m \in 1..n : queue'[m] = queue[m]
        /\ \A m \in 1..(n + 1) : m = n + 1 \/ m \in 1..n
    BY <1>4 DEF Waiting
  <2>. HIDE DEF n
  <2>2. k # "default" /\ k # "port"
    BY <1>4
  <2>3. i # n + 1 /\ j # n + 1
    BY <2>1, <2>2
  <2>4. i \in DOMAIN queue /\ j \in DOMAIN queue
    BY <2>1, <2>3
  <2>5. queue[i] = "default" /\ queue[j] = "port"
    BY <2>1, <2>4
  <2>. QED  BY <1>1, <2>4, <2>5 DEF InOrder
<1>. QED  BY <1>2, <1>3, <1>4
-----------------------------------------------------------------------------
(* One operation goes on, and its answer waits or is taken.                *)
Turns(k, o) ==
    /\ op' = [op EXCEPT ![k] = o]
    /\ Fits(k, o)
    /\ \/ queue' = queue /\ op[k].step # "answered" /\ o.step # "answered"
       \/ queue' = Append(queue, k) /\ op[k].step # "answered" /\ o.step = "answered"
       \/ queue # <<>> /\ Head(queue) = k /\ queue' = Tail(queue) /\ o.step # "answered"
    /\ o.step = "none" \/ k \notin {"start", "resume"} \/ op[k].step # "none"

LEMMA OneOp ==
    ASSUME Shape, NEW k \in Kinds, NEW o, Turns(k, o)
    PROVE  /\ Operations' /\ Waiting'
           /\ op'[k] = o /\ \A j \in Kinds \ {k} : op'[j] = op[j]
<1>1. op'[k] = o /\ \A j \in Kinds \ {k} : op'[j] = op[j]
  BY DEF Turns, Shape, Operations
<1>2. Operations'
  <2>1. op' \in [Kinds -> OpStates]
    BY DEF Turns, Shape, Operations, Fits
  <2>2. ASSUME NEW j \in Kinds PROVE Fits(j, op'[j])
    <3>1. CASE j = k
      BY <1>1, <3>1 DEF Turns
    <3>2. CASE j # k
      BY <1>1, <3>2 DEF Shape, Operations
    <3>. QED  BY <3>1, <3>2
  <2>3. op'["start"].step # "none" => op'["resume"].step = "none"
    BY <1>1 DEF Turns, Shape, Operations, Kinds
  <2>. QED  BY <2>1, <2>2, <2>3 DEF Operations
<1>3. Waiting'
  <2>1. CASE queue' = queue /\ op[k].step # "answered" /\ o.step # "answered"
    BY <1>1, <2>1, QueueStays DEF Shape
  <2>2. CASE queue' = Append(queue, k) /\ op[k].step # "answered" /\ o.step = "answered"
    BY <1>1, <2>2, QueueGrows DEF Shape
  <2>3. CASE queue # <<>> /\ Head(queue) = k /\ queue' = Tail(queue) /\ o.step # "answered"
    BY <1>1, <2>3, QueueShrinks DEF Shape
  <2>. QED  BY <2>1, <2>2, <2>3 DEF Turns
<1>. QED  BY <1>1, <1>2, <1>3

Answered(k, ok, value) == [op[k] EXCEPT !.step = "answered", !.ok = ok, !.value = value]
Outcome(k, ok, value) == IF window.phase = "open" THEN Answered(k, ok, value) ELSE NoOp

LEMMA AnswerTurns ==
    ASSUME Shape, NEW k \in Kinds, NEW ok \in BOOLEAN, NEW value \in Values,
           Answer(k, ok, value), op[k].step \notin {"none", "answered"},
           k \in {"default", "port"} /\ ok => value \in Settings
    PROVE  Turns(k, Outcome(k, ok, value))
<1>1. CASE window.phase = "open"
  <2>. DEFINE o == Answered(k, ok, value)
  <2>1. op[k] \in OpStates /\ Fits(k, op[k])
    BY DEF Shape, Operations
  <2>2. o \in OpStates /\ o.step = "answered" /\ o.arg = op[k].arg /\ o.ok = ok /\ o.value = value
    BY <2>1 DEF Answered, OpStates, OpSteps
  <2>3. op' = [op EXCEPT ![k] = o] /\ queue' = Append(queue, k)
    BY <1>1, <2>1 DEF Answer, Answered, Shape, Operations
  <2>. HIDE DEF o
  <2>4. Fits(k, o)
    BY <2>1, <2>2 DEF Fits
  <2>5. Turns(k, o)
    BY <2>2, <2>3, <2>4 DEF Turns
  <2>. QED  BY <1>1, <2>5 DEF Outcome, o
<1>2. CASE window.phase # "open"
  BY <1>2, NoOpFits DEF Answer, Outcome, Turns
<1>. QED  BY <1>1, <1>2

LEMMA Answers ==
    ASSUME Shape, NEW k \in Kinds, NEW ok \in BOOLEAN, NEW value
    PROVE  /\ window.phase = "open" =>
                 /\ Outcome(k, ok, value).step = "answered" /\ Outcome(k, ok, value).ok = ok
                 /\ Outcome(k, ok, value).value = value /\ Outcome(k, ok, value).arg = op[k].arg
           /\ window.phase # "open" =>
                 Outcome(k, ok, value).step = "none" /\ ~Outcome(k, ok, value).ok
BY DEF Outcome, Answered, Shape, Operations, OpStates, NoOp
-----------------------------------------------------------------------------
(* Steps that leave the file, the saves and what was told alone.           *)
QueueMoves ==
    \/ queue' = queue
    \/ queue # <<>> /\ queue' = Tail(queue)
    \/ \E k \in Kinds : queue' = Append(queue, k) /\ (k \notin {"default", "port"} \/ ~op'[k].ok)

(* What the file was, or is being, written for stays.                      *)
Same(k) ==
    IF Told(k) \/ op[k].step = "saving" THEN op'[k] = op[k]
    ELSE op'[k].step # "saving" /\ ~(op'[k].step = "answered" /\ op'[k].ok)

SameWindow ==
    /\ window' \in WindowStates
    /\ window'.phase = window.phase /\ window'.settings = window.settings
    /\ window.phase = "gone" => ~window'.owned /\ \A k \in Kinds : op'[k].step = "none"
    /\ window.phase # "open" => \A k \in Kinds : op'[k].step # "answered"
    /\ \A k \in {"default", "port"} :
          window.phase = "open" /\ op'[k].step # "none" => k \in window'.busy

Rest == <<file, temporary, saver, told>>

LEMMA QuietStep ==
    ASSUME DesktopInv, Operations', Waiting', UNCHANGED Rest, account' \in Users \cup {None},
           disturbances \subseteq disturbances', QueueMoves, SameWindow,
           Same("default"), Same("port")
    PROVE  FileInv'
<1>. USE DEF Rest
<1>1. \A s \in Savers : saver'[s] = saver[s]
  OBVIOUS
<1>2. /\ (op'["default"].step = "answered" /\ op'["default"].ok) <=> Told("default")
      /\ (op'["port"].step = "answered" /\ op'["port"].ok) <=> Told("port")
      /\ Told("default") \/ op["default"].step = "saving" => op'["default"] = op["default"]
      /\ Told("port") => op'["port"] = op["port"]
      /\ op'["default"].step = "saving" <=> op["default"].step = "saving"
      /\ op'["port"].step = "saving" <=> op["port"].step = "saving"
  BY DEF Same, Told
<1>3. Shape'
  <2>1. Saves'
    BY <1>2 DEF DesktopInv, FileInv, Shape, Saves, Saving
  <2>2. Windows'
    BY DEF DesktopInv, FileInv, Shape, Windows, SameWindow, Saving
  <2>. QED  BY <2>1, <2>2 DEF DesktopInv, FileInv, Shape
<1>4. OneSave' /\ Handles'
  BY DEF DesktopInv, FileInv, OneSave, Handles, Undisturbed, Saving
<1>5. Written' = Written
  BY <1>2 DEF Written, Told
<1>6. ASSUME Undisturbed({"overlap", "outrun", "lost", "browser"}) PROVE InOrder'
  <2>1. InOrder /\ Waiting
    BY <1>6 DEF DesktopInv, FileInv, Kept, Shape
  <2>. QED  BY <1>2, <2>1, OrderStays DEF QueueMoves
<1>7. Kept'
  BY <1>2, <1>5, <1>6 DEF DesktopInv, FileInv, Kept, Undisturbed, Saving, Told
<1>8. Knows'
  <2>1. Coming' = Coming
    BY <1>2 DEF Coming, Told, SameWindow
  <2>2. saver["api"].for = "default" => op'["default"] = op["default"]
    BY <1>2 DEF DesktopInv, FileInv, Shape, Saves
  <2>. QED  BY <2>1, <2>2 DEF DesktopInv, FileInv, Knows, Undisturbed, SameWindow, Saving, Load
<1>. QED  BY <1>3, <1>4, <1>7, <1>8 DEF FileInv

(* ... by one operation.                                                   *)
SameButtons(k, o) ==
    /\ window' \in WindowStates
    /\ window'.phase = window.phase /\ window'.settings = window.settings
    /\ window.phase # "gone"
    /\ window.phase # "open" => o.step # "answered"
    /\ window.phase = "open" =>
          \A j \in {"default", "port"} :
              \/ j \in window'.busy
              \/ j # k /\ j \notin window.busy
              \/ j = k /\ o.step = "none"

Harmless(k, o) ==
    k \in {"default", "port"} =>
        /\ ~Told(k) /\ op[k].step # "saving"
        /\ o.step # "saving" /\ ~(o.step = "answered" /\ o.ok)

LEMMA QuietOp ==
    ASSUME DesktopInv, NEW k \in Kinds, NEW o, Turns(k, o), Harmless(k, o), SameButtons(k, o),
           UNCHANGED Rest, account' \in Users \cup {None}, disturbances \subseteq disturbances'
    PROVE  /\ FileInv'
           /\ op'[k] = o /\ \A j \in Kinds \ {k} : op'[j] = op[j]
<1>1. /\ Operations' /\ Waiting'
      /\ op'[k] = o /\ \A j \in Kinds \ {k} : op'[j] = op[j]
  BY OneOp DEF DesktopInv, FileInv
<1>2. QueueMoves
  <2>1. queue' = Append(queue, k) => o.step = "answered" \/ queue' = queue \/ (queue # <<>> /\ queue' = Tail(queue))
    BY DEF Turns
  <2>. QED  BY <1>1, <2>1 DEF QueueMoves, Turns, Harmless
<1>3. ASSUME NEW j \in {"default", "port"} PROVE Same(j)
  <2>. j \in Kinds
    BY DEF Kinds
  <2>. QED  BY <1>1 DEF Same, Harmless, Told
<1>4. SameWindow
  BY <1>1 DEF SameWindow, SameButtons, DesktopInv, FileInv, Shape, Windows, Kinds
<1>. QED  BY <1>1, <1>2, <1>3, <1>4, QuietStep

(* ... that fails.                                                         *)
LEMMA FailsQuietly ==
    ASSUME DesktopInv, NEW k \in Kinds, Fails(k), op[k].step \notin {"none", "answered", "saving"},
           window' \in WindowStates, window'.phase = window.phase,
           window'.settings = window.settings, window'.busy = window.busy,
           UNCHANGED Rest, account' \in Users \cup {None}, disturbances \subseteq disturbances'
    PROVE  /\ FileInv'
           /\ op'[k].step \in {"answered", "none"} /\ ~op'[k].ok
           /\ \A j \in Kinds \ {k} : op'[j] = op[j]
<1>. DEFINE o == Outcome(k, FALSE, Absent)
<1>1. Turns(k, o)
  BY AnswerTurns DEF Fails, Values, DesktopInv, FileInv
<1>2. /\ window.phase = "open" => o.step = "answered" /\ o.ok = FALSE
      /\ window.phase # "open" => o.step = "none" /\ ~o.ok
  <2>1. op[k] \in OpStates
    BY DEF DesktopInv, FileInv, Shape, Operations
  <2>. QED  BY <2>1 DEF Outcome, Answered, OpStates, NoOp
<1>. HIDE DEF o
<1>3. Harmless(k, o)
  BY <1>2 DEF Harmless, Told
<1>4. SameButtons(k, o)
  BY <1>2 DEF SameButtons, DesktopInv, FileInv, Shape, Windows
<1>. QED  BY <1>1, <1>2, <1>3, <1>4, QuietOp

LEMMA ProceedsTurns ==
    ASSUME Shape, NEW k \in Kinds, NEW step \in OpSteps \ {"none", "answered"},
           Proceeds(k, step), op[k].step \notin {"none", "answered"}
    PROVE  /\ Turns(k, [op[k] EXCEPT !.step = step])
           /\ [op[k] EXCEPT !.step = step].step = step
           /\ [op[k] EXCEPT !.step = step].arg = op[k].arg
<1>. DEFINE o == [op[k] EXCEPT !.step = step]
<1>1. op[k] \in OpStates /\ Fits(k, op[k])
  BY DEF Shape, Operations
<1>2. o \in OpStates /\ o.step = step /\ o.arg = op[k].arg
  BY <1>1 DEF OpStates
<1>3. op' = [op EXCEPT ![k] = o] /\ queue' = queue
  BY <1>1 DEF Proceeds, Shape, Operations
<1>. HIDE DEF o
<1>4. Fits(k, o)
  BY <1>1, <1>2 DEF Fits
<1>5. Turns(k, o)
  BY <1>2, <1>3, <1>4 DEF Turns
<1>. QED  BY <1>2, <1>5 DEF o

(* ... that goes on.                                                       *)
LEMMA ProceedsQuietly ==
    ASSUME DesktopInv, NEW k \in Kinds, NEW step \in OpSteps \ {"none", "answered", "saving"},
           Proceeds(k, step), op[k].step \notin {"none", "answered", "saving"},
           window' \in WindowStates, window'.phase = window.phase,
           window'.settings = window.settings, window'.busy = window.busy,
           UNCHANGED Rest, account' \in Users \cup {None}, disturbances \subseteq disturbances'
    PROVE  /\ FileInv'
           /\ op'[k].step = step /\ \A j \in Kinds \ {k} : op'[j] = op[j]
<1>. DEFINE o == [op[k] EXCEPT !.step = step]
<1>1. Turns(k, o) /\ o.step = step
  BY ProceedsTurns DEF DesktopInv, FileInv
<1>. HIDE DEF o
<1>2. Harmless(k, o)
  BY <1>1 DEF Harmless, Told
<1>3. SameButtons(k, o)
  BY <1>1 DEF SameButtons, DesktopInv, FileInv, Shape, Windows
<1>. QED  BY <1>1, <1>2, <1>3, QuietOp

(* ... that is submitted.                                                  *)
LEMMA SubmitQuietly ==
    ASSUME DesktopInv, NEW k \in Kinds \ {"start", "resume"}, NEW arg,
           Submit(k, arg), op[k].step = "none", UNCHANGED queue,
           k = "login" => arg \in Users, k = "default" => arg \in Notebooks,
           k = "port" => arg \in Ports, k = "logout" => arg = None,
           window.phase = "open",
           window' = window \/ window' = [window EXCEPT !.busy = @ \cup {k}],
           k \in Buttons => k \in window'.busy, k \notin Buttons => window' = window,
           UNCHANGED Rest, UNCHANGED account, disturbances \subseteq disturbances'
    PROVE  /\ FileInv'
           /\ op'[k].step = "begun" /\ \A j \in Kinds \ {k} : op'[j] = op[j]
<1>. DEFINE o == Begun(arg)
<1>1. arg \in Args
  BY DEF Args, Kinds
<1>2. o \in OpStates /\ o.step = "begun" /\ o.arg = arg
  BY <1>1, NoOpFits DEF Begun, OpStates, NoOp, OpSteps
<1>3. Turns(k, o)
  BY <1>2 DEF Turns, Submit, Fits
<1>. HIDE DEF o
<1>4. Harmless(k, o)
  BY <1>2 DEF Harmless, Told
<1>5. window' \in WindowStates /\ window'.phase = window.phase /\ window'.settings = window.settings
      /\ window.busy \subseteq window'.busy /\ window'.busy \subseteq window.busy \cup {k}
  BY DEF DesktopInv, FileInv, Shape, Windows, WindowStates
<1>6. SameButtons(k, o)
  BY <1>2, <1>5 DEF SameButtons, Buttons
<1>7. account' \in Users \cup {None}
  BY DEF DesktopInv, FileInv, Shape
<1>. QED  BY <1>2, <1>3, <1>4, <1>6, <1>7, QuietOp

(* ... whose answer is taken.                                              *)
LEMMA TakenIs ==
    ASSUME Shape, NEW k \in Kinds, Takes(k)
    PROVE  /\ op[k].step = "answered" /\ window.phase = "open" /\ ~Saving("ui")
           /\ queue # <<>> /\ Head(queue) = k /\ queue' = Tail(queue)
           /\ 1 \in DOMAIN queue /\ queue[1] = k
<1>1. 1 \in DOMAIN queue /\ queue[1] = k
  BY TailIs DEF Takes, Shape, Waiting
<1>. QED  BY <1>1 DEF Takes, UiFree, Shape, Waiting

LEMMA DoneTurns ==
    ASSUME Shape, NEW k \in Kinds, Takes(k), Done(k) PROVE Turns(k, NoOp)
BY TakenIs, NoOpFits DEF Turns, Done

LEMMA TakenQuietly ==
    ASSUME DesktopInv, NEW k \in Kinds, Takes(k), Done(k),
           k \in {"default", "port"} => ~op[k].ok,
           window' \in WindowStates, window'.phase = window.phase,
           window'.settings = window.settings,
           window.busy \subseteq window'.busy \cup {"login", k},
           window'.busy \subseteq window.busy,
           UNCHANGED Rest, UNCHANGED account, disturbances \subseteq disturbances'
    PROVE  /\ FileInv'
           /\ op'[k] = NoOp /\ \A j \in Kinds \ {k} : op'[j] = op[j]
<1>1. Shape /\ Turns(k, NoOp) /\ NoOp.step = "none"
  BY DoneTurns, NoOpFits DEF DesktopInv, FileInv
<1>2. Harmless(k, NoOp)
  BY <1>1, TakenIs DEF Harmless, Told
<1>3. SameButtons(k, NoOp)
  BY <1>1, TakenIs DEF SameButtons
<1>4. account' \in Users \cup {None}
  BY <1>1 DEF Shape
<1>. QED  BY <1>1, <1>2, <1>3, <1>4, QuietOp
-----------------------------------------------------------------------------
(* Who is signed in.                                                       *)
LEMMA SessionStays ==
    ASSUME Session, disturbances \subseteq disturbances', window'.phase = window.phase,
           window'.page = window.page, saver'["ui"].for = saver["ui"].for,
           account' = account \/ account' # None,
           LoggingIn' => LoggingIn, Resuming' => Resuming,
           op'["logout"] = op["logout"] \/ ~Told("logout")
    PROVE  Session'
BY DEF Session, Undisturbed, Told

LEMMA SessionOps ==
    /\ LoggingIn' => \/ op'["login"].step \in {"stored", "list"}
                     \/ op'["login"].step = "answered" /\ op'["login"].ok
    /\ Resuming' => \/ op'["resume"].step = "list"
                    \/ op'["resume"].step = "answered" /\ op'["resume"].ok
    /\ op'["login"] = op["login"] => (LoggingIn' <=> LoggingIn)
    /\ op'["resume"] = op["resume"] => (Resuming' <=> Resuming)
BY DEF LoggingIn, Resuming, Told
-----------------------------------------------------------------------------
(* The actions that leave the file and the saves alone.                    *)
LEMMA ServiceStartsKeeps == ASSUME DesktopInv, ServiceStarts PROVE DesktopInv'
<1>1. /\ UNCHANGED Rest /\ account' \in Users \cup {None} /\ disturbances \subseteq disturbances'
      /\ "start" \in Kinds /\ op["start"].step = "begun"
  BY DEF ServiceStarts, Rest, DesktopInv, FileInv, Shape, Kinds
<1>2. CASE Fails("start") /\ UNCHANGED window
  <2>1. window' \in WindowStates
    BY <1>2 DEF DesktopInv, FileInv, Shape, Windows
  <2>2. FileInv' /\ \A j \in Kinds \ {"start"} : op'[j] = op[j]
    BY <1>1, <1>2, <2>1, FailsQuietly
  <2>3. Session'
    BY <1>2, <2>2, SessionStays, SessionOps DEF ServiceStarts, DesktopInv, Kinds
  <2>. QED  BY <2>2, <2>3 DEF DesktopInv
<1>3. ASSUME NEW p \in Ports,
             window' = [window EXCEPT !.port = p, !.owned = TRUE, !.client = "open"],
             Proceeds("start", "session")
      PROVE  DesktopInv'
  <2>1. /\ window' \in WindowStates /\ window'.phase = window.phase /\ window'.page = window.page
        /\ window'.settings = window.settings /\ window'.busy = window.busy
    BY <1>3 DEF DesktopInv, FileInv, Shape, Windows, WindowStates
  <2>2. "session" \in OpSteps \ {"none", "answered", "saving"}
    BY DEF OpSteps
  <2>3. FileInv' /\ \A j \in Kinds \ {"start"} : op'[j] = op[j]
    BY <1>1, <1>3, <2>1, <2>2, ProceedsQuietly
  <2>4. Session'
    BY <2>1, <2>3, SessionStays, SessionOps DEF ServiceStarts, DesktopInv, Kinds
  <2>. QED  BY <2>3, <2>4 DEF DesktopInv
<1>4. ASSUME NEW p \in Ports,
             window' = [window EXCEPT !.port = p, !.owned = TRUE], Fails("start")
      PROVE  DesktopInv'
  <2>1. /\ window' \in WindowStates /\ window'.phase = window.phase /\ window'.page = window.page
        /\ window'.settings = window.settings /\ window'.busy = window.busy
    BY <1>4 DEF DesktopInv, FileInv, Shape, Windows, WindowStates
  <2>2. FileInv' /\ \A j \in Kinds \ {"start"} : op'[j] = op[j]
    BY <1>1, <1>4, <2>1, FailsQuietly
  <2>3. Session'
    BY <1>1, <2>1, <2>2, SessionStays, SessionOps DEF ServiceStarts, DesktopInv, Kinds
  <2>. QED  BY <2>2, <2>3 DEF DesktopInv
<1>. QED  BY <1>2, <1>3, <1>4 DEF ServiceStarts

(* An operation that is not about the settings goes on or fails.           *)
LEMMA GoesOn ==
    ASSUME DesktopInv, NEW k \in Kinds, UNCHANGED <<Rest, account, window>>,
           disturbances \subseteq disturbances',
           op[k].step \notin {"none", "answered", "saving"},
           \/ Fails(k)
           \/ \E step \in OpSteps \ {"none", "answered", "saving"} :
                 /\ Proceeds(k, step)
                 /\ k = "login" /\ step \in {"stored", "list"} => account # None
                 /\ k = "resume" /\ step = "list" => account # None
    PROVE  DesktopInv'
<1>1. /\ UNCHANGED Rest /\ account' \in Users \cup {None} /\ window' \in WindowStates
      /\ window'.phase = window.phase /\ window'.settings = window.settings
      /\ window'.busy = window.busy
  BY DEF DesktopInv, FileInv, Shape, Windows
<1>2. ASSUME Fails(k) PROVE DesktopInv'
  <2>1. /\ FileInv' /\ \A j \in Kinds \ {k} : op'[j] = op[j]
        /\ op'[k].step \in {"answered", "none"} /\ ~op'[k].ok
    BY <1>1, <1>2, FailsQuietly
  <2>2. /\ LoggingIn' => LoggingIn
        /\ Resuming' => Resuming
        /\ op'["logout"] = op["logout"] \/ ~Told("logout")
    BY <2>1, SessionOps DEF Kinds, Told
  <2>3. Session'
    BY <2>2, SessionStays DEF DesktopInv, Rest
  <2>. QED  BY <2>1, <2>3 DEF DesktopInv
<1>3. ASSUME NEW step \in OpSteps \ {"none", "answered", "saving"}, Proceeds(k, step),
             k = "login" /\ step \in {"stored", "list"} => account # None,
             k = "resume" /\ step = "list" => account # None
      PROVE  DesktopInv'
  <2>1. FileInv' /\ op'[k].step = step /\ \A j \in Kinds \ {k} : op'[j] = op[j]
    BY <1>1, <1>3, ProceedsQuietly
  <2>2. /\ LoggingIn' => LoggingIn \/ account # None
        /\ Resuming' => Resuming \/ account # None
        /\ op'["logout"] = op["logout"] \/ ~Told("logout")
    BY <1>3, <2>1, SessionOps DEF Kinds, Told
  <2>3. Session'
    BY <2>2 DEF DesktopInv, Session, Rest, Undisturbed, Told
  <2>. QED  BY <2>1, <2>3 DEF DesktopInv
<1>. QED  BY <1>2, <1>3

LEMMA ReadsKeep ==
    ASSUME DesktopInv, NotebooksRead \/ LoginReads \/ DefaultServed PROVE DesktopInv'
<1>1. /\ UNCHANGED <<Rest, account, window>> /\ disturbances \subseteq disturbances'
      /\ "resume" \in Kinds /\ "login" \in Kinds /\ "default" \in Kinds
      /\ "list" \in OpSteps \ {"none", "answered", "saving"}
  BY DEF NotebooksRead, LoginReads, DefaultServed, Rest, Kinds, OpSteps
<1>2. CASE NotebooksRead
  <2>1. op["resume"].step \notin {"none", "answered", "saving"}
    BY <1>2 DEF NotebooksRead
  <2>2. Fails("resume") \/ (Proceeds("resume", "list") /\ account # None)
    BY <1>2 DEF NotebooksRead
  <2>. QED  BY <1>1, <2>1, <2>2, GoesOn
<1>3. CASE LoginReads
  <2>1. op["login"].step \notin {"none", "answered", "saving"}
    BY <1>3 DEF LoginReads
  <2>2. Fails("login") \/ (Proceeds("login", "list") /\ account # None)
    BY <1>3 DEF LoginReads
  <2>. QED  BY <1>1, <2>1, <2>2, GoesOn
<1>4. CASE DefaultServed
  <2>1. op["default"].step \notin {"none", "answered", "saving"}
    BY <1>4 DEF DefaultServed
  <2>2. Fails("default") \/ Proceeds("default", "list")
    BY <1>4 DEF DefaultServed
  <2>. QED  BY <1>1, <2>1, <2>2, GoesOn
<1>. QED  BY <1>2, <1>3, <1>4

(* The answer of an operation that is not about the settings.              *)
LEMMA AnsweredQuietly ==
    ASSUME DesktopInv, NEW k \in Kinds \ {"default", "port"}, NEW ok \in BOOLEAN,
           NEW value \in Values, Answer(k, ok, value), op[k].step \notin {"none", "answered", "saving"},
           UNCHANGED <<Rest, window>>, account' \in Users \cup {None},
           disturbances \subseteq disturbances'
    PROVE  /\ FileInv'
           /\ \A j \in Kinds \ {k} : op'[j] = op[j]
           /\ window.phase = "open" => op'[k].step = "answered" /\ (op'[k].ok <=> ok)
           /\ window.phase # "open" => op'[k].step = "none"
<1>. DEFINE o == Outcome(k, ok, value)
<1>1. Turns(k, o)
  BY AnswerTurns DEF DesktopInv, FileInv
<1>2. /\ window.phase = "open" => o.step = "answered" /\ (o.ok <=> ok)
      /\ window.phase # "open" => o.step = "none"
  <2>1. op[k] \in OpStates
    BY DEF DesktopInv, FileInv, Shape, Operations
  <2>. QED  BY <2>1 DEF Outcome, Answered, OpStates, NoOp
<1>. HIDE DEF o
<1>3. Harmless(k, o)
  BY DEF Harmless
<1>4. SameButtons(k, o)
  BY <1>2 DEF SameButtons, DesktopInv, FileInv, Shape, Windows
<1>. QED  BY <1>1, <1>2, <1>3, <1>4, QuietOp

LEMMA SessionReadKeeps == ASSUME DesktopInv, SessionRead PROVE DesktopInv'
<1>1. /\ UNCHANGED <<Rest, account, window>> /\ disturbances \subseteq disturbances'
      /\ account' \in Users \cup {None} /\ "start" \in Kinds \ {"default", "port"}
      /\ op["start"].step \notin {"none", "answered", "saving"}
      /\ account \in Values /\ Absent \in Values
  BY DEF SessionRead, Rest, Kinds, Values, DesktopInv, FileInv, Shape
<1>2. Answer("start", TRUE, account) \/ Answer("start", FALSE, Absent)
  BY DEF SessionRead, Fails
<1>3. FileInv' /\ \A j \in Kinds \ {"start"} : op'[j] = op[j]
  BY <1>1, <1>2, AnsweredQuietly
<1>4. Session'
  BY <1>1, <1>3, SessionStays, SessionOps DEF DesktopInv, Kinds, Rest
<1>. QED  BY <1>3, <1>4 DEF DesktopInv

LEMMA ListedKeeps ==
    ASSUME DesktopInv, NEW k \in {"resume", "login"}, Listed(k) PROVE DesktopInv'
<1>1. /\ UNCHANGED <<Rest, account, window>> /\ disturbances \subseteq disturbances'
      /\ account' \in Users \cup {None} /\ k \in Kinds \ {"default", "port"}
      /\ op[k].step = "list" /\ Absent \in Values
  BY DEF Listed, Rest, Kinds, Values, DesktopInv, FileInv, Shape
<1>2. Answer(k, TRUE, Absent) \/ Answer(k, FALSE, Absent)
  BY DEF Listed, Fails
<1>3. FileInv' /\ \A j \in Kinds \ {k} : op'[j] = op[j]
  BY <1>1, <1>2, AnsweredQuietly
<1>4. /\ LoggingIn' => LoggingIn
      /\ Resuming' => Resuming
      /\ op'["logout"] = op["logout"]
  BY <1>1, <1>3, SessionOps DEF Kinds, LoggingIn, Resuming
<1>5. Session'
  BY <1>1, <1>4, SessionStays DEF DesktopInv, Rest
<1>. QED  BY <1>3, <1>5 DEF DesktopInv

LEMMA LoginServedKeeps == ASSUME DesktopInv, LoginServed PROVE DesktopInv'
<1>1. /\ UNCHANGED <<Rest, window>> /\ disturbances \subseteq disturbances'
      /\ "login" \in Kinds /\ op["login"].step = "begun"
      /\ window' \in WindowStates /\ "stored" \in OpSteps \ {"none", "answered", "saving"}
  BY DEF LoginServed, Rest, Kinds, OpSteps, DesktopInv, FileInv, Shape, Windows
<1>2. CASE Fails("login") /\ UNCHANGED account
  BY <1>1, <1>2, GoesOn
<1>3. CASE account' = op["login"].arg /\ Proceeds("login", "stored")
  <2>1. op["login"].arg \in Users
    BY <1>1 DEF DesktopInv, FileInv, Shape, Operations, Fits
  <2>2. account' \in Users \cup {None} /\ account' # None
    BY <1>3, <2>1, Constants
  <2>3. FileInv' /\ \A j \in Kinds \ {"login"} : op'[j] = op[j]
    BY <1>1, <1>3, <2>2, ProceedsQuietly
  <2>4. Session'
    BY <2>2 DEF Session
  <2>. QED  BY <2>3, <2>4 DEF DesktopInv
<1>. QED  BY <1>2, <1>3 DEF LoginServed

LEMMA LogoutServedKeeps == ASSUME DesktopInv, LogoutServed PROVE DesktopInv'
<1>1. /\ UNCHANGED <<Rest, window>> /\ "logout" \in Kinds \ {"default", "port"}
      /\ op["logout"].step \notin {"none", "answered", "saving"} /\ window' \in WindowStates
      /\ None \in Users \cup {None} /\ Absent \in Values
  BY DEF LogoutServed, Rest, Kinds, Values, DesktopInv, FileInv, Shape, Windows
<1>2. CASE Fails("logout") /\ UNCHANGED <<account, disturbances>>
  BY <1>1, <1>2, GoesOn
<1>3. CASE account' = None /\ Fails("logout") /\ Disturb({"lost"})
  <2>1. disturbances \subseteq disturbances' /\ "lost" \in disturbances'
    BY <1>3 DEF Disturb
  <2>2. FileInv'
    BY <1>1, <1>3, <2>1, AnsweredQuietly DEF Fails
  <2>3. Session'
    BY <2>1 DEF Session, Undisturbed
  <2>. QED  BY <2>2, <2>3 DEF DesktopInv
<1>4. CASE /\ account' = None /\ Answer("logout", TRUE, Absent)
           /\ Disturb(IF op["resume"] # NoOp \/ op["login"] # NoOp THEN {"late"} ELSE {})
  <2>1. /\ disturbances \subseteq disturbances'
        /\ "late" \in disturbances' \/ (op["resume"] = NoOp /\ op["login"] = NoOp)
    BY <1>4 DEF Disturb
  <2>2. /\ FileInv' /\ \A j \in Kinds \ {"logout"} : op'[j] = op[j]
        /\ window.phase = "open" => op'["logout"].step = "answered" /\ op'["logout"].ok
    BY <1>1, <1>4, <2>1, AnsweredQuietly
  <2>3. CASE "late" \in disturbances'
    <3>1. Session'
      BY <2>3 DEF Session, Undisturbed
    <3>. QED  BY <2>2, <3>1 DEF DesktopInv
  <2>4. CASE op["resume"] = NoOp /\ op["login"] = NoOp
    <3>1. ~LoggingIn' /\ ~Resuming'
      BY <2>2, <2>4, SessionOps, NoOpFits DEF Kinds
    <3>2. Session'
      BY <1>1, <2>2, <3>1 DEF Session, Told
    <3>. QED  BY <2>2, <3>2 DEF DesktopInv
  <2>. QED  BY <2>1, <2>3, <2>4
<1>. QED  BY <1>2, <1>3, <1>4 DEF LogoutServed

LEMMA PortStoppedKeeps == ASSUME DesktopInv, PortStopped PROVE DesktopInv'
<1>1. /\ UNCHANGED <<Rest, account>> /\ disturbances \subseteq disturbances'
      /\ account' \in Users \cup {None} /\ "port" \in Kinds /\ op["port"].step = "begun"
      /\ "restart" \in OpSteps \ {"none", "answered", "saving"} /\ Proceeds("port", "restart")
  BY DEF PortStopped, Rest, Kinds, OpSteps, DesktopInv, FileInv, Shape
<1>2. /\ window' \in WindowStates /\ window'.phase = window.phase /\ window'.page = window.page
      /\ window'.settings = window.settings /\ window'.busy = window.busy
  BY DEF PortStopped, DesktopInv, FileInv, Shape, Windows, WindowStates
<1>3. FileInv' /\ \A j \in Kinds \ {"port"} : op'[j] = op[j]
  BY <1>1, <1>2, ProceedsQuietly
<1>4. Session'
  BY <1>1, <1>2, <1>3, SessionStays, SessionOps DEF DesktopInv, Kinds, Rest
<1>. QED  BY <1>3, <1>4 DEF DesktopInv

LEMMA PortRestartedKeeps == ASSUME DesktopInv, PortRestarted PROVE DesktopInv'
<1>1. /\ UNCHANGED <<Rest, account>> /\ disturbances \subseteq disturbances'
      /\ account' \in Users \cup {None} /\ "port" \in Kinds /\ op["port"].step = "restart"
      /\ "connect" \in OpSteps \ {"none", "answered", "saving"}
      /\ Proceeds("port", "connect") \/ Fails("port")
  BY DEF PortRestarted, Rest, Kinds, OpSteps, DesktopInv, FileInv, Shape
<1>2. /\ window' \in WindowStates /\ window'.phase = window.phase /\ window'.page = window.page
      /\ window'.settings = window.settings /\ window'.busy = window.busy
  BY DEF PortRestarted, DesktopInv, FileInv, Shape, Windows, WindowStates
<1>3. FileInv' /\ \A j \in Kinds \ {"port"} : op'[j] = op[j]
  BY <1>1, <1>2, ProceedsQuietly, FailsQuietly
<1>4. Session'
  BY <1>1, <1>2, <1>3, SessionStays, SessionOps DEF DesktopInv, Kinds, Rest
<1>. QED  BY <1>3, <1>4 DEF DesktopInv

LEMMA ElsewhereKeeps ==
    ASSUME DesktopInv, NEW a \in Users \cup {None}, ElsewhereSignedIn(a) PROVE DesktopInv'
<1>1. /\ UNCHANGED <<Rest, window, op, queue>> /\ disturbances \subseteq disturbances'
      /\ account' = a /\ (a = None => "signedOut" \in disturbances')
  BY DEF ElsewhereSignedIn, Rest, Disturb
<1>2. Operations' /\ Waiting'
  BY <1>1 DEF DesktopInv, FileInv, Shape, Operations, Waiting
<1>3. QueueMoves /\ Same("default") /\ Same("port")
  BY <1>1 DEF QueueMoves, Same, Told
<1>4. SameWindow
  BY <1>1 DEF SameWindow, DesktopInv, FileInv, Shape, Windows
<1>5. FileInv'
  BY <1>1, <1>2, <1>3, <1>4, QuietStep
<1>6. Session'
  BY <1>1 DEF Session, Undisturbed
<1>. QED  BY <1>5, <1>6 DEF DesktopInv

(* The clicks that only submit an operation.                               *)
LEMMA Clicked ==
    ASSUME DesktopInv, NEW k \in Kinds \ {"start", "resume"}, NEW arg,
           Submit(k, arg), op[k].step = "none", UNCHANGED <<Rest, queue, account>>,
           k = "login" => arg \in Users, k = "default" => arg \in Notebooks,
           k = "port" => arg \in Ports, k = "logout" => arg = None,
           window.phase = "open",
           IF k \in Buttons THEN Disable(k) ELSE window' = window,
           disturbances \subseteq disturbances'
    PROVE  DesktopInv'
<1>1. /\ window' = window \/ window' = [window EXCEPT !.busy = @ \cup {k}]
      /\ k \in Buttons => k \in window'.busy
      /\ k \notin Buttons => window' = window
      /\ window'.phase = window.phase /\ window'.page = window.page
  BY DEF Disable, DesktopInv, FileInv, Shape, Windows, WindowStates
<1>2. /\ FileInv' /\ op'[k].step = "begun" /\ \A j \in Kinds \ {k} : op'[j] = op[j]
  BY <1>1, SubmitQuietly
<1>3. /\ LoggingIn' => LoggingIn
      /\ Resuming' => Resuming
      /\ op'["logout"] = op["logout"] \/ ~Told("logout")
  BY <1>2, SessionOps DEF Kinds, Told
<1>4. Session'
  BY <1>1, <1>3, SessionStays DEF DesktopInv, Rest
<1>. QED  BY <1>2, <1>4 DEF DesktopInv

LEMMA LoginKeeps == ASSUME DesktopInv, NEW u \in Users, Login(u) PROVE DesktopInv'
<1>1. /\ Submit("login", u) /\ op["login"].step = "none" /\ UNCHANGED <<Rest, queue, account>>
      /\ window.phase = "open" /\ Disable("login") /\ disturbances \subseteq disturbances'
      /\ "login" \in Kinds \ {"start", "resume"} /\ "login" \in Buttons
  BY NoOpFits DEF Login, UiFree, Rest, Kinds, Buttons
<1>. QED  BY <1>1, Clicked

LEMMA LogoutKeeps == ASSUME DesktopInv, Logout PROVE DesktopInv'
<1>1. /\ Submit("logout", None) /\ op["logout"].step = "none" /\ UNCHANGED <<Rest, queue, account>>
      /\ window.phase = "open" /\ window' = window /\ disturbances \subseteq disturbances'
      /\ "logout" \in Kinds \ {"start", "resume"} /\ "logout" \notin Buttons
  BY NoOpFits DEF Logout, UiFree, Rest, Kinds, Buttons
<1>. QED  BY <1>1, Clicked

LEMMA SaveDefaultKeeps ==
    ASSUME DesktopInv, NEW n \in Notebooks, SaveDefaultNotebook(n) PROVE DesktopInv'
<1>1. /\ Submit("default", n) /\ UNCHANGED <<Rest, queue, account>>
      /\ window.phase = "open" /\ Disable("default") /\ disturbances \subseteq disturbances'
      /\ "default" \in Kinds \ {"start", "resume"} /\ "default" \in Buttons
  BY DEF SaveDefaultNotebook, UiFree, Rest, Kinds, Buttons
<1>2. op["default"].step = "none"
  BY DEF SaveDefaultNotebook, UiFree, DesktopInv, FileInv, Shape, Windows
<1>. QED  BY <1>1, <1>2, Clicked

(* The answers that change no settings.                                    *)
LEMMA TakenKeeps ==
    ASSUME DesktopInv, NEW k \in Kinds, Takes(k), Done(k),
           k \in {"default", "port", "logout"} => ~op[k].ok,
           window' \in WindowStates, window'.phase = window.phase,
           window'.settings = window.settings, window'.page = window.page,
           window.busy \subseteq window'.busy \cup {"login", k},
           window'.busy \subseteq window.busy,
           UNCHANGED <<Rest, account>>, disturbances \subseteq disturbances'
    PROVE  DesktopInv'
<1>1. FileInv' /\ op'[k] = NoOp /\ \A j \in Kinds \ {k} : op'[j] = op[j]
  BY TakenQuietly
<1>2. /\ LoggingIn' => LoggingIn
      /\ Resuming' => Resuming
      /\ op'["logout"] = op["logout"] \/ ~Told("logout")
  BY <1>1, SessionOps, NoOpFits DEF Kinds, Told
<1>3. Session'
  BY <1>2, SessionStays DEF DesktopInv, Rest
<1>. QED  BY <1>1, <1>3 DEF DesktopInv

LEMMA EnableIs ==
    ASSUME DesktopInv, NEW b, Enable(b)
    PROVE  /\ window' \in WindowStates /\ window'.phase = window.phase
           /\ window'.settings = window.settings /\ window'.page = window.page
           /\ window'.busy = window.busy \ {b}
BY DEF Enable, DesktopInv, FileInv, Shape, Windows, WindowStates

(* A failed answer, to any operation but the logout.                       *)
LEMMA FailureKeeps ==
    ASSUME DesktopInv, NEW k \in Kinds, NEW b \in {"login", k}, Takes(k), Done(k), ~op[k].ok,
           Enable(b), UNCHANGED <<Rest, account>>, disturbances \subseteq disturbances'
    PROVE  DesktopInv'
<1>1. /\ window' \in WindowStates /\ window'.phase = window.phase
      /\ window'.settings = window.settings /\ window'.page = window.page
      /\ window'.busy = window.busy \ {b}
  BY EnableIs
<1>2. /\ window.busy \subseteq window'.busy \cup {"login", k}
      /\ window'.busy \subseteq window.busy
  BY <1>1
<1>. QED  BY <1>1, <1>2, TakenKeeps

LEMMA StartAnsweredKeeps == ASSUME DesktopInv, StartAnswered PROVE DesktopInv'
<1>1. /\ UNCHANGED <<Rest, account>> /\ disturbances \subseteq disturbances'
      /\ Takes("start") /\ "start" \in Kinds /\ "resume" \in Kinds
  BY DEF StartAnswered, Rest, Kinds
<1>2. CASE ~op["start"].ok
  BY <1>1, <1>2, FailureKeeps DEF StartAnswered
<1>4. CASE op["start"].ok /\ op["start"].value = None
  <2>1. Done("start") /\ UNCHANGED window
    BY <1>4 DEF StartAnswered
  <2>2. window \in WindowStates
    BY DEF DesktopInv, FileInv, Shape, Windows
  <2>3. "start" \notin {"default", "port", "logout"}
    OBVIOUS
  <2>. QED  BY <1>1, <2>1, <2>2, <2>3, TakenKeeps
<1>3. CASE op["start"].ok /\ op["start"].value # None
  <2>1. /\ op' = [op EXCEPT !["start"] = NoOp, !["resume"] = Begun(None)] /\ UNCHANGED window
        /\ Operations /\ Waiting /\ op["start"].step = "answered"
        /\ queue # <<>> /\ Head(queue) = "start" /\ queue' = Tail(queue)
    BY <1>1, <1>3, TakenIs DEF StartAnswered, DesktopInv, FileInv, Shape
  <2>2. Begun(None) \in OpStates /\ Begun(None).step = "begun" /\ ~Begun(None).ok
    BY NoOpFits DEF Begun, OpStates, NoOp, OpSteps, Args
  <2>3. /\ op'["start"] = NoOp /\ op'["resume"] = Begun(None)
        /\ \A j \in Kinds \ {"start", "resume"} : op'[j] = op[j]
        /\ op["resume"].step = "none" /\ op' \in [Kinds -> OpStates]
    BY <2>1, <2>2, NoOpFits DEF Operations, Kinds
  <2>4. Operations'
    <3>1. ASSUME NEW j \in Kinds PROVE Fits(j, op'[j])
      <4>1. CASE j = "start"
        BY <2>3, <4>1, NoOpFits
      <4>2. CASE j = "resume"
        BY <2>2, <2>3, <4>2 DEF Fits
      <4>3. CASE j \notin {"start", "resume"}
        BY <2>1, <2>3, <4>3 DEF Operations
      <4>. QED  BY <4>1, <4>2, <4>3
    <3>. QED  BY <2>3, <3>1, NoOpFits DEF Operations
  <2>5. Waiting'
    BY <2>1, <2>2, <2>3, NoOpFits, QueueShrinks
  <2>6. QueueMoves /\ Same("default") /\ Same("port")
    BY <2>1, <2>3 DEF QueueMoves, Same, Told, Kinds
  <2>7. window.phase = "open"
    BY <1>1, TakenIs DEF DesktopInv, FileInv
  <2>8. SameWindow
    BY <2>1, <2>3, <2>7 DEF SameWindow, DesktopInv, FileInv, Shape, Windows, Kinds
  <2>9. account' \in Users \cup {None}
    BY <1>1 DEF DesktopInv, FileInv, Shape
  <2>10. FileInv'
    BY <1>1, <2>4, <2>5, <2>6, <2>8, <2>9, QuietStep
  <2>11. /\ LoggingIn' => LoggingIn
         /\ Resuming' => Resuming
         /\ op'["logout"] = op["logout"]
    BY <2>2, <2>3, SessionOps DEF Kinds
  <2>12. Session'
    BY <1>1, <2>1, <2>11, SessionStays DEF DesktopInv, Rest
  <2>. QED  BY <2>10, <2>12 DEF DesktopInv
<1>. QED  BY <1>2, <1>3, <1>4

LEMMA ResumeAnsweredKeeps == ASSUME DesktopInv, ResumeAnswered PROVE DesktopInv'
<1>1. /\ UNCHANGED <<Rest, account>> /\ disturbances \subseteq disturbances'
      /\ Takes("resume") /\ Done("resume") /\ "resume" \in Kinds
  BY DEF ResumeAnswered, Rest, Kinds
<1>2. CASE ~op["resume"].ok
  BY <1>1, <1>2, FailureKeeps DEF ResumeAnswered
<1>3. CASE op["resume"].ok
  <2>1. /\ window' \in WindowStates /\ window'.phase = window.phase
        /\ window'.settings = window.settings /\ window'.busy = window.busy
    BY <1>3 DEF ResumeAnswered, DesktopInv, FileInv, Shape, Windows, WindowStates
  <2>2. FileInv' /\ op'["resume"] = NoOp /\ \A j \in Kinds \ {"resume"} : op'[j] = op[j]
    BY <1>1, <2>1, TakenQuietly
  <2>3. Resuming /\ op["resume"].step = "answered" /\ window.phase = "open"
    BY <1>1, <1>3, TakenIs DEF Resuming, Told, DesktopInv, FileInv
  <2>4. (LoggingIn' => LoggingIn) /\ ~Resuming'
    BY <2>2, SessionOps, NoOpFits DEF Kinds
  <2>5. Session'
    BY <1>1, <2>3, <2>4 DEF DesktopInv, Session, Undisturbed, Rest
  <2>. QED  BY <2>2, <2>5 DEF DesktopInv
<1>. QED  BY <1>2, <1>3
-----------------------------------------------------------------------------
(* The beginning of a save.                                                *)
Fors == {"none", "console", "login", "stay", "port", "default", "browser"}

LEMMA Begins ==
    ASSUME Shape, NEW s \in Savers, NEW value \in Settings, NEW for \in Fors,
           BeginSave(s, value, for)
    PROVE  /\ saver' \in [Savers -> SaveStates]
           /\ saver'[s].step = "open" /\ saver'[s].value = value /\ saver'[s].for = for
           /\ \A r \in Savers \ {s} : saver'[r] = saver[r]
<1>. DEFINE v == [step |-> "open", value |-> value, at |-> "none", for |-> for]
<1>1. v \in SaveStates /\ v.step = "open" /\ v.value = value /\ v.for = for
  BY DEF SaveStates, Fors
<1>2. saver' = [saver EXCEPT ![s] = v] /\ saver \in [Savers -> SaveStates]
  BY DEF BeginSave, Shape, Saves
<1>. HIDE DEF v
<1>. QED  BY <1>1, <1>2

LEMMA Meets ==
    ASSUME NEW s \in Savers, SaveDisturbs(s)
    PROVE  /\ disturbances \subseteq disturbances'
           /\ "overlap" \notin disturbances' => \A r \in Savers \ {s} : ~Saving(r)
           /\ "outrun" \notin disturbances' => s = "api" \/ ~Outrun
           /\ "defaulted" \notin disturbances' => s # "api" \/ file \notin Unreadable
<1>1. disturbances' = disturbances
          \cup (IF \E r \in Savers \ {s} : Saving(r) THEN {"overlap"} ELSE {})
          \cup (IF s # "api" /\ Outrun THEN {"outrun"} ELSE {})
          \cup (IF s = "api" /\ file \in Unreadable THEN {"defaulted"} ELSE {})
  BY DEF SaveDisturbs, Disturb
<1>. QED  BY <1>1

LEMMA BeginsAlone ==
    ASSUME Shape, NEW s \in Savers, NEW value \in Settings, NEW for \in Fors,
           BeginSave(s, value, for), for # "browser", SaveDisturbs(s)
    PROVE  OneSave' /\ Handles'
<1>1. /\ saver'[s].step = "open" /\ saver'[s].for = for
      /\ \A r \in Savers \ {s} : saver'[r] = saver[r]
  BY Begins
<1>2. ASSUME "overlap" \notin disturbances'
      PROVE  /\ \A r \in Savers \ {s} : saver'[r] = NoSave
             /\ NoSave.step = "idle" /\ NoSave.for = "none"
  BY <1>1, <1>2, Meets, GoneIs DEF Shape, Saves
<1>3. OneSave'
  <2>1. "api" \in Savers
    BY DEF Savers
  <2>2. CASE "overlap" \in disturbances'
    BY <2>2 DEF OneSave, Undisturbed
  <2>3. CASE "overlap" \notin disturbances'
    <3>1. \A r \in Savers : saver'[r].step # "idle" => r = s
      BY <1>2, <2>3
    <3>2. saver'["api"].for # "browser"
      BY <1>1, <1>2, <2>1, <2>3
    <3>. QED  BY <3>1, <3>2 DEF OneSave, Saving
  <2>. QED  BY <2>2, <2>3
<1>4. Handles'
  <2>1. CASE "overlap" \in disturbances'
    BY <2>1 DEF Handles, Undisturbed
  <2>2. CASE "overlap" \notin disturbances'
    <3>1. \A r \in Savers : saver'[r].step \notin {"write", "replace"}
      BY <1>1, <1>2, <2>2
    <3>. QED  BY <3>1 DEF Handles
  <2>. QED  BY <2>1, <2>2
<1>. QED  BY <1>3, <1>4

(* ... in the window's thread.                                             *)
LEMMA WindowSaves ==
    ASSUME DesktopInv, NEW value \in Settings, NEW for \in {"console", "login", "stay"},
           BeginSave("ui", value, for), SaveDisturbs("ui"), window.phase = "open",
           ~Saving("ui"), window' \in WindowStates, window'.phase = "open",
           window'.settings = value, window.busy \subseteq window'.busy \cup {"login"},
           UNCHANGED <<file, temporary, told>>,
           account' \in Users \cup {None}, Operations', Waiting', QueueMoves,
           op'["default"] = op["default"], op'["port"] = op["port"]
    PROVE  FileInv'
<1>1. "ui" \in Savers /\ "port" \in Savers /\ "api" \in Savers /\ for \in Fors /\ for # "browser"
  BY DEF Savers, Fors
<1>2. /\ saver' \in [Savers -> SaveStates]
      /\ saver'["ui"].step = "open" /\ saver'["ui"].value = value /\ saver'["ui"].for = for
      /\ saver'["port"] = saver["port"] /\ saver'["api"] = saver["api"]
      /\ \A r \in Savers \ {"ui"} : saver'[r] = saver[r]
  BY <1>1, Begins DEF DesktopInv, FileInv
<1>3. /\ disturbances \subseteq disturbances'
      /\ "overlap" \notin disturbances' => \A r \in Savers \ {"ui"} : ~Saving(r)
      /\ "outrun" \notin disturbances' => ~Outrun
  BY <1>1, Meets
<1>4. OneSave' /\ Handles'
  BY <1>1, BeginsAlone DEF DesktopInv, FileInv
<1>5. Shape'
  <2>1. Saves'
    <3>1. \A s \in Savers :
              IF saver'[s].step # "idle" THEN saver'[s].value \in Settings ELSE saver'[s] = NoSave
      BY <1>2 DEF DesktopInv, FileInv, Shape, Saves, Saving
    <3>. QED  BY <1>2, <3>1 DEF DesktopInv, FileInv, Shape, Saves, Saving
  <2>2. Windows'
    BY DEF DesktopInv, FileInv, Shape, Windows
  <2>. QED  BY <2>1, <2>2 DEF DesktopInv, FileInv, Shape
<1>6. ASSUME Undisturbed({"overlap", "outrun", "lost", "browser"})'
      PROVE  /\ Undisturbed({"overlap", "outrun", "lost", "browser"})
             /\ ~Told("default") /\ ~Told("port") /\ ~Saving("port") /\ ~Saving("api")
  BY <1>1, <1>3, <1>6 DEF Undisturbed, Outrun, Told
<1>7. Written' = Written
  BY DEF Written, Told
<1>8. ASSUME Undisturbed({"overlap", "outrun", "lost", "browser"})' PROVE InOrder'
  BY <1>6, <1>8 DEF InOrder, Told
<1>9. Kept'
  <2>1. ASSUME Undisturbed({"overlap", "outrun", "lost", "browser"})'
        PROVE  /\ file' \in told' \cup Written'
               /\ ~Told("default")' /\ ~Told("port")'
    BY <1>6, <1>7, <2>1 DEF DesktopInv, FileInv, Kept, Told
  <2>. QED  BY <1>8, <2>1 DEF Kept
<1>10. Knows'
  <2>1. ASSUME Undisturbed({"overlap", "outrun", "lost", "browser", "failed", "defaulted"})'
        PROVE  saver'["api"].for = "none"
    <3>1. Undisturbed({"overlap", "outrun", "lost", "browser"})'
      BY <2>1 DEF Undisturbed
    <3>. QED  BY <1>1, <1>2, <1>6, <3>1, GoneIs DEF DesktopInv, FileInv, Shape, Saves
  <2>. QED  BY <1>2, <2>1 DEF Knows, Saving
<1>. QED  BY <1>4, <1>5, <1>9, <1>10 DEF FileInv

LEMMA RecordSettings ==
    ASSUME DesktopInv, NEW u \in Users \cup {None}, NEW p \in Ports, window.phase = "open"
    PROVE  /\ [window.settings EXCEPT !.user = u] \in Settings
           /\ [window.settings EXCEPT !.port = p] \in Settings
BY DEF DesktopInv, FileInv, Shape, Windows, Settings

(* The recorded user, after a login or a logout.                           *)
LEMMA RecordKeeps ==
    ASSUME DesktopInv, NEW k \in {"login", "logout"}, NEW u \in Users \cup {None},
           NEW busy \in SUBSET Buttons, NEW page \in {"console", "login"},
           Takes(k), Done(k), RecordUser(u, busy, page), window.busy \subseteq busy \cup {"login"},
           page = "console" => k = "login" /\ op["login"].ok,
           UNCHANGED <<file, temporary, account, told>>
    PROVE  DesktopInv'
<1>. DEFINE settings == [window.settings EXCEPT !.user = u]
<1>1. /\ Shape /\ k \in Kinds /\ page \in {"console", "login", "stay"}
      /\ op[k].step = "answered" /\ window.phase = "open" /\ ~Saving("ui")
      /\ queue # <<>> /\ queue' = Tail(queue)
  BY TakenIs DEF DesktopInv, FileInv, Kinds
<1>2. /\ Operations' /\ Waiting' /\ op'[k] = NoOp /\ \A j \in Kinds \ {k} : op'[j] = op[j]
  BY <1>1, OneOp, DoneTurns
<1>3. settings \in Settings
  BY <1>1, RecordSettings, Constants
<1>4. /\ window' \in WindowStates /\ window'.phase = "open" /\ window'.settings = settings
      /\ window'.busy = busy /\ window'.page = window.page
      /\ BeginSave("ui", settings, page) /\ SaveDisturbs("ui")
  BY <1>1, <1>3 DEF RecordUser, Shape, Windows, WindowStates
<1>. HIDE DEF settings
<1>5. QueueMoves /\ op'["default"] = op["default"] /\ op'["port"] = op["port"]
  BY <1>1, <1>2 DEF QueueMoves, Kinds
<1>6. FileInv'
  BY <1>1, <1>2, <1>3, <1>4, <1>5, WindowSaves DEF Shape
<1>7. /\ saver'["ui"].for = page /\ disturbances \subseteq disturbances'
  <2>1. "ui" \in Savers /\ page \in Fors
    BY DEF Savers, Fors
  <2>. QED  BY <1>1, <1>3, <1>4, <2>1, Begins, Meets
<1>8. /\ LoggingIn' => LoggingIn
      /\ Resuming' => Resuming
  BY <1>2, SessionOps, NoOpFits DEF Kinds
<1>9. page = "console" => LoggingIn
  BY <1>1 DEF LoggingIn, Told
<1>10. Session'
  <2>. SUFFICES ASSUME Undisturbed({"late", "lost", "failed", "signedOut"})'
                PROVE  /\ LoggingIn' \/ Resuming' => account' # None
                       /\ page = "console" => account' # None
    BY <1>4, <1>7 DEF Session
  <2>. QED  BY <1>1, <1>7, <1>8, <1>9 DEF DesktopInv, Session, Undisturbed
<1>. QED  BY <1>6, <1>10 DEF DesktopInv

LEMMA LoginAnsweredKeeps == ASSUME DesktopInv, LoginAnswered PROVE DesktopInv'
<1>1. /\ Takes("login") /\ Done("login") /\ "login" \in Kinds
      /\ UNCHANGED <<file, temporary, account, told>> /\ Shape
  BY DEF LoginAnswered, Kinds, DesktopInv, FileInv
<1>2. CASE op["login"].ok
  <2>1. op["login"].arg \in Users \cup {None}
    BY <1>1, TakenIs DEF Shape, Operations, Fits
  <2>2. window.busy \ {"login"} \in SUBSET Buttons
    BY <1>1 DEF Shape, Windows, WindowStates
  <2>3. RecordUser(op["login"].arg, window.busy \ {"login"}, "console")
    BY <1>2 DEF LoginAnswered
  <2>4. window.busy \subseteq (window.busy \ {"login"}) \cup {"login"}
    OBVIOUS
  <2>. QED  BY <1>1, <1>2, <2>1, <2>2, <2>3, <2>4, RecordKeeps
<1>3. CASE ~op["login"].ok
  <2>1. Enable("login") /\ UNCHANGED <<Rest, account>> /\ disturbances \subseteq disturbances'
    BY <1>3 DEF LoginAnswered, Rest
  <2>. QED  BY <1>1, <1>3, <2>1, FailureKeeps
<1>. QED  BY <1>2, <1>3

LEMMA LogoutAnsweredKeeps == ASSUME DesktopInv, LogoutAnswered PROVE DesktopInv'
<1>1. /\ Takes("logout") /\ Done("logout") /\ "logout" \in Kinds
      /\ UNCHANGED <<file, temporary, account, told>> /\ Shape
  BY DEF LogoutAnswered, Kinds, DesktopInv, FileInv
<1>2. CASE op["logout"].ok
  <2>1. window.busy \in SUBSET Buttons
    BY <1>1 DEF Shape, Windows, WindowStates
  <2>2. RecordUser(None, window.busy, "login")
    BY <1>2 DEF LogoutAnswered
  <2>. QED  BY <1>1, <2>1, <2>2, RecordKeeps
<1>3. CASE ~op["logout"].ok
  <2>1. UNCHANGED <<Rest, account, window>> /\ disturbances \subseteq disturbances'
    BY <1>3 DEF LogoutAnswered, Rest
  <2>2. window' \in WindowStates
    BY <1>1, <2>1 DEF Shape, Windows
  <2>. QED  BY <1>1, <1>3, <2>1, <2>2, TakenKeeps
<1>. QED  BY <1>2, <1>3

LEMMA SavePortKeeps == ASSUME DesktopInv, NEW p \in Ports, SavePort(p) PROVE DesktopInv'
<1>1. /\ Shape /\ window.phase = "open" /\ ~Saving("ui") /\ window.page = "console"
      /\ UNCHANGED <<file, temporary, account, queue, told>> /\ "port" \notin window.busy
  BY DEF SavePort, UiFree, DesktopInv, FileInv
<1>2. CASE /\ window' = [window EXCEPT !.settings = [window.settings EXCEPT !.port = p]]
           /\ BeginSave("ui", [window.settings EXCEPT !.port = p], "stay")
           /\ SaveDisturbs("ui") /\ UNCHANGED op
  <2>. DEFINE settings == [window.settings EXCEPT !.port = p]
  <2>1. settings \in Settings
    BY <1>1, RecordSettings, Constants
  <2>2. /\ window' \in WindowStates /\ window'.phase = "open" /\ window'.settings = settings
        /\ window'.busy = window.busy /\ window'.page = window.page
        /\ BeginSave("ui", settings, "stay")
    BY <1>1, <1>2, <2>1 DEF Shape, Windows, WindowStates
  <2>. HIDE DEF settings
  <2>3. Operations' /\ Waiting' /\ QueueMoves
    BY <1>1, <1>2 DEF Shape, Operations, Waiting, QueueMoves
  <2>4. FileInv'
    BY <1>1, <1>2, <2>1, <2>2, <2>3, WindowSaves DEF Shape
  <2>5. /\ saver'["ui"].for = "stay" /\ disturbances \subseteq disturbances'
        /\ saver["ui"].for = "none"
    <3>1. "ui" \in Savers /\ "stay" \in Fors
      BY DEF Savers, Fors
    <3>. QED  BY <1>1, <1>2, <2>1, <2>2, <3>1, Begins, Meets, GoneIs DEF Shape, Saves
  <2>6. (LoggingIn' <=> LoggingIn) /\ (Resuming' <=> Resuming)
    BY <1>2, SessionOps
  <2>7. Session'
    BY <1>1, <1>2, <2>2, <2>5, <2>6 DEF DesktopInv, Session, Undisturbed, Told
  <2>. QED  BY <2>4, <2>7 DEF DesktopInv
<1>3. CASE Disable("port") /\ Submit("port", p) /\ UNCHANGED <<saver, disturbances>>
  <2>1. op["port"].step = "none"
    BY <1>1 DEF Shape, Windows
  <2>2. /\ UNCHANGED <<Rest, queue, account>> /\ disturbances \subseteq disturbances'
        /\ "port" \in Kinds \ {"start", "resume"} /\ "port" \in Buttons
    BY <1>1, <1>3 DEF Rest, Kinds, Buttons
  <2>. QED  BY <1>1, <1>3, <2>1, <2>2, Clicked
<1>. QED  BY <1>2, <1>3 DEF SavePort

LEMMA LoadIs ==
    ASSUME Shape, NEW p \in Ports
    PROVE  /\ Load(p) \in Settings
           /\ file \notin Unreadable => Load(p) = file /\ file \in Settings
           /\ file \in Settings => Load(p) = file
           /\ \A n \in Notebooks \cup {None} : [Load(p) EXCEPT !.notebook = n] \in Settings
<1>1. Load(p) \in Settings
  <2>1. file \notin Unreadable => file \in Settings
    BY DEF Shape
  <2>. QED  BY <2>1 DEF Load, Settings
<1>2. file \in Settings => file \notin Unreadable
  BY Constants
<1>. QED  BY <1>1, <1>2 DEF Load, Settings, Shape

(* ... in the port operation.                                              *)
LEMMA PortConnectsKeeps == ASSUME DesktopInv, PortConnects PROVE DesktopInv'
<1>1. /\ Shape /\ op["port"].step = "connect" /\ "port" \in Kinds /\ "port" \in Savers
      /\ "ui" \in Savers /\ "api" \in Savers /\ "default" \in Kinds
      /\ UNCHANGED <<file, temporary, account, window, told>>
      /\ window \in WindowStates /\ window.phase # "gone"
  BY DEF PortConnects, Kinds, Savers, DesktopInv, FileInv, Shape, Windows
<1>2. CASE Fails("port") /\ UNCHANGED <<saver, disturbances>>
  <2>1. UNCHANGED <<Rest, account, window>> /\ disturbances \subseteq disturbances'
    BY <1>1, <1>2 DEF Rest
  <2>. QED  BY <1>1, <1>2, <2>1, GoesOn
<1>3. CASE /\ BeginSave("port", [window.settings EXCEPT !.port = op["port"].arg], "port")
           /\ SaveDisturbs("port") /\ Proceeds("port", "saving")
  <2>. DEFINE value == [window.settings EXCEPT !.port = op["port"].arg]
  <2>1. op["port"].arg \in Ports /\ window.settings \in Settings
    BY <1>1 DEF Shape, Operations, Fits, Windows
  <2>2. value \in Settings /\ "port" \in Fors
    BY <2>1 DEF Settings, Fors
  <2>3. BeginSave("port", value, "port")
    BY <1>3
  <2>. HIDE DEF value
  <2>4. /\ saver' \in [Savers -> SaveStates]
        /\ saver'["port"].step = "open" /\ saver'["port"].value = value
        /\ saver'["port"].for = "port"
        /\ \A r \in Savers \ {"port"} : saver'[r] = saver[r]
    BY <1>1, <2>2, <2>3, Begins
  <2>5. /\ disturbances \subseteq disturbances'
        /\ "overlap" \notin disturbances' => \A r \in Savers \ {"port"} : ~Saving(r)
        /\ "outrun" \notin disturbances' => ~Outrun
    BY <1>1, <1>3, Meets
  <2>6. OneSave' /\ Handles'
    BY <1>1, <1>3, <2>2, <2>3, BeginsAlone
  <2>7. /\ Operations' /\ Waiting' /\ op'["port"].step = "saving" /\ op'["port"].arg = op["port"].arg
        /\ \A j \in Kinds \ {"port"} : op'[j] = op[j]
    <3>. DEFINE o == [op["port"] EXCEPT !.step = "saving"]
    <3>1. "saving" \in OpSteps \ {"none", "answered"}
      BY DEF OpSteps
    <3>2. Turns("port", o) /\ o.step = "saving" /\ o.arg = op["port"].arg
      BY <1>1, <1>3, <3>1, ProceedsTurns
    <3>. HIDE DEF o
    <3>. QED  BY <1>1, <3>2, OneOp
  <2>8. Shape'
    <3>1. Saves'
      <4>1. \A s \in Savers :
                IF saver'[s].step # "idle" THEN saver'[s].value \in Settings ELSE saver'[s] = NoSave
        BY <2>2, <2>4 DEF Shape, Saves, Saving, DesktopInv, FileInv
      <4>. QED  BY <1>1, <2>4, <2>7, <4>1 DEF Shape, Saves, Saving, Savers, Kinds
    <3>2. Windows'
      <4>1. \A j \in Kinds : op'[j].step = "answered" => op[j].step = "answered"
        BY <2>7
      <4>2. \A j \in Kinds : op'[j].step # "none" => op[j].step # "none"
        BY <1>1, <2>7
      <4>. QED  BY <1>1, <4>1, <4>2 DEF Shape, Windows, Kinds
    <3>. QED  BY <1>1, <2>7, <3>1, <3>2 DEF Shape
  <2>9. ~Told("port") /\ ~Told("port")' /\ (Told("default")' <=> Told("default"))
    BY <1>1, <2>7 DEF Told
  <2>10. Written' = Written
    BY <1>1, <2>7, <2>9 DEF Written, Told
  <2>11. ASSUME Undisturbed({"overlap", "outrun", "lost", "browser"})'
         PROVE  /\ Undisturbed({"overlap", "outrun", "lost", "browser"})
                /\ ~Told("default") /\ ~Told("default")' /\ ~Saving("ui") /\ ~Saving("api")
    BY <1>1, <2>5, <2>9, <2>11 DEF Undisturbed, Outrun, Told
  <2>12. Kept'
    <3>1. ASSUME Undisturbed({"overlap", "outrun", "lost", "browser"})'
          PROVE  file' \in told' \cup Written' /\ InOrder'
      BY <1>1, <2>9, <2>10, <2>11, <3>1 DEF DesktopInv, FileInv, Kept, InOrder
    <3>. QED  BY <2>9, <2>11, <3>1 DEF Kept
  <2>13. Knows'
    <3>1. ASSUME Undisturbed({"overlap", "outrun", "lost", "browser", "failed", "defaulted"})',
                 window'.phase = "open"
          PROVE  /\ saver'["api"].for = "none" /\ saver'["ui"].step = "idle"
                 /\ Load(DefaultPort)' = Coming'
      <4>1. /\ Undisturbed({"overlap", "outrun", "lost", "browser"})'
            /\ Undisturbed({"overlap", "outrun", "lost", "browser", "failed", "defaulted"})
        BY <2>5, <3>1 DEF Undisturbed
      <4>2. ~Told("default") /\ ~Told("default")' /\ ~Saving("ui") /\ ~Saving("api")
        BY <2>11, <4>1
      <4>3. Coming = window.settings /\ Coming' = window.settings
        BY <1>1, <2>9, <4>2 DEF Coming
      <4>4. Load(DefaultPort) = Coming
        BY <1>1, <3>1, <4>1, <4>2 DEF DesktopInv, FileInv, Knows
      <4>5. Load(DefaultPort)' = Load(DefaultPort)
        BY <1>1 DEF Load
      <4>6. saver'["api"] = NoSave /\ saver'["ui"] = NoSave
        BY <1>1, <2>4, <4>2 DEF Shape, Saves
      <4>. QED  BY <4>3, <4>4, <4>5, <4>6, GoneIs
    <3>. QED  BY <3>1 DEF Knows, Saving
  <2>14. Session'
    <3>1. (LoggingIn' <=> LoggingIn) /\ (Resuming' <=> Resuming)
      BY <2>7, SessionOps DEF Kinds
    <3>2. op'["logout"] = op["logout"] /\ saver'["ui"] = saver["ui"]
      BY <1>1, <2>4, <2>7 DEF Kinds, Savers
    <3>. QED  BY <1>1, <2>5, <3>1, <3>2, SessionStays DEF DesktopInv
  <2>. QED  BY <2>6, <2>8, <2>12, <2>13, <2>14 DEF DesktopInv, FileInv
<1>. QED  BY <1>2, <1>3 DEF PortConnects

(* ... in the API.                                                         *)
LEMMA DefaultListedKeeps == ASSUME DesktopInv, DefaultListed PROVE DesktopInv'
<1>1. /\ Shape /\ op["default"].step = "list" /\ "port" \in Kinds /\ "port" \in Savers
      /\ "ui" \in Savers /\ "api" \in Savers /\ "default" \in Kinds
      /\ UNCHANGED <<file, temporary, account, window, told>>
      /\ window \in WindowStates /\ window.phase # "gone"
  BY DEF DefaultListed, Kinds, Savers, DesktopInv, FileInv, Shape, Windows
<1>2. CASE Fails("default") /\ UNCHANGED <<saver, disturbances>>
  <2>1. UNCHANGED <<Rest, account, window>> /\ disturbances \subseteq disturbances'
    BY <1>1, <1>2 DEF Rest
  <2>. QED  BY <1>1, <1>2, <2>1, GoesOn
<1>3. CASE /\ ~Saving("api")
           /\ BeginSave("api", [Load(window.port) EXCEPT !.notebook = op["default"].arg], "default")
           /\ SaveDisturbs("api") /\ Proceeds("default", "saving")
  <2>. DEFINE value == [Load(window.port) EXCEPT !.notebook = op["default"].arg]
  <2>1. op["default"].arg \in Notebooks /\ window.port \in Ports
    BY <1>1 DEF Shape, Operations, Fits, WindowStates
  <2>2. /\ value \in Settings /\ "default" \in Fors
        /\ file \notin Unreadable =>
              file \in Settings /\ value = [file EXCEPT !.notebook = op["default"].arg]
    BY <1>1, <2>1, LoadIs DEF Fors
  <2>3. BeginSave("api", value, "default")
    BY <1>3
  <2>. HIDE DEF value
  <2>4. /\ saver' \in [Savers -> SaveStates]
        /\ saver'["api"].step = "open" /\ saver'["api"].value = value
        /\ saver'["api"].for = "default"
        /\ \A r \in Savers \ {"api"} : saver'[r] = saver[r]
    BY <1>1, <2>2, <2>3, Begins
  <2>5. /\ disturbances \subseteq disturbances'
        /\ "defaulted" \notin disturbances' => file \notin Unreadable
    BY <1>1, <1>3, Meets
  <2>6. OneSave' /\ Handles'
    BY <1>1, <1>3, <2>2, <2>3, BeginsAlone
  <2>7. /\ Operations' /\ Waiting' /\ op'["default"].step = "saving"
        /\ op'["default"].arg = op["default"].arg
        /\ \A j \in Kinds \ {"default"} : op'[j] = op[j]
    <3>. DEFINE o == [op["default"] EXCEPT !.step = "saving"]
    <3>1. "saving" \in OpSteps \ {"none", "answered"}
      BY DEF OpSteps
    <3>2. Turns("default", o) /\ o.step = "saving" /\ o.arg = op["default"].arg
      BY <1>1, <1>3, <3>1, ProceedsTurns
    <3>. HIDE DEF o
    <3>. QED  BY <1>1, <3>2, OneOp
  <2>8. Shape'
    <3>1. Saves'
      <4>1. \A s \in Savers :
                IF saver'[s].step # "idle" THEN saver'[s].value \in Settings ELSE saver'[s] = NoSave
        BY <2>2, <2>4 DEF Shape, Saves, Saving, DesktopInv, FileInv
      <4>. QED  BY <1>1, <2>4, <2>7, <4>1 DEF Shape, Saves, Saving, Savers, Kinds
    <3>2. Windows'
      <4>1. \A j \in Kinds : op'[j].step = "answered" => op[j].step = "answered"
        BY <2>7
      <4>2. \A j \in Kinds : op'[j].step # "none" => op[j].step # "none"
        BY <1>1, <2>7
      <4>. QED  BY <1>1, <4>1, <4>2 DEF Shape, Windows, Kinds
    <3>. QED  BY <1>1, <2>7, <3>1, <3>2 DEF Shape
  <2>9. /\ ~Told("default") /\ ~Told("default")' /\ (Told("port")' <=> Told("port"))
        /\ op'["port"] = op["port"]
    BY <1>1, <2>7 DEF Told
  <2>10. Written' = Written
    BY <1>1, <2>7, <2>9 DEF Written, Told
  <2>11. /\ saver'["ui"] = saver["ui"] /\ saver'["port"] = saver["port"]
         /\ queue' = queue /\ Load(DefaultPort)' = Load(DefaultPort)
    BY <1>1, <1>3, <2>4 DEF Proceeds, Load
  <2>12. Kept'
    <3>1. ASSUME Undisturbed({"overlap", "outrun", "lost", "browser"})'
          PROVE  /\ Undisturbed({"overlap", "outrun", "lost", "browser"}) /\ InOrder'
      BY <2>5, <2>9, <3>1 DEF Undisturbed, InOrder
    <3>2. ASSUME Undisturbed({"overlap", "outrun", "lost", "browser"})'
          PROVE  /\ file' \in told' \cup Written'
                 /\ Told("port")' => file' = op'["port"].value
                 /\ saver'["ui"].step # "idle" \/ saver'["port"].step # "idle" => ~Told("port")'
      BY <1>1, <2>9, <2>10, <2>11, <3>1, <3>2 DEF DesktopInv, FileInv, Kept, Saving
    <3>. QED  BY <2>9, <3>1, <3>2 DEF Kept, Saving
  <2>13. Knows'
    <3>1. Coming' = Coming
      BY <1>1, <2>9 DEF Coming
    <3>2. ASSUME Undisturbed({"overlap", "outrun", "lost", "browser", "failed", "defaulted"})'
          PROVE  /\ Undisturbed({"overlap", "outrun", "lost", "browser", "failed", "defaulted"})
                 /\ file \notin Unreadable
      BY <2>5, <3>2 DEF Undisturbed
    <3>3. ASSUME Undisturbed({"overlap", "outrun", "lost", "browser", "failed", "defaulted"})',
                 window'.phase = "open"
          PROVE  /\ IF saver'["ui"].step # "idle" THEN saver'["ui"].value = window'.settings
                    ELSE Load(DefaultPort)' = Coming'
                 /\ file' \in Settings
                 /\ saver'["api"].value = [file' EXCEPT !.notebook = op'["default"].arg]
      BY <1>1, <2>2, <2>4, <2>7, <2>11, <3>1, <3>2, <3>3 DEF DesktopInv, FileInv, Knows, Saving
    <3>. QED  BY <3>3 DEF Knows, Saving
  <2>14. Session'
    <3>1. (LoggingIn' <=> LoggingIn) /\ (Resuming' <=> Resuming)
      BY <2>7, SessionOps DEF Kinds
    <3>2. op'["logout"] = op["logout"]
      BY <2>7 DEF Kinds
    <3>. QED  BY <1>1, <2>5, <2>11, <3>1, <3>2, SessionStays DEF DesktopInv
  <2>. QED  BY <2>6, <2>8, <2>12, <2>13, <2>14 DEF DesktopInv, FileInv
<1>. QED  BY <1>2, <1>3 DEF DefaultListed

(* ... for the web console: then nothing is said of the file.              *)
LEMMA BrowserKeeps ==
    ASSUME DesktopInv, NEW n \in Notebooks, BrowserDefault(n) PROVE DesktopInv'
<1>. DEFINE value == [Load(window.port) EXCEPT !.notebook = n]
<1>1. /\ Shape /\ "ui" \in Savers /\ "port" \in Savers /\ "api" \in Savers /\ "browser" \in Fors
      /\ UNCHANGED <<file, temporary, account, window, op, queue, told>>
      /\ window \in WindowStates /\ window.owned /\ ~Saving("api")
  BY DEF BrowserDefault, Savers, Fors, DesktopInv, FileInv, Shape, Windows
<1>2. value \in Settings
  <2>1. window.port \in Ports
    BY <1>1 DEF WindowStates
  <2>. QED  BY <1>1, <2>1, LoadIs
<1>3. BeginSave("api", value, "browser")
  BY DEF BrowserDefault
<1>. HIDE DEF value
<1>4. /\ saver' \in [Savers -> SaveStates]
      /\ saver'["api"].step = "open" /\ saver'["api"].value = value
      /\ saver'["api"].for = "browser"
      /\ \A r \in Savers \ {"api"} : saver'[r] = saver[r]
  BY <1>1, <1>2, <1>3, Begins
<1>5. disturbances \subseteq disturbances' /\ "browser" \in disturbances'
  BY DEF BrowserDefault, Disturb
<1>6. OneSave' /\ Handles' /\ Kept' /\ Knows'
  BY <1>5 DEF OneSave, Handles, Kept, Knows, Undisturbed
<1>7. Operations' /\ Waiting'
  BY <1>1 DEF Shape, Operations, Waiting
<1>8. Saves'
  <2>1. \A s \in Savers :
            IF saver'[s].step # "idle" THEN saver'[s].value \in Settings ELSE saver'[s] = NoSave
    BY <1>2, <1>4 DEF DesktopInv, FileInv, Shape, Saves, Saving
  <2>2. op["default"].step # "saving"
    BY <1>1, GoneIs DEF Shape, Saves
  <2>. QED  BY <1>1, <1>4, <2>1, <2>2 DEF Shape, Saves, Saving
<1>9. window.phase # "gone"
  BY <1>1 DEF Shape, Windows
<1>10. Windows'
  BY <1>1, <1>9 DEF Shape, Windows
<1>11. Shape'
  BY <1>1, <1>7, <1>8, <1>10 DEF Shape
<1>12. Session'
  <2>1. (LoggingIn' <=> LoggingIn) /\ (Resuming' <=> Resuming)
    BY <1>1, SessionOps
  <2>. QED  BY <1>1, <1>4, <1>5, <2>1, SessionStays DEF DesktopInv
<1>. QED  BY <1>6, <1>11, <1>12 DEF DesktopInv, FileInv
-----------------------------------------------------------------------------
(* The steps of a save.                                                    *)

(* A saver goes on; everybody else's save stays as it is.                  *)
LEMMA SaversStay ==
    ASSUME Shape, NEW s \in Savers, Saving(s), UNCHANGED <<account, window, op, queue>>,
           file' \in Settings \cup Unreadable, temporary' \in Settings \cup Unreadable,
           saver' \in [Savers -> SaveStates],
           saver'[s].step # "idle", saver'[s].value = saver[s].value, saver'[s].for = saver[s].for,
           \A r \in Savers \ {s} : saver'[r] = saver[r]
    PROVE  /\ Shape'
           /\ \A r \in Savers : /\ saver'[r].step # "idle" <=> Saving(r)
                                /\ saver'[r].value = saver[r].value
                                /\ saver'[r].for = saver[r].for
<1>1. \A r \in Savers : /\ saver'[r].step # "idle" <=> Saving(r)
                        /\ saver'[r].value = saver[r].value
                        /\ saver'[r].for = saver[r].for
  BY DEF Saving
<1>2. Operations' /\ Waiting'
  BY DEF Shape, Operations, Waiting
<1>3. Saves'
  <2>1. \A r \in Savers :
            IF saver'[r].step # "idle" THEN saver'[r].value \in Settings ELSE saver'[r] = NoSave
    BY <1>1 DEF Shape, Saves, Saving
  <2>. QED  BY <1>1, <2>1 DEF Shape, Saves, Saving, Savers
<1>4. Windows'
  BY <1>1 DEF Shape, Windows, Saving
<1>. QED  BY <1>1, <1>2, <1>3, <1>4 DEF Shape

(* ... and as long as the file is the same, so is what is known of it.     *)
LEMMA SaveGoesOn ==
    ASSUME DesktopInv, NEW s \in Savers, Saving(s), Shape',
           UNCHANGED <<account, window, op, queue, told, disturbances>>,
           Undisturbed({"overlap", "browser"}) => file' = file,
           \A r \in Savers : /\ saver'[r].step # "idle" <=> Saving(r)
                             /\ saver'[r].value = saver[r].value
                             /\ saver'[r].for = saver[r].for
    PROVE  OneSave' /\ Kept' /\ Knows' /\ Session'
<1>1. "api" \in Savers /\ "ui" \in Savers /\ "port" \in Savers
  BY DEF Savers
<1>2. OneSave'
  BY <1>1 DEF DesktopInv, FileInv, OneSave, Saving, Undisturbed
<1>3. Kept'
  <2>1. Undisturbed({"overlap", "outrun", "lost", "browser"}) => file' = file
    BY DEF Undisturbed
  <2>2. Written' = Written /\ (InOrder' <=> InOrder)
    BY DEF Written, InOrder, Told
  <2>. QED  BY <1>1, <2>1, <2>2 DEF DesktopInv, FileInv, Kept, Saving, Undisturbed, Told
<1>4. Knows'
  <2>1. Undisturbed({"overlap", "outrun", "lost", "browser", "failed", "defaulted"}) => file' = file
    BY DEF Undisturbed
  <2>2. Coming' = Coming
    BY DEF Coming, Told
  <2>. QED  BY <1>1, <2>1, <2>2 DEF DesktopInv, FileInv, Knows, Saving, Undisturbed, Load
<1>5. Session'
  <2>1. (LoggingIn' <=> LoggingIn) /\ (Resuming' <=> Resuming)
    BY SessionOps
  <2>. QED  BY <1>1, <2>1, SessionStays DEF DesktopInv
<1>. QED  BY <1>2, <1>3, <1>4, <1>5

LEMMA SaveOpenKeeps == ASSUME DesktopInv, NEW s \in Savers, SaveOpen(s) PROVE DesktopInv'
<1>1. /\ Shape /\ Saving(s) /\ temporary' = Empty
      /\ UNCHANGED <<file, account, window, op, queue, told, disturbances>>
      /\ file' \in Settings \cup Unreadable /\ temporary' \in Settings \cup Unreadable
  BY Constants DEF SaveOpen, Saving, DesktopInv, FileInv, Shape
<1>2. /\ saver' \in [Savers -> SaveStates]
      /\ saver'[s].step = "write" /\ saver'[s].at = "temporary"
      /\ saver'[s].value = saver[s].value /\ saver'[s].for = saver[s].for
      /\ \A r \in Savers \ {s} : saver'[r] = saver[r]
  <2>. DEFINE v == [saver[s] EXCEPT !.step = "write", !.at = "temporary"]
  <2>1. saver \in [Savers -> SaveStates] /\ saver[s] \in SaveStates
    BY <1>1 DEF Shape, Saves
  <2>2. /\ v \in SaveStates /\ v.step = "write" /\ v.at = "temporary"
        /\ v.value = saver[s].value /\ v.for = saver[s].for
    BY <2>1 DEF SaveStates
  <2>3. saver' = [saver EXCEPT ![s] = v]
    BY <2>1 DEF SaveOpen
  <2>. HIDE DEF v
  <2>. QED  BY <2>1, <2>2, <2>3
<1>3. /\ Shape'
      /\ \A r \in Savers : /\ saver'[r].step # "idle" <=> Saving(r)
                           /\ saver'[r].value = saver[r].value
                           /\ saver'[r].for = saver[r].for
  <2>. saver'[s].step # "idle"
    BY <1>2
  <2>. QED  BY <1>1, <1>2, SaversStay
<1>4. OneSave' /\ Kept' /\ Knows' /\ Session'
  BY <1>1, <1>3, SaveGoesOn
<1>5. Handles'
  <2>1. ASSUME Undisturbed({"overlap", "browser"}), NEW r \in Savers, r # s
        PROVE  saver'[r].step = "idle"
    BY <1>1, <1>2, <2>1 DEF DesktopInv, FileInv, OneSave, Saving
  <2>. QED  BY <1>1, <1>2, <2>1 DEF Handles, Undisturbed
<1>. QED  BY <1>3, <1>4, <1>5 DEF DesktopInv, FileInv

LEMMA SaveWriteKeeps == ASSUME DesktopInv, NEW s \in Savers, SaveWrite(s) PROVE DesktopInv'
<1>1. /\ Shape /\ Saving(s) /\ saver[s].step = "write" /\ saver[s].value \in Settings
      /\ UNCHANGED <<account, window, op, queue, told, disturbances>>
  BY DEF SaveWrite, Saving, DesktopInv, FileInv, Shape, Saves
<1>2. file' \in Settings \cup Unreadable /\ temporary' \in Settings \cup Unreadable
  BY <1>1, Constants DEF SaveWrite, Texts, Shape
<1>3. /\ saver' \in [Savers -> SaveStates]
      /\ saver'[s].step = "replace"
      /\ saver'[s].value = saver[s].value /\ saver'[s].for = saver[s].for
      /\ \A r \in Savers \ {s} : saver'[r] = saver[r]
  <2>. DEFINE v == [saver[s] EXCEPT !.step = "replace"]
  <2>1. saver \in [Savers -> SaveStates] /\ saver[s] \in SaveStates
    BY <1>1 DEF Shape, Saves
  <2>2. /\ v \in SaveStates /\ v.step = "replace"
        /\ v.value = saver[s].value /\ v.for = saver[s].for
    BY <2>1 DEF SaveStates
  <2>3. saver' = [saver EXCEPT ![s] = v]
    BY <2>1 DEF SaveWrite
  <2>. HIDE DEF v
  <2>. QED  BY <2>1, <2>2, <2>3
<1>4. Undisturbed({"overlap", "browser"}) => file' = file /\ temporary' = saver[s].value
  <2>. SUFFICES ASSUME Undisturbed({"overlap", "browser"})
                PROVE  file' = file /\ temporary' = saver[s].value
    OBVIOUS
  <2>1. saver[s].at = "temporary" /\ temporary = Empty
    BY <1>1 DEF DesktopInv, FileInv, Handles
  <2>. QED  BY <2>1 DEF SaveWrite, Texts
<1>5. /\ Shape'
      /\ \A r \in Savers : /\ saver'[r].step # "idle" <=> Saving(r)
                           /\ saver'[r].value = saver[r].value
                           /\ saver'[r].for = saver[r].for
  <2>. saver'[s].step # "idle"
    BY <1>3
  <2>. QED  BY <1>1, <1>2, <1>3, SaversStay
<1>6. OneSave' /\ Kept' /\ Knows' /\ Session'
  BY <1>1, <1>4, <1>5, SaveGoesOn
<1>7. Handles'
  <2>1. ASSUME Undisturbed({"overlap", "browser"}), NEW r \in Savers, r # s
        PROVE  saver'[r].step = "idle"
    BY <1>1, <1>3, <2>1 DEF DesktopInv, FileInv, OneSave, Saving
  <2>. QED  BY <1>1, <1>3, <1>4, <2>1 DEF Handles, Undisturbed
<1>. QED  BY <1>5, <1>6, <1>7 DEF DesktopInv, FileInv

(* The last step of a save.                                                *)
LEMMA Whose ==
    ASSUME Shape, NEW s \in Savers, Saving(s)
    PROVE  /\ saver[s].value \in Settings
           /\ \/ s = "ui" /\ saver[s].for \in {"console", "login", "stay"}
              \/ s = "port" /\ saver[s].for = "port" /\ op["port"].step = "saving"
              \/ s = "api" /\ saver[s].for = "default" /\ op["default"].step = "saving"
              \/ s = "api" /\ saver[s].for = "browser" /\ op["default"].step # "saving"
<1>1. saver["api"].for = "browser" => op["default"].step # "saving"
  BY DEF Shape, Saves
<1>. QED  BY <1>1 DEF Shape, Saves, Savers

Leaves(s) ==
    /\ saver' \in [Savers -> SaveStates] /\ saver'[s] = NoSave
    /\ \A r \in Savers \ {s} : /\ saver'[r].step = saver[r].step
                               /\ saver'[r].value = saver[r].value
                               /\ saver'[r].for = saver[r].for
                               /\ ~Saving(r) => saver'[r] = NoSave

Releases(s) ==
    /\ op'["port"].step = "saving" <=> op["port"].step = "saving" /\ s # "port"
    /\ op'["default"].step = "saving" <=>
          op["default"].step = "saving" /\ saver[s].for # "default"
    /\ \A k \in Kinds : op'[k].step # "none" => op[k].step # "none"
    /\ window.phase # "open" => \A k \in Kinds : op'[k].step # "answered"

LEMMA SaveEnds ==
    ASSUME DesktopInv, NEW s \in Savers, Saving(s), Leaves(s), Releases(s),
           Operations', Waiting',
           file' \in Settings \cup Unreadable, temporary' \in Settings \cup Unreadable,
           UNCHANGED account, disturbances \subseteq disturbances',
           window' \in WindowStates, window'.phase = window.phase,
           window'.settings = window.settings, window'.busy = window.busy
    PROVE  Shape' /\ OneSave' /\ Handles'
<1>1. /\ Shape /\ NoSave.step = "idle" /\ NoSave.for = "none"
      /\ "ui" \in Savers /\ "port" \in Savers /\ "api" \in Savers
      /\ "default" \in Kinds /\ "port" \in Kinds
  BY GoneIs DEF DesktopInv, FileInv, Savers, Kinds
<1>2. \A r \in Savers :
          IF saver'[r].step # "idle" THEN saver'[r].value \in Settings /\ r # s /\ Saving(r)
          ELSE saver'[r] = NoSave
  BY <1>1 DEF Leaves, Shape, Saves, Saving
<1>3. Saves'
  <2>1. /\ saver'["ui"].step # "idle" => saver'["ui"].for \in {"console", "login", "stay"}
        /\ saver'["port"].step # "idle" => saver'["port"].for = "port"
        /\ saver'["api"].step # "idle" => saver'["api"].for \in {"default", "browser"}
    BY <1>1, <1>2 DEF Leaves, Shape, Saves
  <2>2. saver'["port"].step # "idle" <=> op'["port"].step = "saving"
    BY <1>1 DEF Leaves, Releases, Shape, Saves, Saving
  <2>3. saver'["api"].for = "default" <=> op'["default"].step = "saving"
    <3>1. CASE s = "api"
      BY <1>1, <3>1, Whose DEF Leaves, Releases
    <3>2. CASE s # "api"
      BY <1>1, <3>2, Whose DEF Leaves, Releases, Shape, Saves
    <3>. QED  BY <3>1, <3>2
  <2>. QED  BY <1>2, <2>1, <2>2, <2>3 DEF Saves, Saving, Leaves
<1>4. Windows'
  <2>1. window.phase # "gone"
    BY <1>1 DEF Shape, Windows
  <2>. QED  BY <1>1, <2>1 DEF Shape, Windows, Releases
<1>5. OneSave'
  BY <1>1, <1>2 DEF DesktopInv, FileInv, OneSave, Undisturbed, Saving, Leaves
<1>6. Handles'
  <2>1. ASSUME Undisturbed({"overlap", "browser"})', NEW r \in Savers
        PROVE  saver'[r].step = "idle"
    BY <1>1, <1>2, <2>1 DEF DesktopInv, FileInv, OneSave, Undisturbed
  <2>. QED  BY <2>1 DEF Handles
<1>. QED  BY <1>1, <1>3, <1>4, <1>5, <1>6 DEF Shape

(* The answer of the operation that saved.                                 *)
LEMMA SaveAnswers ==
    ASSUME Shape, NEW s \in Savers, Saving(s), NEW k \in {"default", "port"}, saver[s].for = k,
           NEW ok \in BOOLEAN, NEW value \in Settings \cup {Absent}, Answer(k, ok, value),
           ok => value \in Settings
    PROVE  /\ Operations' /\ Waiting' /\ Releases(s)
           /\ \A j \in Kinds \ {k} : op'[j] = op[j]
           /\ window.phase = "open" => /\ op'[k].step = "answered" /\ op'[k].arg = op[k].arg
                                       /\ (op'[k].ok <=> ok) /\ op'[k].value = value
                                       /\ queue' = Append(queue, k)
           /\ window.phase # "open" => op'[k].step = "none" /\ queue' = queue
<1>. DEFINE o == Outcome(k, ok, value)
<1>1. /\ k \in Kinds /\ op[k].step = "saving" /\ op[k] \in OpStates
      /\ k = "port" => s = "port"
      /\ k = "default" => s = "api"
  BY Whose DEF Kinds, Shape, Operations
<1>2. Turns(k, o)
  BY <1>1, AnswerTurns DEF Values
<1>3. /\ window.phase = "open" => /\ o.step = "answered" /\ o.arg = op[k].arg
                                  /\ (o.ok <=> ok) /\ o.value = value
      /\ window.phase # "open" => o.step = "none"
  BY <1>1 DEF Outcome, Answered, OpStates, NoOp
<1>. HIDE DEF o
<1>4. /\ Operations' /\ Waiting' /\ op'[k] = o /\ \A j \in Kinds \ {k} : op'[j] = op[j]
  BY <1>1, <1>2, OneOp
<1>5. Releases(s)
  <2>1. \A j \in Kinds : op'[j].step # "none" => op[j].step # "none"
    BY <1>1, <1>4
  <2>2. window.phase # "open" => \A j \in Kinds : op'[j].step # "answered"
    BY <1>3, <1>4 DEF Shape, Windows
  <2>3. /\ op'["port"].step = "saving" <=> op["port"].step = "saving" /\ s # "port"
        /\ op'["default"].step = "saving" <=>
              op["default"].step = "saving" /\ saver[s].for # "default"
    <3>1. CASE k = "port"
      BY <1>1, <1>3, <1>4, <3>1 DEF Kinds
    <3>2. CASE k = "default"
      BY <1>1, <1>3, <1>4, <3>2 DEF Kinds
    <3>. QED  BY <3>1, <3>2
  <2>. QED  BY <2>1, <2>2, <2>3 DEF Releases
<1>6. /\ window.phase = "open" => queue' = Append(queue, k)
      /\ window.phase # "open" => queue' = queue
  BY DEF Answer
<1>. QED  BY <1>3, <1>4, <1>5, <1>6

LEMMA NothingReleased ==
    ASSUME Shape, NEW s \in Savers, Saving(s), saver[s].for \notin {"port", "default"},
           UNCHANGED <<op, queue>>
    PROVE  Operations' /\ Waiting' /\ Releases(s)
<1>1. Operations' /\ Waiting'
  BY DEF Shape, Operations, Waiting
<1>2. s # "port"
  BY Whose
<1>. QED  BY <1>1, <1>2 DEF Releases, Shape, Windows

LEMMA SaveFailsKeeps == ASSUME DesktopInv, NEW s \in Savers, SaveFails(s) PROVE DesktopInv'
<1>1. /\ Shape /\ Saving(s) /\ UNCHANGED <<file, temporary, account, window, told>>
      /\ disturbances \subseteq disturbances' /\ "failed" \in disturbances'
      /\ window' \in WindowStates
      /\ file' \in Settings \cup Unreadable /\ temporary' \in Settings \cup Unreadable
      /\ "default" \in Kinds /\ "port" \in Kinds /\ "ui" \in Savers /\ "port" \in Savers
  BY DEF SaveFails, DesktopInv, FileInv, Shape, Windows, Disturb, Kinds, Savers
<1>2. Leaves(s)
  BY <1>1, GoneIs DEF SaveFails, Leaves, Shape, Saves
<1>3. /\ Operations' /\ Waiting' /\ Releases(s) /\ QueueMoves
      /\ \A k \in {"default", "port"} :
            IF op[k].step = "saving" /\ op'[k] # op[k]
            THEN ~(op'[k].step = "answered" /\ op'[k].ok)
            ELSE op'[k] = op[k]
  <2>1. CASE saver[s].for \notin {"port", "default"}
    <3>1. UNCHANGED <<op, queue>>
      BY <2>1 DEF SaveFails
    <3>. QED  BY <1>1, <2>1, <3>1, NothingReleased DEF QueueMoves
  <2>2. ASSUME NEW k \in {"port", "default"}, saver[s].for = k
        PROVE  /\ Operations' /\ Waiting' /\ Releases(s) /\ QueueMoves
               /\ \A j \in {"default", "port"} :
                     IF op[j].step = "saving" /\ op'[j] # op[j]
                     THEN ~(op'[j].step = "answered" /\ op'[j].ok)
                     ELSE op'[j] = op[j]
    <3>1. Answer(k, FALSE, Absent) /\ FALSE \in BOOLEAN /\ Absent \in Settings \cup {Absent}
      BY <2>2 DEF SaveFails, Fails
    <3>2. /\ Operations' /\ Waiting' /\ Releases(s)
          /\ \A j \in Kinds \ {k} : op'[j] = op[j]
          /\ window.phase = "open" => op'[k].step = "answered" /\ ~op'[k].ok
                                      /\ queue' = Append(queue, k)
          /\ window.phase # "open" => op'[k].step = "none" /\ queue' = queue
      BY <1>1, <2>2, <3>1, SaveAnswers
    <3>3. op[k].step = "saving"
      BY <1>1, <2>2, Whose
    <3>4. QueueMoves
      BY <1>1, <3>2 DEF QueueMoves
    <3>. QED  BY <1>1, <3>2, <3>3, <3>4
  <2>. QED  BY <2>1, <2>2
<1>4. Shape' /\ OneSave' /\ Handles'
  BY <1>1, <1>2, <1>3, SaveEnds
<1>5. /\ op'["default"].step = "answered" /\ op'["default"].ok <=> Told("default")
      /\ op'["port"].step = "answered" /\ op'["port"].ok <=> Told("port")
      /\ Told("default") => op'["default"] = op["default"]
      /\ Told("port") => op'["port"] = op["port"]
  BY <1>3 DEF Told
<1>6. Kept'
  <2>1. Written' = Written
    BY <1>5 DEF Written, Told
  <2>2. ASSUME Undisturbed({"overlap", "outrun", "lost", "browser"})' PROVE InOrder'
    <3>1. InOrder /\ Waiting
      BY <1>1, <2>2 DEF DesktopInv, FileInv, Kept, Shape, Undisturbed
    <3>. QED  BY <1>3, <1>5, <3>1, OrderStays DEF QueueMoves
  <2>3. \A r \in Savers : saver'[r].step # "idle" => Saving(r)
    BY <1>2, GoneIs DEF Leaves, Saving
  <2>. QED  BY <1>1, <1>5, <2>1, <2>2, <2>3 DEF DesktopInv, FileInv, Kept, Undisturbed, Saving, Told
<1>7. Knows' /\ Session'
  BY <1>1 DEF Knows, Session, Undisturbed
<1>. QED  BY <1>4, <1>6, <1>7 DEF DesktopInv, FileInv

LEMMA ReplaceIs ==
    ASSUME DesktopInv, NEW s \in Savers, SaveReplace(s)
    PROVE  /\ Shape /\ Saving(s) /\ Leaves(s) /\ UNCHANGED account
           /\ file' \in Settings \cup Unreadable /\ temporary' \in Settings \cup Unreadable
           /\ saver[s].value \in Settings
           /\ Undisturbed({"overlap", "browser"}) =>
                 /\ file' = saver[s].value
                 /\ \A r \in Savers \ {s} : ~Saving(r)
<1>1. /\ Shape /\ Saving(s) /\ saver[s].step = "replace"
      /\ file' \in Settings \cup Unreadable /\ temporary' \in Settings \cup Unreadable
      /\ saver[s].value \in Settings /\ saver \in [Savers -> SaveStates]
  BY Constants, Whose DEF SaveReplace, Saving, DesktopInv, FileInv, Shape, Saves
<1>2. Leaves(s)
  <2>1. ASSUME NEW r \in Savers \ {s}
        PROVE  /\ saver'[r] \in SaveStates
               /\ saver'[r].step = saver[r].step /\ saver'[r].value = saver[r].value
               /\ saver'[r].for = saver[r].for
               /\ ~Saving(r) => saver'[r] = NoSave
    <3>. DEFINE at == CASE saver[r].at = "temporary" -> "file"
                        [] saver[r].at = "file" -> "unlinked"
                        [] OTHER -> saver[r].at
    <3>1. saver[r] \in SaveStates
      BY <1>1
    <3>2. at \in {"none", "temporary", "file", "unlinked"}
      BY <3>1 DEF SaveStates
    <3>3. saver'[r] = [saver[r] EXCEPT !.at = at]
      BY DEF SaveReplace
    <3>4. saver[r] = NoSave => at = "none"
      BY DEF NoSave
    <3>. HIDE DEF at
    <3>5. saver[r] = NoSave => saver'[r] = NoSave
      BY <3>3, <3>4 DEF NoSave
    <3>6. ~Saving(r) => saver[r] = NoSave
      BY <1>1 DEF Shape, Saves
    <3>. QED  BY <3>1, <3>2, <3>3, <3>5, <3>6 DEF SaveStates
  <2>2. saver'[s] = NoSave
    BY DEF SaveReplace
  <2>3. saver' \in [Savers -> SaveStates]
    <3>1. \A r \in Savers : saver'[r] \in SaveStates
      BY <2>1, <2>2, GoneIs
    <3>2. saver' = [r \in Savers |-> saver'[r]]
      BY DEF SaveReplace
    <3>. QED  BY <3>1, <3>2
  <2>. QED  BY <2>1, <2>2, <2>3 DEF Leaves
<1>3. ASSUME Undisturbed({"overlap", "browser"})
      PROVE  file' = saver[s].value /\ \A r \in Savers \ {s} : ~Saving(r)
  BY <1>1, <1>3 DEF SaveReplace, DesktopInv, FileInv, Handles, OneSave
<1>. QED  BY <1>1, <1>2, <1>3 DEF SaveReplace

(* ... by the window's thread.                                             *)
LEMMA WindowSaved ==
    ASSUME DesktopInv, NEW s \in Savers, SaveReplace(s),
           saver[s].for \in {"console", "login", "stay"}
    PROVE  DesktopInv'
<1>1. /\ Shape /\ Saving(s) /\ Leaves(s) /\ UNCHANGED account
      /\ file' \in Settings \cup Unreadable /\ temporary' \in Settings \cup Unreadable
      /\ saver[s].value \in Settings
      /\ Undisturbed({"overlap", "browser"}) =>
            file' = saver[s].value /\ \A r \in Savers \ {s} : ~Saving(r)
  BY ReplaceIs
<1>2. /\ s = "ui" /\ "ui" \in Savers /\ "api" \in Savers /\ "port" \in Savers
      /\ Saving("ui")
  BY <1>1, Whose DEF Savers
<1>3. /\ window' = [window EXCEPT !.page =
                      IF saver[s].for = "stay" THEN window.page ELSE saver[s].for]
      /\ told' = {saver[s].value} /\ UNCHANGED <<op, queue, disturbances>>
  BY DEF SaveReplace, AfterSave
<1>4. /\ window' \in WindowStates /\ window'.phase = window.phase
      /\ window'.settings = window.settings /\ window'.busy = window.busy
      /\ window'.page = IF saver["ui"].for = "stay" THEN window.page ELSE saver["ui"].for
  BY <1>1, <1>2, <1>3 DEF Shape, Windows, WindowStates
<1>5. Operations' /\ Waiting' /\ Releases(s)
  BY <1>1, <1>3, NothingReleased
<1>6. Shape' /\ OneSave' /\ Handles'
  BY <1>1, <1>3, <1>4, <1>5, SaveEnds
<1>7. ASSUME Undisturbed({"overlap", "outrun", "lost", "browser"})
      PROVE  /\ file' = saver["ui"].value
             /\ ~Told("default") /\ ~Told("port") /\ InOrder'
             /\ saver'["api"].for = "none" /\ saver'["ui"].step = "idle"
  <2>1. Undisturbed({"overlap", "browser"})
    BY <1>7 DEF Undisturbed
  <2>2. ~Told("default") /\ ~Told("port")
    BY <1>2, <1>7 DEF DesktopInv, FileInv, Kept
  <2>3. saver'["api"] = NoSave /\ saver'["ui"] = NoSave
    BY <1>1, <1>2, <2>1 DEF Leaves
  <2>. QED  BY <1>1, <1>2, <1>3, <2>1, <2>2, <2>3, GoneIs DEF InOrder, Told
<1>8. Kept'
  BY <1>2, <1>3, <1>7 DEF Kept, Undisturbed, Told
<1>9. Knows'
  <2>. SUFFICES ASSUME Undisturbed({"overlap", "outrun", "lost", "browser", "failed", "defaulted"})',
                       window'.phase = "open"
                PROVE  /\ saver'["ui"].step = "idle" /\ saver'["api"].for = "none"
                       /\ Load(DefaultPort)' = Coming'
    BY DEF Knows, Saving
  <2>1. /\ Undisturbed({"overlap", "outrun", "lost", "browser", "failed", "defaulted"})
        /\ Undisturbed({"overlap", "outrun", "lost", "browser"})
    BY <1>3 DEF Undisturbed
  <2>2. saver["ui"].value = window.settings
    BY <1>2, <1>4, <2>1 DEF DesktopInv, FileInv, Knows
  <2>3. Load(DefaultPort)' = window.settings
    BY <1>1, <1>2, <1>7, <2>1, <2>2, Constants DEF Load
  <2>4. Coming' = window.settings
    BY <1>3, <1>4, <1>7, <2>1 DEF Coming, Told
  <2>. QED  BY <1>7, <2>1, <2>3, <2>4
<1>10. Session'
  <2>1. (LoggingIn' <=> LoggingIn) /\ (Resuming' <=> Resuming)
    BY <1>3, SessionOps
  <2>2. saver'["ui"].for = "none"
    BY <1>1, <1>2, GoneIs DEF Leaves
  <2>. QED  BY <1>1, <1>2, <1>3, <1>4, <2>1, <2>2 DEF DesktopInv, Session, Undisturbed, Told
<1>. QED  BY <1>6, <1>8, <1>9, <1>10 DEF DesktopInv, FileInv

(* ... by the other two: the window stays as it is.                        *)
LEMMA OtherSaved ==
    ASSUME DesktopInv, NEW s \in Savers, SaveReplace(s),
           saver[s].for \in {"port", "default", "browser"}
    PROVE  /\ Shape /\ Leaves(s) /\ UNCHANGED <<account, window>>
           /\ disturbances \subseteq disturbances'
           /\ Shape' /\ OneSave' /\ Handles' /\ Session'
<1>1. /\ Shape /\ Saving(s) /\ Leaves(s) /\ UNCHANGED account
      /\ file' \in Settings \cup Unreadable /\ temporary' \in Settings \cup Unreadable
      /\ saver[s].value \in Settings
  BY ReplaceIs
<1>2. UNCHANGED window /\ disturbances \subseteq disturbances'
  BY DEF SaveReplace, AfterSave, Disturb
<1>3. window' \in WindowStates
  BY <1>1, <1>2 DEF Shape, Windows
<1>4. /\ Operations' /\ Waiting' /\ Releases(s)
      /\ \A j \in Kinds \ {"port", "default"} : op'[j] = op[j]
  <2>1. CASE saver[s].for = "browser"
    <3>1. UNCHANGED <<op, queue>>
      BY <2>1 DEF SaveReplace, AfterSave
    <3>. QED  BY <1>1, <2>1, <3>1, NothingReleased
  <2>2. ASSUME NEW k \in {"port", "default"}, saver[s].for = k
        PROVE  /\ Operations' /\ Waiting' /\ Releases(s)
               /\ \A j \in Kinds \ {"port", "default"} : op'[j] = op[j]
    <3>1. Answer(k, TRUE, saver[s].value) \/ Answer(k, FALSE, Absent)
      BY <2>2 DEF SaveReplace, AfterSave, Fails
    <3>. QED  BY <1>1, <2>2, <3>1, SaveAnswers
  <2>. QED  BY <2>1, <2>2
<1>5. Shape' /\ OneSave' /\ Handles'
  BY <1>1, <1>2, <1>3, <1>4, SaveEnds
<1>6. Session'
  <2>1. (LoggingIn' <=> LoggingIn) /\ (Resuming' <=> Resuming) /\ op'["logout"] = op["logout"]
    BY <1>4, SessionOps DEF Kinds
  <2>2. saver'["ui"].for = saver["ui"].for
    BY <1>1, Whose DEF Leaves, Savers
  <2>. QED  BY <1>1, <1>2, <2>1, <2>2, SessionStays DEF DesktopInv
<1>. QED  BY <1>1, <1>2, <1>5, <1>6

LEMMA PortSaved ==
    ASSUME DesktopInv, NEW s \in Savers, SaveReplace(s), saver[s].for = "port"
    PROVE  DesktopInv'
<1>1. /\ Shape /\ Leaves(s) /\ UNCHANGED <<account, window>> /\ disturbances \subseteq disturbances'
      /\ Shape' /\ OneSave' /\ Handles' /\ Session'
  BY OtherSaved
<1>2. /\ Saving(s) /\ saver[s].value \in Settings
      /\ Undisturbed({"overlap", "browser"}) =>
            file' = saver[s].value /\ \A r \in Savers \ {s} : ~Saving(r)
  BY ReplaceIs
<1>3. /\ s = "port" /\ "ui" \in Savers /\ "api" \in Savers /\ "port" \in Savers
      /\ "default" \in Kinds /\ "port" \in Kinds /\ Saving("port")
  BY <1>1, <1>2, Whose DEF Savers, Kinds
<1>4. /\ Answer("port", TRUE, saver[s].value) /\ UNCHANGED disturbances
      /\ told' = IF window.phase = "open" THEN told ELSE told \cup {saver[s].value}
  BY DEF SaveReplace, AfterSave
<1>5. /\ op'["default"] = op["default"]
      /\ window.phase = "open" => /\ op'["port"].step = "answered" /\ op'["port"].ok
                                  /\ op'["port"].value = saver[s].value
      /\ window.phase # "open" => op'["port"].step = "none"
  <2>1. TRUE \in BOOLEAN /\ saver[s].value \in Settings \cup {Absent}
    BY <1>2
  <2>. QED  BY <1>1, <1>2, <1>3, <1>4, <2>1, SaveAnswers
<1>6. ASSUME Undisturbed({"overlap", "outrun", "lost", "browser"})
      PROVE  /\ file' = saver[s].value /\ ~Told("default") /\ ~Told("port")
             /\ saver'["ui"] = NoSave /\ saver'["port"] = NoSave /\ saver'["api"] = NoSave
  <2>1. Undisturbed({"overlap", "browser"})
    BY <1>6 DEF Undisturbed
  <2>2. ~Told("default") /\ ~Told("port")
    BY <1>3, <1>6 DEF DesktopInv, FileInv, Kept
  <2>. QED  BY <1>1, <1>2, <1>3, <2>1, <2>2 DEF Leaves
<1>7. Kept'
  <2>. SUFFICES ASSUME Undisturbed({"overlap", "outrun", "lost", "browser"})' PROVE Kept'
    BY DEF Kept
  <2>1. Undisturbed({"overlap", "outrun", "lost", "browser"})
    BY <1>4 DEF Undisturbed
  <2>2. /\ saver'["ui"].step = "idle" /\ saver'["port"].step = "idle" /\ InOrder'
        /\ ~Told("default")'
    BY <1>5, <1>6, <2>1, GoneIs DEF InOrder, Told
  <2>3. CASE window.phase = "open"
    <3>1. Told("port")' /\ op'["port"].value = file'
      BY <1>5, <1>6, <2>1, <2>3 DEF Told
    <3>2. file' \in Written'
      BY <3>1 DEF Written
    <3>. QED  BY <2>2, <3>1, <3>2 DEF Kept, Saving
  <2>4. CASE window.phase # "open"
    <3>1. ~Told("port")' /\ file' \in told'
      BY <1>4, <1>5, <1>6, <2>1, <2>4 DEF Told
    <3>. QED  BY <2>2, <3>1 DEF Kept, Saving
  <2>. QED  BY <2>3, <2>4
<1>8. Knows'
  <2>. SUFFICES ASSUME Undisturbed({"overlap", "outrun", "lost", "browser", "failed", "defaulted"})',
                       window'.phase = "open"
                PROVE  /\ saver'["ui"].step = "idle" /\ saver'["api"].for = "none"
                       /\ Load(DefaultPort)' = Coming'
    BY DEF Knows, Saving
  <2>1. Undisturbed({"overlap", "outrun", "lost", "browser"})
    BY <1>4 DEF Undisturbed
  <2>2. Load(DefaultPort)' = saver[s].value
    BY <1>2, <1>6, <2>1, Constants DEF Load
  <2>3. Coming' = saver[s].value
    BY <1>1, <1>5, <1>6, <2>1 DEF Coming, Told
  <2>. QED  BY <1>6, <2>1, <2>2, <2>3, GoneIs
<1>. QED  BY <1>1, <1>7, <1>8 DEF DesktopInv, FileInv

LEMMA BrowserSaved ==
    ASSUME DesktopInv, NEW s \in Savers, SaveReplace(s), saver[s].for = "browser"
    PROVE  DesktopInv'
<1>1. /\ Shape /\ disturbances \subseteq disturbances'
      /\ Shape' /\ OneSave' /\ Handles' /\ Session'
  BY OtherSaved
<1>2. s = "api"
  BY <1>1, ReplaceIs, Whose
<1>3. ~Undisturbed({"overlap", "browser"})'
  BY <1>1, <1>2 DEF DesktopInv, FileInv, OneSave, Undisturbed
<1>4. Kept' /\ Knows'
  BY <1>3 DEF Kept, Knows, Undisturbed
<1>. QED  BY <1>1, <1>4 DEF DesktopInv, FileInv

LEMMA DefaultSaved ==
    ASSUME DesktopInv, NEW s \in Savers, SaveReplace(s), saver[s].for = "default"
    PROVE  DesktopInv'
<1>1. /\ Shape /\ Leaves(s) /\ UNCHANGED <<account, window>> /\ disturbances \subseteq disturbances'
      /\ Shape' /\ OneSave' /\ Handles' /\ Session'
  BY OtherSaved
<1>2. /\ Saving(s) /\ saver[s].value \in Settings
      /\ Undisturbed({"overlap", "browser"}) =>
            file' = saver[s].value /\ \A r \in Savers \ {s} : ~Saving(r)
  BY ReplaceIs
<1>3. /\ s = "api" /\ "ui" \in Savers /\ "api" \in Savers /\ "port" \in Savers
      /\ "default" \in Kinds /\ "port" \in Kinds /\ op["default"].step = "saving"
  BY <1>1, <1>2, Whose DEF Savers, Kinds
<1>4. CASE Disturb({"lost"})
  <2>1. "lost" \in disturbances'
    BY <1>4 DEF Disturb
  <2>2. Kept' /\ Knows'
    BY <2>1 DEF Kept, Knows, Undisturbed
  <2>. QED  BY <1>1, <2>2 DEF DesktopInv, FileInv
<1>5. CASE Answer("default", TRUE, saver[s].value) /\ UNCHANGED disturbances
  <2>1. told' = IF window.phase = "open" THEN told ELSE told \cup {saver[s].value}
    BY DEF SaveReplace, AfterSave
  <2>2. /\ op'["port"] = op["port"]
        /\ window.phase = "open" => /\ op'["default"].step = "answered" /\ op'["default"].ok
                                    /\ op'["default"].value = saver[s].value
                                    /\ op'["default"].arg = op["default"].arg
                                    /\ queue' = Append(queue, "default")
        /\ window.phase # "open" => op'["default"].step = "none"
    <3>1. TRUE \in BOOLEAN /\ saver[s].value \in Settings \cup {Absent}
      BY <1>2
    <3>. QED  BY <1>1, <1>2, <1>3, <1>5, <3>1, SaveAnswers
  <2>3. ASSUME Undisturbed({"overlap", "outrun", "lost", "browser"})
        PROVE  /\ file' = saver[s].value
               /\ ~Saving("ui") /\ ~Saving("port")
               /\ saver'["ui"] = NoSave /\ saver'["port"] = NoSave /\ saver'["api"] = NoSave
    <3>1. Undisturbed({"overlap", "browser"})
      BY <2>3 DEF Undisturbed
    <3>. QED  BY <1>1, <1>2, <1>3, <3>1 DEF Leaves
  <2>4. ~Told("default")
    BY <1>3 DEF Told
  <2>5. Kept'
    <3>. SUFFICES ASSUME Undisturbed({"overlap", "outrun", "lost", "browser"})' PROVE Kept'
      BY DEF Kept
    <3>1. Undisturbed({"overlap", "outrun", "lost", "browser"})
      BY <1>5 DEF Undisturbed
    <3>2. saver'["ui"].step = "idle" /\ saver'["port"].step = "idle" /\ file' = saver[s].value
      BY <2>3, <3>1, GoneIs
    <3>3. CASE window.phase = "open"
      <4>1. Told("default")' /\ op'["default"].value = file'
        BY <2>2, <3>2, <3>3 DEF Told
      <4>2. file' \in Written'
        BY <4>1 DEF Written
      <4>3. InOrder'
        <5>. SUFFICES ASSUME NEW i \in DOMAIN queue', NEW j \in DOMAIN queue',
                             queue'[i] = "default", queue'[j] = "port"
                      PROVE  j < i
          BY DEF InOrder
        <5>. DEFINE n == Len(queue)
        <5>1. /\ n \in Nat /\ DOMAIN queue = 1..n /\ DOMAIN queue' = 1..(n + 1)
              /\ queue'[n + 1] = "default" /\ \A m \in 1..n : queue'[m] = queue[m]
              /\ \A m \in 1..(n + 1) : m = n + 1 \/ (m \in 1..n /\ m < n + 1)
          BY <1>1, <2>2, <3>3 DEF Shape, Waiting
        <5>. HIDE DEF n
        <5>2. i \notin 1..n
          <6>1. ASSUME i \in 1..n PROVE FALSE
            <7>1. i \in DOMAIN queue /\ queue[i] = "default"
              BY <5>1, <6>1
            <7>2. op["default"].step = "answered"
              BY <1>1, <1>3, <7>1 DEF Shape, Waiting
            <7>. QED  BY <1>3, <7>2
          <6>. QED  BY <6>1
        <5>3. i = n + 1 /\ j # n + 1
          BY <5>1, <5>2
        <5>. QED  BY <5>1, <5>3
      <4>. QED  BY <3>2, <4>1, <4>2, <4>3 DEF Kept, Saving
    <3>4. CASE window.phase # "open"
      <4>1. ~Told("default")' /\ file' \in told'
        BY <2>1, <2>2, <3>2, <3>4 DEF Told
      <4>2. ~Told("port")'
        BY <1>1, <1>3, <2>2, <3>4 DEF Told, Shape, Windows
      <4>. QED  BY <3>2, <4>1, <4>2 DEF Kept, InOrder, Saving
    <3>. QED  BY <3>3, <3>4
  <2>6. Knows'
    <3>. SUFFICES ASSUME Undisturbed({"overlap", "outrun", "lost", "browser", "failed", "defaulted"})',
                         window'.phase = "open"
                  PROVE  /\ saver'["ui"].step = "idle" /\ saver'["api"].for = "none"
                         /\ Load(DefaultPort)' = Coming'
      BY DEF Knows, Saving
    <3>1. /\ Undisturbed({"overlap", "outrun", "lost", "browser"})
          /\ Undisturbed({"overlap", "outrun", "lost", "browser", "failed", "defaulted"})
          /\ window.phase = "open"
      BY <1>1, <1>5 DEF Undisturbed
    <3>2. /\ Load(DefaultPort) = Coming /\ file \in Settings
          /\ saver[s].value = [file EXCEPT !.notebook = op["default"].arg]
      BY <1>3, <2>3, <3>1 DEF DesktopInv, FileInv, Knows
    <3>3. file = Coming
      BY <3>2, Constants DEF Load
    <3>4. Coming' = [Coming EXCEPT !.notebook = op["default"].arg]
      BY <1>1, <2>2, <2>4, <3>1 DEF Coming, Told
    <3>5. Load(DefaultPort)' = saver[s].value
      BY <1>2, <2>3, <3>1, Constants DEF Load
    <3>. QED  BY <2>3, <3>1, <3>2, <3>3, <3>4, <3>5, GoneIs
  <2>. QED  BY <1>1, <2>5, <2>6 DEF DesktopInv, FileInv
<1>. QED  BY <1>4, <1>5 DEF SaveReplace, AfterSave

LEMMA SaveKeeps == ASSUME DesktopInv, NEW s \in Savers, Save(s) PROVE DesktopInv'
<1>1. CASE SaveReplace(s)
  <2>1. saver[s].for \in {"console", "login", "stay", "port", "default", "browser"}
    BY <1>1, ReplaceIs, Whose
  <2>. QED  BY <1>1, <2>1, WindowSaved, PortSaved, DefaultSaved, BrowserSaved
<1>. QED  BY <1>1, SaveOpenKeeps, SaveWriteKeeps, SaveFailsKeeps DEF Save
-----------------------------------------------------------------------------
(* The answers of the two operations that save.                            *)

(* What taking such an answer changes, besides the window's copy.          *)
LEMMA SettingsTaken ==
    ASSUME DesktopInv, NEW k \in {"default", "port"}, Takes(k), Done(k), op[k].ok,
           UNCHANGED <<file, temporary, saver, account, disturbances>>,
           window' \in WindowStates, window'.phase = window.phase, window'.page = window.page,
           window'.settings \in Settings, window'.busy = window.busy \ {k}
    PROVE  /\ Shape' /\ OneSave' /\ Handles' /\ Session'
           /\ op'[k] = NoOp /\ \A j \in Kinds \ {k} : op'[j] = op[j]
           /\ ~Told(k)' /\ Told(k) /\ (InOrder => InOrder')
<1>1. /\ Shape /\ k \in Kinds /\ op[k].step = "answered" /\ window.phase = "open"
      /\ queue # <<>> /\ queue' = Tail(queue) /\ NoOp.step = "none"
  BY TakenIs, NoOpFits DEF DesktopInv, FileInv, Kinds
<1>2. /\ Operations' /\ Waiting' /\ op'[k] = NoOp /\ \A j \in Kinds \ {k} : op'[j] = op[j]
  BY <1>1, DoneTurns, OneOp
<1>3. Shape'
  <2>1. Saves'
    <3>1. /\ op'["port"].step = "saving" <=> op["port"].step = "saving"
          /\ op'["default"].step = "saving" <=> op["default"].step = "saving"
      BY <1>1, <1>2 DEF Kinds
    <3>. QED  BY <3>1 DEF DesktopInv, FileInv, Shape, Saves, Saving
  <2>2. Windows'
    BY <1>1, <1>2 DEF Shape, Windows, Kinds
  <2>. QED  BY <1>1, <1>2, <2>1, <2>2 DEF Shape
<1>4. OneSave' /\ Handles'
  BY DEF DesktopInv, FileInv, OneSave, Handles, Undisturbed, Saving
<1>5. Session'
  <2>1. /\ (LoggingIn' <=> LoggingIn) /\ (Resuming' <=> Resuming) /\ op'["logout"] = op["logout"]
    BY <1>2, SessionOps DEF Kinds
  <2>. QED  BY <2>1, SessionStays DEF DesktopInv
<1>6. ~Told(k)' /\ Told(k)
  BY <1>1, <1>2 DEF Told
<1>7. ASSUME InOrder PROVE InOrder'
  <2>1. /\ op'["default"].step = "answered" /\ op'["default"].ok => Told("default")
        /\ op'["port"].step = "answered" /\ op'["port"].ok => Told("port")
    BY <1>1, <1>2, <1>6 DEF Told, Kinds
  <2>. QED  BY <1>1, <1>7, <2>1, OrderStays DEF Shape
<1>. QED  BY <1>2, <1>3, <1>4, <1>5, <1>6, <1>7

LEMMA DefaultAnsweredKeeps == ASSUME DesktopInv, DefaultAnswered PROVE DesktopInv'
<1>1. /\ Takes("default") /\ Done("default") /\ "default" \in Kinds /\ "port" \in Kinds /\ Shape
      /\ UNCHANGED <<file, temporary, saver, account, disturbances>>
  BY DEF DefaultAnswered, Kinds, DesktopInv, FileInv
<1>2. CASE ~op["default"].ok
  <2>1. Enable("default") /\ UNCHANGED <<Rest, account>> /\ disturbances \subseteq disturbances'
    BY <1>2 DEF DefaultAnswered, Rest
  <2>. QED  BY <1>1, <1>2, <2>1, FailureKeeps
<1>3. CASE op["default"].ok
  <2>1. /\ op["default"].step = "answered" /\ window.phase = "open"
        /\ queue # <<>> /\ 1 \in DOMAIN queue /\ queue[1] = "default"
    BY <1>1, TakenIs
  <2>2. op["default"].arg \in Notebooks /\ window.settings \in Settings
    BY <1>1, <2>1 DEF Shape, Operations, Fits, Windows
  <2>3. /\ window' \in WindowStates /\ window'.phase = window.phase /\ window'.page = window.page
        /\ window'.settings = [window.settings EXCEPT !.notebook = op["default"].arg]
        /\ window'.settings \in Settings /\ window'.busy = window.busy \ {"default"}
        /\ told' = {op["default"].value}
    <3>1. [window.settings EXCEPT !.notebook = op["default"].arg] \in Settings
      BY <2>2 DEF Settings
    <3>2. /\ window' = [window EXCEPT !.busy = @ \ {"default"},
                                      !.settings = [window.settings EXCEPT !.notebook = op["default"].arg]]
          /\ told' = {op["default"].value}
      BY <1>1, <1>3 DEF DefaultAnswered, Shape, Windows, WindowStates
    <3>. QED  BY <1>1, <3>1, <3>2 DEF Shape, Windows, WindowStates
  <2>4. /\ Shape' /\ OneSave' /\ Handles' /\ Session'
        /\ op'["default"] = NoOp /\ op'["port"] = op["port"]
        /\ ~Told("default")' /\ Told("default") /\ (InOrder => InOrder')
    BY <1>1, <1>3, <2>3, SettingsTaken
  <2>5. ASSUME Undisturbed({"overlap", "outrun", "lost", "browser"})
        PROVE  /\ ~Told("port") /\ ~Told("port")' /\ InOrder'
               /\ ~Saving("ui") /\ ~Saving("port") /\ file = op["default"].value
    <3>1. /\ InOrder /\ ~Saving("ui") /\ ~Saving("port") /\ file = op["default"].value
      BY <2>4, <2>5 DEF DesktopInv, FileInv, Kept
    <3>2. ~Told("port")
      <4>1. ASSUME Told("port") PROVE FALSE
        <5>1. PICK j \in DOMAIN queue : queue[j] = "port"
          BY <1>1, <4>1 DEF Told, Shape, Waiting
        <5>2. j < 1
          BY <2>1, <2>4, <3>1, <4>1, <5>1 DEF InOrder
        <5>3. DOMAIN queue = 1..Len(queue) /\ Len(queue) \in Nat
          BY <1>1 DEF Shape, Waiting
        <5>. QED  BY <5>2, <5>3
      <4>. QED  BY <4>1
    <3>. QED  BY <2>4, <3>1, <3>2 DEF Told
  <2>6. Kept'
    BY <1>1, <2>3, <2>4, <2>5 DEF Kept, Undisturbed, Saving
  <2>7. Knows'
    <3>. SUFFICES ASSUME Undisturbed({"overlap", "outrun", "lost", "browser", "failed", "defaulted"})'
                  PROVE  /\ ~Saving("ui")' /\ Load(DefaultPort)' = Coming'
                         /\ saver'["api"].for # "default"
      BY DEF Knows
    <3>1. /\ Undisturbed({"overlap", "outrun", "lost", "browser"})
          /\ Undisturbed({"overlap", "outrun", "lost", "browser", "failed", "defaulted"})
      BY <1>1 DEF Undisturbed
    <3>2. Load(DefaultPort) = Coming
      BY <2>1, <2>5, <3>1 DEF DesktopInv, FileInv, Knows
    <3>3. Coming' = Coming
      BY <2>3, <2>4, <2>5, <3>1 DEF Coming
    <3>4. saver["api"].for # "default"
      BY <1>1, <2>1 DEF Shape, Saves
    <3>. QED  BY <1>1, <2>5, <3>1, <3>2, <3>3, <3>4 DEF Load, Saving
  <2>. QED  BY <2>4, <2>6, <2>7 DEF DesktopInv, FileInv
<1>. QED  BY <1>2, <1>3

LEMMA PortAnsweredKeeps == ASSUME DesktopInv, PortAnswered PROVE DesktopInv'
<1>1. /\ Takes("port") /\ Done("port") /\ "default" \in Kinds /\ "port" \in Kinds /\ Shape
      /\ UNCHANGED <<file, temporary, saver, account, disturbances>>
  BY DEF PortAnswered, Kinds, DesktopInv, FileInv
<1>2. CASE ~op["port"].ok
  <2>1. Enable("port") /\ UNCHANGED <<Rest, account>> /\ disturbances \subseteq disturbances'
    BY <1>2 DEF PortAnswered, Rest
  <2>. QED  BY <1>1, <1>2, <2>1, FailureKeeps
<1>3. CASE op["port"].ok
  <2>1. op["port"].step = "answered" /\ window.phase = "open"
    BY <1>1, TakenIs
  <2>2. op["port"].value \in Settings
    BY <1>1, <1>3, <2>1 DEF Shape, Operations, Fits
  <2>3. /\ window' \in WindowStates /\ window'.phase = window.phase /\ window'.page = window.page
        /\ window'.settings = op["port"].value
        /\ window'.busy = window.busy \ {"port"}
        /\ told' = {op["port"].value}
    <3>1. /\ window' = [window EXCEPT !.busy = @ \ {"port"}, !.client = "open",
                                      !.settings = op["port"].value]
          /\ told' = {op["port"].value}
      BY <1>3 DEF PortAnswered
    <3>2. window \in WindowStates
      BY <1>1 DEF Shape, Windows
    <3>3. window.busy \ {"port"} \in SUBSET Buttons
      BY <3>2 DEF WindowStates
    <3>. QED  BY <2>2, <3>1, <3>2, <3>3 DEF WindowStates
  <2>4. /\ Shape' /\ OneSave' /\ Handles' /\ Session'
        /\ op'["port"] = NoOp /\ op'["default"] = op["default"]
        /\ ~Told("port")' /\ Told("port") /\ (InOrder => InOrder')
    BY <1>1, <1>3, <2>2, <2>3, SettingsTaken
  <2>5. Told("default")' <=> Told("default")
    BY <2>4 DEF Told
  <2>6. ASSUME Undisturbed({"overlap", "outrun", "lost", "browser"})
        PROVE  /\ InOrder' /\ ~Saving("ui") /\ ~Saving("port")
               /\ IF Told("default") THEN file = op["default"].value ELSE file = op["port"].value
    BY <2>4, <2>6 DEF DesktopInv, FileInv, Kept
  <2>7. Kept'
    <3>. SUFFICES ASSUME Undisturbed({"overlap", "outrun", "lost", "browser"})' PROVE Kept'
      BY DEF Kept
    <3>1. Undisturbed({"overlap", "outrun", "lost", "browser"})
      BY <1>1 DEF Undisturbed
    <3>2. Told("default") => op'["default"].value \in Written'
      BY <2>5 DEF Written
    <3>. QED  BY <1>1, <2>3, <2>4, <2>5, <2>6, <3>1, <3>2 DEF Kept, Saving
  <2>8. Knows'
    <3>. SUFFICES ASSUME Undisturbed({"overlap", "outrun", "lost", "browser", "failed", "defaulted"})'
                  PROVE  /\ ~Saving("ui")' /\ Load(DefaultPort)' = Coming'
                         /\ saver'["api"].for = "default" =>
                               /\ file' \in Settings
                               /\ saver'["api"].value = [file' EXCEPT !.notebook = op'["default"].arg]
      BY DEF Knows
    <3>1. /\ Undisturbed({"overlap", "outrun", "lost", "browser"})
          /\ Undisturbed({"overlap", "outrun", "lost", "browser", "failed", "defaulted"})
      BY <1>1 DEF Undisturbed
    <3>2. /\ Load(DefaultPort) = Coming
          /\ saver["api"].for = "default" =>
                /\ file \in Settings
                /\ saver["api"].value = [file EXCEPT !.notebook = op["default"].arg]
      BY <2>1, <2>6, <3>1 DEF DesktopInv, FileInv, Knows
    <3>3. Coming' = Coming
      BY <2>3, <2>4, <2>5 DEF Coming
    <3>. QED  BY <1>1, <2>4, <2>6, <3>1, <3>2, <3>3 DEF Load, Saving
  <2>. QED  BY <2>4, <2>7, <2>8 DEF DesktopInv, FileInv
<1>. QED  BY <1>2, <1>3
-----------------------------------------------------------------------------
(* The window is opened and closed, and the process ends.                  *)
LEMMA OpenKeeps == ASSUME DesktopInv, Open PROVE DesktopInv'
<1>1. /\ Shape /\ window.phase = "gone" /\ DefaultPort \in Ports
      /\ \A k \in Kinds : op[k].step = "none"
      /\ \A s \in Savers : ~Saving(s) /\ saver[s] = NoSave
      /\ UNCHANGED <<file, temporary, saver, account, queue, events>>
      /\ told' = {file} /\ disturbances' = {} /\ Submit("start", None)
      /\ "start" \in Kinds
  BY Constants DEF Open, DesktopInv, FileInv, Shape, Windows, Saves, Kinds
<1>2. /\ window' \in WindowStates /\ window'.phase = "open" /\ window'.page = "login"
      /\ window'.settings = Load(DefaultPort) /\ window'.settings \in Settings
  <2>. DEFINE settings == Load(DefaultPort)
  <2>1. settings \in Settings /\ settings.port \in Ports
    <3>1. settings \in Settings
      BY <1>1, LoadIs
    <3>. QED  BY <3>1 DEF Settings
  <2>2. window' = [Gone EXCEPT !.phase = "open", !.settings = settings, !.port = settings.port]
    BY DEF Open
  <2>. HIDE DEF settings
  <2>3. /\ window' \in WindowStates /\ window'.phase = "open" /\ window'.page = "login"
        /\ window'.settings = settings
    BY <2>1, <2>2, GoneIs DEF WindowStates
  <2>. QED  BY <2>1, <2>3 DEF settings
<1>3. /\ Operations' /\ Waiting' /\ op'["start"].step = "begun"
      /\ \A k \in Kinds \ {"start"} : op'[k] = op[k]
  <2>1. Begun(None) \in OpStates /\ Begun(None).step = "begun"
    BY NoOpFits DEF Begun, OpStates, NoOp, OpSteps, Args
  <2>2. /\ op' = [op EXCEPT !["start"] = Begun(None)] /\ op' \in [Kinds -> OpStates]
        /\ op'["start"] = Begun(None) /\ \A k \in Kinds \ {"start"} : op'[k] = op[k]
    BY <1>1, <2>1 DEF Submit, Shape, Operations
  <2>3. Operations'
    <3>1. ASSUME NEW k \in Kinds PROVE Fits(k, op'[k])
      <4>1. CASE k = "start"
        BY <2>1, <2>2, <4>1 DEF Fits
      <4>2. CASE k # "start"
        BY <1>1, <2>2, <4>2 DEF Shape, Operations
      <4>. QED  BY <4>1, <4>2
    <3>. QED  BY <1>1, <2>2, <3>1 DEF Operations, Kinds
  <2>4. Waiting'
    BY <1>1, <2>1, <2>2, QueueStays DEF Shape
  <2>. QED  BY <2>1, <2>2, <2>3, <2>4
<1>4. Shape'
  <2>1. Saves'
    BY <1>1, <1>3 DEF Shape, Saves, Saving, Kinds
  <2>2. Windows'
    BY <1>1, <1>2, <1>3 DEF Windows, Kinds
  <2>. QED  BY <1>1, <1>3, <2>1, <2>2 DEF Shape
<1>5. OneSave' /\ Handles'
  BY <1>1, GoneIs DEF OneSave, Handles, Saving, Savers
<1>6. /\ ~Told("default")' /\ ~Told("port")' /\ ~Told("login")' /\ ~Told("resume")'
      /\ op'["login"].step = "none" /\ op'["resume"].step = "none"
  BY <1>1, <1>3 DEF Told, Kinds
<1>7. saver'["ui"] = NoSave /\ saver'["port"] = NoSave /\ saver'["api"] = NoSave
  BY <1>1 DEF Savers
<1>8. Kept'
  BY <1>1, <1>6, <1>7, GoneIs DEF Kept, InOrder, Saving
<1>9. Knows'
  BY <1>1, <1>2, <1>6, <1>7, GoneIs DEF Knows, Coming, Saving, Load
<1>10. Session'
  BY <1>2, <1>6, <1>7, GoneIs DEF Session, LoggingIn, Resuming
<1>. QED  BY <1>4, <1>5, <1>8, <1>9, <1>10 DEF DesktopInv, FileInv

LEMMA WrittenIsPending == Written \subseteq Pending
BY DEF Written, Pending, Told

LEMMA EndsKeeps == ASSUME DesktopInv, Ends PROVE DesktopInv'
<1>1. /\ Shape /\ UNCHANGED <<file, temporary, account, disturbances>>
      /\ window' = Gone /\ queue' = <<>> /\ told' = told \cup Pending
      /\ op' \in [Kinds -> OpStates] /\ saver' \in [Savers -> SaveStates]
      /\ \A k \in Kinds : op'[k] = NoOp /\ op'[k].step = "none"
      /\ \A s \in Savers : saver'[s] = NoSave /\ saver'[s].step = "idle" /\ saver'[s].for = "none"
  BY NoOpFits, GoneIs DEF Ends, DesktopInv, FileInv
<1>2. Operations' /\ Waiting'
  <2>1. \A k \in Kinds : Fits(k, op'[k])
    BY <1>1, NoOpFits
  <2>. QED  BY <1>1, <2>1 DEF Operations, Waiting, Kinds
<1>3. Saves' /\ Windows'
  BY <1>1, GoneIs DEF Saves, Windows, Saving, Savers, Kinds
<1>4. OneSave' /\ Handles'
  BY <1>1 DEF OneSave, Handles, Saving, Savers
<1>5. Kept'
  <2>1. /\ ~Told("default")' /\ ~Told("port")' /\ ~Saving("ui")' /\ ~Saving("port")' /\ InOrder'
    BY <1>1 DEF Told, Saving, InOrder, Kinds, Savers
  <2>. QED  BY <1>1, <2>1, WrittenIsPending DEF DesktopInv, FileInv, Kept, Undisturbed
<1>6. Knows' /\ Session'
  BY <1>1, GoneIs DEF Knows, Session
<1>. QED  BY <1>1, <1>2, <1>3, <1>4, <1>5, <1>6 DEF DesktopInv, FileInv, Shape

LEMMA CloseKeeps == ASSUME DesktopInv, Close PROVE DesktopInv'
<1>1. /\ Shape /\ UNCHANGED <<file, temporary, saver, account, disturbances>>
      /\ queue' = <<>> /\ told' = told \cup Pending
      /\ op' = [k \in Kinds |-> IF op[k].step = "answered" THEN NoOp ELSE op[k]]
      /\ op \in [Kinds -> OpStates] /\ window \in WindowStates /\ window.phase = "open"
      /\ window.settings \in Settings
  BY DEF Close, UiFree, DesktopInv, FileInv, Shape, Operations, Windows
<1>2. /\ op' \in [Kinds -> OpStates]
      /\ \A k \in Kinds : op'[k].step # "answered" /\ (op'[k] = op[k] \/ op'[k] = NoOp)
      /\ \A k \in Kinds : op[k].step # "answered" => op'[k] = op[k]
  BY <1>1, NoOpFits
<1>3. /\ window' \in WindowStates /\ window'.phase = "closed"
      /\ window'.settings = window.settings
  BY <1>1 DEF Close, WindowStates
<1>4. Operations' /\ Waiting'
  <2>1. \A k \in Kinds : Fits(k, op'[k])
    BY <1>1, <1>2, NoOpFits DEF Shape, Operations
  <2>2. op'["start"].step # "none" => op'["resume"].step = "none"
    BY <1>1, <1>2, NoOpFits DEF Shape, Operations, Kinds
  <2>. QED  BY <1>1, <1>2, <2>1, <2>2 DEF Operations, Waiting
<1>5. Saves'
  <2>1. /\ op'["port"].step = "saving" <=> op["port"].step = "saving"
        /\ op'["default"].step = "saving" <=> op["default"].step = "saving"
    BY <1>1, NoOpFits DEF Kinds
  <2>. QED  BY <1>1, <2>1 DEF Shape, Saves, Saving
<1>6. Windows'
  BY <1>1, <1>2, <1>3 DEF Windows
<1>7. OneSave' /\ Handles'
  BY <1>1 DEF DesktopInv, FileInv, OneSave, Handles, Undisturbed, Saving
<1>8. Kept'
  <2>1. ~Told("default")' /\ ~Told("port")' /\ InOrder'
    BY <1>1, <1>2 DEF Told, InOrder, Kinds
  <2>. QED  BY <1>1, <2>1, WrittenIsPending DEF DesktopInv, FileInv, Kept, Undisturbed
<1>9. Knows' /\ Session'
  BY <1>3 DEF Knows, Session
<1>. QED  BY <1>1, <1>4, <1>5, <1>6, <1>7, <1>8, <1>9 DEF DesktopInv, FileInv, Shape
-----------------------------------------------------------------------------
LEMMA DesktopSteps == DesktopInv /\ [Next]_vars => DesktopInv'
<1>. SUFFICES ASSUME DesktopInv, [Next]_vars PROVE DesktopInv'
  OBVIOUS
<1>1. CASE Background
  BY <1>1, ServiceStartsKeeps, SessionReadKeeps, ReadsKeep, ListedKeeps, LoginServedKeeps,
     LogoutServedKeeps, DefaultListedKeeps, PortStoppedKeeps, PortRestartedKeeps,
     PortConnectsKeeps DEF Background
<1>2. CASE TakeAnswer
  BY <1>2, StartAnsweredKeeps, ResumeAnsweredKeeps, LoginAnsweredKeeps, LogoutAnsweredKeeps,
     DefaultAnsweredKeeps, PortAnsweredKeeps DEF TakeAnswer
<1>3. ASSUME NEW s \in Savers, Save(s) PROVE DesktopInv'
  BY <1>3, SaveKeeps
<1>4. CASE Open \/ Close \/ ProcessEnds \/ Crash \/ Logout
  BY <1>4, OpenKeeps, CloseKeeps, EndsKeeps, LogoutKeeps DEF ProcessEnds, Crash
<1>5. ASSUME NEW u \in Users, Login(u) PROVE DesktopInv'
  BY <1>5, LoginKeeps
<1>6. ASSUME NEW n \in Notebooks, SaveDefaultNotebook(n) \/ BrowserDefault(n) PROVE DesktopInv'
  BY <1>6, SaveDefaultKeeps, BrowserKeeps
<1>7. ASSUME NEW p \in Ports, SavePort(p) PROVE DesktopInv'
  BY <1>7, SavePortKeeps
<1>8. ASSUME NEW a \in Users \cup {None}, ElsewhereSignedIn(a) PROVE DesktopInv'
  BY <1>8, ElsewhereKeeps
<1>9. CASE UNCHANGED vars
  <2>1. UNCHANGED <<file, temporary, saver, account, window, op, queue, told, disturbances>>
    BY <1>9 DEF vars
  <2>2. Shape'
    BY <2>1 DEF DesktopInv, FileInv, Shape, Operations, Waiting, Saves, Windows, Saving
  <2>3. OneSave' /\ Handles'
    BY <2>1 DEF DesktopInv, FileInv, OneSave, Handles, Undisturbed, Saving
  <2>4. Kept'
    BY <2>1 DEF DesktopInv, FileInv, Kept, InOrder, Written, Undisturbed, Saving, Told
  <2>5. Knows'
    BY <2>1 DEF DesktopInv, FileInv, Knows, Coming, Load, Undisturbed, Saving, Told
  <2>6. Session'
    BY <2>1, SessionStays, SessionOps DEF DesktopInv
  <2>. QED  BY <2>2, <2>3, <2>4, <2>5, <2>6 DEF DesktopInv, FileInv
<1>. QED  BY <1>1, <1>2, <1>3, <1>4, <1>5, <1>6, <1>7, <1>8, <1>9 DEF Next

LEMMA DesktopAlways == Spec => []DesktopInv
BY DesktopInitial, DesktopSteps, PTL DEF Spec

(* The settings file, the window, its operations and their answers keep    *)
(* their shape: an answer waits exactly once, for the operation it answers.*)
THEOREM DesktopTyped == Spec => []TypeOK
<1>1. DesktopInv => TypeOK
  BY ShapeTypes DEF DesktopInv, FileInv
<1>. QED  BY <1>1, DesktopAlways, PTL

(* Wherever the process dies, the settings file is what the user was last  *)
(* told is saved, or the change that was being made - as long as no two    *)
(* saves overlap, no window's save meets a default notebook it has not     *)
(* heard of, and the browser is left alone.                                *)
THEOREM FileKept == Spec => []FileIsTold
<1>1. DesktopInv => FileIsTold
  BY WrittenIsPending DEF DesktopInv, FileInv, Kept, FileIsTold
<1>. QED  BY <1>1, DesktopAlways, PTL

(* An idle window's copy of the settings is what the file holds.           *)
THEOREM WindowKnows == Spec => []WindowKnowsFile
<1>1. ASSUME DesktopInv PROVE WindowKnowsFile
  <2>. SUFFICES ASSUME Undisturbed({"overlap", "outrun", "lost", "browser", "failed", "defaulted"}),
                       window.phase = "open", Pending = {}
                PROVE  Load(DefaultPort) = window.settings
    BY DEF WindowKnowsFile
  <2>1. ~Saving("ui")
    BY DEF Pending, Savers
  <2>2. ~Told("default") /\ ~Told("port")
    BY DEF Pending, Told
  <2>. QED  BY <1>1, <2>1, <2>2 DEF DesktopInv, FileInv, Knows, Coming
<1>. QED  BY <1>1, DesktopAlways, PTL

(* The console is shown only while somebody is signed in, or until the     *)
(* window has handled the logout.                                          *)
THEOREM ConsoleSignedIn == Spec => []ConsoleIsSignedIn
<1>1. DesktopInv => ConsoleIsSignedIn
  BY DEF DesktopInv, Session, ConsoleIsSignedIn, Told
<1>. QED  BY <1>1, DesktopAlways, PTL
=============================================================================
