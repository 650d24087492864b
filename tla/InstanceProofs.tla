--------------------------- MODULE InstanceProofs ---------------------------
(***************************************************************************)
(* One window at a time owns the data directory, for any number of         *)
(* windows, launchers, services and ports, and for every choice of the     *)
(* ports that other programs take.  Launchers take no lock, and nothing is *)
(* said of their services.                                                 *)
(*                                                                         *)
(* A service and the lock are tied only through the window's own record of *)
(* where its start is.  So the invariant follows that record: a window     *)
(* that is past the lock and open holds it (Holding), it has no service in *)
(* hand when it may start one or has given up (EmptyHanded), and the one   *)
(* in hand when it gives the lock back was told to exit (ToldFirst).       *)
(***************************************************************************)
EXTENDS ServiceInstances, TLAPS

Holding ==
    \A w \in Windows :
        window[w].pc \in {"probe", "await", "owned"} /\ window[w].close = "no" => lock = w

EmptyHanded ==
    \A w \in Windows :
        window[w].pc \in {"closed", "lock", "probe", "failed"} => window[w].service = Nobody

ToldFirst ==
    \A w \in Windows : window[w].service # Nobody =>
        /\ service[window[w].service].phase # "unused"
        /\ window[w].pc = "stop" => service[window[w].service].exit

OwnerInv == TypeOK /\ OneWindow /\ Holding /\ EmptyHanded /\ ToldFirst

WindowStates ==
    [pc : {"closed", "lock", "probe", "await", "owned", "stop", "failed"},
     port : Ports, service : Services \cup {Nobody},
     then : {"lock", "failed"}, close : {"no", "begun", "ended"}]
ServiceStates ==
    [owner : Windows \cup Launchers \cup {Nobody}, port : Ports,
     phase : {"unused", "starting", "serving", "draining", "dead"}, exit : BOOLEAN]

LEMMA Typed ==
    ASSUME TypeOK
    PROVE  /\ lock \in Windows \cup {Nobody}
           /\ window \in [Windows -> WindowStates]
           /\ service \in [Services -> ServiceStates]
           /\ launcher \in [Launchers -> [pc : {"idle", "probe", "run"}, port : Ports]]
BY DEF TypeOK, WindowStates, ServiceStates

LEMMA OwnerInitial == ASSUME Init PROVE OwnerInv
<1>1. 1 \in Ports
  BY InstanceConstants DEF Ports
<1>2. TypeOK
  BY <1>1 DEF Init, TypeOK, Closed, Unused, Idle
<1>. QED
  BY <1>2, InstanceConstants
     DEF Init, OwnerInv, OneWindow, OfWindows, Unstopped, Holding, EmptyHanded, ToldFirst, Closed, Unused, Idle
-----------------------------------------------------------------------------
(* Telling a service to exit changes nothing else of it.                   *)
LEMMA ToldExits ==
    ASSUME TypeOK, NEW w \in Windows
    PROVE  /\ Told(w) \in [Services -> ServiceStates]
           /\ \A s \in Services :
                 /\ Told(w)[s].owner = service[s].owner
                 /\ Told(w)[s].phase = service[s].phase
                 /\ Told(w)[s].exit = (service[s].exit \/ s = window[w].service)
<1>1. service \in [Services -> ServiceStates] /\ window[w].service \in Services \cup {Nobody}
  BY Typed DEF WindowStates
<1>. QED  BY <1>1, InstanceConstants DEF Told, ServiceStates

(* One window changes.                                                     *)
LEMMA OneMoves ==
    ASSUME window \in [Windows -> WindowStates], NEW w \in Windows, NEW x \in WindowStates,
           window' = [window EXCEPT ![w] = x]
    PROVE  /\ window' \in [Windows -> WindowStates]
           /\ window'[w] = x
           /\ \A v \in Windows \ {w} : window'[v] = window[v]
OBVIOUS

(* A start that fails tells the service in hand, and goes to stop().       *)
LEMMA FailingStart ==
    ASSUME OwnerInv, NEW w \in Windows, window[w].pc \in {"probe", "await"},
           StartFails(w), UNCHANGED <<launcher, streams, taken>>
    PROVE  OwnerInv'
<1>. DEFINE x == [window[w] EXCEPT !.pc = "stop", !.then = "failed"]
<1>1. /\ window \in [Windows -> WindowStates] /\ service \in [Services -> ServiceStates]
      /\ TypeOK
  BY Typed DEF OwnerInv
<1>2. x \in WindowStates /\ x.pc = "stop" /\ x.service = window[w].service
      /\ x.close = window[w].close
  BY <1>1 DEF WindowStates
<1>3. window' = [window EXCEPT ![w] = x] /\ service' = Told(w) /\ lock' = lock
  BY DEF StartFails
<1>. HIDE DEF x
<1>4. /\ window' \in [Windows -> WindowStates] /\ window'[w] = x
      /\ \A v \in Windows \ {w} : window'[v] = window[v]
  BY <1>1, <1>2, <1>3, OneMoves
<1>5. TypeOK'
  BY <1>1, <1>3, <1>4, ToldExits DEF TypeOK, WindowStates, ServiceStates
<1>6. window[w].service \in Services \cup {Nobody}
  BY <1>1 DEF WindowStates
<1>7. OneWindow'
  <2>1. ASSUME NEW s \in OfWindows', window'[service'[s].owner].close = "no"
        PROVE  lock' = service'[s].owner /\ window'[service'[s].owner].service = s
    <3>1. /\ s \in OfWindows /\ service'[s].owner = service[s].owner
          /\ s # window[w].service
      BY <1>1, <1>3, <2>1, ToldExits DEF OfWindows, Unstopped, ServiceStates
    <3>2. service[s].owner \in Windows
      BY <3>1 DEF OfWindows, Unstopped
    <3>. QED  BY <1>2, <1>3, <1>4, <2>1, <3>1, <3>2 DEF OwnerInv, OneWindow
  <2>2. \A v \in Windows : lock' = v => window'[v].pc \in {"probe", "await", "owned", "stop"}
    BY <1>2, <1>3, <1>4 DEF OwnerInv, OneWindow
  <2>. QED  BY <2>1, <2>2 DEF OneWindow
<1>8. Holding' /\ EmptyHanded'
  BY <1>1, <1>2, <1>3, <1>4 DEF OwnerInv, Holding, EmptyHanded
<1>9. ToldFirst'
  <2>1. ASSUME NEW v \in Windows, window'[v].service # Nobody
        PROVE  /\ service'[window'[v].service].phase # "unused"
               /\ window'[v].pc = "stop" => service'[window'[v].service].exit
    <3>1. window[v].service \in Services /\ window'[v].service = window[v].service
      BY <1>1, <1>2, <1>4, <2>1 DEF WindowStates
    <3>2. service[window[v].service].phase # "unused"
      BY <3>1, <2>1 DEF OwnerInv, ToldFirst
    <3>3. v = w \/ (window'[v].pc = "stop" => service[window[v].service].exit)
      BY <1>4, <2>1, <3>1 DEF OwnerInv, ToldFirst
    <3>4. service'[window'[v].service].phase # "unused"
      BY <1>1, <1>3, <3>1, <3>2, ToldExits
    <3>5. ASSUME window'[v].pc = "stop" PROVE service'[window'[v].service].exit
      BY <1>1, <1>3, <3>1, <3>3, <3>5, ToldExits
    <3>. QED  BY <3>4, <3>5
  <2>. QED  BY <2>1 DEF ToldFirst
<1>. QED  BY <1>5, <1>7, <1>8, <1>9 DEF OwnerInv

LEMMA OwnerStep == ASSUME OwnerInv, [Next]_vars PROVE OwnerInv'
<1>0. /\ TypeOK
      /\ lock \in Windows \cup {Nobody}
      /\ window \in [Windows -> WindowStates]
      /\ service \in [Services -> ServiceStates]
      /\ launcher \in [Launchers -> [pc : {"idle", "probe", "run"}, port : Ports]]
  BY Typed DEF OwnerInv
<1>1. ASSUME NEW w \in Windows, OpenWindow(w) PROVE OwnerInv'
  <2>1. TypeOK'
    <3>1. lock' \in Windows \cup {Nobody}
      BY <1>1, <1>0, InstanceConstants DEF OpenWindow
    <3>2. window' \in [Windows -> WindowStates]
      <4>1. PICK p \in Ports : window' = [window EXCEPT ![w].pc = "lock", ![w].port = p]
        BY <1>1 DEF OpenWindow
      <4>. DEFINE x == [window[w] EXCEPT !.pc = "lock", !.port = p]
      <4>2. x \in WindowStates
        BY <1>0 DEF WindowStates
      <4>3. window' = [window EXCEPT ![w] = x]
        BY <4>1, <1>0
      <4>. QED  BY <1>0, <4>2, <4>3, OneMoves
    <3>3. service' \in [Services -> ServiceStates]
      BY <1>1, <1>0, InstanceConstants DEF ServiceStates, WindowStates, Ports, OpenWindow
    <3>4. launcher' \in [Launchers -> [pc : {"idle", "probe", "run"}, port : Ports]]
      BY <1>1, <1>0, InstanceConstants DEF Ports, OpenWindow
    <3>5. streams' \subseteq Services /\ taken' \subseteq Ports
      BY <1>1, <1>0, InstanceConstants DEF TypeOK, OpenWindow
    <3>. QED  BY <3>1, <3>2, <3>3, <3>4, <3>5 DEF TypeOK, WindowStates, ServiceStates
  <2>2. OneWindow' /\ Holding' /\ EmptyHanded' /\ ToldFirst'
    BY <1>1, <1>0, InstanceConstants DEF OwnerInv, OneWindow, OfWindows, Unstopped, Holding, EmptyHanded, ToldFirst,
       WindowStates, ServiceStates, OpenWindow
  <2>. QED  BY <2>1, <2>2 DEF OwnerInv
<1>2. ASSUME NEW w \in Windows, Acquire(w) PROVE OwnerInv'
  <2>1. TypeOK'
    <3>1. lock' \in Windows \cup {Nobody}
      BY <1>2, <1>0, InstanceConstants DEF Acquire, Goto
    <3>2. window' \in [Windows -> WindowStates]
      BY <1>2, <1>0, InstanceConstants DEF WindowStates, Ports, Acquire, Goto
    <3>3. service' \in [Services -> ServiceStates]
      BY <1>2, <1>0, InstanceConstants DEF ServiceStates, WindowStates, Ports, Acquire, Goto
    <3>4. launcher' \in [Launchers -> [pc : {"idle", "probe", "run"}, port : Ports]]
      BY <1>2, <1>0, InstanceConstants DEF Ports, Acquire, Goto
    <3>5. streams' \subseteq Services /\ taken' \subseteq Ports
      BY <1>2, <1>0, InstanceConstants DEF TypeOK, Acquire, Goto
    <3>. QED  BY <3>1, <3>2, <3>3, <3>4, <3>5 DEF TypeOK, WindowStates, ServiceStates
  <2>2. OneWindow' /\ Holding' /\ EmptyHanded' /\ ToldFirst'
    BY SMTT(60), <1>2, <1>0, InstanceConstants DEF OwnerInv, OneWindow, OfWindows, Unstopped, Holding, EmptyHanded, ToldFirst,
       WindowStates, ServiceStates, Acquire, Goto
  <2>. QED  BY <2>1, <2>2 DEF OwnerInv
<1>3. ASSUME NEW w \in Windows, Probe(w) PROVE OwnerInv'
  <2>1. CASE StartFails(w)
    BY <1>3, <2>1, FailingStart DEF Probe
  <2>2. ASSUME NEW s \in Services, Started(s, w, window[w].port), UNCHANGED lock,
               window' = [window EXCEPT ![w].pc = "await", ![w].service = s]
        PROVE  OwnerInv'
    <3>. DEFINE x == [window[w] EXCEPT !.pc = "await", !.service = s]
                y == [owner |-> w, port |-> window[w].port, phase |-> "starting", exit |-> FALSE]
    <3>1. x \in WindowStates /\ x.pc = "await" /\ x.service = s /\ x.close = window[w].close
      BY <1>0 DEF WindowStates
    <3>2. y \in ServiceStates
      BY <1>0 DEF WindowStates, ServiceStates
    <3>3. service[s].phase = "unused" /\ service' = [service EXCEPT ![s] = y]
      BY <2>2 DEF Started
    <3>4. window' = [window EXCEPT ![w] = x]
      BY <1>0, <2>2
    <3>. HIDE DEF x
    <3>5. /\ window' \in [Windows -> WindowStates] /\ window'[w] = x
          /\ \A v \in Windows \ {w} : window'[v] = window[v]
      BY <1>0, <3>1, <3>4, OneMoves
    <3>6. UNCHANGED <<lock, launcher, streams, taken>>
      BY <1>3, <2>2 DEF Probe
    <3>7. TypeOK'
      BY <1>0, <3>2, <3>3, <3>5, <3>6 DEF TypeOK, WindowStates, ServiceStates
    <3>8. OneWindow'
      <4>1. ASSUME NEW r \in OfWindows', window'[service'[r].owner].close = "no"
            PROVE  lock' = service'[r].owner /\ window'[service'[r].owner].service = r
        <5>1. CASE r = s
          BY <1>3, <1>0, <3>1, <3>3, <3>5, <3>6, <4>1, <5>1 DEF OwnerInv, Holding, Probe
        <5>2. CASE r # s
          <6>1. r \in OfWindows /\ service'[r] = service[r] /\ service[r].owner \in Windows
            BY <1>0, <3>3, <4>1, <5>2 DEF OfWindows, Unstopped
          <6>2. service[r].owner # w
            BY <1>3, <1>0, <3>1, <3>5, <4>1, <6>1, InstanceConstants
               DEF OwnerInv, OneWindow, EmptyHanded, Probe, OfWindows, Unstopped
          <6>. QED  BY <3>5, <3>6, <4>1, <6>1, <6>2 DEF OwnerInv, OneWindow
        <5>. QED  BY <5>1, <5>2
      <4>2. \A v \in Windows :
               lock' = v => window'[v].pc \in {"probe", "await", "owned", "stop"}
        BY <3>1, <3>5, <3>6 DEF OwnerInv, OneWindow
      <4>. QED  BY <4>1, <4>2 DEF OneWindow
    <3>9. Holding' /\ EmptyHanded'
      BY <1>3, <3>1, <3>5, <3>6 DEF OwnerInv, Holding, EmptyHanded, Probe
    <3>10. ToldFirst'
      <4>1. ASSUME NEW v \in Windows \ {w}, window'[v].service # Nobody
            PROVE  /\ service'[window'[v].service].phase # "unused"
                   /\ window'[v].pc = "stop" => service'[window'[v].service].exit
        <5>1. window'[v] = window[v] /\ window[v].service \in Services
          BY <1>0, <3>5, <4>1 DEF WindowStates
        <5>2. service[window[v].service].phase # "unused" /\ window[v].service # s
          BY <3>3, <4>1, <5>1 DEF OwnerInv, ToldFirst
        <5>. QED  BY <1>0, <3>3, <4>1, <5>1, <5>2 DEF OwnerInv, ToldFirst
      <4>2. window'[w].pc = "await" /\ service'[window'[w].service].phase # "unused"
        BY <1>0, <3>1, <3>3, <3>5
      <4>. QED  BY <4>1, <4>2 DEF ToldFirst
    <3>. QED  BY <3>7, <3>8, <3>9, <3>10 DEF OwnerInv
  <2>3. CASE /\ ~IsLast(window[w].port) /\ UNCHANGED <<lock, service>>
             /\ window' = [window EXCEPT ![w].port = window[w].port + 1]
    <3>. DEFINE x == [window[w] EXCEPT !.port = window[w].port + 1]
    <3>a. window[w].port \in Ports /\ window[w].port # Top
      BY <1>0, <2>3 DEF WindowStates, IsLast
    <3>0. window[w].port \in Ports /\ window[w].port + 1 \in Ports
      BY <3>a, InstanceConstants DEF Ports
    <3>1. /\ x \in WindowStates /\ x.pc = window[w].pc /\ x.service = window[w].service
          /\ x.close = window[w].close
      BY <1>0, <3>0 DEF WindowStates
    <3>2. window' = [window EXCEPT ![w] = x]
      BY <1>0, <2>3
    <3>. HIDE DEF x
    <3>3. /\ window' \in [Windows -> WindowStates] /\ window'[w] = x
          /\ \A v \in Windows \ {w} : window'[v] = window[v]
      BY <1>0, <3>1, <3>2, OneMoves
    <3>4. UNCHANGED <<lock, service, launcher, streams, taken>>
      BY <1>3, <2>3 DEF Probe
    <3>5. TypeOK'
      BY <1>0, <3>3, <3>4 DEF TypeOK, WindowStates, ServiceStates
    <3>. QED
      BY <3>1, <3>3, <3>4, <3>5 DEF OwnerInv, OneWindow, OfWindows, Unstopped, Holding, EmptyHanded, ToldFirst
  <2>. QED  BY <1>3, <2>1, <2>2, <2>3 DEF Probe
<1>4. ASSUME NEW w \in Windows, Await(w) PROVE OwnerInv'
  <2>1. CASE StartFails(w)
    BY <1>4, <2>1, FailingStart DEF Await
  <2>2. CASE Goto(w, "owned") /\ UNCHANGED <<lock, service>>
    <3>1. window' \in [Windows -> WindowStates]
      BY <1>0, <2>2 DEF Goto, WindowStates
    <3>2. UNCHANGED <<lock, service, launcher, streams, taken>>
      BY <1>4, <2>2 DEF Await
    <3>3. TypeOK'
      BY <1>0, <3>1, <3>2 DEF TypeOK, WindowStates, ServiceStates
    <3>4. OneWindow' /\ Holding' /\ EmptyHanded' /\ ToldFirst'
      BY <1>4, <1>0, <2>2, <3>2
         DEF OwnerInv, OneWindow, OfWindows, Unstopped, Holding, EmptyHanded, ToldFirst, Await, Goto, WindowStates
    <3>. QED  BY <3>3, <3>4 DEF OwnerInv
  <2>. QED  BY <1>4, <2>1, <2>2 DEF Await
<1>5. ASSUME NEW w \in Windows, EndStop(w) PROVE OwnerInv'
  <2>1. TypeOK'
    <3>1. lock' \in Windows \cup {Nobody}
      BY <1>5, <1>0, InstanceConstants DEF EndStop, Released
    <3>2. window' \in [Windows -> WindowStates]
      <4>. DEFINE x == [window[w] EXCEPT !.pc = window[w].then, !.service = Nobody]
      <4>1. x \in WindowStates
        BY <1>5, <1>0 DEF WindowStates
      <4>2. window' = [window EXCEPT ![w] = x]
        BY <1>5, <1>0 DEF EndStop
      <4>. QED  BY <1>0, <4>1, <4>2, OneMoves
    <3>3. service' \in [Services -> ServiceStates]
      BY <1>5, <1>0, InstanceConstants DEF ServiceStates, WindowStates, Ports, EndStop, Released
    <3>4. launcher' \in [Launchers -> [pc : {"idle", "probe", "run"}, port : Ports]]
      BY <1>5, <1>0, InstanceConstants DEF Ports, EndStop, Released
    <3>5. streams' \subseteq Services /\ taken' \subseteq Ports
      BY <1>5, <1>0, InstanceConstants DEF TypeOK, EndStop, Released
    <3>. QED  BY <3>1, <3>2, <3>3, <3>4, <3>5 DEF TypeOK, WindowStates, ServiceStates
  <2>2. OneWindow' /\ Holding' /\ EmptyHanded' /\ ToldFirst'
    BY <1>5, <1>0, InstanceConstants DEF OwnerInv, OneWindow, OfWindows, Unstopped, Holding, EmptyHanded, ToldFirst,
       WindowStates, ServiceStates, EndStop, Released
  <2>. QED  BY <2>1, <2>2 DEF OwnerInv
<1>6. ASSUME NEW w \in Windows, Restart(w) PROVE OwnerInv'
  <2>1. TypeOK'
    <3>1. lock' \in Windows \cup {Nobody}
      BY <1>6, <1>0, ToldExits, InstanceConstants DEF Restart
    <3>2. window' \in [Windows -> WindowStates]
      <4>1. PICK p \in Ports :
               window' = [window EXCEPT ![w].pc = "stop", ![w].then = "lock", ![w].port = p]
        BY <1>6 DEF Restart
      <4>. DEFINE x == [window[w] EXCEPT !.pc = "stop", !.then = "lock", !.port = p]
      <4>2. x \in WindowStates
        BY <1>0 DEF WindowStates
      <4>3. window' = [window EXCEPT ![w] = x]
        BY <4>1, <1>0
      <4>. QED  BY <1>0, <4>2, <4>3, OneMoves
    <3>3. service' \in [Services -> ServiceStates]
      BY <1>6, <1>0, ToldExits, InstanceConstants DEF ServiceStates, WindowStates, Ports, Restart
    <3>4. launcher' \in [Launchers -> [pc : {"idle", "probe", "run"}, port : Ports]]
      BY <1>6, <1>0, ToldExits, InstanceConstants DEF Ports, Restart
    <3>5. streams' \subseteq Services /\ taken' \subseteq Ports
      BY <1>6, <1>0, ToldExits, InstanceConstants DEF TypeOK, Restart
    <3>. QED  BY <3>1, <3>2, <3>3, <3>4, <3>5 DEF TypeOK, WindowStates, ServiceStates
  <2>2. OneWindow' /\ Holding' /\ EmptyHanded' /\ ToldFirst'
    BY <1>6, <1>0, ToldExits, InstanceConstants DEF OwnerInv, OneWindow, OfWindows, Unstopped, Holding, EmptyHanded, ToldFirst,
       WindowStates, ServiceStates, Restart
  <2>. QED  BY <2>1, <2>2 DEF OwnerInv
<1>7. ASSUME NEW w \in Windows, BeginClose(w) PROVE OwnerInv'
  <2>1. TypeOK'
    <3>1. lock' \in Windows \cup {Nobody}
      BY <1>7, <1>0, ToldExits, InstanceConstants DEF BeginClose
    <3>2. window' \in [Windows -> WindowStates]
      <4>. DEFINE x == [window[w] EXCEPT !.close = "begun"]
      <4>1. x \in WindowStates
        BY <1>0 DEF WindowStates
      <4>2. window' = [window EXCEPT ![w] = x]
        BY <1>7, <1>0 DEF BeginClose
      <4>. QED  BY <1>0, <4>1, <4>2, OneMoves
    <3>3. service' \in [Services -> ServiceStates]
      BY <1>7, <1>0, ToldExits, InstanceConstants DEF ServiceStates, WindowStates, Ports, BeginClose
    <3>4. launcher' \in [Launchers -> [pc : {"idle", "probe", "run"}, port : Ports]]
      BY <1>7, <1>0, ToldExits, InstanceConstants DEF Ports, BeginClose
    <3>5. streams' \subseteq Services /\ taken' \subseteq Ports
      BY <1>7, <1>0, ToldExits, InstanceConstants DEF TypeOK, BeginClose
    <3>. QED  BY <3>1, <3>2, <3>3, <3>4, <3>5 DEF TypeOK, WindowStates, ServiceStates
  <2>2. OneWindow' /\ Holding' /\ EmptyHanded' /\ ToldFirst'
    BY <1>7, <1>0, ToldExits, InstanceConstants DEF OwnerInv, OneWindow, OfWindows, Unstopped, Holding, EmptyHanded, ToldFirst,
       WindowStates, ServiceStates, BeginClose
  <2>. QED  BY <2>1, <2>2 DEF OwnerInv
<1>8. ASSUME NEW w \in Windows, EndClose(w) PROVE OwnerInv'
  <2>1. TypeOK'
    <3>1. lock' \in Windows \cup {Nobody}
      BY <1>8, <1>0, InstanceConstants DEF EndClose, Released
    <3>2. window' \in [Windows -> WindowStates]
      <4>. DEFINE x == [window[w] EXCEPT !.close = "ended", !.service = Nobody]
      <4>1. x \in WindowStates
        BY <1>8, <1>0 DEF WindowStates
      <4>2. window' = [window EXCEPT ![w] = x]
        BY <1>8, <1>0 DEF EndClose
      <4>. QED  BY <1>0, <4>1, <4>2, OneMoves
    <3>3. service' \in [Services -> ServiceStates]
      BY <1>8, <1>0, InstanceConstants DEF ServiceStates, WindowStates, Ports, EndClose, Released
    <3>4. launcher' \in [Launchers -> [pc : {"idle", "probe", "run"}, port : Ports]]
      BY <1>8, <1>0, InstanceConstants DEF Ports, EndClose, Released
    <3>5. streams' \subseteq Services /\ taken' \subseteq Ports
      BY <1>8, <1>0, InstanceConstants DEF TypeOK, EndClose, Released
    <3>. QED  BY <3>1, <3>2, <3>3, <3>4, <3>5 DEF TypeOK, WindowStates, ServiceStates
  <2>2. OneWindow' /\ Holding' /\ EmptyHanded' /\ ToldFirst'
    BY <1>8, <1>0, InstanceConstants DEF OwnerInv, OneWindow, OfWindows, Unstopped, Holding, EmptyHanded, ToldFirst,
       WindowStates, ServiceStates, EndClose, Released
  <2>. QED  BY <2>1, <2>2 DEF OwnerInv
<1>9. ASSUME NEW w \in Windows, ProcessEnds(w) PROVE OwnerInv'
  <2>1. TypeOK'
    <3>1. lock' \in Windows \cup {Nobody}
      BY <1>9, <1>0, InstanceConstants DEF ProcessEnds, Gone, Released, Ended, Closed
    <3>2. window' \in [Windows -> WindowStates]
      BY <1>9, <1>0, InstanceConstants DEF WindowStates, Ports, ProcessEnds, Gone, Released, Ended, Closed
    <3>3. service' \in [Services -> ServiceStates]
      BY <1>9, <1>0, InstanceConstants DEF ServiceStates, WindowStates, Ports, ProcessEnds, Gone, Released, Ended, Closed
    <3>4. launcher' \in [Launchers -> [pc : {"idle", "probe", "run"}, port : Ports]]
      BY <1>9, <1>0, InstanceConstants DEF Ports, ProcessEnds, Gone, Released, Ended, Closed
    <3>5. streams' \subseteq Services /\ taken' \subseteq Ports
      BY <1>9, <1>0, InstanceConstants DEF TypeOK, ProcessEnds, Gone, Released, Ended, Closed
    <3>. QED  BY <3>1, <3>2, <3>3, <3>4, <3>5 DEF TypeOK, WindowStates, ServiceStates
  <2>2. OneWindow' /\ Holding' /\ EmptyHanded' /\ ToldFirst'
    BY <1>9, <1>0, InstanceConstants DEF OwnerInv, OneWindow, OfWindows, Unstopped, Holding, EmptyHanded, ToldFirst,
       WindowStates, ServiceStates, ProcessEnds, Gone, Released, Ended, Closed
  <2>. QED  BY <2>1, <2>2 DEF OwnerInv
<1>10. ASSUME NEW w \in Windows, Crash(w) PROVE OwnerInv'
  <2>1. TypeOK'
    <3>1. lock' \in Windows \cup {Nobody}
      BY <1>10, <1>0, InstanceConstants DEF Crash, Gone, Released, Ended, Closed
    <3>2. window' \in [Windows -> WindowStates]
      BY <1>10, <1>0, InstanceConstants DEF WindowStates, Ports, Crash, Gone, Released, Ended, Closed
    <3>3. service' \in [Services -> ServiceStates]
      BY <1>10, <1>0, InstanceConstants DEF ServiceStates, WindowStates, Ports, Crash, Gone, Released, Ended, Closed
    <3>4. launcher' \in [Launchers -> [pc : {"idle", "probe", "run"}, port : Ports]]
      BY <1>10, <1>0, InstanceConstants DEF Ports, Crash, Gone, Released, Ended, Closed
    <3>5. streams' \subseteq Services /\ taken' \subseteq Ports
      BY <1>10, <1>0, InstanceConstants DEF TypeOK, Crash, Gone, Released, Ended, Closed
    <3>. QED  BY <3>1, <3>2, <3>3, <3>4, <3>5 DEF TypeOK, WindowStates, ServiceStates
  <2>2. OneWindow' /\ Holding' /\ EmptyHanded' /\ ToldFirst'
    BY <1>10, <1>0, InstanceConstants DEF OwnerInv, OneWindow, OfWindows, Unstopped, Holding, EmptyHanded, ToldFirst,
       WindowStates, ServiceStates, Crash, Gone, Released, Ended, Closed
  <2>. QED  BY <2>1, <2>2 DEF OwnerInv
<1>11. ASSUME NEW l \in Launchers, Launch(l) PROVE OwnerInv'
  <2>1. TypeOK'
    <3>1. lock' \in Windows \cup {Nobody}
      BY <1>11, <1>0, InstanceConstants DEF Launch
    <3>2. window' \in [Windows -> WindowStates]
      BY <1>11, <1>0, InstanceConstants DEF WindowStates, Ports, Launch
    <3>3. service' \in [Services -> ServiceStates]
      BY <1>11, <1>0, InstanceConstants DEF ServiceStates, WindowStates, Ports, Launch
    <3>4. launcher' \in [Launchers -> [pc : {"idle", "probe", "run"}, port : Ports]]
      BY <1>11, <1>0, InstanceConstants DEF Ports, Launch
    <3>5. streams' \subseteq Services /\ taken' \subseteq Ports
      BY <1>11, <1>0, InstanceConstants DEF TypeOK, Launch
    <3>. QED  BY <3>1, <3>2, <3>3, <3>4, <3>5 DEF TypeOK, WindowStates, ServiceStates
  <2>2. OneWindow' /\ Holding' /\ EmptyHanded' /\ ToldFirst'
    BY <1>11, <1>0, InstanceConstants DEF OwnerInv, OneWindow, OfWindows, Unstopped, Holding, EmptyHanded, ToldFirst,
       WindowStates, ServiceStates, Launch
  <2>. QED  BY <2>1, <2>2 DEF OwnerInv
<1>12. ASSUME NEW l \in Launchers, LauncherProbe(l) PROVE OwnerInv'
  <2>0. l \notin Windows /\ UNCHANGED <<lock, window, streams, taken>>
    BY <1>12, InstanceConstants DEF LauncherProbe
  <2>1. ASSUME NEW s \in Services, Started(s, l, launcher[l].port),
               launcher' = [launcher EXCEPT ![l].pc = "run"]
        PROVE  OwnerInv'
    <3>. DEFINE y == [owner |-> l, port |-> launcher[l].port, phase |-> "starting", exit |-> FALSE]
    <3>1. y \in ServiceStates /\ y.owner = l
      BY <1>0 DEF ServiceStates
    <3>2. service[s].phase = "unused" /\ service' = [service EXCEPT ![s] = y]
      BY <2>1 DEF Started
    <3>3. launcher' \in [Launchers -> [pc : {"idle", "probe", "run"}, port : Ports]]
      BY <1>0, <2>1
    <3>. HIDE DEF y
    <3>4. TypeOK'
      BY <1>0, <2>0, <3>1, <3>2, <3>3 DEF TypeOK, WindowStates, ServiceStates
    <3>5. OfWindows' \subseteq OfWindows /\ \A r \in OfWindows' : service'[r] = service[r]
      BY <1>0, <2>0, <3>1, <3>2 DEF OfWindows, Unstopped
    <3>6. OneWindow'
      BY <2>0, <3>5 DEF OwnerInv, OneWindow
    <3>7. \A w \in Windows : window[w].service # Nobody =>
             window[w].service \in Services /\ service'[window[w].service] = service[window[w].service]
      BY <1>0, <3>2 DEF OwnerInv, ToldFirst, WindowStates
    <3>. QED  BY <2>0, <3>4, <3>6, <3>7 DEF OwnerInv, Holding, EmptyHanded, ToldFirst
  <2>2. CASE UNCHANGED service
    <3>1. launcher' \in [Launchers -> [pc : {"idle", "probe", "run"}, port : Ports]]
      BY <1>12, <1>0, <2>2, InstanceConstants DEF LauncherProbe, Started, IsLast, Ports, Idle
    <3>2. TypeOK'
      BY <1>0, <2>0, <2>2, <3>1 DEF TypeOK, WindowStates, ServiceStates
    <3>. QED
      BY <2>0, <2>2, <3>2 DEF OwnerInv, OneWindow, OfWindows, Unstopped, Holding, EmptyHanded, ToldFirst
  <2>. QED  BY <1>12, <2>1, <2>2 DEF LauncherProbe
<1>13. ASSUME NEW l \in Launchers, LauncherEnds(l) PROVE OwnerInv'
  <2>1. TypeOK'
    <3>1. lock' \in Windows \cup {Nobody}
      BY <1>13, <1>0, InstanceConstants DEF LauncherEnds, Ended, Idle
    <3>2. window' \in [Windows -> WindowStates]
      BY <1>13, <1>0, InstanceConstants DEF WindowStates, Ports, LauncherEnds, Ended, Idle
    <3>3. service' \in [Services -> ServiceStates]
      BY <1>13, <1>0, InstanceConstants DEF ServiceStates, WindowStates, Ports, LauncherEnds, Ended, Idle
    <3>4. launcher' \in [Launchers -> [pc : {"idle", "probe", "run"}, port : Ports]]
      BY <1>13, <1>0, InstanceConstants DEF Ports, LauncherEnds, Ended, Idle
    <3>5. streams' \subseteq Services /\ taken' \subseteq Ports
      BY <1>13, <1>0, InstanceConstants DEF TypeOK, LauncherEnds, Ended, Idle
    <3>. QED  BY <3>1, <3>2, <3>3, <3>4, <3>5 DEF TypeOK, WindowStates, ServiceStates
  <2>2. OneWindow' /\ Holding' /\ EmptyHanded' /\ ToldFirst'
    BY <1>13, <1>0, InstanceConstants DEF OwnerInv, OneWindow, OfWindows, Unstopped, Holding, EmptyHanded, ToldFirst,
       WindowStates, ServiceStates, LauncherEnds, Ended, Idle
  <2>. QED  BY <2>1, <2>2 DEF OwnerInv
<1>14. ASSUME NEW s \in Services, Bind(s) PROVE OwnerInv'
  <2>1. TypeOK'
    <3>1. lock' \in Windows \cup {Nobody}
      BY <1>14, <1>0, InstanceConstants DEF Bind
    <3>2. window' \in [Windows -> WindowStates]
      BY <1>14, <1>0, InstanceConstants DEF WindowStates, Ports, Bind
    <3>3. service' \in [Services -> ServiceStates]
      BY SMTT(60), <1>14, <1>0, InstanceConstants DEF ServiceStates, WindowStates, Ports, Bind
    <3>4. launcher' \in [Launchers -> [pc : {"idle", "probe", "run"}, port : Ports]]
      BY <1>14, <1>0, InstanceConstants DEF Ports, Bind
    <3>5. streams' \subseteq Services /\ taken' \subseteq Ports
      BY <1>14, <1>0, InstanceConstants DEF TypeOK, Bind
    <3>. QED  BY <3>1, <3>2, <3>3, <3>4, <3>5 DEF TypeOK, WindowStates, ServiceStates
  <2>2. OneWindow' /\ Holding' /\ EmptyHanded' /\ ToldFirst'
    BY <1>14, <1>0, InstanceConstants DEF OwnerInv, OneWindow, OfWindows, Unstopped, Holding, EmptyHanded, ToldFirst,
       WindowStates, ServiceStates, Bind
  <2>. QED  BY <2>1, <2>2 DEF OwnerInv
<1>15. ASSUME NEW s \in Services, Shut(s) PROVE OwnerInv'
  <2>1. TypeOK'
    <3>1. lock' \in Windows \cup {Nobody}
      BY <1>15, <1>0, InstanceConstants DEF Shut
    <3>2. window' \in [Windows -> WindowStates]
      BY <1>15, <1>0, InstanceConstants DEF WindowStates, Ports, Shut
    <3>3. service' \in [Services -> ServiceStates]
      BY <1>15, <1>0, InstanceConstants DEF ServiceStates, WindowStates, Ports, Shut
    <3>4. launcher' \in [Launchers -> [pc : {"idle", "probe", "run"}, port : Ports]]
      BY <1>15, <1>0, InstanceConstants DEF Ports, Shut
    <3>5. streams' \subseteq Services /\ taken' \subseteq Ports
      BY <1>15, <1>0, InstanceConstants DEF TypeOK, Shut
    <3>. QED  BY <3>1, <3>2, <3>3, <3>4, <3>5 DEF TypeOK, WindowStates, ServiceStates
  <2>2. OneWindow' /\ Holding' /\ EmptyHanded' /\ ToldFirst'
    BY SMTT(60), <1>15, <1>0, InstanceConstants DEF OwnerInv, OneWindow, OfWindows, Unstopped, Holding, EmptyHanded, ToldFirst,
       WindowStates, ServiceStates, Shut
  <2>. QED  BY <2>1, <2>2 DEF OwnerInv
<1>16. ASSUME NEW s \in Services, Stream(s) PROVE OwnerInv'
  <2>1. TypeOK'
    <3>1. lock' \in Windows \cup {Nobody}
      BY <1>16, <1>0, InstanceConstants DEF Stream
    <3>2. window' \in [Windows -> WindowStates]
      BY <1>16, <1>0, InstanceConstants DEF WindowStates, Ports, Stream
    <3>3. service' \in [Services -> ServiceStates]
      BY <1>16, <1>0, InstanceConstants DEF ServiceStates, WindowStates, Ports, Stream
    <3>4. launcher' \in [Launchers -> [pc : {"idle", "probe", "run"}, port : Ports]]
      BY <1>16, <1>0, InstanceConstants DEF Ports, Stream
    <3>5. streams' \subseteq Services /\ taken' \subseteq Ports
      BY <1>16, <1>0, InstanceConstants DEF TypeOK, Stream
    <3>. QED  BY <3>1, <3>2, <3>3, <3>4, <3>5 DEF TypeOK, WindowStates, ServiceStates
  <2>2. OneWindow' /\ Holding' /\ EmptyHanded' /\ ToldFirst'
    BY <1>16, <1>0, InstanceConstants DEF OwnerInv, OneWindow, OfWindows, Unstopped, Holding, EmptyHanded, ToldFirst,
       WindowStates, ServiceStates, Stream
  <2>. QED  BY <2>1, <2>2 DEF OwnerInv
<1>17. ASSUME NEW p \in Others, OtherProgram(p) PROVE OwnerInv'
  BY <1>17, InstanceConstants DEF OwnerInv, TypeOK, OneWindow, OfWindows, Unstopped, Holding, EmptyHanded, ToldFirst, Ports, OtherProgram
<1>18. CASE UNCHANGED vars
  BY <1>18 DEF vars, OwnerInv, TypeOK, OneWindow, OfWindows, Unstopped, Holding, EmptyHanded, ToldFirst
<1>. QED
  BY <1>1, <1>2, <1>3, <1>4, <1>5, <1>6, <1>7, <1>8, <1>9, <1>10, <1>11, <1>12, <1>13, <1>14, <1>15, <1>16, <1>17, <1>18 DEF Next, WindowStep

LEMMA OwnerAlways == Spec => []OwnerInv
<1>1. Init => OwnerInv
  BY OwnerInitial
<1>2. OwnerInv /\ [Next]_vars => OwnerInv'
  BY OwnerStep
<1>. QED  BY <1>1, <1>2, PTL DEF Spec
-----------------------------------------------------------------------------
(* Every variable keeps its type.                                          *)
THEOREM InstancesTyped == Spec => []TypeOK
<1>1. OwnerInv => TypeOK
  BY DEF OwnerInv
<1>. QED  BY <1>1, OwnerAlways, PTL

(* A window's service that nobody told to exit belongs to the window that  *)
(* holds the lock, unless that window was closed while it started; and a   *)
(* window that has given up does not keep the others out.                  *)
THEOREM OneWindowAlways == Spec => []OneWindow
<1>1. OwnerInv => OneWindow
  BY DEF OwnerInv
<1>. QED  BY <1>1, OwnerAlways, PTL

(* Two windows that are open do not both have a service that nobody told   *)
(* to exit: the second window fails, or waits until the first has stopped. *)
OneActiveWindow ==
    \A r, s \in OfWindows :
        window[service[r].owner].close = "no" /\ window[service[s].owner].close = "no" => r = s

THEOREM OneActive == Spec => []OneActiveWindow
<1>1. OwnerInv => OneActiveWindow
  BY DEF OwnerInv, OneWindow, OneActiveWindow
<1>. QED  BY <1>1, OwnerAlways, PTL
=============================================================================
