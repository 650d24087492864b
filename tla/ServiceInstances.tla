--------------------------- MODULE ServiceInstances --------------------------
(***************************************************************************)
(* Who runs the connector on one computer: native windows, each with an    *)
(* embedded service (embedded_service.py) behind the instance lock         *)
(* (single_instance.py), and command-line launchers (cli.py gui), which    *)
(* take no lock.  Both look for a port first (port_manager.py) and bind it *)
(* later, in the service's thread, when its worker is already running.     *)
(*                                                                         *)
(* A service is one uvicorn server.  Told to exit it closes its socket,    *)
(* and ends when the responses it is sending have ended: an event stream   *)
(* ends when its consumer goes away.                                       *)
(***************************************************************************)
EXTENDS Naturals, FiniteSets

CONSTANTS
    Windows,      \* processes of the native application
    Launchers,    \* processes of the command line
    Services,     \* bound: the services that are ever started
    Nobody,       \* not a process and not a service
    Top,          \* bound: the ports that are probed are 1..Top
    Others        \* bound: the ports that other programs may use

ASSUME InstanceConstants ==
    /\ Windows \cap Launchers = {}
    /\ Nobody \notin Windows \cup Launchers \cup Services
    /\ Top \in Nat \ {0}
    /\ Others \subseteq 1..Top

VARIABLES
    lock,       \* the window that holds native-instance.lock
    window,     \* each native application
    launcher,   \* each command line
    service,    \* each service
    streams,    \* services that are sending an event stream
    taken       \* ports that other programs use

vars == <<lock, window, launcher, service, streams, taken>>

Ports == 1..Top
(* pc: where start(), stop() or restart() is in its background thread;     *)
(* then: what follows stop(); close: how far close() is in the UI thread.  *)
Closed == [pc |-> "closed", port |-> 1, service |-> Nobody, then |-> "failed", close |-> "no"]
Idle == [pc |-> "idle", port |-> 1]
Unused == [owner |-> Nobody, port |-> 1, phase |-> "unused", exit |-> FALSE]

Init ==
    /\ lock = Nobody
    /\ window = [w \in Windows |-> Closed]
    /\ launcher = [l \in Launchers |-> Idle]
    /\ service = [s \in Services |-> Unused]
    /\ streams = {}
    /\ taken = {}

TypeOK ==
    /\ lock \in Windows \cup {Nobody}
    /\ window \in [Windows ->
          [pc : {"closed", "lock", "probe", "await", "owned", "stop", "failed"},
           port : Ports, service : Services \cup {Nobody},
           then : {"lock", "failed"}, close : {"no", "begun", "ended"}]]
    /\ launcher \in [Launchers -> [pc : {"idle", "probe", "run"}, port : Ports]]
    /\ service \in [Services ->
          [owner : Windows \cup Launchers \cup {Nobody}, port : Ports,
           phase : {"unused", "starting", "serving", "draining", "dead"}, exit : BOOLEAN]]
    /\ streams \subseteq Services
    /\ taken \subseteq Ports
-----------------------------------------------------------------------------
Bound(p) == \E s \in Services : service[s].phase = "serving" /\ service[s].port = p
IsRunningBridge(p) == Bound(p)
PortIsAvailable(p) == ~Bound(p) /\ p \notin taken

(* Mutant: the range is one too long.                                      *)
IsLast_OneMore(p) == p > Top

(* range(port, port + 20) has no further port.                             *)
IsLast(p) == p = Top

Started(s, owner, p) ==
    /\ service[s].phase = "unused"
    /\ service' = [service EXCEPT ![s] =
                     [owner |-> owner, port |-> p, phase |-> "starting", exit |-> FALSE]]

(* The bound: everyone who has begun to start a service finds an unused one. *)
Spare ==
    Cardinality({s \in Services : service[s].phase = "unused"}) >
        Cardinality({w \in Windows : \/ window[w].pc \in {"lock", "probe"}
                                     \/ window[w].pc = "stop" /\ window[w].then = "lock"})
        + Cardinality({l \in Launchers : launcher[l].pc = "probe"})

(* The services of a process end with it, and with them what they send.    *)
Ended(owner) ==
    /\ service' = [s \in Services |->
          IF service[s].owner = owner THEN [service[s] EXCEPT !.phase = "dead"] ELSE service[s]]
    /\ streams' = {s \in streams : service[s].owner # owner}

Goto(w, pc) == window' = [window EXCEPT ![w].pc = pc]

(* The application is opened; the settings name some port.                 *)
OpenWindow(w) ==
    /\ window[w].pc = "closed"
    /\ Spare
    /\ \E p \in Ports : window' = [window EXCEPT ![w].pc = "lock", ![w].port = p]
    /\ UNCHANGED <<lock, launcher, service, streams, taken>>

(* start(): without the lock, an error.                                    *)
Acquire(w) ==
    /\ window[w].pc = "lock"
    /\ \/ /\ lock \in {Nobody, w}
          /\ lock' = w
          /\ Goto(w, "probe")
       \/ /\ lock \notin {Nobody, w}
          /\ Goto(w, "failed")
          /\ UNCHANGED lock
    /\ UNCHANGED <<launcher, service, streams, taken>>

Told(w) ==
    IF window[w].service = Nobody THEN service
    ELSE [service EXCEPT ![window[w].service].exit = TRUE]

(* Mutant: an exception of start() leaves the lock to the process.         *)
StartFails_KeepsLock(w) ==
    /\ Goto(w, "failed")
    /\ UNCHANGED <<lock, service>>

(* start() raises after it has called stop().                              *)
StartFails(w) ==
    /\ window' = [window EXCEPT ![w].pc = "stop", ![w].then = "failed"]
    /\ service' = Told(w)
    /\ UNCHANGED lock

(* One port of select_connector_port; a free one starts the service.       *)
Probe(w) ==
    LET p == window[w].port IN
    /\ window[w].pc = "probe"
    /\ \/ /\ IsRunningBridge(p)
          /\ StartFails(w)
       \/ /\ PortIsAvailable(p)
          /\ \E s \in Services :
                /\ Started(s, w, p)
                /\ window' = [window EXCEPT ![w].pc = "await", ![w].service = s]
          /\ UNCHANGED lock
       \/ /\ ~IsRunningBridge(p) /\ ~PortIsAvailable(p) /\ ~IsLast(p)
          /\ window' = [window EXCEPT ![w].port = p + 1]
          /\ UNCHANGED <<lock, service>>
       \/ /\ ~IsRunningBridge(p) /\ ~PortIsAvailable(p) /\ IsLast(p)
          /\ StartFails(w)
    /\ UNCHANGED <<launcher, streams, taken>>

(* Until something answers at the port, the thread is dead, or time is up. *)
Await(w) ==
    /\ window[w].pc = "await"
    /\ \/ /\ IsRunningBridge(window[w].port)
          /\ Goto(w, "owned")
          /\ UNCHANGED <<lock, service>>
       \/ ~IsRunningBridge(window[w].port) /\ StartFails(w)
    /\ UNCHANGED <<launcher, streams, taken>>

(* The user saves another port: restart() begins with stop().              *)
Restart(w) ==
    /\ window[w].pc = "owned"
    /\ window[w].close = "no"
    /\ Spare
    /\ service' = Told(w)
    /\ \E p \in Ports \ {window[w].port} :
          window' = [window EXCEPT ![w].pc = "stop", ![w].then = "lock", ![w].port = p]
    /\ UNCHANGED <<lock, launcher, streams, taken>>

Released(w) == lock' = IF lock = w THEN Nobody ELSE lock

(* Mutant: the thread is joined without a timeout.                         *)
EndStop_Joins(w) ==
    /\ window[w].pc = "stop"
    /\ window[w].service # Nobody => service[window[w].service].phase = "dead"
    /\ window' = [window EXCEPT ![w].pc = window[w].then, ![w].service = Nobody]
    /\ Released(w)
    /\ UNCHANGED <<launcher, service, streams, taken>>

(* The thread has ended, or ten seconds are over; the lock is released.    *)
EndStop(w) ==
    /\ window[w].pc = "stop"
    /\ window' = [window EXCEPT ![w].pc = window[w].then, ![w].service = Nobody]
    /\ Released(w)
    /\ UNCHANGED <<launcher, service, streams, taken>>

(* The user closes the window: stop() runs in the UI thread, whatever the  *)
(* background thread is doing.                                             *)
BeginClose(w) ==
    /\ window[w].pc # "closed"
    /\ window[w].close = "no"
    /\ window' = [window EXCEPT ![w].close = "begun"]
    /\ service' = Told(w)
    /\ UNCHANGED <<lock, launcher, streams, taken>>

EndClose(w) ==
    /\ window[w].close = "begun"
    /\ window' = [window EXCEPT ![w].close = "ended", ![w].service = Nobody]
    /\ Released(w)
    /\ UNCHANGED <<launcher, service, streams, taken>>

Gone(w) ==
    /\ window' = [window EXCEPT ![w] = Closed]
    /\ Released(w)
    /\ Ended(w)
    /\ UNCHANGED <<launcher, taken>>

(* Mutant: the service's thread is not a daemon, and is waited for.        *)
ProcessEnds_Joins(w) ==
    /\ window[w].close = "ended"
    /\ window[w].pc \in {"owned", "failed"}
    /\ \A s \in Services : service[s].owner = w => service[s].phase = "dead"
    /\ Gone(w)

(* A closed window's process ends when its background thread has finished. *)
ProcessEnds(w) ==
    /\ window[w].close = "ended"
    /\ window[w].pc \in {"owned", "failed"}
    /\ Gone(w)

(* The process of a window is killed; the lock goes with its file handle.  *)
Crash(w) == window[w].pc # "closed" /\ Gone(w)

(* matelab-bridge gui: the same search; a running connector is enough.     *)
Launch(l) ==
    /\ launcher[l].pc = "idle"
    /\ Spare
    /\ launcher' = [launcher EXCEPT ![l].pc = "probe"]
    /\ UNCHANGED <<lock, window, service, streams, taken>>

LauncherProbe(l) ==
    LET p == launcher[l].port IN
    /\ launcher[l].pc = "probe"
    /\ \/ /\ PortIsAvailable(p)
          /\ \E s \in Services : Started(s, l, p)
          /\ launcher' = [launcher EXCEPT ![l].pc = "run"]
       \/ /\ ~PortIsAvailable(p)
          /\ launcher' = IF IsRunningBridge(p) \/ IsLast(p)
                         THEN [launcher EXCEPT ![l] = Idle]
                         ELSE [launcher EXCEPT ![l].port = p + 1]
          /\ UNCHANGED service
    /\ UNCHANGED <<lock, window, streams, taken>>

LauncherEnds(l) ==
    /\ launcher[l].pc = "run"
    /\ launcher' = [launcher EXCEPT ![l] = Idle]
    /\ Ended(l)
    /\ UNCHANGED <<lock, window, taken>>

(* uvicorn, after the lifespan's start-up: the port is bound or it ends.   *)
Bind(s) ==
    /\ service[s].phase = "starting"
    /\ service' = [service EXCEPT ![s].phase =
                     IF PortIsAvailable(service[s].port) THEN "serving" ELSE "dead"]
    /\ UNCHANGED <<lock, window, launcher, streams, taken>>

Shut(s) ==
    /\ service[s].exit
    /\ \/ service[s].phase = "serving" /\ service' = [service EXCEPT ![s].phase = "draining"]
       \/ /\ service[s].phase = "draining" /\ s \notin streams
          /\ service' = [service EXCEPT ![s].phase = "dead"]
    /\ UNCHANGED <<lock, window, launcher, streams, taken>>

(* A consumer of GET /v1/events/stream comes or goes.                      *)
Stream(s) ==
    /\ \/ service[s].phase = "serving" /\ streams' = streams \cup {s}
       \/ streams' = streams \ {s}
    /\ UNCHANGED <<lock, window, launcher, service, taken>>

(* Another program takes a port or gives it back.                          *)
OtherProgram(p) ==
    /\ ~Bound(p)
    /\ taken' = IF p \in taken THEN taken \ {p} ELSE taken \cup {p}
    /\ UNCHANGED <<lock, window, launcher, service, streams>>

WindowStep(w) == Acquire(w) \/ Probe(w) \/ Await(w) \/ EndStop(w)

Next ==
    \/ \E w \in Windows :
          \/ OpenWindow(w) \/ WindowStep(w) \/ Restart(w)
          \/ BeginClose(w) \/ EndClose(w) \/ ProcessEnds(w)
          \/ Crash(w)
    \/ \E l \in Launchers : Launch(l) \/ LauncherProbe(l) \/ LauncherEnds(l)
    \/ \E s \in Services : Bind(s) \/ Shut(s) \/ Stream(s)
    \/ \E p \in Others : OtherProgram(p)

Spec == Init /\ [][Next]_vars

(* start() and stop() wait with time limits only.  A process whose window  *)
(* is closed waits for its background threads, whose calls have time       *)
(* limits, and not for the service's thread, which is a daemon.            *)
FairSpec ==
    /\ Spec
    /\ \A w \in Windows :
          WF_vars(WindowStep(w)) /\ WF_vars(EndClose(w)) /\ WF_vars(ProcessEnds(w))
-----------------------------------------------------------------------------
Unstopped ==
    {s \in Services : ~service[s].exit /\ service[s].phase \in {"starting", "serving"}}
OfWindows == {s \in Unstopped : service[s].owner \in Windows}

(* Of the windows, one at a time owns the data directory: a window's       *)
(* service that nobody told to exit is that of the window that holds the   *)
(* lock, unless the window was closed while it started (see CloseEnds);    *)
(* and a window that has given up or failed does not keep the others out.  *)
(* The services of launchers, which take no lock, are not meant.           *)
OneWindow ==
    /\ \A s \in OfWindows : LET w == service[s].owner IN
          window[w].close = "no" => lock = w /\ window[w].service = s
    /\ \A w \in Windows :
          lock = w => window[w].pc \in {"probe", "await", "owned", "stop"}

(* What docs/operations.md says of the lock: the native application holds  *)
(* it to avoid two writers of the same database.  Neither a launcher's     *)
(* service nor that of a window closed while it started is behind it.      *)
LockCoversService == \A s \in Unstopped : lock = service[s].owner

(* A window that is closed - while it starts or restarts as well, when a   *)
(* service may come up that nobody will tell to exit - ends: neither the   *)
(* lock nor a service is left behind, whatever streams its consumers hold. *)
CloseEnds ==
    \A w \in Windows :
        window[w].close # "no" ~>
            /\ window[w].pc = "closed" /\ lock # w
            /\ \A s \in Services : service[s].owner = w => service[s].phase = "dead"

(* Whatever a consumer's stream or another program holds, a start or a     *)
(* restart ends: with a service, or with an error.                         *)
StartsEnd ==
    \A w \in Windows :
        window[w].pc \in {"lock", "probe", "await", "stop"}
            ~> window[w].pc \in {"owned", "failed", "closed"}

(* What docs/operations.md says of a second launch: a window is not        *)
(* attached to another process's API.                                      *)
AnswersItself ==
    \A w \in Windows :
        window[w].pc = "owned" /\ window[w].close = "no" => service[window[w].service].phase = "serving"
=============================================================================
