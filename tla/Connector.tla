----------------------------- MODULE Connector ------------------------------
(***************************************************************************)
(* The whole connector process: the HTTP gateway's capture endpoints, the  *)
(* background sync worker, restarts, and the MatElab server it talks to;   *)
(* and the reconcile command, which is a process beside it.                *)
(*                                                                         *)
(* The commit, retry and login endpoints run in threads of their own.  The *)
(* state they read and the UPDATE they make on its strength are two        *)
(* statements, so an API thread is idle or about to write.                 *)
(***************************************************************************)
EXTENDS Reconciliation

CONSTANTS
    Threads,       \* API threads that may serve a request at the same time
    Requests,      \* which of commit, retry and resume clients send
    MaxPuts,       \* bound: artifact uploads of one artifact at the same time
    MaxReadied,    \* bound: times a capture is put in ready before no more
                   \*   retries, logins or restarts are considered
    MaxRestarts    \* bound: crashes and service restarts

ASSUME RequestKinds == Requests \subseteq {"commit", "retry", "resume"}

VARIABLES
    thread,     \* what each API thread is about to write, and for which rows
    puts,       \* artifact uploads whose body is still being received
    starting,   \* <<w, S>>: a restarted service, with worker w, has read that
                \*   the captures S are in flight
    restarts    \* restarts so far

apiVars == <<thread, puts, starting, restarts>>
vars == <<storeVars, serverVars, workerVars, apiVars, scan>>

IdleThread == [op |-> "none", rows |-> {}]
NoPuts == [c \in Captures |-> [a \in Artifacts |-> 0]]

Init ==
    /\ StoreInit
    /\ ServerInit
    /\ EngineInit
    /\ ScanInit
    /\ thread = [t \in Threads |-> IdleThread]
    /\ puts = NoPuts
    /\ starting = {}
    /\ restarts = 0

TypeOK ==
    /\ StoreTypeOK
    /\ ServerTypeOK
    /\ EngineTypeOK
    /\ ScanTypeOK
    /\ thread \in [Threads -> [op : {"none", "commit", "retry", "resume"},
                               rows : SUBSET Captures]]
    /\ puts \in [Captures -> [Artifacts -> Nat]]
    /\ starting \subseteq Workers \X SUBSET Captures
    /\ restarts \in Nat
-----------------------------------------------------------------------------
(* POST /v1/captures                                                       *)
CreateCapture(c) ==
    /\ InsertCapture(c)
    /\ UNCHANGED <<serverVars, workerVars, apiVars, scan>>

(* PUT of an artifact: the capture's state is checked before the body is   *)
(* read; an artifact that was already received is not read again.          *)
BeginPut(c, a) ==
    /\ state[c] = "receiving"
    /\ a \in Streamed
    /\ art[c][a] = "declared"
    /\ puts[c][a] < MaxPuts
    /\ puts' = [puts EXCEPT ![c][a] = @ + 1]
    /\ UNCHANGED <<thread, starting, restarts, storeVars, serverVars, workerVars, scan>>

(* The body is complete and has the declared size and hash, or it has not  *)
(* and nothing is recorded.                                                *)
FinishPut(c, a) ==
    /\ puts[c][a] > 0
    /\ puts' = [puts EXCEPT ![c][a] = @ - 1]
    /\ MarkReceived(c, a) \/ UNCHANGED storeVars
    /\ UNCHANGED <<thread, starting, restarts, serverVars, workerVars, scan>>

Accept(t, op, S) ==
    /\ op \in Requests
    /\ thread[t] = IdleThread
    /\ thread' = [thread EXCEPT ![t] = [op |-> op, rows |-> S]]
    /\ UNCHANGED <<puts, starting, restarts, storeVars, serverVars, workerVars, scan>>

(* Mutant: the commit does not look for missing artifacts.                 *)
ReadCommit_Unchecked(t, c) ==
    /\ state[c] = "receiving"
    /\ Accept(t, "commit", {c})

(* commit_capture up to its first UPDATE.                                  *)
ReadCommit(t, c) ==
    /\ state[c] = "receiving"
    /\ Missing(c) = {}
    /\ Accept(t, "commit", {c})

(* retry_capture up to its UPDATE; other states are left alone.            *)
ReadRetry(t, c) ==
    /\ state[c] \in SetbackStates
    /\ readied[c] < MaxReadied
    /\ Accept(t, "retry", {c})

(* A successful login resumes the captures paused for it.                  *)
ReadResume(t) ==
    LET paused == {c \in Captures : state[c] = "auth_required"} IN
    /\ paused # {}
    /\ \A c \in paused : readied[c] < MaxReadied
    /\ Accept(t, "resume", paused)

FinishThread(t) ==
    /\ thread' = [thread EXCEPT ![t] = IdleThread]
    /\ UNCHANGED <<puts, starting, restarts, serverVars, workerVars, scan>>

WriteCommit(t) ==
    /\ thread[t].op = "commit"
    /\ WriteReady(thread[t].rows)
    /\ UNCHANGED due
    /\ FinishThread(t)

WriteRetry(t) ==
    /\ thread[t].op = "retry"
    /\ WriteReadyNow(thread[t].rows)
    /\ FinishThread(t)

(* Only the first row is checked before the transaction holds the write    *)
(* lock.  The others are checked under it, and one that may no longer go   *)
(* to ready rolls the whole login's resumption back.                       *)
WriteResume(t) ==
    LET paused == thread[t].rows
        others == {c \in paused : \E d \in paused : Older(d, c)} IN
    /\ thread[t].op = "resume"
    /\ IF \A c \in others : Legal(c, "ready")
         THEN WriteReadyNow(paused)
         ELSE UNCHANGED storeVars
    /\ FinishThread(t)
-----------------------------------------------------------------------------
(* recover_inflight, which every start of the application runs first: the  *)
(* captures that it finds in flight are put in ready, in one transaction   *)
(* that does not look at the states they have by then.                     *)
Inflight == {c \in Captures : state[c] \in InflightStates}

(* Mutant: only interrupted uploads are recovered.                         *)
Recover_UploadsOnly(S) == WriteReady({c \in S : state[c] = "uploading_files"}) /\ UNCHANGED due

Recover(S) == WriteReady(S) /\ UNCHANGED due

MayRestart ==
    /\ restarts < MaxRestarts
    /\ \A c \in Inflight : readied[c] < MaxReadied
    /\ restarts' = restarts + 1

(* The process dies and a new one starts: everything in memory is gone.    *)
Crash ==
    /\ MayRestart
    /\ Recover(Inflight)
    /\ \E w \in Workers : running' = {w}
    /\ pc' = [w \in Workers |-> "idle"]
    /\ job' = [w \in Workers |-> NoCapture]
    /\ checked' = [w \in Workers |-> FALSE]
    /\ rows' = [w \in Workers |-> NoRows]
    /\ found' = [w \in Workers |-> 0]
    /\ exported' = [w \in Workers |-> NoExport]
    /\ elnId' = [w \in Workers |-> FALSE]
    /\ thread' = [t \in Threads |-> IdleThread]
    /\ puts' = NoPuts
    /\ starting' = {}
    /\ UNCHANGED <<snapshots, faults, serverVars, scan>>

(* The desktop restarts its embedded service.  stop() waits ten seconds    *)
(* for the old one, whose worker may be in a remote call for longer: it    *)
(* goes on with its capture while the new service reads what is in flight  *)
(* and recovers it ...                                                     *)
ServiceRestart(w) ==
    /\ starting = {}
    /\ w \notin running
    /\ pc[w] = "idle"
    /\ MayRestart
    /\ starting' = {<<w, Inflight>>}
    /\ UNCHANGED <<thread, puts, storeVars, serverVars, workerVars, scan>>

(* ... and then starts its own worker.  The old one claims further         *)
(* captures as long as an open event stream keeps its server from shutting *)
(* down.  The worker command of cli.py, started beside the service, comes  *)
(* to the same: it recovers what is in flight and claims beside it.        *)
ServiceStarted(w, S) ==
    /\ <<w, S>> \in starting
    /\ Recover(S)
    /\ starting' = {}
    /\ running' \in {{w}, running \cup {w}}
    /\ UNCHANGED <<pc, job, checked, rows, found, exported, elnId, snapshots, faults>>
    /\ UNCHANGED <<thread, puts, restarts, serverVars, scan>>

(* A scheduled retry comes due.                                            *)
BackoffElapses(c) ==
    /\ state[c] = "retry_wait"
    /\ ~due[c]
    /\ due' = [due EXCEPT ![c] = TRUE]
    /\ UNCHANGED <<state, attempt, created, art, mappings, events, orphans, readied>>
    /\ UNCHANGED <<serverVars, workerVars, apiVars, scan>>

ServerStep(c) ==
    /\ LateArrival(c, c \notin Manual) \/ Edit(c) \/ Delete(c)
    /\ UNCHANGED <<storeVars, workerVars, apiVars, scan>>

Worker(w) == WorkerStep(w) /\ UNCHANGED <<apiVars, scan>>
Reconcile(r) == ReconcileStep(r) /\ UNCHANGED apiVars
ThreadWrite(t) == WriteCommit(t) \/ WriteRetry(t) \/ WriteResume(t)

Next ==
    \/ \E c \in Captures :
          \/ CreateCapture(c)
          \/ BackoffElapses(c)
          \/ ServerStep(c)
          \/ \E a \in Artifacts : BeginPut(c, a) \/ FinishPut(c, a)
          \/ \E t \in Threads : ReadCommit(t, c) \/ ReadRetry(t, c)
    \/ \E t \in Threads : ReadResume(t) \/ ThreadWrite(t)
    \/ \E w \in Workers : Worker(w) \/ ServiceRestart(w)
    \/ \E start \in starting : ServiceStarted(start[1], start[2])
    \/ \E r \in Reconcilers : Reconcile(r)
    \/ Crash

Spec == Init /\ [][Next]_vars

(* The worker loop never stops polling, its remote calls end by timeout,   *)
(* an API thread that has read goes on to write, and clocks advance.       *)
Fairness ==
    /\ \A w \in Workers : WF_vars(Worker(w))
    /\ \A t \in Threads : WF_vars(ThreadWrite(t))
    /\ \A c \in Captures : WF_vars(BackoffElapses(c))

FairSpec == Spec /\ Fairness
-----------------------------------------------------------------------------
(* A capture in an in-flight state is being worked on: claim_next looks at *)
(* ready and retry_wait only, so one that no worker holds would stay there *)
(* until the next restart.                                                 *)
InflightIsOwned ==
    \A c \in Captures : state[c] \in InflightStates => \E w \in Workers : job[w] = c

(* What is announced as synced was verified: the announced version is a    *)
(* saved mapping whose export carried the capture's identity, and every    *)
(* streamed artifact of the capture is on the server.                      *)
PublishedIsVerified ==
    \A i \in DOMAIN events :
        LET c == events[i].capture IN
        /\ events[i].ref \in mappings[c]
        /\ events[i].ref.export.marked
        /\ \A a \in Streamed : <<c, a>> \in files

(* Past the commit, no required artifact is missing - though an upload     *)
(* that began before the commit may still end after it.                    *)
CommittedIsStaged ==
    \A c \in Captures :
        state[c] \notin {"absent", "receiving"} =>
            \A a \in Required \ ManifestOnly : art[c][a] \in {"received", "uploaded"}

(* A worker that goes on to matelab_verified or complete holds an export   *)
(* that is recorded as the mapping of the version it found - although the  *)
(* record may have changed since, and the reconciler or another worker may *)
(* have recorded another export of that version between its SELECT and its *)
(* INSERT: a conflict of exports always sets the capture aside.            *)
VerifiedIsMapped ==
    \A w \in Workers : pc[w] \in {"matelab_verified", "complete"} =>
        [version |-> found[w], export |-> exported[w]] \in mappings[job[w]]

(* What is listed for clean-up is really on the server.                    *)
OrphansExist == orphans \subseteq files

(* Automatic retries are bounded: beyond max_attempts a capture is only    *)
(* attempted again when something other than the schedule readied it.      *)
AttemptsBounded ==
    \A c \in Captures : attempt[c] > 0 => attempt[c] <= MaxAttempts - 1 + readied[c]

(* Mappings and events are never taken back or rewritten.                  *)
HistoryGrows ==
    [][/\ \A c \in Captures : mappings[c] \subseteq mappings'[c]
       /\ Len(events') >= Len(events)
       /\ SubSeq(events', 1, Len(events)) = events]_vars

(* The connector keeps the outbox's promises.                              *)
AcceptedCaptures == {c \in Captures : state[c] \notin {"absent", "receiving"}}
VerifiedCaptures == {c \in Captures : mappings[c] # {}}
SyncedFeed == [i \in DOMAIN events |-> events[i].capture]

Promise == INSTANCE Outbox WITH accepted <- AcceptedCaptures,
                                verified <- VerifiedCaptures,
                                feed <- SyncedFeed
KeepsPromise == Promise!Spec

(* What docs/architecture.md says of a commit: the complete declared       *)
(* package is durable locally.                                             *)
CommitIsDurable ==
    \A c \in Captures : state[c] \notin {"absent", "receiving"} =>
        \A a \in Streamed : art[c][a] \in {"received", "uploaded"}

(* What docs/architecture.md says of exports: the bridge keeps the hash and *)
(* a local snapshot of every verified export.                              *)
SnapshotsKept == \A c \in Captures : mappings[c] \subseteq snapshots[c]

(* What ADR 0001 says of the worker: a single logical synchronizer.        *)
SingleSynchronizer ==
    \A v, w \in Workers : job[v] = job[w] /\ job[v] # NoCapture => v = w

(* What the transition table of storage.py says: nothing leaves complete.  *)
CompleteIsFinal ==
    [][\A c \in Captures : state[c] = "complete" => state'[c] = "complete"]_vars

(* What docs/error-handling.md says of a login: every capture paused for   *)
(* authentication is resumed.                                              *)
LoginResumesAll ==
    [][\A t \in Threads : \A c \in thread[t].rows :
          thread[t].op = "resume" /\ thread'[t].op = "none" /\ restarts' = restarts
             => state'[c] # "auth_required"]_vars

(* Every accepted capture comes to rest: done, or waiting for a person.    *)
Settled == {"complete"} \cup AttentionStates
Settles ==
    \A c \in Captures : state[c] = "ready" ~> state[c] \in Settled

(* When only the network fails, and for less than max_attempts attempts,   *)
(* nobody has to do anything.                                              *)
OutageRecovers ==
    \A c \in Captures : state[c] = "ready" ~> state[c] = "complete"
=============================================================================
