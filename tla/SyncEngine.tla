----------------------------- MODULE SyncEngine -----------------------------
(***************************************************************************)
(* The Saga worker of sync_engine.py over the capture store and the        *)
(* MatElab server: process_once, _synchronize and its exception handlers.  *)
(*                                                                         *)
(* A step is one SQL statement group or one remote call, so that other     *)
(* workers, API threads and a crash may come between any two of them.  The *)
(* pc of a worker that is about to change the capture's state is the state *)
(* it is about to write.                                                   *)
(***************************************************************************)
EXTENDS CaptureStore, MatelabServer, FiniteSets

CONSTANTS
    Workers,               \* worker loops that may exist at the same time
    NoCapture,             \* not a capture: the job of an idle worker
    Manual,                \* the captures whose creation_mode is create_update
    MaxAttempts,           \* config.max_attempts
    NotebookIdConfigured,  \* a stable notebook id is configured for imports
    FaultKinds,            \* what may go wrong with a remote call, of AllFaults
    MaxFaults              \* bound: remote calls that go wrong

AllFaults == {"refused", "lost", "delayed", "auth", "contract"}

ASSUME EngineConstants ==
    /\ NoCapture \notin Captures
    /\ Manual \subseteq Captures
    /\ MaxAttempts \in Nat \ {0}
    /\ NotebookIdConfigured \in BOOLEAN
    /\ FaultKinds \subseteq AllFaults

ASSUME WorkersFinite == IsFiniteSet(Workers)

VARIABLES
    running,    \* workers whose loop goes on to the next capture
    pc,         \* what each worker does next
    job,        \* the capture it claimed
    checked,    \* what it read for its transition or mapping passed the check
    rows,       \* artifact states it read, or "sent" once the server answered
    found,      \* version of the record it found, 0 for none
    exported,   \* the export it received
    elnId,      \* the import reply told it the notebook id
    snapshots,  \* export files on disk: exports/<capture>/v<version>.json
    faults      \* remote calls that went wrong so far

workerVars == <<running, pc, job, checked, rows, found, exported, elnId, snapshots, faults>>

SetbackStates == {"retry_wait"} \cup AttentionStates
TransitionStates == {"creating_record", "populating_record", "verifying_export",
                     "matelab_verified", "complete"}
Steps == TransitionStates \cup SetbackStates
         \cup {"idle", "upload", "find", "create", "import", "refind", "update",
               "export", "snapshot", "mapping"}

NoRows == [a \in Artifacts |-> "manifest_only"]
NoExport == [revision |-> 0, marked |-> FALSE]

EngineInit ==
    /\ \E w \in Workers : running = {w}
    /\ pc = [w \in Workers |-> "idle"]
    /\ job = [w \in Workers |-> NoCapture]
    /\ checked = [w \in Workers |-> FALSE]
    /\ rows = [w \in Workers |-> NoRows]
    /\ found = [w \in Workers |-> 0]
    /\ exported = [w \in Workers |-> NoExport]
    /\ elnId = [w \in Workers |-> FALSE]
    /\ snapshots = [c \in Captures |-> {}]
    /\ faults = 0

EngineTypeOK ==
    /\ running \subseteq Workers
    /\ pc \in [Workers -> Steps]
    /\ job \in [Workers -> Captures \cup {NoCapture}]
    /\ checked \in [Workers -> BOOLEAN]
    /\ rows \in [Workers -> [Artifacts -> ArtifactStates \cup {"sent"}]]
    /\ found \in [Workers -> Nat]
    /\ exported \in [Workers -> Exports]
    /\ elnId \in [Workers -> BOOLEAN]
    /\ snapshots \in [Captures -> SUBSET Mappings]
    /\ faults \in Nat
-----------------------------------------------------------------------------
Goto(w, step) == pc' = [pc EXCEPT ![w] = step]

(* A step of w that changes none of its locals but its pc.                 *)
KeepLocals ==
    UNCHANGED <<running, job, checked, rows, found, exported, elnId, snapshots, faults>>

(* The exception handlers of process_once choose the state to fall back    *)
(* to; handler and read of the attempt count directly follow the raise.    *)
RaiseAuth(w) == Goto(w, "auth_required") /\ UNCHANGED storeVars
(* Mutant: off by one at the last attempt.                                 *)
RaiseRetryable_OneMore(w) ==
    /\ Goto(w, IF attempt[job[w]] > MaxAttempts THEN "needs_attention" ELSE "retry_wait")
    /\ UNCHANGED storeVars

RaiseRetryable(w) ==
    /\ Goto(w, IF attempt[job[w]] >= MaxAttempts THEN "needs_attention" ELSE "retry_wait")
    /\ UNCHANGED storeVars
RaiseDefect(w) == Goto(w, "needs_attention") /\ AddOrphans(job[w])

(* A remote call of w that does not return a good reply.  Applied is the   *)
(* server's step, for the faults that come after it: a reply that is lost, *)
(* and one that is not what the API documents - not JSON, or broken off -, *)
(* which is a defect and not repeated.                                     *)
CallFails(w, Applied) ==
    /\ faults < MaxFaults
    /\ faults' = faults + 1
    /\ \/ "auth" \in FaultKinds /\ RaiseAuth(w) /\ UNCHANGED serverVars
       \/ "contract" \in FaultKinds /\ RaiseDefect(w) /\ (Applied \/ UNCHANGED serverVars)
       \/ "refused" \in FaultKinds /\ RaiseRetryable(w) /\ UNCHANGED serverVars
       \/ "lost" \in FaultKinds /\ RaiseRetryable(w) /\ Applied
    /\ UNCHANGED <<running, job, checked, rows, found, exported, elnId, snapshots>>

(* Import and create may also reach the server after the client gave up.   *)
CallDelayed(w) ==
    /\ "delayed" \in FaultKinds
    /\ faults < MaxFaults
    /\ faults' = faults + 1
    /\ RaiseRetryable(w)
    /\ Delay(job[w])
    /\ UNCHANGED <<running, job, checked, rows, found, exported, elnId, snapshots>>
-----------------------------------------------------------------------------
(* process_once claims a capture; _synchronize reads its artifact rows.    *)
Claim(w) ==
    /\ w \in running
    /\ pc[w] = "idle"
    /\ \E c \in Captures :
          /\ WriteClaim(c)
          /\ job' = [job EXCEPT ![w] = c]
          /\ rows' = [rows EXCEPT ![w] = art[c]]
    /\ Goto(w, "upload")
    /\ UNCHANGED <<running, checked, found, exported, elnId, snapshots, faults>>
    /\ UNCHANGED serverVars

(* Mutant: only the required artifacts are synchronized.                   *)
Pending_Required(w) == {a \in Required \ ManifestOnly : rows[w][a] # "uploaded"}

(* Rows left to handle: neither manifest_only nor uploaded when read.      *)
Pending(w) == {a \in Streamed : rows[w][a] # "uploaded"}

(* A committed capture may lack an optional artifact: contract error.      *)
ArtifactUnavailable(w) ==
    /\ pc[w] = "upload"
    /\ \E a \in Pending(w) : rows[w][a] \notin {"received", "sent"}
    /\ RaiseDefect(w)
    /\ KeepLocals
    /\ UNCHANGED serverVars

UploadFile(w) ==
    /\ pc[w] = "upload"
    /\ \A a \in Artifacts : rows[w][a] # "sent"
    /\ \E a \in Pending(w) :
          /\ rows[w][a] = "received"
          /\ \/ /\ StoreFile(job[w], a)
                /\ rows' = [rows EXCEPT ![w][a] = "sent"]
                /\ UNCHANGED <<pc, running, job, checked, found, exported, elnId,
                               snapshots, faults>>
                /\ UNCHANGED storeVars
             \/ CallFails(w, StoreFile(job[w], a))

(* The upload receipt becomes durable in a transaction of its own.         *)
RecordReceipt(w) ==
    /\ pc[w] = "upload"
    /\ \E a \in Artifacts :
          /\ rows[w][a] = "sent"
          /\ MarkUploaded(job[w], a)
          /\ rows' = [rows EXCEPT ![w][a] = "uploaded"]
    /\ UNCHANGED <<pc, running, job, checked, found, exported, elnId, snapshots, faults>>
    /\ UNCHANGED serverVars

UploadsDone(w) ==
    /\ pc[w] = "upload"
    /\ Pending(w) = {}
    /\ Goto(w, "creating_record")
    /\ KeepLocals
    /\ UNCHANGED <<storeVars, serverVars>>
-----------------------------------------------------------------------------
(* Mutant: the record is created without looking for it first.             *)
FindRecord_Blind(w) ==
    /\ pc[w] = "find"
    /\ Goto(w, IF job[w] \in Manual THEN "create" ELSE "import")
    /\ KeepLocals
    /\ UNCHANGED <<storeVars, serverVars>>

(* _find_record before anything is created; the reply decides the branch.  *)
FindRecord(w) ==
    /\ pc[w] = "find"
    /\ \/ /\ found' = [found EXCEPT ![w] = record[job[w]].version]
          /\ Goto(w, IF Stored(job[w])
                     THEN IF job[w] \in Manual THEN "update" ELSE "populating_record"
                     ELSE IF job[w] \in Manual THEN "create" ELSE "import")
          /\ UNCHANGED <<running, job, checked, rows, exported, elnId, snapshots, faults>>
          /\ UNCHANGED <<storeVars, serverVars>>
       \/ CallFails(w, UNCHANGED serverVars)

(* create_record for a manual submission, import_record for the others; a  *)
(* uid that exists by now is refused.                                      *)
MakeRecord(w) ==
    /\ pc[w] \in {"create", "import"}
    /\ \/ /\ StoreRecord(job[w], pc[w] = "import")
          /\ \E told \in BOOLEAN : elnId' = [elnId EXCEPT ![w] = told /\ pc[w] = "import"]
          /\ Goto(w, "refind")
          /\ UNCHANGED <<running, job, checked, rows, found, exported, snapshots, faults>>
          /\ UNCHANGED storeVars
       \/ Stored(job[w]) /\ RaiseDefect(w) /\ KeepLocals /\ UNCHANGED serverVars
       \/ CallFails(w, StoreRecord(job[w], pc[w] = "import"))
       \/ CallDelayed(w)

(* The second _find_record.  A manual record must be there; an imported    *)
(* one that is not listed is taken to be version 1.                        *)
RefindRecord(w) ==
    /\ pc[w] = "refind"
    /\ \/ /\ job[w] \in Manual => Stored(job[w])
          /\ found' = [found EXCEPT ![w] =
                         IF Stored(job[w]) THEN record[job[w]].version ELSE 1]
          /\ Goto(w, IF job[w] \in Manual THEN "update" ELSE "populating_record")
          /\ UNCHANGED <<running, job, checked, rows, exported, elnId, snapshots, faults>>
          /\ UNCHANGED <<storeVars, serverVars>>
       \/ /\ job[w] \in Manual /\ ~Stored(job[w])
          /\ RaiseDefect(w) /\ KeepLocals /\ UNCHANGED serverVars
       \/ CallFails(w, UNCHANGED serverVars)

UpdateRecord(w) ==
    /\ pc[w] = "update"
    /\ \/ AddModule(job[w]) /\ Goto(w, "populating_record") /\ KeepLocals /\ UNCHANGED storeVars
       \/ ~Stored(job[w]) /\ RaiseDefect(w) /\ KeepLocals /\ UNCHANGED serverVars
       \/ CallFails(w, AddModule(job[w]))

(* export_record and the check that the export carries the identity.       *)
ExportRecord(w) ==
    /\ pc[w] = "export"
    /\ \/ /\ Stored(job[w]) /\ record[job[w]].marked
          /\ exported' = [exported EXCEPT ![w] =
                            [revision |-> record[job[w]].revision, marked |-> TRUE]]
          /\ Goto(w, "snapshot")
          /\ UNCHANGED <<running, job, checked, rows, found, elnId, snapshots, faults>>
          /\ UNCHANGED <<storeVars, serverVars>>
       \/ /\ ~Stored(job[w]) \/ ~record[job[w]].marked
          /\ RaiseDefect(w) /\ KeepLocals /\ UNCHANGED serverVars
       \/ CallFails(w, UNCHANGED serverVars)

(* _write_export replaces v<version>.json; only then is the notebook id    *)
(* looked for.                                                             *)
NotebookIdKnown(w) == job[w] \in Manual \/ elnId[w] \/ NotebookIdConfigured

WriteExport(w) ==
    /\ pc[w] = "snapshot"
    /\ snapshots' = [snapshots EXCEPT ![job[w]] =
                       {m \in @ : m.version # found[w]}
                       \cup {[version |-> found[w], export |-> exported[w]]}]
    /\ IF NotebookIdKnown(w)
         THEN Goto(w, "mapping") /\ UNCHANGED storeVars
         ELSE RaiseDefect(w)
    /\ UNCHANGED <<running, job, checked, rows, found, exported, elnId, faults>>
    /\ UNCHANGED serverVars

(* save_mapping looks for the row of the version: one with the same export *)
(* will do, one with another is a conflict ...                             *)
FindMapping(w) ==
    LET known == SameVersion(job[w], found[w]) IN
    /\ pc[w] = "mapping"
    /\ ~checked[w]
    /\ \/ known = {} /\ checked' = [checked EXCEPT ![w] = TRUE] /\ UNCHANGED <<pc, storeVars>>
       \/ /\ known # {} /\ \A m \in known : m.export = exported[w]
          /\ Goto(w, "matelab_verified") /\ UNCHANGED <<checked, storeVars>>
       \/ (\E m \in known : m.export # exported[w]) /\ RaiseDefect(w) /\ UNCHANGED checked
    /\ UNCHANGED <<running, job, rows, found, exported, elnId, snapshots, faults>>
    /\ UNCHANGED serverVars

(* Mutant: INSERT OR IGNORE, so that a lost race passes for a success.     *)
SaveMapping_Ignores(w) ==
    /\ pc[w] = "mapping"
    /\ checked[w]
    /\ \/ InsertMapping(job[w], found[w], exported[w])
       \/ SameVersion(job[w], found[w]) # {} /\ UNCHANGED storeVars
    /\ Goto(w, "matelab_verified")
    /\ checked' = [checked EXCEPT ![w] = FALSE]
    /\ UNCHANGED <<running, job, rows, found, exported, elnId, snapshots, faults>>
    /\ UNCHANGED serverVars

(* ... and without one inserts its own.  A row that somebody has inserted  *)
(* since violates the primary key, whatever its export is.                 *)
SaveMapping(w) ==
    /\ pc[w] = "mapping"
    /\ checked[w]
    /\ \/ InsertMapping(job[w], found[w], exported[w]) /\ Goto(w, "matelab_verified")
       \/ SameVersion(job[w], found[w]) # {} /\ RaiseDefect(w)
    /\ checked' = [checked EXCEPT ![w] = FALSE]
    /\ UNCHANGED <<running, job, rows, found, exported, elnId, snapshots, faults>>
    /\ UNCHANGED serverVars
-----------------------------------------------------------------------------
(* store.transition reads the state and checks it ...                      *)
CheckTransition(w) ==
    /\ pc[w] \in TransitionStates
    /\ ~checked[w]
    /\ IF Legal(job[w], pc[w])
         THEN /\ checked' = [checked EXCEPT ![w] = TRUE]
              /\ UNCHANGED pc /\ UNCHANGED storeVars
         ELSE RaiseDefect(w) /\ UNCHANGED checked
    /\ UNCHANGED <<running, job, rows, found, exported, elnId, snapshots, faults>>
    /\ UNCHANGED serverVars

(* ... and then writes.                                                    *)
After(to) ==
    CASE to = "creating_record"   -> "find"
      [] to = "populating_record" -> "verifying_export"
      [] to = "verifying_export"  -> "export"
      [] to = "matelab_verified"  -> "complete"

WriteTransition(w) ==
    /\ pc[w] \in TransitionStates \ {"complete"}
    /\ checked[w]
    /\ WriteState(job[w], pc[w])
    /\ checked' = [checked EXCEPT ![w] = FALSE]
    /\ Goto(w, After(pc[w]))
    /\ UNCHANGED <<running, job, rows, found, exported, elnId, snapshots, faults>>
    /\ UNCHANGED serverVars

(* process_once returns: w drops the capture and its local data.           *)
Release(w) ==
    /\ pc' = [pc EXCEPT ![w] = "idle"]
    /\ job' = [job EXCEPT ![w] = NoCapture]
    /\ checked' = [checked EXCEPT ![w] = FALSE]
    /\ rows' = [rows EXCEPT ![w] = NoRows]
    /\ found' = [found EXCEPT ![w] = 0]
    /\ exported' = [exported EXCEPT ![w] = NoExport]
    /\ elnId' = [elnId EXCEPT ![w] = FALSE]
    /\ UNCHANGED <<running, snapshots, faults>>

Complete(w) ==
    /\ pc[w] = "complete"
    /\ checked[w]
    /\ WriteComplete(job[w])     \* there is a mapping: SaveMapping came before
    /\ Release(w)
    /\ UNCHANGED serverVars

(* Mutant: the authentication handler returns without recording anything.  *)
SetBack_ForgetsAuth(w) ==
    /\ pc[w] \in SetbackStates
    /\ IF pc[w] = "auth_required" THEN UNCHANGED storeVars ELSE WriteSetback(job[w], pc[w])
    /\ Release(w)
    /\ UNCHANGED serverVars

(* mark_attention or schedule_retry: allowed from every state.             *)
SetBack(w) ==
    /\ pc[w] \in SetbackStates
    /\ WriteSetback(job[w], pc[w])
    /\ Release(w)
    /\ UNCHANGED serverVars

WorkerStep(w) ==
    \/ Claim(w)
    \/ ArtifactUnavailable(w)
    \/ UploadFile(w)
    \/ RecordReceipt(w)
    \/ UploadsDone(w)
    \/ FindRecord(w)
    \/ MakeRecord(w)
    \/ RefindRecord(w)
    \/ UpdateRecord(w)
    \/ ExportRecord(w)
    \/ WriteExport(w)
    \/ FindMapping(w)
    \/ SaveMapping(w)
    \/ CheckTransition(w)
    \/ WriteTransition(w)
    \/ Complete(w)
    \/ SetBack(w)
=============================================================================
