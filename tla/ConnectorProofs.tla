--------------------------- MODULE ConnectorProofs --------------------------
(***************************************************************************)
(* Type correctness of Connector, who owns a capture in flight, how often  *)
(* a capture is tried; what is verified, announced and listed for clean-up;*)
(* and that the connector implements Outbox: for every set of captures,    *)
(* artifacts, API threads and workers (a finite one where they are counted)*)
(* and every bound, from the assumptions on the modules' constants.        *)
(***************************************************************************)
EXTENDS Connector, FiniteSetTheorems, TLAPS

(* A worker that is doing something has claimed a capture.                 *)
JobOK == \A w \in Workers : pc[w] # "idle" => job[w] \in Captures

(* The mapping that complete announces exists: of finitely many versions   *)
(* one is the highest.                                                     *)
HasLatest == \A c \in Captures : mappings[c] # {} =>
                \E m \in mappings[c] : \A n \in mappings[c] : n.version <= m.version

(* A reconciler past its first step works on a capture.                    *)
ScanOK == \A r \in Reconcilers : scan[r].step # "items" => scan[r].capture \in Captures

TypeInv == TypeOK /\ JobOK /\ HasLatest /\ ScanOK

-----------------------------------------------------------------------------
(* What the exception handlers do: w falls back to a setback state and     *)
(* only the list of orphan candidates may change.                          *)
Raise(w) == RaiseAuth(w) \/ RaiseRetryable(w) \/ RaiseDefect(w)

LEMMA RaiseFrame ==
    ASSUME TypeInv, NEW w \in Workers, pc[w] # "idle", Raise(w)
    PROVE  /\ \E s \in SetbackStates : pc' = [pc EXCEPT ![w] = s]
           /\ orphans' \subseteq Captures \X Artifacts
           /\ UNCHANGED <<state, attempt, due, created, art, mappings, events, readied>>
<1>1. CASE RaiseAuth(w)
  BY <1>1 DEF RaiseAuth, Goto, storeVars, SetbackStates, AttentionStates, TypeInv, TypeOK,
              StoreTypeOK
<1>2. CASE RaiseRetryable(w)
  BY <1>2 DEF RaiseRetryable, Goto, storeVars, SetbackStates, AttentionStates, TypeInv, TypeOK,
              StoreTypeOK
<1>3. CASE RaiseDefect(w)
  <2>1. pc' = [pc EXCEPT ![w] = "needs_attention"]
    BY <1>3 DEF RaiseDefect, Goto
  <2>2. orphans' \subseteq Captures \X Artifacts
    BY <1>3 DEF RaiseDefect, AddOrphans, TypeInv, TypeOK, StoreTypeOK, JobOK
  <2>. QED  BY <1>3, <2>1, <2>2 DEF RaiseDefect, AddOrphans, SetbackStates, AttentionStates
<1>. QED  BY <1>1, <1>2, <1>3 DEF Raise

LEMMA RaiseTyped ==
    ASSUME TypeInv, NEW w \in Workers, pc[w] # "idle", Raise(w)
    PROVE  StoreTypeOK' /\ pc' \in [Workers -> Steps] /\ (UNCHANGED job => JobOK')
<1>1. PICK s \in SetbackStates : pc' = [pc EXCEPT ![w] = s]
  BY RaiseFrame
<1>2. StoreTypeOK'
  BY RaiseFrame DEF TypeInv, TypeOK, StoreTypeOK
<1>3. pc' \in [Workers -> Steps]
  BY <1>1 DEF TypeInv, TypeOK, EngineTypeOK, Steps, SetbackStates
<1>4. ASSUME UNCHANGED job PROVE JobOK'
  BY <1>1, <1>4 DEF TypeInv, TypeOK, EngineTypeOK, JobOK
<1>. QED  BY <1>2, <1>3, <1>4

(* Every remote call that goes wrong raises, and leaves the server as it   *)
(* was or as the call would have left it.                                  *)
LEMMA CallFailsFrame ==
    ASSUME NEW w \in Workers, NEW ACTION A, CallFails(w, A)
    PROVE  /\ Raise(w)
           /\ UNCHANGED serverVars \/ A
           /\ faults' = faults + 1
           /\ UNCHANGED <<running, job, checked, rows, found, exported, elnId, snapshots>>
BY DEF CallFails, Raise

LEMMA ServerUnchanged == ASSUME TypeInv, UNCHANGED serverVars PROVE ServerTypeOK'
BY DEF TypeInv, TypeOK, ServerTypeOK, serverVars

LEMMA StoreUnchanged == ASSUME TypeInv, UNCHANGED storeVars PROVE StoreTypeOK'
BY DEF TypeInv, TypeOK, StoreTypeOK, storeVars

(* The engine's variables when w raises without another change that        *)
(* matters here.                                                           *)
LEMMA RaiseEngineTyped ==
    ASSUME TypeInv, NEW w \in Workers, pc[w] # "idle", Raise(w),
           UNCHANGED <<running, job, rows, found, exported, elnId>>,
           checked' \in [Workers -> BOOLEAN],
           snapshots' \in [Captures -> SUBSET Mappings], faults' \in Nat
    PROVE  StoreTypeOK' /\ EngineTypeOK' /\ JobOK'
<1>1. StoreTypeOK' /\ pc' \in [Workers -> Steps] /\ JobOK'
  BY RaiseTyped
<1>2. EngineTypeOK'
  BY <1>1 DEF TypeInv, TypeOK, EngineTypeOK
<1>. QED  BY <1>1, <1>2

LEMMA CallFailsTyped ==
    ASSUME TypeInv, NEW w \in Workers, pc[w] # "idle",
           NEW ACTION A, A => ServerTypeOK', CallFails(w, A)
    PROVE  StoreTypeOK' /\ ServerTypeOK' /\ EngineTypeOK' /\ JobOK'
<1>1. ServerTypeOK'
  BY CallFailsFrame, ServerUnchanged
<1>2. /\ faults' \in Nat /\ snapshots' \in [Captures -> SUBSET Mappings]
      /\ checked' \in [Workers -> BOOLEAN]
  BY CallFailsFrame DEF TypeInv, TypeOK, EngineTypeOK
<1>. QED  BY <1>1, <1>2, CallFailsFrame, RaiseEngineTyped

(* The server's handlers keep its types.                                   *)
LEMMA StoreFileTyped ==
    ASSUME TypeInv, NEW c \in Captures, NEW a \in Artifacts, StoreFile(c, a)
    PROVE  ServerTypeOK'
BY DEF TypeInv, TypeOK, ServerTypeOK, StoreFile

LEMMA StoreRecordTyped ==
    ASSUME TypeInv, NEW c \in Captures, NEW m \in BOOLEAN, StoreRecord(c, m)
    PROVE  ServerTypeOK'
BY DEF TypeInv, TypeOK, ServerTypeOK, StoreRecord, Records

LEMMA AddModuleTyped ==
    ASSUME TypeInv, NEW c \in Captures, AddModule(c)
    PROVE  ServerTypeOK'
<1>1. record \in [Captures -> Records]
  BY DEF TypeInv, TypeOK, ServerTypeOK
<1>2. PICK m \in {TRUE, record[c].marked} : record' = [record EXCEPT ![c].marked = m]
  BY DEF AddModule
<1>3. m \in BOOLEAN
  BY <1>1 DEF Records
<1>4. record' \in [Captures -> Records]
  BY <1>1, <1>2, <1>3 DEF Records
<1>. QED  BY <1>4 DEF AddModule, TypeInv, TypeOK, ServerTypeOK

LEMMA DelayTyped ==
    ASSUME TypeInv, NEW c \in Captures, Delay(c)
    PROVE  ServerTypeOK'
BY DEF TypeInv, TypeOK, ServerTypeOK, Delay

(* What the worker's bookkeeping does.                                     *)
LEMMA GotoTyped ==
    ASSUME TypeInv, NEW w \in Workers, pc[w] # "idle", NEW s \in Steps, Goto(w, s),
           UNCHANGED job
    PROVE  pc' \in [Workers -> Steps] /\ JobOK'
BY DEF TypeInv, TypeOK, EngineTypeOK, JobOK, Goto

LEMMA ReleaseTyped ==
    ASSUME TypeInv, NEW w \in Workers, Release(w)
    PROVE  EngineTypeOK' /\ JobOK'
BY DEF TypeInv, TypeOK, EngineTypeOK, JobOK, Release, Steps, NoRows, NoExport, Exports,
       ArtifactStates

LEMMA AppendTyped ==
    ASSUME NEW S, NEW s \in Seq(S), NEW e \in S
    PROVE  Append(s, e) \in Seq(S)
OBVIOUS

LEMMA LatestExists ==
    ASSUME HasLatest, NEW c \in Captures, mappings[c] # {}
    PROVE  /\ Latest(c) \in mappings[c]
           /\ \A n \in mappings[c] : n.version <= Latest(c).version
BY DEF HasLatest, Latest

LEMMA WorkerTyped ==
    ASSUME TypeInv, NEW w \in Workers, WorkerStep(w)
    PROVE  StoreTypeOK' /\ ServerTypeOK' /\ EngineTypeOK' /\ JobOK'
<1>. USE DEF TypeInv, TypeOK
<1>1. CASE Claim(w)
  <2>1. PICK c \in Captures : /\ WriteClaim(c)
                              /\ job' = [job EXCEPT ![w] = c]
                              /\ rows' = [rows EXCEPT ![w] = art[c]]
    BY <1>1 DEF Claim
  <2>2. StoreTypeOK'
    BY <2>1 DEF WriteClaim, StoreTypeOK, CaptureStates, InflightStates
  <2>3. ServerTypeOK'
    BY <1>1, ServerUnchanged DEF Claim
  <2>4. EngineTypeOK' /\ JobOK'
    BY <1>1, <2>1 DEF Claim, Goto, EngineTypeOK, StoreTypeOK, JobOK, Steps
  <2>. QED  BY <2>2, <2>3, <2>4
<1>2. CASE ArtifactUnavailable(w)
  BY <1>2, RaiseEngineTyped, ServerUnchanged
     DEF ArtifactUnavailable, KeepLocals, Raise, EngineTypeOK
<1>3. CASE UploadFile(w)
  <2>1. job[w] \in Captures /\ pc[w] # "idle"
    BY <1>3 DEF UploadFile, JobOK
  <2>2. PICK a \in Pending(w) :
           \/ /\ StoreFile(job[w], a)
              /\ rows' = [rows EXCEPT ![w][a] = "sent"]
              /\ UNCHANGED <<pc, running, job, checked, found, exported, elnId,
                             snapshots, faults>>
              /\ UNCHANGED storeVars
           \/ CallFails(w, StoreFile(job[w], a))
    BY <1>3 DEF UploadFile
  <2>3. a \in Artifacts
    BY DEF Pending, Streamed
  <2>4. StoreFile(job[w], a) => ServerTypeOK'
    BY <2>1, <2>3, StoreFileTyped
  <2>5. CASE StoreFile(job[w], a) /\ rows' = [rows EXCEPT ![w][a] = "sent"]
             /\ UNCHANGED <<pc, running, job, checked, found, exported, elnId, snapshots, faults>>
             /\ UNCHANGED storeVars
    BY <2>3, <2>4, <2>5, StoreUnchanged DEF EngineTypeOK, JobOK
  <2>6. CASE CallFails(w, StoreFile(job[w], a))
    BY <2>1, <2>4, <2>6, CallFailsTyped
  <2>. QED  BY <2>2, <2>5, <2>6
<1>4. CASE RecordReceipt(w)
  <2>1. PICK a \in Artifacts : /\ MarkUploaded(job[w], a)
                               /\ rows' = [rows EXCEPT ![w][a] = "uploaded"]
    BY <1>4 DEF RecordReceipt
  <2>2. StoreTypeOK'
    BY <2>1 DEF MarkUploaded, StoreTypeOK, ArtifactStates
  <2>3. EngineTypeOK' /\ JobOK'
    BY <1>4, <2>1 DEF RecordReceipt, EngineTypeOK, JobOK, ArtifactStates
  <2>. QED  BY <1>4, <2>2, <2>3, ServerUnchanged DEF RecordReceipt
<1>5. CASE UploadsDone(w)
  <2>1. "creating_record" \in Steps /\ pc[w] # "idle"
    BY <1>5 DEF UploadsDone, Steps, TransitionStates
  <2>. QED
    BY <1>5, <2>1, GotoTyped, ServerUnchanged, StoreUnchanged
       DEF UploadsDone, KeepLocals, EngineTypeOK
<1>6. CASE FindRecord(w)
  <2>1. job[w] \in Captures /\ pc[w] # "idle"
    BY <1>6 DEF FindRecord, JobOK
  <2>2. CASE CallFails(w, UNCHANGED serverVars)
    BY <2>1, <2>2, ServerUnchanged, CallFailsTyped
  <2>3. CASE ~CallFails(w, UNCHANGED serverVars)
    <3>1. {"update", "populating_record", "create", "import"} \subseteq Steps
      BY DEF Steps, TransitionStates
    <3>2. pc' \in [Workers -> Steps] /\ JobOK'
      BY <1>6, <2>1, <2>3, <3>1, GotoTyped DEF FindRecord
    <3>3. record[job[w]].version \in Nat
      BY <2>1 DEF ServerTypeOK, Records
    <3>. QED
      BY <1>6, <2>3, <3>2, <3>3, ServerUnchanged, StoreUnchanged DEF FindRecord, EngineTypeOK
  <2>. QED  BY <2>2, <2>3
<1>7. CASE MakeRecord(w)
  <2>1. job[w] \in Captures /\ pc[w] # "idle"
    BY <1>7 DEF MakeRecord, JobOK
  <2>2. StoreRecord(job[w], pc[w] = "import") => ServerTypeOK'
    BY <2>1, StoreRecordTyped
  <2>3. CASE CallFails(w, StoreRecord(job[w], pc[w] = "import"))
    BY <2>1, <2>2, <2>3, CallFailsTyped
  <2>4. CASE CallDelayed(w)
    <3>1. ServerTypeOK'
      BY <2>1, <2>4, DelayTyped DEF CallDelayed
    <3>2. Raise(w) /\ faults' \in Nat
      BY <2>4 DEF CallDelayed, Raise, EngineTypeOK
    <3>. QED  BY <2>1, <2>4, <3>1, <3>2, RaiseEngineTyped DEF CallDelayed, EngineTypeOK
  <2>5. CASE Stored(job[w]) /\ RaiseDefect(w) /\ KeepLocals /\ UNCHANGED serverVars
    BY <2>1, <2>5, RaiseEngineTyped, ServerUnchanged DEF KeepLocals, Raise, EngineTypeOK
  <2>6. CASE /\ StoreRecord(job[w], pc[w] = "import")
             /\ \E told \in BOOLEAN : elnId' = [elnId EXCEPT ![w] = told /\ pc[w] = "import"]
             /\ Goto(w, "refind")
             /\ UNCHANGED <<running, job, checked, rows, found, exported, snapshots, faults>>
             /\ UNCHANGED storeVars
    <3>1. pc' \in [Workers -> Steps] /\ JobOK'
      BY <2>1, <2>6, GotoTyped DEF Steps
    <3>. QED  BY <2>2, <2>6, <3>1, StoreUnchanged DEF EngineTypeOK
  <2>. QED  BY <1>7, <2>3, <2>4, <2>5, <2>6 DEF MakeRecord
<1>8. CASE RefindRecord(w)
  <2>1. job[w] \in Captures /\ pc[w] # "idle"
    BY <1>8 DEF RefindRecord, JobOK
  <2>2. CASE CallFails(w, UNCHANGED serverVars)
    BY <2>1, <2>2, ServerUnchanged, CallFailsTyped
  <2>3. CASE RaiseDefect(w) /\ KeepLocals /\ UNCHANGED serverVars
    BY <2>1, <2>3, RaiseEngineTyped, ServerUnchanged DEF KeepLocals, Raise, EngineTypeOK
  <2>4. CASE /\ found' = [found EXCEPT ![w] =
                            IF Stored(job[w]) THEN record[job[w]].version ELSE 1]
             /\ Goto(w, IF job[w] \in Manual THEN "update" ELSE "populating_record")
             /\ UNCHANGED <<running, job, checked, rows, exported, elnId, snapshots, faults>>
             /\ UNCHANGED <<storeVars, serverVars>>
    <3>1. {"update", "populating_record"} \subseteq Steps
      BY DEF Steps, TransitionStates
    <3>2. pc' \in [Workers -> Steps] /\ JobOK'
      BY <2>1, <2>4, <3>1, GotoTyped
    <3>3. record[job[w]].version \in Nat
      BY <2>1 DEF ServerTypeOK, Records
    <3>. QED
      BY <2>4, <3>2, <3>3, ServerUnchanged, StoreUnchanged DEF EngineTypeOK
  <2>. QED  BY <1>8, <2>2, <2>3, <2>4 DEF RefindRecord
<1>9. CASE UpdateRecord(w)
  <2>1. job[w] \in Captures /\ pc[w] # "idle"
    BY <1>9 DEF UpdateRecord, JobOK
  <2>2. AddModule(job[w]) => ServerTypeOK'
    BY <2>1, AddModuleTyped
  <2>3. CASE CallFails(w, AddModule(job[w]))
    BY <2>1, <2>2, <2>3, CallFailsTyped
  <2>4. CASE RaiseDefect(w) /\ KeepLocals /\ UNCHANGED serverVars
    BY <2>1, <2>4, RaiseEngineTyped, ServerUnchanged DEF KeepLocals, Raise, EngineTypeOK
  <2>5. CASE /\ AddModule(job[w]) /\ Goto(w, "populating_record") /\ KeepLocals
             /\ UNCHANGED storeVars
    <3>1. pc' \in [Workers -> Steps] /\ JobOK'
      BY <2>1, <2>5, GotoTyped DEF KeepLocals, Steps, TransitionStates
    <3>. QED  BY <2>2, <2>5, <3>1, StoreUnchanged DEF KeepLocals, EngineTypeOK
  <2>. QED  BY <1>9, <2>3, <2>4, <2>5 DEF UpdateRecord
<1>10. CASE ExportRecord(w)
  <2>1. job[w] \in Captures /\ pc[w] # "idle"
    BY <1>10 DEF ExportRecord, JobOK
  <2>2. CASE CallFails(w, UNCHANGED serverVars)
    BY <2>1, <2>2, ServerUnchanged, CallFailsTyped
  <2>3. CASE RaiseDefect(w) /\ KeepLocals /\ UNCHANGED serverVars
    BY <2>1, <2>3, RaiseEngineTyped, ServerUnchanged DEF KeepLocals, Raise, EngineTypeOK
  <2>4. CASE /\ exported' = [exported EXCEPT ![w] =
                               [revision |-> record[job[w]].revision, marked |-> TRUE]]
             /\ Goto(w, "snapshot")
             /\ UNCHANGED <<running, job, checked, rows, found, elnId, snapshots, faults>>
             /\ UNCHANGED <<storeVars, serverVars>>
    <3>1. pc' \in [Workers -> Steps] /\ JobOK'
      BY <2>1, <2>4, GotoTyped DEF Steps
    <3>2. [revision |-> record[job[w]].revision, marked |-> TRUE] \in Exports
      BY <2>1 DEF ServerTypeOK, Records, Exports
    <3>. QED
      BY <2>4, <3>1, <3>2, ServerUnchanged, StoreUnchanged DEF EngineTypeOK
  <2>. QED  BY <1>10, <2>2, <2>3, <2>4 DEF ExportRecord
<1>11. CASE WriteExport(w)
  <2>1. job[w] \in Captures /\ pc[w] # "idle"
    BY <1>11 DEF WriteExport, JobOK
  <2>2. snapshots' \in [Captures -> SUBSET Mappings]
    <3>1. [version |-> found[w], export |-> exported[w]] \in Mappings
      BY DEF EngineTypeOK, Mappings
    <3>. QED  BY <1>11, <2>1, <3>1 DEF WriteExport, EngineTypeOK
  <2>3. CASE NotebookIdKnown(w)
    <3>1. pc' \in [Workers -> Steps] /\ JobOK'
      BY <1>11, <2>1, <2>3, GotoTyped DEF WriteExport, Steps
    <3>. QED
      BY <1>11, <2>2, <2>3, <3>1, ServerUnchanged, StoreUnchanged DEF WriteExport, EngineTypeOK
  <2>4. CASE ~NotebookIdKnown(w)
    BY <1>11, <2>1, <2>2, <2>4, RaiseEngineTyped, ServerUnchanged
       DEF WriteExport, Raise, EngineTypeOK
  <2>. QED  BY <2>3, <2>4
<1>12. CASE SaveMapping(w)
  <2>1. job[w] \in Captures /\ pc[w] # "idle"
    BY <1>12 DEF SaveMapping, JobOK
  <2>2. CASE RaiseDefect(w)
    BY <1>12, <2>1, <2>2, RaiseEngineTyped, ServerUnchanged DEF SaveMapping, Raise, EngineTypeOK
  <2>3. CASE InsertMapping(job[w], found[w], exported[w]) /\ Goto(w, "matelab_verified")
    <3>1. pc' \in [Workers -> Steps] /\ JobOK'
      BY <1>12, <2>1, <2>3, GotoTyped DEF SaveMapping, Steps, TransitionStates
    <3>2. [version |-> found[w], export |-> exported[w]] \in Mappings
      BY DEF EngineTypeOK, Mappings
    <3>3. StoreTypeOK'
      BY <2>1, <2>3, <3>2 DEF InsertMapping, StoreTypeOK
    <3>. QED  BY <1>12, <3>1, <3>3, ServerUnchanged DEF SaveMapping, EngineTypeOK
  <2>. QED  BY <1>12, <2>2, <2>3 DEF SaveMapping
<1>13. CASE CheckTransition(w)
  <2>1. pc[w] # "idle"
    BY <1>13 DEF CheckTransition, TransitionStates
  <2>2. CASE Legal(job[w], pc[w])
    BY <1>13, <2>2, ServerUnchanged, StoreUnchanged DEF CheckTransition, EngineTypeOK, JobOK
  <2>3. CASE ~Legal(job[w], pc[w])
    BY <1>13, <2>1, <2>3, RaiseEngineTyped, ServerUnchanged
       DEF CheckTransition, Raise, EngineTypeOK
  <2>. QED  BY <2>2, <2>3
<1>14. CASE WriteTransition(w)
  <2>1. pc[w] \in TransitionStates \ {"complete"} /\ pc[w] # "idle"
    BY <1>14 DEF WriteTransition, TransitionStates
  <2>2. After(pc[w]) \in Steps /\ pc[w] \in CaptureStates
    BY <2>1 DEF After, Steps, TransitionStates, CaptureStates, InflightStates
  <2>3. StoreTypeOK'
    BY <1>14, <2>2 DEF WriteTransition, WriteState, StoreTypeOK
  <2>4. pc' \in [Workers -> Steps] /\ JobOK'
    BY <1>14, <2>1, <2>2, GotoTyped DEF WriteTransition
  <2>. QED
    BY <1>14, <2>3, <2>4, ServerUnchanged DEF WriteTransition, EngineTypeOK
<1>15. CASE Complete(w)
  <2>1. job[w] \in Captures /\ mappings[job[w]] # {}
    BY <1>15 DEF Complete, WriteComplete, JobOK
  <2>2. [capture |-> job[w], ref |-> Latest(job[w])] \in [capture : Captures, ref : Mappings]
    BY <2>1, LatestExists DEF StoreTypeOK
  <2>3. WriteComplete(job[w])
    BY <1>15 DEF Complete
  <2>4. events' \in Seq([capture : Captures, ref : Mappings])
    <3>. DEFINE e == [capture |-> job[w], ref |-> Latest(job[w])]
    <3>1. events' = events \/ events' = Append(events, e)
      BY <2>3 DEF WriteComplete
    <3>2. e \in [capture : Captures, ref : Mappings] /\ events \in Seq([capture : Captures, ref : Mappings])
      BY <2>2 DEF StoreTypeOK
    <3>. HIDE DEF e
    <3>3. Append(events, e) \in Seq([capture : Captures, ref : Mappings])
      BY <3>2, AppendTyped
    <3>. QED  BY <3>1, <3>2, <3>3
  <2>5. StoreTypeOK'
    BY <2>1, <2>3, <2>4 DEF WriteComplete, StoreTypeOK, CaptureStates
  <2>. QED  BY <1>15, <2>5, ReleaseTyped, ServerUnchanged DEF Complete
<1>16. CASE SetBack(w)
  <2>1. pc[w] \in CaptureStates
    BY <1>16 DEF SetBack, SetbackStates, CaptureStates, AttentionStates
  <2>2. StoreTypeOK'
    BY <1>16, <2>1 DEF SetBack, WriteSetback, StoreTypeOK
  <2>. QED  BY <1>16, <2>2, ReleaseTyped, ServerUnchanged DEF SetBack
<1>17. CASE FindMapping(w)
  <2>1. job[w] \in Captures /\ pc[w] # "idle"
    BY <1>17 DEF FindMapping, JobOK
  <2>2. CASE RaiseDefect(w)
    BY <1>17, <2>1, <2>2, RaiseEngineTyped, ServerUnchanged DEF FindMapping, Raise, EngineTypeOK
  <2>3. CASE checked' = [checked EXCEPT ![w] = TRUE] /\ UNCHANGED <<pc, storeVars>>
    BY <1>17, <2>3, ServerUnchanged, StoreUnchanged DEF FindMapping, EngineTypeOK, JobOK
  <2>4. CASE Goto(w, "matelab_verified") /\ UNCHANGED <<checked, storeVars>>
    <3>1. pc' \in [Workers -> Steps] /\ JobOK'
      BY <1>17, <2>1, <2>4, GotoTyped DEF FindMapping, Steps, TransitionStates
    <3>. QED  BY <1>17, <2>4, <3>1, ServerUnchanged, StoreUnchanged DEF FindMapping, EngineTypeOK
  <2>. QED  BY <1>17, <2>2, <2>3, <2>4 DEF FindMapping
<1>. QED
  BY <1>1, <1>2, <1>3, <1>4, <1>5, <1>6, <1>7, <1>8, <1>9, <1>10, <1>11, <1>12, <1>13,
     <1>14, <1>15, <1>16, <1>17 DEF WorkerStep

-----------------------------------------------------------------------------
(* Every step of a worker makes at most one operation of the store.        *)
WorkerWrites(w) ==
    \/ UNCHANGED storeVars
    \/ AddOrphans(job[w])
    \/ pc[w] = "idle" /\ \E c \in Captures : WriteClaim(c) /\ job' = [job EXCEPT ![w] = c]
    \/ \E a \in Artifacts : rows[w][a] = "sent" /\ MarkUploaded(job[w], a)
    \/ pc[w] = "mapping" /\ InsertMapping(job[w], found[w], exported[w])
    \/ pc[w] \in InflightStates /\ WriteState(job[w], pc[w])
    \/ pc[w] = "complete" /\ WriteComplete(job[w])
    \/ pc[w] \in SetbackStates /\ WriteSetback(job[w], pc[w])

LEMMA RaiseWrites ==
    ASSUME NEW w \in Workers, Raise(w)
    PROVE  UNCHANGED storeVars \/ AddOrphans(job[w])
BY DEF Raise, RaiseAuth, RaiseRetryable, RaiseDefect

LEMMA WorkerStores ==
    ASSUME NEW w \in Workers, WorkerStep(w)
    PROVE  WorkerWrites(w)
<1>1. CASE Claim(w)
  BY <1>1 DEF Claim, WorkerWrites
<1>2. CASE ArtifactUnavailable(w) \/ WriteExport(w) \/ CheckTransition(w)
  BY <1>2, RaiseWrites DEF ArtifactUnavailable, WriteExport, CheckTransition, Raise, WorkerWrites
<1>3. CASE UploadFile(w)
  BY <1>3, RaiseWrites, CallFailsFrame DEF UploadFile, WorkerWrites
<1>4. CASE RecordReceipt(w)
  BY <1>4 DEF RecordReceipt, WorkerWrites
<1>5. CASE UploadsDone(w)
  BY <1>5 DEF UploadsDone, WorkerWrites
<1>6. CASE FindRecord(w)
  BY <1>6, RaiseWrites, CallFailsFrame DEF FindRecord, WorkerWrites
<1>7. CASE MakeRecord(w)
  BY <1>7, RaiseWrites, CallFailsFrame DEF MakeRecord, CallDelayed, Raise, WorkerWrites
<1>8. CASE RefindRecord(w)
  BY <1>8, RaiseWrites, CallFailsFrame DEF RefindRecord, Raise, WorkerWrites
<1>9. CASE UpdateRecord(w)
  BY <1>9, RaiseWrites, CallFailsFrame DEF UpdateRecord, Raise, WorkerWrites
<1>10. CASE ExportRecord(w)
  BY <1>10, RaiseWrites, CallFailsFrame DEF ExportRecord, Raise, WorkerWrites
<1>11. CASE FindMapping(w) \/ SaveMapping(w)
  BY <1>11, RaiseWrites DEF FindMapping, SaveMapping, Raise, WorkerWrites
<1>12. CASE WriteTransition(w)
  BY <1>12 DEF WriteTransition, TransitionStates, InflightStates, WorkerWrites
<1>13. CASE Complete(w)
  BY <1>13 DEF Complete, WorkerWrites
<1>14. CASE SetBack(w)
  BY <1>14 DEF SetBack, WorkerWrites
<1>. QED
  BY <1>1, <1>2, <1>3, <1>4, <1>5, <1>6, <1>7, <1>8, <1>9, <1>10, <1>11, <1>12, <1>13,
     <1>14 DEF WorkerStep

(* Outside the workers and the reconcilers only a client, a restart or the *)
(* clock changes the store, and never the mappings, the events or the      *)
(* orphan list.                                                            *)
Elsewhere ==
    \/ \E c \in Captures : CreateCapture(c) \/ BackoffElapses(c) \/ ServerStep(c)
    \/ \E c \in Captures, a \in Artifacts : BeginPut(c, a) \/ FinishPut(c, a)
    \/ \E t \in Threads, c \in Captures : ReadCommit(t, c) \/ ReadRetry(t, c)
    \/ \E t \in Threads : ReadResume(t) \/ ThreadWrite(t)
    \/ \E w \in Workers : ServiceRestart(w)
    \/ \E start \in starting : ServiceStarted(start[1], start[2])
    \/ Crash

LEMMA NextCases ==
    Next <=> \/ Elsewhere
             \/ \E w \in Workers : Worker(w)
             \/ \E r \in Reconcilers : Reconcile(r)
BY DEF Next, Elsewhere

LEMMA EngineUnchanged ==
    ASSUME TypeInv, UNCHANGED workerVars PROVE EngineTypeOK' /\ JobOK'
BY DEF TypeInv, TypeOK, EngineTypeOK, JobOK, workerVars

LEMMA WriteReadyTyped ==
    ASSUME TypeInv, NEW S \in SUBSET Captures, WriteReady(S), due' \in [Captures -> BOOLEAN]
    PROVE  StoreTypeOK'
BY DEF TypeInv, TypeOK, StoreTypeOK, WriteReady, CaptureStates

APITypeOK ==
    /\ thread \in [Threads -> [op : {"none", "commit", "retry", "resume"},
                               rows : SUBSET Captures]]
    /\ puts \in [Captures -> [Artifacts -> Nat]]
    /\ starting \subseteq Workers \X SUBSET Captures
    /\ restarts \in Nat

LEMMA AcceptTyped ==
    ASSUME TypeInv, NEW t \in Threads, NEW op, NEW S \in SUBSET Captures, Accept(t, op, S)
    PROVE  StoreTypeOK' /\ ServerTypeOK' /\ EngineTypeOK' /\ JobOK' /\ APITypeOK'
<1>1. op \in {"commit", "retry", "resume"}
  BY RequestKinds DEF Accept
<1>2. APITypeOK'
  BY <1>1 DEF Accept, TypeInv, TypeOK, APITypeOK
<1>. QED  BY <1>2, StoreUnchanged, ServerUnchanged, EngineUnchanged DEF Accept

LEMMA FinishThreadTyped ==
    ASSUME TypeInv, NEW t \in Threads, FinishThread(t)
    PROVE  ServerTypeOK' /\ EngineTypeOK' /\ JobOK' /\ APITypeOK'
<1>1. APITypeOK'
  BY DEF FinishThread, IdleThread, TypeInv, TypeOK, APITypeOK
<1>. QED  BY <1>1, ServerUnchanged, EngineUnchanged DEF FinishThread

LEMMA ElsewhereTyped ==
    ASSUME TypeInv, Elsewhere
    PROVE  StoreTypeOK' /\ ServerTypeOK' /\ EngineTypeOK' /\ JobOK' /\ APITypeOK'
<1>1. ASSUME NEW c \in Captures, CreateCapture(c)
      PROVE  StoreTypeOK' /\ ServerTypeOK' /\ EngineTypeOK' /\ JobOK' /\ APITypeOK'
  <2>1. created' \in Seq(Captures)
    BY <1>1, AppendTyped DEF CreateCapture, InsertCapture, TypeInv, TypeOK, StoreTypeOK
  <2>2. StoreTypeOK'
    BY <1>1, <2>1 DEF CreateCapture, InsertCapture, TypeInv, TypeOK, StoreTypeOK, CaptureStates
  <2>. QED
    BY <1>1, <2>2, ServerUnchanged, EngineUnchanged
       DEF CreateCapture, apiVars, TypeInv, TypeOK, APITypeOK
<1>2. ASSUME NEW c \in Captures, BackoffElapses(c)
      PROVE  StoreTypeOK' /\ ServerTypeOK' /\ EngineTypeOK' /\ JobOK' /\ APITypeOK'
  <2>1. StoreTypeOK'
    BY <1>2 DEF BackoffElapses, TypeInv, TypeOK, StoreTypeOK
  <2>. QED
    BY <1>2, <2>1, ServerUnchanged, EngineUnchanged
       DEF BackoffElapses, apiVars, TypeInv, TypeOK, APITypeOK
<1>3. ASSUME NEW c \in Captures, ServerStep(c)
      PROVE  StoreTypeOK' /\ ServerTypeOK' /\ EngineTypeOK' /\ JobOK' /\ APITypeOK'
  <2>1. ASSUME NEW m \in BOOLEAN, LateArrival(c, m) PROVE ServerTypeOK'
    BY <2>1 DEF LateArrival, TypeInv, TypeOK, ServerTypeOK, Records
  <2>2. ASSUME LateArrival(c, c \notin Manual) PROVE ServerTypeOK'
    <3>1. CASE c \in Manual
      BY <2>1, <2>2, <3>1
    <3>2. CASE c \notin Manual
      BY <2>1, <2>2, <3>2
    <3>. QED  BY <3>1, <3>2
  <2>3. ASSUME Edit(c) PROVE ServerTypeOK'
    <3>1. PICK v \in {record[c].version, record[c].version + 1},
               m \in {record[c].marked, FALSE} :
             record' = [record EXCEPT ![c] =
                          [version |-> v, revision |-> @.revision + 1, marked |-> m,
                           edited |-> TRUE]]
      BY <2>3 DEF Edit
    <3>2. record[c] \in Records
      BY DEF TypeInv, TypeOK, ServerTypeOK
    <3>3. v \in Nat /\ record[c].revision + 1 \in Nat
      BY <3>2 DEF Records
    <3>4. m \in BOOLEAN
      BY <3>2 DEF Records
    <3>5. [version |-> v, revision |-> record[c].revision + 1, marked |-> m,
           edited |-> TRUE] \in Records
      BY <3>3, <3>4 DEF Records
    <3>6. files' = files /\ late' = late /\ edits' = edits + 1
      BY <2>3 DEF Edit
    <3>7. record' \in [Captures -> Records]
      <4>. DEFINE x == [version |-> v, revision |-> record[c].revision + 1, marked |-> m,
                        edited |-> TRUE]
      <4>1. record' = [record EXCEPT ![c] = x] /\ x \in Records
        BY <3>1, <3>5
      <4>. HIDE DEF x
      <4>. QED  BY <4>1 DEF TypeInv, TypeOK, ServerTypeOK
    <3>. QED  BY <3>6, <3>7 DEF TypeInv, TypeOK, ServerTypeOK
  <2>4. ASSUME Delete(c) PROVE ServerTypeOK'
    <3>1. record[c] \in Records
      BY DEF TypeInv, TypeOK, ServerTypeOK
    <3>2. record[c].revision + 1 \in Nat
      BY <3>1 DEF Records
    <3>3. [NoRecord EXCEPT !.revision = record[c].revision + 1] \in Records
      BY <3>2 DEF NoRecord, Records
    <3>. QED  BY <2>4, <3>3 DEF Delete, TypeInv, TypeOK, ServerTypeOK
  <2>. QED
    BY <1>3, <2>2, <2>3, <2>4, StoreUnchanged, EngineUnchanged
       DEF ServerStep, apiVars, TypeInv, TypeOK, APITypeOK
<1>4. ASSUME NEW c \in Captures, NEW a \in Artifacts, BeginPut(c, a)
      PROVE  StoreTypeOK' /\ ServerTypeOK' /\ EngineTypeOK' /\ JobOK' /\ APITypeOK'
  BY <1>4, StoreUnchanged, ServerUnchanged, EngineUnchanged
     DEF BeginPut, TypeInv, TypeOK, APITypeOK
<1>5. ASSUME NEW c \in Captures, NEW a \in Artifacts, FinishPut(c, a)
      PROVE  StoreTypeOK' /\ ServerTypeOK' /\ EngineTypeOK' /\ JobOK' /\ APITypeOK'
  <2>1. ASSUME MarkReceived(c, a) PROVE StoreTypeOK'
    BY <2>1 DEF MarkReceived, TypeInv, TypeOK, StoreTypeOK, ArtifactStates
  <2>2. APITypeOK'
    BY <1>5 DEF FinishPut, TypeInv, TypeOK, APITypeOK
  <2>. QED
    BY <1>5, <2>1, <2>2, StoreUnchanged, ServerUnchanged, EngineUnchanged DEF FinishPut
<1>6. ASSUME NEW t \in Threads, NEW c \in Captures, ReadCommit(t, c) \/ ReadRetry(t, c)
      PROVE  StoreTypeOK' /\ ServerTypeOK' /\ EngineTypeOK' /\ JobOK' /\ APITypeOK'
  BY <1>6, AcceptTyped DEF ReadCommit, ReadRetry
<1>7. ASSUME NEW t \in Threads, ReadResume(t)
      PROVE  StoreTypeOK' /\ ServerTypeOK' /\ EngineTypeOK' /\ JobOK' /\ APITypeOK'
  <2>1. {c \in Captures : state[c] = "auth_required"} \in SUBSET Captures
    OBVIOUS
  <2>. QED  BY <1>7, <2>1, AcceptTyped DEF ReadResume
<1>8. ASSUME NEW t \in Threads, ThreadWrite(t)
      PROVE  StoreTypeOK' /\ ServerTypeOK' /\ EngineTypeOK' /\ JobOK' /\ APITypeOK'
  <2>1. thread[t].rows \in SUBSET Captures
    BY DEF TypeInv, TypeOK
  <2>2. due \in [Captures -> BOOLEAN]
    BY DEF TypeInv, TypeOK, StoreTypeOK
  <2>3. ASSUME WriteReadyNow(thread[t].rows) PROVE StoreTypeOK'
    BY <2>1, <2>2, <2>3, WriteReadyTyped DEF WriteReadyNow
  <2>4. StoreTypeOK'
    BY <1>8, <2>1, <2>2, <2>3, WriteReadyTyped, StoreUnchanged
       DEF ThreadWrite, WriteCommit, WriteRetry, WriteResume
  <2>5. FinishThread(t)
    BY <1>8 DEF ThreadWrite, WriteCommit, WriteRetry, WriteResume
  <2>. QED  BY <2>4, <2>5, FinishThreadTyped
<1>9. ASSUME NEW w \in Workers, ServiceRestart(w)
      PROVE  StoreTypeOK' /\ ServerTypeOK' /\ EngineTypeOK' /\ JobOK' /\ APITypeOK'
  <2>1. APITypeOK'
    BY <1>9 DEF ServiceRestart, MayRestart, Inflight, TypeInv, TypeOK, APITypeOK
  <2>. QED  BY <1>9, <2>1, StoreUnchanged, ServerUnchanged, EngineUnchanged DEF ServiceRestart
<1>10. ASSUME NEW start \in starting, ServiceStarted(start[1], start[2])
       PROVE  StoreTypeOK' /\ ServerTypeOK' /\ EngineTypeOK' /\ JobOK' /\ APITypeOK'
  <2>1. start[1] \in Workers /\ start[2] \in SUBSET Captures
    BY DEF TypeInv, TypeOK
  <2>2. StoreTypeOK'
    BY <1>10, <2>1, WriteReadyTyped DEF ServiceStarted, Recover, TypeInv, TypeOK, StoreTypeOK
  <2>3. EngineTypeOK' /\ JobOK'
    BY <1>10, <2>1 DEF ServiceStarted, TypeInv, TypeOK, EngineTypeOK, JobOK
  <2>4. APITypeOK'
    BY <1>10 DEF ServiceStarted, TypeInv, TypeOK, APITypeOK
  <2>. QED  BY <1>10, <2>2, <2>3, <2>4, ServerUnchanged DEF ServiceStarted
<1>11. ASSUME Crash
       PROVE  StoreTypeOK' /\ ServerTypeOK' /\ EngineTypeOK' /\ JobOK' /\ APITypeOK'
  <2>1. StoreTypeOK'
    BY <1>11, WriteReadyTyped DEF Crash, Recover, Inflight, TypeInv, TypeOK, StoreTypeOK
  <2>2. NoRows \in [Artifacts -> ArtifactStates \cup {"sent"}] /\ NoExport \in Exports
    BY DEF NoRows, NoExport, Exports, ArtifactStates
  <2>3. EngineTypeOK' /\ JobOK'
    BY <1>11, <2>2 DEF Crash, TypeInv, TypeOK, EngineTypeOK, JobOK, Steps
  <2>4. APITypeOK'
    BY <1>11 DEF Crash, MayRestart, NoPuts, IdleThread, TypeInv, TypeOK, APITypeOK
  <2>. QED  BY <1>11, <2>1, <2>3, <2>4, ServerUnchanged DEF Crash
<1>. QED
  BY <1>1, <1>2, <1>3, <1>4, <1>5, <1>6, <1>7, <1>8, <1>9, <1>10, <1>11 DEF Elsewhere

LEMMA HasLatestKept ==
    ASSUME HasLatest, TypeInv, UNCHANGED mappings PROVE HasLatest'
BY DEF HasLatest

LEMMA InsertKeepsLatest ==
    ASSUME TypeInv, NEW c \in Captures, NEW v \in Nat, NEW e \in Exports, InsertMapping(c, v, e)
    PROVE  HasLatest'
<1>. SUFFICES ASSUME NEW d \in Captures, mappings'[d] # {}
              PROVE  \E m \in mappings'[d] : \A n \in mappings'[d] : n.version <= m.version
  BY DEF HasLatest
<1>. DEFINE new == [version |-> v, export |-> e]
<1>1. mappings \in [Captures -> SUBSET Mappings] /\ HasLatest
  BY DEF TypeInv, TypeOK, StoreTypeOK
<1>2. mappings' = [mappings EXCEPT ![c] = @ \cup {new}]
  BY DEF InsertMapping
<1>3. \A n \in mappings[c] : n.version \in Nat
  BY <1>1 DEF Mappings
<1>4. CASE d # c
  BY <1>1, <1>2, <1>4 DEF HasLatest
<1>5. CASE d = c /\ mappings[c] = {}
  BY <1>1, <1>2, <1>5
<1>6. CASE d = c /\ mappings[c] # {}
  <2>1. PICK m \in mappings[c] : \A n \in mappings[c] : n.version <= m.version
    BY <1>1, <1>6 DEF HasLatest
  <2>2. mappings'[d] = mappings[c] \cup {new} /\ new.version = v
    BY <1>1, <1>2, <1>6
  <2>3. CASE v <= m.version
    BY <2>1, <2>2, <2>3
  <2>4. CASE ~(v <= m.version)
    BY <1>3, <2>1, <2>2, <2>4
  <2>. QED  BY <2>3, <2>4
<1>. QED  BY <1>4, <1>5, <1>6

(* Elsewhere nothing touches what was verified and announced, or a scan.   *)
LEMMA ElsewhereKeeps ==
    ASSUME Elsewhere PROVE UNCHANGED <<mappings, events, orphans, attempt, scan>>
<1>1. CASE \E c \in Captures : CreateCapture(c) \/ BackoffElapses(c) \/ ServerStep(c)
  BY <1>1 DEF CreateCapture, InsertCapture, BackoffElapses, ServerStep, storeVars
<1>2. CASE \E c \in Captures, a \in Artifacts : BeginPut(c, a) \/ FinishPut(c, a)
  BY <1>2 DEF BeginPut, FinishPut, MarkReceived, storeVars
<1>3. CASE \E t \in Threads, c \in Captures : ReadCommit(t, c) \/ ReadRetry(t, c)
  BY <1>3 DEF ReadCommit, ReadRetry, Accept, storeVars
<1>4. CASE \E t \in Threads : ReadResume(t) \/ ThreadWrite(t)
  BY <1>4 DEF ReadResume, Accept, ThreadWrite, WriteCommit, WriteRetry, WriteResume,
              WriteReadyNow, WriteReady, FinishThread, storeVars
<1>5. CASE \E w \in Workers : ServiceRestart(w)
  BY <1>5 DEF ServiceRestart, storeVars
<1>6. CASE Crash \/ \E start \in starting : ServiceStarted(start[1], start[2])
  BY <1>6 DEF Crash, ServiceStarted, Recover, WriteReady
<1>. QED  BY <1>1, <1>2, <1>3, <1>4, <1>5, <1>6 DEF Elsewhere

(* What a reconciler does to the store: it appends a mapping or nothing.   *)
ScanInserts(r) ==
    /\ scan[r].step = "mapping"
    /\ InsertMapping(scan[r].capture, scan[r].version, scan[r].export)

LEMMA ReconcileStores ==
    ASSUME NEW r \in Reconcilers, ReconcileStep(r)
    PROVE  UNCHANGED storeVars \/ ScanInserts(r)
BY DEF ReconcileStep, StartScan, SkipRow, ScanItems, ScanExport, ScanSnapshot, ScanMapping,
       ScanInserts

LEMMA ScanUnchanged == ASSUME TypeInv, UNCHANGED scan PROVE ScanTypeOK' /\ ScanOK'
BY DEF TypeInv, TypeOK, ScanTypeOK, ScanOK

LEMMA ScanTyped ==
    ASSUME TypeInv, NEW r \in Reconcilers, ReconcileStep(r)
    PROVE  ScanTypeOK' /\ ScanOK' /\ snapshots' \in [Captures -> SUBSET Mappings]
<1>. DEFINE Scans == [todo : [Captures -> Nat], capture : Captures \cup {NoCapture},
                      version : Nat, export : Exports, step : ScanSteps]
<1>0. /\ scan \in [Reconcilers -> Scans] /\ ScanOK
      /\ snapshots \in [Captures -> SUBSET Mappings]
      /\ mappings \in [Captures -> SUBSET Mappings]
  BY DEF TypeInv, TypeOK, ScanTypeOK, EngineTypeOK, StoreTypeOK
<1>1. ASSUME NEW s \in Scans, scan' = [scan EXCEPT ![r] = s],
             s.step # "items" => s.capture \in Captures
      PROVE  ScanTypeOK' /\ ScanOK'
  BY <1>0, <1>1 DEF ScanTypeOK, ScanOK
<1>2. ASSUME NEW c \in Captures, Reported(r, c) PROVE ScanTypeOK' /\ ScanOK'
  <2>. DEFINE s == [NoScan EXCEPT !.todo = [scan[r].todo EXCEPT ![c] = 0]]
  <2>1. s \in Scans /\ s.step = "items"
    BY <1>0 DEF NoScan, NoExport, Exports, ScanSteps
  <2>. QED  BY <1>1, <1>2, <2>1 DEF Reported
<1>3. CASE StartScan(r)
  <2>. DEFINE T == [c \in Captures |-> IF mappings[c] = {} THEN 0 ELSE Latest(c).version]
              s == [scan[r] EXCEPT !.todo = T]
  <2>1. T \in [Captures -> Nat]
    BY <1>0, LatestExists DEF TypeInv, Mappings
  <2>2. s \in Scans /\ s.step = scan[r].step /\ s.capture = scan[r].capture
    BY <1>0, <2>1
  <2>3. scan' = [scan EXCEPT ![r] = s]
    BY <1>0, <1>3 DEF StartScan
  <2>. QED  BY <1>0, <1>1, <1>3, <2>2, <2>3 DEF StartScan, ScanOK
<1>4. ASSUME NEW c \in Captures, SkipRow(r, c) PROVE ScanTypeOK' /\ ScanOK'
  BY <1>2, <1>4 DEF SkipRow
<1>5. ASSUME NEW c \in Captures, ScanItems(r, c) PROVE ScanTypeOK' /\ ScanOK'
  <2>. DEFINE s == [scan[r] EXCEPT !.capture = c, !.version = record[c].version,
                                   !.step = "export"]
  <2>1. record[c].version \in Nat
    BY DEF TypeInv, TypeOK, ServerTypeOK, Records
  <2>2. s \in Scans /\ s.capture = c
    BY <1>0, <2>1 DEF ScanSteps
  <2>3. scan' = [scan EXCEPT ![r] = s]
    BY <1>0, <1>5 DEF ScanItems
  <2>. QED  BY <1>1, <2>2, <2>3
<1>6. CASE ScanExport(r)
  <2>. DEFINE c == scan[r].capture
              e == [revision |-> record[c].revision, marked |-> TRUE]
              s == [scan[r] EXCEPT !.export = e, !.step = "snapshot"]
  <2>1. c \in Captures
    BY <1>0, <1>6 DEF ScanExport, ScanOK
  <2>2. e \in Exports
    BY <2>1 DEF TypeInv, TypeOK, ServerTypeOK, Records, Exports
  <2>3. s \in Scans /\ s.capture = c
    BY <1>0, <2>2 DEF ScanSteps
  <2>4. scan' = [scan EXCEPT ![r] = s] \/ Reported(r, c)
    BY <1>0, <1>6 DEF ScanExport
  <2>. QED  BY <1>0, <1>1, <1>2, <1>6, <2>1, <2>3, <2>4 DEF ScanExport
<1>7. CASE ScanSnapshot(r)
  <2>. DEFINE c == scan[r].capture
              new == [version |-> scan[r].version, export |-> scan[r].export]
              s == [scan[r] EXCEPT !.step = "mapping"]
  <2>1. c \in Captures /\ new \in Mappings
    BY <1>0, <1>7 DEF ScanSnapshot, ScanOK, Mappings
  <2>2. snapshots' \in [Captures -> SUBSET Mappings]
    BY <1>0, <1>7, <2>1 DEF ScanSnapshot
  <2>3. s \in Scans /\ s.capture = c
    BY <1>0 DEF ScanSteps
  <2>4. scan' = [scan EXCEPT ![r] = s]
    BY <1>0, <1>7 DEF ScanSnapshot
  <2>. QED  BY <1>1, <2>1, <2>2, <2>3, <2>4
<1>8. CASE ScanMapping(r)
  BY <1>0, <1>2, <1>8 DEF ScanMapping, ScanOK
<1>9. UNCHANGED snapshots \/ ScanSnapshot(r)
  BY DEF ReconcileStep, StartScan, SkipRow, ScanItems, ScanExport, ScanMapping
<1>. QED
  BY <1>0, <1>3, <1>4, <1>5, <1>6, <1>7, <1>8, <1>9 DEF ReconcileStep

LEMMA ReconcileTyped ==
    ASSUME TypeInv, NEW r \in Reconcilers, ReconcileStep(r)
    PROVE  /\ StoreTypeOK' /\ ServerTypeOK' /\ EngineTypeOK' /\ JobOK'
           /\ ScanTypeOK' /\ ScanOK' /\ HasLatest'
<1>1. ScanTypeOK' /\ ScanOK' /\ snapshots' \in [Captures -> SUBSET Mappings]
  BY ScanTyped
<1>2. ServerTypeOK'
  BY ServerUnchanged DEF ReconcileStep
<1>3. EngineTypeOK' /\ JobOK'
  BY <1>1 DEF ReconcileStep, TypeInv, TypeOK, EngineTypeOK, JobOK
<1>4. CASE UNCHANGED storeVars
  BY <1>1, <1>2, <1>3, <1>4, StoreUnchanged, HasLatestKept DEF storeVars, TypeInv
<1>5. CASE ScanInserts(r)
  <2>1. /\ scan[r].capture \in Captures /\ scan[r].version \in Nat
        /\ scan[r].export \in Exports
    BY <1>5 DEF ScanInserts, TypeInv, TypeOK, ScanTypeOK, ScanOK
  <2>2. HasLatest'
    BY <1>5, <2>1, InsertKeepsLatest DEF ScanInserts
  <2>3. [version |-> scan[r].version, export |-> scan[r].export] \in Mappings
    BY <2>1 DEF Mappings
  <2>4. StoreTypeOK'
    BY <1>5, <2>1, <2>3 DEF ScanInserts, InsertMapping, TypeInv, TypeOK, StoreTypeOK
  <2>. QED  BY <1>1, <1>2, <1>3, <2>2, <2>4
<1>. QED  BY <1>4, <1>5, ReconcileStores

LEMMA TypeInitial == ASSUME Init PROVE TypeInv
<1>1. StoreTypeOK
  BY DEF Init, StoreInit, StoreTypeOK, CaptureStates, ArtifactStates
<1>2. ServerTypeOK
  BY DEF Init, ServerInit, ServerTypeOK, NoRecord, Records
<1>3. EngineTypeOK
  BY DEF Init, EngineInit, EngineTypeOK, Steps, NoRows, NoExport, Exports, ArtifactStates
<1>4. JobOK /\ HasLatest
  BY DEF Init, EngineInit, StoreInit, JobOK, HasLatest
<1>5. ScanTypeOK /\ ScanOK
  BY DEF Init, ScanInit, ScanTypeOK, ScanOK, NoScan, NothingToDo, NoExport, Exports, ScanSteps
<1>. QED
  BY <1>1, <1>2, <1>3, <1>4, <1>5 DEF Init, IdleThread, NoPuts, TypeInv, TypeOK

LEMMA TypeStep == ASSUME TypeInv, [Next]_vars PROVE TypeInv'
<1>1. CASE Elsewhere
  BY <1>1, ElsewhereTyped, ElsewhereKeeps, HasLatestKept, ScanUnchanged
     DEF TypeInv, TypeOK, APITypeOK
<1>2. ASSUME NEW w \in Workers, Worker(w) PROVE TypeInv'
  <2>1. WorkerStep(w) /\ UNCHANGED <<apiVars, scan>>
    BY <1>2 DEF Worker
  <2>2. StoreTypeOK' /\ ServerTypeOK' /\ EngineTypeOK' /\ JobOK'
    BY <2>1, WorkerTyped
  <2>3. HasLatest'
    <3>1. CASE UNCHANGED mappings
      BY <3>1, HasLatestKept DEF TypeInv
    <3>2. CASE pc[w] = "mapping" /\ InsertMapping(job[w], found[w], exported[w])
      <4>1. job[w] \in Captures /\ found[w] \in Nat /\ exported[w] \in Exports
        BY <3>2 DEF TypeInv, TypeOK, EngineTypeOK, JobOK
      <4>. QED  BY <3>2, <4>1, InsertKeepsLatest
    <3>. QED
      BY <2>1, <3>1, <3>2, WorkerStores
         DEF WorkerWrites, storeVars, AddOrphans, WriteClaim, MarkUploaded, WriteState,
             WriteComplete, WriteSetback
  <2>. QED  BY <2>1, <2>2, <2>3, ScanUnchanged DEF TypeInv, TypeOK, apiVars
<1>3. ASSUME NEW r \in Reconcilers, Reconcile(r) PROVE TypeInv'
  BY <1>3, ReconcileTyped DEF Reconcile, TypeInv, TypeOK, apiVars
<1>4. CASE UNCHANGED vars
  BY <1>4, StoreUnchanged, ServerUnchanged, EngineUnchanged, HasLatestKept, ScanUnchanged
     DEF vars, storeVars, apiVars, TypeInv, TypeOK
<1>. QED  BY <1>1, <1>2, <1>3, <1>4, NextCases

THEOREM TypeInvariant == Spec => []TypeInv
BY TypeInitial, TypeStep, PTL DEF Spec

(* Every variable keeps its type, whatever the interleaving of workers,    *)
(* API threads, restarts and server.                                       *)
THEOREM TypeCorrect == Spec => []TypeOK
BY TypeInvariant, PTL DEF TypeInv
-----------------------------------------------------------------------------
(* Ownership.                                                              *)

(* What a step of a worker does to the capture it holds: it claims one     *)
(* when idle, keeps it, or drops it with the write that takes the capture  *)
(* out of the in-flight states.                                            *)
WorkerHolds(w) ==
    \/ UNCHANGED job /\ (pc'[w] = "idle" => pc[w] = "idle")
    \/ /\ pc[w] = "idle" /\ pc'[w] = "upload"
       /\ \E c \in Captures : WriteClaim(c) /\ job' = [job EXCEPT ![w] = c]
    \/ /\ pc[w] = "complete" /\ WriteComplete(job[w]) /\ Release(w)
    \/ /\ pc[w] \in SetbackStates /\ WriteSetback(job[w], pc[w]) /\ Release(w)

LEMMA RaiseLeavesIdle ==
    ASSUME TypeInv, NEW w \in Workers, Raise(w)
    PROVE  pc'[w] # "idle" /\ \A v \in Workers \ {w} : pc'[v] = pc[v]
BY DEF Raise, RaiseAuth, RaiseRetryable, RaiseDefect, Goto, TypeInv, TypeOK, EngineTypeOK

LEMMA WorkerOwns ==
    ASSUME TypeInv, NEW w \in Workers, WorkerStep(w)
    PROVE  WorkerHolds(w) /\ \A v \in Workers \ {w} : pc'[v] = pc[v]
<1>. USE DEF WorkerHolds
<1>0. pc \in [Workers -> Steps]
  BY DEF TypeInv, TypeOK, EngineTypeOK
<1>1. CASE Claim(w)
  BY <1>0, <1>1 DEF Claim, Goto
<1>2. CASE ArtifactUnavailable(w)
  BY <1>2, RaiseLeavesIdle DEF ArtifactUnavailable, Raise, KeepLocals
<1>3. CASE UploadFile(w)
  BY <1>3, RaiseLeavesIdle, CallFailsFrame DEF UploadFile
<1>4. CASE RecordReceipt(w)
  BY <1>4 DEF RecordReceipt
<1>5. CASE UploadsDone(w)
  BY <1>0, <1>5 DEF UploadsDone, Goto, KeepLocals
<1>6. CASE FindRecord(w)
  BY <1>0, <1>6, RaiseLeavesIdle, CallFailsFrame DEF FindRecord, Goto
<1>7. CASE MakeRecord(w)
  BY <1>0, <1>7, RaiseLeavesIdle, CallFailsFrame
     DEF MakeRecord, CallDelayed, Goto, Raise, KeepLocals
<1>8. CASE RefindRecord(w)
  BY <1>0, <1>8, RaiseLeavesIdle, CallFailsFrame DEF RefindRecord, Goto, Raise, KeepLocals
<1>9. CASE UpdateRecord(w)
  BY <1>0, <1>9, RaiseLeavesIdle, CallFailsFrame DEF UpdateRecord, Goto, Raise, KeepLocals
<1>10. CASE ExportRecord(w)
  BY <1>0, <1>10, RaiseLeavesIdle, CallFailsFrame DEF ExportRecord, Goto, Raise, KeepLocals
<1>11. CASE WriteExport(w)
  BY <1>0, <1>11, RaiseLeavesIdle DEF WriteExport, Goto, Raise
<1>12. CASE FindMapping(w) \/ SaveMapping(w)
  BY <1>0, <1>12, RaiseLeavesIdle DEF FindMapping, SaveMapping, Goto, Raise
<1>13. CASE CheckTransition(w)
  BY <1>0, <1>13, RaiseLeavesIdle DEF CheckTransition, Raise
<1>14. CASE WriteTransition(w)
  <2>1. pc' = [pc EXCEPT ![w] = After(pc[w])] /\ UNCHANGED job
    BY <1>14 DEF WriteTransition, Goto
  <2>2. After(pc[w]) # "idle"
    BY <1>14 DEF WriteTransition, After, TransitionStates
  <2>. QED  BY <1>0, <2>1, <2>2
<1>15. CASE Complete(w)
  BY <1>0, <1>15 DEF Complete, Release
<1>16. CASE SetBack(w)
  BY <1>0, <1>16 DEF SetBack, Release
<1>. QED
  BY <1>1, <1>2, <1>3, <1>4, <1>5, <1>6, <1>7, <1>8, <1>9, <1>10, <1>11, <1>12, <1>13,
     <1>14, <1>15, <1>16 DEF WorkerStep
-----------------------------------------------------------------------------
(* Ownership: an idle worker holds nothing, so that claiming a capture     *)
(* never gives another one up.                                             *)
IdleIsFree == \A w \in Workers : pc[w] = "idle" => job[w] = NoCapture

Ownership == IdleIsFree /\ InflightIsOwned

(* Elsewhere a capture only leaves the in-flight states, and the workers'  *)
(* jobs change only in a crash, which leaves none in flight.               *)
LEMMA ElsewhereFrees ==
    ASSUME TypeInv, Elsewhere
    PROVE  /\ \A c \in Captures : state'[c] \in InflightStates => state[c] \in InflightStates
           /\ \/ UNCHANGED <<pc, job>>
              \/ /\ \A c \in Captures : state'[c] \notin InflightStates
                 /\ \A w \in Workers : pc'[w] = "idle" /\ job'[w] = NoCapture
<1>. DEFINE Frees == \A c \in Captures :
                        state'[c] \in InflightStates => state[c] \in InflightStates
<1>. USE DEF InflightStates
<1>1. ASSUME UNCHANGED storeVars PROVE Frees
  BY <1>1 DEF storeVars
<1>2. ASSUME NEW S, WriteReady(S) PROVE Frees
  BY <1>2 DEF WriteReady
<1>3. CASE \E c \in Captures : CreateCapture(c) \/ BackoffElapses(c) \/ ServerStep(c)
  BY <1>1, <1>3 DEF CreateCapture, InsertCapture, BackoffElapses, ServerStep, workerVars,
                    TypeInv, TypeOK, StoreTypeOK
<1>4. CASE \E c \in Captures, a \in Artifacts : BeginPut(c, a) \/ FinishPut(c, a)
  BY <1>1, <1>4 DEF BeginPut, FinishPut, MarkReceived, workerVars
<1>5. CASE \E t \in Threads, c \in Captures : ReadCommit(t, c) \/ ReadRetry(t, c)
  BY <1>1, <1>5 DEF ReadCommit, ReadRetry, Accept, workerVars
<1>6. CASE \E t \in Threads : ReadResume(t) \/ ThreadWrite(t)
  BY <1>1, <1>2, <1>6 DEF ReadResume, Accept, ThreadWrite, WriteCommit, WriteRetry, WriteResume,
                          WriteReadyNow, FinishThread, workerVars
<1>7. CASE \E w \in Workers : ServiceRestart(w)
  BY <1>1, <1>7 DEF ServiceRestart, workerVars
<1>8. CASE \E start \in starting : ServiceStarted(start[1], start[2])
  BY <1>2, <1>8 DEF ServiceStarted, Recover
<1>9. CASE Crash
  BY <1>2, <1>9 DEF Crash, Recover, Inflight, WriteReady
<1>. QED  BY <1>3, <1>4, <1>5, <1>6, <1>7, <1>8, <1>9 DEF Elsewhere

LEMMA OwnershipInitial == ASSUME Init PROVE Ownership
BY DEF Init, StoreInit, EngineInit, Ownership, IdleIsFree, InflightIsOwned, InflightStates

LEMMA WorkerKeepsOwnership ==
    ASSUME TypeInv, Ownership, NEW w \in Workers, WorkerStep(w)
    PROVE  Ownership'
<1>. USE DEF Ownership, IdleIsFree, InflightIsOwned
<1>1. WorkerHolds(w) /\ WorkerWrites(w) /\ \A v \in Workers \ {w} : pc'[v] = pc[v]
  BY WorkerOwns, WorkerStores
<1>2. /\ state \in [Captures -> CaptureStates]
      /\ job \in [Workers -> Captures \cup {NoCapture}]
      /\ NoCapture \notin Captures
  BY EngineConstants DEF TypeInv, TypeOK, StoreTypeOK, EngineTypeOK
<1>3. CASE UNCHANGED job /\ (pc'[w] = "idle" => pc[w] = "idle")
  <2>1. IdleIsFree'
    BY <1>1, <1>3
  <2>2. ASSUME NEW c \in Captures, state'[c] \in InflightStates
        PROVE  \E v \in Workers : job[v] = c
    <3>1. CASE UNCHANGED state
      BY <2>2, <3>1
    <3>2. CASE \E d \in Captures : WriteClaim(d) /\ job' = [job EXCEPT ![w] = d]
      BY <1>2, <1>3, <2>2, <3>2 DEF WriteClaim
    <3>3. ASSUME NEW s, state' = [state EXCEPT ![job[w]] = s]
          PROVE  \E v \in Workers : job[v] = c
      BY <1>2, <2>2, <3>3
    <3>. QED
      BY <1>1, <3>1, <3>2, <3>3 DEF WorkerWrites, storeVars, AddOrphans, MarkUploaded,
            InsertMapping, WriteState, WriteComplete, WriteSetback
  <2>. QED  BY <1>3, <2>1, <2>2
<1>4. CASE /\ pc[w] = "idle" /\ pc'[w] = "upload"
           /\ \E c \in Captures : WriteClaim(c) /\ job' = [job EXCEPT ![w] = c]
  <2>1. PICK c \in Captures : WriteClaim(c) /\ job' = [job EXCEPT ![w] = c]
    BY <1>4
  <2>2. job[w] = NoCapture
    BY <1>4
  <2>3. IdleIsFree'
    BY <1>1, <1>2, <1>4, <2>1
  <2>4. ASSUME NEW d \in Captures, state'[d] \in InflightStates
        PROVE  \E v \in Workers : job'[v] = d
    BY <1>2, <2>1, <2>2, <2>4 DEF WriteClaim
  <2>. QED  BY <2>3, <2>4
<1>5. CASE \E s \in {"complete"} \cup SetbackStates :
              state' = [state EXCEPT ![job[w]] = s] /\ Release(w)
  <2>1. PICK s \in {"complete"} \cup SetbackStates :
           state' = [state EXCEPT ![job[w]] = s] /\ Release(w)
    BY <1>5
  <2>2. s \notin InflightStates
    BY DEF SetbackStates, AttentionStates, InflightStates
  <2>3. IdleIsFree'
    BY <1>1, <1>2, <2>1 DEF Release
  <2>4. ASSUME NEW d \in Captures, state'[d] \in InflightStates
        PROVE  \E v \in Workers : job'[v] = d
    BY <1>2, <2>1, <2>2, <2>4 DEF Release
  <2>. QED  BY <2>3, <2>4
<1>. QED
  BY <1>1, <1>3, <1>4, <1>5 DEF WorkerHolds, WriteComplete, WriteSetback

LEMMA OwnershipStep == ASSUME TypeInv, Ownership, [Next]_vars PROVE Ownership'
<1>1. CASE Elsewhere
  BY <1>1, ElsewhereFrees DEF Ownership, IdleIsFree, InflightIsOwned
<1>2. CASE \E w \in Workers : Worker(w)
  BY <1>2, WorkerKeepsOwnership DEF Worker
<1>3. ASSUME NEW r \in Reconcilers, Reconcile(r) PROVE Ownership'
  <2>1. UNCHANGED <<state, pc, job>>
    BY <1>3, ReconcileStores
       DEF Reconcile, ReconcileStep, ScanInserts, InsertMapping, storeVars
  <2>. QED  BY <2>1 DEF Ownership, IdleIsFree, InflightIsOwned
<1>4. CASE UNCHANGED vars
  BY <1>4 DEF vars, storeVars, workerVars, Ownership, IdleIsFree, InflightIsOwned
<1>. QED  BY <1>1, <1>2, <1>3, <1>4, NextCases

(* No interleaving of overlapping workers, API calls, crashes and service  *)
(* restarts strands a capture in a state that claim_next never looks at.   *)
THEOREM Owned == Spec => []InflightIsOwned
<1>1. Init => Ownership
  BY OwnershipInitial
<1>2. TypeInv /\ Ownership /\ [Next]_vars => Ownership'
  BY OwnershipStep
<1>3. Ownership => InflightIsOwned
  BY DEF Ownership
<1>. QED  BY <1>1, <1>2, <1>3, TypeInvariant, PTL DEF Spec
-----------------------------------------------------------------------------
(* Automatic retries are bounded, for any number of overlapping workers.   *)
(*                                                                         *)
(* Two workers may hold the same capture and both fail while its attempt   *)
(* count is still below the limit, so the count alone bounds nothing.  The *)
(* proof counts claims: whoever holds the capture was let in by a distinct *)
(* "readied", and every claim still to come is either waiting in the store *)
(* or in the hands of a worker that is about to schedule a retry.          *)

Holders(c) == {w \in Workers : job[w] = c}
Postponing(c) == {w \in Workers : job[w] = c /\ pc[w] = "retry_wait"}
Waiting(c) == IF state[c] \in {"ready", "retry_wait"} THEN 1 ELSE 0

LetIn == \A c \in Captures : Cardinality(Holders(c)) + Waiting(c) <= readied[c]
ClaimsLeft ==
    \A c \in Captures :
        attempt[c] + Cardinality(Postponing(c)) + Waiting(c) <= MaxAttempts - 1 + readied[c]

Budget == LetIn /\ ClaimsLeft

LEMMA Counts ==
    ASSUME NEW c
    PROVE  /\ IsFiniteSet(Holders(c)) /\ Cardinality(Holders(c)) \in Nat
           /\ IsFiniteSet(Postponing(c)) /\ Cardinality(Postponing(c)) \in Nat
<1>1. Holders(c) \in SUBSET Workers /\ Postponing(c) \in SUBSET Workers
  BY DEF Holders, Postponing
<1>. QED  BY <1>1, WorkersFinite, FS_Subset, FS_CardinalityType

(* A worker that holds c without postponing it is one holder more.         *)
LEMMA HoldersOutnumber ==
    ASSUME NEW c, NEW w \in Workers, job[w] = c, pc[w] # "retry_wait"
    PROVE  Cardinality(Postponing(c)) + 1 <= Cardinality(Holders(c))
<1>1. Postponing(c) \in SUBSET (Holders(c) \ {w}) /\ w \in Holders(c)
  BY DEF Holders, Postponing
<1>2. IsFiniteSet(Holders(c) \ {w}) /\ Cardinality(Holders(c) \ {w}) = Cardinality(Holders(c)) - 1
  BY <1>1, Counts, FS_RemoveElement
<1>3. Cardinality(Postponing(c)) <= Cardinality(Holders(c) \ {w})
  BY <1>1, <1>2, FS_Subset
<1>. QED  BY <1>2, <1>3, Counts

LEMMA BudgetInitial == ASSUME Init PROVE Budget
<1>1. \A c \in Captures : Holders(c) = {} /\ Postponing(c) = {}
  BY EngineConstants DEF Init, EngineInit, Holders, Postponing
<1>2. \A c \in Captures : state[c] = "absent" /\ attempt[c] = 0 /\ readied[c] = 0
  BY DEF Init, StoreInit
<1>. QED  BY <1>1, <1>2, FS_EmptySet, EngineConstants DEF Budget, LetIn, ClaimsLeft, Waiting
-----------------------------------------------------------------------------
(* Outside the workers a capture waits only when it is readied.            *)
LEMMA ElsewhereReadies ==
    ASSUME TypeInv, Elsewhere, NEW c \in Captures
    PROVE  \/ readied'[c] = readied[c] /\ state'[c] \in {state[c], "receiving"}
           \/ readied'[c] = readied[c] + 1
<1>. DEFINE Readies == \/ readied'[c] = readied[c] /\ state'[c] \in {state[c], "receiving"}
                       \/ readied'[c] = readied[c] + 1
<1>0. state \in [Captures -> CaptureStates] /\ readied \in [Captures -> Nat]
  BY DEF TypeInv, TypeOK, StoreTypeOK
<1>1. CASE UNCHANGED <<state, readied>>
  BY <1>1
<1>2. ASSUME NEW S, WriteReady(S) PROVE Readies
  BY <1>0, <1>2 DEF WriteReady
<1>3. CASE \E d \in Captures : CreateCapture(d)
  BY <1>0, <1>3 DEF CreateCapture, InsertCapture
<1>4. CASE \E d \in Captures : BackoffElapses(d) \/ ServerStep(d)
  BY <1>1, <1>4 DEF BackoffElapses, ServerStep, storeVars
<1>5. CASE \E d \in Captures, a \in Artifacts : BeginPut(d, a) \/ FinishPut(d, a)
  BY <1>1, <1>5 DEF BeginPut, FinishPut, MarkReceived, storeVars
<1>6. CASE \E t \in Threads, d \in Captures : ReadCommit(t, d) \/ ReadRetry(t, d)
  BY <1>1, <1>6 DEF ReadCommit, ReadRetry, Accept, storeVars
<1>7. CASE \E t \in Threads : ReadResume(t) \/ ThreadWrite(t)
  BY <1>1, <1>2, <1>7 DEF ReadResume, Accept, ThreadWrite, WriteCommit, WriteRetry, WriteResume,
                          WriteReadyNow, storeVars
<1>8. CASE \E w \in Workers : ServiceRestart(w)
  BY <1>1, <1>8 DEF ServiceRestart, storeVars
<1>9. CASE Crash \/ \E start \in starting : ServiceStarted(start[1], start[2])
  BY <1>2, <1>9 DEF Crash, ServiceStarted, Recover
<1>. QED  BY <1>3, <1>4, <1>5, <1>6, <1>7, <1>8, <1>9 DEF Elsewhere

LEMMA ElsewhereBudget == ASSUME TypeInv, Budget, Elsewhere PROVE Budget'
<1>0. attempt \in [Captures -> Nat] /\ readied \in [Captures -> Nat]
  BY DEF TypeInv, TypeOK, StoreTypeOK
<1>1. \A c \in Captures : /\ Cardinality(Holders(c))' <= Cardinality(Holders(c))
                          /\ Cardinality(Postponing(c))' <= Cardinality(Postponing(c))
                          /\ Cardinality(Holders(c))' \in Nat
                          /\ Cardinality(Postponing(c))' \in Nat
  <2>1. CASE UNCHANGED <<pc, job>>
    <3>1. \A c \in Captures : Holders(c)' = Holders(c) /\ Postponing(c)' = Postponing(c)
      BY <2>1 DEF Holders, Postponing
    <3>. QED  BY <3>1, Counts
  <2>2. CASE \A w \in Workers : pc'[w] = "idle" /\ job'[w] = NoCapture
    <3>1. \A c \in Captures : Holders(c)' = {} /\ Postponing(c)' = {}
      BY <2>2, EngineConstants DEF Holders, Postponing
    <3>. QED  BY <3>1, Counts, FS_EmptySet
  <2>. QED  BY <2>1, <2>2, ElsewhereFrees
<1>2. UNCHANGED attempt
  BY ElsewhereKeeps
<1>3. \A c \in Captures : \/ readied'[c] = readied[c] /\ Waiting(c)' <= Waiting(c)
                          \/ readied'[c] = readied[c] + 1 /\ Waiting(c)' <= Waiting(c) + 1
  BY ElsewhereReadies DEF Waiting
<1>4. \A c \in Captures : Waiting(c) \in {0, 1} /\ Waiting(c)' \in {0, 1}
  BY DEF Waiting
<1>. QED  BY <1>0, <1>1, <1>2, <1>3, <1>4, Counts, EngineConstants DEF Budget, LetIn, ClaimsLeft
-----------------------------------------------------------------------------
(* A worker decides to postpone its capture only below the limit.          *)
LEMMA RaisePostpones ==
    ASSUME TypeInv, NEW w \in Workers, pc[w] # "idle", Raise(w), pc'[w] = "retry_wait"
    PROVE  attempt[job[w]] < MaxAttempts
<1>1. job[w] \in Captures /\ attempt[job[w]] \in Nat /\ MaxAttempts \in Nat
  BY EngineConstants DEF TypeInv, TypeOK, StoreTypeOK, JobOK
<1>2. pc \in [Workers -> Steps]
  BY DEF TypeInv, TypeOK, EngineTypeOK
<1>3. CASE RaiseAuth(w) \/ RaiseDefect(w)
  BY <1>2, <1>3 DEF RaiseAuth, RaiseDefect, Goto
<1>4. CASE RaiseRetryable(w)
  BY <1>1, <1>2, <1>4 DEF RaiseRetryable, Goto
<1>. QED  BY <1>3, <1>4 DEF Raise

LEMMA WorkerPostpones ==
    ASSUME TypeInv, NEW w \in Workers, WorkerStep(w), pc'[w] = "retry_wait"
    PROVE  pc[w] \notin {"idle", "retry_wait"} /\ attempt[job[w]] < MaxAttempts
<1>. DEFINE Below == pc[w] \notin {"idle", "retry_wait"} /\ attempt[job[w]] < MaxAttempts
<1>0. pc \in [Workers -> Steps]
  BY DEF TypeInv, TypeOK, EngineTypeOK
<1>1. CASE Claim(w)
  BY <1>0, <1>1 DEF Claim, Goto
<1>2. CASE ArtifactUnavailable(w)
  BY <1>2, RaisePostpones DEF ArtifactUnavailable, Raise
<1>3. CASE UploadFile(w)
  BY <1>3, RaisePostpones, CallFailsFrame DEF UploadFile
<1>4. CASE RecordReceipt(w)
  BY <1>4 DEF RecordReceipt
<1>5. CASE UploadsDone(w)
  BY <1>0, <1>5 DEF UploadsDone, Goto
<1>6. CASE FindRecord(w)
  BY <1>0, <1>6, RaisePostpones, CallFailsFrame DEF FindRecord, Goto
<1>7. CASE MakeRecord(w)
  BY <1>0, <1>7, RaisePostpones, CallFailsFrame DEF MakeRecord, CallDelayed, Goto, Raise
<1>8. CASE RefindRecord(w)
  BY <1>0, <1>8, RaisePostpones, CallFailsFrame DEF RefindRecord, Goto, Raise
<1>9. CASE UpdateRecord(w)
  BY <1>0, <1>9, RaisePostpones, CallFailsFrame DEF UpdateRecord, Goto, Raise
<1>10. CASE ExportRecord(w)
  BY <1>0, <1>10, RaisePostpones, CallFailsFrame DEF ExportRecord, Goto, Raise
<1>11. CASE WriteExport(w)
  BY <1>0, <1>11, RaisePostpones DEF WriteExport, Goto, Raise
<1>12. CASE FindMapping(w) \/ SaveMapping(w)
  BY <1>0, <1>12, RaisePostpones DEF FindMapping, SaveMapping, Goto, Raise
<1>13. CASE CheckTransition(w)
  BY <1>13, RaisePostpones DEF CheckTransition, Raise, TransitionStates
<1>14. CASE WriteTransition(w)
  <2>1. pc'[w] = After(pc[w]) /\ pc[w] \in TransitionStates \ {"complete"}
    BY <1>0, <1>14 DEF WriteTransition, Goto
  <2>. QED  BY <2>1 DEF After, TransitionStates
<1>15. CASE Complete(w)
  BY <1>0, <1>15 DEF Complete, Release
<1>16. CASE SetBack(w)
  BY <1>0, <1>16 DEF SetBack, Release
<1>. QED
  BY <1>1, <1>2, <1>3, <1>4, <1>5, <1>6, <1>7, <1>8, <1>9, <1>10, <1>11, <1>12, <1>13,
     <1>14, <1>15, <1>16 DEF WorkerStep
-----------------------------------------------------------------------------
(* The three things a worker does that concern the budget.                 *)
Works(w) ==     \* goes on with its capture, which no longer waits
    /\ UNCHANGED <<job, attempt, readied>>
    /\ \/ UNCHANGED state
       \/ \E s \in InflightStates \cup {"complete"} : state' = [state EXCEPT ![job[w]] = s]

Begins(w) ==
    /\ pc[w] = "idle" /\ pc'[w] # "retry_wait"
    /\ \E c \in Captures : WriteClaim(c) /\ job' = [job EXCEPT ![w] = c]

Ends(w) ==
    /\ \E s \in {"complete"} \cup SetbackStates :
          /\ state' = [state EXCEPT ![job[w]] = s]
          /\ s = "retry_wait" => pc[w] = "retry_wait"
    /\ job' = [job EXCEPT ![w] = NoCapture]
    /\ UNCHANGED <<attempt, readied>>

LEMMA SettingBack ==
    ASSUME NEW w \in Workers, WorkerStep(w), pc[w] \in SetbackStates
    PROVE  WriteSetback(job[w], pc[w]) /\ Release(w)
BY DEF WorkerStep, Claim, ArtifactUnavailable, UploadFile, RecordReceipt, UploadsDone, FindRecord,
       MakeRecord, RefindRecord, UpdateRecord, ExportRecord, WriteExport, FindMapping, SaveMapping,
       CheckTransition, WriteTransition, Complete, SetBack, SetbackStates, AttentionStates,
       TransitionStates

LEMMA WorkerBudgets ==
    ASSUME TypeInv, IdleIsFree, NEW w \in Workers, WorkerStep(w)
    PROVE  Works(w) \/ Begins(w) \/ Ends(w)
<1>0. WorkerHolds(w) /\ WorkerWrites(w)
  BY WorkerOwns, WorkerStores
<1>1. CASE UNCHANGED job
  <2>1. job \in [Workers -> Captures \cup {NoCapture}] /\ NoCapture \notin Captures
    BY EngineConstants DEF TypeInv, TypeOK, EngineTypeOK
  <2>2. ASSUME pc[w] = "idle", NEW c \in Captures, job' = [job EXCEPT ![w] = c] PROVE FALSE
    BY <1>1, <2>1, <2>2 DEF IdleIsFree
  <2>3. ASSUME pc[w] \in SetbackStates PROVE Ends(w)
    BY <2>3, SettingBack DEF WriteSetback, Release, Ends
  <2>4. CASE pc[w] \in InflightStates /\ WriteState(job[w], pc[w])
    BY <1>1, <2>4 DEF WriteState, Works
  <2>5. CASE WriteComplete(job[w])
    BY <1>1, <2>5 DEF WriteComplete, Works
  <2>6. CASE UNCHANGED <<state, attempt, readied>>
    BY <1>1, <2>6 DEF Works
  <2>. QED
    BY <1>0, <2>2, <2>3, <2>4, <2>5, <2>6
       DEF WorkerWrites, storeVars, AddOrphans, MarkUploaded, InsertMapping
<1>2. CASE /\ pc[w] = "idle" /\ pc'[w] = "upload"
           /\ \E c \in Captures : WriteClaim(c) /\ job' = [job EXCEPT ![w] = c]
  BY <1>2 DEF Begins
<1>3. CASE WriteComplete(job[w]) /\ Release(w)
  <2>1. /\ state' = [state EXCEPT ![job[w]] = "complete"]
        /\ job' = [job EXCEPT ![w] = NoCapture]
        /\ UNCHANGED <<attempt, readied>>
    BY <1>3 DEF WriteComplete, Release
  <2>2. "complete" \in {"complete"} \cup SetbackStates /\ "complete" # "retry_wait"
    OBVIOUS
  <2>. QED  BY <2>1, <2>2 DEF Ends
<1>4. CASE pc[w] \in SetbackStates /\ WriteSetback(job[w], pc[w]) /\ Release(w)
  BY <1>4 DEF WriteSetback, Release, Ends
<1>. QED  BY <1>0, <1>1, <1>2, <1>3, <1>4 DEF WorkerHolds

(* A step of w moves only w in and out of the two sets.                    *)
LEMMA OneMoves ==
    ASSUME TypeInv, NEW w \in Workers, WorkerStep(w), NEW c \in Captures
    PROVE  /\ job'[w] = c => Holders(c)' = Holders(c) \cup {w}
           /\ job'[w] # c => Holders(c)' = Holders(c) \ {w}
           /\ (job'[w] = c /\ pc'[w] = "retry_wait") => Postponing(c)' = Postponing(c) \cup {w}
           /\ ~(job'[w] = c /\ pc'[w] = "retry_wait") => Postponing(c)' = Postponing(c) \ {w}
<1>1. \A v \in Workers \ {w} : pc'[v] = pc[v]
  BY WorkerOwns
<1>2. \A v \in Workers \ {w} : job'[v] = job[v]
  <2>1. UNCHANGED job \/ \E d : job' = [job EXCEPT ![w] = d]
    BY WorkerOwns DEF WorkerHolds, Release
  <2>. QED  BY <2>1 DEF TypeInv, TypeOK, EngineTypeOK
<1>. QED  BY <1>1, <1>2 DEF Holders, Postponing

LEMMA WorkerBudget ==
    ASSUME TypeInv, Ownership, Budget, NEW w \in Workers, WorkerStep(w)
    PROVE  Budget'
<1>. SUFFICES ASSUME NEW c \in Captures
              PROVE  /\ Cardinality(Holders(c)') + Waiting(c)' <= readied'[c]
                     /\ attempt'[c] + Cardinality(Postponing(c)') + Waiting(c)'
                           <= MaxAttempts - 1 + readied'[c]
  BY DEF Budget, LetIn, ClaimsLeft
<1>. DEFINE h == Cardinality(Holders(c))
            p == Cardinality(Postponing(c))
<1>0. /\ attempt \in [Captures -> Nat] /\ readied \in [Captures -> Nat]
      /\ state \in [Captures -> CaptureStates]
      /\ job \in [Workers -> Captures \cup {NoCapture}] /\ NoCapture \notin Captures
      /\ MaxAttempts \in Nat
      /\ pc[w] # "idle" => job[w] \in Captures
      /\ pc[w] = "idle" => job[w] = NoCapture
  BY EngineConstants
     DEF TypeInv, TypeOK, StoreTypeOK, EngineTypeOK, JobOK, Ownership, IdleIsFree
<1>1. /\ h \in Nat /\ p \in Nat
      /\ h + Waiting(c) <= readied[c]
      /\ attempt[c] + p + Waiting(c) <= MaxAttempts - 1 + readied[c]
      /\ w \in Holders(c) <=> job[w] = c
      /\ w \in Postponing(c) <=> job[w] = c /\ pc[w] = "retry_wait"
  BY Counts DEF Budget, LetIn, ClaimsLeft, Holders, Postponing
<1>2. /\ job'[w] = c => Cardinality(Holders(c)') = IF job[w] = c THEN h ELSE h + 1
      /\ job'[w] # c => Cardinality(Holders(c)') = IF job[w] = c THEN h - 1 ELSE h
  BY <1>1, OneMoves, Counts, FS_AddElement, FS_RemoveElement
<1>3. /\ (job'[w] = c /\ pc'[w] = "retry_wait")
            => Cardinality(Postponing(c)') = IF job[w] = c /\ pc[w] = "retry_wait" THEN p ELSE p + 1
      /\ ~(job'[w] = c /\ pc'[w] = "retry_wait")
            => Cardinality(Postponing(c)') = IF job[w] = c /\ pc[w] = "retry_wait" THEN p - 1 ELSE p
  BY <1>1, OneMoves, Counts, FS_AddElement, FS_RemoveElement
<1>4. Waiting(c) \in {0, 1} /\ Waiting(c)' \in {0, 1}
  BY DEF Waiting
<1>5. CASE Works(w)
  <2>1. Waiting(c)' <= Waiting(c)
    BY <1>0, <1>5 DEF Works, Waiting, InflightStates
  <2>2. ASSUME job[w] = c, pc'[w] = "retry_wait"
        PROVE  pc[w] # "retry_wait" /\ attempt[c] < MaxAttempts /\ p + 1 <= h
    BY <2>2, WorkerPostpones, HoldersOutnumber
  <2>3. Cardinality(Holders(c)') = h /\ UNCHANGED <<attempt, readied, job>>
    BY <1>2, <1>5 DEF Works
  <2>4. CASE job[w] = c /\ pc'[w] = "retry_wait"
    BY <1>0, <1>1, <1>3, <1>4, <2>1, <2>2, <2>3, <2>4
  <2>5. CASE ~(job[w] = c /\ pc'[w] = "retry_wait")
    BY <1>0, <1>1, <1>3, <1>4, <2>1, <2>3, <2>5
  <2>. QED  BY <2>4, <2>5
<1>6. CASE Begins(w)
  <2>1. PICK d \in Captures : WriteClaim(d) /\ job' = [job EXCEPT ![w] = d]
    BY <1>6 DEF Begins
  <2>2. pc[w] = "idle" /\ job[w] = NoCapture /\ pc'[w] # "retry_wait" /\ job'[w] = d
    BY <1>0, <1>6, <2>1 DEF Begins
  <2>3. UNCHANGED readied
    BY <2>1 DEF WriteClaim
  <2>4. Cardinality(Postponing(c)') = p
    BY <1>3, <2>2
  <2>5. CASE c = d
    <3>1. Waiting(c) = 1 /\ Waiting(c)' = 0 /\ attempt'[c] = attempt[c] + 1
      BY <1>0, <2>1, <2>5 DEF WriteClaim, NextToClaim, Claimable, Waiting
    <3>2. Cardinality(Holders(c)') = h + 1
      BY <1>0, <1>2, <2>2, <2>5
    <3>. QED  BY <1>0, <1>1, <2>3, <2>4, <3>1, <3>2
  <2>6. CASE c # d
    <3>1. Waiting(c)' = Waiting(c) /\ attempt'[c] = attempt[c]
      BY <1>0, <2>1, <2>6 DEF WriteClaim, Waiting
    <3>2. Cardinality(Holders(c)') = h
      BY <1>0, <1>2, <2>2, <2>6
    <3>. QED  BY <1>1, <2>3, <2>4, <3>1, <3>2
  <2>. QED  BY <2>5, <2>6
<1>7. CASE Ends(w)
  <2>1. /\ job'[w] = NoCapture /\ UNCHANGED <<attempt, readied>>
        /\ \E s \in {"complete"} \cup SetbackStates :
              state' = [state EXCEPT ![job[w]] = s] /\ (s = "retry_wait" => pc[w] = "retry_wait")
    BY <1>0, <1>7 DEF Ends
  <2>2. CASE job[w] # c
    <3>1. Waiting(c)' = Waiting(c)
      BY <1>0, <2>1, <2>2 DEF Waiting
    <3>. QED  BY <1>0, <1>1, <1>2, <1>3, <2>1, <2>2, <3>1
  <2>3. CASE job[w] = c
    <3>1. Cardinality(Holders(c)') = h - 1
      BY <1>0, <1>2, <2>1, <2>3
    <3>2. CASE pc[w] = "retry_wait"
      <4>1. Cardinality(Postponing(c)') = p - 1
        BY <1>0, <1>3, <2>1, <2>3, <3>2
      <4>. QED  BY <1>0, <1>1, <1>4, <2>1, <3>1, <4>1
    <3>3. CASE pc[w] # "retry_wait"
      <4>1. Cardinality(Postponing(c)') = p
        BY <1>0, <1>3, <2>1, <2>3, <3>3
      <4>2. Waiting(c)' = 0
        BY <1>0, <2>1, <2>3, <3>3 DEF Waiting, SetbackStates, AttentionStates
      <4>. QED  BY <1>0, <1>1, <1>4, <2>1, <3>1, <4>1, <4>2
    <3>. QED  BY <3>2, <3>3
  <2>. QED  BY <2>2, <2>3
<1>. QED  BY <1>5, <1>6, <1>7, WorkerBudgets DEF Ownership

LEMMA BudgetStep == ASSUME TypeInv, Ownership, Budget, [Next]_vars PROVE Budget'
<1>1. CASE Elsewhere
  BY <1>1, ElsewhereBudget
<1>2. ASSUME NEW w \in Workers, Worker(w) PROVE Budget'
  BY <1>2, WorkerBudget DEF Worker
<1>3. CASE UNCHANGED <<state, attempt, readied, pc, job>>
  <2>1. \A c \in Captures : /\ Holders(c)' = Holders(c) /\ Postponing(c)' = Postponing(c)
                            /\ Waiting(c)' = Waiting(c)
    BY <1>3 DEF Holders, Postponing, Waiting
  <2>. QED  BY <1>3, <2>1 DEF Budget, LetIn, ClaimsLeft
<1>4. ASSUME NEW r \in Reconcilers, Reconcile(r)
      PROVE  UNCHANGED <<state, attempt, readied, pc, job>>
  BY <1>4, ReconcileStores
     DEF Reconcile, ReconcileStep, ScanInserts, InsertMapping, storeVars
<1>5. CASE UNCHANGED vars
  BY <1>3, <1>5 DEF vars, storeVars, workerVars
<1>. QED  BY <1>1, <1>2, <1>3, <1>4, <1>5, NextCases

(* However many workers, services and crashes overlap, a capture is not    *)
(* attempted more than max_attempts times beyond what clients, logins and  *)
(* restarts asked for.                                                     *)
THEOREM Attempts == Spec => []AttemptsBounded
<1>1. Init => Budget
  BY BudgetInitial
<1>2. Init => Ownership
  BY OwnershipInitial
<1>3. TypeInv /\ Ownership /\ [Next]_vars => Ownership'
  BY OwnershipStep
<1>4. TypeInv /\ Ownership /\ Budget /\ [Next]_vars => Budget'
  BY BudgetStep
<1>5. TypeInv /\ Budget => AttemptsBounded
  <2>. SUFFICES ASSUME TypeInv, Budget, NEW c \in Captures
                PROVE  attempt[c] <= MaxAttempts - 1 + readied[c]
    BY DEF AttemptsBounded
  <2>1. attempt[c] \in Nat /\ readied[c] \in Nat /\ MaxAttempts \in Nat
    BY EngineConstants DEF TypeInv, TypeOK, StoreTypeOK
  <2>2. Cardinality(Postponing(c)) \in Nat /\ Waiting(c) \in {0, 1}
    BY Counts DEF Waiting
  <2>3. attempt[c] + Cardinality(Postponing(c)) + Waiting(c) <= MaxAttempts - 1 + readied[c]
    BY DEF Budget, ClaimsLeft
  <2>. QED  BY <2>1, <2>2, <2>3
<1>. QED  BY <1>1, <1>2, <1>3, <1>4, <1>5, TypeInvariant, PTL DEF Spec
-----------------------------------------------------------------------------
(* Mappings, events and orphan candidates.                                 *)

(* What a step does to mappings and events, whoever takes it.              *)
LEMMA MappingsAndEvents ==
    ASSUME TypeInv, [Next]_vars
    PROVE  /\ \/ UNCHANGED mappings
              \/ \E w \in Workers : pc[w] = "mapping" /\ WorkerStep(w)
                                    /\ InsertMapping(job[w], found[w], exported[w])
              \/ \E r \in Reconcilers : ScanInserts(r)
           /\ \/ UNCHANGED events
              \/ \E w \in Workers : pc[w] = "complete" /\ WorkerStep(w)
                                    /\ job[w] \in Captures /\ WriteComplete(job[w])
<1>1. CASE Elsewhere
  BY <1>1, ElsewhereKeeps
<1>2. ASSUME NEW w \in Workers, Worker(w)
      PROVE  /\ \/ UNCHANGED mappings
                \/ /\ pc[w] = "mapping" /\ WorkerStep(w)
                   /\ InsertMapping(job[w], found[w], exported[w])
             /\ \/ UNCHANGED events
                \/ /\ pc[w] = "complete" /\ WorkerStep(w)
                   /\ job[w] \in Captures /\ WriteComplete(job[w])
  BY <1>2, WorkerStores DEF Worker, WorkerWrites, storeVars, AddOrphans, WriteClaim, MarkUploaded,
     InsertMapping, WriteState, WriteComplete, WriteSetback, TypeInv, JobOK
<1>3. ASSUME NEW r \in Reconcilers, Reconcile(r)
      PROVE  (UNCHANGED mappings \/ ScanInserts(r)) /\ UNCHANGED events
  BY <1>3, ReconcileStores DEF Reconcile, ScanInserts, InsertMapping, storeVars
<1>4. CASE UNCHANGED vars
  BY <1>4 DEF vars, storeVars
<1>. QED  BY <1>1, <1>2, <1>3, <1>4, NextCases

(* A new event is appended, and only for a capture that has none.          *)
LEMMA EventsGrow ==
    ASSUME TypeInv, [Next]_vars
    PROVE  \/ UNCHANGED events
           \/ \E c \in Captures : /\ ~Published(c)
                                  /\ mappings[c] # {}
                                  /\ UNCHANGED mappings
                                  /\ events' = Append(events, [capture |-> c, ref |-> Latest(c)])
BY MappingsAndEvents DEF WriteComplete
-----------------------------------------------------------------------------
LEMMA AppendIndexes ==
    ASSUME NEW S, NEW s \in Seq(S), NEW e \in S
    PROVE  /\ Len(Append(s, e)) = Len(s) + 1
           /\ DOMAIN Append(s, e) = 1 .. Len(s) + 1
           /\ DOMAIN s = 1 .. Len(s)
           /\ \A i \in 1 .. Len(s) : Append(s, e)[i] = s[i]
           /\ Append(s, e)[Len(s) + 1] = e
           /\ Len(s) \in Nat
OBVIOUS

LEMMA ElementTyped ==
    ASSUME NEW S, NEW s \in Seq(S), NEW i \in DOMAIN s
    PROVE  s[i] \in S
OBVIOUS

LEMMA NewEventTyped ==
    ASSUME TypeInv, NEW c \in Captures, mappings[c] # {}
    PROVE  [capture |-> c, ref |-> Latest(c)] \in [capture : Captures, ref : Mappings]
BY LatestExists DEF TypeInv, TypeOK, StoreTypeOK

(* Nothing that was announced or recorded is taken back.                   *)
LEMMA HistoryStep ==
    ASSUME TypeInv, [Next]_vars
    PROVE  /\ \A c \in Captures : mappings[c] \subseteq mappings'[c]
           /\ Len(events') >= Len(events)
           /\ SubSeq(events', 1, Len(events)) = events
<1>1. \A c \in Captures : mappings[c] \subseteq mappings'[c]
  <2>1. mappings \in [Captures -> SUBSET Mappings]
    BY DEF TypeInv, TypeOK, StoreTypeOK
  <2>. QED  BY <2>1, MappingsAndEvents DEF ScanInserts, InsertMapping
<1>. DEFINE S == [capture : Captures, ref : Mappings]
<1>2. events \in Seq(S)
  BY DEF TypeInv, TypeOK, StoreTypeOK
<1>3. CASE UNCHANGED events
  <2>. HIDE DEF S
  <2>. QED  BY <1>1, <1>2, <1>3
<1>4. ASSUME NEW c \in Captures, ~Published(c), mappings[c] # {},
             events' = Append(events, [capture |-> c, ref |-> Latest(c)])
      PROVE  Len(events') >= Len(events) /\ SubSeq(events', 1, Len(events)) = events
  <2>. DEFINE e == [capture |-> c, ref |-> Latest(c)]
  <2>1. e \in S /\ events' = Append(events, e)
    BY <1>4, NewEventTyped
  <2>. HIDE DEF e, S
  <2>. QED  BY <1>2, <2>1
<1>. QED  BY <1>1, <1>3, <1>4, EventsGrow

THEOREM History == Spec => HistoryGrows
<1>1. TypeInv /\ [Next]_vars =>
        [/\ \A c \in Captures : mappings[c] \subseteq mappings'[c]
         /\ Len(events') >= Len(events)
         /\ SubSeq(events', 1, Len(events)) = events]_vars
  BY HistoryStep
<1>. QED  BY <1>1, TypeInvariant, PTL DEF Spec, HistoryGrows
-----------------------------------------------------------------------------
(* Why a worker that goes on has its export recorded: it only gets there   *)
(* from save_mapping, past which its locals stay as they are and nothing   *)
(* that is recorded is taken back.                                         *)
Recorded == {"matelab_verified", "complete"}
Own(w) == [version |-> found[w], export |-> exported[w]]

(* What a step of w does to the locals that the mapping was made of.       *)
Keeps(w) ==
    /\ \A v \in Workers \ {w} : /\ pc'[v] = pc[v] /\ job'[v] = job[v]
                                /\ found'[v] = found[v] /\ exported'[v] = exported[v]
    /\ \/ pc'[w] \notin Recorded
       \/ pc[w] \in Recorded /\ UNCHANGED <<job, found, exported>>
       \/ /\ pc[w] = "mapping" /\ Own(w) \in mappings'[job[w]]
          /\ UNCHANGED <<job, found, exported>>

LEMMA RaiseKeeps ==
    ASSUME TypeInv, NEW w \in Workers, Raise(w), UNCHANGED <<job, found, exported>>
    PROVE  Keeps(w)
BY DEF Raise, RaiseAuth, RaiseRetryable, RaiseDefect, Goto, TypeInv, TypeOK, EngineTypeOK,
       Keeps, Recorded

LEMMA CallFailsKeeps ==
    ASSUME TypeInv, NEW w \in Workers, NEW ACTION A, CallFails(w, A)
    PROVE  Keeps(w)
BY CallFailsFrame, RaiseKeeps

LEMMA WorkerKeeps ==
    ASSUME TypeInv, NEW w \in Workers, WorkerStep(w)
    PROVE  Keeps(w)
<1>0. /\ pc \in [Workers -> Steps] /\ job \in [Workers -> Captures \cup {NoCapture}]
      /\ found \in [Workers -> Nat] /\ exported \in [Workers -> Exports]
      /\ mappings \in [Captures -> SUBSET Mappings] /\ JobOK
  BY DEF TypeInv, TypeOK, EngineTypeOK, StoreTypeOK
<1>1. CASE Claim(w)
  BY <1>0, <1>1 DEF Claim, Goto, Keeps, Recorded
<1>2. CASE ArtifactUnavailable(w)
  BY <1>2, RaiseKeeps DEF ArtifactUnavailable, Raise, KeepLocals
<1>3. CASE UploadFile(w)
  BY <1>3, CallFailsKeeps DEF UploadFile, Keeps, Recorded
<1>4. CASE RecordReceipt(w)
  BY <1>4 DEF RecordReceipt, Keeps, Recorded
<1>5. CASE UploadsDone(w)
  BY <1>0, <1>5 DEF UploadsDone, KeepLocals, Goto, Keeps, Recorded
<1>6. CASE FindRecord(w)
  BY <1>0, <1>6, CallFailsKeeps DEF FindRecord, Goto, Keeps, Recorded
<1>7. CASE MakeRecord(w)
  <2>1. CASE CallFails(w, StoreRecord(job[w], pc[w] = "import"))
    BY <2>1, CallFailsKeeps
  <2>2. CASE CallDelayed(w)
    BY <2>2, RaiseKeeps DEF CallDelayed, Raise
  <2>3. CASE RaiseDefect(w) /\ KeepLocals
    BY <2>3, RaiseKeeps DEF Raise, KeepLocals
  <2>4. CASE Goto(w, "refind") /\ UNCHANGED <<job, found, exported>>
    BY <1>0, <2>4 DEF Goto, Keeps, Recorded
  <2>. QED  BY <1>7, <2>1, <2>2, <2>3, <2>4 DEF MakeRecord
<1>8. CASE RefindRecord(w)
  <2>1. CASE CallFails(w, UNCHANGED serverVars)
    BY <2>1, CallFailsKeeps
  <2>2. CASE RaiseDefect(w) /\ KeepLocals
    BY <2>2, RaiseKeeps DEF Raise, KeepLocals
  <2>3. CASE ~CallFails(w, UNCHANGED serverVars) /\ ~(RaiseDefect(w) /\ KeepLocals)
    BY <1>0, <1>8, <2>3 DEF RefindRecord, Goto, Keeps, Recorded
  <2>. QED  BY <2>1, <2>2, <2>3
<1>9. CASE UpdateRecord(w)
  <2>1. CASE CallFails(w, AddModule(job[w]))
    BY <2>1, CallFailsKeeps
  <2>2. CASE RaiseDefect(w) /\ KeepLocals
    BY <2>2, RaiseKeeps DEF Raise, KeepLocals
  <2>3. CASE Goto(w, "populating_record") /\ KeepLocals
    BY <1>0, <2>3 DEF KeepLocals, Goto, Keeps, Recorded
  <2>. QED  BY <1>9, <2>1, <2>2, <2>3 DEF UpdateRecord
<1>10. CASE ExportRecord(w)
  <2>1. CASE CallFails(w, UNCHANGED serverVars)
    BY <2>1, CallFailsKeeps
  <2>2. CASE RaiseDefect(w) /\ KeepLocals
    BY <2>2, RaiseKeeps DEF Raise, KeepLocals
  <2>3. CASE ~CallFails(w, UNCHANGED serverVars) /\ ~(RaiseDefect(w) /\ KeepLocals)
    BY <1>0, <1>10, <2>3 DEF ExportRecord, Goto, Keeps, Recorded
  <2>. QED  BY <2>1, <2>2, <2>3
<1>11. CASE WriteExport(w)
  BY <1>0, <1>11, RaiseKeeps DEF WriteExport, Goto, Raise, Keeps, Recorded
<1>12. CASE FindMapping(w)
  <2>1. CASE RaiseDefect(w)
    BY <1>12, <2>1, RaiseKeeps DEF FindMapping, Raise
  <2>2. CASE UNCHANGED pc
    BY <1>12, <2>2 DEF FindMapping, Keeps, Recorded
  <2>3. CASE /\ SameVersion(job[w], found[w]) # {}
             /\ \A m \in SameVersion(job[w], found[w]) : m.export = exported[w]
             /\ Goto(w, "matelab_verified") /\ UNCHANGED storeVars
    <3>1. job[w] \in Captures /\ pc[w] = "mapping" /\ UNCHANGED <<job, found, exported>>
      BY <1>0, <1>12 DEF FindMapping, JobOK
    <3>2. PICK m \in mappings[job[w]] : m.version = found[w] /\ m.export = exported[w]
      BY <2>3 DEF SameVersion
    <3>3. m = Own(w)
      <4>1. m \in Mappings
        BY <1>0, <3>1
      <4>. QED  BY <3>2, <4>1 DEF Own, Mappings
    <3>. QED  BY <1>0, <2>3, <3>1, <3>2, <3>3 DEF storeVars, Goto, Keeps
  <2>. QED  BY <1>12, <2>1, <2>2, <2>3 DEF FindMapping
<1>13. CASE SaveMapping(w)
  <2>1. CASE RaiseDefect(w)
    BY <1>13, <2>1, RaiseKeeps DEF SaveMapping, Raise
  <2>2. CASE InsertMapping(job[w], found[w], exported[w]) /\ Goto(w, "matelab_verified")
    <3>1. job[w] \in Captures /\ pc[w] = "mapping" /\ UNCHANGED <<job, found, exported>>
      BY <1>0, <1>13 DEF SaveMapping, JobOK
    <3>2. Own(w) \in mappings'[job[w]]
      BY <1>0, <2>2, <3>1 DEF InsertMapping, Own
    <3>. QED  BY <1>0, <2>2, <3>1, <3>2 DEF Goto, Keeps
  <2>. QED  BY <1>13, <2>1, <2>2 DEF SaveMapping
<1>14. CASE CheckTransition(w)
  <2>1. CASE RaiseDefect(w)
    BY <1>14, <2>1, RaiseKeeps DEF CheckTransition, Raise
  <2>2. CASE UNCHANGED pc
    <3>1. pc' = pc /\ UNCHANGED <<job, found, exported>>
      BY <1>14, <2>2 DEF CheckTransition
    <3>2. CASE pc[w] \in Recorded
      BY <3>1, <3>2 DEF Keeps
    <3>3. CASE pc[w] \notin Recorded
      BY <3>1, <3>3 DEF Keeps
    <3>. QED  BY <3>2, <3>3
  <2>. QED  BY <1>14, <2>1, <2>2 DEF CheckTransition
<1>15. CASE WriteTransition(w)
  <2>1. /\ pc' = [pc EXCEPT ![w] = After(pc[w])] /\ UNCHANGED <<job, found, exported>>
        /\ pc[w] \in TransitionStates \ {"complete"}
    BY <1>15 DEF WriteTransition, Goto
  <2>2. CASE pc[w] = "matelab_verified"
    <3>1. pc[w] \in Recorded /\ UNCHANGED <<job, found, exported>>
      BY <2>1, <2>2 DEF Recorded
    <3>2. \A v \in Workers \ {w} : pc'[v] = pc[v]
      BY <1>0, <2>1
    <3>. QED  BY <3>1, <3>2 DEF Keeps
  <2>3. CASE pc[w] # "matelab_verified"
    <3>1. After(pc[w]) \in {"find", "verifying_export", "export"}
      BY <2>1, <2>3 DEF After, TransitionStates
    <3>. QED  BY <1>0, <2>1, <3>1 DEF Keeps, Recorded
  <2>. QED  BY <2>2, <2>3
<1>16. CASE Complete(w) \/ SetBack(w)
  BY <1>0, <1>16 DEF Complete, SetBack, Release, Keeps, Recorded
<1>. QED
  BY <1>1, <1>2, <1>3, <1>4, <1>5, <1>6, <1>7, <1>8, <1>9, <1>10, <1>11, <1>12, <1>13,
     <1>14, <1>15, <1>16 DEF WorkerStep

LEMMA MappedStep == ASSUME TypeInv, VerifiedIsMapped, [Next]_vars PROVE VerifiedIsMapped'
<1>0. /\ \A c \in Captures : mappings[c] \subseteq mappings'[c]
      /\ \A w \in Workers : pc[w] # "idle" => job[w] \in Captures
  BY HistoryStep DEF TypeInv, JobOK
<1>1. CASE UNCHANGED <<pc, job, found, exported>>
  BY <1>0, <1>1 DEF VerifiedIsMapped
<1>2. ASSUME NEW w \in Workers, WorkerStep(w) PROVE VerifiedIsMapped'
  <2>1. Keeps(w)
    BY <1>2, WorkerKeeps
  <2>. SUFFICES ASSUME NEW v \in Workers, pc'[v] \in Recorded
                PROVE  [version |-> found'[v], export |-> exported'[v]] \in mappings'[job'[v]]
    BY DEF VerifiedIsMapped, Recorded
  <2>2. CASE v # w
    BY <1>0, <2>1, <2>2 DEF Keeps, VerifiedIsMapped, Recorded
  <2>3. CASE v = w
    BY <1>0, <2>1, <2>3 DEF Keeps, VerifiedIsMapped, Recorded, Own
  <2>. QED  BY <2>2, <2>3
<1>3. CASE Crash
  BY <1>3 DEF Crash, VerifiedIsMapped
<1>4. CASE Elsewhere
  BY <1>1, <1>3, <1>4 DEF Elsewhere, CreateCapture, BackoffElapses, ServerStep, BeginPut,
     FinishPut, ReadCommit, ReadRetry, ReadResume, Accept, ThreadWrite, WriteCommit, WriteRetry,
     WriteResume, FinishThread, ServiceRestart, ServiceStarted, workerVars
<1>5. ASSUME NEW r \in Reconcilers, Reconcile(r) PROVE VerifiedIsMapped'
  BY <1>1, <1>5 DEF Reconcile, ReconcileStep
<1>. QED  BY <1>1, <1>2, <1>4, <1>5, NextCases DEF Worker, vars, workerVars

(* What a worker takes for verified is what the mappings table says of the *)
(* version it found.                                                       *)
THEOREM Mapped == Spec => []VerifiedIsMapped
<1>1. Init => VerifiedIsMapped
  BY DEF Init, EngineInit, VerifiedIsMapped
<1>2. TypeInv /\ VerifiedIsMapped /\ [Next]_vars => VerifiedIsMapped'
  BY MappedStep
<1>. QED  BY <1>1, <1>2, TypeInvariant, PTL DEF Spec
-----------------------------------------------------------------------------
(* Why an announced record was verified: an artifact counts as uploaded    *)
(* only once the server has the file, a worker creates the record only     *)
(* when all its rows say uploaded, and it records only an export that      *)
(* carries the capture's identity.  A reconciler records such an export    *)
(* too, and only for a capture that has a mapping.                         *)
PastUpload == Steps \ ({"idle", "upload"} \cup SetbackStates)

UploadedIsStored == \A c \in Captures, a \in Artifacts : art[c][a] = "uploaded" => <<c, a>> \in files
ReceiptIsTrue == \A w \in Workers, a \in Artifacts :
                    rows[w][a] \in {"sent", "uploaded"} => <<job[w], a>> \in files
UploadedFirst == \A w \in Workers :
                    pc[w] \in PastUpload => \A a \in Streamed : <<job[w], a>> \in files
ExportIsMarked == \A w \in Workers : pc[w] \in {"snapshot", "mapping"} => exported[w].marked
MappingIsVerified == \A c \in Captures : \A m \in mappings[c] :
                        m.export.marked /\ \A a \in Streamed : <<c, a>> \in files

ScanIsVerified == \A r \in Reconcilers :
                     /\ scan[r].step \in {"snapshot", "mapping"} => scan[r].export.marked
                     /\ scan[r].step # "items" => scan[r].todo[scan[r].capture] > 0
                     /\ \A c \in Captures : scan[r].todo[c] > 0 => mappings[c] # {}

Verification == /\ UploadedIsStored /\ ReceiptIsTrue /\ UploadedFirst /\ ScanIsVerified
                /\ ExportIsMarked /\ MappingIsVerified /\ PublishedIsVerified
                /\ OrphansExist

(* What a step of w does to its own locals.                                *)
Move(w) == /\ UNCHANGED <<job, rows>>
           /\ pc'[w] \in PastUpload => pc[w] \in PastUpload \/ Pending(w) = {}
           /\ pc'[w] \in {"snapshot", "mapping"} =>
                 \/ exported'[w].marked
                 \/ pc[w] \in {"snapshot", "mapping"} /\ UNCHANGED exported
Send(w) == \E a \in Artifacts : /\ <<job[w], a>> \in files'
                                /\ rows' = [rows EXCEPT ![w][a] = "sent"]
                                /\ UNCHANGED <<job, pc, exported>>
Receive(w) == \E a \in Artifacts : /\ rows[w][a] = "sent"
                                   /\ rows' = [rows EXCEPT ![w][a] = "uploaded"]
                                   /\ UNCHANGED <<job, pc, exported>>
Take(w) == \E c \in Captures : /\ job' = [job EXCEPT ![w] = c]
                               /\ rows' = [rows EXCEPT ![w] = art[c]]
                               /\ pc'[w] = "upload" /\ UNCHANGED exported

Locals(w) ==
    /\ files \subseteq files'
    /\ \A v \in Workers \ {w} : /\ pc'[v] = pc[v] /\ job'[v] = job[v]
                                /\ rows'[v] = rows[v] /\ exported'[v] = exported[v]
    /\ Move(w) \/ Send(w) \/ Receive(w) \/ Take(w) \/ Release(w)

LEMMA RaiseLocals ==
    ASSUME TypeInv, NEW w \in Workers, Raise(w), UNCHANGED <<job, rows, exported>>,
           files \subseteq files'
    PROVE  Locals(w)
BY DEF Raise, RaiseAuth, RaiseRetryable, RaiseDefect, Goto, TypeInv, TypeOK, EngineTypeOK,
       Locals, Move, PastUpload, SetbackStates, AttentionStates

LEMMA CallFailsLocals ==
    ASSUME TypeInv, NEW w \in Workers, NEW ACTION A, A => files \subseteq files',
           CallFails(w, A)
    PROVE  Locals(w)
BY CallFailsFrame, RaiseLocals DEF serverVars

LEMMA WorkerLocals ==
    ASSUME TypeInv, NEW w \in Workers, WorkerStep(w)
    PROVE  Locals(w)
<1>0. /\ pc \in [Workers -> Steps] /\ rows \in [Workers -> [Artifacts -> ArtifactStates \cup {"sent"}]]
      /\ job \in [Workers -> Captures \cup {NoCapture}] /\ exported \in [Workers -> Exports]
  BY DEF TypeInv, TypeOK, EngineTypeOK
<1>1. CASE Claim(w)
  BY <1>0, <1>1 DEF Claim, Goto, serverVars, Locals, Take
<1>2. CASE ArtifactUnavailable(w)
  BY <1>2, RaiseLocals DEF ArtifactUnavailable, Raise, KeepLocals, serverVars
<1>3. CASE UploadFile(w)
  <2>1. PICK a \in Pending(w) :
           \/ /\ StoreFile(job[w], a)
              /\ rows' = [rows EXCEPT ![w][a] = "sent"]
              /\ UNCHANGED <<pc, running, job, checked, found, exported, elnId,
                             snapshots, faults>>
              /\ UNCHANGED storeVars
           \/ CallFails(w, StoreFile(job[w], a))
    BY <1>3 DEF UploadFile
  <2>2. StoreFile(job[w], a) => files \subseteq files' /\ <<job[w], a>> \in files'
    BY DEF StoreFile
  <2>3. a \in Artifacts
    BY DEF Pending, Streamed
  <2>4. CASE CallFails(w, StoreFile(job[w], a))
    BY <2>2, <2>4, CallFailsLocals
  <2>. QED  BY <1>0, <2>1, <2>2, <2>3, <2>4 DEF Locals, Send
<1>4. CASE RecordReceipt(w)
  BY <1>0, <1>4 DEF RecordReceipt, serverVars, Locals, Receive
<1>5. CASE UploadsDone(w)
  BY <1>0, <1>5 DEF UploadsDone, Goto, KeepLocals, serverVars, Locals, Move
<1>6. CASE FindRecord(w)
  <2>1. CASE CallFails(w, UNCHANGED serverVars)
    <3>1. UNCHANGED serverVars => files \subseteq files'
      BY DEF serverVars
    <3>. QED  BY <2>1, <3>1, CallFailsLocals
  <2>2. CASE ~CallFails(w, UNCHANGED serverVars)
    <3>1. pc[w] \in PastUpload
      BY <1>6 DEF FindRecord, PastUpload, Steps, SetbackStates, AttentionStates
    <3>. QED  BY <1>0, <1>6, <2>2, <3>1 DEF FindRecord, Goto, serverVars, Locals, Move
  <2>. QED  BY <2>1, <2>2
<1>7. CASE MakeRecord(w)
  <2>0. pc[w] \in PastUpload
    BY <1>7 DEF MakeRecord, PastUpload, Steps, SetbackStates, AttentionStates
  <2>1. StoreRecord(job[w], pc[w] = "import") => files \subseteq files'
    BY DEF StoreRecord
  <2>2. CASE CallFails(w, StoreRecord(job[w], pc[w] = "import"))
    BY <2>1, <2>2, CallFailsLocals
  <2>3. CASE CallDelayed(w)
    BY <2>3, RaiseLocals DEF CallDelayed, Raise, Delay
  <2>4. CASE RaiseDefect(w) /\ KeepLocals /\ UNCHANGED serverVars
    BY <2>4, RaiseLocals DEF Raise, KeepLocals, serverVars
  <2>5. CASE /\ StoreRecord(job[w], pc[w] = "import") /\ Goto(w, "refind")
             /\ UNCHANGED <<running, job, checked, rows, found, exported, snapshots, faults>>
    BY <1>0, <2>0, <2>1, <2>5 DEF Goto, Locals, Move
  <2>. QED  BY <1>7, <2>2, <2>3, <2>4, <2>5 DEF MakeRecord
<1>8. CASE RefindRecord(w)
  <2>0. pc[w] \in PastUpload
    BY <1>8 DEF RefindRecord, PastUpload, Steps, SetbackStates, AttentionStates
  <2>1. UNCHANGED serverVars => files \subseteq files'
    BY DEF serverVars
  <2>2. CASE CallFails(w, UNCHANGED serverVars)
    BY <2>1, <2>2, CallFailsLocals
  <2>3. CASE RaiseDefect(w) /\ KeepLocals /\ UNCHANGED serverVars
    BY <2>1, <2>3, RaiseLocals DEF Raise, KeepLocals
  <2>4. CASE /\ Goto(w, IF job[w] \in Manual THEN "update" ELSE "populating_record")
             /\ UNCHANGED <<running, job, checked, rows, exported, elnId, snapshots, faults>>
             /\ UNCHANGED <<storeVars, serverVars>>
    BY <1>0, <2>0, <2>1, <2>4 DEF Goto, Locals, Move
  <2>. QED  BY <1>8, <2>2, <2>3, <2>4 DEF RefindRecord
<1>9. CASE UpdateRecord(w)
  <2>0. pc[w] \in PastUpload
    BY <1>9 DEF UpdateRecord, PastUpload, Steps, SetbackStates, AttentionStates
  <2>1. AddModule(job[w]) => files \subseteq files'
    BY DEF AddModule
  <2>2. CASE CallFails(w, AddModule(job[w]))
    BY <2>1, <2>2, CallFailsLocals
  <2>3. CASE RaiseDefect(w) /\ KeepLocals /\ UNCHANGED serverVars
    BY <2>3, RaiseLocals DEF Raise, KeepLocals, serverVars
  <2>4. CASE AddModule(job[w]) /\ Goto(w, "populating_record") /\ KeepLocals
    BY <1>0, <2>0, <2>1, <2>4 DEF Goto, KeepLocals, Locals, Move
  <2>. QED  BY <1>9, <2>2, <2>3, <2>4 DEF UpdateRecord
<1>10. CASE ExportRecord(w)
  <2>0. pc[w] \in PastUpload
    BY <1>10 DEF ExportRecord, PastUpload, Steps, SetbackStates, AttentionStates
  <2>1. UNCHANGED serverVars => files \subseteq files'
    BY DEF serverVars
  <2>2. CASE CallFails(w, UNCHANGED serverVars)
    BY <2>1, <2>2, CallFailsLocals
  <2>3. CASE RaiseDefect(w) /\ KeepLocals /\ UNCHANGED serverVars
    BY <2>1, <2>3, RaiseLocals DEF Raise, KeepLocals
  <2>4. CASE /\ exported' = [exported EXCEPT ![w] =
                               [revision |-> record[job[w]].revision, marked |-> TRUE]]
             /\ Goto(w, "snapshot")
             /\ UNCHANGED <<running, job, checked, rows, found, elnId, snapshots, faults>>
             /\ UNCHANGED <<storeVars, serverVars>>
    BY <1>0, <2>0, <2>1, <2>4 DEF Goto, Locals, Move
  <2>. QED  BY <1>10, <2>2, <2>3, <2>4 DEF ExportRecord
<1>11. CASE WriteExport(w)
  <2>0. pc[w] \in PastUpload /\ pc[w] = "snapshot"
    BY <1>11 DEF WriteExport, PastUpload, Steps, SetbackStates, AttentionStates
  <2>1. CASE RaiseDefect(w)
    BY <1>11, <2>1, RaiseLocals DEF WriteExport, Raise, serverVars
  <2>2. CASE Goto(w, "mapping")
    BY <1>0, <1>11, <2>0, <2>2 DEF WriteExport, Goto, serverVars, Locals, Move
  <2>. QED  BY <1>11, <2>1, <2>2 DEF WriteExport
<1>12. CASE FindMapping(w) \/ SaveMapping(w)
  <2>0. pc[w] \in PastUpload /\ UNCHANGED <<job, rows, exported, serverVars>>
    BY <1>12 DEF FindMapping, SaveMapping, PastUpload, Steps, SetbackStates, AttentionStates
  <2>1. CASE RaiseDefect(w)
    BY <2>0, <2>1, RaiseLocals DEF Raise, serverVars
  <2>2. CASE Goto(w, "matelab_verified")
    BY <1>0, <2>0, <2>2 DEF Goto, serverVars, Locals, Move
  <2>3. CASE UNCHANGED pc
    BY <2>0, <2>3 DEF serverVars, Locals, Move
  <2>. QED  BY <1>12, <2>1, <2>2, <2>3 DEF FindMapping, SaveMapping
<1>13. CASE CheckTransition(w)
  <2>1. CASE RaiseDefect(w)
    BY <1>13, <2>1, RaiseLocals DEF CheckTransition, Raise, serverVars
  <2>2. CASE UNCHANGED pc
    BY <1>13, <2>2 DEF CheckTransition, serverVars, Locals, Move
  <2>. QED  BY <1>13, <2>1, <2>2 DEF CheckTransition
<1>14. CASE WriteTransition(w)
  <2>0. pc[w] \in PastUpload /\ After(pc[w]) \notin {"snapshot", "mapping"}
    BY <1>14 DEF WriteTransition, After, PastUpload, Steps, TransitionStates, SetbackStates,
                 AttentionStates
  <2>1. pc' = [pc EXCEPT ![w] = After(pc[w])]
    BY <1>14 DEF WriteTransition, Goto
  <2>. QED  BY <1>0, <1>14, <2>0, <2>1 DEF WriteTransition, serverVars, Locals, Move
<1>15. CASE Complete(w)
  BY <1>0, <1>15 DEF Complete, Release, serverVars, Locals
<1>16. CASE SetBack(w)
  BY <1>0, <1>16 DEF SetBack, Release, serverVars, Locals
<1>. QED
  BY <1>1, <1>2, <1>3, <1>4, <1>5, <1>6, <1>7, <1>8, <1>9, <1>10, <1>11, <1>12, <1>13,
     <1>14, <1>15, <1>16 DEF WorkerStep

(* Outside the workers no artifact becomes uploaded and no file goes away. *)
LEMMA ElsewhereUploads ==
    ASSUME TypeInv, Elsewhere
    PROVE  /\ files \subseteq files'
           /\ \A c \in Captures, a \in Artifacts :
                 art'[c][a] = "uploaded" => art[c][a] = "uploaded"
           /\ \/ UNCHANGED <<pc, job, rows, exported>>
              \/ \A w \in Workers : /\ pc'[w] = "idle"
                                    /\ \A a \in Artifacts : rows'[w][a] = "manifest_only"
<1>1. art \in [Captures -> [Artifacts -> ArtifactStates]]
  BY DEF TypeInv, TypeOK, StoreTypeOK
<1>2. CASE \E c \in Captures : CreateCapture(c) \/ BackoffElapses(c) \/ ServerStep(c)
  BY <1>2 DEF CreateCapture, InsertCapture, BackoffElapses, ServerStep, LateArrival, Edit, Delete,
              storeVars, serverVars, workerVars
<1>3. CASE \E c \in Captures, a \in Artifacts : BeginPut(c, a) \/ FinishPut(c, a)
  BY <1>1, <1>3 DEF BeginPut, FinishPut, MarkReceived, storeVars, serverVars, workerVars
<1>4. CASE \E t \in Threads, c \in Captures : ReadCommit(t, c) \/ ReadRetry(t, c)
  BY <1>4 DEF ReadCommit, ReadRetry, Accept, storeVars, serverVars, workerVars
<1>5. CASE \E t \in Threads : ReadResume(t) \/ ThreadWrite(t)
  BY <1>5 DEF ReadResume, Accept, ThreadWrite, WriteCommit, WriteRetry, WriteResume, WriteReady,
              WriteReadyNow, FinishThread, storeVars, serverVars, workerVars
<1>6. CASE \E w \in Workers : ServiceRestart(w)
  BY <1>6 DEF ServiceRestart, storeVars, serverVars, workerVars
<1>7. CASE \E start \in starting : ServiceStarted(start[1], start[2])
  BY <1>7 DEF ServiceStarted, Recover, WriteReady, serverVars
<1>8. CASE Crash
  BY <1>8 DEF Crash, Recover, WriteReady, serverVars, NoRows
<1>. QED  BY <1>2, <1>3, <1>4, <1>5, <1>6, <1>7, <1>8 DEF Elsewhere

LEMMA VerificationInitial == ASSUME Init PROVE Verification
BY DEF Init, StoreInit, EngineInit, Verification, UploadedIsStored, ReceiptIsTrue, NoRows,
       UploadedFirst, PastUpload, ExportIsMarked, MappingIsVerified, PublishedIsVerified,
       OrphansExist, ScanInit, NoScan, NothingToDo, ScanIsVerified

LEMMA LocalsStep ==
    ASSUME TypeInv, Verification, NEW w \in Workers, WorkerStep(w)
    PROVE  ReceiptIsTrue' /\ UploadedFirst' /\ ExportIsMarked'
<1>0. /\ pc \in [Workers -> Steps] /\ rows \in [Workers -> [Artifacts -> ArtifactStates \cup {"sent"}]]
      /\ job \in [Workers -> Captures \cup {NoCapture}] /\ exported \in [Workers -> Exports]
      /\ art \in [Captures -> [Artifacts -> ArtifactStates]]
  BY DEF TypeInv, TypeOK, EngineTypeOK, StoreTypeOK
<1>1. Locals(w)
  BY WorkerLocals
<1>2. ASSUME NEW v \in Workers \ {w}
      PROVE  /\ \A a \in Artifacts : rows'[v][a] \in {"sent", "uploaded"} => <<job'[v], a>> \in files'
             /\ pc'[v] \in PastUpload => \A a \in Streamed : <<job'[v], a>> \in files'
             /\ pc'[v] \in {"snapshot", "mapping"} => exported'[v].marked
  BY <1>1 DEF Locals, Verification, ReceiptIsTrue, UploadedFirst, ExportIsMarked
<1>. DEFINE Good == /\ \A a \in Artifacts :
                          rows'[w][a] \in {"sent", "uploaded"} => <<job'[w], a>> \in files'
                    /\ pc'[w] \in PastUpload => \A a \in Streamed : <<job'[w], a>> \in files'
                    /\ pc'[w] \in {"snapshot", "mapping"} => exported'[w].marked
<1>3. files \subseteq files'
  BY <1>1 DEF Locals
<1>4. /\ \A a \in Artifacts : rows[w][a] \in {"sent", "uploaded"} => <<job[w], a>> \in files
      /\ pc[w] \in PastUpload => \A a \in Streamed : <<job[w], a>> \in files
      /\ pc[w] \in {"snapshot", "mapping"} => exported[w].marked
  BY DEF Verification, ReceiptIsTrue, UploadedFirst, ExportIsMarked
<1>5. CASE Move(w)
  <2>1. Pending(w) = {} => \A a \in Streamed : rows[w][a] = "uploaded"
    BY DEF Pending
  <2>2. Streamed \subseteq Artifacts
    BY DEF Streamed
  <2>. QED  BY <1>2, <1>3, <1>4, <1>5, <2>1, <2>2 DEF Move, ReceiptIsTrue, UploadedFirst, ExportIsMarked
<1>6. CASE Send(w)
  <2>1. PICK b \in Artifacts : /\ <<job[w], b>> \in files'
                               /\ rows' = [rows EXCEPT ![w][b] = "sent"]
                               /\ UNCHANGED <<job, pc, exported>>
    BY <1>6 DEF Send
  <2>2. \A a \in Artifacts : a # b => rows'[w][a] = rows[w][a]
    BY <1>0, <2>1
  <2>3. \A a \in Artifacts : rows'[w][a] \in {"sent", "uploaded"} => <<job'[w], a>> \in files'
    BY <1>3, <1>4, <2>1, <2>2
  <2>4. pc'[w] \in PastUpload => \A a \in Streamed : <<job'[w], a>> \in files'
    BY <1>3, <1>4, <2>1
  <2>5. pc'[w] \in {"snapshot", "mapping"} => exported'[w].marked
    BY <1>4, <2>1
  <2>. QED  BY <1>2, <2>3, <2>4, <2>5 DEF ReceiptIsTrue, UploadedFirst, ExportIsMarked
<1>7. CASE Receive(w)
  <2>1. Good
    BY <1>0, <1>3, <1>4, <1>7 DEF Receive
  <2>. QED  BY <1>2, <2>1 DEF ReceiptIsTrue, UploadedFirst, ExportIsMarked
<1>8. CASE Take(w)
  <2>1. PICK c \in Captures : /\ job' = [job EXCEPT ![w] = c]
                              /\ rows' = [rows EXCEPT ![w] = art[c]]
                              /\ pc'[w] = "upload" /\ UNCHANGED exported
    BY <1>8 DEF Take
  <2>2. \A a \in Artifacts : art[c][a] \in {"sent", "uploaded"} => <<c, a>> \in files
    BY <1>0 DEF Verification, UploadedIsStored, ArtifactStates
  <2>3. "upload" \notin PastUpload
    BY DEF PastUpload
  <2>4. Good
    BY <1>0, <1>3, <2>1, <2>2, <2>3
  <2>. QED  BY <1>2, <2>4 DEF ReceiptIsTrue, UploadedFirst, ExportIsMarked
<1>9. CASE Release(w)
  <2>1. Good
    BY <1>0, <1>9 DEF Release, NoRows, PastUpload
  <2>. QED  BY <1>2, <2>1 DEF ReceiptIsTrue, UploadedFirst, ExportIsMarked
<1>. QED  BY <1>1, <1>5, <1>6, <1>7, <1>8, <1>9 DEF Locals

LEMMA MarkedStep ==
    ASSUME TypeInv, Verification, [Next]_vars, files \subseteq files'
    PROVE  MappingIsVerified'
<1>1. mappings \in [Captures -> SUBSET Mappings]
  BY DEF TypeInv, TypeOK, StoreTypeOK
<1>2. CASE UNCHANGED mappings
  BY <1>2 DEF Verification, MappingIsVerified
<1>3. ASSUME NEW w \in Workers, pc[w] = "mapping", InsertMapping(job[w], found[w], exported[w])
      PROVE  MappingIsVerified'
  <2>1. mappings' = [mappings EXCEPT ![job[w]] =
                       @ \cup {[version |-> found[w], export |-> exported[w]]}]
    BY <1>3 DEF InsertMapping
  <2>2. exported[w].marked /\ \A a \in Streamed : <<job[w], a>> \in files
    BY <1>3 DEF Verification, ExportIsMarked, UploadedFirst, PastUpload, Steps, SetbackStates,
                AttentionStates
  <2>. QED  BY <1>1, <2>1, <2>2 DEF Verification, MappingIsVerified
<1>4. ASSUME NEW r \in Reconcilers, ScanInserts(r) PROVE MappingIsVerified'
  <2>. DEFINE c == scan[r].capture
              new == [version |-> scan[r].version, export |-> scan[r].export]
  <2>1. c \in Captures /\ scan[r].todo[c] > 0 /\ new.export.marked
    BY <1>4 DEF ScanInserts, TypeInv, ScanOK, Verification, ScanIsVerified
  <2>2. mappings[c] # {}
    BY <2>1 DEF Verification, ScanIsVerified
  <2>3. \A a \in Streamed : <<c, a>> \in files
    BY <2>1, <2>2 DEF Verification, MappingIsVerified
  <2>4. mappings' = [mappings EXCEPT ![c] = @ \cup {new}]
    BY <1>4 DEF ScanInserts, InsertMapping
  <2>. HIDE DEF new
  <2>. QED  BY <1>1, <2>1, <2>3, <2>4 DEF Verification, MappingIsVerified
<1>. QED  BY <1>2, <1>3, <1>4, MappingsAndEvents

LEMMA PublishedStep ==
    ASSUME TypeInv, Verification, [Next]_vars, files \subseteq files'
    PROVE  PublishedIsVerified'
<1>1. /\ mappings \in [Captures -> SUBSET Mappings]
      /\ events \in Seq([capture : Captures, ref : Mappings])
      /\ \A c \in Captures : mappings[c] \subseteq mappings'[c]
  BY HistoryStep DEF TypeInv, TypeOK, StoreTypeOK
<1>. DEFINE S == [capture : Captures, ref : Mappings]
            Fine(e) == /\ e.ref \in mappings'[e.capture]
                       /\ e.ref.export.marked
                       /\ \A a \in Streamed : <<e.capture, a>> \in files'
<1>2. \A i \in DOMAIN events : Fine(events[i])
  <2>1. \A i \in DOMAIN events : events[i].capture \in Captures
    <3>. SUFFICES ASSUME NEW i \in DOMAIN events PROVE events[i].capture \in Captures
      OBVIOUS
    <3>1. events[i] \in [capture : Captures, ref : Mappings]
      BY <1>1, ElementTyped
    <3>. QED  BY <3>1
  <2>. QED  BY <1>1, <2>1 DEF Verification, PublishedIsVerified
<1>3. CASE UNCHANGED events
  BY <1>2, <1>3 DEF PublishedIsVerified
<1>4. ASSUME NEW c \in Captures, mappings[c] # {}, UNCHANGED mappings,
             events' = Append(events, [capture |-> c, ref |-> Latest(c)])
      PROVE  PublishedIsVerified'
  <2>. DEFINE e == [capture |-> c, ref |-> Latest(c)]
  <2>1. Latest(c) \in mappings[c]
    BY <1>4, LatestExists DEF TypeInv
  <2>2. Fine(e)
    BY <1>4, <2>1 DEF Verification, MappingIsVerified
  <2>3. e \in S /\ events \in Seq(S) /\ events' = Append(events, e)
    BY <1>1, <1>4, NewEventTyped
  <2>. HIDE DEF e, S, Fine
  <2>4. \A i \in DOMAIN events' : Fine(events'[i])
    <3>1. /\ DOMAIN events' = 1 .. Len(events) + 1
          /\ DOMAIN events = 1 .. Len(events)
          /\ \A i \in 1 .. Len(events) : events'[i] = events[i]
          /\ events'[Len(events) + 1] = e
          /\ Len(events) \in Nat
      BY <2>3, AppendIndexes
    <3>2. \A i \in 1 .. Len(events) + 1 : i \in 1 .. Len(events) \/ i = Len(events) + 1
      BY <3>1
    <3>. QED  BY <1>2, <2>2, <3>1, <3>2
  <2>. QED  BY <2>4 DEF PublishedIsVerified, Fine
<1>. QED  BY <1>3, <1>4, EventsGrow

LEMMA WorkerUploads ==
    ASSUME TypeInv, Verification, NEW w \in Workers, WorkerStep(w), files \subseteq files'
    PROVE  UploadedIsStored' /\ OrphansExist'
<1>1. /\ art \in [Captures -> [Artifacts -> ArtifactStates]]
      /\ orphans \subseteq files /\ UploadedIsStored /\ ReceiptIsTrue
      /\ pc[w] # "idle" => job[w] \in Captures
  BY DEF Verification, OrphansExist, TypeInv, TypeOK, StoreTypeOK, JobOK
<1>2. WorkerWrites(w)
  BY WorkerStores
<1>3. CASE AddOrphans(job[w])
  <2>1. CASE job[w] \in Captures
    BY <1>1, <1>3, <2>1 DEF AddOrphans, UploadedIsStored, OrphansExist
  <2>2. CASE pc[w] = "idle"
    <3>1. Claim(w)
      BY <2>2 DEF WorkerStep, Claim, ArtifactUnavailable, UploadFile, RecordReceipt, UploadsDone,
         FindRecord, MakeRecord, RefindRecord, UpdateRecord, ExportRecord, WriteExport,
         FindMapping, SaveMapping, CheckTransition, WriteTransition, Complete, SetBack, TransitionStates,
         SetbackStates, AttentionStates
    <3>2. art' = art /\ orphans' = orphans
      BY <3>1 DEF Claim, WriteClaim
    <3>. QED  BY <1>1, <3>2 DEF UploadedIsStored, OrphansExist
  <2>. QED  BY <1>1, <2>1, <2>2
<1>4. CASE \E a \in Artifacts : rows[w][a] = "sent" /\ MarkUploaded(job[w], a)
  BY <1>1, <1>4 DEF MarkUploaded, ReceiptIsTrue, UploadedIsStored, OrphansExist
<1>5. CASE UNCHANGED <<art, orphans>>
  BY <1>1, <1>5 DEF UploadedIsStored, OrphansExist
<1>. QED
  BY <1>2, <1>3, <1>4, <1>5 DEF WorkerWrites, storeVars, WriteClaim, InsertMapping, WriteState,
     WriteComplete, WriteSetback

(* A scan stays about captures with a mapping, and its export marked.      *)
LEMMA ScanKept ==
    ASSUME TypeInv, Verification, [Next]_vars, UNCHANGED scan PROVE ScanIsVerified'
<1>1. \A c \in Captures : mappings[c] \subseteq mappings'[c]
  BY HistoryStep
<1>. QED  BY <1>1 DEF Verification, ScanIsVerified

LEMMA ScanVerified ==
    ASSUME TypeInv, Verification, NEW r \in Reconcilers, Reconcile(r)
    PROVE  ScanIsVerified'
<1>0. /\ scan \in [Reconcilers -> [todo : [Captures -> Nat],
                                   capture : Captures \cup {NoCapture},
                                   version : Nat, export : Exports, step : ScanSteps]]
      /\ ScanOK /\ ScanIsVerified
  BY DEF TypeInv, TypeOK, ScanTypeOK, Verification
<1>1. \A c \in Captures : mappings[c] # {} => mappings'[c] # {}
  BY HistoryStep DEF Next
<1>2. \A q \in Reconcilers \ {r} : scan'[q] = scan[q]
  BY <1>0 DEF Reconcile, ReconcileStep, StartScan, SkipRow, ScanItems, ScanExport, ScanSnapshot,
              ScanMapping, Reported
<1>. DEFINE Good == /\ scan'[r].step \in {"snapshot", "mapping"} => scan'[r].export.marked
                    /\ scan'[r].step # "items" => scan'[r].todo[scan'[r].capture] > 0
                    /\ \A c \in Captures : scan'[r].todo[c] > 0 => mappings'[c] # {}
<1>3. ASSUME NEW c \in Captures, Reported(r, c) PROVE Good
  <2>1. /\ scan'[r].step = "items"
        /\ scan'[r].todo = [scan[r].todo EXCEPT ![c] = 0]
    BY <1>0, <1>3 DEF Reported, NoScan
  <2>2. \A d \in Captures : scan'[r].todo[d] > 0 => scan[r].todo[d] > 0
    BY <1>0, <2>1
  <2>. QED  BY <1>0, <1>1, <2>1, <2>2 DEF ScanIsVerified
<1>4. ASSUME StartScan(r) PROVE Good
  <2>1. /\ scan'[r].step = scan[r].step /\ scan[r].todo = NothingToDo
        /\ scan'[r].todo = [c \in Captures |-> IF mappings[c] = {} THEN 0 ELSE Latest(c).version]
    BY <1>0, <1>4 DEF StartScan
  <2>2. scan[r].step = "items"
    BY <1>0, <2>1 DEF NothingToDo, ScanIsVerified, ScanOK
  <2>3. ASSUME NEW c \in Captures, scan'[r].todo[c] > 0 PROVE mappings'[c] # {}
    <3>1. CASE mappings[c] = {}
      BY <2>1, <2>3, <3>1
    <3>2. CASE mappings[c] # {}
      BY <1>1, <3>2
    <3>. QED  BY <3>1, <3>2
  <2>. QED  BY <2>1, <2>2, <2>3
<1>5. ASSUME NEW c \in Captures, SkipRow(r, c) PROVE Good
  BY <1>3, <1>5 DEF SkipRow
<1>6. ASSUME NEW c \in Captures, ScanItems(r, c) PROVE Good
  <2>1. /\ scan'[r].step = "export" /\ scan'[r].capture = c
        /\ scan'[r].todo = scan[r].todo /\ scan[r].todo[c] > 0
    BY <1>0, <1>6 DEF ScanItems
  <2>. QED  BY <1>0, <1>1, <2>1 DEF ScanIsVerified
<1>7. ASSUME ScanExport(r) PROVE Good
  <2>1. scan[r].capture \in Captures
    BY <1>0, <1>7 DEF ScanExport, ScanOK
  <2>2. CASE Reported(r, scan[r].capture)
    <3>. HIDE DEF Good
    <3>. QED  BY <1>3, <2>1, <2>2
  <2>3. CASE ~Reported(r, scan[r].capture)
    <3>1. /\ scan'[r].export.marked /\ scan'[r].capture = scan[r].capture
          /\ scan'[r].todo = scan[r].todo /\ scan[r].step = "export"
      BY <1>0, <1>7, <2>3 DEF ScanExport
    <3>. QED  BY <1>0, <1>1, <3>1, "export" # "items" DEF ScanIsVerified
  <2>. HIDE DEF Good
  <2>. QED  BY <2>2, <2>3
<1>8. ASSUME ScanSnapshot(r) PROVE Good
  <2>1. /\ scan'[r].export = scan[r].export /\ scan'[r].capture = scan[r].capture
        /\ scan'[r].todo = scan[r].todo /\ scan[r].step = "snapshot"
    BY <1>0, <1>8 DEF ScanSnapshot
  <2>. QED  BY <1>0, <1>1, <2>1, "snapshot" # "items" DEF ScanIsVerified
<1>9. ASSUME ScanMapping(r) PROVE Good
  <2>1. scan[r].capture \in Captures /\ Reported(r, scan[r].capture)
    BY <1>0, <1>9 DEF ScanMapping, ScanOK
  <2>. HIDE DEF Good
  <2>. QED  BY <1>3, <2>1
<1>10. ASSUME NEW q \in Reconcilers, q # r
       PROVE  /\ scan'[q].step \in {"snapshot", "mapping"} => scan'[q].export.marked
              /\ scan'[q].step # "items" => scan'[q].todo[scan'[q].capture] > 0
              /\ \A c \in Captures : scan'[q].todo[c] > 0 => mappings'[c] # {}
  BY <1>0, <1>1, <1>2, <1>10 DEF ScanIsVerified
<1>11. Good
  <2>. HIDE DEF Good
  <2>. QED  BY <1>4, <1>5, <1>6, <1>7, <1>8, <1>9 DEF Reconcile, ReconcileStep
<1>. QED  BY <1>10, <1>11 DEF ScanIsVerified

LEMMA VerificationStep == ASSUME TypeInv, Verification, [Next]_vars PROVE Verification'
<1>1. CASE Elsewhere
  <2>1. files \subseteq files' /\ UploadedIsStored'
    BY <1>1, ElsewhereUploads DEF Verification, UploadedIsStored
  <2>2. OrphansExist'
    BY <1>1, <2>1, ElsewhereKeeps DEF Verification, OrphansExist
  <2>3. ReceiptIsTrue' /\ UploadedFirst' /\ ExportIsMarked'
    BY <1>1, <2>1, ElsewhereUploads
       DEF Verification, ReceiptIsTrue, UploadedFirst, ExportIsMarked, PastUpload
  <2>. QED
    BY <1>1, <2>1, <2>2, <2>3, ElsewhereKeeps, ScanKept, MarkedStep, PublishedStep
       DEF Verification
<1>2. ASSUME NEW w \in Workers, Worker(w) PROVE Verification'
  <2>1. WorkerStep(w) /\ files \subseteq files'
    BY <1>2, WorkerLocals DEF Worker, Locals
  <2>2. ScanIsVerified'
    BY <1>2, ScanKept DEF Worker
  <2>. QED
    BY <2>1, <2>2, LocalsStep, MarkedStep, PublishedStep, WorkerUploads DEF Verification
<1>3. ASSUME NEW r \in Reconcilers, Reconcile(r) PROVE Verification'
  <2>1. UNCHANGED <<files, art, orphans, rows, job, pc, exported>>
    BY <1>3, ReconcileStores
       DEF Reconcile, ReconcileStep, ScanInserts, InsertMapping, storeVars, serverVars
  <2>2. UploadedIsStored' /\ OrphansExist' /\ ReceiptIsTrue' /\ UploadedFirst' /\ ExportIsMarked'
    BY <2>1 DEF Verification, UploadedIsStored, ReceiptIsTrue, UploadedFirst, ExportIsMarked,
                OrphansExist
  <2>. QED  BY <1>3, <2>1, <2>2, ScanVerified, MarkedStep, PublishedStep DEF Verification
<1>4. CASE UNCHANGED vars
  <2>1. UNCHANGED <<files, art, orphans, mappings, events, rows, job, pc, exported, scan>>
    BY <1>4 DEF vars, storeVars, serverVars, workerVars
  <2>. QED
    BY <2>1 DEF Verification, UploadedIsStored, ReceiptIsTrue, UploadedFirst, ExportIsMarked,
                MappingIsVerified, PublishedIsVerified, OrphansExist, ScanIsVerified
<1>. QED  BY <1>1, <1>2, <1>3, <1>4, NextCases

THEOREM VerificationInvariant == Spec => []Verification
BY VerificationInitial, VerificationStep, TypeInvariant, PTL DEF Spec

(* An announced capture has a saved mapping, its export carried the        *)
(* capture's identity, and every streamed artifact is on the server.       *)
THEOREM Verified == Spec => []PublishedIsVerified
BY VerificationInvariant, PTL DEF Verification

(* Every orphan candidate names a file the server really has.              *)
THEOREM Orphans == Spec => []OrphansExist
BY VerificationInvariant, PTL DEF Verification
-----------------------------------------------------------------------------
(* The connector implements Outbox, and what it has accepted is staged.    *)
(*                                                                         *)
(* Both rest on what the parties hold in hand between a read and a write:  *)
(* a thread about to commit has one capture with nothing missing, a thread *)
(* about to retry or resume, a service about to recover and a worker have  *)
(* accepted captures only.                                                 *)

Requested ==
    \A t \in Threads :
        /\ thread[t].op = "commit" =>
              \E c \in Captures : thread[t].rows = {c} /\ Missing(c) = {}
        /\ thread[t].op \in {"retry", "resume"} => thread[t].rows \subseteq AcceptedCaptures
Recovering == \A start \in starting : start[2] \subseteq AcceptedCaptures
Working == \A w \in Workers : job[w] # NoCapture => job[w] \in AcceptedCaptures

Acceptance == Requested /\ Recovering /\ Working /\ CommittedIsStaged

LEMMA AcceptanceInitial == ASSUME Init PROVE Acceptance
BY DEF Init, StoreInit, EngineInit, IdleThread, Acceptance, Requested, Recovering, Working,
       CommittedIsStaged

(* A row that is staged stays so: it is only marked received or uploaded.  *)
Have == {"received", "uploaded"}

LEMMA StagedStays ==
    ASSUME TypeInv, [Next]_vars, NEW c \in Captures, NEW a \in Artifacts, art[c][a] \in Have
    PROVE  art'[c][a] \in Have
<1>0. art \in [Captures -> [Artifacts -> ArtifactStates]]
  BY DEF TypeInv, TypeOK, StoreTypeOK
<1>1. CASE UNCHANGED art
  BY <1>1
<1>2. ASSUME NEW d, NEW b, MarkReceived(d, b) \/ MarkUploaded(d, b)
      PROVE  art'[c][a] \in Have
  BY <1>0, <1>2 DEF MarkReceived, MarkUploaded, Have
<1>3. CASE Elsewhere
  <2>1. UNCHANGED art \/ \E d \in Captures, b \in Artifacts : MarkReceived(d, b)
    <3>1. CASE \E d \in Captures : CreateCapture(d) \/ BackoffElapses(d) \/ ServerStep(d)
      BY <3>1 DEF CreateCapture, InsertCapture, BackoffElapses, ServerStep, storeVars
    <3>2. CASE \E d \in Captures, b \in Artifacts : BeginPut(d, b) \/ FinishPut(d, b)
      BY <3>2 DEF BeginPut, FinishPut, storeVars
    <3>3. CASE \E t \in Threads, d \in Captures : ReadCommit(t, d) \/ ReadRetry(t, d)
      BY <3>3 DEF ReadCommit, ReadRetry, Accept, storeVars
    <3>4. CASE \E t \in Threads : ReadResume(t) \/ ThreadWrite(t)
      BY <3>4 DEF ReadResume, Accept, ThreadWrite, WriteCommit, WriteRetry, WriteResume,
                  WriteReadyNow, WriteReady, storeVars
    <3>5. CASE \E w \in Workers : ServiceRestart(w)
      BY <3>5 DEF ServiceRestart, storeVars
    <3>6. CASE Crash \/ \E start \in starting : ServiceStarted(start[1], start[2])
      BY <3>6 DEF Crash, ServiceStarted, Recover, WriteReady
    <3>. QED  BY <1>3, <3>1, <3>2, <3>3, <3>4, <3>5, <3>6 DEF Elsewhere
  <2>. QED  BY <1>1, <1>2, <2>1
<1>4. ASSUME NEW w \in Workers, Worker(w)
      PROVE  UNCHANGED art \/ \E b \in Artifacts : MarkUploaded(job[w], b)
  BY <1>4, WorkerStores DEF Worker, WorkerWrites, storeVars, AddOrphans, WriteClaim,
     InsertMapping, WriteState, WriteComplete, WriteSetback
<1>5. ASSUME NEW r \in Reconcilers, Reconcile(r) PROVE UNCHANGED art
  BY <1>5, ReconcileStores DEF Reconcile, ScanInserts, InsertMapping, storeVars
<1>6. CASE UNCHANGED vars
  BY <1>1, <1>6 DEF vars, storeVars
<1>. QED  BY <1>1, <1>2, <1>3, <1>4, <1>5, <1>6, NextCases
-----------------------------------------------------------------------------
(* The captures a step accepts: the one of a commit, or none.              *)
Commits(t, c) ==
    /\ WriteCommit(t)
    /\ thread[t].rows = {c}
    /\ Missing(c) = {}
    /\ AcceptedCaptures' = AcceptedCaptures \cup {c}

LEMMA ReadyAccepts ==
    ASSUME NEW S, S \subseteq Captures, WriteReady(S)
    PROVE  AcceptedCaptures' = AcceptedCaptures \cup S
BY DEF WriteReady, AcceptedCaptures

LEMMA WorkerAccepts ==
    ASSUME TypeInv, Working, NEW w \in Workers, WorkerStep(w)
    PROVE  UNCHANGED AcceptedCaptures
<1>0. state \in [Captures -> CaptureStates]
  BY DEF TypeInv, TypeOK, StoreTypeOK
<1>1. CASE UNCHANGED state
  BY <1>1 DEF AcceptedCaptures
<1>2. ASSUME NEW c \in AcceptedCaptures, NEW s,
             s \notin {"absent", "receiving"}, state' = [state EXCEPT ![c] = s]
      PROVE  UNCHANGED AcceptedCaptures
  BY <1>0, <1>2 DEF AcceptedCaptures
<1>3. ASSUME NEW c \in Captures, WriteClaim(c) PROVE UNCHANGED AcceptedCaptures
  <2>1. c \in AcceptedCaptures
    BY <1>3 DEF WriteClaim, NextToClaim, Claimable, AcceptedCaptures
  <2>. QED  BY <1>2, <1>3, <2>1 DEF WriteClaim
<1>4. pc[w] # "idle" => job[w] \in AcceptedCaptures
  BY EngineConstants DEF TypeInv, JobOK, Working
<1>5. CASE pc[w] \in InflightStates /\ WriteState(job[w], pc[w])
  BY <1>2, <1>4, <1>5 DEF WriteState, InflightStates
<1>6. CASE pc[w] = "complete" /\ WriteComplete(job[w])
  BY <1>2, <1>4, <1>6 DEF WriteComplete
<1>7. CASE pc[w] \in SetbackStates /\ WriteSetback(job[w], pc[w])
  BY <1>2, <1>4, <1>7 DEF WriteSetback, SetbackStates, AttentionStates
<1>. QED
  BY <1>1, <1>3, <1>5, <1>6, <1>7, WorkerStores
     DEF WorkerWrites, storeVars, AddOrphans, MarkUploaded, InsertMapping

LEMMA ElsewhereAccepts ==
    ASSUME TypeInv, Acceptance, Elsewhere
    PROVE  UNCHANGED AcceptedCaptures \/ \E t \in Threads, c \in Captures : Commits(t, c)
<1>0. /\ state \in [Captures -> CaptureStates]
      /\ thread \in [Threads -> [op : {"none", "commit", "retry", "resume"},
                                 rows : SUBSET Captures]]
  BY DEF TypeInv, TypeOK, StoreTypeOK
<1>1. CASE UNCHANGED state
  BY <1>1 DEF AcceptedCaptures
<1>2. ASSUME NEW S, S \subseteq AcceptedCaptures, WriteReady(S)
      PROVE  UNCHANGED AcceptedCaptures
  BY <1>2, ReadyAccepts DEF AcceptedCaptures
<1>3. CASE \E c \in Captures : CreateCapture(c)
  BY <1>0, <1>3 DEF CreateCapture, InsertCapture, AcceptedCaptures
<1>4. CASE \E c \in Captures : BackoffElapses(c) \/ ServerStep(c)
  BY <1>1, <1>4 DEF BackoffElapses, ServerStep, storeVars
<1>5. CASE \E c \in Captures, a \in Artifacts : BeginPut(c, a) \/ FinishPut(c, a)
  BY <1>1, <1>5 DEF BeginPut, FinishPut, MarkReceived, storeVars
<1>6. CASE \E t \in Threads, c \in Captures : ReadCommit(t, c) \/ ReadRetry(t, c)
  BY <1>1, <1>6 DEF ReadCommit, ReadRetry, Accept, storeVars
<1>7. CASE \E t \in Threads : ReadResume(t)
  BY <1>1, <1>7 DEF ReadResume, Accept, storeVars
<1>8. ASSUME NEW t \in Threads, WriteCommit(t)
      PROVE  \E c \in Captures : Commits(t, c)
  <2>1. PICK c \in Captures : thread[t].rows = {c} /\ Missing(c) = {}
    BY <1>8 DEF WriteCommit, Acceptance, Requested
  <2>2. AcceptedCaptures' = AcceptedCaptures \cup {c}
    BY <1>8, <2>1, ReadyAccepts DEF WriteCommit
  <2>. QED  BY <1>8, <2>1, <2>2 DEF Commits
<1>9. ASSUME NEW t \in Threads, WriteRetry(t) \/ WriteResume(t)
      PROVE  UNCHANGED AcceptedCaptures
  <2>1. thread[t].rows \subseteq AcceptedCaptures
    BY <1>9 DEF WriteRetry, WriteResume, Acceptance, Requested
  <2>2. WriteReady(thread[t].rows) \/ UNCHANGED state
    BY <1>9 DEF WriteRetry, WriteResume, WriteReadyNow, storeVars
  <2>3. CASE WriteReady(thread[t].rows)
    BY <1>2, <2>1, <2>3
  <2>4. CASE UNCHANGED state
    BY <2>4 DEF AcceptedCaptures
  <2>. QED  BY <2>2, <2>3, <2>4
<1>10. CASE \E w \in Workers : ServiceRestart(w)
  BY <1>1, <1>10 DEF ServiceRestart, storeVars
<1>11. ASSUME NEW start \in starting, ServiceStarted(start[1], start[2])
       PROVE  UNCHANGED AcceptedCaptures
  BY <1>2, <1>11 DEF ServiceStarted, Recover, Acceptance, Recovering
<1>12. CASE Crash
  <2>1. Inflight \subseteq AcceptedCaptures
    BY DEF Inflight, InflightStates, AcceptedCaptures
  <2>. QED  BY <1>2, <1>12, <2>1 DEF Crash, Recover
<1>. QED
  BY <1>3, <1>4, <1>5, <1>6, <1>7, <1>8, <1>9, <1>10, <1>11, <1>12 DEF Elsewhere, ThreadWrite

LEMMA StepAccepts ==
    ASSUME TypeInv, Acceptance, [Next]_vars
    PROVE  UNCHANGED AcceptedCaptures \/ \E t \in Threads, c \in Captures : Commits(t, c)
<1>1. CASE Elsewhere
  BY <1>1, ElsewhereAccepts
<1>2. ASSUME NEW w \in Workers, Worker(w) PROVE UNCHANGED AcceptedCaptures
  BY <1>2, WorkerAccepts DEF Worker, Acceptance
<1>3. ASSUME NEW r \in Reconcilers, Reconcile(r) PROVE UNCHANGED AcceptedCaptures
  BY <1>3, ReconcileStores
     DEF Reconcile, ScanInserts, InsertMapping, storeVars, AcceptedCaptures
<1>4. CASE UNCHANGED vars
  BY <1>4 DEF vars, storeVars, AcceptedCaptures
<1>. QED  BY <1>1, <1>2, <1>3, <1>4, NextCases
-----------------------------------------------------------------------------
(* What the parties hold stays accepted, staged and mapped.                *)
LEMMA Stays ==
    ASSUME TypeInv, Acceptance, [Next]_vars
    PROVE  /\ AcceptedCaptures \subseteq AcceptedCaptures'
           /\ \A c \in Captures : Missing(c) = {} => Missing(c)' = {}
           /\ \A c \in Captures : mappings[c] # {} => mappings'[c] # {}
<1>1. AcceptedCaptures \subseteq AcceptedCaptures'
  BY StepAccepts DEF Commits
<1>2. \A c \in Captures : Missing(c) = {} => Missing(c)' = {}
  BY ArtifactPolicies, StagedStays DEF Missing, Have
<1>3. \A c \in Captures : mappings[c] # {} => mappings'[c] # {}
  BY HistoryStep
<1>. QED  BY <1>1, <1>2, <1>3

LEMMA StagedStep == ASSUME TypeInv, Acceptance, [Next]_vars PROVE CommittedIsStaged'
<1>1. CommittedIsStaged <=> \A c \in AcceptedCaptures : Missing(c) = {}
  BY ArtifactPolicies DEF CommittedIsStaged, AcceptedCaptures, Missing
<1>2. CommittedIsStaged' <=> \A c \in AcceptedCaptures' : Missing(c)' = {}
  BY ArtifactPolicies DEF CommittedIsStaged, AcceptedCaptures, Missing
<1>3. AcceptedCaptures \subseteq Captures
  BY DEF AcceptedCaptures
<1>4. ASSUME NEW c \in AcceptedCaptures' PROVE Missing(c)' = {}
  <2>1. CASE c \in AcceptedCaptures
    BY <1>1, <1>3, <2>1, Stays DEF Acceptance
  <2>2. CASE \E t \in Threads : Commits(t, c)
    BY <1>4, <2>2, Stays DEF Commits, AcceptedCaptures
  <2>. QED  BY <1>4, <2>1, <2>2, StepAccepts DEF Commits
<1>. QED  BY <1>2, <1>4

LEMMA WorkingStep == ASSUME TypeInv, Acceptance, [Next]_vars PROVE Working'
<1>0. job \in [Workers -> Captures \cup {NoCapture}]
  BY DEF TypeInv, TypeOK, EngineTypeOK
<1>1. CASE UNCHANGED job
  BY <1>1, Stays DEF Acceptance, Working
<1>2. CASE Elsewhere
  BY <1>1, <1>2, ElsewhereFrees DEF Working
<1>3. ASSUME NEW w \in Workers, Worker(w) PROVE Working'
  <2>1. WorkerHolds(w)
    BY <1>3, WorkerOwns DEF Worker
  <2>2. CASE \E c \in Captures : WriteClaim(c) /\ job' = [job EXCEPT ![w] = c]
    <3>1. PICK c \in Captures : WriteClaim(c) /\ job' = [job EXCEPT ![w] = c]
      BY <2>2
    <3>2. c \in AcceptedCaptures
      BY <3>1 DEF WriteClaim, NextToClaim, Claimable, AcceptedCaptures
    <3>. QED  BY <1>0, <3>1, <3>2, Stays DEF Acceptance, Working
  <2>3. CASE Release(w)
    BY <1>0, <2>3, Stays DEF Release, Acceptance, Working
  <2>. QED  BY <1>1, <2>1, <2>2, <2>3 DEF WorkerHolds
<1>4. ASSUME NEW r \in Reconcilers, Reconcile(r) PROVE UNCHANGED job
  BY <1>4 DEF Reconcile, ReconcileStep
<1>5. CASE UNCHANGED vars
  BY <1>1, <1>5 DEF vars, workerVars
<1>. QED  BY <1>1, <1>2, <1>3, <1>4, <1>5, NextCases

(* A thread keeps what it is about to write, writes it, or has just read   *)
(* what it will write.                                                     *)
ThreadMoves(t) ==
    \/ thread'[t] \in {thread[t], IdleThread}
    \/ \E c \in Captures : /\ Missing(c) = {}
                           /\ thread'[t] = [op |-> "commit", rows |-> {c}]
    \/ \E S \in SUBSET AcceptedCaptures :
          thread'[t].op \in {"retry", "resume"} /\ thread'[t].rows = S

LEMMA ThreadStep ==
    ASSUME TypeInv, [Next]_vars, NEW t \in Threads PROVE ThreadMoves(t)
<1>. USE DEF ThreadMoves
<1>0. thread \in [Threads -> [op : {"none", "commit", "retry", "resume"}, rows : SUBSET Captures]]
  BY DEF TypeInv, TypeOK
<1>1. CASE UNCHANGED thread
  BY <1>1
<1>2. CASE Elsewhere
  <2>1. CASE \E c \in Captures : CreateCapture(c) \/ BackoffElapses(c) \/ ServerStep(c)
    BY <1>1, <2>1 DEF CreateCapture, BackoffElapses, ServerStep, apiVars
  <2>2. CASE \E c \in Captures, a \in Artifacts : BeginPut(c, a) \/ FinishPut(c, a)
    BY <1>1, <2>2 DEF BeginPut, FinishPut
  <2>3. ASSUME NEW u \in Threads, NEW c \in Captures, ReadCommit(u, c) PROVE ThreadMoves(t)
    BY <1>0, <2>3 DEF ReadCommit, Accept
  <2>4. ASSUME NEW u \in Threads, NEW c \in Captures, ReadRetry(u, c) PROVE ThreadMoves(t)
    <3>1. {c} \in SUBSET AcceptedCaptures
      BY <2>4 DEF ReadRetry, SetbackStates, AttentionStates, AcceptedCaptures
    <3>. QED  BY <1>0, <2>4, <3>1 DEF ReadRetry, Accept
  <2>5. ASSUME NEW u \in Threads, ReadResume(u) PROVE ThreadMoves(t)
    <3>. DEFINE paused == {c \in Captures : state[c] = "auth_required"}
    <3>1. paused \in SUBSET AcceptedCaptures
      BY DEF AcceptedCaptures
    <3>2. Accept(u, "resume", paused)
      BY <2>5 DEF ReadResume
    <3>. QED  BY <1>0, <3>1, <3>2 DEF Accept
  <2>6. ASSUME NEW u \in Threads, ThreadWrite(u) PROVE ThreadMoves(t)
    BY <1>0, <2>6 DEF ThreadWrite, WriteCommit, WriteRetry, WriteResume, FinishThread
  <2>7. CASE \E w \in Workers : ServiceRestart(w)
    BY <1>1, <2>7 DEF ServiceRestart
  <2>8. CASE \E start \in starting : ServiceStarted(start[1], start[2])
    BY <1>1, <2>8 DEF ServiceStarted
  <2>9. CASE Crash
    BY <2>9 DEF Crash
  <2>. QED
    BY <1>2, <2>1, <2>2, <2>3, <2>4, <2>5, <2>6, <2>7, <2>8, <2>9 DEF Elsewhere
<1>3. ASSUME NEW w \in Workers, Worker(w) PROVE UNCHANGED thread
  BY <1>3 DEF Worker, apiVars
<1>4. ASSUME NEW r \in Reconcilers, Reconcile(r) PROVE UNCHANGED thread
  BY <1>4 DEF Reconcile, apiVars
<1>5. CASE UNCHANGED vars
  BY <1>5 DEF vars, apiVars
<1>. QED  BY <1>1, <1>2, <1>3, <1>4, <1>5, NextCases

LEMMA RequestedStep == ASSUME TypeInv, Acceptance, [Next]_vars PROVE Requested'
<1>. SUFFICES ASSUME NEW t \in Threads
     PROVE  /\ thread'[t].op = "commit" =>
                  \E c \in Captures : thread'[t].rows = {c} /\ Missing(c)' = {}
            /\ thread'[t].op \in {"retry", "resume"} =>
                  thread'[t].rows \subseteq AcceptedCaptures'
  BY DEF Requested
<1>1. ThreadMoves(t)
  BY ThreadStep
<1>2. CASE thread'[t] = thread[t]
  BY <1>2, Stays DEF Acceptance, Requested
<1>3. CASE thread'[t] = IdleThread
  BY <1>3 DEF IdleThread
<1>4. CASE \E c \in Captures : /\ Missing(c) = {}
                              /\ thread'[t] = [op |-> "commit", rows |-> {c}]
  BY <1>4, Stays
<1>5. CASE \E S \in SUBSET AcceptedCaptures :
              thread'[t].op \in {"retry", "resume"} /\ thread'[t].rows = S
  BY <1>5, Stays
<1>. QED  BY <1>1, <1>2, <1>3, <1>4, <1>5 DEF ThreadMoves

LEMMA RecoveringStep == ASSUME TypeInv, Acceptance, [Next]_vars PROVE Recovering'
<1>1. \/ starting' \subseteq starting
      \/ \E w \in Workers : starting' = {<<w, Inflight>>}
  <2>1. CASE Elsewhere
    BY <2>1 DEF Elsewhere, CreateCapture, BackoffElapses, ServerStep, BeginPut, FinishPut,
                ReadCommit, ReadRetry, ReadResume, Accept, ThreadWrite, WriteCommit, WriteRetry,
                WriteResume, FinishThread, ServiceRestart, ServiceStarted, Crash, apiVars
  <2>2. CASE UNCHANGED starting
    BY <2>2
  <2>. QED  BY <2>1, <2>2, NextCases DEF Worker, Reconcile, apiVars, vars
<1>2. Inflight \subseteq AcceptedCaptures
  BY DEF Inflight, InflightStates, AcceptedCaptures
<1>. QED  BY <1>1, <1>2, Stays DEF Acceptance, Recovering

LEMMA AcceptanceStep == ASSUME TypeInv, Acceptance, [Next]_vars PROVE Acceptance'
BY RequestedStep, RecoveringStep, WorkingStep, StagedStep DEF Acceptance

THEOREM AcceptanceInvariant == Spec => []Acceptance
BY AcceptanceInitial, AcceptanceStep, TypeInvariant, PTL DEF Spec

(* No interleaving of uploads, commits, retries, logins and recoveries     *)
(* leaves an accepted capture without one of its required artifacts.       *)
THEOREM Staged == Spec => []CommittedIsStaged
BY AcceptanceInvariant, PTL DEF Acceptance
-----------------------------------------------------------------------------
(* The refinement.  Each step of the connector accepts a capture, records  *)
(* the first mapping of one, announces one, or does nothing a client of    *)
(* the outbox can see.                                                     *)
LEMMA VerifyStep ==
    ASSUME TypeInv, Acceptance, Verification, [Next]_vars
    PROVE  \/ VerifiedCaptures' = VerifiedCaptures
           \/ \E c \in AcceptedCaptures \ VerifiedCaptures :
                 /\ VerifiedCaptures' = VerifiedCaptures \cup {c}
                 /\ UNCHANGED <<state, events>>
<1>0. mappings \in [Captures -> SUBSET Mappings]
  BY DEF TypeInv, TypeOK, StoreTypeOK
<1>. USE DEF VerifiedCaptures
<1>1. CASE UNCHANGED mappings
  BY <1>1
<1>2. ASSUME NEW w \in Workers, pc[w] = "mapping",
             InsertMapping(job[w], found[w], exported[w])
      PROVE  \/ VerifiedCaptures' = VerifiedCaptures
             \/ \E c \in AcceptedCaptures \ VerifiedCaptures :
                   /\ VerifiedCaptures' = VerifiedCaptures \cup {c}
                   /\ UNCHANGED <<state, events>>
  <2>1. job[w] \in Captures /\ job[w] \in AcceptedCaptures
    BY <1>2, EngineConstants DEF TypeInv, JobOK, Acceptance, Working
  <2>2. mappings' = [mappings EXCEPT ![job[w]] =
                       @ \cup {[version |-> found[w], export |-> exported[w]]}]
    BY <1>2 DEF InsertMapping
  <2>3. VerifiedCaptures' = VerifiedCaptures \cup {job[w]}
    BY <1>0, <2>1, <2>2
  <2>4. UNCHANGED <<state, events>>
    BY <1>2 DEF InsertMapping
  <2>. QED  BY <2>1, <2>3, <2>4
<1>3. ASSUME NEW r \in Reconcilers, ScanInserts(r)
      PROVE  VerifiedCaptures' = VerifiedCaptures
  <2>. DEFINE c == scan[r].capture
  <2>1. c \in Captures /\ mappings[c] # {}
    BY <1>3, "mapping" # "items"
       DEF ScanInserts, TypeInv, ScanOK, Verification, ScanIsVerified
  <2>2. mappings' = [mappings EXCEPT ![c] =
                       @ \cup {[version |-> scan[r].version, export |-> scan[r].export]}]
    BY <1>3 DEF ScanInserts, InsertMapping
  <2>. QED  BY <1>0, <2>1, <2>2
<1>. QED  BY <1>1, <1>2, <1>3, MappingsAndEvents

LEMMA SequenceIsFunction ==
    ASSUME NEW S, NEW s \in Seq(S) PROVE s = [i \in DOMAIN s |-> s[i]]
OBVIOUS

LEMMA FeedLength ==
    ASSUME TypeInv
    PROVE  /\ Len(events) \in Nat
           /\ DOMAIN events = 1 .. Len(events)
           /\ SyncedFeed \in Seq(Captures)
           /\ Len(SyncedFeed) = Len(events)
           /\ \A i \in 1 .. Len(events) : SyncedFeed[i] = events[i].capture
<1>1. events \in Seq([capture : Captures, ref : Mappings])
  BY DEF TypeInv, TypeOK, StoreTypeOK
<1>2. Len(events) \in Nat /\ DOMAIN events = 1 .. Len(events)
  BY <1>1
<1>3. \A i \in 1 .. Len(events) : events[i].capture \in Captures
  <2>1. \A i \in DOMAIN events : events[i] \in [capture : Captures, ref : Mappings]
    BY <1>1, ElementTyped
  <2>. QED  BY <1>2, <2>1
<1>4. SyncedFeed = [i \in 1 .. Len(events) |-> events[i].capture]
  BY <1>2 DEF SyncedFeed
<1>. QED  BY <1>2, <1>3, <1>4

LEMMA FeedAppends ==
    ASSUME TypeInv, NEW c \in Captures, mappings[c] # {},
           events' = Append(events, [capture |-> c, ref |-> Latest(c)])
    PROVE  SyncedFeed' = Append(SyncedFeed, c)
<1>. DEFINE e == [capture |-> c, ref |-> Latest(c)]
            n == Len(events)
<1>1. events \in Seq([capture : Captures, ref : Mappings])
      /\ e \in [capture : Captures, ref : Mappings]
  BY NewEventTyped DEF TypeInv, TypeOK, StoreTypeOK
<1>2. /\ n \in Nat
      /\ DOMAIN events' = 1 .. n + 1
      /\ \A i \in 1 .. n : events'[i] = events[i]
      /\ events'[n + 1] = e
  BY <1>1, AppendIndexes
<1>3. SyncedFeed' = [i \in 1 .. n + 1 |-> events'[i].capture]
  BY <1>2 DEF SyncedFeed
<1>4. /\ DOMAIN Append(SyncedFeed, c) = 1 .. n + 1
      /\ \A i \in 1 .. n : Append(SyncedFeed, c)[i] = events[i].capture
      /\ Append(SyncedFeed, c)[n + 1] = c
  BY FeedLength, AppendIndexes
<1>5. \A i \in 1 .. n + 1 : Append(SyncedFeed, c)[i] = events'[i].capture
  <2>1. \A i \in 1 .. n + 1 : i \in 1 .. n \/ i = n + 1
    BY <1>2
  <2>2. events'[n + 1].capture = c
    BY <1>2
  <2>. QED  BY <1>2, <1>4, <2>1, <2>2
<1>6. Append(SyncedFeed, c) \in Seq(Captures)
  BY FeedLength, AppendTyped
<1>7. Append(SyncedFeed, c) = [i \in 1 .. n + 1 |-> Append(SyncedFeed, c)[i]]
  BY <1>4, <1>6, SequenceIsFunction
<1>. QED  BY <1>3, <1>5, <1>7

LEMMA PromiseInitial == ASSUME Init PROVE Promise!Init
BY DEF Init, StoreInit, Promise!Init, AcceptedCaptures, VerifiedCaptures, SyncedFeed

LEMMA PromiseStep ==
    ASSUME TypeInv, Acceptance, Verification, [Next]_vars
    PROVE  [Promise!Next]_(Promise!vars)
<1>. USE DEF Promise!vars, Promise!Next, Promise!Accept, Promise!Verify, Promise!Announce
<1>1. ASSUME NEW t \in Threads, NEW c \in Captures, Commits(t, c)
      PROVE  [Promise!Next]_(Promise!vars)
  <2>1. UNCHANGED <<mappings, events>>
    BY <1>1 DEF Commits, WriteCommit, WriteReady
  <2>2. UNCHANGED <<VerifiedCaptures, SyncedFeed>>
    BY <2>1 DEF VerifiedCaptures, SyncedFeed
  <2>. QED  BY <1>1, <2>2 DEF Commits
<1>2. ASSUME UNCHANGED AcceptedCaptures, NEW c \in Captures, ~Published(c), mappings[c] # {},
             UNCHANGED mappings,
             events' = Append(events, [capture |-> c, ref |-> Latest(c)])
      PROVE  Promise!Next
  <2>1. SyncedFeed' = Append(SyncedFeed, c)
    BY <1>2, FeedAppends
  <2>2. c \notin Promise!Announced
    BY <1>2, FeedLength DEF Published, Promise!Announced
  <2>3. c \in VerifiedCaptures /\ UNCHANGED VerifiedCaptures
    BY <1>2 DEF VerifiedCaptures
  <2>. QED  BY <1>2, <2>1, <2>2, <2>3
<1>3. CASE UNCHANGED <<AcceptedCaptures, events>>
  <2>1. UNCHANGED SyncedFeed
    BY <1>3 DEF SyncedFeed
  <2>2. \/ UNCHANGED VerifiedCaptures
        \/ \E c \in AcceptedCaptures \ VerifiedCaptures :
              VerifiedCaptures' = VerifiedCaptures \cup {c}
    BY VerifyStep
  <2>3. AcceptedCaptures \subseteq Captures
    BY DEF AcceptedCaptures
  <2>. QED  BY <1>3, <2>1, <2>2, <2>3
<1>. QED  BY <1>1, <1>2, <1>3, StepAccepts, EventsGrow

(* A client is served by an outbox: what it committed stays accepted, is   *)
(* announced only after it was verified, and is announced once - whatever  *)
(* workers, services, reconcilers and crashes do.                          *)
THEOREM Promised == Spec => KeepsPromise
<1>1. Init => Promise!Init
  BY PromiseInitial
<1>2. TypeInv /\ Acceptance /\ Verification /\ [Next]_vars => [Promise!Next]_(Promise!vars)
  BY PromiseStep
<1>. QED
  BY <1>1, <1>2, TypeInvariant, AcceptanceInvariant, VerificationInvariant,
     PTL DEF Spec, KeepsPromise, Promise!Spec
=============================================================================
