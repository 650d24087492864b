--------------------------- MODULE Reconciliation ---------------------------
(***************************************************************************)
(* The reconcile command of reconciliation.py: a process of its own that   *)
(* compares every recorded mapping with the server and appends the record  *)
(* versions it does not know yet, beside whatever workers are running.     *)
(*                                                                         *)
(* It reads the mappings once and then handles the captures one at a time: *)
(* items, export, the snapshot file and the new mapping are a step each.   *)
(***************************************************************************)
EXTENDS SyncEngine

CONSTANT
    Reconcilers     \* reconcile commands that may run at the same time

VARIABLE
    scan        \* what each reconciler has read and what it does next

ScanSteps == {"items", "export", "snapshot", "mapping"}
NothingToDo == [c \in Captures |-> 0]
NoScan == [todo |-> NothingToDo, capture |-> NoCapture, version |-> 0,
           export |-> NoExport, step |-> "items"]

ScanInit == scan = [r \in Reconcilers |-> NoScan]

ScanTypeOK ==
    scan \in [Reconcilers -> [todo : [Captures -> Nat],
                              capture : Captures \cup {NoCapture},
                              version : Nat, export : Exports, step : ScanSteps]]
-----------------------------------------------------------------------------
(* latest_mappings: the highest recorded version of each capture.          *)
StartScan(r) ==
    /\ scan[r].todo = NothingToDo
    /\ scan' = [scan EXCEPT ![r].todo =
                  [c \in Captures |-> IF mappings[c] = {} THEN 0 ELSE Latest(c).version]]
    /\ UNCHANGED <<storeVars, snapshots>>

(* The reconciler is done with c, whatever its report says of it.          *)
Reported(r, c) ==
    scan' = [scan EXCEPT ![r] = [NoScan EXCEPT !.todo = [scan[r].todo EXCEPT ![c] = 0]]]

(* A call fails, or the record is not listed in the notebook of the        *)
(* capture's template - where a manual record need not be.                 *)
SkipRow(r, c) ==
    /\ scan[r].todo[c] > 0
    /\ scan[r].capture \in {NoCapture, c}
    /\ scan[r].step \in {"items", "export"}
    /\ Reported(r, c)
    /\ UNCHANGED <<storeVars, snapshots>>

ScanItems(r, c) ==
    /\ scan[r].step = "items"
    /\ scan[r].todo[c] > 0
    /\ Stored(c)
    /\ scan' = [scan EXCEPT ![r].capture = c, ![r].version = record[c].version,
                            ![r].step = "export"]
    /\ UNCHANGED <<storeVars, snapshots>>

(* Mutant: the export is not searched for the capture's identity.          *)
ScanExport_Unchecked(r) ==
    LET c == scan[r].capture IN
    /\ scan[r].step = "export"
    /\ Stored(c)
    /\ scan[r].version > scan[r].todo[c]
    /\ scan' = [scan EXCEPT ![r].export = [revision |-> record[c].revision,
                                           marked |-> record[c].marked],
                            ![r].step = "snapshot"]
    /\ UNCHANGED <<storeVars, snapshots>>

(* The export must carry the capture's identity, and the version listed    *)
(* before it must be newer than the one recorded; everything else is only  *)
(* reported.                                                               *)
ScanExport(r) ==
    LET c == scan[r].capture IN
    /\ scan[r].step = "export"
    /\ Stored(c)
    /\ IF record[c].marked /\ scan[r].version > scan[r].todo[c]
         THEN scan' = [scan EXCEPT ![r].export = [revision |-> record[c].revision,
                                                  marked |-> TRUE],
                                   ![r].step = "snapshot"]
         ELSE Reported(r, c)
    /\ UNCHANGED <<storeVars, snapshots>>

(* _write_export replaces v<version>.json, as the engine's does.           *)
ScanSnapshot(r) ==
    LET c == scan[r].capture
        new == [version |-> scan[r].version, export |-> scan[r].export] IN
    /\ scan[r].step = "snapshot"
    /\ snapshots' = [snapshots EXCEPT ![c] = {m \in @ : m.version # new.version} \cup {new}]
    /\ scan' = [scan EXCEPT ![r].step = "mapping"]
    /\ UNCHANGED storeVars

(* save_mapping: a version recorded since then is left as it is, and only  *)
(* the report tells a different export, or a lost race, from the same one. *)
ScanMapping(r) ==
    LET c == scan[r].capture IN
    /\ scan[r].step = "mapping"
    /\ \/ InsertMapping(c, scan[r].version, scan[r].export)
       \/ SameVersion(c, scan[r].version) # {} /\ UNCHANGED storeVars
    /\ Reported(r, c)
    /\ UNCHANGED snapshots

ReconcileStep(r) ==
    /\ \/ StartScan(r)
       \/ \E c \in Captures : SkipRow(r, c) \/ ScanItems(r, c)
       \/ ScanExport(r)
       \/ ScanSnapshot(r)
       \/ ScanMapping(r)
    /\ UNCHANGED serverVars
    /\ UNCHANGED <<running, pc, job, checked, rows, found, exported, elnId, faults>>
=============================================================================
