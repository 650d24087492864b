--------------------------- MODULE MatelabServer ----------------------------
(***************************************************************************)
(* The remote MatElab server as the connector's own test double            *)
(* (fake_matelab.py) answers its calls, and what the server's other users  *)
(* may do to a record meanwhile.  A call that times out may have been      *)
(* applied, may be applied later, or may never be.                         *)
(***************************************************************************)
EXTENDS Manifest

CONSTANT
    MaxEdits        \* bound: edits and deletions by other users

VARIABLES
    files,    \* <<capture, artifact>> whose upload is complete on the server
    record,   \* the record with the capture's uid, or NoRecord
    late,     \* captures with an import or create request still in transit
    edits     \* edits made so far

serverVars == <<files, record, late, edits>>

(* A revision is a content of the record that was never there before; it   *)
(* stands for the record's id as well, so it is not used again after a     *)
(* deletion.  edited: by somebody else, since the record was stored.       *)
NoRecord == [version |-> 0, revision |-> 0, marked |-> FALSE, edited |-> FALSE]
Records == [version : Nat, revision : Nat, marked : BOOLEAN, edited : BOOLEAN]
Stored(c) == record[c].version > 0

ServerInit ==
    /\ files = {}
    /\ record = [c \in Captures |-> NoRecord]
    /\ late = {}
    /\ edits = 0

ServerTypeOK ==
    /\ files \subseteq Captures \X Artifacts
    /\ record \in [Captures -> Records]
    /\ late \subseteq Captures
    /\ edits \in Nat
-----------------------------------------------------------------------------
(* /eln_api/upload, last chunk: a known name with the same hash is         *)
(* acknowledged again.                                                     *)
StoreFile(c, a) == files' = files \cup {<<c, a>>} /\ UNCHANGED <<record, late, edits>>

(* /eln_api/import and /eln_api/create: a known uid is refused.  An import *)
(* carries Capture ID and Capture Hash, a created record is still empty.   *)
StoreRecord(c, marked) ==
    /\ ~Stored(c)
    /\ record' = [record EXCEPT ![c].version = 1, ![c].marked = marked]
    /\ UNCHANGED <<files, late, edits>>

(* /eln_api/update with addModule adds the module that carries the         *)
(* identity unless the record has a module of that name, which somebody    *)
(* may have edited.                                                        *)
AddModule(c) ==
    /\ Stored(c)
    /\ \E m \in IF record[c].edited THEN {TRUE, record[c].marked} ELSE {TRUE} :
          record' = [record EXCEPT ![c].marked = m]
    /\ UNCHANGED <<files, late, edits>>

(* The client has given up on a call the server has not seen yet.          *)
Delay(c) == late' = late \cup {c} /\ UNCHANGED <<files, record, edits>>

(* The delayed request arrives; it is refused when the uid exists by then. *)
LateArrival(c, marked) ==
    /\ c \in late
    /\ late' = late \ {c}
    /\ record' = IF Stored(c) THEN record
                 ELSE [record EXCEPT ![c].version = 1, ![c].marked = marked]
    /\ UNCHANGED <<files, edits>>

(* Another user edits the record, with or without a new record version,    *)
(* and may remove the identity from it ...                                 *)
Edit(c) ==
    /\ Stored(c)
    /\ edits < MaxEdits
    /\ edits' = edits + 1
    /\ \E v \in {record[c].version, record[c].version + 1}, m \in {record[c].marked, FALSE} :
          record' = [record EXCEPT ![c] =
                       [version |-> v, revision |-> @.revision + 1, marked |-> m,
                        edited |-> TRUE]]
    /\ UNCHANGED <<files, late>>

(* ... or deletes it.                                                      *)
Delete(c) ==
    /\ Stored(c)
    /\ edits < MaxEdits
    /\ edits' = edits + 1
    /\ record' = [record EXCEPT ![c] = [NoRecord EXCEPT !.revision = record[c].revision + 1]]
    /\ UNCHANGED <<files, late>>
=============================================================================
