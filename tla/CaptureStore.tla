---------------------------- MODULE CaptureStore ----------------------------
(***************************************************************************)
(* The durable state of the connector: the SQLite tables that storage.py   *)
(* keeps for captures, artifacts, mappings, orphan candidates and          *)
(* integration events, and the operations of BridgeStore on them.          *)
(*                                                                         *)
(* BridgeStore opens its connections in Python's deferred mode: a SELECT   *)
(* runs by itself and the transaction only starts at the first INSERT or   *)
(* UPDATE.  An operation that reads a state, checks it and then writes is  *)
(* therefore two steps, which the modules that use this one keep apart;    *)
(* only claim_next takes the write lock before it reads.                   *)
(***************************************************************************)
EXTENDS Manifest, Sequences

VARIABLES
    state,      \* captures.state, "absent" before the row exists
    attempt,    \* captures.attempt
    due,        \* captures.next_attempt_at is null or has passed
    created,    \* the captures that exist, in created_at order
    art,        \* artifacts.state of each artifact of each capture
    mappings,   \* rows of the mappings table: record version and export
    events,     \* integration_events of type matelab.record.synced, by seq
    orphans,    \* rows of orphan_candidates
    readied     \* history: how often the capture was put in "ready"

storeVars == <<state, attempt, due, created, art, mappings, events, orphans, readied>>

(* validating and accepted exist only inside commit_capture's transaction  *)
(* and abandoned is entered by no code: no committed row shows them.       *)
InflightStates == {"uploading_files", "creating_record", "populating_record",
                   "verifying_export", "matelab_verified"}
AttentionStates == {"auth_required", "needs_attention"}
CaptureStates == InflightStates \cup AttentionStates
                 \cup {"absent", "receiving", "ready", "retry_wait", "complete"}
ArtifactStates == {"declared", "manifest_only", "received", "uploaded"}

(* The ordered transitions of the table; retry_wait, auth_required and     *)
(* needs_attention may be entered from every state.                        *)
AllowedTransitions ==
    {<<"ready", "uploading_files">>, <<"retry_wait", "uploading_files">>,
     <<"uploading_files", "creating_record">>,
     <<"creating_record", "populating_record">>,
     <<"populating_record", "verifying_export">>,
     <<"verifying_export", "matelab_verified">>,
     <<"matelab_verified", "complete">>,
     <<"retry_wait", "ready">>, <<"auth_required", "ready">>,
     <<"needs_attention", "ready">>}

Legal(c, to) == <<state[c], to>> \in AllowedTransitions

(* What the connector tells apart in an exported record: the revision of   *)
(* its content and whether Capture ID and Capture Hash occur in it.        *)
Exports == [revision : Nat, marked : BOOLEAN]
Mappings == [version : Nat, export : Exports]

StoreInit ==
    /\ state = [c \in Captures |-> "absent"]
    /\ attempt = [c \in Captures |-> 0]
    /\ due = [c \in Captures |-> TRUE]
    /\ created = <<>>
    /\ art = [c \in Captures |-> [a \in Artifacts |->
                 IF a \in ManifestOnly THEN "manifest_only" ELSE "declared"]]
    /\ mappings = [c \in Captures |-> {}]
    /\ events = <<>>
    /\ orphans = {}
    /\ readied = [c \in Captures |-> 0]

StoreTypeOK ==
    /\ state \in [Captures -> CaptureStates]
    /\ attempt \in [Captures -> Nat]
    /\ due \in [Captures -> BOOLEAN]
    /\ created \in Seq(Captures)
    /\ art \in [Captures -> [Artifacts -> ArtifactStates]]
    /\ mappings \in [Captures -> SUBSET Mappings]
    /\ events \in Seq([capture : Captures, ref : Mappings])
    /\ orphans \subseteq Captures \X Artifacts
    /\ readied \in [Captures -> Nat]
-----------------------------------------------------------------------------
(* Mutant: a second create replaces the row (INSERT OR REPLACE).           *)
InsertCapture_Replaces(c) ==
    /\ state' = [state EXCEPT ![c] = "receiving"]
    /\ created' = IF state[c] = "absent" THEN Append(created, c) ELSE created
    /\ UNCHANGED <<attempt, due, art, mappings, events, orphans, readied>>

(* create_capture: a second create with the same payload returns the first *)
(* receipt and one with another payload is refused; neither writes.        *)
InsertCapture(c) ==
    /\ state[c] = "absent"
    /\ state' = [state EXCEPT ![c] = "receiving"]
    /\ created' = Append(created, c)
    /\ UNCHANGED <<attempt, due, art, mappings, events, orphans, readied>>

(* mark_artifact_received: no capture state is looked at.                  *)
MarkReceived(c, a) ==
    /\ art' = [art EXCEPT ![c][a] = "received"]
    /\ UNCHANGED <<state, attempt, due, created, mappings, events, orphans, readied>>

(* Mutant: the receipt's own status is stored as the artifact's state.     *)
MarkUploaded_KeepsStatus(c, a) ==
    /\ art' = [art EXCEPT ![c][a] = "sent"]
    /\ UNCHANGED <<state, attempt, due, created, mappings, events, orphans, readied>>

(* mark_artifact_uploaded                                                  *)
MarkUploaded(c, a) ==
    /\ art' = [art EXCEPT ![c][a] = "uploaded"]
    /\ UNCHANGED <<state, attempt, due, created, mappings, events, orphans, readied>>

(* The required artifacts that commit_capture finds missing.               *)
Missing(c) == {a \in Required \ ManifestOnly : art[c][a] \notin {"received", "uploaded"}}

(* The UPDATE that puts the captures S in ready, whatever state they are   *)
(* in by now.                                                              *)
WriteReady(S) ==
    /\ state' = [c \in Captures |-> IF c \in S THEN "ready" ELSE state[c]]
    /\ readied' = [c \in Captures |-> readied[c] + (IF c \in S THEN 1 ELSE 0)]
    /\ UNCHANGED <<attempt, created, art, mappings, events, orphans>>

(* The same with next_attempt_at = NULL: retry_capture, retry_auth_required *)
WriteReadyNow(S) ==
    /\ WriteReady(S)
    /\ due' = [c \in Captures |-> c \in S \/ due[c]]

(* Mutant: scheduled retries are never picked up.                          *)
Claimable_ReadyOnly(c) == state[c] = "ready"

(* claim_next, one transaction from its read to its write.                 *)
Claimable(c) == state[c] = "ready" \/ (state[c] = "retry_wait" /\ due[c])
Older(d, c) ==
    \E i, j \in DOMAIN created : i < j /\ created[i] = d /\ created[j] = c
NextToClaim(c) == Claimable(c) /\ \A d \in Captures : Older(d, c) => ~Claimable(d)

WriteClaim(c) ==
    /\ NextToClaim(c)
    /\ state' = [state EXCEPT ![c] = "uploading_files"]
    /\ attempt' = [attempt EXCEPT ![c] = @ + 1]
    /\ due' = [due EXCEPT ![c] = TRUE]
    /\ UNCHANGED <<created, art, mappings, events, orphans, readied>>

(* The UPDATE of a transition to an in-flight state.                       *)
WriteState(c, to) ==
    /\ state' = [state EXCEPT ![c] = to]
    /\ UNCHANGED <<attempt, due, created, art, mappings, events, orphans, readied>>

(* mark_attention and schedule_retry: allowed from every state.            *)
WriteSetback(c, to) ==
    /\ state' = [state EXCEPT ![c] = to]
    /\ due' = [due EXCEPT ![c] = @ /\ to # "retry_wait"]
    /\ UNCHANGED <<attempt, created, art, mappings, events, orphans, readied>>

(* The UPDATE to complete and the synced event are one transaction; the    *)
(* event's dedupe key is the capture, and INSERT OR IGNORE keeps the first. *)
Latest(c) == CHOOSE m \in mappings[c] : \A n \in mappings[c] : n.version <= m.version
Published(c) == \E i \in DOMAIN events : events[i].capture = c

(* Mutant: the newest event is kept instead.                               *)
WriteComplete_Replaces(c) ==
    LET Other(e) == e.capture # c IN
    /\ mappings[c] # {}
    /\ state' = [state EXCEPT ![c] = "complete"]
    /\ events' = Append(SelectSeq(events, Other), [capture |-> c, ref |-> Latest(c)])
    /\ UNCHANGED <<attempt, due, created, art, mappings, orphans, readied>>

WriteComplete(c) ==
    /\ mappings[c] # {}
    /\ state' = [state EXCEPT ![c] = "complete"]
    /\ events' = IF Published(c) THEN events
                 ELSE Append(events, [capture |-> c, ref |-> Latest(c)])
    /\ UNCHANGED <<attempt, due, created, art, mappings, orphans, readied>>

(* save_mapping: one row per record version.                               *)
SameVersion(c, version) == {m \in mappings[c] : m.version = version}

InsertMapping(c, version, export) ==
    /\ SameVersion(c, version) = {}
    /\ mappings' = [mappings EXCEPT ![c] = @ \cup {[version |-> version, export |-> export]}]
    /\ UNCHANGED <<state, attempt, due, created, art, events, orphans, readied>>

(* Mutant: staged files are listed as well.                                *)
AddOrphans_Staged(c) ==
    /\ orphans' = orphans \cup
         {<<c, a>> : a \in {b \in Artifacts : art[c][b] \in {"received", "uploaded"}}}
    /\ UNCHANGED <<state, attempt, due, created, art, mappings, events, readied>>

(* _record_orphans lists the files the capture already uploaded.           *)
AddOrphans(c) ==
    /\ orphans' = orphans \cup {<<c, a>> : a \in {b \in Artifacts : art[c][b] = "uploaded"}}
    /\ UNCHANGED <<state, attempt, due, created, art, mappings, events, readied>>
=============================================================================
