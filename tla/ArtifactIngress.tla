--------------------------- MODULE ArtifactIngress --------------------------
(***************************************************************************)
(* The staging of one artifact of one capture: artifact_ingress.py at the  *)
(* level of files.  Every upload of the artifact writes to the same .part  *)
(* file, which becomes the artifact's .blob file once the bytes that were  *)
(* received have the declared size and hash.  Uploads take turns at each   *)
(* chunk of their bodies; what follows the last chunk is one step.         *)
(*                                                                         *)
(* A file is named by the upload that created it, its content is a         *)
(* function of positions.  An upload that finds a .part file truncates it  *)
(* and shares it with the upload that has it open, each at its own offset. *)
(***************************************************************************)
EXTENDS Naturals, FiniteSets

CONSTANTS
    Uploads,     \* PUT requests for the artifact
    NoFile,      \* not an upload: the name of no file
    Chunks,      \* the number of chunks of the declared content
    MaxOpen      \* bound: uploads whose body is received at the same time

ASSUME IngressConstants ==
    /\ NoFile \notin Uploads
    /\ Chunks \in Nat

VARIABLES
    phase,      \* what each request is at: "new", "body" or "done"
    body,       \* the content it sends: the declared one, or another
    handle,     \* the file it has open
    got,        \* chunks it has received
    put,        \* chunks it has flushed to its file
    content,    \* the content of each file
    partial,    \* the file that is the artifact's .part
    blob,       \* the file that is the artifact's .blob
    row,        \* artifacts.state
    committed,  \* the capture is past receiving
    reader,     \* the file the sync worker has open
    shared      \* history: two uploads have been open at the same time

ingressVars == <<phase, body, handle, got, put, content, partial, blob, row,
                 committed, reader, shared>>

Positions == 1..Chunks
Bytes == {"declared", "other", "none"}     \* "none": a hole, or past the end
EmptyFile == [k \in Positions |-> "none"]
DeclaredFile == [k \in Positions |-> "declared"]

IngressInit ==
    /\ phase = [u \in Uploads |-> "new"]
    /\ body = [u \in Uploads |-> "declared"]
    /\ handle = [u \in Uploads |-> NoFile]
    /\ got = [u \in Uploads |-> 0]
    /\ put = [u \in Uploads |-> 0]
    /\ content = [u \in Uploads |-> EmptyFile]
    /\ partial = NoFile
    /\ blob = NoFile
    /\ row = "declared"
    /\ committed = FALSE
    /\ reader = NoFile
    /\ shared = FALSE

IngressTypeOK ==
    /\ phase \in [Uploads -> {"new", "body", "done"}]
    /\ body \in [Uploads -> {"declared", "other"}]
    /\ handle \in [Uploads -> Uploads \cup {NoFile}]
    /\ got \in [Uploads -> 0..Chunks]
    /\ put \in [Uploads -> 0..Chunks]
    /\ content \in [Uploads -> [Positions -> Bytes]]
    /\ {partial, blob, reader} \subseteq Uploads \cup {NoFile}
    /\ row \in {"declared", "received", "uploaded"}
    /\ {committed, shared} \subseteq BOOLEAN
-----------------------------------------------------------------------------
Open == {u \in Uploads : phase[u] = "body"}

(* The checks and the open("wb"), which has no await between them.         *)
BeginReceive(u) ==
    /\ phase[u] = "new"
    /\ ~committed
    /\ row = "declared"
    /\ Cardinality(Open) < MaxOpen
    /\ LET file == IF partial = NoFile THEN u ELSE partial IN
          /\ partial' = file
          /\ handle' = [handle EXCEPT ![u] = file]
          /\ content' = [content EXCEPT ![file] = EmptyFile]
    /\ phase' = [phase EXCEPT ![u] = "body"]
    /\ \E b \in {"declared", "other"} : body' = [body EXCEPT ![u] = b]
    /\ shared' = (shared \/ Open # {})
    /\ UNCHANGED <<got, put, blob, row, committed, reader>>

(* Positions up to n that u has not flushed yet get its bytes.             *)
Flush(u, n) ==
    content' = [content EXCEPT ![handle[u]] =
                  [k \in Positions |-> IF put[u] < k /\ k <= n THEN body[u] ELSE @[k]]]

(* Mutant: a body that goes on beyond the declared size is not refused.    *)
ReceiveChunk_Unbounded(u) ==
    /\ phase[u] = "body"
    /\ got[u] <= Chunks
    /\ got' = [got EXCEPT ![u] = @ + 1]
    /\ UNCHANGED <<put, content>>
    /\ UNCHANGED <<phase, body, handle, partial, blob, row, committed, reader, shared>>

(* A chunk arrives; handle.write buffers it or writes it through.          *)
ReceiveChunk(u) ==
    /\ phase[u] = "body"
    /\ got[u] < Chunks
    /\ got' = [got EXCEPT ![u] = @ + 1]
    /\ \/ UNCHANGED <<put, content>>
       \/ Flush(u, got[u] + 1) /\ put' = [put EXCEPT ![u] = got[u] + 1]
    /\ UNCHANGED <<phase, body, handle, partial, blob, row, committed, reader, shared>>

(* Leaving the with block flushes and closes the file.                     *)
Close(u) ==
    /\ Flush(u, got[u])
    /\ phase' = [phase EXCEPT ![u] = "done"]
    /\ handle' = [handle EXCEPT ![u] = NoFile]
    /\ UNCHANGED <<body, got, put, committed, reader, shared>>

Held(u, file) == \E v \in Uploads \ {u} : phase[v] = "body" /\ handle[v] = file

(* The handler removes whatever file is the .part by now - on Windows only *)
(* if no other upload has it open.                                         *)
Discard(u) ==
    /\ \/ partial' = NoFile
       \/ Held(u, partial) /\ UNCHANGED partial
    /\ UNCHANGED <<blob, row>>

(* The body breaks off, is too long, or has another hash.                  *)
FailReceive(u) ==
    /\ phase[u] = "body"
    /\ body[u] = "other" \/ got[u] < Chunks
    /\ Close(u)
    /\ Discard(u)

(* Mutant: the hash of the received bytes is not compared.                 *)
FinishReceive_Unchecked(u) ==
    /\ phase[u] = "body"
    /\ got[u] = Chunks
    /\ Close(u)
    /\ partial # NoFile
    /\ blob' = partial
    /\ partial' = NoFile
    /\ row' = "received"

(* The received bytes are the declared ones: the .part, whatever it is by  *)
(* now, becomes the .blob, and the row is marked or the mark fails.  Or    *)
(* there is no .part, or Windows does not move or replace an open file.    *)
FinishReceive(u) ==
    /\ phase[u] = "body"
    /\ got[u] = Chunks
    /\ body[u] = "declared"
    /\ Close(u)
    /\ \/ /\ partial # NoFile
          /\ blob' = partial
          /\ partial' = NoFile
          /\ row' \in {row, "received"}
       \/ /\ partial = NoFile \/ Held(u, partial) \/ reader # NoFile
          /\ Discard(u)

(* commit_capture for a capture with this required artifact.               *)
CommitCapture ==
    /\ ~committed
    /\ row # "declared"
    /\ committed' = TRUE
    /\ UNCHANGED <<phase, body, handle, got, put, content, partial, blob, row, reader, shared>>

(* The process dies; what was not flushed is lost, the .part file stays.   *)
IngressCrash ==
    /\ phase' = [u \in Uploads |-> IF phase[u] = "body" THEN "done" ELSE phase[u]]
    /\ handle' = [u \in Uploads |-> NoFile]
    /\ reader' = NoFile
    /\ UNCHANGED <<body, got, put, content, partial, blob, row, committed, shared>>

IngressStep ==
    \/ \E u \in Uploads :
          BeginReceive(u) \/ ReceiveChunk(u) \/ FailReceive(u) \/ FinishReceive(u)
    \/ CommitCapture
-----------------------------------------------------------------------------
(* An artifact that is marked received has a file with the declared        *)
(* content, across broken uploads, other contents and crashes - as long as *)
(* its uploads took turns.                                                 *)
ReceivedIsDeclared ==
    row # "declared" /\ ~shared => blob # NoFile /\ content[blob] = DeclaredFile

(* What artifact_ingress.py says of itself: "hash-verified" staging.       *)
StagingVerified ==
    row # "declared" => blob # NoFile /\ content[blob] = DeclaredFile
=============================================================================
