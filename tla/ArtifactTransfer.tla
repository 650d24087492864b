-------------------------- MODULE ArtifactTransfer --------------------------
(***************************************************************************)
(* The way of one artifact from the client to the MatElab server: its      *)
(* staging (ArtifactIngress) and the upload of the staged file, chunk by   *)
(* chunk, by matelab_client.py, with the attempts that the sync worker     *)
(* makes.  The server collects the chunks of a file under its upload uid   *)
(* and checks the hash at the last one (fake_matelab.py).                  *)
(***************************************************************************)
EXTENDS ArtifactIngress, Sequences

CONSTANTS
    FaultKinds,   \* what may go wrong with a chunk: refused, lost, delayed
    MaxFaults,    \* bound: chunks that go wrong
    MaxRetries,   \* bound: retries a person asks for
    MaxCrashes    \* bound: restarts of the process

ASSUME TransferConstants == FaultKinds \subseteq {"refused", "lost", "delayed"}

VARIABLES
    sync,      \* the capture's state, as far as this artifact goes
    pos,       \* the position of the chunk in hand
    chunk,     \* the chunk in hand, or "eof"
    sent,      \* the chunks this attempt has hashed
    buffer,    \* the server: chunks collected under the uid
    stored,    \* the server: the content stored under the name
    transit,   \* chunks the client gave up on that may still arrive
    refusals,  \* attempts the server ended because of the hash
    faults,    \* chunks that went wrong so far
    retries,   \* retries so far
    crashes    \* restarts so far

transferVars == <<sync, pos, chunk, sent, buffer, stored, transit, refusals,
                  faults, retries, crashes>>
vars == <<ingressVars, transferVars>>

Declared == DeclaredFile      \* as a sequence of chunks
Nothing == <<"nothing">>                         \* no content is stored

Init ==
    /\ IngressInit
    /\ sync = "waiting"
    /\ pos = 1
    /\ chunk = "eof"
    /\ sent = <<>>
    /\ buffer = <<>>
    /\ stored = Nothing
    /\ transit = {}
    /\ refusals = 0
    /\ faults = 0
    /\ retries = 0
    /\ crashes = 0

TypeOK ==
    /\ IngressTypeOK
    /\ sync \in {"waiting", "retry_wait", "sending", "receipt", "needs_attention", "done"}
    /\ pos \in Nat \ {0}
    /\ chunk \in Bytes \cup {"eof"}
    /\ sent \in Seq(Bytes)
    /\ buffer \in Seq(Bytes)
    /\ stored \in {Nothing} \cup Seq(Bytes)
    /\ transit \subseteq [chunk : Bytes \cup {"eof"}, last : BOOLEAN]
    /\ {refusals, faults, retries, crashes} \subseteq Nat
-----------------------------------------------------------------------------
(* What a read at position k of a file returns.                            *)
ReadAt(file, k) ==
    IF \A j \in Positions : j >= k => content[file][j] = "none" THEN "eof"
    ELSE content[file][k]

Extended(s, c) == IF c = "eof" THEN s ELSE Append(s, c)

(* Mutant: a refused upload leaves its chunks in the buffer.               *)
Deliver_KeepsBuffer(c, last) ==
    LET all == Extended(buffer, c) IN
    IF stored # Nothing THEN UNCHANGED <<buffer, stored>>
    ELSE /\ buffer' = IF last /\ all = Declared THEN <<>> ELSE all
         /\ stored' = IF last /\ all = Declared THEN all ELSE stored

(* Mutant: the server is not told the hash.                                *)
Deliver_Unhashed(c, last) ==
    LET all == Extended(buffer, c) IN
    IF stored # Nothing THEN UNCHANGED <<buffer, stored>>
    ELSE /\ buffer' = IF last THEN <<>> ELSE all
         /\ stored' = IF last THEN all ELSE stored

(* The server's upload handler: a known name is acknowledged and nothing   *)
(* is kept; the last chunk empties the buffer whatever its hash is.        *)
Deliver(c, last) ==
    LET all == Extended(buffer, c) IN
    IF stored # Nothing THEN UNCHANGED <<buffer, stored>>
    ELSE /\ buffer' = IF last THEN <<>> ELSE all
         /\ stored' = IF last /\ all = Declared THEN all ELSE stored

HashRefused(c, last) == stored = Nothing /\ last /\ Extended(buffer, c) # Declared

(* An attempt opens the staged file and reads its first chunk.             *)
BeginUpload ==
    /\ committed
    /\ row = "received"
    /\ sync \in {"waiting", "retry_wait"}
    /\ sync' = "sending"
    /\ reader' = blob
    /\ pos' = 1
    /\ chunk' = ReadAt(blob, 1)
    /\ sent' = <<>>
    /\ UNCHANGED <<phase, body, handle, got, put, content, partial, blob, row, committed, shared>>
    /\ UNCHANGED <<buffer, stored, transit, refusals, faults, retries, crashes>>

EndAttempt(state) ==
    /\ sync' = state
    /\ reader' = NoFile
    /\ UNCHANGED <<pos, chunk, sent>>
    /\ UNCHANGED <<phase, body, handle, got, put, content, partial, blob, row, committed, shared>>

(* The next chunk is read before this one is sent, so that the last one is *)
(* known.  The receipt is recorded when what was read has the hash.        *)
SendChunk ==
    LET next == ReadAt(reader, pos + 1)
        last == next = "eof" IN
    /\ sync = "sending"
    /\ UNCHANGED <<retries, crashes>>
    /\ \/ /\ HashRefused(chunk, last)
          /\ Deliver(chunk, last)
          /\ refusals' = refusals + 1
          /\ EndAttempt("needs_attention")
          /\ UNCHANGED <<transit, faults>>
       \/ /\ ~HashRefused(chunk, last)
          /\ ~last
          /\ Deliver(chunk, last)
          /\ sent' = Extended(sent, chunk)
          /\ pos' = pos + 1
          /\ chunk' = next
          /\ UNCHANGED <<ingressVars, sync, transit, refusals, faults>>
       \/ /\ ~HashRefused(chunk, last)
          /\ last
          /\ Deliver(chunk, last)
          /\ EndAttempt(IF Extended(sent, chunk) = Declared THEN "receipt"
                        ELSE "needs_attention")
          /\ UNCHANGED <<transit, refusals, faults>>
       \/ /\ faults < MaxFaults
          /\ faults' = faults + 1
          /\ EndAttempt("retry_wait")
          /\ \/ /\ "refused" \in FaultKinds
                /\ UNCHANGED <<buffer, stored, transit>>
             \/ /\ "lost" \in FaultKinds
                /\ Deliver(chunk, last) /\ UNCHANGED transit
             \/ /\ "delayed" \in FaultKinds
                /\ transit' = transit \cup {[chunk |-> chunk, last |-> last]}
                /\ UNCHANGED <<buffer, stored>>
          /\ UNCHANGED refusals

(* mark_artifact_uploaded                                                  *)
RecordReceipt ==
    /\ sync = "receipt"
    /\ sync' = "done"
    /\ row' = "uploaded"
    /\ UNCHANGED <<phase, body, handle, got, put, content, partial, blob, committed, reader,
                   shared>>
    /\ UNCHANGED <<pos, chunk, sent, buffer, stored, transit, refusals, faults, retries,
                   crashes>>

LateChunk ==
    /\ \E m \in transit : Deliver(m.chunk, m.last) /\ transit' = transit \ {m}
    /\ UNCHANGED <<ingressVars, sync, pos, chunk, sent, refusals, faults, retries, crashes>>

(* A person retries the capture.                                           *)
Retry ==
    /\ sync = "needs_attention"
    /\ retries < MaxRetries
    /\ retries' = retries + 1
    /\ sync' = "waiting"
    /\ UNCHANGED <<ingressVars, pos, chunk, sent, buffer, stored, transit, refusals,
                   faults, crashes>>

(* The process dies and recovers the capture that was in flight.           *)
Crash ==
    /\ crashes < MaxCrashes
    /\ crashes' = crashes + 1
    /\ IngressCrash
    /\ sync' = IF sync \in {"sending", "receipt"} THEN "waiting" ELSE sync
    /\ UNCHANGED <<pos, chunk, sent, buffer, stored, transit, refusals, faults, retries>>

Next ==
    \/ IngressStep /\ UNCHANGED transferVars
    \/ BeginUpload
    \/ SendChunk
    \/ RecordReceipt
    \/ LateChunk
    \/ Retry
    \/ Crash

Spec == Init /\ [][Next]_vars
-----------------------------------------------------------------------------
(* Whatever happened to the staged file and to the chunks on their way,    *)
(* the server holds the declared content or nothing, and a row is marked   *)
(* uploaded only when it holds it.                                         *)
DeliveredIsDeclared ==
    /\ stored \in {Nothing, Declared}
    /\ row = "uploaded" => stored = Declared

(* An interrupted attempt may leave chunks behind, and a chunk that went   *)
(* astray may arrive among those of a later attempt: each makes the server *)
(* refuse one attempt for its hash, and no more than one - for a file that *)
(* was staged by uploads that took turns.                                  *)
RefusalsBounded == ~shared => refusals <= 2 * faults + crashes

(* What docs/matelab-contract.md says of network errors: they are          *)
(* retryable, a person is not needed.                                      *)
RetriesSuffice == sync # "needs_attention"
=============================================================================
