--------------------------- MODULE TransferProofs ---------------------------
(***************************************************************************)
(* The staging and the upload of an artifact, for any number of uploads,   *)
(* chunks, faults, retries and crashes.                                    *)
(*                                                                         *)
(* Uploads that take turns: the one that is open is the only writer of the *)
(* .part, whose content is known up to the last flush (Turns).  What an    *)
(* attempt reads is then the declared content, chunk by chunk (Reading),   *)
(* and so it can be refused only for chunks that others left in the        *)
(* server's buffer, or that are still on their way (Spared).               *)
(***************************************************************************)
EXTENDS ArtifactTransfer, FiniteSetTheorems, TLAPS

(* Where the files come from: a request that has not begun has none.       *)
Files ==
    /\ row # "declared" => blob # NoFile
    /\ partial # NoFile => partial # blob
    /\ \A u \in Uploads :
          /\ phase[u] = "new" => got[u] = 0 /\ put[u] = 0 /\ u # partial /\ u # blob
          /\ phase[u] = "body" => handle[u] # NoFile /\ put[u] <= got[u]

Turns ==
    ~shared => \A u \in Open :
        /\ \A v \in Open : v = u
        /\ row = "declared"
        /\ handle[u] = partial
        /\ content[partial] = [k \in Positions |-> IF k <= put[u] THEN body[u] ELSE "none"]

StagingInv == IngressTypeOK /\ Files /\ Turns /\ ReceivedIsDeclared

Reading ==
    sync = "sending" =>
        /\ row # "declared"
        /\ reader # NoFile
        /\ ~shared =>
              /\ content[reader] = DeclaredFile
              /\ sent = [k \in 1..(pos - 1) |-> "declared"]
              /\ IF Chunks = 0 THEN pos = 1 /\ chunk = "eof" ELSE pos <= Chunks /\ chunk = "declared"

Acknowledged ==
    /\ DeliveredIsDeclared
    /\ sync = "receipt" => stored = Declared /\ row # "declared"

(* Chunks in the buffer that are not those of the attempt that is made.    *)
Litter ==
    IF stored = Nothing /\ buffer # (IF sync = "sending" THEN sent ELSE <<>>) THEN 1 ELSE 0

Spared ==
    /\ IsFiniteSet(transit)
    /\ ~shared => refusals + Litter + Cardinality(transit) <= 2 * faults + crashes

TransferInv == TypeOK /\ StagingInv /\ Reading /\ Acknowledged /\ Spared
-----------------------------------------------------------------------------
(* What a step does to the files.                                          *)

LEMMA FileTypes ==
    ASSUME IngressTypeOK
    PROVE  /\ phase \in [Uploads -> {"new", "body", "done"}]
           /\ body \in [Uploads -> {"declared", "other"}]
           /\ handle \in [Uploads -> Uploads \cup {NoFile}]
           /\ got \in [Uploads -> 0..Chunks] /\ put \in [Uploads -> 0..Chunks]
           /\ content \in [Uploads -> [Positions -> Bytes]]
           /\ partial \in Uploads \cup {NoFile} /\ blob \in Uploads \cup {NoFile}
           /\ reader \in Uploads \cup {NoFile}
BY DEF IngressTypeOK

(* The file of an upload after a flush.                                    *)
LEMMA Flushes ==
    ASSUME IngressTypeOK, NEW u \in Uploads, handle[u] \in Uploads, NEW n, Flush(u, n)
    PROVE  /\ content' \in [Uploads -> [Positions -> Bytes]]
           /\ content'[handle[u]] = [k \in Positions |-> IF put[u] < k /\ k <= n THEN body[u]
                                                        ELSE content[handle[u]][k]]
           /\ \A f \in Uploads \ {handle[u]} : content'[f] = content[f]
<1>. DEFINE file == [k \in Positions |-> IF put[u] < k /\ k <= n THEN body[u]
                                         ELSE content[handle[u]][k]]
<1>1. file \in [Positions -> Bytes]
  BY FileTypes DEF Bytes
<1>2. content' = [content EXCEPT ![handle[u]] = file]
  BY FileTypes DEF Flush
<1>. QED  BY <1>1, <1>2, FileTypes

LEMMA Closes ==
    ASSUME IngressTypeOK, Files, NEW u \in Uploads, phase[u] = "body", Close(u)
    PROVE  /\ handle[u] \in Uploads
           /\ content' \in [Uploads -> [Positions -> Bytes]]
           /\ content'[handle[u]] = [k \in Positions |-> IF put[u] < k /\ k <= got[u] THEN body[u]
                                                        ELSE content[handle[u]][k]]
           /\ \A f \in Uploads \ {handle[u]} : content'[f] = content[f]
           /\ phase' = [phase EXCEPT ![u] = "done"] /\ handle' = [handle EXCEPT ![u] = NoFile]
           /\ UNCHANGED <<body, got, put, committed, reader, shared>>
<1>1. handle[u] \in Uploads
  BY FileTypes DEF Files
<1>. QED  BY <1>1, Flushes DEF Close

LEMMA StagingInitial == ASSUME IngressInit PROVE StagingInv
<1>0. EmptyFile \in [Positions -> Bytes] /\ 0 \in 0..Chunks
  BY IngressConstants DEF EmptyFile, Bytes
<1>1. IngressTypeOK
  BY <1>0 DEF IngressInit, IngressTypeOK
<1>. QED
  BY <1>1, IngressConstants DEF IngressInit, StagingInv, Files, Turns, Open, ReceivedIsDeclared

LEMMA BeginStages ==
    ASSUME StagingInv, NEW u \in Uploads, BeginReceive(u)
    PROVE  StagingInv'
<1>. DEFINE file == IF partial = NoFile THEN u ELSE partial
<1>1. /\ phase[u] = "new" /\ row = "declared" /\ partial' = file
      /\ handle' = [handle EXCEPT ![u] = file]
      /\ content' = [content EXCEPT ![file] = EmptyFile]
      /\ phase' = [phase EXCEPT ![u] = "body"]
      /\ \E b \in {"declared", "other"} : body' = [body EXCEPT ![u] = b]
      /\ shared' = (shared \/ Open # {})
      /\ UNCHANGED <<got, put, blob, row, committed, reader>>
  BY DEF BeginReceive
<1>2. file \in Uploads /\ EmptyFile \in [Positions -> Bytes]
  BY FileTypes DEF StagingInv, EmptyFile, Bytes
<1>3. /\ phase' \in [Uploads -> {"new", "body", "done"}]
      /\ body' \in [Uploads -> {"declared", "other"}]
      /\ handle' \in [Uploads -> Uploads \cup {NoFile}]
      /\ content' \in [Uploads -> [Positions -> Bytes]]
      /\ content'[file] = EmptyFile
  BY <1>1, <1>2, FileTypes DEF StagingInv
<1>4. IngressTypeOK'
  BY <1>1, <1>2, <1>3 DEF StagingInv, IngressTypeOK
<1>5. Files'
  BY <1>1, <1>2, FileTypes, IngressConstants DEF StagingInv, Files
<1>6. Turns'
  <2>1. ASSUME ~shared' PROVE Open' = {u} /\ put'[u] = 0
    BY <1>1, <2>1, FileTypes DEF Open, StagingInv, Files
  <2>2. EmptyFile = [k \in Positions |-> IF k <= 0 THEN body'[u] ELSE "none"]
    BY IngressConstants DEF EmptyFile, Positions
  <2>3. handle'[u] = partial' /\ content'[partial'] = EmptyFile
    BY <1>1, <1>2, <1>3, FileTypes DEF StagingInv
  <2>. QED  BY <1>1, <2>1, <2>2, <2>3 DEF Turns
<1>7. ReceivedIsDeclared'
  BY <1>1 DEF ReceivedIsDeclared
<1>. QED  BY <1>4, <1>5, <1>6, <1>7 DEF StagingInv

LEMMA ChunkStages ==
    ASSUME StagingInv, NEW u \in Uploads, ReceiveChunk(u)
    PROVE  StagingInv'
<1>1. /\ phase[u] = "body" /\ got[u] < Chunks /\ got' = [got EXCEPT ![u] = got[u] + 1]
      /\ UNCHANGED <<phase, body, handle, partial, blob, row, committed, reader, shared>>
  BY DEF ReceiveChunk
<1>2. /\ handle[u] \in Uploads /\ got[u] \in 0..Chunks /\ put[u] \in 0..Chunks
      /\ got[u] + 1 \in 0..Chunks /\ put[u] <= got[u]
  BY <1>1, FileTypes, IngressConstants DEF StagingInv, Files
<1>3. CASE UNCHANGED <<put, content>>
  <2>1. IngressTypeOK'
    BY <1>1, <1>2, <1>3, FileTypes DEF StagingInv, IngressTypeOK
  <2>2. Files'
    BY <1>1, <1>2, <1>3, FileTypes DEF StagingInv, Files
  <2>. QED
    BY <1>1, <1>3, <2>1, <2>2 DEF StagingInv, Turns, Open, ReceivedIsDeclared
<1>4. CASE Flush(u, got[u] + 1) /\ put' = [put EXCEPT ![u] = got[u] + 1]
  <2>1. /\ content' \in [Uploads -> [Positions -> Bytes]]
        /\ content'[handle[u]] =
              [k \in Positions |-> IF put[u] < k /\ k <= got[u] + 1 THEN body[u]
                                   ELSE content[handle[u]][k]]
        /\ \A f \in Uploads \ {handle[u]} : content'[f] = content[f]
    BY <1>2, <1>4, Flushes DEF StagingInv
  <2>2. IngressTypeOK'
    BY <1>1, <1>2, <1>4, <2>1, FileTypes DEF StagingInv, IngressTypeOK
  <2>3. Files'
    BY <1>1, <1>2, <1>4, FileTypes DEF StagingInv, Files
  <2>4. Turns'
    <3>1. SUFFICES ASSUME ~shared, NEW v \in Open
                   PROVE  /\ \A x \in Open : x = v
                          /\ row = "declared" /\ handle[v] = partial
                          /\ content'[partial] =
                                [k \in Positions |-> IF k <= put'[v] THEN body[v] ELSE "none"]
      BY <1>1 DEF Turns, Open
    <3>2. /\ \A x \in Open : x = v
          /\ row = "declared" /\ handle[v] = partial /\ v = u
          /\ content[partial] = [k \in Positions |-> IF k <= put[u] THEN body[u] ELSE "none"]
      BY <1>1, <3>1 DEF StagingInv, Turns, Open
    <3>3. \A k \in Positions : content'[partial][k] = IF k <= got[u] + 1 THEN body[u] ELSE "none"
      BY <1>2, <2>1, <3>2, IngressConstants DEF Positions
    <3>. QED  BY <1>2, <1>4, <2>1, <3>2, <3>3, FileTypes DEF StagingInv
  <2>5. ReceivedIsDeclared'
    BY <1>1 DEF StagingInv, Turns, Open, ReceivedIsDeclared
  <2>. QED  BY <2>2, <2>3, <2>4, <2>5 DEF StagingInv
<1>. QED  BY <1>3, <1>4 DEF ReceiveChunk

LEMMA FailureStages ==
    ASSUME StagingInv, NEW u \in Uploads, phase[u] = "body", Close(u), Discard(u)
    PROVE  StagingInv'
<1>1. /\ handle[u] \in Uploads
      /\ content' \in [Uploads -> [Positions -> Bytes]]
      /\ phase' = [phase EXCEPT ![u] = "done"] /\ handle' = [handle EXCEPT ![u] = NoFile]
      /\ UNCHANGED <<body, got, put, committed, reader, shared>>
  BY Closes DEF StagingInv
<1>2. partial' \in {NoFile, partial} /\ UNCHANGED <<blob, row>>
  BY DEF Discard
<1>3. IngressTypeOK'
  BY <1>1, <1>2, FileTypes DEF StagingInv, IngressTypeOK
<1>4. Files'
  BY <1>1, <1>2, FileTypes, IngressConstants DEF StagingInv, Files
<1>5. ASSUME ~shared PROVE Open' = {} /\ row = "declared"
  <2>1. u \in Open /\ row = "declared" /\ \A v \in Open : v = u
    BY <1>5 DEF StagingInv, Turns, Open
  <2>2. Open' = Open \ {u}
    BY <1>1, FileTypes DEF StagingInv, Open
  <2>. QED  BY <2>1, <2>2
<1>. QED
  BY <1>1, <1>2, <1>3, <1>4, <1>5 DEF StagingInv, Turns, ReceivedIsDeclared

LEMMA FinishStages ==
    ASSUME StagingInv, NEW u \in Uploads, FinishReceive(u)
    PROVE  StagingInv'
<1>1. phase[u] = "body" /\ got[u] = Chunks /\ body[u] = "declared" /\ Close(u)
  BY DEF FinishReceive
<1>2. CASE Discard(u)
  BY <1>1, <1>2, FailureStages
<1>3. CASE partial # NoFile /\ blob' = partial /\ partial' = NoFile /\ row' \in {row, "received"}
  <2>1. /\ handle[u] \in Uploads
        /\ content' \in [Uploads -> [Positions -> Bytes]]
        /\ content'[handle[u]] = [k \in Positions |-> IF put[u] < k /\ k <= got[u] THEN body[u]
                                                     ELSE content[handle[u]][k]]
        /\ phase' = [phase EXCEPT ![u] = "done"] /\ handle' = [handle EXCEPT ![u] = NoFile]
        /\ UNCHANGED <<body, got, put, committed, reader, shared>>
    BY <1>1, Closes DEF StagingInv
  <2>2. IngressTypeOK'
    BY <1>3, <2>1, FileTypes DEF StagingInv, IngressTypeOK
  <2>3. Files'
    BY <1>3, <2>1, FileTypes, IngressConstants DEF StagingInv, Files
  <2>4. ASSUME ~shared PROVE Open' = {} /\ content'[blob'] = DeclaredFile
    <3>1. /\ Open' = {} /\ handle[u] = partial
          /\ content[partial] = [k \in Positions |-> IF k <= put[u] THEN body[u] ELSE "none"]
      <4>1. /\ u \in Open /\ \A v \in Open : v = u
            /\ handle[u] = partial
            /\ content[partial] = [k \in Positions |-> IF k <= put[u] THEN body[u] ELSE "none"]
        BY <1>1, <2>4 DEF StagingInv, Turns, Open
      <4>2. Open' = Open \ {u}
        BY <2>1, FileTypes DEF StagingInv, Open
      <4>. QED  BY <4>1, <4>2
    <3>2. \A k \in Positions : content'[partial][k] = "declared"
      BY <1>1, <2>1, <3>1, FileTypes, IngressConstants DEF StagingInv, Positions
    <3>. QED  BY <1>3, <2>1, <3>1, <3>2 DEF DeclaredFile
  <2>. QED
    BY <1>3, <2>1, <2>2, <2>3, <2>4 DEF StagingInv, Turns, ReceivedIsDeclared, Files
<1>. QED  BY <1>2, <1>3 DEF FinishReceive

LEMMA CrashStages == ASSUME StagingInv, IngressCrash PROVE StagingInv'
<1>1. /\ phase' = [u \in Uploads |-> IF phase[u] = "body" THEN "done" ELSE phase[u]]
      /\ handle' = [u \in Uploads |-> NoFile] /\ reader' = NoFile
      /\ UNCHANGED <<body, got, put, content, partial, blob, row, committed, shared>>
  BY DEF IngressCrash
<1>2. Open' = {}
  BY <1>1, FileTypes DEF StagingInv, Open
<1>3. IngressTypeOK'
  BY <1>1, FileTypes DEF StagingInv, IngressTypeOK
<1>. QED
  BY <1>1, <1>2, <1>3, FileTypes DEF StagingInv, Files, Turns, ReceivedIsDeclared

(* A step that leaves the files alone, whatever it does to the row after   *)
(* the artifact was received, and to the reader.                           *)
LEMMA OthersStage ==
    ASSUME StagingInv,
           UNCHANGED <<phase, body, handle, got, put, content, partial, blob, shared>>,
           row' = row \/ (row # "declared" /\ row' = "uploaded"),
           committed' \in BOOLEAN, reader' \in Uploads \cup {NoFile}
    PROVE  StagingInv'
<1>1. IngressTypeOK'
  BY DEF StagingInv, IngressTypeOK
<1>. QED  BY <1>1 DEF StagingInv, Files, Turns, Open, ReceivedIsDeclared

LEMMA IngressStages ==
    ASSUME StagingInv, IngressStep
    PROVE  StagingInv' /\ reader' = reader
<1>1. ASSUME CommitCapture PROVE StagingInv' /\ reader' = reader
  <2>1. /\ UNCHANGED <<phase, body, handle, got, put, content, partial, blob, row, reader, shared>>
        /\ committed' \in BOOLEAN
    BY <1>1 DEF CommitCapture
  <2>2. reader' \in Uploads \cup {NoFile}
    BY <2>1, FileTypes DEF StagingInv
  <2>3. StagingInv'
    BY <2>1, <2>2, OthersStage
  <2>. QED  BY <2>1, <2>3
<1>2. ASSUME NEW u \in Uploads, FailReceive(u) PROVE StagingInv' /\ reader' = reader
  BY <1>2, FailureStages DEF FailReceive, Close
<1>3. ASSUME NEW u \in Uploads, BeginReceive(u) \/ ReceiveChunk(u) \/ FinishReceive(u)
      PROVE  StagingInv' /\ reader' = reader
  BY <1>3, BeginStages, ChunkStages, FinishStages
     DEF BeginReceive, ReceiveChunk, FinishReceive, Close
<1>. QED  BY <1>1, <1>2, <1>3 DEF IngressStep
-----------------------------------------------------------------------------
(* The upload.                                                             *)

LEMMA SyncTypes ==
    ASSUME TypeOK
    PROVE  /\ sync \in {"waiting", "retry_wait", "sending", "receipt", "needs_attention", "done"}
           /\ pos \in Nat \ {0} /\ chunk \in Bytes \cup {"eof"}
           /\ sent \in Seq(Bytes) /\ buffer \in Seq(Bytes)
           /\ stored \in {Nothing} \cup Seq(Bytes)
           /\ transit \subseteq [chunk : Bytes \cup {"eof"}, last : BOOLEAN]
           /\ refusals \in Nat /\ faults \in Nat /\ retries \in Nat /\ crashes \in Nat
BY DEF TypeOK

LEMMA DeclaredTyped == DeclaredFile \in Seq(Bytes) /\ Declared = DeclaredFile
<1>1. DeclaredFile \in [1..Chunks -> Bytes]
  BY DEF DeclaredFile, Positions, Bytes
<1>. QED  BY <1>1, IngressConstants DEF Declared

LEMMA ExtendedTyped ==
    ASSUME NEW s \in Seq(Bytes), NEW c \in Bytes \cup {"eof"}
    PROVE  Extended(s, c) \in Seq(Bytes)
BY DEF Extended

LEMMA ReadTyped ==
    ASSUME IngressTypeOK, NEW file \in Uploads, NEW k \in Nat \ {0}
    PROVE  ReadAt(file, k) \in Bytes \cup {"eof"}
<1>1. CASE \A j \in Positions : j >= k => content[file][j] = "none"
  BY <1>1 DEF ReadAt
<1>2. CASE \E j \in Positions : j >= k /\ content[file][j] # "none"
  <2>1. k \in Positions
    BY <1>2, IngressConstants DEF Positions
  <2>. QED  BY <2>1, FileTypes DEF ReadAt
<1>. QED  BY <1>1, <1>2

(* What is read of a file with the declared content.                       *)
LEMMA ReadDeclared ==
    ASSUME NEW file, content[file] = DeclaredFile, NEW k \in Nat \ {0}
    PROVE  ReadAt(file, k) = IF k <= Chunks THEN "declared" ELSE "eof"
BY IngressConstants DEF ReadAt, DeclaredFile, Positions

(* Whatever arrives, the server stores the declared content or nothing, and *)
(* what it has stored stays.                                               *)
LEMMA Delivers ==
    ASSUME TypeOK, Acknowledged, NEW c \in Bytes \cup {"eof"}, NEW last \in BOOLEAN,
           Deliver(c, last)
    PROVE  /\ buffer' \in Seq(Bytes) /\ stored' \in {Nothing} \cup Seq(Bytes)
           /\ stored' \in {Nothing, Declared}
           /\ stored = Declared => stored' = Declared
           /\ stored # Nothing => stored' # Nothing
<1>1. Extended(buffer, c) \in Seq(Bytes) /\ stored \in {Nothing, Declared}
  BY SyncTypes, ExtendedTyped DEF Acknowledged, DeliveredIsDeclared
<1>2. CASE stored # Nothing
  BY <1>1, <1>2, SyncTypes DEF Deliver
<1>3. CASE stored = Nothing
  <2>1. \/ stored' = stored
        \/ stored' = Declared
    BY <1>3 DEF Deliver
  <2>2. buffer' \in {<<>>, Extended(buffer, c)}
    BY <1>3 DEF Deliver
  <2>3. buffer' \in Seq(Bytes)
    <3>1. Extended(buffer, c) \in Seq(Bytes) /\ <<>> \in Seq(Bytes)
      BY <1>1
    <3>. HIDE DEF Extended
    <3>. QED  BY <2>2, <3>1
  <2>4. Declared \in Seq(Bytes)
    BY DeclaredTyped
  <2>. QED  BY <1>3, <2>1, <2>3, <2>4
<1>. QED  BY <1>2, <1>3

LEMMA MessagesFinite ==
    ASSUME NEW c, NEW last, IsFiniteSet(transit)
    PROVE  LET m == [chunk |-> c, last |-> last] IN
           /\ IsFiniteSet(transit \cup {m}) /\ IsFiniteSet(transit \ {m})
           /\ Cardinality(transit) \in Nat
           /\ Cardinality(transit \cup {m}) \in Nat
           /\ Cardinality(transit \cup {m}) <= Cardinality(transit) + 1
<1>. DEFINE m == [chunk |-> c, last |-> last]
<1>1. IsFiniteSet(transit \cup {m}) /\ IsFiniteSet(transit \ {m})
  BY FS_AddElement, FS_RemoveElement
<1>2. Cardinality(transit) \in Nat /\ Cardinality(transit \cup {m}) \in Nat
  BY <1>1, FS_CardinalityType
<1>3. CASE m \in transit
  <2>1. transit \cup {m} = transit
    BY <1>3
  <2>. QED  BY <1>1, <1>2, <2>1
<1>4. CASE m \notin transit
  <2>1. Cardinality(transit \cup {m}) = Cardinality(transit) + 1
    BY <1>4, FS_AddElement
  <2>. QED  BY <1>1, <1>2, <2>1
<1>. QED  BY <1>3, <1>4

LEMMA TransferInitial == ASSUME Init PROVE TransferInv
<1>1. StagingInv
  BY StagingInitial DEF Init
<1>2. TypeOK
  BY <1>1 DEF Init, TypeOK, StagingInv, Bytes
<1>3. Spared
  BY FS_EmptySet DEF Init, Spared, Litter
<1>. QED
  BY <1>1, <1>2, <1>3
     DEF Init, IngressInit, TransferInv, Reading, Acknowledged, DeliveredIsDeclared

(* Staging goes on beside an upload, but not in the file that it reads.    *)
LEMMA StagingKeeps ==
    ASSUME StagingInv, IngressStep
    PROVE  /\ shared => shared'
           /\ row # "declared" => row' # "declared"
           /\ row' = "uploaded" => row = "uploaded"
           /\ ~shared' /\ row # "declared" => UNCHANGED content
<1>1. ASSUME NEW u \in Uploads, u \in Open, ~shared PROVE row = "declared"
  BY <1>1 DEF StagingInv, Turns
<1>2. CASE CommitCapture
  BY <1>2 DEF CommitCapture
<1>3. ASSUME NEW u \in Uploads, BeginReceive(u)
      PROVE  (shared => shared') /\ row = "declared" /\ row' = row
  BY <1>3 DEF BeginReceive
<1>4. ASSUME NEW u \in Uploads, ReceiveChunk(u)
      PROVE  u \in Open /\ UNCHANGED <<shared, row>>
  BY <1>4 DEF ReceiveChunk, Open
<1>5. ASSUME NEW u \in Uploads, FailReceive(u)
      PROVE  u \in Open /\ UNCHANGED <<shared, row>>
  BY <1>5 DEF FailReceive, Close, Discard, Open
<1>6. ASSUME NEW u \in Uploads, FinishReceive(u)
      PROVE  u \in Open /\ UNCHANGED shared /\ row' \in {row, "received"}
  BY <1>6 DEF FinishReceive, Close, Discard, Open
<1>. QED  BY <1>1, <1>2, <1>3, <1>4, <1>5, <1>6 DEF IngressStep

LEMMA IngressTransfers ==
    ASSUME TransferInv, IngressStep, UNCHANGED transferVars
    PROVE  TransferInv'
<1>1. StagingInv' /\ reader' = reader
  BY IngressStages DEF TransferInv
<1>2. TypeOK'
  BY <1>1 DEF TransferInv, TypeOK, transferVars, StagingInv
<1>3. /\ shared => shared'
      /\ row # "declared" => row' # "declared"
      /\ row' = "uploaded" => row = "uploaded"
      /\ ~shared' /\ row # "declared" => UNCHANGED content
  BY StagingKeeps DEF TransferInv
<1>4. Reading'
  BY <1>1, <1>3 DEF TransferInv, Reading, transferVars
<1>5. Acknowledged' /\ Spared'
  BY <1>3 DEF TransferInv, Acknowledged, DeliveredIsDeclared, Spared, Litter, transferVars
<1>. QED  BY <1>1, <1>2, <1>4, <1>5 DEF TransferInv

LEMMA LitterCounts == Litter \in {0, 1} /\ Litter' \in {0, 1}
BY DEF Litter

LEMMA BeginTransfers == ASSUME TransferInv, BeginUpload PROVE TransferInv'
<1>1. /\ row = "received" /\ sync # "sending" /\ sync' = "sending" /\ reader' = blob /\ pos' = 1
      /\ chunk' = ReadAt(blob, 1) /\ sent' = <<>>
      /\ UNCHANGED <<phase, body, handle, got, put, content, partial, blob, row, committed, shared>>
      /\ UNCHANGED <<buffer, stored, transit, refusals, faults, retries, crashes>>
  BY DEF BeginUpload
<1>2. blob \in Uploads /\ TypeOK /\ IngressTypeOK
  BY <1>1, FileTypes DEF TransferInv, StagingInv, Files
<1>3. StagingInv'
  BY <1>1, <1>2, OthersStage DEF TransferInv, IngressTypeOK
<1>4. TypeOK'
  BY <1>1, <1>2, <1>3, ReadTyped DEF TypeOK, StagingInv
<1>5. Reading'
  <2>1. ASSUME ~shared
        PROVE  /\ content[blob] = DeclaredFile
               /\ chunk' = IF 1 <= Chunks THEN "declared" ELSE "eof"
    BY <1>1, <2>1, ReadDeclared DEF TransferInv, StagingInv, ReceivedIsDeclared
  <2>2. <<>> = [k \in 1..(1 - 1) |-> "declared"]
    OBVIOUS
  <2>. QED  BY <1>1, <1>2, <2>1, <2>2, IngressConstants DEF Reading
<1>6. Acknowledged' /\ Spared'
  BY <1>1 DEF TransferInv, Acknowledged, DeliveredIsDeclared, Spared, Litter
<1>. QED  BY <1>3, <1>4, <1>5, <1>6 DEF TransferInv

(* What an attempt has hashed, and what it reads next.                     *)
LEMMA ReadingOn ==
    ASSUME TransferInv, sync = "sending", ~shared
    PROVE  /\ ReadAt(reader, pos + 1) = "eof" => Extended(sent, chunk) = Declared
           /\ ReadAt(reader, pos + 1) # "eof" =>
                 /\ ReadAt(reader, pos + 1) = "declared" /\ pos + 1 <= Chunks
                 /\ Extended(sent, chunk) = [k \in 1..pos |-> "declared"]
<1>1. /\ content[reader] = DeclaredFile /\ pos \in Nat \ {0} /\ Chunks \in Nat
      /\ sent = [k \in 1..(pos - 1) |-> "declared"]
      /\ IF Chunks = 0 THEN pos = 1 /\ chunk = "eof" ELSE pos <= Chunks /\ chunk = "declared"
  BY SyncTypes, IngressConstants DEF TransferInv, Reading
<1>2. ReadAt(reader, pos + 1) = IF pos + 1 <= Chunks THEN "declared" ELSE "eof"
  BY <1>1, ReadDeclared
<1>3. CASE Chunks = 0
  <2>1. Extended(sent, chunk) = sent /\ sent = [k \in 1..0 |-> "declared"]
    BY <1>1, <1>3 DEF Extended
  <2>. QED  BY <1>1, <1>2, <1>3, <2>1, DeclaredTyped DEF DeclaredFile, Positions
<1>4. CASE Chunks # 0
  <2>1. Extended(sent, chunk) = [k \in 1..pos |-> "declared"]
    BY <1>1, <1>4 DEF Extended
  <2>2. pos + 1 > Chunks => pos = Chunks
    BY <1>1, <1>4
  <2>. QED  BY <1>1, <1>2, <2>1, <2>2, DeclaredTyped DEF DeclaredFile, Positions
<1>. QED  BY <1>3, <1>4

(* An attempt that ends, however it ends.                                  *)
LEMMA EndTransfers ==
    ASSUME TransferInv, sync = "sending", NEW end \in {"retry_wait", "needs_attention", "receipt"},
           EndAttempt(end), UNCHANGED <<retries, crashes>>,
           buffer' \in Seq(Bytes), stored' \in {Nothing, Declared},
           stored = Declared => stored' = Declared,
           end = "receipt" => stored' = Declared,
           transit' \subseteq [chunk : Bytes \cup {"eof"}, last : BOOLEAN],
           refusals' \in Nat, faults' \in Nat, Spared'
    PROVE  TransferInv'
<1>1. /\ sync' = end /\ reader' = NoFile /\ UNCHANGED <<pos, chunk, sent>>
      /\ UNCHANGED <<phase, body, handle, got, put, content, partial, blob, row, committed, shared>>
  BY DEF EndAttempt
<1>2. StagingInv'
  BY <1>1, OthersStage DEF TransferInv, StagingInv, IngressTypeOK
<1>3. TypeOK'
  BY <1>1, <1>2, SyncTypes, DeclaredTyped DEF TransferInv, TypeOK, StagingInv
<1>4. Reading' /\ Acknowledged'
  BY <1>1 DEF TransferInv, Reading, Acknowledged, DeliveredIsDeclared
<1>. QED  BY <1>2, <1>3, <1>4 DEF TransferInv

LEMMA SendTransfers == ASSUME TransferInv, SendChunk PROVE TransferInv'
<1>. DEFINE next == ReadAt(reader, pos + 1)
            last == next = "eof"
<1>1. sync = "sending" /\ UNCHANGED <<retries, crashes>>
  BY DEF SendChunk
<1>2. /\ reader \in Uploads /\ pos \in Nat \ {0} /\ chunk \in Bytes \cup {"eof"}
      /\ TypeOK /\ Acknowledged /\ sent \in Seq(Bytes) /\ IngressTypeOK
      /\ IsFiniteSet(transit) /\ Cardinality(transit) \in Nat
      /\ refusals \in Nat /\ faults \in Nat /\ crashes \in Nat
      /\ transit \subseteq [chunk : Bytes \cup {"eof"}, last : BOOLEAN]
      /\ stored \in {Nothing, Declared} /\ buffer \in Seq(Bytes)
  BY <1>1, SyncTypes, FileTypes, FS_CardinalityType
     DEF TransferInv, StagingInv, Reading, Spared, Acknowledged, DeliveredIsDeclared
<1>3. next \in Bytes \cup {"eof"} /\ last \in BOOLEAN
  BY <1>2, ReadTyped
<1>4. ASSUME ~shared
      PROVE  /\ last => Extended(sent, chunk) = Declared
             /\ ~last => /\ next = "declared" /\ pos + 1 <= Chunks
                         /\ Extended(sent, chunk) = [k \in 1..pos |-> "declared"]
             /\ refusals + Litter + Cardinality(transit) <= 2 * faults + crashes
  BY <1>1, <1>4, ReadingOn DEF TransferInv, Spared
<1>5. CASE /\ HashRefused(chunk, last) /\ Deliver(chunk, last) /\ refusals' = refusals + 1
           /\ EndAttempt("needs_attention") /\ UNCHANGED <<transit, faults>>
  <2>1. stored = Nothing /\ last /\ Extended(buffer, chunk) # Declared
    BY <1>5 DEF HashRefused
  <2>2. buffer' = <<>> /\ stored' = Nothing
    BY <1>5, <2>1 DEF Deliver
  <2>3. sync' = "needs_attention" /\ shared' = shared
    BY <1>5 DEF EndAttempt
  <2>4. ~shared => Litter = 1
    BY <1>1, <1>4, <2>1 DEF Litter
  <2>5. Litter' = 0
    BY <2>2, <2>3 DEF Litter
  <2>6. Spared'
    BY <1>1, <1>2, <1>4, <1>5, <2>3, <2>4, <2>5 DEF Spared
  <2>. QED  BY <1>1, <1>2, <1>5, <2>1, <2>2, <2>6, EndTransfers
<1>6. CASE /\ ~HashRefused(chunk, last) /\ ~last /\ Deliver(chunk, last)
           /\ sent' = Extended(sent, chunk) /\ pos' = pos + 1 /\ chunk' = next
           /\ UNCHANGED <<ingressVars, sync, transit, refusals, faults>>
  <2>1. /\ buffer' \in Seq(Bytes) /\ stored' \in {Nothing, Declared}
        /\ stored = Declared => stored' = Declared
        /\ stored # Nothing => stored' # Nothing
    BY <1>2, <1>3, <1>6, Delivers
  <2>2. StagingInv'
    BY <1>6, OthersStage DEF TransferInv, StagingInv, IngressTypeOK, ingressVars
  <2>3. TypeOK'
    <3>1. sent' \in Seq(Bytes) /\ chunk' \in Bytes \cup {"eof"} /\ pos' \in Nat \ {0}
      BY <1>2, <1>3, <1>6, ExtendedTyped
    <3>2. /\ UNCHANGED <<sync, transit, refusals, faults, retries, crashes>>
          /\ stored' \in {Nothing} \cup Seq(Bytes)
      BY <1>1, <1>6, <2>1, DeclaredTyped
    <3>. QED  BY <1>2, <2>1, <2>2, <3>1, <3>2 DEF TypeOK, StagingInv
  <2>4. Reading'
    BY <1>1, <1>2, <1>3, <1>4, <1>6, IngressConstants DEF Reading, ingressVars, TransferInv
  <2>5. Acknowledged'
    BY <1>1, <1>6, <2>1 DEF TransferInv, Acknowledged, DeliveredIsDeclared, ingressVars
  <2>6. Litter' <= Litter
    <3>1. CASE stored # Nothing
      BY <2>1, <3>1 DEF Litter
    <3>2. CASE stored = Nothing /\ buffer # sent
      BY <1>1, <3>2 DEF Litter
    <3>3. CASE stored = Nothing /\ buffer = sent
      BY <1>1, <1>6, <3>3 DEF Litter, Deliver
    <3>. QED  BY <3>1, <3>2, <3>3
  <2>7. Spared'
    BY <1>1, <1>2, <1>4, <1>6, <2>6, LitterCounts DEF Spared, ingressVars
  <2>. QED  BY <2>2, <2>3, <2>4, <2>5, <2>7 DEF TransferInv
<1>7. CASE /\ ~HashRefused(chunk, last) /\ last /\ Deliver(chunk, last)
           /\ EndAttempt(IF Extended(sent, chunk) = Declared THEN "receipt" ELSE "needs_attention")
           /\ UNCHANGED <<transit, refusals, faults>>
  <2>1. buffer' \in Seq(Bytes) /\ stored' = Declared
    <3>1. /\ buffer' \in Seq(Bytes)
          /\ stored' \in {Nothing, Declared}
          /\ stored = Declared => stored' = Declared
      BY <1>2, <1>3, <1>7, Delivers
    <3>2. CASE stored # Nothing
      BY <1>2, <3>1, <3>2
    <3>3. CASE stored = Nothing
      BY <1>7, <3>1, <3>3 DEF HashRefused, Deliver
    <3>. QED  BY <3>2, <3>3, <3>1
  <2>2. sync' # "sending" /\ shared' = shared
    BY <1>7 DEF EndAttempt
  <2>3. Litter' = 0
    <3>1. CASE stored # Nothing
      BY <1>7, <3>1 DEF Deliver, Litter
    <3>2. CASE stored = Nothing
      BY <1>7, <2>2, <3>2 DEF Deliver, Litter
    <3>. QED  BY <3>1, <3>2
  <2>4. Spared'
    BY <1>1, <1>2, <1>4, <1>7, <2>2, <2>3, LitterCounts DEF Spared
  <2>. QED  BY <1>1, <1>2, <1>7, <2>1, <2>4, EndTransfers
<1>8. CASE /\ faults' = faults + 1 /\ EndAttempt("retry_wait") /\ UNCHANGED refusals
           /\ \/ UNCHANGED <<buffer, stored, transit>>
              \/ Deliver(chunk, last) /\ UNCHANGED transit
              \/ /\ transit' = transit \cup {[chunk |-> chunk, last |-> last]}
                 /\ UNCHANGED <<buffer, stored>>
  <2>1. /\ buffer' \in Seq(Bytes) /\ stored' \in {Nothing, Declared}
        /\ stored = Declared => stored' = Declared
    BY <1>2, <1>3, <1>8, Delivers
  <2>2. /\ IsFiniteSet(transit') /\ Cardinality(transit') \in Nat
        /\ Cardinality(transit') <= Cardinality(transit) + 1
        /\ transit' \subseteq [chunk : Bytes \cup {"eof"}, last : BOOLEAN]
    <3>1. CASE UNCHANGED transit
      BY <1>2, <3>1
    <3>2. CASE transit' = transit \cup {[chunk |-> chunk, last |-> last]}
      <4>1. [chunk |-> chunk, last |-> last] \in [chunk : Bytes \cup {"eof"}, last : BOOLEAN]
        BY <1>2, <1>3
      <4>. HIDE DEF next, last
      <4>2. /\ IsFiniteSet(transit') /\ Cardinality(transit') \in Nat
            /\ Cardinality(transit') <= Cardinality(transit) + 1
        BY <1>2, <3>2, MessagesFinite
      <4>. QED  BY <1>2, <3>2, <4>1, <4>2
    <3>. QED  BY <1>8, <3>1, <3>2
  <2>3. shared' = shared
    BY <1>8 DEF EndAttempt
  <2>4. Spared'
    BY <1>1, <1>2, <1>4, <1>8, <2>2, <2>3, LitterCounts DEF Spared
  <2>. QED  BY <1>1, <1>2, <1>8, <2>1, <2>2, <2>4, EndTransfers
<1>. QED  BY <1>5, <1>6, <1>7, <1>8 DEF SendChunk

LEMMA ReceiptTransfers == ASSUME TransferInv, RecordReceipt PROVE TransferInv'
<1>1. /\ sync = "receipt" /\ sync' = "done" /\ row' = "uploaded"
      /\ UNCHANGED <<phase, body, handle, got, put, content, partial, blob, committed, reader,
                     shared>>
      /\ UNCHANGED <<pos, chunk, sent, buffer, stored, transit, refusals, faults, retries,
                     crashes>>
  BY DEF RecordReceipt
<1>2. StagingInv'
  BY <1>1, OthersStage DEF TransferInv, StagingInv, IngressTypeOK, Acknowledged
<1>3. TypeOK'
  BY <1>1, <1>2 DEF TransferInv, TypeOK, StagingInv
<1>. QED
  BY <1>1, <1>2, <1>3
     DEF TransferInv, Reading, Acknowledged, DeliveredIsDeclared, Spared, Litter

LEMMA LateTransfers == ASSUME TransferInv, LateChunk PROVE TransferInv'
<1>1. PICK m \in transit : Deliver(m.chunk, m.last) /\ transit' = transit \ {m}
  BY DEF LateChunk
<1>2. UNCHANGED <<ingressVars, sync, pos, chunk, sent, refusals, faults, retries, crashes>>
  BY DEF LateChunk
<1>3. /\ m.chunk \in Bytes \cup {"eof"} /\ m.last \in BOOLEAN
      /\ TypeOK /\ Acknowledged /\ refusals \in Nat /\ faults \in Nat /\ crashes \in Nat
  BY <1>1, SyncTypes DEF TransferInv
<1>4. /\ buffer' \in Seq(Bytes) /\ stored' \in {Nothing} \cup Seq(Bytes)
      /\ stored' \in {Nothing, Declared}
      /\ stored = Declared => stored' = Declared
  BY <1>1, <1>3, Delivers
<1>5. /\ IsFiniteSet(transit') /\ Cardinality(transit) \in Nat
      /\ Cardinality(transit') = Cardinality(transit) - 1
  BY <1>1, FS_RemoveElement, FS_CardinalityType DEF TransferInv, Spared
<1>6. StagingInv'
  BY <1>2, OthersStage DEF TransferInv, StagingInv, IngressTypeOK, ingressVars
<1>7. TypeOK'
  BY <1>1, <1>2, <1>3, <1>4, <1>6 DEF TypeOK, StagingInv
<1>8. Reading' /\ Acknowledged'
  BY <1>2, <1>4, <1>3 DEF TransferInv, Reading, Acknowledged, DeliveredIsDeclared, ingressVars
<1>9. Spared'
  BY <1>2, <1>3, <1>5, LitterCounts DEF TransferInv, Spared, ingressVars
<1>. QED  BY <1>6, <1>7, <1>8, <1>9 DEF TransferInv

LEMMA RetryTransfers == ASSUME TransferInv, Retry PROVE TransferInv'
<1>1. /\ sync = "needs_attention" /\ sync' = "waiting" /\ retries' = retries + 1
      /\ UNCHANGED <<ingressVars, pos, chunk, sent, buffer, stored, transit, refusals, faults,
                     crashes>>
  BY DEF Retry
<1>2. StagingInv'
  BY <1>1, OthersStage DEF TransferInv, StagingInv, IngressTypeOK, ingressVars
<1>3. TypeOK'
  BY <1>1, <1>2 DEF TransferInv, TypeOK, StagingInv
<1>. QED
  BY <1>1, <1>2, <1>3
     DEF TransferInv, Reading, Acknowledged, DeliveredIsDeclared, Spared, Litter, ingressVars

LEMMA CrashTransfers == ASSUME TransferInv, Crash PROVE TransferInv'
<1>1. /\ crashes' = crashes + 1 /\ IngressCrash /\ sync' # "sending" /\ sync' # "receipt"
      /\ sync' \in {"waiting", sync}
      /\ UNCHANGED <<pos, chunk, sent, buffer, stored, transit, refusals, faults, retries>>
  BY DEF Crash
<1>2. StagingInv'
  BY <1>1, CrashStages DEF TransferInv
<1>3. TypeOK'
  BY <1>1, <1>2 DEF TransferInv, TypeOK, StagingInv
<1>4. Reading' /\ Acknowledged'
  BY <1>1 DEF TransferInv, Reading, Acknowledged, DeliveredIsDeclared, IngressCrash
<1>5. Spared'
  <2>1. Cardinality(transit) \in Nat /\ refusals \in Nat /\ faults \in Nat /\ crashes \in Nat
    BY SyncTypes, FS_CardinalityType DEF TransferInv, Spared
  <2>. QED  BY <1>1, <2>1, LitterCounts DEF TransferInv, Spared, IngressCrash
<1>. QED  BY <1>2, <1>3, <1>4, <1>5 DEF TransferInv

LEMMA TransferStep == ASSUME TransferInv, [Next]_vars PROVE TransferInv'
<1>1. CASE IngressStep /\ UNCHANGED transferVars
  BY <1>1, IngressTransfers
<1>2. CASE UNCHANGED vars
  <2>1. StagingInv'
    BY <1>2, OthersStage, FileTypes DEF TransferInv, StagingInv, IngressTypeOK, vars, ingressVars
  <2>. QED
    BY <1>2, <2>1
       DEF vars, ingressVars, transferVars, TransferInv, TypeOK, StagingInv, Reading, Acknowledged,
           DeliveredIsDeclared, Spared, Litter
<1>. QED
  BY <1>1, <1>2, BeginTransfers, SendTransfers, ReceiptTransfers, LateTransfers, RetryTransfers,
     CrashTransfers DEF Next

LEMMA TransferAlways == Spec => []TransferInv
<1>1. Init => TransferInv
  BY TransferInitial
<1>2. TransferInv /\ [Next]_vars => TransferInv'
  BY TransferStep
<1>. QED  BY <1>1, <1>2, PTL DEF Spec
-----------------------------------------------------------------------------
(* Every variable of the staging and of the upload keeps its type.         *)
THEOREM TransferTyped == Spec => []TypeOK
<1>1. TransferInv => TypeOK
  BY DEF TransferInv
<1>. QED  BY <1>1, TransferAlways, PTL

(* A row that says received has a file with the declared content, if the   *)
(* uploads took turns, whatever broke off before.                          *)
THEOREM Received == Spec => []ReceivedIsDeclared
<1>1. TransferInv => ReceivedIsDeclared
  BY DEF TransferInv, StagingInv
<1>. QED  BY <1>1, TransferAlways, PTL

(* The server has the declared content or nothing, also when uploads did   *)
(* not take turns, and a row says uploaded only when it has it.            *)
THEOREM Delivered == Spec => []DeliveredIsDeclared
<1>1. TransferInv => DeliveredIsDeclared
  BY DEF TransferInv, Acknowledged
<1>. QED  BY <1>1, TransferAlways, PTL

(* A chunk that went wrong costs two refused attempts at most, a crash one. *)
THEOREM Refusals == Spec => []RefusalsBounded
<1>1. TransferInv => RefusalsBounded
  <2>1. TransferInv => /\ Cardinality(transit) \in Nat /\ refusals \in Nat
                       /\ faults \in Nat /\ crashes \in Nat
    BY SyncTypes, FS_CardinalityType DEF TransferInv, Spared
  <2>. QED  BY <2>1, LitterCounts DEF TransferInv, Spared, RefusalsBounded
<1>. QED  BY <1>1, TransferAlways, PTL
=============================================================================
