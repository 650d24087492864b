# Verification of the MatElab connector

The MatElab connector (`src/matelab_bridge`) runs on a laboratory computer. A
measurement program or an agent hands it a *capture*: a manifest that declares
the measurement and its files. The connector takes the files in, acknowledges
the capture when it is durable, and then delivers it to a remote electronic lab
notebook (MatElab): it uploads the files, imports or creates a record, exports
the record again to verify it, saves the mapping from capture to record version
and announces the result on an event feed. Everything between the commit and
the announcement is a Saga in a background worker that must survive refused,
lost and delayed calls, expired logins, restarts, and other users who edit the
same records.

This directory holds TLA+ models of that program, the TLC runs that check them
and TLAPS proofs about them. The models were written from the source; line
numbers below refer to files under `src/matelab_bridge/`.

## 1. Inventory

| Component | Code | State | Operations | What is hard |
|---|---|---|---|---|
| Capture store | `storage.py` | captures, artifacts, mappings, orphan candidates, integration events, descriptions, journal (SQLite) | create, artifact received/uploaded, commit, transition, claim, set back, retry, resume, recover, save mapping, publish | reads and writes of one operation are separate statements, so any two operations interleave |
| Sync engine | `sync_engine.py` | locals of one `_synchronize` call, export snapshots on disk | claim, upload, find, import or create, update, export, verify, map, complete; three exception handlers | every remote call may fail before, after or long after its effect; a crash between effect and receipt |
| Capture gateway | `api.py` | API threads | create, artifact upload, commit, retry, login | endpoints run concurrently with the worker and with each other |
| Artifact ingress | `artifact_ingress.py` | the `.part` and final file of every artifact | receive | two uploads of one artifact share one `.part` |
| MatElab server | `fake_matelab.py` (the repository's double) | files, records | upload, import, create, items, export, search, update | answers lost or late; other users edit |
| MatElab client | `matelab_client.py`, `auth.py` | access and refresh token, one keyring entry for all threads | chunked upload, calls that refresh and repeat once, login, logout, set-token | nothing locks the keyring between a read, a refresh and a write; the server takes a refresh token once |
| Record descriptions | `storage.py` 916-1077, `api.py` 967-1087 | `record_descriptions` rows | reserve, remote update, complete, fail | same idempotency key twice at once; remote success before local receipt |
| Manual submission | `api.py` 642-873, `storage.py` 287-356 | submission ids | look up, create, stage, commit | a crash between create and commit; a repeat of the same submission |
| Event feed | `api.py` 1109-1185, `storage.py` 1079-1112 | cursor of every consumer | page, stream, resume after Last-Event-ID | events published while a page is read |
| Embedded service | `embedded_service.py`, `single_instance.py`, `port_manager.py` | service thread, instance lock, port | start, stop, restart, acquire, release | stop gives up after ten seconds; port checked before it is bound |
| Reconciliation | `reconciliation.py`, `cli.py` | what it has read of the mappings | scan the mapped captures, compare, append new versions | a process beside the engine that writes the same snapshots and mappings |
| Desktop settings | `desktop_settings.py` | settings file and its temporary file | load; save as open, write, rename | three writers of the whole file, one temporary name |
| Desktop window | `native_app.py`, `native_client.py` | page, copy of the settings, client, busy buttons, queue of answers | start, resume, login, logout, default notebook, port, close | answers of background calls come in another order than the clicks, or after the window is closed |
| CLI, SDK | `cli.py`, `sdk.py` | none of their own | `gui`, `worker`, `reconcile`, `auth`; single calls | processes of their own on the same database and keyring |
| Web console | `ui` pages | none of its own | calls the endpoints | another client of the same settings |
| Canonical form, templates, models | `canonical.py`, `templates.py`, `models.py` | none | hash, validate | input coverage, not interleavings |
| Configuration, errors, auth, diagnostics | `config.py`, `errors.py`, `auth.py`, `security.py`, `diagnostics.py` | none or constant | read, classify, collect | none |

How they interact. Clients call the gateway over HTTP. The gateway's endpoints
and the worker share nothing but the store (and a wake-up event, which only
shortens a poll). The worker calls the MatElab client, which calls the server.
The server is shared with other people. The desktop process owns the embedded
service, that is the gateway and the worker together, and may restart it. The
consumers of the event feed read the store through the gateway.

What makes each part correct:

* **Store, engine, gateway together**: a committed capture is never stranded;
  a capture is announced once and only when its record was verified and all of
  its streamed files are on the server; what is taken for verified is the export
  in the mappings; the feed and the mappings only grow; retries are bounded; a capture always comes
  to rest.
* **Artifact ingress**: a received artifact's file has the declared content.
* **Descriptions, manual submission**: one key, one effect, and one answer.
* **Client**: whatever threads interleave, the stored tokens stay usable, and
  every call ends.
* **Reconciliation**: it only adds mappings, and only of exports that carry the
  capture's identity.
* **Desktop**: the settings file is what the user was told, the console is shown
  only to somebody who is signed in, a disabled button comes back.
* **Feed**: a consumer that resumes sees every event once, in order.
* **Embedded service**: of the windows, one at a time owns the data directory,
  and a window that is closed leaves nothing behind. (A launcher's service is
  beside the lock: see `LockCoversService` below.)

## 2. Modules

```
Manifest  <-- CaptureStore --.
   ^                          >-- SyncEngine <-- Reconciliation <-- Connector <-- MCConnector (TLC)
   '--- MatelabServer -------'                                       |  ^
                                            Outbox  <-- INSTANCE ----'  '-- ConnectorProofs (TLAPS)

ArtifactIngress <-- ArtifactTransfer <-- MCTransfer, TransferProofs
Descriptions, ManualSubmission, EventFeed, ServiceInstances, Credentials, DesktopSession:
    each with an MC module of its name, and DescriptionProofs, SubmissionProofs, FeedProofs,
    InstanceProofs, CredentialProofs, DesktopProofs
```

`Manifest` fixes a capture's artifacts: `Required` is `required = true`,
`ManifestOnly` is the transfer policy whose bytes are never streamed.

`CaptureStore` is `storage.py`. One variable per column that decides something:
`state`, `attempt`, `due` (`next_attempt_at` has passed), `created` (the order
of `created_at`, which `claim_next` follows), `art` (artifact states),
`mappings`, `events` (the `matelab.record.synced` events in `seq` order),
`orphans`. Its definitions are the statements of `BridgeStore`. Python's
`sqlite3` opens a transaction at the first INSERT or UPDATE and not at a
SELECT; an operation that reads, checks and then writes is therefore two steps
(`CheckTransition` and `WriteTransition`, `ReadCommit` and `WriteCommit`, ...),
and only `claim_next`, which says BEGIN IMMEDIATE, is one. `readied` is a
history variable that the bound on attempts is stated with.

`MatelabServer` is the server as `fake_matelab.py` answers: an upload of the
same file is acknowledged again, a known uid is refused, an import carries the
capture's identity, a created record gets it from `addModule`. Beyond the
double, other users edit and delete records (`Edit`, `Delete`), and a request
whose client gave up may still arrive (`Delay`, `LateArrival`). A record that is
made again after its deletion does not export like the old one: its revision
goes on from the old one's. The version and
revision of a record are what export verification and the mapping depend on;
its text is left out, `marked` stands for "Capture ID and Capture Hash occur in
it".

`SyncEngine` is `process_once` with `_synchronize`: `pc` names the next call or
the state about to be written, `rows`, `found`, `exported` and `elnId` are the
locals of that name or role. Each remote call has three outcomes: it returns;
it fails (`CallFails`: refused, reply lost after the effect, authentication
rejected, answer out of contract); or, for imports and creates, it is delivered
after the client gave up. Each outcome goes to the handler the code has for it:
"lost" is what the client maps to a retryable error, a timeout or
`httpx.NetworkError` (`matelab_client.py:304`), while a reply that is not JSON,
or an `httpx.RemoteProtocolError`, goes to `needs_attention` like every other
unexpected exception, before or after the effect ("contract"). An import's reply
may lack `eln_id`. `save_mapping` is a SELECT (`FindMapping`) and an INSERT
(`SaveMapping`): who loses the race to insert a version gets an
`IntegrityError` and waits for a person.

`Connector` adds the gateway's endpoints, crashes and service restarts. A
thread that serves commit, retry or login is idle or about to write what it
decided from an earlier read. `ServiceRestart` and `ServiceStarted` are the two
halves of a restart of the embedded service: `stop()` waits ten seconds
(`embedded_service.py:85`) and then `start()` goes on, so the old worker may
still be inside a remote call while the new service recovers its capture.

`Reconciliation` is the `reconcile` command, a process that may run beside any
worker: `StartScan` reads the mappings once, then each capture is listed
(`ScanItems`), exported, its snapshot written and its mapping inserted, a step
each. It EXTENDS `SyncEngine` because it shares the store, the snapshots and the
server with it; `Connector` composes the two.

`Outbox` is what the connector promises to the outside: `accepted`, `verified`
and `feed`, with the refinement mapping `Promise` in `Connector`.

The other components have state of their own and meet the core in one place
each, so each is a module beside it:

```
ArtifactIngress <-- ArtifactTransfer <-- MCTransfer      EventFeed        <-- MCEventFeed
Descriptions     <-- MCDescriptions, DescriptionProofs   ServiceInstances <-- MCServiceInstances
ManualSubmission <-- MCManualSubmission, SubmissionProofs
Credentials      <-- MCCredentials, CredentialProofs     DesktopSession   <-- MCDesktopSession
```

`ArtifactIngress` is `artifact_ingress.py` for one artifact. Files are named by
the upload that created them and have a content per position; `partial` and
`blob` say which file the `.part` and the final path lead to. Two uploads open
the same `.part` (`BeginReceive`: `open("wb")` truncates, and each handle has its
own offset), `ReceiveChunk` is the turn the event loop gives to another upload
between two chunks, and `Close`, the comparison, the move and the mark are one
step, as there is no await between them. What an open file prevents on Windows
and allows elsewhere is a choice at the move and at the removal (`Held`).
`ArtifactTransfer` EXTENDS it with `upload_file`: `SendChunk` sends the chunk in
hand when the next one has been read, `Deliver` is the server's upload handler
with its buffer per uid, and `BeginUpload`, `EndAttempt`, `RecordReceipt`,
`Retry` and `Crash` are the sync engine's part, reduced to one artifact. In the
core a file is sent in one call (`UploadFile`): what half-sent files leave behind
is looked at here, and `OutageRecovers` speaks of files of one chunk.

`Descriptions` is `POST /v1/records/{uid}/descriptions`. The row of a key
(`ledger`), the feed, and the record's modules, which the server adds under a
name made of record and key and never adds twice (`AddModule`). `Arrive` is the
handler up to its first await, with the reservation in it; `Check` and `Update`
are the awaits; `Fail` and `Complete` the two transactions that may end it. Only a
`BridgeError` is recorded by `Fail`: another exception of a remote call ends the
request with its row as it is (`Raises`, `api.py:1070`). An
update whose call failed may arrive later (`LateUpdate`).

`ManualSubmission` is `POST /v1/manual-submissions`. `holder` is the lock of each
`create_app` - there is one per service, so a restart makes a second -, `bound`
the idempotency row, `state` and `received` what the handler looks at of the
capture. `Enter` is what runs with the lock up to the first await, `Selected`
the creation after the notebooks have been loaded, `BeginFile` and `FinishFile`
the two halves of an attachment, `Commit` the commit with the answer. That
commit is one step, because its own interleavings are in `Connector`; that
somebody commits the half-made capture through the other endpoint is left out.

`EventFeed` is `GET /v1/events` and `/v1/events/stream`. The consumer is
external and does what the quick start asks of it: it processes an event, then
saves the cursor, and may be cut off or restarted in between. `Listed` is the
query, `NextCursor` the page's cursor, `Resumed` the choice between `after` and
`Last-Event-ID`, `Fetch` and `Emit` the generator. The server keeps nothing of
one consumer that another could see, so one consumer is enough.

`ServiceInstances` has the processes on one computer: windows, whose `start`,
`stop`, `restart` run in a background thread (`pc`) and whose `close` runs in the
UI thread (`close`); launchers (`cli.py gui`), which take no lock; services,
which start their worker before they bind the port and end, once told to
(`exit`), when their last response has ended. An event stream is a response
that ends when its consumer goes, so an old service, and its worker, may
outlive a restart: this is the situation the core's runs with two workers start
from. How uvicorn starts and stops is external, modelled from how
`embedded_service.py` uses it. That a healthy service fails to answer the health
check is left out.

`Credentials` is the token handling of `matelab_client.py` with the login and
logout of the API and of the `auth` commands. `keyring` is the one stored entry;
every thread has a `caller` record that says what it is about to do and with
which bundle: `ReadToken` with the early renewal, `Post`, the reply that asks for
a refresh (`Reload`, `Refresh`) and is followed once (`again`), and `Keep`, the
write of what a refresh or a login returned. A bundle is a name; a name that
nobody holds is free again, so that the model needs no counter. Whether the
server takes a refresh token more than once is the constant `Rotates`. `paused`
stands for the captures that wait for a login; what resuming them does to the
rows is `ReadResume` and `WriteResume` of the core.

`DesktopSession` is the window's session and the settings file. A start may leave
a service that runs without a client (`native_app.py:205-207`), and a session that
nobody is logged in to is not resumed. `op` has the background operations, `queue` their answers in the order in which they wait for
the window's thread (`root.after`), `window` what the application object keeps.
A save is open, write and rename under one temporary name, for three savers: the
window's thread, the port operation in its own thread, and the API. The property
`FileIsTold` compares the file with `told`, the history of what the user was told
is saved, and `Pending`, what is being saved. `disturbances` records what makes a
comparison meaningless (two saves overlapped, a reply was lost, the browser
wrote), so that each property names the circumstances it needs.

## 3. What the runs check

Every `MC` module instantiates one specification; a `.cfg` names every bound.
In the core these are `MaxFaults` (remote calls that go wrong), `MaxEdits` (edits
and deletions by other users), `MaxPuts` (concurrent uploads of one artifact),
`MaxReadied` (how often a capture is readied before no more retries, logins or
restarts are considered) and `MaxRestarts`. They cap what the environment does;
nothing the worker does is capped, except by `max_attempts`, which is the code's
own.

| Run | Question | Instance |
|---|---|---|
| `core` | Does what is committed, verified, mapped and announced stay true? `PublishedIsVerified`, `CommittedIsStaged`, `VerifiedIsMapped`, `OrphansExist`, `HistoryGrows`, `TypeOK` | one capture, a required and an optional artifact, one worker, one `reconcile` command, a fault of every kind, two concurrent uploads, two edits, a restart |
| `overlap` | Does a second worker strand a capture or break the promise - a commit is kept, a capture verified before it is announced and announced once? `InflightIsOwned`, `KeepsPromise` | one capture, two workers, a restart, lost and delayed calls |
| `settles` | Does a ready capture always come to rest, and are retries bounded? `Settles`, `AttemptsBounded` | one capture, three faults of every kind, two API threads between each other's read and write, no configured notebook id |
| `outage` | Does it complete with nobody's help when only the network fails? `OutageRecovers` | an import and a manual capture, two faults, `max_attempts` 4 |
| `transfer` | Is what was staged and what the server has the declared content, and what does a fault cost? `ReceivedIsDeclared`, `DeliveredIsDeclared`, `RefusalsBounded`, `TypeOK` | two uploads, open together, a file of two chunks, two chunks that go wrong, three retries, a crash |
| `descriptions` | Does one key have one receipt, and have record and feed what was acknowledged, and has every conflict a cause? `AcknowledgedIsWritten`, `OneReceiptPerKey`, `ConflictHasCause`, `TypeOK` | three requests, two keys, two texts, a fault, a late update, a change of the default notebook, a crash |
| `submissions` | Does one key make one capture that is committed when it is accepted? `AcceptedIsCommitted`, `OneCapturePerKey`, `ConflictIsReal`, `RepeatReturnsCapture`, `TypeOK` | three requests with or without a key, an attachment or none, two troubles out of: failing call, changed default, service restart, crash |
| `feed` | Does a consumer miss an event or get one again? `NothingSkipped`, `StreamGoesOn`, `EventsArrive`, `TypeOK` | one consumer of any of two types, four events, two per page or read, two drops |
| `instances` | Does one window at a time own the data directory, does every start end, and does a closed window leave nothing behind? `OneWindow`, `StartsEnd`, `CloseEnds`, `TypeOK` | two windows, a launcher, two services, two ports, one of which other programs use too |
| `credentials` | Do the stored tokens stay usable, and does every call end? `StoredIsUsable`, `CallsEnd`, `TypeOK` | a sync worker and another thread or command, five bundle names, a server that rotates, lost replies, crashes; no bound on the number of steps |
| `desktop` | Is the file what the user was told, and the window what the account is? `FileIsTold`, `WindowKnowsFile`, `ConsoleIsSignedIn`, `ButtonsReturn`, `TypeOK` | one user, one notebook, two ports, three events out of: click, browser request, login or logout elsewhere, close, crash; a browser's save or a login elsewhere beside any of them |

Two or three faults are enough for the interesting orders: the second may meet
what the first left behind (a record without a receipt, a request still in
transit, an uploaded file without a receipt). With `MaxAttempts = 2` the
boundary between `retry_wait` and `needs_attention` is crossed by two faults; a
crash or a retry in between moves it. Two captures are enough for the order of claims and
for a resumption that touches more than one row; a third capture is only a
second copy of "the other one". Two workers are what one restart can produce.

Of the others: two uploads are what it takes to share a `.part`, and two chunks
have a first and a last; a third description or submission can repeat what two
others have raced for; four events with a limit of two are two full pages, or
three when they are filtered; with two ports there is a next port and a last
one, and `Spare` makes sure that a start which has begun finds a service to
start, so that the bound on services takes nothing from `StartsEnd`. Five bundle
names are enough: when somebody needs a new one, it holds one itself, the other
thread two and the keyring one. A third thread can only do what one of the two
has done before. Three events in the desktop are a click, another that overtakes its
answer, and an interference; the saves, answers and background steps they start
are not bounded.

`outage` has a configured notebook id. Without one a record whose import reply
was lost is found again but cannot be mapped, and its capture waits for a person
(`sync_engine.py:214`): `settles` covers that case.

The interesting properties, and why they could fail:

* `InflightIsOwned`: `claim_next` looks at `ready` and `retry_wait` only, so a
  capture left in, say, `creating_record` by a worker that has given up would
  wait for the next restart. It holds because every handler writes a state that
  is claimed or shown to a person, and because `recover_inflight` runs before
  the new worker. It is also the reason why a transition that is no longer
  legal may not simply return.
* `VerifiedIsMapped`, `HistoryGrows` and `PublishedIsVerified` hold with the
  reconciler between any two steps of the worker: the two read the mappings, ask
  the server and insert at their own pace. The primary key decides who inserts,
  and `VerifiedIsMapped` says that the other one does not go on with an export of
  its own: with an `INSERT OR IGNORE` (the mutant) it would. It is about the
  rows; that the file of a row may have been replaced is `SnapshotsKept` below.
* `HistoryGrows`, `KeepsPromise`: a capture can reach `complete`
  more than once (see `CompleteIsFinal` below). Its event is nevertheless the
  first one, at its place; the connector implements `Outbox`.
* `PublishedIsVerified` relates the event to the mapping, the mapping to an
  export that carried the identity, and all of it to the server's files, over
  lost replies, orphaned receipts and a second worker.
* `ReceivedIsDeclared` and `RefusalsBounded` are about uploads that take turns
  (`~shared`): a broken upload, another content or a crash leaves a `.part` that
  the next one truncates; a chunk of an earlier attempt in the server's buffer
  makes it refuse the file, which empties the buffer. `DeliveredIsDeclared` has
  no such condition: whatever is done to the staged file, also while it is being
  read, the server's own comparison keeps a wrong content out.
* `AcknowledgedIsWritten` relates four things: answer, row, module and event. An
  update whose call failed, or whose handler died, arrives between the steps of
  other requests with its key, and decides for all of them what is in the
  record.
* `OneReceiptPerKey` relates the answers of several requests: two duplicates
  may both update the record and both complete, or one may fail after the other
  has completed and set the row back.
* `ConflictHasCause` is what is left of "the same request gets the same receipt"
  (`RepeatReturnsReceipt` below, which fails): rows are reserved, set back and
  completed by several requests at once, and the fingerprint holds the default
  notebook of its moment; whoever is told of a conflict must still have another
  request, or a change of the default, to blame.
* `AcceptedIsCommitted` and `OneCapturePerKey` are about the repetition that has
  to finish what a crash has left half-made, and about the same key in the old
  and the new service. `RepeatReturnsCapture` holds while one service serves.
* `NothingSkipped` and `StreamGoesOn` together say what a cursor means: the
  first fails if a cursor passes what a limit has left, the second if
  `Last-Event-ID` and a stale `after` are not reconciled.
* `OneWindow` ties three things that different threads write: the lock, the
  window's idea of its service, and the services that run. It is about the
  services of windows only, and exempts the service of a window that was closed
  while it started: the close releases the lock in the UI thread while the
  background thread goes on and starts a service that nobody tells to exit.
  `CloseEnds` is about that one, and about every other close: the process ends,
  and neither the lock nor a service is left - whatever streams its consumers
  keep open. It would fail if the service's thread were waited for (the mutant).
* `StoredIsUsable`: two threads read the same bundle, one refreshes it, and the
  other's refresh is refused; a logout or a login may come between a refresh and
  its `save`. A rotated token in the keyring would pause every capture until the
  next login, so it may be there only while its successor is about to be
  stored, or after the reply or the process was lost.
* `FileIsTold` is about a crash between any two steps of a save and about who
  wrote last; `WindowKnowsFile` about the copy the window will write next;
  `ConsoleIsSignedIn` about answers that are handled after a later click.
* `AttemptsBounded`: a claim adds one attempt, a person or a restart adds one
  readiness; automatic retries alone never pass `max_attempts`.

`CHECK_DEADLOCK FALSE` is set in every run but `credentials`: when every capture
has come to rest and the bounds on the environment are used up, the system may
really stop.

### Fairness

`Settles` and `OutageRecovers` are checked under `FairSpec`: weak fairness of
every worker, of API threads that have read and go on to write, and of
`BackoffElapses`. `run_worker` (`sync_engine.py:297-310`) polls forever and
sleeps at most its interval; every remote call ends by a timeout
(`matelab_client.py:42`, `:303-305`); an API thread has no wait between its read
and its write but the database lock, whose holders are single statements; clocks
advance. Nothing is assumed of clients, people, faults or the server's users.

`EventsArrive`: weak fairness of the consumer, which comes back after it was
dropped, and of the generator, which polls while the consumer is connected
(`api.py:1130-1155`). `StartsEnd`: weak fairness of a window's own background
thread, whose waits all have time limits (`embedded_service.py:66-85`); nothing
is assumed of services, streams, other programs or the user. `CloseEnds` assumes
in addition that `close` goes on in the UI thread, whose `stop()` waits ten seconds at
most, and that the process ends when its background threads have: the interpreter
joins the executor's threads at its exit, whose calls have time limits, and not
the service's thread, which is a daemon (`embedded_service.py:63`).

`CallsEnd`: weak fairness of every caller; its requests have a time limit
(`matelab_client.py:42`), so one that is never answered fails (`RequestFails`).
`ButtonsReturn`: weak fairness of the window's event loop, of the background
operations, whose requests and waits have time limits, and of a save that has
begun; nothing is assumed of clicks or of the browser.

### Disagreements between the code and what is said of it

One run shows that the code does something that a doc denies; its property is
the claim, and TLC prints the behaviour that breaks it.

| Run | Claim | What the code does |
|---|---|---|
| `login_resumes` | docs/error-handling.md:66, a login resumes every capture paused for it | one capture that was retried meanwhile rolls back the resumption of all (`storage.py:729`) |

Further claims are stated the same way, each with a configuration of its own
that is not one of the runs above. TLC finds each of them violated, which says
under which circumstances the sentence is not to be relied on:

| Configuration (module) | Claim | What the code does |
|---|---|---|
| `CommitIsDurable` (`MCConnector`) | docs/architecture.md:25, a `202` commit means the complete declared package is durable | an optional streamed artifact may be missing; the worker then stops with `needs_attention` |
| `SnapshotsKept` (`MCConnector`) | docs/architecture.md:23, a local snapshot of every verified export is stored | `_write_export` (`sync_engine.py:207`) replaces the snapshot of a saved mapping before the conflict with it is noticed |
| `SingleSynchronizer` (`MCConnector`) | docs/adr/0001-mvp-decisions.md:8, a single logical synchronizer | after a service restart two workers may hold the same capture |
| `CompleteIsFinal` (`MCConnector`) | `storage.py:57`, nothing leaves `complete` | the globally allowed states may be entered from it (`storage.py:609`), and a check made before the transaction is stale |
| `StagingVerified` (`MCTransfer`) | `artifact_ingress.py:1`, hash-verified ingestion | two uploads of one artifact share the `.part`; compared is the hash of the bytes received, not of the file that is moved |
| `RetriesSuffice` (`MCTransfer`) | docs/matelab-contract.md:19, network timeouts are retryable | after a lost chunk the next attempt is refused for its hash, a contract error that needs a person |
| `RepeatReturnsReceipt` (`MCDescriptions`) | docs/api-quickstart.zh-CN.md:157, same key and content return the original receipt | a failing duplicate sets a completed row back to pending (`storage.py:1039`); the fingerprint contains the default notebook of the moment (`api.py:1005`) |
| `RepeatReturnsOriginal` (`MCManualSubmission`) | docs/api-quickstart.zh-CN.md:116, the same for manual captures | after a service restart a repetition races the original, and is answered 404 for a capture it did not create (`api.py:852`) |
| `AnswersItself` (`MCServiceInstances`) | docs/operations.md:40, a window is not attached to another process's API | the health check is answered by a launcher that took the port between the probe and the bind |
| `LockCoversService` (`MCServiceInstances`) | docs/operations.md:40, the application holds the lock so that there are no two writers of one database | a launcher's service takes no lock at all (`cli.py:255`), which TLC finds first; without launchers (`Launchers = {}`) it finds a window closed while it starts, which releases the lock and then starts its service (`native_app.py:279`) |
| `LogoutHolds` (`MCCredentials`) | tests/test_gui.py:216, after a logout the session is not authenticated | a refresh that was under way stores its tokens after the logout |
| `LoginResumes` (`MCCredentials`) | docs/error-handling.md:66, a login resumes the paused captures | `auth login` resumes nothing, and neither does a login whose notebooks cannot be loaded (`api.py:564`) |
| `LateAnswersIgnored` (`MCDesktopSession`) | docs/error-handling.md:60, without a login the login page stays | a login or resumed session that is answered after the logout shows the console again |
| `DefaultKept` (`MCDesktopSession`) | docs/operations.md:13, the selected notebook is stored | the window's next save writes its own copy of the whole file, in which a default chosen in the browser, or one whose reply was lost, is missing |
| `WindowRecovers` (`MCDesktopSession`) | no sentence of the docs, but the error dialog suggests it: the port can be tried again after a restart that failed | the client was closed before the restart (`native_app.py:1457`) and only a success makes a new one (`:1478`) |

`docs/operations.md:51` says that `reconcile` finds the records of all captures;
it lists the notebook of the capture's template, so a manual capture in another
notebook is always reported as a conflict (`SkipRow`). No property is stated of
it, because the report is not in the model.

## 4. What is proved

Every invariant and every action property that a run checks is also a theorem,
for every value of the constants, and so is the refinement of `Outbox`.
`ConnectorProofs` has the theorems of `Connector`'s `Spec`: any number of
captures, artifacts, threads and reconcilers, any finite number of workers, any
bounds. The other seven do the same for the module they EXTEND. The only
assumptions are the named ones next to the constants (`ArtifactPolicies`,
`EngineConstants`, `WorkersFinite`, `RequestKinds`, `CredentialConstants`,
`SubmissionConstants`, `DescriptionConstants`, `InstanceConstants`,
`IngressConstants`, `TransferConstants`, `FeedConstants`, `SessionConstants`),
which TLC evaluates in the runs.

Hardly any of these properties is inductive. The third column says what had to be
added to it; TLC checked each of these invariants on the run's instance, or on a
smaller one, before it was proved.

| Theorem | Statement | Argument |
|---|---|---|
| `ConnectorProofs!TypeCorrect` | `Spec => []TypeOK` | `TypeInv` adds to `TypeOK` that a worker which is not idle has a job (`JobOK`) and that one about to complete has a mapping to announce (`HasLatest`); without them `state[job[w]]` and `Latest(c)` have no type |
| `ConnectorProofs!Owned` | `Spec => []InflightIsOwned` | `InflightIsOwned` itself is inductive together with the types: a worker writes in-flight states only for the capture it holds, drops a capture only in the step that writes a resting state, and `Elsewhere` (API threads, restarts, the server) only writes `ready` or `receiving` |
| `ConnectorProofs!Attempts` | `Spec => []AttemptsBounded` | a counting argument, `Budget`: the workers that hold a capture, and a claim still waiting in the store, are never more than the times it was readied (`LetIn`); its attempts, the workers about to schedule a retry and that waiting claim stay within `max_attempts - 1` plus the times it was readied (`ClaimsLeft`); the sets of workers are finite (`WorkersFinite`) |
| `ConnectorProofs!Mapped` | `Spec => []VerifiedIsMapped` | with the types it is inductive: a worker's `found` and `exported` stay as they are from the export on (`Keeps`), a worker enters `matelab_verified` only with a row that it has found equal or has inserted, and rows are never removed |
| `ConnectorProofs!History` | `Spec => HistoryGrows` | step by step, from the types |
| `ConnectorProofs!Verified` | `Spec => []PublishedIsVerified` | needs that a row marked `uploaded`, or about to be, is a file of the server, that past the upload phase all of a worker's rows are, and that every mapping and every export in hand carries the identity |
| `ConnectorProofs!Orphans` | `Spec => []OrphansExist` | the same strengthening: only uploaded rows are listed |
| `ConnectorProofs!Staged` | `Spec => []CommittedIsStaged` | `Acceptance`: what a thread has read of the artifacts stays true while it is about to write, because `received` never goes back; whoever can ready a capture (retry, resume, recovery, a worker's setback) holds one that is past its commit |
| `ConnectorProofs!Promised` | `Spec => KeepsPromise`, the refinement of `Outbox` | initial states map to initial states; from `Acceptance` and the invariant of `PublishedIsVerified`, every step maps to `Accept`, `Verify`, `Announce` or a stutter |
| `TransferProofs!TransferTyped`, `Received` | `Spec =>` always `TypeOK`, `ReceivedIsDeclared` | `StagingInv`: which file is at the `.part`, which at its final name and who has it open (`Files`), and, as long as uploads take turns, that an upload which has begun is alone and has written exactly what it counts (`Turns`) |
| `TransferProofs!Delivered` | `Spec => []DeliveredIsDeclared` | `Acknowledged` adds the receipt that is about to be written; nothing is needed of the staged file, because the server compares for itself |
| `TransferProofs!Refusals` | `Spec => []RefusalsBounded` | a budget (`Spared`): the refusals so far, the litter in the server's buffer (`Litter`, one however much it is, because a refusal empties the buffer) and the chunks still astray are never more than two for each chunk that went wrong and one for each crash; and while it sends, the worker reads the declared file and has sent its beginning (`Reading`) |
| `CredentialProofs!TokensTyped`, `TokensStayUsable` | `Spec => []TypeOK`, `Spec => []StoredIsUsable` | `TokenInv` adds that a rotated bundle is held by somebody (`SpentHeld`) and that a free name is in nobody's hands (`Unseen`), so that a new bundle is never taken for a spent one |
| `SubmissionProofs!SubmissionTyped`, `AcceptedComplete`, `OneCapture`, `RealConflict` | `Spec =>` always `TypeOK`, `AcceptedIsCommitted`, `OneCapturePerKey`, `ConflictIsReal` | `SubmissionInv`: a key is bound to the one capture made with it (`BoundToMade`), its fingerprint is that capture's content (`PrintOfMade`), a handler that receives files has that capture and all files before its next (`Receiving`), and an answer stays true (`Answered`). The lock does not occur in it: these properties hold across restarts, with two locks |
| `SubmissionProofs!RepeatsReturnCapture` | `Spec => []RepeatReturnsCapture` | `LockInv`: while one service serves, who is inside holds the lock, finds its key unbound until it inserts and its capture `receiving` until it commits, and so meets neither of the two ways to be answered something else (`Turn`); what a handler works on is the capture of its key (`Own`) |
| `DescriptionProofs!DescriptionsTyped`, `Acknowledges`, `OneReceipt`, `Conflicts` | `Spec =>` always `TypeOK`, `AcknowledgedIsWritten`, `OneReceiptPerKey`, `ConflictHasCause` | `DescriptionInv`: a row is never removed and keeps its text (`Reserved`), so everybody who is under way with a key, its module and the updates in transit agree on it (`Underway`, `Written`), answers and events agree (`Told`), and one request found the key unreserved (`OneCreates`). For `ConflictHasCause`: the fingerprint of a row is that of a request of its key, up to a change of the default (`Caused`), and only an arrival changes what requests have sent (`Remembered`) |
| `FeedProofs!FeedTyped`, `NoEventSkipped`, `StreamsGoOn` | `Spec =>` always `TypeOK`, `NothingSkipped`, `StreamGoesOn` | `Served(c)`: up to the cursor of what a consumer has not yet read it was given every event of its types (`Complete`, `Covered`), in order (`Ordered`), and a page is a whole prefix of what was left (`Whole`); new events only come after. `Listed` chooses an enumeration in order: that a finite set of numbers has one is proved by a least-number argument (`OrderExists`) |
| `InstanceProofs!InstancesTyped`, `OneWindowAlways`, `OneActive` | `Spec =>` always `TypeOK`, `OneWindow`, and of it `OneActiveWindow`; nothing about launchers' services | `OwnerInv` follows the window's own record of where its start is: past the lock and open it holds the lock (`Holding`), it has no service in hand when it may start one or has given up (`EmptyHanded`), and the one in hand when it gives the lock back was told to exit (`ToldFirst`) |
| `DesktopProofs!DesktopTyped` | `Spec => []TypeOK` | `Shape`: each saver works for one operation, each answer waits exactly once, and a button is disabled while its operation runs; without it a save could end for an operation that has another in hand |
| `DesktopProofs!FileKept` | `Spec => []FileIsTold` | saves that do not overlap (`OneSave`) rename what they wrote (`Handles`); the file is then what the last answer says, of those the window has handled and those that wait, because two such answers wait in the order in which the file was written (`InOrder`, `Kept`) |
| `DesktopProofs!WindowKnows` | `Spec => []WindowKnowsFile` | what the window's copy will be once it has handled what waits is the file (`Knows`): the default's answer changes one field, the port's the whole copy |
| `DesktopProofs!ConsoleSignedIn` | `Spec => []ConsoleIsSignedIn` | a login or a resumed session that is past the server is of somebody who is signed in (`Session`), since a logout in between is recorded as one that they overtake |

The proofs have one lemma per action, or per group of actions that leave the
same things alone. The steps of `Connector`'s `Next` are split once
(`NextCases`): a step is one of a worker, of a reconciler, or one of everything
else (`Elsewhere`), and lemmas state what each leaves alone, so that a theorem
has one step per action that can disturb it. In the same way `QuietStep` of
`DesktopProofs` stands for the twenty steps of a window that touch neither the
file nor a save.

Only model-checked, as liveness under fairness is out of the prover's reach:
`Settles`, `OutageRecovers`, `EventsArrive`, `StartsEnd`, `CloseEnds`, `CallsEnd`
and `ButtonsReturn`. That a claim of section 3 is violated is TLC's result, too.

## 5. What is not modelled, and why

* **Failures of the local database or disk** inside the worker: an exception of
  the store in `claim_next` or in a handler ends the worker task, and nothing
  restarts it. The core assumes that the database answers; `ArtifactIngress`,
  `ManualSubmission` and `DesktopSession` have failing writes.
* **A worker that is killed alone.** The `worker` command (`cli.py:258-274`) is a
  second worker like the one a restart leaves behind; but when only this process
  dies, its capture stays in flight until the next recovery. In the core a crash
  takes all workers and is followed by a recovery.
* **The pages of the window that only show what an endpoint returned**, and its
  submit, description and retry buttons: their endpoints are modelled where they
  are served. One login and one logout at a time are bounds of `DesktopSession`.
* **The steps of an export's save.** Engine and reconciler write the export of one
  version through one temporary name (`sync_engine.py:254`,
  `reconciliation.py:110`); here a save is one step. `DesktopSession` has the three
  steps for the settings file.
* **Renames on Windows.** What an open handle does to a rename is as on POSIX in
  `DesktopSession`; `ArtifactIngress` allows both.
* **The account that the window shows** may differ from the keyring after a crash
  or a failed load of the notebooks: no property is stated of it.
* **The journal, the request audit, the backup and the queries**: append-only or
  read-only, no decision depends on them.
* **The wake-up event**: it shortens a poll, and no property depends on it.
* **Canonical form, templates, schemas, models, authorization, redaction,
  diagnostics, the widgets and the web console**: functions of their input or
  of the screen. What of them decides something is in the models: the artifact
  policies in `Manifest`, the classes of errors in the outcomes of a call.

## 6. What is left

1. Database failures as one more fault of `SyncEngine`, with the worker's end
   and the restart that repairs it; a `worker` command that dies alone.
2. `Login` and `Resume` of `Credentials` composed with the core's rows, so that
   `paused` becomes the captures in `auth_required`.
3. An abstract specification for the two idempotent endpoints: one effect per
   key and one answer, which `Descriptions` and `ManualSubmission` implement
   except where the table above says.
4. Proofs: that these two endpoints implement that specification, and the
   action properties that the disagreements of section 3 leave true.
