---------------------------- MODULE Descriptions ----------------------------
(***************************************************************************)
(* POST /v1/records/{uid}/descriptions: a description is appended to an    *)
(* existing record under an idempotency key, synchronously.  The handler   *)
(* reserves the key in SQLite, lets MatElab add a module whose name is     *)
(* fixed by record and key, and completes the row together with an event.  *)
(* Requests interleave at each await of the handler.                       *)
(*                                                                         *)
(* All requests are about one record.  A request that names no notebook    *)
(* gets the default one of that moment, and the fingerprint that the row   *)
(* keeps contains the notebook it was given.                               *)
(***************************************************************************)
EXTENDS Naturals, Sequences

CONSTANTS
    Requests,      \* HTTP requests
    Keys,          \* idempotency keys
    Texts,         \* contents of descriptions
    Notebooks,     \* notebooks that a request may name or default to
    Omitted,       \* nothing is named, or configured as the default
    NoText,        \* no module of that name
    MaxFaults,     \* bound: remote calls that go wrong
    MaxChanges,    \* bound: changes of the default notebook
    MaxCrashes     \* bound: restarts of the process

ASSUME DescriptionConstants == Omitted \notin Notebooks /\ NoText \notin Texts

VARIABLES
    ledger,     \* record_descriptions: fingerprint and status of each key
    feed,       \* integration_events of type description_added, by seq
    default,    \* the default notebook of desktop-settings.json
    request,    \* what each request sent and where its handler is
    answer,     \* what it was answered
    modules,    \* the server: the record's modules, by key
    transit,    \* updates that may still arrive after their call failed
    spent       \* faults, changes and restarts so far

vars == <<ledger, feed, default, request, answer, modules, transit, spent>>

NoRow == [print |-> <<NoText, Omitted>>, status |-> "absent"]
Prints == (Texts \cup {NoText}) \X (Notebooks \cup {Omitted})
Phases == {"new", "check", "update", "failing", "receipt", "done"}
NoAnswer == [code |-> "none", cursor |-> 0]
NewRequest == [phase |-> "new", key |-> Omitted, text |-> NoText, notebook |-> Omitted,
               duplicate |-> FALSE, replay |-> FALSE]

Init ==
    /\ ledger = [k \in Keys |-> NoRow]
    /\ feed = <<>>
    /\ default \in Notebooks \cup {Omitted}
    /\ request = [r \in Requests |-> NewRequest]
    /\ answer = [r \in Requests |-> NoAnswer]
    /\ modules = [k \in Keys |-> NoText]
    /\ transit = {}
    /\ spent = [faults |-> 0, changes |-> 0, crashes |-> 0]

TypeOK ==
    /\ ledger \in [Keys -> [print : Prints, status : {"absent", "pending", "completed"}]]
    /\ feed \in Seq(Keys)
    /\ default \in Notebooks \cup {Omitted}
    /\ request \in [Requests -> [phase : Phases, key : Keys \cup {Omitted}, text : Texts \cup {NoText},
                                 notebook : Notebooks \cup {Omitted},
                                 duplicate : BOOLEAN, replay : BOOLEAN]]
    /\ answer \in [Requests -> [code : {"none", "created", "replayed", "conflict", "error"},
                                cursor : Nat]]
    /\ modules \in [Keys -> Texts \cup {NoText}]
    /\ transit \subseteq Keys \X Texts
    /\ spent \in [faults : Nat, changes : Nat, crashes : Nat]
-----------------------------------------------------------------------------
Cursor(k) == CHOOSE i \in DOMAIN feed : feed[i] = k
Announced(k) == \E i \in DOMAIN feed : feed[i] = k
Acknowledged == {r \in Requests : answer[r].code \in {"created", "replayed"}}

Goto(r, phase) == request' = [request EXCEPT ![r].phase = phase]
Answer(r, code, cursor) == answer' = [answer EXCEPT ![r] = [code |-> code, cursor |-> cursor]]

(* The same request was acknowledged before.                               *)
Repeats(k, text, notebook) ==
    \E q \in Acknowledged :
        request[q].key = k /\ request[q].text = text /\ request[q].notebook = notebook

(* Mutant: a description that is still being added is a conflict.          *)
Reserve_BusyConflicts(r, k, text, notebook, phase, duplicate) ==
    LET row == ledger[k] print == <<text, notebook>> IN
    \/ /\ row.status = "absent"
       /\ ledger' = [ledger EXCEPT ![k] = [print |-> print, status |-> "pending"]]
       /\ phase = "check" /\ ~duplicate
       /\ UNCHANGED answer
    \/ /\ row.status = "pending" \/ (row.status = "completed" /\ row.print # print)
       /\ phase = "done" /\ ~duplicate
       /\ Answer(r, "conflict", 0)
       /\ UNCHANGED ledger
    \/ /\ row.status = "completed" /\ row.print = print
       /\ phase = "done" /\ duplicate
       /\ Answer(r, "replayed", Cursor(k))
       /\ UNCHANGED ledger

(* Mutant: a known key is taken for the same request.                      *)
Reserve_AnyPrint(r, k, text, notebook, phase, duplicate) ==
    /\ ledger' = IF ledger[k].status = "absent"
                 THEN [ledger EXCEPT ![k] = [print |-> <<text, notebook>>, status |-> "pending"]]
                 ELSE ledger
    /\ duplicate = (ledger[k].status # "absent")
    /\ IF ledger[k].status = "completed"
         THEN phase = "done" /\ Answer(r, "replayed", Cursor(k))
         ELSE phase = "check" /\ UNCHANGED answer

(* reserve_record_description, one BEGIN IMMEDIATE transaction.            *)
Reserve(r, k, text, notebook, phase, duplicate) ==
    LET row == ledger[k] print == <<text, notebook>> IN
    \/ /\ row.status = "absent"
       /\ ledger' = [ledger EXCEPT ![k] = [print |-> print, status |-> "pending"]]
       /\ phase = "check" /\ ~duplicate
       /\ UNCHANGED answer
    \/ /\ row.status # "absent" /\ row.print # print
       /\ phase = "done" /\ ~duplicate
       /\ Answer(r, "conflict", 0)
       /\ UNCHANGED ledger
    \/ /\ row.status = "completed" /\ row.print = print
       /\ phase = "done" /\ duplicate
       /\ Answer(r, "replayed", Cursor(k))
       /\ UNCHANGED ledger
    \/ /\ row.status = "pending" /\ row.print = print
       /\ phase = "check" /\ duplicate
       /\ UNCHANGED <<answer, ledger>>

(* A request arrives; up to the first await the handler runs alone.        *)
Arrive(r, k, text, notebook) ==
    LET target == IF notebook = Omitted THEN default ELSE notebook IN
    /\ request[r].phase = "new"
    /\ target # Omitted
    /\ \E phase \in {"check", "done"}, duplicate \in BOOLEAN :
          /\ Reserve(r, k, text, target, phase, duplicate)
          /\ request' = [request EXCEPT ![r] =
                [phase |-> phase, key |-> k, text |-> text, notebook |-> notebook,
                 duplicate |-> duplicate, replay |-> Repeats(k, text, notebook)]]
    /\ UNCHANGED <<feed, default, modules, transit, spent>>

(* An exception of a remote call: a BridgeError is recorded before it is   *)
(* answered, another one ends the request with the row as it is.           *)
Raises(r) ==
    /\ spent.faults < MaxFaults
    /\ spent' = [spent EXCEPT !.faults = @ + 1]
    /\ \/ Goto(r, "failing") /\ UNCHANGED answer
       \/ Goto(r, "done") /\ Answer(r, "error", 0)

(* load_notebooks and items: notebook and record are there and writable.   *)
Check(r) ==
    /\ request[r].phase = "check"
    /\ \/ Goto(r, "update") /\ UNCHANGED <<answer, spent>>
       \/ Raises(r)
    /\ UNCHANGED <<ledger, feed, default, modules, transit>>

(* The server's addModule leaves a module of that name alone.              *)
AddModule(k, text) ==
    modules' = [modules EXCEPT ![k] = IF @ = NoText THEN text ELSE @]

(* update_record returns, or fails before, after or long before its effect. *)
Update(r) ==
    LET k == request[r].key  text == request[r].text IN
    /\ request[r].phase = "update"
    /\ \/ AddModule(k, text) /\ Goto(r, "receipt") /\ UNCHANGED <<answer, transit, spent>>
       \/ /\ Raises(r)
          /\ \/ UNCHANGED <<modules, transit>>
             \/ AddModule(k, text) /\ UNCHANGED transit
             \/ transit' = transit \cup {<<k, text>>} /\ UNCHANGED modules
    /\ UNCHANGED <<ledger, feed, default>>

LateUpdate ==
    /\ \E m \in transit : AddModule(m[1], m[2]) /\ transit' = transit \ {m}
    /\ UNCHANGED <<ledger, feed, default, request, answer, spent>>

(* Mutant: a status of its own that nothing else knows.                    *)
Fail_OwnStatus(r) ==
    /\ request[r].phase = "failing"
    /\ ledger' = [ledger EXCEPT ![request[r].key].status = "failed"]
    /\ Answer(r, "error", 0)
    /\ Goto(r, "done")
    /\ UNCHANGED <<feed, default, modules, transit, spent>>

(* fail_record_description, whatever the row's status is by now.           *)
Fail(r) ==
    /\ request[r].phase = "failing"
    /\ ledger' = [ledger EXCEPT ![request[r].key].status = "pending"]
    /\ Answer(r, "error", 0)
    /\ Goto(r, "done")
    /\ UNCHANGED <<feed, default, modules, transit, spent>>

(* Mutant: every completion appends an event.                              *)
Complete_Repeats(r) ==
    LET k == request[r].key IN
    /\ request[r].phase = "receipt"
    /\ ledger' = [ledger EXCEPT ![k].status = "completed"]
    /\ feed' = Append(feed, k)
    /\ Answer(r, IF request[r].duplicate THEN "replayed" ELSE "created", Len(feed) + 1)
    /\ Goto(r, "done")
    /\ UNCHANGED <<default, modules, transit, spent>>

(* complete_record_description: row and event in one transaction; the      *)
(* event of a key is inserted once.                                        *)
Complete(r) ==
    LET k == request[r].key IN
    /\ request[r].phase = "receipt"
    /\ ledger' = [ledger EXCEPT ![k].status = "completed"]
    /\ feed' = IF Announced(k) THEN feed ELSE Append(feed, k)
    /\ Answer(r, IF request[r].duplicate THEN "replayed" ELSE "created",
                 IF Announced(k) THEN Cursor(k) ELSE Len(feed) + 1)
    /\ Goto(r, "done")
    /\ UNCHANGED <<default, modules, transit, spent>>

(* The user chooses another default notebook.                              *)
ChangeDefault ==
    /\ spent.changes < MaxChanges
    /\ spent' = [spent EXCEPT !.changes = @ + 1]
    /\ \E n \in Notebooks \ {default} : default' = n
    /\ UNCHANGED <<ledger, feed, request, answer, modules, transit>>

(* The process dies: the handlers are gone, their calls may still arrive.  *)
Crash ==
    /\ spent.crashes < MaxCrashes
    /\ spent' = [spent EXCEPT !.crashes = @ + 1]
    /\ request' = [r \in Requests |->
                     IF request[r].phase = "new" THEN request[r]
                     ELSE [request[r] EXCEPT !.phase = "done"]]
    /\ transit' = transit \cup
         {<<request[r].key, request[r].text>> :
            r \in {q \in Requests : request[q].phase = "update"}}
    /\ UNCHANGED <<ledger, feed, default, answer, modules>>

Next ==
    \/ \E r \in Requests :
          \/ \E k \in Keys, text \in Texts, n \in Notebooks \cup {Omitted} :
                Arrive(r, k, text, n)
          \/ Check(r)
          \/ Update(r)
          \/ Fail(r)
          \/ Complete(r)
    \/ LateUpdate
    \/ ChangeDefault
    \/ Crash

Spec == Init /\ [][Next]_vars
-----------------------------------------------------------------------------
(* Who is told that a description was added finds its own text in the      *)
(* record, and an event that says so at the cursor it was given; no event  *)
(* comes before its text.                                                  *)
AcknowledgedIsWritten ==
    /\ \A i \in DOMAIN feed : modules[feed[i]] # NoText
    /\ \A r \in Acknowledged :
          /\ modules[request[r].key] = request[r].text
          /\ answer[r].cursor \in DOMAIN feed
          /\ feed[answer[r].cursor] = request[r].key

(* All who are acknowledged under one key are given the same cursor, at    *)
(* most one of them is told that it created the description, and the feed  *)
(* is told of it once.                                                     *)
OneReceiptPerKey ==
    /\ \A q, r \in Acknowledged : request[q].key = request[r].key =>
          /\ answer[q].cursor = answer[r].cursor
          /\ answer[q].code = "created" /\ answer[r].code = "created" => q = r
    /\ \A i, j \in DOMAIN feed : feed[i] = feed[j] => i = j

(* Who is told that its key belongs to another description is told so on   *)
(* account of another request: one of that key with another text or        *)
(* notebook, or, when neither of them named a notebook, one that was sent  *)
(* before the default was changed.  That an equal request is under way, has *)
(* failed or was interrupted is no conflict.                               *)
ConflictHasCause ==
    \A r \in Requests : answer[r].code = "conflict" =>
        \E q \in Requests \ {r} :
            /\ request[q].phase # "new" /\ request[q].key = request[r].key
            /\ \/ request[q].text # request[r].text
               \/ request[q].notebook # request[r].notebook
               \/ request[r].notebook = Omitted /\ spent.changes > 0

(* What docs/api-quickstart.zh-CN.md says of a repeated request: the same  *)
(* key and content return the original receipt.                            *)
RepeatReturnsReceipt ==
    \A r \in Requests : request[r].replay => answer[r].code \notin {"conflict", "error"}
=============================================================================
