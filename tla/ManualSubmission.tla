--------------------------- MODULE ManualSubmission --------------------------
(***************************************************************************)
(* POST /v1/manual-submissions (api.py): a note and its attachments become *)
(* a capture that is committed before the request is answered.  A key      *)
(* binds the submission to its capture, so that it can be repeated.  One   *)
(* lock lets the requests in one after the other; it belongs to one        *)
(* create_app, and a service restart makes another one while requests of   *)
(* the old one may still be served.                                        *)
(*                                                                         *)
(* A capture is named by the request that created it (its id is a fresh    *)
(* uuid).  The bytes of the attachments are ArtifactIngress's concern.     *)
(***************************************************************************)
EXTENDS Naturals

CONSTANTS
    Requests,      \* HTTP requests
    Keys,          \* idempotency keys
    NoKey,         \* the request has no Idempotency-Key header
    Texts,         \* titles and contents
    Notebooks,     \* notebooks that a request may name or default to
    Omitted,       \* no notebook is named, or configured as the default
    Nobody,        \* not a request
    MaxFiles,      \* bound: attachments of one request
    MaxTroubles    \* bound: failing notebook lists and attachment writes,
                   \* changes of the default notebook, restarts and crashes

ASSUME SubmissionConstants ==
    /\ NoKey \notin Keys /\ Omitted \notin Notebooks /\ Nobody \notin Requests
    /\ Texts # {} /\ MaxFiles \in Nat /\ MaxTroubles \in Nat

VARIABLES
    request,   \* what each request sent and where its handler is
    answer,    \* what it was answered
    holder,    \* who has the lock of each create_app
    app,       \* the create_app that takes requests
    default,   \* the default notebook of desktop-settings.json
    bound,     \* manual_submission_idempotency: fingerprint and capture
    state,     \* captures.state, as far as the commit goes
    received,  \* the capture's artifacts that are received
    spent      \* faults, changes, restarts and crashes so far

vars == <<request, answer, holder, app, default, bound, state, received, spent>>

Apps == 1..(1 + MaxTroubles)
Contents == [text : Texts, files : 0..MaxFiles, notebook : Notebooks \cup {Omitted}]
Phases == {"new", "queued", "notebooks", "files", "body", "done"}
Codes == {"none", "accepted", "conflict", "not found", "invalid state", "error"}

Unsent == [phase |-> "new", key |-> NoKey, content |-> CHOOSE c \in Contents : TRUE,
           app |-> 1, capture |-> Nobody, file |-> 1, duplicate |-> FALSE]
Unanswered == [code |-> "none", capture |-> Nobody, duplicate |-> FALSE]
Unbound == [print |-> Unsent.content, capture |-> Nobody]

Init ==
    /\ request = [r \in Requests |-> Unsent]
    /\ answer = [r \in Requests |-> Unanswered]
    /\ holder = [a \in Apps |-> Nobody]
    /\ app = 1
    /\ default \in Notebooks \cup {Omitted}
    /\ bound = [k \in Keys |-> Unbound]
    /\ state = [r \in Requests |-> "absent"]
    /\ received = [r \in Requests |-> {}]
    /\ spent = [faults |-> 0, changes |-> 0, restarts |-> 0, crashes |-> 0]

TypeOK ==
    /\ request \in [Requests -> [phase : Phases, key : Keys \cup {NoKey}, content : Contents,
                                 app : Apps, capture : Requests \cup {Nobody},
                                 file : 1..(MaxFiles + 1), duplicate : BOOLEAN]]
    /\ answer \in [Requests -> [code : Codes, capture : Requests \cup {Nobody},
                                duplicate : BOOLEAN]]
    /\ holder \in [Apps -> Requests \cup {Nobody}]
    /\ app \in Apps
    /\ default \in Notebooks \cup {Omitted}
    /\ bound \in [Keys -> [print : Contents, capture : Requests \cup {Nobody}]]
    /\ state \in [Requests -> {"absent", "receiving", "committed"}]
    /\ received \in [Requests -> SUBSET (1..MaxFiles)]
    /\ spent \in [faults : Nat, changes : Nat, restarts : Nat, crashes : Nat]
-----------------------------------------------------------------------------
storeVars == <<bound, state, received>>

Spend(budget) ==
    /\ spent.faults + spent.changes + spent.restarts + spent.crashes < MaxTroubles
    /\ spent' = [spent EXCEPT ![budget] = @ + 1]

(* The notebook that is meant now.                                         *)
Meant(content) == IF content.notebook = Omitted THEN default ELSE content.notebook

(* Mutant: the fingerprint has the notebook that is meant now.             *)
Fingerprint_Resolved(content) == [content EXCEPT !.notebook = Meant(content)]

(* The fingerprint has the fields as they were sent.                       *)
Fingerprint(content) == content

(* The handler leaves the lock and answers.                                *)
Reply(r, code, capture, duplicate) ==
    /\ answer' = [answer EXCEPT ![r] = [code |-> code, capture |-> capture,
                                        duplicate |-> duplicate]]
    /\ request' = [request EXCEPT ![r].phase = "done"]
    /\ holder' = [holder EXCEPT ![request[r].app] = Nobody]

Refuse(r, code) == Reply(r, code, Nobody, FALSE)

(* A request is sent; its attachments are hashed before the lock.          *)
Arrive(r, k, content) ==
    /\ request[r].phase = "new"
    /\ request' = [request EXCEPT ![r] = [Unsent EXCEPT
                      !.phase = "queued", !.key = k, !.content = content, !.app = app]]
    /\ UNCHANGED <<answer, holder, app, default, bound, state, received, spent>>

(* Mutant: the lock is not waited for.                                     *)
Free_Always(a) == TRUE

(* manual_submission_lock can be taken.                                    *)
Free(a) == holder[a] = Nobody

(* With the lock: find_manual_capture, and what follows up to an await.    *)
Enter(r) ==
    LET k == request[r].key
        content == request[r].content
        prior == bound[k].capture
        GoOn(phase, capture, duplicate) ==
            /\ request' = [request EXCEPT ![r].phase = phase, ![r].capture = capture,
                                          ![r].duplicate = duplicate]
            /\ holder' = [holder EXCEPT ![request[r].app] = r]
            /\ UNCHANGED answer
    IN
    /\ request[r].phase = "queued"
    /\ Free(request[r].app)
    /\ IF k # NoKey /\ prior # Nobody
         THEN \/ bound[k].print # Fingerprint(content) /\ Refuse(r, "conflict")
              \/ /\ bound[k].print = Fingerprint(content)
                 /\ \/ state[prior] = "receiving" /\ GoOn("files", prior, TRUE)
                    \/ state[prior] # "receiving" /\ Reply(r, "accepted", prior, TRUE)
         ELSE \/ Meant(content) = Omitted /\ Refuse(r, "error")
              \/ Meant(content) # Omitted /\ GoOn("notebooks", Nobody, FALSE)
    /\ UNCHANGED <<app, default, storeVars, spent>>

(* Mutant: the key is not looked up again.                                 *)
Insert_Blind(r) ==
    LET k == request[r].key IN
    /\ bound' = IF k = NoKey THEN bound
                ELSE [bound EXCEPT ![k] = [print |-> Fingerprint(request[r].content), capture |-> r]]
    /\ state' = [state EXCEPT ![r] = "receiving"]
    /\ request' = [request EXCEPT ![r].phase = "files", ![r].capture = r]
    /\ UNCHANGED <<answer, holder, received>>

(* create_capture or create_manual_capture, one BEGIN IMMEDIATE            *)
(* transaction; then record_request for the capture that was to be made.   *)
Insert(r) ==
    LET k == request[r].key
        print == Fingerprint(request[r].content)
        new == k \in Keys => bound[k].capture = Nobody
    IN
    \/ /\ new
       /\ bound' = IF k = NoKey THEN bound
                   ELSE [bound EXCEPT ![k] = [print |-> print, capture |-> r]]
       /\ state' = [state EXCEPT ![r] = "receiving"]
       /\ request' = [request EXCEPT ![r].phase = "files", ![r].capture = r]
       /\ UNCHANGED <<answer, holder, received>>
    \/ /\ ~new
       /\ Refuse(r, IF bound[k].print = print THEN "not found" ELSE "conflict")
       /\ UNCHANGED storeVars

(* load_notebooks returns the notebook that is meant, or it does not.      *)
Selected(r) ==
    /\ request[r].phase = "notebooks"
    /\ \/ Insert(r) /\ UNCHANGED spent
       \/ Spend("faults") /\ Refuse(r, "error") /\ UNCHANGED storeVars
    /\ UNCHANGED <<app, default>>

(* Mutant: an attachment too many is taken from the form.                  *)
BeginFile_OneMore(r) ==
    LET c == request[r].capture  i == request[r].file IN
    /\ request[r].phase = "files"
    /\ i <= request[r].content.files + 1
    /\ \/ state[c] # "receiving" /\ Refuse(r, "invalid state")
       \/ /\ state[c] = "receiving"
          /\ request' = IF i \in received[c] THEN [request EXCEPT ![r].file = i + 1]
                        ELSE [request EXCEPT ![r].phase = "body"]
          /\ UNCHANGED <<answer, holder>>
    /\ UNCHANGED <<app, default, storeVars, spent>>

(* The next attachment: ingress.receive up to its first await.  One that   *)
(* is received is acknowledged.                                            *)
BeginFile(r) ==
    LET c == request[r].capture  i == request[r].file IN
    /\ request[r].phase = "files"
    /\ i <= request[r].content.files
    /\ \/ state[c] # "receiving" /\ Refuse(r, "invalid state")
       \/ /\ state[c] = "receiving"
          /\ request' = IF i \in received[c] THEN [request EXCEPT ![r].file = i + 1]
                        ELSE [request EXCEPT ![r].phase = "body"]
          /\ UNCHANGED <<answer, holder>>
    /\ UNCHANGED <<app, default, storeVars, spent>>

(* Another request has had the .part file of r's attachment in its hands.  *)
Shared(r) ==
    \E q \in Requests \ {r} :
        request[q].capture = request[r].capture /\ request[q].file >= request[r].file

(* The rest of ingress.receive.  The .part file may have been moved to its *)
(* place, or removed, by another request, or cannot be written.            *)
FinishFile(r) ==
    LET c == request[r].capture  i == request[r].file IN
    /\ request[r].phase = "body"
    /\ \/ /\ i \notin received[c]
          /\ received' = [received EXCEPT ![c] = @ \cup {i}]
          /\ request' = [request EXCEPT ![r].phase = "files", ![r].file = i + 1]
          /\ UNCHANGED <<answer, holder, spent>>
       \/ /\ \/ Shared(r) /\ UNCHANGED spent
             \/ Spend("faults")
          /\ Refuse(r, "error")
          /\ UNCHANGED received
    /\ UNCHANGED <<app, default, bound, state>>

(* Mutant: the commit is left to the next repetition.                      *)
Commit_Later(r) ==
    /\ request[r].phase = "files"
    /\ request[r].file > request[r].content.files
    /\ Reply(r, "accepted", request[r].capture, request[r].duplicate)
    /\ UNCHANGED <<app, default, storeVars, spent>>

(* commit_capture, and the answer.                                         *)
Commit(r) ==
    LET c == request[r].capture IN
    /\ request[r].phase = "files"
    /\ request[r].file > request[r].content.files
    /\ state' = [state EXCEPT ![c] = "committed"]
    /\ Reply(r, "accepted", c, request[r].duplicate)
    /\ UNCHANGED <<app, default, bound, received, spent>>

(* The user chooses another default notebook.                              *)
ChangeDefault ==
    /\ Spend("changes")
    /\ \E n \in Notebooks \ {default} : default' = n
    /\ UNCHANGED <<request, answer, holder, app, storeVars>>

(* The service is restarted: the old one's requests may go on.             *)
ServiceRestart ==
    /\ Spend("restarts")
    /\ app' = app + 1
    /\ UNCHANGED <<request, answer, holder, default, storeVars>>

(* The process dies with every request in it, and is started again.        *)
Crash ==
    /\ Spend("crashes")
    /\ app' = app + 1
    /\ request' = [r \in Requests |-> IF request[r].phase = "new" THEN request[r]
                                      ELSE [request[r] EXCEPT !.phase = "done"]]
    /\ UNCHANGED <<answer, holder, default, storeVars>>

Next ==
    \/ \E r \in Requests :
          \/ \E k \in Keys \cup {NoKey}, content \in Contents : Arrive(r, k, content)
          \/ Enter(r)
          \/ Selected(r)
          \/ BeginFile(r)
          \/ FinishFile(r)
          \/ Commit(r)
    \/ ChangeDefault
    \/ ServiceRestart
    \/ Crash

Spec == Init /\ [][Next]_vars
-----------------------------------------------------------------------------
Accepted == {r \in Requests : answer[r].code = "accepted"}

(* Whoever is told that the submission was accepted may forget it: its     *)
(* capture is committed with every attachment, and under a key it is the   *)
(* capture of the same content.                                            *)
AcceptedIsCommitted ==
    \A r \in Accepted :
        LET c == answer[r].capture IN
        /\ state[c] = "committed"
        /\ received[c] = 1..request[c].content.files
        /\ request[c].content = request[r].content

(* One key makes one capture, across repetitions, crashes and restarts,    *)
(* and only one answer says that it is not a duplicate.                    *)
OneCapturePerKey ==
    \A k \in Keys :
        /\ \A c, d \in Requests :
              /\ state[c] # "absent" /\ request[c].key = k
              /\ state[d] # "absent" /\ request[d].key = k
              => c = d
        /\ \A q, r \in Accepted :
              /\ request[q].key = k /\ ~answer[q].duplicate
              /\ request[r].key = k /\ ~answer[r].duplicate
              => q = r

(* A conflict is answered to a request whose content differs from that of  *)
(* the capture its key is bound to, and to no other.                       *)
ConflictIsReal ==
    \A r \in Requests : answer[r].code = "conflict" =>
        LET c == bound[request[r].key].capture IN
        c # Nobody /\ request[c].content # request[r].content

(* A repeated key with the same content is answered with the original      *)
(* capture, as long as one service serves all requests - also after a      *)
(* crash.  Only a failing call may stop it.                                *)
Repeats ==
    {r \in Requests :
        /\ request[r].key # NoKey
        /\ bound[request[r].key].capture # Nobody
        /\ request[bound[request[r].key].capture].content = request[r].content
        /\ answer[r].code \notin {"none", "error"}}

RepeatReturnsCapture ==
    spent.restarts = 0 =>
        \A r \in Repeats :
            /\ answer[r].code = "accepted"
            /\ answer[r].capture = bound[request[r].key].capture

(* What docs/api-quickstart.zh-CN.md says of it, with no such condition.   *)
RepeatReturnsOriginal ==
    \A r \in Repeats :
        /\ answer[r].code = "accepted"
        /\ answer[r].capture = bound[request[r].key].capture
=============================================================================
