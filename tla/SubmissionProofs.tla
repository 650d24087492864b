--------------------------- MODULE SubmissionProofs -------------------------
(***************************************************************************)
(* Manual submissions, for any number of requests, keys and attachments.   *)
(*                                                                         *)
(* That an accepted submission is complete, that a key makes one capture   *)
(* and that a conflict is real do not depend on manual_submission_lock:    *)
(* they hold across restarts, where two locks exist.  They rest on what a  *)
(* handler has in hand while it receives files: the capture that its key   *)
(* is bound to, made for the same content, and all files before its next.  *)
(* That a repeated request is answered with the capture does depend on it, *)
(* as long as there is one: a handler that has the lock is alone in it, so *)
(* a capture that is half made is the one that its holder works on         *)
(* (LockInv).                                                              *)
(***************************************************************************)
EXTENDS ManualSubmission, TLAPS

(* Only the request that made a capture is past its insertion.             *)
Made ==
    \A c \in Requests :
        /\ state[c] # "absent" => request[c].phase \in {"files", "body", "done"}
        /\ state[c] = "absent" => received[c] = {}
        /\ received[c] \subseteq 1..request[c].content.files
        /\ state[c] = "committed" => received[c] = 1..request[c].content.files

(* A key is bound to the one capture that was made with it.                *)
BoundToMade ==
    \A k \in Keys, c \in Requests :
        bound[k].capture = c <=> state[c] # "absent" /\ request[c].key = k

PrintOfMade ==
    \A k \in Keys, c \in Requests :
        bound[k].capture = c => bound[k].print = request[c].content

(* The capture that r works on.                                            *)
SameContent(r, c, duplicate) ==
    /\ c \in Requests
    /\ state[c] # "absent"
    /\ request[c].content = request[r].content
    /\ ~duplicate => c = r

Receiving ==
    \A r \in Requests :
        /\ request[r].phase \in {"new", "queued", "notebooks"} => request[r].file = 1
        /\ request[r].phase \in {"files", "body"} =>
              /\ SameContent(r, request[r].capture, request[r].duplicate)
              /\ \A i \in 1..MaxFiles :
                    i < request[r].file => i \in received[request[r].capture]
              /\ request[r].phase = "body" => request[r].file <= request[r].content.files

Answered ==
    \A r \in Requests :
        /\ answer[r].code # "none" => request[r].phase = "done"
        /\ answer[r].code = "accepted" =>
              /\ SameContent(r, answer[r].capture, answer[r].duplicate)
              /\ state[answer[r].capture] = "committed"
        /\ answer[r].code = "conflict" =>
              /\ request[r].key \in Keys
              /\ bound[request[r].key].capture # Nobody
              /\ bound[request[r].key].print # request[r].content

OneApp == app = 1 + spent.restarts + spent.crashes

SubmissionInv == /\ TypeOK /\ OneApp
                 /\ Made /\ BoundToMade /\ PrintOfMade /\ Receiving /\ Answered
-----------------------------------------------------------------------------
LEMMA Typed ==
    /\ \A c \in Contents : c.files \in 0..MaxFiles
    /\ Unsent.content \in Contents
    /\ Nobody \notin Requests /\ NoKey \notin Keys /\ MaxFiles \in Nat /\ MaxTroubles \in Nat
<1>1. \E c : c \in Contents
  <2>1. PICK t \in Texts : TRUE
    BY SubmissionConstants
  <2>2. [text |-> t, files |-> 0, notebook |-> Omitted] \in Contents
    BY SubmissionConstants DEF Contents
  <2>. QED  BY <2>2
<1>. QED  BY <1>1, SubmissionConstants DEF Contents, Unsent

(* What a request may be, the set of TypeOK.                               *)
Asked == [phase : Phases, key : Keys \cup {NoKey}, content : Contents, app : Apps,
          capture : Requests \cup {Nobody}, file : 1..(MaxFiles + 1), duplicate : BOOLEAN]

LEMMA UnsentTyped == Unsent \in Asked
BY Typed DEF Unsent, Phases, Apps, Asked

LEMMA GoOnTyped ==
    ASSUME NEW q \in Asked, NEW phase \in Phases, NEW c \in Requests \cup {Nobody},
           NEW duplicate \in BOOLEAN
    PROVE  [q EXCEPT !.phase = phase, !.capture = c, !.duplicate = duplicate] \in Asked
BY DEF Asked

LEMMA RequestTyped == ASSUME TypeOK PROVE request \in [Requests -> Asked]
BY DEF TypeOK, Asked

LEMMA SubmissionInitial == ASSUME Init PROVE SubmissionInv
<1>1. TypeOK
  <2>2. Unanswered \in [code : Codes, capture : Requests \cup {Nobody}, duplicate : BOOLEAN]
    BY DEF Unanswered, Codes
  <2>3. Unbound \in [print : Contents, capture : Requests \cup {Nobody}]
    BY Typed DEF Unbound
  <2>. QED  BY UnsentTyped, <2>2, <2>3, Typed DEF Init, TypeOK, Apps, Asked
<1>2. OneApp
  BY DEF Init, OneApp
<1>3. Made
  BY Typed DEF Init, Made, Unsent
<1>4. BoundToMade /\ PrintOfMade
  BY Typed DEF Init, BoundToMade, PrintOfMade, Unbound
<1>5. Receiving
  BY DEF Init, Receiving, Unsent
<1>6. Answered
  BY DEF Init, Answered, Unanswered
<1>. QED  BY <1>1, <1>2, <1>3, <1>4, <1>5, <1>6 DEF SubmissionInv

(* A request is sent.                                                      *)
LEMMA ArriveStep ==
    ASSUME SubmissionInv, NEW r \in Requests, NEW k \in Keys \cup {NoKey},
           NEW content \in Contents, Arrive(r, k, content)
    PROVE  SubmissionInv'
<1>1. TypeOK'
  <2>1. [Unsent EXCEPT !.phase = "queued", !.key = k, !.content = content, !.app = app]
          \in Asked
    BY UnsentTyped, "queued" \in Phases DEF SubmissionInv, TypeOK, Phases, Asked
  <2>. QED  BY <2>1 DEF SubmissionInv, TypeOK, Arrive, Asked
<1>2. /\ request'[r].phase = "queued" /\ request[r].phase = "new"
      /\ \A q \in Requests \ {r} : request'[q] = request[q]
      /\ UNCHANGED <<answer, holder, app, default, bound, state, received, spent>>
  BY DEF SubmissionInv, TypeOK, Arrive, Unsent
<1>3. state[r] = "absent" /\ received[r] = {} /\ answer[r].code = "none"
  BY <1>2 DEF SubmissionInv, Made, Answered, TypeOK
<1>4. OneApp'
  BY <1>2 DEF SubmissionInv, OneApp
<1>5. Made'
  BY <1>2, <1>3 DEF SubmissionInv, Made
<1>6. BoundToMade' /\ PrintOfMade'
  BY <1>2, <1>3 DEF SubmissionInv, BoundToMade, PrintOfMade
<1>7. Receiving'
  BY <1>2, <1>3 DEF SubmissionInv, Receiving, SameContent, Arrive, TypeOK, Unsent
<1>8. Answered'
  BY <1>2, <1>3 DEF SubmissionInv, Answered, SameContent
<1>. QED  BY <1>1, <1>4, <1>5, <1>6, <1>7, <1>8 DEF SubmissionInv

(* An answer.                                                              *)
Honest(r, code, c, duplicate) ==
    \/ code \in {"not found", "invalid state", "error"}
    \/ /\ code = "accepted"
       /\ SameContent(r, c, duplicate)
       /\ state[c] = "committed"
    \/ /\ code = "conflict"
       /\ request[r].key \in Keys
       /\ bound[request[r].key].capture # Nobody
       /\ bound[request[r].key].print # request[r].content

LEMMA ReplyFrame ==
    ASSUME TypeOK, NEW r \in Requests, NEW code \in Codes, NEW c \in Requests \cup {Nobody},
           NEW duplicate \in BOOLEAN, Reply(r, code, c, duplicate)
    PROVE  /\ request' \in [Requests -> Asked]
           /\ answer' \in [Requests -> [code : Codes, capture : Requests \cup {Nobody},
                                        duplicate : BOOLEAN]]
           /\ holder' \in [Apps -> Requests \cup {Nobody}]
           /\ \A q \in Requests \ {r} : request'[q] = request[q] /\ answer'[q] = answer[q]
           /\ request'[r].phase = "done"
           /\ \A q \in Requests : /\ request'[q].key = request[q].key
                                  /\ request'[q].content = request[q].content
                                  /\ request'[q].app = request[q].app
           /\ answer'[r] = [code |-> code, capture |-> c, duplicate |-> duplicate]
<1>1. "done" \in Phases
  BY DEF Phases
<1>. QED  BY <1>1 DEF TypeOK, Reply, Asked

LEMMA ReplyKeeps ==
    ASSUME SubmissionInv, NEW r \in Requests, NEW code \in Codes,
           NEW c \in Requests \cup {Nobody}, NEW duplicate \in BOOLEAN,
           Reply(r, code, c, duplicate), request[r].phase # "new",
           Honest(r, code, c, duplicate), UNCHANGED <<bound, state, received>>
    PROVE  Made' /\ BoundToMade' /\ PrintOfMade' /\ Receiving' /\ Answered'
<1>0. TypeOK /\ Made /\ BoundToMade /\ PrintOfMade /\ Receiving /\ Answered
  BY DEF SubmissionInv
<1>1. /\ \A q \in Requests \ {r} : request'[q] = request[q] /\ answer'[q] = answer[q]
      /\ request'[r].phase = "done"
      /\ \A q \in Requests : /\ request'[q].key = request[q].key
                             /\ request'[q].content = request[q].content
      /\ answer'[r] = [code |-> code, capture |-> c, duplicate |-> duplicate]
  BY <1>0, ReplyFrame
<1>2. Made'
  BY <1>0, <1>1 DEF Made
<1>3. BoundToMade' /\ PrintOfMade'
  BY <1>0, <1>1 DEF BoundToMade, PrintOfMade
<1>4. Receiving'
  BY <1>0, <1>1 DEF Receiving, SameContent
<1>5. Answered'
  <2>1. ASSUME NEW q \in Requests \ {r}
        PROVE  /\ answer'[q].code # "none" => request'[q].phase = "done"
               /\ answer'[q].code = "accepted" =>
                     /\ SameContent(q, answer[q].capture, answer[q].duplicate)'
                     /\ state'[answer'[q].capture] = "committed"
               /\ answer'[q].code = "conflict" =>
                     /\ request'[q].key \in Keys
                     /\ bound'[request'[q].key].capture # Nobody
                     /\ bound'[request'[q].key].print # request'[q].content
    BY <1>0, <1>1 DEF Answered, SameContent
  <2>2. /\ answer'[r].code = "accepted" =>
              /\ SameContent(r, c, duplicate)'
              /\ state'[c] = "committed"
        /\ answer'[r].code = "conflict" =>
              /\ request'[r].key \in Keys
              /\ bound'[request'[r].key].capture # Nobody
              /\ bound'[request'[r].key].print # request'[r].content
    <3>1. \A q \in Requests : request'[q].content = request[q].content
      BY <1>1
    <3>2. CASE code = "accepted"
      BY <1>1, <3>1, <3>2 DEF Honest, SameContent
    <3>3. CASE code = "conflict"
      BY <1>1, <3>1, <3>3 DEF Honest, SameContent
    <3>. QED  BY <1>1, <3>2, <3>3
  <2>. QED  BY <1>1, <2>1, <2>2 DEF Answered, SameContent
<1>. QED  BY <1>2, <1>3, <1>4, <1>5

LEMMA AnswerStep ==
    ASSUME SubmissionInv, NEW r \in Requests, request[r].phase # "new",
           NEW code \in Codes, NEW c \in Requests \cup {Nobody}, NEW duplicate \in BOOLEAN,
           Reply(r, code, c, duplicate), Honest(r, code, c, duplicate),
           UNCHANGED <<app, default, bound, state, received>>,
           spent' \in [faults : Nat, changes : Nat, restarts : Nat, crashes : Nat],
           spent'.restarts = spent.restarts, spent'.crashes = spent.crashes
    PROVE  SubmissionInv'
<1>1. TypeOK /\ OneApp
  BY DEF SubmissionInv
<1>2. /\ request' \in [Requests -> Asked]
      /\ answer' \in [Requests -> [code : Codes, capture : Requests \cup {Nobody},
                                   duplicate : BOOLEAN]]
      /\ holder' \in [Apps -> Requests \cup {Nobody}]
  BY <1>1, ReplyFrame
<1>3. TypeOK'
  BY <1>1, <1>2 DEF TypeOK, Asked
<1>4. OneApp'
  BY <1>1 DEF OneApp
<1>. QED  BY <1>3, <1>4, ReplyKeeps DEF SubmissionInv

LEMMA SpendTyped ==
    ASSUME TypeOK, NEW budget \in {"faults", "changes", "restarts", "crashes"}, Spend(budget)
    PROVE  /\ spent' \in [faults : Nat, changes : Nat, restarts : Nat, crashes : Nat]
           /\ budget \in {"faults", "changes"} =>
                 spent'.restarts = spent.restarts /\ spent'.crashes = spent.crashes
           /\ budget \in {"restarts", "crashes"} =>
                 /\ spent'.restarts + spent'.crashes = spent.restarts + spent.crashes + 1
                 /\ spent.restarts + spent.crashes < MaxTroubles
BY Typed DEF TypeOK, Spend

(* A handler goes on to a phase that lets it write only what it may.       *)
LEMMA MoveKeeps ==
    ASSUME SubmissionInv, NEW r \in Requests, request[r].phase \notin {"new", "done"},
           UNCHANGED <<answer, bound, state, received>>,
           \A q \in Requests \ {r} : request'[q] = request[q],
           request'[r].key = request[r].key, request'[r].content = request[r].content,
           request'[r].phase \in {"notebooks", "files", "body"},
           request'[r].phase = "notebooks" => state[r] = "absent" /\ request'[r].file = 1,
           request'[r].phase # "notebooks" =>
               /\ SameContent(r, request'[r].capture, request'[r].duplicate)
               /\ \A i \in 1..MaxFiles :
                     i < request'[r].file => i \in received[request'[r].capture]
               /\ request'[r].phase = "body" => request'[r].file <= request[r].content.files
    PROVE  Made' /\ BoundToMade' /\ PrintOfMade' /\ Receiving' /\ Answered'
<1>0. TypeOK /\ Made /\ BoundToMade /\ PrintOfMade /\ Receiving /\ Answered
  BY DEF SubmissionInv
<1>1. \A q \in Requests : /\ request'[q].key = request[q].key
                         /\ request'[q].content = request[q].content
  OBVIOUS
<1>2. Made'
  BY <1>0, <1>1 DEF Made
<1>3. BoundToMade' /\ PrintOfMade'
  BY <1>0, <1>1 DEF BoundToMade, PrintOfMade
<1>4. Receiving'
  BY <1>0, <1>1 DEF Receiving, SameContent
<1>5. Answered'
  BY <1>0, <1>1 DEF Answered, SameContent
<1>. QED  BY <1>2, <1>3, <1>4, <1>5

LEMMA EnterStep ==
    ASSUME SubmissionInv, NEW r \in Requests, Enter(r) PROVE SubmissionInv'
<1>. DEFINE k == request[r].key
            content == request[r].content
            prior == bound[k].capture
            GoOn(phase, capture, duplicate) ==
                /\ request' = [request EXCEPT ![r].phase = phase, ![r].capture = capture,
                                              ![r].duplicate = duplicate]
                /\ holder' = [holder EXCEPT ![request[r].app] = r]
                /\ UNCHANGED answer
<1>0. /\ TypeOK /\ Made /\ BoundToMade /\ PrintOfMade /\ OneApp
      /\ request[r].phase = "queued" /\ k \in Keys \cup {NoKey}
      /\ UNCHANGED <<app, default, bound, state, received, spent>>
  BY DEF SubmissionInv, Enter, storeVars, TypeOK
<1>1. OneApp'
  BY <1>0 DEF OneApp
<1>2. ASSUME NEW code \in Codes, NEW c \in Requests \cup {Nobody}, NEW duplicate \in BOOLEAN,
             Reply(r, code, c, duplicate), Honest(r, code, c, duplicate)
      PROVE  SubmissionInv'
  <2>1. spent' \in [faults : Nat, changes : Nat, restarts : Nat, crashes : Nat]
    BY <1>0 DEF TypeOK
  <2>. QED  BY <1>0, <1>2, <2>1, AnswerStep
<1>3. ASSUME NEW phase \in {"notebooks", "files"}, NEW c \in Requests \cup {Nobody},
             NEW duplicate \in BOOLEAN, GoOn(phase, c, duplicate),
             phase = "notebooks" => state[r] = "absent",
             phase = "files" => SameContent(r, c, duplicate)
      PROVE  SubmissionInv'
  <2>1. TypeOK'
    <3>1. phase \in Phases /\ c \in Requests \cup {Nobody} /\ duplicate \in BOOLEAN
      BY <1>3 DEF Phases
    <3>2. request' \in [Requests -> Asked]
      BY <1>0, <1>3, <3>1, RequestTyped, GoOnTyped
    <3>3. holder' \in [Apps -> Requests \cup {Nobody}]
      BY <1>0, <1>3 DEF TypeOK
    <3>. QED  BY <1>0, <1>3, <3>2, <3>3 DEF TypeOK, Asked
  <2>2. Made' /\ BoundToMade' /\ PrintOfMade' /\ Receiving' /\ Answered'
    <3>1. request[r].file = 1
      BY <1>0 DEF SubmissionInv, Receiving
    <3>2. /\ \A q \in Requests \ {r} : request'[q] = request[q]
          /\ request'[r].key = request[r].key /\ request'[r].content = request[r].content
          /\ request'[r].phase = phase /\ request'[r].file = 1
          /\ request'[r].capture = c /\ request'[r].duplicate = duplicate
          /\ \A i \in 1..MaxFiles : ~(i < 1)
          /\ UNCHANGED answer
      BY <1>0, <1>3, <3>1, Typed DEF TypeOK
    <3>. QED  BY <1>0, <1>3, <3>2, MoveKeeps
  <2>. QED  BY <1>1, <2>1, <2>2 DEF SubmissionInv
<1>4. CASE k # NoKey /\ prior # Nobody
  <2>1. k \in Keys /\ prior \in Requests
    BY <1>0, <1>4 DEF TypeOK
  <2>2. state[prior] # "absent" /\ bound[k].print = request[prior].content
    BY <1>0, <2>1 DEF BoundToMade, PrintOfMade
  <2>3. CASE bound[k].print # Fingerprint(content) /\ Refuse(r, "conflict")
    BY <1>2, <1>4, <2>1, <2>3 DEF Fingerprint, Refuse, Honest, Codes
  <2>4. CASE bound[k].print = Fingerprint(content)
    <3>1. SameContent(r, prior, TRUE)
      BY <2>1, <2>2, <2>4 DEF SameContent, Fingerprint
    <3>2. CASE GoOn("files", prior, TRUE)
      BY <1>3, <2>1, <3>1, <3>2
    <3>3. CASE state[prior] # "receiving" /\ Reply(r, "accepted", prior, TRUE)
      <4>1. state[prior] = "committed"
        BY <1>0, <2>1, <2>2, <3>3 DEF TypeOK
      <4>. QED  BY <1>2, <2>1, <3>1, <3>3, <4>1 DEF Honest, Codes
    <3>. QED  BY <1>4, <2>4, <3>2, <3>3 DEF Enter
  <2>. QED  BY <1>4, <2>3, <2>4 DEF Enter
<1>5. CASE ~(k # NoKey /\ prior # Nobody)
  <2>1. state[r] = "absent"
    BY <1>0 DEF Made
  <2>2. CASE Refuse(r, "error")
    BY <1>2, <2>2 DEF Refuse, Honest, Codes
  <2>3. CASE GoOn("notebooks", Nobody, FALSE)
    BY <1>3, <2>1, <2>3
  <2>. QED  BY <1>5, <2>2, <2>3 DEF Enter
<1>. QED  BY <1>4, <1>5

LEMMA RefuseStep ==
    ASSUME SubmissionInv, NEW r \in Requests, request[r].phase # "new",
           NEW code \in {"not found", "invalid state", "error"}, Refuse(r, code),
           UNCHANGED <<app, default, bound, state, received>>,
           UNCHANGED spent \/ Spend("faults")
    PROVE  SubmissionInv'
<1>1. /\ spent' \in [faults : Nat, changes : Nat, restarts : Nat, crashes : Nat]
      /\ spent'.restarts = spent.restarts /\ spent'.crashes = spent.crashes
  <2>1. CASE UNCHANGED spent
    BY <2>1 DEF SubmissionInv, TypeOK
  <2>2. CASE Spend("faults")
    BY <2>2, SpendTyped DEF SubmissionInv
  <2>. QED  BY <2>1, <2>2
<1>2. code \in Codes /\ Honest(r, code, Nobody, FALSE)
  BY DEF Codes, Honest
<1>3. Reply(r, code, Nobody, FALSE)
  BY DEF Refuse
<1>. QED  BY <1>1, <1>2, <1>3, AnswerStep

(* The insertion of a capture, under a key that is not bound yet.          *)
LEMMA SelectedStep ==
    ASSUME SubmissionInv, NEW r \in Requests, Selected(r) PROVE SubmissionInv'
<1>. DEFINE k == request[r].key
            print == Fingerprint(request[r].content)
<1>0. /\ TypeOK /\ Made /\ BoundToMade /\ PrintOfMade /\ Receiving /\ Answered /\ OneApp
      /\ request[r].phase = "notebooks" /\ k \in Keys \cup {NoKey}
      /\ UNCHANGED <<app, default>>
      /\ request[r].phase # "new"
  BY DEF SubmissionInv, Selected, TypeOK
<1>1. CASE Spend("faults") /\ Refuse(r, "error") /\ UNCHANGED storeVars
  BY <1>0, <1>1, RefuseStep DEF storeVars
<1>2. CASE /\ k \in Keys /\ bound[k].capture # Nobody
           /\ Refuse(r, IF bound[k].print = print THEN "not found" ELSE "conflict")
           /\ UNCHANGED storeVars /\ UNCHANGED spent
  <2>1. CASE bound[k].print = print
    BY <1>0, <1>2, <2>1, RefuseStep DEF storeVars
  <2>2. CASE bound[k].print # print
    <3>1. Reply(r, "conflict", Nobody, FALSE) /\ Honest(r, "conflict", Nobody, FALSE)
      BY <1>2, <2>2 DEF Refuse, Honest, Fingerprint
    <3>2. /\ UNCHANGED <<bound, state, received>> /\ "conflict" \in Codes
          /\ spent' \in [faults : Nat, changes : Nat, restarts : Nat, crashes : Nat]
      BY <1>0, <1>2 DEF storeVars, Codes, TypeOK
    <3>. QED  BY <1>0, <1>2, <3>1, <3>2, AnswerStep
  <2>. QED  BY <2>1, <2>2
<1>3. CASE /\ k \in Keys => bound[k].capture = Nobody
           /\ bound' = IF k = NoKey THEN bound
                       ELSE [bound EXCEPT ![k] = [print |-> print, capture |-> r]]
           /\ state' = [state EXCEPT ![r] = "receiving"]
           /\ request' = [request EXCEPT ![r].phase = "files", ![r].capture = r]
           /\ UNCHANGED <<answer, holder, received, spent>>
  <2>1. /\ \A q \in Requests \ {r} : request'[q] = request[q] /\ state'[q] = state[q]
        /\ request'[r] = [request[r] EXCEPT !.phase = "files", !.capture = r]
        /\ request'[r].key = k /\ request'[r].content = request[r].content
        /\ request'[r].phase = "files" /\ request'[r].capture = r
        /\ request'[r].file = 1 /\ request'[r].duplicate = request[r].duplicate
        /\ state'[r] = "receiving" /\ state[r] = "absent" /\ received[r] = {}
        /\ answer[r].code = "none"
    BY <1>0, <1>3 DEF TypeOK, Made, Receiving, Answered
  <2>2. /\ k \in Keys => bound' = [bound EXCEPT ![k] = [print |-> print, capture |-> r]]
        /\ k \notin Keys => bound' = bound
    BY <1>0, <1>3, Typed
  <2>3. TypeOK'
    <3>1. request' \in [Requests -> Asked]
      <4>1. request \in [Requests -> Asked]
        BY <1>0, RequestTyped
      <4>2. [request[r] EXCEPT !.phase = "files", !.capture = r] \in Asked
        BY <4>1, "files" \in Phases DEF Asked, Phases
      <4>3. request' = [request EXCEPT ![r] = request'[r]]
        BY <1>3, <4>1
      <4>. QED  BY <2>1, <4>1, <4>2, <4>3
    <3>2. bound' \in [Keys -> [print : Contents, capture : Requests \cup {Nobody}]]
      BY <1>0, <2>2 DEF TypeOK, Fingerprint
    <3>3. state' \in [Requests -> {"absent", "receiving", "committed"}]
      BY <1>0, <1>3 DEF TypeOK
    <3>. QED  BY <1>0, <1>3, <3>1, <3>2, <3>3 DEF TypeOK, Asked
  <2>4. /\ \A q \in Requests : /\ request'[q].key = request[q].key
                               /\ request'[q].content = request[q].content
                               /\ state[q] # "absent" => state'[q] = state[q]
                               /\ answer'[q] = answer[q] /\ received'[q] = received[q]
                               /\ q # r => request'[q] = request[q] /\ state'[q] = state[q]
        /\ request[r].key = k
    BY <1>3, <2>1
  <2>5. /\ \A j \in Keys : j # k => bound'[j] = bound[j]
        /\ k \in Keys => /\ bound'[k].capture = r /\ bound'[k].print = print
                         /\ bound[k].capture = Nobody
    BY <1>0, <1>3, <2>2 DEF TypeOK
  <2>6. Made'
    <3>. SUFFICES ASSUME NEW c \in Requests
                  PROVE  /\ state'[c] # "absent" => request'[c].phase \in {"files", "body", "done"}
                         /\ state'[c] = "absent" => received'[c] = {}
                         /\ received'[c] \subseteq 1..request'[c].content.files
                         /\ state'[c] = "committed" =>
                               received'[c] = 1..request'[c].content.files
      BY DEF Made
    <3>1. CASE c = r
      BY <1>0, <2>1, <2>4, <3>1
    <3>2. CASE c # r
      BY <1>0, <2>4, <3>2 DEF Made
    <3>. QED  BY <3>1, <3>2
  <2>7. BoundToMade'
    <3>. SUFFICES ASSUME NEW j \in Keys, NEW c \in Requests
                  PROVE  bound'[j].capture = c <=> state'[c] # "absent" /\ request'[c].key = j
      BY DEF BoundToMade
    <3>1. CASE j = k
      BY <1>0, <2>1, <2>4, <2>5, <3>1, Typed DEF BoundToMade
    <3>2. CASE j # k
      BY <1>0, <2>1, <2>4, <2>5, <3>2 DEF BoundToMade
    <3>. QED  BY <3>1, <3>2
  <2>8. PrintOfMade'
    <3>. SUFFICES ASSUME NEW j \in Keys, NEW c \in Requests, bound'[j].capture = c
                  PROVE  bound'[j].print = request'[c].content
      BY DEF PrintOfMade
    <3>1. CASE j = k
      BY <2>4, <2>5, <3>1 DEF Fingerprint
    <3>2. CASE j # k
      BY <1>0, <2>4, <2>5, <3>2 DEF PrintOfMade
    <3>. QED  BY <3>1, <3>2
  <2>9. Receiving'
    <3>1. \A i \in 1..MaxFiles : ~(i < 1)
      BY Typed
    <3>. SUFFICES ASSUME NEW q \in Requests
                  PROVE  /\ request'[q].phase \in {"new", "queued", "notebooks"} =>
                               request'[q].file = 1
                         /\ request'[q].phase \in {"files", "body"} =>
                               /\ SameContent(q, request[q].capture, request[q].duplicate)'
                               /\ \A i \in 1..MaxFiles :
                                     i < request'[q].file => i \in received'[request'[q].capture]
                               /\ request'[q].phase = "body" =>
                                     request'[q].file <= request'[q].content.files
      BY DEF Receiving
    <3>4. CASE q = r
      BY <2>1, <2>4, <3>1, <3>4 DEF SameContent
    <3>5. CASE q # r
      <4>1. request'[q] = request[q] /\ UNCHANGED received
        BY <1>3, <2>4, <3>5
      <4>2. CASE request[q].phase \in {"files", "body"}
        <5>1. SameContent(q, request[q].capture, request[q].duplicate)
          BY <1>0, <4>2 DEF Receiving
        <5>2. SameContent(q, request[q].capture, request[q].duplicate)'
          BY <2>4, <4>1, <5>1 DEF SameContent
        <5>. QED  BY <1>0, <4>1, <4>2, <5>2 DEF Receiving
      <4>3. CASE request[q].phase \notin {"files", "body"}
        BY <1>0, <4>1, <4>3 DEF Receiving
      <4>. QED  BY <4>2, <4>3
    <3>. QED  BY <3>4, <3>5
  <2>10. Answered'
    <3>1. ASSUME NEW q \in Requests, NEW c, NEW d, SameContent(q, c, d), state[c] = "committed"
          PROVE  SameContent(q, c, d)' /\ state'[c] = "committed"
      BY <2>4, <3>1 DEF SameContent
    <3>2. ASSUME NEW q \in Requests, answer[q].code = "conflict"
          PROVE  /\ request'[q].key \in Keys
                 /\ bound'[request'[q].key].capture # Nobody
                 /\ bound'[request'[q].key].print # request'[q].content
      BY <1>0, <2>4, <2>5, <3>2 DEF Answered
    <3>3. \A q \in Requests : answer'[q].code # "none" => q # r
      BY <2>1, <2>4
    <3>. QED  BY <1>0, <2>4, <3>1, <3>2, <3>3 DEF Answered
  <2>. QED
    BY <1>0, <1>3, <2>3, <2>6, <2>7, <2>8, <2>9, <2>10 DEF SubmissionInv, OneApp
<1>. QED
  BY <1>1, <1>2, <1>3 DEF Selected, Insert

(* The next attachment: it is received already, or its body is read.       *)
LEMMA BeginFileStep ==
    ASSUME SubmissionInv, NEW r \in Requests, BeginFile(r) PROVE SubmissionInv'
<1>. DEFINE c == request[r].capture
            i == request[r].file
<1>0. /\ TypeOK /\ Receiving /\ OneApp
      /\ request[r].phase = "files" /\ i <= request[r].content.files
      /\ UNCHANGED <<app, default, bound, state, received, spent>>
  BY DEF SubmissionInv, BeginFile, storeVars
<1>1. CASE Refuse(r, "invalid state")
  BY <1>0, <1>1, RefuseStep
<1>2. CASE /\ request' = IF i \in received[c] THEN [request EXCEPT ![r].file = i + 1]
                        ELSE [request EXCEPT ![r].phase = "body"]
           /\ UNCHANGED <<answer, holder>>
  <2>1. /\ SameContent(r, c, request[r].duplicate)
        /\ \A j \in 1..MaxFiles : j < i => j \in received[c]
    BY <1>0 DEF Receiving
  <2>2. /\ request[r].content.files \in 0..MaxFiles /\ i \in 1..(MaxFiles + 1)
        /\ request \in [Requests -> Asked]
    BY <1>0, Typed, RequestTyped DEF TypeOK
  <2>3. CASE i \in received[c]
    <3>1. request' = [request EXCEPT ![r].file = i + 1]
      BY <1>2, <2>3
    <3>2. i + 1 \in 1..(MaxFiles + 1)
      BY <1>0, <2>2, Typed
    <3>3. TypeOK'
      <4>1. request' \in [Requests -> Asked]
        BY <2>2, <3>1, <3>2 DEF Asked
      <4>. QED  BY <1>0, <1>2, <4>1 DEF TypeOK, Asked
    <3>4. /\ \A q \in Requests \ {r} : request'[q] = request[q]
          /\ request'[r].key = request[r].key /\ request'[r].content = request[r].content
          /\ request'[r].phase = "files" /\ request'[r].file = i + 1
          /\ request'[r].capture = c /\ request'[r].duplicate = request[r].duplicate
      BY <1>0, <2>2, <3>1 DEF Asked
    <3>5. \A j \in 1..MaxFiles : j < i + 1 => j \in received[c]
      BY <2>1, <2>2, <2>3, Typed
    <3>6. Made' /\ BoundToMade' /\ PrintOfMade' /\ Receiving' /\ Answered'
      BY <1>0, <1>2, <2>1, <3>4, <3>5, MoveKeeps
    <3>. QED  BY <1>0, <3>3, <3>6 DEF SubmissionInv, OneApp
  <2>4. CASE i \notin received[c]
    <3>1. request' = [request EXCEPT ![r].phase = "body"]
      BY <1>2, <2>4
    <3>2. TypeOK'
      <4>1. request' \in [Requests -> Asked]
        BY <2>2, <3>1, "body" \in Phases DEF Asked, Phases
      <4>. QED  BY <1>0, <1>2, <4>1 DEF TypeOK, Asked
    <3>3. /\ \A q \in Requests \ {r} : request'[q] = request[q]
          /\ request'[r].key = request[r].key /\ request'[r].content = request[r].content
          /\ request'[r].phase = "body" /\ request'[r].file = i
          /\ request'[r].capture = c /\ request'[r].duplicate = request[r].duplicate
      BY <1>0, <2>2, <3>1 DEF Asked
    <3>4. Made' /\ BoundToMade' /\ PrintOfMade' /\ Receiving' /\ Answered'
      BY <1>0, <1>2, <2>1, <3>3, MoveKeeps
    <3>. QED  BY <1>0, <3>2, <3>4 DEF SubmissionInv, OneApp
  <2>. QED  BY <2>3, <2>4
<1>. QED  BY <1>1, <1>2 DEF BeginFile

(* An attachment is received.                                              *)
LEMMA FinishFileStep ==
    ASSUME SubmissionInv, NEW r \in Requests, FinishFile(r) PROVE SubmissionInv'
<1>. DEFINE c == request[r].capture
            i == request[r].file
<1>0. /\ TypeOK /\ Made /\ BoundToMade /\ PrintOfMade /\ Receiving /\ Answered /\ OneApp
      /\ request[r].phase = "body"
      /\ UNCHANGED <<app, default, bound, state>>
  BY DEF SubmissionInv, FinishFile
<1>1. CASE Refuse(r, "error") /\ UNCHANGED received /\ (UNCHANGED spent \/ Spend("faults"))
  BY <1>0, <1>1, RefuseStep
<1>2. CASE /\ i \notin received[c]
           /\ received' = [received EXCEPT ![c] = @ \cup {i}]
           /\ request' = [request EXCEPT ![r].phase = "files", ![r].file = i + 1]
           /\ UNCHANGED <<answer, holder, spent>>
  <2>1. /\ SameContent(r, c, request[r].duplicate)
        /\ \A j \in 1..MaxFiles : j < i => j \in received[c]
        /\ i <= request[r].content.files
    BY <1>0 DEF Receiving
  <2>2. /\ request[r].content.files \in 0..MaxFiles /\ i \in 1..(MaxFiles + 1)
        /\ request \in [Requests -> Asked] /\ c \in Requests /\ MaxFiles \in Nat
        /\ request[c].content = request[r].content /\ state[c] # "absent"
    BY <1>0, <2>1, Typed, RequestTyped DEF TypeOK, SameContent
  <2>3. i \in 1..MaxFiles /\ i \in 1..request[c].content.files /\ i + 1 \in 1..(MaxFiles + 1)
    BY <2>1, <2>2
  <2>4. TypeOK'
    <3>1. request' \in [Requests -> Asked]
      BY <1>2, <2>2, <2>3, "files" \in Phases DEF Asked, Phases
    <3>2. received' \in [Requests -> SUBSET (1..MaxFiles)]
      BY <1>0, <1>2, <2>2, <2>3 DEF TypeOK
    <3>. QED  BY <1>0, <1>2, <3>1, <3>2 DEF TypeOK, Asked
  <2>5. /\ \A q \in Requests \ {r} : request'[q] = request[q]
        /\ request'[r].key = request[r].key /\ request'[r].content = request[r].content
        /\ request'[r].phase = "files" /\ request'[r].file = i + 1
        /\ request'[r].capture = c /\ request'[r].duplicate = request[r].duplicate
    BY <1>2, <2>2 DEF Asked
  <2>6. /\ \A d \in Requests \ {c} : received'[d] = received[d]
        /\ received'[c] = received[c] \cup {i}
    BY <1>0, <1>2, <2>2 DEF TypeOK
  <2>7. \A q \in Requests : /\ request'[q].key = request[q].key
                            /\ request'[q].content = request[q].content
                            /\ received[q] \subseteq received'[q]
    BY <2>5, <2>6
  <2>8. Made'
    <3>. SUFFICES ASSUME NEW d \in Requests
                  PROVE  /\ state'[d] # "absent" => request'[d].phase \in {"files", "body", "done"}
                         /\ state'[d] = "absent" => received'[d] = {}
                         /\ received'[d] \subseteq 1..request'[d].content.files
                         /\ state'[d] = "committed" =>
                               received'[d] = 1..request'[d].content.files
      BY DEF Made
    <3>1. state'[d] # "absent" => request'[d].phase \in {"files", "body", "done"}
      BY <1>0, <2>5 DEF Made
    <3>2. CASE d = c
      BY <1>0, <1>2, <2>2, <2>3, <2>6, <2>7, <3>1, <3>2 DEF Made
    <3>3. CASE d # c
      BY <1>0, <2>6, <2>7, <3>1, <3>3 DEF Made
    <3>. QED  BY <3>2, <3>3
  <2>9. BoundToMade' /\ PrintOfMade'
    BY <1>0, <2>7 DEF BoundToMade, PrintOfMade
  <2>10. Receiving'
    <3>. SUFFICES ASSUME NEW q \in Requests
                  PROVE  /\ request'[q].phase \in {"new", "queued", "notebooks"} =>
                               request'[q].file = 1
                         /\ request'[q].phase \in {"files", "body"} =>
                               /\ SameContent(q, request[q].capture, request[q].duplicate)'
                               /\ \A j \in 1..MaxFiles :
                                     j < request'[q].file => j \in received'[request'[q].capture]
                               /\ request'[q].phase = "body" =>
                                     request'[q].file <= request'[q].content.files
      BY DEF Receiving
    <3>1. CASE q = r
      <4>1. SameContent(q, request[q].capture, request[q].duplicate)'
        BY <1>0, <2>1, <2>5, <2>7, <3>1 DEF SameContent
      <4>2. \A j \in 1..MaxFiles : j < i + 1 => j \in received'[c]
        BY <2>1, <2>2, <2>6
      <4>. QED  BY <2>5, <3>1, <4>1, <4>2
    <3>2. CASE q # r
      <4>1. request'[q] = request[q]
        BY <2>5, <3>2
      <4>2. CASE request[q].phase \in {"files", "body"}
        <5>1. /\ SameContent(q, request[q].capture, request[q].duplicate)
              /\ \A j \in 1..MaxFiles :
                    j < request[q].file => j \in received[request[q].capture]
              /\ request[q].phase = "body" => request[q].file <= request[q].content.files
          BY <1>0, <4>2 DEF Receiving
        <5>2. SameContent(q, request[q].capture, request[q].duplicate)'
          BY <1>0, <2>7, <4>1, <5>1 DEF SameContent
        <5>3. received[request[q].capture] \subseteq received'[request[q].capture]
          BY <2>7, <5>1 DEF SameContent
        <5>. QED  BY <4>1, <4>2, <5>1, <5>2, <5>3
      <4>3. CASE request[q].phase \notin {"files", "body"}
        BY <1>0, <4>1, <4>3 DEF Receiving
      <4>. QED  BY <4>2, <4>3
    <3>. QED  BY <3>1, <3>2
  <2>11. Answered'
    <3>1. answer[r].code = "none"
      BY <1>0 DEF Answered
    <3>. SUFFICES ASSUME NEW q \in Requests
                  PROVE  /\ answer'[q].code # "none" => request'[q].phase = "done"
                         /\ answer'[q].code = "accepted" =>
                               /\ SameContent(q, answer[q].capture, answer[q].duplicate)'
                               /\ state'[answer'[q].capture] = "committed"
                         /\ answer'[q].code = "conflict" =>
                               /\ request'[q].key \in Keys
                               /\ bound'[request'[q].key].capture # Nobody
                               /\ bound'[request'[q].key].print # request'[q].content
      BY DEF Answered
    <3>2. answer' = answer /\ UNCHANGED <<bound, state>>
      BY <1>0, <1>2
    <3>3. answer'[q].code # "none" => request'[q].phase = "done"
      BY <1>0, <2>5, <3>1, <3>2 DEF Answered
    <3>4. ASSUME answer[q].code = "accepted"
          PROVE  /\ SameContent(q, answer[q].capture, answer[q].duplicate)'
                 /\ state'[answer'[q].capture] = "committed"
      BY <1>0, <2>7, <3>2, <3>4 DEF Answered, SameContent
    <3>5. ASSUME answer[q].code = "conflict"
          PROVE  /\ request'[q].key \in Keys
                 /\ bound'[request'[q].key].capture # Nobody
                 /\ bound'[request'[q].key].print # request'[q].content
      BY <1>0, <2>7, <3>2, <3>5 DEF Answered
    <3>. QED  BY <3>2, <3>3, <3>4, <3>5
  <2>. QED  BY <1>0, <1>2, <2>4, <2>8, <2>9, <2>10, <2>11 DEF SubmissionInv, OneApp
<1>. QED  BY <1>1, <1>2 DEF FinishFile

(* The capture is committed, and the answer says so.                       *)
LEMMA CommitStep ==
    ASSUME SubmissionInv, NEW r \in Requests, Commit(r) PROVE SubmissionInv'
<1>. DEFINE c == request[r].capture
            d == request[r].duplicate
<1>0. /\ TypeOK /\ Made /\ BoundToMade /\ PrintOfMade /\ Receiving /\ Answered /\ OneApp
      /\ request[r].phase = "files" /\ request[r].file > request[r].content.files
      /\ state' = [state EXCEPT ![c] = "committed"]
      /\ Reply(r, "accepted", c, d)
      /\ UNCHANGED <<app, default, bound, received, spent>>
  BY DEF SubmissionInv, Commit
<1>1. SameContent(r, c, d) /\ \A j \in 1..MaxFiles : j < request[r].file => j \in received[c]
  BY <1>0 DEF Receiving
<1>2. /\ c \in Requests /\ d \in BOOLEAN /\ "accepted" \in Codes
      /\ request[c].content = request[r].content /\ state[c] # "absent"
      /\ request[r].content.files \in 0..MaxFiles /\ MaxFiles \in Nat
      /\ request[r].file \in 1..(MaxFiles + 1)
  BY <1>0, <1>1, Typed DEF SameContent, TypeOK, Codes
<1>3. received[c] = 1..request[c].content.files
  <2>1. received[c] \subseteq 1..request[c].content.files
    BY <1>0, <1>2 DEF Made
  <2>2. \A j \in 1..request[c].content.files : j \in 1..MaxFiles /\ j < request[r].file
    BY <1>0, <1>2
  <2>. QED  BY <1>1, <2>1, <2>2
<1>4. /\ request' \in [Requests -> Asked]
      /\ answer' \in [Requests -> [code : Codes, capture : Requests \cup {Nobody},
                                   duplicate : BOOLEAN]]
      /\ holder' \in [Apps -> Requests \cup {Nobody}]
      /\ \A q \in Requests \ {r} : request'[q] = request[q] /\ answer'[q] = answer[q]
      /\ request'[r].phase = "done"
      /\ \A q \in Requests : /\ request'[q].key = request[q].key
                             /\ request'[q].content = request[q].content
      /\ answer'[r] = [code |-> "accepted", capture |-> c, duplicate |-> d]
  BY <1>0, <1>2, ReplyFrame
<1>5. /\ state' \in [Requests -> {"absent", "receiving", "committed"}]
      /\ \A q \in Requests \ {c} : state'[q] = state[q]
      /\ state'[c] = "committed"
      /\ \A q \in Requests : state'[q] # "absent" <=> state[q] # "absent"
  BY <1>0, <1>2 DEF TypeOK
<1>6. TypeOK'
  BY <1>0, <1>4, <1>5 DEF TypeOK, Asked
<1>7. Made'
  <2>. SUFFICES ASSUME NEW q \in Requests
                PROVE  /\ state'[q] # "absent" => request'[q].phase \in {"files", "body", "done"}
                       /\ state'[q] = "absent" => received'[q] = {}
                       /\ received'[q] \subseteq 1..request'[q].content.files
                       /\ state'[q] = "committed" =>
                             received'[q] = 1..request'[q].content.files
    BY DEF Made
  <2>1. state'[q] # "absent" => request'[q].phase \in {"files", "body", "done"}
    BY <1>0, <1>4, <1>5 DEF Made
  <2>2. CASE q = c
    BY <1>0, <1>2, <1>3, <1>4, <1>5, <2>1, <2>2
  <2>3. CASE q # c
    BY <1>0, <1>4, <1>5, <2>1, <2>3 DEF Made
  <2>. QED  BY <2>2, <2>3
<1>8. BoundToMade' /\ PrintOfMade'
  BY <1>0, <1>4, <1>5 DEF BoundToMade, PrintOfMade
<1>9. Receiving'
  BY <1>0, <1>4, <1>5 DEF Receiving, SameContent
<1>10. Answered'
  <2>. SUFFICES ASSUME NEW q \in Requests
                PROVE  /\ answer'[q].code # "none" => request'[q].phase = "done"
                       /\ answer'[q].code = "accepted" =>
                             /\ SameContent(q, answer[q].capture, answer[q].duplicate)'
                             /\ state'[answer'[q].capture] = "committed"
                       /\ answer'[q].code = "conflict" =>
                             /\ request'[q].key \in Keys
                             /\ bound'[request'[q].key].capture # Nobody
                             /\ bound'[request'[q].key].print # request'[q].content
    BY DEF Answered
  <2>1. CASE q = r
    BY <1>1, <1>2, <1>4, <1>5, <2>1 DEF SameContent
  <2>2. CASE q # r
    BY <1>0, <1>4, <1>5, <2>2 DEF Answered, SameContent
  <2>. QED  BY <2>1, <2>2
<1>. QED  BY <1>0, <1>6, <1>7, <1>8, <1>9, <1>10 DEF SubmissionInv, OneApp

(* Steps of the user and of the process that hosts the service.            *)
LEMMA AroundStep ==
    ASSUME SubmissionInv, ChangeDefault \/ ServiceRestart \/ Crash PROVE SubmissionInv'
<1>0. TypeOK /\ OneApp /\ Made /\ BoundToMade /\ PrintOfMade /\ Receiving /\ Answered
  BY DEF SubmissionInv
<1>1. CASE ChangeDefault
  <2>1. /\ spent' \in [faults : Nat, changes : Nat, restarts : Nat, crashes : Nat]
        /\ spent'.restarts = spent.restarts /\ spent'.crashes = spent.crashes
        /\ default' \in Notebooks
        /\ UNCHANGED <<request, answer, holder, app, bound, state, received>>
    BY <1>0, <1>1, SpendTyped DEF ChangeDefault, storeVars
  <2>2. TypeOK' /\ OneApp'
    BY <1>0, <2>1 DEF TypeOK, OneApp
  <2>3. Made' /\ BoundToMade' /\ PrintOfMade' /\ Receiving' /\ Answered'
    BY <1>0, <2>1 DEF Made, BoundToMade, PrintOfMade, Receiving, Answered, SameContent
  <2>. QED  BY <2>2, <2>3 DEF SubmissionInv
<1>2. ASSUME NEW budget \in {"restarts", "crashes"}, Spend(budget), app' = app + 1
      PROVE  /\ spent' \in [faults : Nat, changes : Nat, restarts : Nat, crashes : Nat]
             /\ OneApp' /\ app' \in Apps
  <2>1. /\ spent' \in [faults : Nat, changes : Nat, restarts : Nat, crashes : Nat]
        /\ spent'.restarts + spent'.crashes = spent.restarts + spent.crashes + 1
        /\ spent.restarts + spent.crashes < MaxTroubles
    BY <1>0, <1>2, SpendTyped
  <2>2. spent.restarts \in Nat /\ spent.crashes \in Nat /\ MaxTroubles \in Nat
    BY <1>0, Typed DEF TypeOK
  <2>3. spent'.restarts \in Nat /\ spent'.crashes \in Nat
    BY <2>1
  <2>4. app = 1 + spent.restarts + spent.crashes
    BY <1>0 DEF OneApp
  <2>5. OneApp'
    BY <1>2, <2>1, <2>2, <2>3, <2>4 DEF OneApp
  <2>6. app' \in Apps
    BY <1>2, <2>1, <2>2, <2>4 DEF Apps
  <2>. QED  BY <2>1, <2>5, <2>6
<1>3. CASE ServiceRestart
  <2>1. /\ spent' \in [faults : Nat, changes : Nat, restarts : Nat, crashes : Nat]
        /\ OneApp' /\ app' \in Apps
        /\ UNCHANGED <<request, answer, holder, default, bound, state, received>>
    BY <1>2, <1>3 DEF ServiceRestart, storeVars
  <2>2. TypeOK'
    BY <1>0, <2>1 DEF TypeOK
  <2>3. Made' /\ BoundToMade' /\ PrintOfMade' /\ Receiving' /\ Answered'
    BY <1>0, <2>1 DEF Made, BoundToMade, PrintOfMade, Receiving, Answered, SameContent
  <2>. QED  BY <2>1, <2>2, <2>3 DEF SubmissionInv
<1>4. CASE Crash
  <2>1. /\ spent' \in [faults : Nat, changes : Nat, restarts : Nat, crashes : Nat]
        /\ OneApp' /\ app' \in Apps
        /\ UNCHANGED <<answer, holder, default, bound, state, received>>
        /\ request' = [r \in Requests |-> IF request[r].phase = "new" THEN request[r]
                                          ELSE [request[r] EXCEPT !.phase = "done"]]
    BY <1>2, <1>4 DEF Crash, storeVars
  <2>2. request' \in [Requests -> Asked]
    <3>1. \A r \in Requests : request[r] \in Asked
      BY <1>0, RequestTyped
    <3>2. \A r \in Requests : [request[r] EXCEPT !.phase = "done"] \in Asked
      BY <3>1, "done" \in Phases DEF Asked, Phases
    <3>. QED  BY <2>1, <3>1, <3>2
  <2>3. TypeOK'
    BY <1>0, <2>1, <2>2 DEF TypeOK, Asked
  <2>4. \A r \in Requests :
          /\ request'[r].key = request[r].key /\ request'[r].content = request[r].content
          /\ request'[r].file = request[r].file
          /\ \/ request[r].phase = "new" /\ request'[r] = request[r]
             \/ request[r].phase # "new" /\ request'[r].phase = "done"
    <3>1. request \in [Requests -> Asked]
      BY <1>0, RequestTyped
    <3>. QED  BY <2>1, <3>1 DEF Asked
  <2>5. Made' /\ BoundToMade' /\ PrintOfMade'
    BY <1>0, <2>1, <2>4 DEF Made, BoundToMade, PrintOfMade
  <2>6. Receiving'
    BY <1>0, <2>1, <2>4 DEF Receiving, SameContent
  <2>7. Answered'
    BY <1>0, <2>1, <2>4 DEF Answered, SameContent
  <2>. QED  BY <2>1, <2>3, <2>5, <2>6, <2>7 DEF SubmissionInv
<1>. QED  BY <1>1, <1>3, <1>4

LEMMA SubmissionStep == ASSUME SubmissionInv, [Next]_vars PROVE SubmissionInv'
<1>1. CASE Next
  BY <1>1, ArriveStep, EnterStep, SelectedStep, BeginFileStep, FinishFileStep, CommitStep,
     AroundStep DEF Next
<1>2. CASE UNCHANGED vars
  <2>1. TypeOK' /\ OneApp'
    BY <1>2 DEF SubmissionInv, TypeOK, OneApp, vars
  <2>2. Made' /\ BoundToMade' /\ PrintOfMade' /\ Receiving' /\ Answered'
    BY <1>2 DEF SubmissionInv, Made, BoundToMade, PrintOfMade, Receiving, Answered,
                SameContent, vars
  <2>. QED  BY <2>1, <2>2 DEF SubmissionInv
<1>. QED  BY <1>1, <1>2

(* What the table, the keys and the handlers agree on: a key is bound to   *)
(* the one capture made with it, whose content is the one of every request *)
(* that works on it, and an answer stays true.                             *)
THEOREM SubmissionInvariant == Spec => []SubmissionInv
<1>. QED  BY SubmissionInitial, SubmissionStep, PTL DEF Spec

(* The types of ManualSubmission hold for every number of requests.        *)
THEOREM SubmissionTyped == Spec => []TypeOK
<1>1. SubmissionInv => TypeOK
  BY DEF SubmissionInv
<1>. QED  BY <1>1, SubmissionInvariant, PTL

(* A submission that is answered as accepted is a committed capture with   *)
(* every attachment and the same content, also when other requests, a      *)
(* restarted service or a crash came between.                              *)
THEOREM AcceptedComplete == Spec => []AcceptedIsCommitted
<1>1. SubmissionInv => AcceptedIsCommitted
  BY DEF SubmissionInv, Answered, Made, SameContent, Accepted, AcceptedIsCommitted
<1>. QED  BY <1>1, SubmissionInvariant, PTL

(* A key makes one capture and is accepted once as new.                    *)
THEOREM OneCapture == Spec => []OneCapturePerKey
<1>1. SubmissionInv => OneCapturePerKey
  <2>. SUFFICES ASSUME SubmissionInv, NEW k \in Keys
                PROVE  /\ \A c, d \in Requests :
                              /\ state[c] # "absent" /\ request[c].key = k
                              /\ state[d] # "absent" /\ request[d].key = k
                              => c = d
                       /\ \A q, r \in Accepted :
                              /\ request[q].key = k /\ ~answer[q].duplicate
                              /\ request[r].key = k /\ ~answer[r].duplicate
                              => q = r
    BY DEF OneCapturePerKey
  <2>1. \A c, d \in Requests :
            /\ state[c] # "absent" /\ request[c].key = k
            /\ state[d] # "absent" /\ request[d].key = k
            => c = d
    BY DEF SubmissionInv, BoundToMade
  <2>2. \A q \in Accepted : ~answer[q].duplicate => state[q] # "absent" /\ q \in Requests
    BY DEF SubmissionInv, Answered, SameContent, Accepted
  <2>. QED  BY <2>1, <2>2
<1>. QED  BY <1>1, SubmissionInvariant, PTL

(* A conflict is told only to a request whose content differs from that    *)
(* of the capture its key is bound to.                                     *)
THEOREM RealConflict == Spec => []ConflictIsReal
<1>1. SubmissionInv => ConflictIsReal
  <2>. SUFFICES ASSUME SubmissionInv, NEW r \in Requests, answer[r].code = "conflict"
                PROVE  /\ bound[request[r].key].capture # Nobody
                       /\ request[bound[request[r].key].capture].content # request[r].content
    BY DEF ConflictIsReal
  <2>1. /\ request[r].key \in Keys /\ bound[request[r].key].capture # Nobody
        /\ bound[request[r].key].print # request[r].content
    BY DEF SubmissionInv, Answered
  <2>2. bound[request[r].key].capture \in Requests
    BY <2>1 DEF SubmissionInv, TypeOK
  <2>. QED  BY <2>1, <2>2 DEF SubmissionInv, PrintOfMade
<1>. QED  BY <1>1, SubmissionInvariant, PTL
-----------------------------------------------------------------------------
(* manual_submission_lock: as long as one service serves all requests, the *)
(* one that is inside finds the store as it left it - its key unbound      *)
(* until it inserts, its capture receiving until it commits.               *)
Inside == {"notebooks", "files", "body"}

Turn(r) ==
    /\ request[r].phase \in Inside \cup {"queued"} => request[r].app = app
    /\ request[r].phase \in Inside => holder[app] = r
    /\ request[r].phase = "notebooks" /\ request[r].key \in Keys =>
          bound[request[r].key].capture = Nobody
    /\ request[r].phase \in {"files", "body"} => state[request[r].capture] = "receiving"
    /\ answer[r].code \notin {"not found", "invalid state"}

(* The capture that a request works on, or was answered with, is the one   *)
(* of its key: this needs no lock.                                         *)
Own(r) ==
    request[r].key \in Keys =>
        /\ request[r].phase \in {"files", "body"} =>
              bound[request[r].key].capture = request[r].capture
        /\ answer[r].code = "accepted" => bound[request[r].key].capture = answer[r].capture

LockInv == \A r \in Requests : Own(r) /\ (spent.restarts = 0 => Turn(r))

LEMMA LockInitial == ASSUME Init PROVE LockInv
<1>1. \A r \in Requests : request[r] = Unsent /\ answer[r] = Unanswered
  BY DEF Init
<1>2. Unsent.phase = "new" /\ Unsent.key \notin Keys /\ Unanswered.code = "none"
  BY Typed DEF Unsent, Unanswered
<1>. QED  BY <1>1, <1>2 DEF LockInv, Own, Turn, Inside

(* The lock lets in one.                                                   *)
Entering(r) == request[r].phase = "queued" /\ Free(request[r].app)

LEMMA Alone ==
    ASSUME SubmissionInv, LockInv, spent.restarts = 0, NEW r \in Requests,
           request[r].phase \in Inside \/ Entering(r)
    PROVE  \A q \in Requests \ {r} : request[q].phase \notin Inside
<1>. SUFFICES ASSUME NEW q \in Requests, request[q].phase \in Inside PROVE q = r
  OBVIOUS
<1>1. holder[app] = q
  BY DEF LockInv, Turn
<1>2. CASE request[r].phase \in Inside
  BY <1>1, <1>2 DEF LockInv, Turn
<1>3. CASE Entering(r)
  BY <1>1, <1>3, Typed DEF LockInv, Turn, Entering, Free
<1>. QED  BY <1>2, <1>3

(* A step of r, which alone is inside.                                     *)
LEMMA HandlerLock ==
    ASSUME SubmissionInv, LockInv, NEW r \in Requests,
           request[r].phase \in Inside \/ Entering(r),
           app' = app, spent'.restarts = spent.restarts,
           \A q \in Requests \ {r} : request'[q] = request[q] /\ answer'[q] = answer[q],
           \A k \in Keys : bound[k].capture # Nobody =>
               bound'[k].capture = bound[k].capture,
           Own(r)', spent.restarts = 0 => Turn(r)'
    PROVE  LockInv'
<1>1. ASSUME NEW q \in Requests \ {r} PROVE Own(q)'
  <2>1. /\ request[q].phase \in {"files", "body"} => request[q].capture \in Requests
        /\ answer[q].code = "accepted" => answer[q].capture \in Requests
    BY DEF SubmissionInv, Receiving, Answered, SameContent
  <2>2. Own(q) /\ request'[q] = request[q] /\ answer'[q] = answer[q]
    BY DEF LockInv
  <2>. QED  BY <2>1, <2>2, Typed DEF Own
<1>2. ASSUME NEW q \in Requests \ {r}, spent.restarts = 0 PROVE Turn(q)'
  <2>1. request[q].phase \notin Inside
    BY <1>2, Alone
  <2>2. Turn(q) /\ request'[q] = request[q] /\ answer'[q] = answer[q]
    BY <1>2 DEF LockInv
  <2>. QED  BY <2>1, <2>2 DEF Turn, Inside
<1>. QED  BY <1>1, <1>2 DEF LockInv

(* An answer that does not contradict the key.                             *)
Due(r, code, c) ==
    /\ code = "accepted" /\ request[r].key \in Keys => bound[request[r].key].capture = c
    /\ spent.restarts = 0 => code \notin {"not found", "invalid state"}

LEMMA ReplyLock ==
    ASSUME SubmissionInv, LockInv, NEW r \in Requests,
           request[r].phase \in Inside \/ Entering(r),
           NEW code \in Codes, NEW c \in Requests \cup {Nobody}, NEW duplicate \in BOOLEAN,
           Reply(r, code, c, duplicate), UNCHANGED <<app, bound>>,
           spent'.restarts = spent.restarts, Due(r, code, c)
    PROVE  LockInv'
<1>1. /\ \A q \in Requests \ {r} : request'[q] = request[q] /\ answer'[q] = answer[q]
      /\ request'[r].phase = "done" /\ request'[r].key = request[r].key
      /\ answer'[r].code = code /\ answer'[r].capture = c
  <2>1. TypeOK
    BY DEF SubmissionInv
  <2>2. /\ \A q \in Requests \ {r} : request'[q] = request[q] /\ answer'[q] = answer[q]
        /\ request'[r].phase = "done" /\ request'[r].key = request[r].key
        /\ answer'[r] = [code |-> code, capture |-> c, duplicate |-> duplicate]
    BY <2>1, ReplyFrame
  <2>. QED  BY <2>2
<1>2. Own(r)'
  BY <1>1 DEF Own, Due
<1>3. spent.restarts = 0 => Turn(r)'
  BY <1>1 DEF Turn, Inside, Due
<1>. QED  BY <1>1, <1>2, <1>3, HandlerLock

LEMMA SameRestarts ==
    ASSUME TypeOK, UNCHANGED spent \/ Spend("faults") PROVE spent'.restarts = spent.restarts
BY SpendTyped

LEMMA ArriveLock ==
    ASSUME SubmissionInv, LockInv, NEW r \in Requests, NEW k \in Keys \cup {NoKey},
           NEW content \in Contents, Arrive(r, k, content)
    PROVE  LockInv'
<1>1. /\ request'[r].phase = "queued" /\ request'[r].app = app /\ request[r].phase = "new"
      /\ \A q \in Requests \ {r} : request'[q] = request[q]
      /\ UNCHANGED <<answer, holder, app, default, bound, state, received, spent>>
  BY DEF SubmissionInv, TypeOK, Arrive, Unsent
<1>2. answer[r].code = "none"
  BY <1>1 DEF SubmissionInv, Answered, TypeOK
<1>3. Own(r)' /\ Turn(r)'
  BY <1>1, <1>2 DEF Own, Turn, Inside
<1>4. ASSUME NEW q \in Requests \ {r} PROVE Own(q)' /\ (spent.restarts = 0 => Turn(q)')
  <2>1. request'[q] = request[q] /\ Own(q) /\ (spent.restarts = 0 => Turn(q))
    BY <1>1 DEF LockInv
  <2>2. Own(q)'
    BY <1>1, <2>1 DEF Own
  <2>3. Turn(q) => Turn(q)'
    BY <1>1, <2>1 DEF Turn
  <2>. QED  BY <2>1, <2>2, <2>3
<1>. QED  BY <1>1, <1>3, <1>4 DEF LockInv

LEMMA EnterLock ==
    ASSUME SubmissionInv, LockInv, NEW r \in Requests, Enter(r) PROVE LockInv'
<1>. DEFINE k == request[r].key
            content == request[r].content
            prior == bound[k].capture
            GoOn(phase, capture, duplicate) ==
                /\ request' = [request EXCEPT ![r].phase = phase, ![r].capture = capture,
                                              ![r].duplicate = duplicate]
                /\ holder' = [holder EXCEPT ![request[r].app] = r]
                /\ UNCHANGED answer
<1>1. /\ TypeOK /\ Entering(r) /\ request[r].phase = "queued" /\ k \in Keys \cup {NoKey}
      /\ UNCHANGED <<app, default, bound, state, received, spent>>
      /\ request[r].app \in Apps /\ answer[r].code = "none"
  BY DEF SubmissionInv, Answered, Enter, Entering, storeVars, TypeOK
<1>2. ASSUME NEW phase \in {"notebooks", "files"}, NEW c, NEW d, GoOn(phase, c, d),
             phase = "notebooks" /\ k \in Keys => bound[k].capture = Nobody,
             phase = "files" => /\ k \in Keys => bound[k].capture = c
                                /\ state[c] = "receiving"
      PROVE  LockInv'
  <2>1. /\ \A q \in Requests \ {r} : request'[q] = request[q] /\ answer'[q] = answer[q]
        /\ request'[r].phase = phase /\ request'[r].key = k /\ request'[r].capture = c
        /\ request'[r].app = request[r].app /\ holder'[request[r].app] = r
        /\ answer'[r].code = "none"
    BY <1>1, <1>2 DEF TypeOK
  <2>2. Own(r)'
    BY <1>1, <1>2, <2>1 DEF Own
  <2>3. spent.restarts = 0 => request[r].app = app
    BY <1>1 DEF LockInv, Turn
  <2>4. spent.restarts = 0 => Turn(r)'
    BY <1>1, <1>2, <2>1, <2>3 DEF Turn
  <2>. QED  BY <1>1, <2>1, <2>2, <2>4, HandlerLock
<1>3. CASE k # NoKey /\ prior # Nobody
  <2>1. k \in Keys /\ prior \in Requests
    BY <1>1, <1>3 DEF TypeOK
  <2>2. CASE Refuse(r, "conflict")
    BY <1>1, <2>2, ReplyLock DEF Due, Refuse, Codes
  <2>3. CASE state[prior] = "receiving" /\ GoOn("files", prior, TRUE)
    BY <1>2, <2>1, <2>3
  <2>4. CASE Reply(r, "accepted", prior, TRUE)
    BY <1>1, <2>1, <2>4, ReplyLock DEF Due, Codes
  <2>. QED  BY <1>3, <2>2, <2>3, <2>4 DEF Enter
<1>4. CASE ~(k # NoKey /\ prior # Nobody)
  <2>1. CASE Refuse(r, "error")
    BY <1>1, <2>1, ReplyLock DEF Due, Refuse, Codes
  <2>2. CASE GoOn("notebooks", Nobody, FALSE)
    <3>1. k \in Keys => bound[k].capture = Nobody
      BY <1>4, Typed
    <3>. QED  BY <1>2, <2>2, <3>1
  <2>. QED  BY <1>4, <2>1, <2>2 DEF Enter
<1>. QED  BY <1>3, <1>4

LEMMA SelectedLock ==
    ASSUME SubmissionInv, LockInv, NEW r \in Requests, Selected(r) PROVE LockInv'
<1>. DEFINE k == request[r].key
            print == Fingerprint(request[r].content)
<1>1. /\ TypeOK /\ request[r].phase = "notebooks" /\ request[r].phase \in Inside
      /\ k \in Keys \cup {NoKey} /\ UNCHANGED app /\ answer[r].code = "none"
  BY DEF SubmissionInv, Answered, Selected, Inside, TypeOK
<1>2. spent.restarts = 0 /\ k \in Keys => bound[k].capture = Nobody
  BY <1>1 DEF LockInv, Turn
<1>3. CASE Spend("faults") /\ Refuse(r, "error") /\ UNCHANGED storeVars
  BY <1>1, <1>3, SameRestarts, ReplyLock DEF Due, Refuse, Codes, storeVars
<1>4. CASE /\ k \in Keys /\ bound[k].capture # Nobody
           /\ Refuse(r, IF bound[k].print = print THEN "not found" ELSE "conflict")
           /\ UNCHANGED storeVars /\ UNCHANGED spent
  <2>1. spent.restarts # 0
    BY <1>2, <1>4
  <2>2. PICK code \in {"not found", "conflict"} : Reply(r, code, Nobody, FALSE)
    BY <1>4 DEF Refuse
  <2>3. code \in Codes /\ UNCHANGED bound /\ spent'.restarts = spent.restarts
    BY <1>4 DEF Codes, storeVars
  <2>. QED  BY <1>1, <2>1, <2>2, <2>3, ReplyLock DEF Due
<1>5. CASE /\ k \in Keys => bound[k].capture = Nobody
           /\ bound' = IF k = NoKey THEN bound
                       ELSE [bound EXCEPT ![k] = [print |-> print, capture |-> r]]
           /\ state' = [state EXCEPT ![r] = "receiving"]
           /\ request' = [request EXCEPT ![r].phase = "files", ![r].capture = r]
           /\ UNCHANGED <<answer, holder, received, spent>>
  <2>1. /\ \A q \in Requests \ {r} : request'[q] = request[q] /\ answer'[q] = answer[q]
        /\ request'[r].phase = "files" /\ request'[r].key = k /\ request'[r].capture = r
        /\ request'[r].app = request[r].app /\ state'[r] = "receiving"
        /\ answer'[r].code = "none" /\ UNCHANGED holder
    BY <1>1, <1>5 DEF TypeOK
  <2>2. /\ k \in Keys => bound'[k].capture = r
        /\ \A j \in Keys : j # k => bound'[j] = bound[j]
    BY <1>1, <1>5, Typed DEF TypeOK
  <2>3. Own(r)'
    BY <2>1, <2>2 DEF Own
  <2>4. spent.restarts = 0 => Turn(r)'
    BY <1>1, <2>1 DEF LockInv, Turn, Inside
  <2>5. \A j \in Keys : bound[j].capture # Nobody => bound'[j].capture = bound[j].capture
    BY <1>5, <2>2
  <2>6. spent'.restarts = spent.restarts
    BY <1>5
  <2>. QED  BY <1>1, <2>1, <2>3, <2>4, <2>5, <2>6, HandlerLock
<1>. QED  BY <1>3, <1>4, <1>5 DEF Selected, Insert

(* BeginFile and the body of FinishFile: r goes on with the same capture.  *)
LEMMA GoOnLock ==
    ASSUME SubmissionInv, LockInv, NEW r \in Requests, request[r].phase \in {"files", "body"},
           NEW phase \in {"files", "body"}, NEW i,
           request' = [request EXCEPT ![r].phase = phase, ![r].file = i],
           UNCHANGED <<answer, holder, app, bound, state, spent>>
    PROVE  LockInv'
<1>1. /\ \A q \in Requests \ {r} : request'[q] = request[q] /\ answer'[q] = answer[q]
      /\ request'[r].phase = phase /\ request'[r].key = request[r].key
      /\ request'[r].capture = request[r].capture /\ request'[r].app = request[r].app
  BY DEF SubmissionInv, TypeOK
<1>2. request[r].phase \in Inside /\ request'[r].phase \in Inside
  BY <1>1 DEF Inside
<1>3. Own(r)'
  BY <1>1 DEF LockInv, Own
<1>4. spent.restarts = 0 => Turn(r)'
  BY <1>1, <1>2 DEF LockInv, Turn
<1>. QED  BY <1>1, <1>2, <1>3, <1>4, HandlerLock

LEMMA FilesLock ==
    ASSUME SubmissionInv, LockInv, NEW r \in Requests, BeginFile(r) \/ FinishFile(r)
    PROVE  LockInv'
<1>1. TypeOK /\ request \in [Requests -> Asked]
  BY RequestTyped DEF SubmissionInv
<1>2. CASE BeginFile(r)
  <2>1. request[r].phase = "files" /\ UNCHANGED <<app, bound, state, spent>>
    BY <1>2 DEF BeginFile, storeVars
  <2>2. CASE state[request[r].capture] # "receiving" /\ Refuse(r, "invalid state")
    <3>1. spent.restarts # 0
      BY <2>1, <2>2 DEF LockInv, Turn
    <3>. QED  BY <2>1, <2>2, <3>1, ReplyLock DEF Due, Refuse, Codes, Inside
  <2>3. CASE /\ request' = IF request[r].file \in received[request[r].capture]
                             THEN [request EXCEPT ![r].file = request[r].file + 1]
                           ELSE [request EXCEPT ![r].phase = "body"]
             /\ UNCHANGED <<answer, holder>>
    <3>1. PICK phase \in {"files", "body"},
                   i \in {request[r].file, request[r].file + 1} :
              request' = [request EXCEPT ![r].phase = phase, ![r].file = i]
      <4>1. CASE request[r].file \in received[request[r].capture]
        <5>1. request' = [request EXCEPT ![r].phase = "files",
                                         ![r].file = request[r].file + 1]
          BY <1>1, <2>1, <2>3, <4>1 DEF Asked
        <5>. QED  BY <5>1
      <4>2. CASE request[r].file \notin received[request[r].capture]
        <5>1. request' = [request EXCEPT ![r].phase = "body", ![r].file = request[r].file]
          BY <1>1, <2>3, <4>2 DEF Asked
        <5>. QED  BY <5>1
      <4>. QED  BY <4>1, <4>2
    <3>. QED  BY <2>1, <2>3, <3>1, GoOnLock
  <2>. QED  BY <1>2, <2>2, <2>3 DEF BeginFile
<1>3. CASE FinishFile(r)
  <2>1. request[r].phase = "body" /\ UNCHANGED <<app, bound, state>>
    BY <1>3 DEF FinishFile
  <2>2. CASE Refuse(r, "error") /\ (UNCHANGED spent \/ Spend("faults"))
    BY <1>1, <2>1, <2>2, SameRestarts, ReplyLock DEF Due, Refuse, Codes, Inside
  <2>3. CASE /\ request' = [request EXCEPT ![r].phase = "files",
                                           ![r].file = request[r].file + 1]
             /\ UNCHANGED <<answer, holder, spent>>
    BY <2>1, <2>3, GoOnLock
  <2>. QED  BY <1>3, <2>2, <2>3 DEF FinishFile
<1>. QED  BY <1>2, <1>3

LEMMA CommitLock ==
    ASSUME SubmissionInv, LockInv, NEW r \in Requests, Commit(r) PROVE LockInv'
<1>1. /\ request[r].phase = "files" /\ UNCHANGED <<app, bound, spent>>
      /\ Reply(r, "accepted", request[r].capture, request[r].duplicate)
  BY DEF Commit
<1>2. /\ request[r].capture \in Requests \cup {Nobody} /\ request[r].duplicate \in BOOLEAN
      /\ request[r].key \in Keys => bound[request[r].key].capture = request[r].capture
      /\ "accepted" \in Codes
  BY <1>1 DEF SubmissionInv, TypeOK, LockInv, Own, Codes
<1>. QED  BY <1>1, <1>2, ReplyLock DEF Due, Inside

LEMMA AroundLock ==
    ASSUME SubmissionInv, LockInv, ChangeDefault \/ ServiceRestart \/ Crash PROVE LockInv'
<1>1. TypeOK /\ spent.restarts \in Nat
  BY DEF SubmissionInv, TypeOK
<1>2. CASE ChangeDefault
  <2>1. /\ UNCHANGED <<request, answer, holder, app, bound, state>>
        /\ spent'.restarts = spent.restarts
    BY <1>1, <1>2, SpendTyped DEF ChangeDefault, storeVars
  <2>. QED  BY <2>1 DEF LockInv, Own, Turn
<1>3. CASE ServiceRestart
  <2>1. UNCHANGED <<request, answer, bound>> /\ spent'.restarts = spent.restarts + 1
    BY <1>1, <1>3 DEF ServiceRestart, storeVars, Spend, TypeOK
  <2>2. spent'.restarts # 0
    BY <1>1, <2>1
  <2>. QED  BY <2>1, <2>2 DEF LockInv, Own
<1>4. CASE Crash
  <2>1. /\ UNCHANGED <<answer, bound>> /\ spent'.restarts = spent.restarts
        /\ request' = [r \in Requests |-> IF request[r].phase = "new" THEN request[r]
                                          ELSE [request[r] EXCEPT !.phase = "done"]]
    BY <1>1, <1>4 DEF Crash, storeVars, Spend, TypeOK
  <2>2. \A r \in Requests :
            request'[r].key = request[r].key /\ request'[r].phase \in {"new", "done"}
    BY <1>1, <2>1, RequestTyped DEF Asked
  <2>3. ASSUME NEW r \in Requests PROVE Own(r)' /\ (spent.restarts = 0 => Turn(r)')
    BY <2>1, <2>2 DEF LockInv, Own, Turn, Inside
  <2>. QED  BY <2>1, <2>3 DEF LockInv
<1>. QED  BY <1>2, <1>3, <1>4

LEMMA LockStep == ASSUME SubmissionInv, LockInv, [Next]_vars PROVE LockInv'
<1>1. CASE Next
  BY <1>1, ArriveLock, EnterLock, SelectedLock, FilesLock, CommitLock, AroundLock DEF Next
<1>2. CASE UNCHANGED vars
  BY <1>2 DEF LockInv, Own, Turn, vars
<1>. QED  BY <1>1, <1>2

(* create_app's manual_submission_lock: a key that is sent again with the  *)
(* same content is answered with the capture it was first bound to, for as *)
(* long as one service has served all requests, crashes included.          *)
THEOREM RepeatsReturnCapture == Spec => []RepeatReturnsCapture
<1>1. SubmissionInv /\ LockInv => RepeatReturnsCapture
  <2>. SUFFICES ASSUME SubmissionInv, LockInv, spent.restarts = 0, NEW r \in Repeats
                PROVE  /\ answer[r].code = "accepted"
                       /\ answer[r].capture = bound[request[r].key].capture
    BY DEF RepeatReturnsCapture
  <2>1. /\ r \in Requests /\ request[r].key \in Keys
        /\ bound[request[r].key].capture \in Requests
        /\ request[bound[request[r].key].capture].content = request[r].content
        /\ answer[r].code \in Codes \ {"none", "error"}
    BY DEF Repeats, SubmissionInv, TypeOK
  <2>2. answer[r].code \notin {"not found", "invalid state"}
    BY <2>1 DEF LockInv, Turn
  <2>3. answer[r].code # "conflict"
    BY <2>1 DEF SubmissionInv, Answered, PrintOfMade
  <2>4. answer[r].code = "accepted"
    BY <2>1, <2>2, <2>3 DEF Codes
  <2>. QED  BY <2>1, <2>4 DEF LockInv, Own
<1>2. Init => SubmissionInv /\ LockInv
  BY SubmissionInitial, LockInitial
<1>3. SubmissionInv /\ LockInv /\ [Next]_vars => SubmissionInv' /\ LockInv'
  BY SubmissionStep, LockStep
<1>. QED  BY <1>1, <1>2, <1>3, PTL DEF Spec
=============================================================================
