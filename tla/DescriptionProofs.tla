-------------------------- MODULE DescriptionProofs -------------------------
(***************************************************************************)
(* Descriptions, for any number of requests, keys and texts.               *)
(*                                                                         *)
(* The row of a key is never removed and keeps its fingerprint, whatever   *)
(* fails.  So everyone who works under the key has the text of that row,   *)
(* the module that the server adds once has it too, and an event comes     *)
(* after its module.  One request finds the key unreserved; it alone can   *)
(* be told that it created the description.                                *)
(***************************************************************************)
EXTENDS Descriptions, TLAPS

Live(r) == request[r].phase \in {"check", "update", "failing", "receipt"}

(* The key is reserved for a description of this text.                     *)
Reserved(k, text) ==
    /\ k \in Keys /\ text \in Texts
    /\ ledger[k].status # "absent"
    /\ ledger[k].print[1] = text

Underway ==
    /\ \A r \in Requests : Live(r) => Reserved(request[r].key, request[r].text)
    /\ \A r \in Requests : request[r].phase = "receipt" => modules[request[r].key] # NoText
    /\ \A r \in Requests : answer[r].code # "none" => request[r].phase = "done"

Written ==
    /\ \A k \in Keys : modules[k] # NoText => Reserved(k, modules[k])
    /\ \A m \in transit : Reserved(m[1], m[2])

Told ==
    /\ \A i \in DOMAIN feed : modules[feed[i]] # NoText
    /\ \A i, j \in DOMAIN feed : feed[i] = feed[j] => i = j
    /\ \A k \in Keys : ledger[k].status = "completed" => Announced(k)
    /\ \A r \in Acknowledged :
          /\ Reserved(request[r].key, request[r].text)
          /\ answer[r].cursor \in DOMAIN feed
          /\ feed[answer[r].cursor] = request[r].key

(* r found its key unreserved, and has created it or still may.            *)
Creates(r) == answer[r].code = "created" \/ (Live(r) /\ ~request[r].duplicate)

OneCreates ==
    \A q, r \in Requests :
        Creates(q) /\ Creates(r) /\ request[q].key = request[r].key => q = r

DescriptionInv == TypeOK /\ Underway /\ Written /\ Told /\ OneCreates
-----------------------------------------------------------------------------
(* The sets of TypeOK.                                                     *)
Rows == [print : Prints, status : {"absent", "pending", "completed"}]
Asked == [phase : Phases, key : Keys \cup {Omitted}, text : Texts \cup {NoText},
          notebook : Notebooks \cup {Omitted}, duplicate : BOOLEAN, replay : BOOLEAN]
Answers == [code : {"none", "created", "replayed", "conflict", "error"}, cursor : Nat]
Spendings == [faults : Nat, changes : Nat, crashes : Nat]

LEMMA TypeParts ==
    TypeOK <=> /\ ledger \in [Keys -> Rows]
               /\ feed \in Seq(Keys)
               /\ default \in Notebooks \cup {Omitted}
               /\ request \in [Requests -> Asked]
               /\ answer \in [Requests -> Answers]
               /\ modules \in [Keys -> Texts \cup {NoText}]
               /\ transit \subseteq Keys \X Texts
               /\ spent \in Spendings
BY DEF TypeOK, Rows, Asked, Answers, Spendings

LEMMA DescriptionInitial == ASSUME Init PROVE DescriptionInv
<1>1. TypeOK
  BY TypeParts DEF Init, NoRow, NewRequest, NoAnswer, Rows, Asked, Answers, Spendings,
                   Prints, Phases
<1>2. Underway
  BY DEF Init, Underway, Live, NewRequest, NoAnswer
<1>3. Written
  BY DEF Init, Written
<1>4. Told
  BY DEF Init, Told, Acknowledged, NoRow, NoAnswer
<1>5. OneCreates
  BY DEF Init, OneCreates, Creates, Live, NewRequest, NoAnswer
<1>. QED  BY <1>1, <1>2, <1>3, <1>4, <1>5 DEF DescriptionInv

(* An announced key has its place in the feed.                             *)
LEMMA CursorFound ==
    ASSUME NEW k, Announced(k) PROVE Cursor(k) \in DOMAIN feed /\ feed[Cursor(k)] = k
BY DEF Announced, Cursor

(* A step of one handler that has been reserved, and of the calls it makes: *)
(* a row keeps its fingerprint, a module its text.                         *)
Kept ==
    /\ \A k \in Keys : ledger[k].status # "absent" =>
          ledger'[k].status # "absent" /\ ledger'[k].print = ledger[k].print
    /\ \A k \in Keys : modules[k] # NoText => modules'[k] = modules[k]

LEMMA ReservedStays ==
    ASSUME Kept, NEW k, NEW text, Reserved(k, text) PROVE Reserved(k, text)'
BY DEF Kept, Reserved

(* An await of r's handler has ended, and no answer is given yet, or the   *)
(* request has ended with an exception that nothing records.               *)
Unrecorded(r, phase) ==
    \/ phase \in {"update", "failing", "receipt"} /\ UNCHANGED answer
    \/ phase = "done" /\ Answer(r, "error", 0)

LEMMA HandlerMoves ==
    ASSUME DescriptionInv, NEW r \in Requests, Live(r), NEW phase, Goto(r, phase),
           Unrecorded(r, phase), UNCHANGED <<ledger, feed, default>>,
           modules' \in [Keys -> Texts \cup {NoText}], transit' \subseteq Keys \X Texts,
           spent' \in Spendings, Kept, Written',
           phase = "receipt" => modules'[request[r].key] # NoText
    PROVE  DescriptionInv'
<1>0. TypeOK /\ Underway /\ Written /\ Told /\ OneCreates
  BY DEF DescriptionInv
<1>1. /\ request \in [Requests -> Asked] /\ ledger \in [Keys -> Rows]
      /\ feed \in Seq(Keys) /\ answer \in [Requests -> Answers]
      /\ default \in Notebooks \cup {Omitted}
  BY <1>0, TypeParts
<1>2. /\ request' \in [Requests -> Asked]
      /\ \A q \in Requests \ {r} : request'[q] = request[q]
      /\ request'[r].phase = phase
      /\ \A q \in Requests : /\ request'[q].key = request[q].key
                             /\ request'[q].text = request[q].text
                             /\ request'[q].duplicate = request[q].duplicate
  <2>1. phase \in Phases
    BY DEF Phases, Unrecorded
  <2>. QED  BY <1>1, <2>1 DEF Goto, Asked
<1>2a. /\ answer' \in [Requests -> Answers]
       /\ \A q \in Requests \ {r} : answer'[q] = answer[q]
       /\ answer[r].code = "none"
       /\ answer'[r].code = "none" \/ (answer'[r].code = "error" /\ phase = "done")
  <2>1. answer[r].code = "none"
    BY <1>0 DEF Underway, Live
  <2>2. [code |-> "error", cursor |-> 0] \in Answers
    BY DEF Answers
  <2>. QED  BY <1>1, <2>1, <2>2 DEF Unrecorded, Answer
<1>3. TypeOK'
  BY <1>1, <1>2, <1>2a, TypeParts DEF TypeOK, Rows, Asked, Answers, Spendings
<1>4. \A q \in Requests : Live(q)' => Live(q)
  BY <1>2 DEF Live
<1>5. Underway'
  <2>1. \A q \in Requests : Live(q) => Reserved(request[q].key, request[q].text)'
    <3>. SUFFICES ASSUME NEW q \in Requests, Live(q)
                  PROVE  Reserved(request[q].key, request[q].text)'
      OBVIOUS
    <3>1. Reserved(request[q].key, request[q].text)
      BY <1>0 DEF Underway
    <3>. QED  BY <1>2, <3>1 DEF Reserved, Kept
  <2>2. \A q \in Requests : request'[q].phase = "receipt" => modules'[request'[q].key] # NoText
    <3>. SUFFICES ASSUME NEW q \in Requests, request'[q].phase = "receipt"
                  PROVE  modules'[request'[q].key] # NoText
      OBVIOUS
    <3>1. CASE q = r
      BY <1>2, <3>1
    <3>2. CASE q # r
      BY <1>0, <1>2, <3>2 DEF Underway, Kept, Live, Reserved
    <3>. QED  BY <3>1, <3>2
  <2>3. \A q \in Requests : answer'[q].code # "none" => request'[q].phase = "done"
    BY <1>0, <1>2, <1>2a DEF Underway, Live
  <2>. QED  BY <1>4, <2>1, <2>2, <2>3 DEF Underway
<1>6. Told'
  <2>1. \A i \in DOMAIN feed : feed[i] \in Keys /\ modules'[feed[i]] # NoText
    BY <1>0, <1>1 DEF Told, Kept
  <2>2. \A k \in Keys : ledger'[k].status = "completed" => Announced(k)'
    BY <1>0 DEF Told, Announced
  <2>3. /\ Acknowledged' = Acknowledged
        /\ \A q \in Acknowledged : answer'[q] = answer[q]
    BY <1>2a DEF Acknowledged
  <2>4. \A q \in Acknowledged :
            /\ Reserved(request[q].key, request[q].text)'
            /\ answer'[q].cursor \in DOMAIN feed'
            /\ feed'[answer'[q].cursor] = request'[q].key
    <3>1. Acknowledged \subseteq Requests
      BY DEF Acknowledged
    <3>. QED  BY <1>0, <1>2, <2>3, <3>1 DEF Told, Reserved, Kept
  <2>. QED  BY <1>0, <2>1, <2>2, <2>3, <2>4 DEF Told
<1>7. OneCreates'
  <2>1. \A q \in Requests : Creates(q)' => Creates(q)
    BY <1>2, <1>4, <1>2a DEF Creates
  <2>. QED  BY <1>0, <1>2, <2>1 DEF OneCreates
<1>. QED  BY <1>3, <1>5, <1>6, <1>7 DEF DescriptionInv

(* A module is added once, with the text that its key is reserved for.     *)
LEMMA ModuleAdded ==
    ASSUME DescriptionInv, NEW k, NEW text, Reserved(k, text),
           AddModule(k, text), UNCHANGED ledger, transit' \subseteq transit
    PROVE  /\ modules' \in [Keys -> Texts \cup {NoText}]
           /\ Kept /\ Written' /\ modules'[k] # NoText
<1>1. /\ modules \in [Keys -> Texts \cup {NoText}] /\ k \in Keys /\ text # NoText
      /\ Written
  BY TypeParts, DescriptionConstants DEF DescriptionInv, Reserved
<1>2. /\ modules'[k] = IF modules[k] = NoText THEN text ELSE modules[k]
      /\ \A j \in Keys \ {k} : modules'[j] = modules[j]
  BY <1>1 DEF AddModule
<1>4. \A j \in Keys : modules'[j] # NoText => Reserved(j, modules[j])'
  BY <1>1, <1>2 DEF Written, Reserved
<1>5. \A m \in transit' : Reserved(m[1], m[2])'
  <2>. SUFFICES ASSUME NEW m \in transit' PROVE Reserved(m[1], m[2])'
    OBVIOUS
  <2>1. Reserved(m[1], m[2])
    BY <1>1 DEF Written
  <2>. QED  BY <2>1 DEF Reserved
<1>6. Written'
  BY <1>4, <1>5 DEF Written, Reserved
<1>7. modules' \in [Keys -> Texts \cup {NoText}] /\ modules'[k] # NoText
  BY <1>1, <1>2 DEF AddModule, Reserved
<1>8. Kept
  BY <1>1, <1>2 DEF Kept
<1>. QED  BY <1>6, <1>7, <1>8

LEMMA CheckStep == ASSUME DescriptionInv, NEW r \in Requests, Check(r) PROVE DescriptionInv'
<1>1. /\ modules \in [Keys -> Texts \cup {NoText}] /\ transit \subseteq Keys \X Texts
      /\ spent \in Spendings /\ Written
  BY TypeParts DEF DescriptionInv
<1>2. /\ Live(r) /\ UNCHANGED <<ledger, feed, default, modules, transit>>
      /\ \E phase : Goto(r, phase) /\ Unrecorded(r, phase) /\ phase # "receipt"
      /\ spent' \in Spendings
  BY <1>1 DEF Check, Raises, Unrecorded, Live, Spendings
<1>3. Kept /\ Written'
  BY <1>1, <1>2 DEF Kept, Written, Reserved
<1>. QED  BY <1>1, <1>2, <1>3, HandlerMoves

LEMMA UpdateStep == ASSUME DescriptionInv, NEW r \in Requests, Update(r) PROVE DescriptionInv'
<1>. DEFINE k == request[r].key
            text == request[r].text
<1>0. /\ modules \in [Keys -> Texts \cup {NoText}] /\ transit \subseteq Keys \X Texts
      /\ spent \in Spendings /\ Written /\ request \in [Requests -> Asked]
  BY TypeParts DEF DescriptionInv
<1>1. Live(r) /\ UNCHANGED <<ledger, feed, default>> /\ Reserved(k, text)
  BY DEF Update, Live, DescriptionInv, Underway
<1>2. k \in Keys /\ text \in Texts
  BY <1>1 DEF Reserved
<1>3. CASE AddModule(k, text) /\ Goto(r, "receipt") /\ UNCHANGED <<answer, transit, spent>>
  <2>1. /\ modules' \in [Keys -> Texts \cup {NoText}]
        /\ Kept /\ Written' /\ modules'[k] # NoText
    BY <1>1, <1>3, ModuleAdded
  <2>2. Unrecorded(r, "receipt")
    BY <1>3 DEF Unrecorded
  <2>. QED  BY <1>0, <1>1, <1>3, <2>1, <2>2, HandlerMoves
<1>4. ASSUME Raises(r),
             \/ UNCHANGED <<modules, transit>>
             \/ AddModule(k, text) /\ UNCHANGED transit
             \/ transit' = transit \cup {<<k, text>>} /\ UNCHANGED modules
      PROVE  DescriptionInv'
  <2>1. /\ spent' \in Spendings
        /\ \E phase : Goto(r, phase) /\ Unrecorded(r, phase) /\ phase # "receipt"
    BY <1>0, <1>4 DEF Raises, Unrecorded, Spendings
  <2>2. /\ modules' \in [Keys -> Texts \cup {NoText}] /\ transit' \subseteq Keys \X Texts
        /\ Kept /\ Written'
    <3>1. CASE UNCHANGED <<modules, transit>>
      BY <1>0, <1>1, <3>1 DEF Kept, Written, Reserved
    <3>2. CASE AddModule(k, text) /\ UNCHANGED transit
      BY <1>0, <1>1, <3>2, ModuleAdded
    <3>3. CASE transit' = transit \cup {<<k, text>>} /\ UNCHANGED modules
      <4>1. transit' \subseteq Keys \X Texts
        BY <1>0, <1>2, <3>3
      <4>2. Kept
        BY <1>1, <3>3 DEF Kept
      <4>3. \A m \in transit' : Reserved(m[1], m[2])'
        <5>. SUFFICES ASSUME NEW m \in transit' PROVE Reserved(m[1], m[2])'
          OBVIOUS
        <5>1. Reserved(m[1], m[2])
          <6>1. CASE m \in transit
            BY <1>0, <6>1 DEF Written
          <6>2. CASE m = <<k, text>>
            BY <1>1, <6>2
          <6>. QED  BY <3>3, <6>1, <6>2
        <5>. QED  BY <1>1, <5>1 DEF Reserved
      <4>4. \A j \in Keys : modules'[j] # NoText => Reserved(j, modules[j])'
        BY <1>0, <1>1, <3>3 DEF Written, Reserved
      <4>5. Written'
        BY <4>3, <4>4 DEF Written, Reserved
      <4>. QED  BY <1>0, <3>3, <4>1, <4>2, <4>5
    <3>. QED  BY <1>4, <3>1, <3>2, <3>3
  <2>. QED  BY <1>0, <1>1, <1>4, <2>1, <2>2, HandlerMoves
<1>. QED  BY <1>3, <1>4 DEF Update

(* An update whose call has failed arrives after all.                      *)
LEMMA LateUpdateStep == ASSUME DescriptionInv, LateUpdate PROVE DescriptionInv'
<1>1. PICK m \in transit : AddModule(m[1], m[2]) /\ transit' = transit \ {m}
  BY DEF LateUpdate
<1>2. /\ TypeOK /\ Underway /\ Written /\ Told /\ OneCreates
      /\ UNCHANGED <<ledger, feed, default, request, answer, spent>>
      /\ Reserved(m[1], m[2])
  BY DEF DescriptionInv, Written, LateUpdate
<1>3. modules' \in [Keys -> Texts \cup {NoText}] /\ Kept /\ Written'
  BY <1>1, <1>2, ModuleAdded
<1>4. TypeOK'
  BY <1>1, <1>2, <1>3 DEF TypeOK
<1>5. Underway'
  BY <1>2, <1>3 DEF Underway, Live, Reserved, Kept
<1>6. Told'
  <2>1. \A i \in DOMAIN feed : feed[i] \in Keys
    BY <1>2 DEF TypeOK
  <2>. QED  BY <1>2, <1>3, <2>1 DEF Told, Announced, Acknowledged, Reserved, Kept
<1>7. OneCreates'
  BY <1>2 DEF OneCreates, Creates, Live
<1>. QED  BY <1>3, <1>4, <1>5, <1>6, <1>7 DEF DescriptionInv

(* An answer to a request whose key is reserved: its row is completed, or  *)
(* set back to pending, and an event may have been added.                  *)
Ends(r, code, cursor, status) ==
    LET k == request[r].key IN
    /\ Live(r) /\ Goto(r, "done") /\ Answer(r, code, cursor)
    /\ ledger' = [ledger EXCEPT ![k].status = status]
    /\ \/ feed' = feed
       \/ feed' = Append(feed, k) /\ ~Announced(k) /\ modules[k] # NoText
    /\ status = "completed" => \E i \in DOMAIN feed' : feed'[i] = k
    /\ code # "error" => cursor \in DOMAIN feed' /\ feed'[cursor] = k
    /\ code = "created" => ~request[r].duplicate
    /\ UNCHANGED <<default, modules, transit, spent>>

LEMMA HandlerAnswers ==
    ASSUME DescriptionInv, NEW r \in Requests,
           NEW code \in {"created", "replayed", "error"}, NEW cursor \in Nat,
           NEW status \in {"pending", "completed"}, Ends(r, code, cursor, status)
    PROVE  DescriptionInv'
<1>. DEFINE k == request[r].key
<1>. USE DEF Ends
<1>0. TypeOK /\ Underway /\ Written /\ Told /\ OneCreates
  BY DEF DescriptionInv
<1>1. /\ request \in [Requests -> Asked] /\ ledger \in [Keys -> Rows]
      /\ feed \in Seq(Keys) /\ answer \in [Requests -> Answers]
      /\ Reserved(k, request[r].text) /\ k \in Keys
  BY <1>0, TypeParts DEF Underway, Reserved
<1>2. /\ request' \in [Requests -> Asked] /\ answer' \in [Requests -> Answers]
      /\ \A q \in Requests \ {r} : request'[q] = request[q] /\ answer'[q] = answer[q]
      /\ request'[r].phase = "done"
      /\ answer'[r] = [code |-> code, cursor |-> cursor]
      /\ \A q \in Requests : /\ request'[q].key = request[q].key
                             /\ request'[q].text = request[q].text
                             /\ request'[q].duplicate = request[q].duplicate
  <2>1. "done" \in Phases
    BY DEF Phases
  <2>. QED  BY <1>1, <2>1 DEF Goto, Answer, Asked, Answers
<1>3. /\ ledger' \in [Keys -> Rows]
      /\ \A j \in Keys \ {k} : ledger'[j] = ledger[j]
      /\ ledger'[k].status = status /\ ledger'[k].print = ledger[k].print
      /\ Kept
  BY <1>1 DEF Rows, Kept
<1>4. /\ feed' \in Seq(Keys)
      /\ \A i \in DOMAIN feed : i \in DOMAIN feed' /\ feed'[i] = feed[i]
      /\ \A i \in DOMAIN feed' : i \in DOMAIN feed \/ (feed'[i] = k /\ feed' # feed)
      /\ \A i, j \in DOMAIN feed' : i \notin DOMAIN feed /\ j \notin DOMAIN feed => i = j
      /\ \A i \in DOMAIN feed' : i \notin DOMAIN feed => ~Announced(k)
  <2>1. CASE feed' = feed
    BY <1>1, <2>1
  <2>2. CASE feed' = Append(feed, k) /\ ~Announced(k)
    <3>1. /\ Len(feed) \in Nat /\ DOMAIN feed = 1..Len(feed)
          /\ DOMAIN feed' = 1..(Len(feed) + 1) /\ feed'[Len(feed) + 1] = k
          /\ feed' \in Seq(Keys)
          /\ \A i \in 1..Len(feed) : feed'[i] = feed[i]
      BY <1>1, <2>2
    <3>2. feed' # feed
      BY <3>1
    <3>3. \A i \in DOMAIN feed' : i \in DOMAIN feed \/ i = Len(feed) + 1
      BY <3>1
    <3>4. \A i, j \in DOMAIN feed' : i \notin DOMAIN feed /\ j \notin DOMAIN feed => i = j
      BY <3>3
    <3>5. /\ \A i \in DOMAIN feed : i \in DOMAIN feed' /\ feed'[i] = feed[i]
          /\ \A i \in DOMAIN feed' : i \in DOMAIN feed \/ (feed'[i] = k /\ feed' # feed)
      BY <3>1, <3>2, <3>3
    <3>. QED  BY <2>2, <3>1, <3>4, <3>5
  <2>. QED  BY <2>1, <2>2
<1>5. TypeOK'
  BY <1>0, <1>2, <1>3, <1>4 DEF TypeOK, Rows, Asked, Answers
<1>6. Underway'
  BY <1>0, <1>2, <1>3 DEF Underway, Live, Reserved, Kept
<1>7. Written'
  BY <1>0, <1>3 DEF Written, Reserved, Kept
<1>8. Told'
  <2>1. \A i \in DOMAIN feed' : modules'[feed'[i]] # NoText
    BY <1>0, <1>4 DEF Told
  <2>2. \A i, j \in DOMAIN feed' : feed'[i] = feed'[j] => i = j
    BY <1>0, <1>4 DEF Told, Announced
  <2>3. \A j \in Keys : Announced(j) => Announced(j)'
    BY <1>4 DEF Announced
  <2>4. \A j \in Keys : ledger'[j].status = "completed" => Announced(j)'
    <3>. SUFFICES ASSUME NEW j \in Keys, ledger'[j].status = "completed" PROVE Announced(j)'
      OBVIOUS
    <3>1. CASE j = k
      BY <1>2, <1>3, <3>1 DEF Announced
    <3>2. CASE j # k
      <4>1. Announced(j)
        BY <1>0, <1>3, <3>2 DEF Told
      <4>. QED  BY <2>3, <4>1
    <3>. QED  BY <3>1, <3>2
  <2>5. ASSUME NEW q \in Acknowledged'
        PROVE  /\ Reserved(request[q].key, request[q].text)'
               /\ answer'[q].cursor \in DOMAIN feed'
               /\ feed'[answer'[q].cursor] = request'[q].key
    <3>1. CASE q = r
      BY <1>1, <1>2, <1>3, <2>5, <3>1 DEF Acknowledged, Reserved, Kept
    <3>2. CASE q # r
      <4>1. q \in Acknowledged /\ q \in Requests
        BY <1>2, <2>5, <3>2 DEF Acknowledged
      <4>2. /\ Reserved(request[q].key, request[q].text)
            /\ answer[q].cursor \in DOMAIN feed /\ feed[answer[q].cursor] = request[q].key
        BY <1>0, <4>1 DEF Told
      <4>. QED  BY <1>2, <1>3, <1>4, <3>2, <4>1, <4>2 DEF Reserved, Kept
    <3>. QED  BY <3>1, <3>2
  <2>. QED  BY <2>1, <2>2, <2>4, <2>5 DEF Told
<1>9. OneCreates'
  <2>1. \A q \in Requests : Creates(q)' => Creates(q)
    BY <1>2 DEF Creates, Live
  <2>. QED  BY <1>0, <1>2, <2>1 DEF OneCreates
<1>. QED  BY <1>5, <1>6, <1>7, <1>8, <1>9 DEF DescriptionInv

LEMMA FailStep == ASSUME DescriptionInv, NEW r \in Requests, Fail(r) PROVE DescriptionInv'
<1>1. Ends(r, "error", 0, "pending")
  BY DEF Fail, Live, Ends
<1>. QED  BY <1>1, HandlerAnswers

LEMMA CompleteStep == ASSUME DescriptionInv, NEW r \in Requests, Complete(r) PROVE DescriptionInv'
<1>. DEFINE k == request[r].key
            code == IF request[r].duplicate THEN "replayed" ELSE "created"
            cursor == IF Announced(k) THEN Cursor(k) ELSE Len(feed) + 1
<1>0. /\ feed \in Seq(Keys) /\ request \in [Requests -> Asked] /\ Underway
  BY TypeParts DEF DescriptionInv
<1>1. /\ Live(r) /\ Goto(r, "done") /\ Answer(r, code, cursor)
      /\ request[r].phase = "receipt"
      /\ ledger' = [ledger EXCEPT ![k].status = "completed"]
      /\ feed' = IF Announced(k) THEN feed ELSE Append(feed, k)
      /\ UNCHANGED <<default, modules, transit, spent>>
  BY DEF Complete, Live
<1>2. k \in Keys /\ modules[k] # NoText
  BY <1>0, <1>1 DEF Underway, Reserved
<1>3. cursor \in DOMAIN feed' /\ feed'[cursor] = k /\ cursor \in Nat
  <2>1. CASE Announced(k)
    <3>1. cursor \in DOMAIN feed /\ feed[cursor] = k
      BY <2>1, CursorFound
    <3>. QED  BY <1>0, <1>1, <2>1, <3>1
  <2>2. CASE ~Announced(k)
    BY <1>0, <1>1, <1>2, <2>2
  <2>. QED  BY <2>1, <2>2
<1>4. code \in {"created", "replayed", "error"} /\ (code = "created" => ~request[r].duplicate)
  OBVIOUS
<1>5. Ends(r, code, cursor, "completed")
  BY <1>1, <1>2, <1>3, <1>4 DEF Ends
<1>. HIDE DEF code, cursor
<1>. QED  BY <1>3, <1>4, <1>5, HandlerAnswers

(* Up to the first await of a new request.                                 *)
LEMMA ArriveStep ==
    ASSUME DescriptionInv, NEW r \in Requests, NEW k \in Keys, NEW text \in Texts,
           NEW n \in Notebooks \cup {Omitted}, Arrive(r, k, text, n)
    PROVE  DescriptionInv'
<1>. DEFINE target == IF n = Omitted THEN default ELSE n
<1>0. TypeOK /\ Underway /\ Written /\ Told /\ OneCreates
  BY DEF DescriptionInv
<1>1. PICK phase \in {"check", "done"}, duplicate \in BOOLEAN :
          /\ Reserve(r, k, text, target, phase, duplicate)
          /\ request' = [request EXCEPT ![r] =
                [phase |-> phase, key |-> k, text |-> text, notebook |-> n,
                 duplicate |-> duplicate, replay |-> Repeats(k, text, n)]]
  BY DEF Arrive
<1>2. /\ request \in [Requests -> Asked] /\ ledger \in [Keys -> Rows]
      /\ feed \in Seq(Keys) /\ answer \in [Requests -> Answers]
      /\ default \in Notebooks \cup {Omitted}
  BY <1>0, TypeParts
<1>3. /\ request[r].phase = "new" /\ answer[r].code = "none"
      /\ UNCHANGED <<feed, default, modules, transit, spent>>
  BY <1>0, <1>2 DEF Arrive, Underway, Answers
<1>4. /\ request' \in [Requests -> Asked]
      /\ \A q \in Requests \ {r} : request'[q] = request[q]
      /\ request'[r].key = k /\ request'[r].text = text /\ request'[r].phase = phase
      /\ request'[r].duplicate = duplicate
  <2>1. phase \in Phases /\ Repeats(k, text, n) \in BOOLEAN
    BY DEF Phases, Repeats
  <2>. QED  BY <1>1, <1>2, <2>1 DEF Asked
<1>5. /\ ledger' \in [Keys -> Rows] /\ Kept
      /\ \A j \in Keys \ {k} : ledger'[j] = ledger[j]
      /\ ledger'[k].status # "absent"
      /\ ledger[k].status # "absent" => ledger'[k] = ledger[k]
      /\ ledger[k].status = "absent" =>
            /\ ledger'[k].status = "pending" /\ ledger'[k].print = <<text, target>>
            /\ phase = "check" /\ ~duplicate
      /\ phase = "check" => ledger'[k].print = <<text, target>>
      /\ ledger[k].status # "absent" /\ phase = "check" => duplicate
  <2>1. [print |-> <<text, target>>, status |-> "pending"] \in Rows
    BY <1>2 DEF Rows, Prints
  <2>2. CASE ledger[k].status = "absent"
    BY <1>1, <1>2, <1>3, <2>1, <2>2 DEF Reserve, Kept
  <2>3. CASE ledger[k].status # "absent"
    BY <1>1, <1>2, <1>3, <2>3 DEF Reserve, Kept
  <2>. QED  BY <2>2, <2>3
<1>6. /\ answer' \in [Requests -> Answers]
      /\ \A q \in Requests \ {r} : answer'[q] = answer[q]
      /\ phase = "check" => answer'[r] = answer[r]
      /\ answer'[r].code # "created"
      /\ answer'[r].code = "replayed" =>
            /\ ledger'[k].print = <<text, target>>
            /\ answer'[r].cursor \in DOMAIN feed /\ feed[answer'[r].cursor] = k
  <2>1. CASE UNCHANGED answer
    BY <1>2, <1>3, <2>1
  <2>2. CASE Answer(r, "conflict", 0)
    BY <1>1, <1>2, <1>3, <2>2 DEF Answer, Answers, Reserve
  <2>3. CASE /\ ledger[k].status = "completed" /\ ledger[k].print = <<text, target>>
             /\ phase = "done" /\ UNCHANGED ledger
             /\ Answer(r, "replayed", Cursor(k))
    <3>1. Cursor(k) \in DOMAIN feed /\ feed[Cursor(k)] = k
      BY <1>0, <2>3, CursorFound DEF Told
    <3>2. Cursor(k) \in Nat
      BY <1>2, <3>1
    <3>. HIDE DEF Cursor
    <3>. QED  BY <1>2, <2>3, <3>1, <3>2 DEF Answer, Answers
  <2>. QED  BY <1>1, <2>1, <2>2, <2>3 DEF Reserve
<1>7. TypeOK'
  BY <1>0, <1>3, <1>4, <1>5, <1>6 DEF TypeOK, Rows, Asked, Answers
<1>8. ASSUME phase = "check" \/ answer'[r].code = "replayed" PROVE Reserved(k, text)'
  BY <1>5, <1>6, <1>8 DEF Reserved
<1>9. Underway'
  <2>. SUFFICES ASSUME NEW q \in Requests
                PROVE  /\ Live(q)' => Reserved(request[q].key, request[q].text)'
                       /\ request'[q].phase = "receipt" => modules'[request'[q].key] # NoText
                       /\ answer'[q].code # "none" => request'[q].phase = "done"
    BY DEF Underway
  <2>1. CASE q = r
    <3>1. Live(q)' => Reserved(request[q].key, request[q].text)'
      BY <1>4, <1>8, <2>1 DEF Live, Reserved
    <3>. QED  BY <1>3, <1>4, <1>6, <2>1, <3>1
  <2>2. CASE q # r
    BY <1>0, <1>3, <1>4, <1>5, <1>6, <2>2 DEF Underway, Live, Reserved, Kept
  <2>. QED  BY <2>1, <2>2
<1>10. Written'
  BY <1>0, <1>3, <1>5 DEF Written, Reserved, Kept
<1>11. Told'
  <2>1. \A j \in Keys : ledger'[j].status = "completed" => Announced(j)'
    BY <1>0, <1>3, <1>5 DEF Told, Announced
  <2>2. ASSUME NEW q \in Acknowledged'
        PROVE  /\ Reserved(request[q].key, request[q].text)'
               /\ answer'[q].cursor \in DOMAIN feed'
               /\ feed'[answer'[q].cursor] = request'[q].key
    <3>1. CASE q = r
      <4>1. answer'[r].code = "replayed"
        BY <1>6, <2>2, <3>1 DEF Acknowledged
      <4>. QED  BY <1>3, <1>4, <1>6, <1>8, <3>1, <4>1 DEF Reserved
    <3>2. CASE q # r
      <4>1. q \in Acknowledged /\ q \in Requests
        BY <1>6, <2>2, <3>2 DEF Acknowledged
      <4>2. /\ Reserved(request[q].key, request[q].text)
            /\ answer[q].cursor \in DOMAIN feed /\ feed[answer[q].cursor] = request[q].key
        BY <1>0, <4>1 DEF Told
      <4>. QED  BY <1>3, <1>4, <1>5, <1>6, <3>2, <4>1, <4>2 DEF Reserved, Kept
    <3>. QED  BY <3>1, <3>2
  <2>. QED  BY <1>0, <1>3, <2>1, <2>2 DEF Told
<1>12. OneCreates'
  <2>1. \A q \in Requests \ {r} : Creates(q)' => Creates(q)
    BY <1>4, <1>6 DEF Creates, Live
  <2>2. ASSUME Creates(r)', NEW q \in Requests \ {r}, Creates(q), request[q].key = k
        PROVE  FALSE
    <3>1. ledger[k].status = "absent"
      BY <1>4, <1>5, <1>6, <2>2 DEF Creates, Live
    <3>2. Reserved(request[q].key, request[q].text)
      <4>1. CASE Live(q)
        BY <1>0, <4>1 DEF Underway
      <4>2. CASE answer[q].code = "created"
        BY <1>0, <4>2 DEF Told, Acknowledged
      <4>. QED  BY <2>2, <4>1, <4>2 DEF Creates
    <3>. QED  BY <2>2, <3>1, <3>2 DEF Reserved
  <2>. QED  BY <1>0, <1>4, <2>1, <2>2 DEF OneCreates
<1>. QED  BY <1>7, <1>9, <1>10, <1>11, <1>12 DEF DescriptionInv

(* Steps of the user and of the process.                                   *)
LEMMA ChangeDefaultStep == ASSUME DescriptionInv, ChangeDefault PROVE DescriptionInv'
<1>0. TypeOK /\ Underway /\ Written /\ Told /\ OneCreates
  BY DEF DescriptionInv
<1>1. /\ UNCHANGED <<ledger, feed, request, answer, modules, transit>>
      /\ default' \in Notebooks /\ spent' = [spent EXCEPT !.changes = @ + 1]
  BY DEF ChangeDefault
<1>2. TypeOK'
  BY <1>0, <1>1 DEF TypeOK
<1>3. Underway' /\ Written' /\ Told' /\ OneCreates'
  BY <1>0, <1>1 DEF Underway, Written, Told, OneCreates, Creates, Live, Reserved, Announced,
                    Acknowledged
<1>. QED  BY <1>2, <1>3 DEF DescriptionInv

LEMMA CrashStep == ASSUME DescriptionInv, Crash PROVE DescriptionInv'
<1>0. TypeOK /\ Underway /\ Written /\ Told /\ OneCreates
  BY DEF DescriptionInv
<1>. DEFINE Sent == {q \in Requests : request[q].phase = "update"}
            Late == {<<request[r].key, request[r].text>> : r \in Sent}
<1>1. /\ UNCHANGED <<ledger, feed, default, answer, modules>>
      /\ spent' = [spent EXCEPT !.crashes = @ + 1]
      /\ request' = [r \in Requests |-> IF request[r].phase = "new" THEN request[r]
                                        ELSE [request[r] EXCEPT !.phase = "done"]]
      /\ transit' = transit \cup Late
  BY DEF Crash
<1>2. \A r \in Sent : Reserved(request[r].key, request[r].text)
  BY <1>0 DEF Underway, Live
<1>3. /\ request' \in [Requests -> Asked]
      /\ \A r \in Requests : /\ request'[r].key = request[r].key
                             /\ request'[r].text = request[r].text
                             /\ request'[r].duplicate = request[r].duplicate
                             /\ request'[r].phase \in {"new", "done"}
                             /\ request[r].phase = "done" => request'[r].phase = "done"
  <2>1. \A r \in Requests : request[r] \in Asked /\ [request[r] EXCEPT !.phase = "done"] \in Asked
    BY <1>0, TypeParts, "done" \in Phases DEF Asked, Phases
  <2>. QED  BY <1>1, <2>1 DEF Asked
<1>4. TypeOK'
  <2>1. Late \subseteq Keys \X Texts
    BY <1>2 DEF Reserved
  <2>2. transit' \subseteq Keys \X Texts
    BY <1>0, <1>1, <2>1 DEF TypeOK
  <2>3. spent' \in Spendings
    <3>1. spent \in Spendings
      BY <1>0, TypeParts
    <3>. QED  BY <1>1, <3>1 DEF Spendings
  <2>. HIDE DEF Late
  <2>. QED  BY <1>0, <1>1, <1>3, <2>2, <2>3 DEF TypeOK, Asked, Spendings
<1>5. Underway'
  BY <1>0, <1>1, <1>3 DEF Underway, Live
<1>6. Written'
  <2>1. ASSUME NEW m \in transit' PROVE Reserved(m[1], m[2])'
    <3>1. Reserved(m[1], m[2])
      <4>1. CASE m \in transit
        BY <1>0, <4>1 DEF Written
      <4>2. CASE m \in Late
        BY <1>2, <4>2
      <4>. QED  BY <1>1, <2>1, <4>1, <4>2
    <3>. QED  BY <1>1, <3>1 DEF Reserved
  <2>2. \A k \in Keys : modules'[k] # NoText => Reserved(k, modules[k])'
    BY <1>0, <1>1 DEF Written, Reserved
  <2>. QED  BY <2>1, <2>2 DEF Written
<1>7. Told'
  BY <1>0, <1>1, <1>3 DEF Told, Acknowledged, Announced, Reserved
<1>8. OneCreates'
  BY <1>0, <1>1, <1>3 DEF OneCreates, Creates, Live
<1>. QED  BY <1>4, <1>5, <1>6, <1>7, <1>8 DEF DescriptionInv

LEMMA DescriptionStep == ASSUME DescriptionInv, [Next]_vars PROVE DescriptionInv'
<1>1. CASE Next
  BY <1>1, ArriveStep, CheckStep, UpdateStep, FailStep, CompleteStep, LateUpdateStep,
     ChangeDefaultStep, CrashStep DEF Next
<1>2. CASE UNCHANGED vars
  <2>0. TypeOK /\ Underway /\ Written /\ Told /\ OneCreates
    BY DEF DescriptionInv
  <2>1. TypeOK'
    BY <1>2, <2>0 DEF TypeOK, vars
  <2>2. Underway' /\ Written' /\ Told' /\ OneCreates'
    BY <1>2, <2>0 DEF Underway, Written, Told, OneCreates, Creates, Live, Reserved,
                      Announced, Acknowledged, vars
  <2>. QED  BY <2>1, <2>2 DEF DescriptionInv
<1>. QED  BY <1>1, <1>2

-----------------------------------------------------------------------------
(* Why a conflict has a cause: the fingerprint of a row is that of some    *)
(* request of its key, which keeps what it sent; and a notebook that was   *)
(* not named is the default one as long as that has not changed.           *)
Asks(q, k, print) ==
    /\ request[q].phase # "new" /\ request[q].key = k /\ request[q].text = print[1]
    /\ \/ request[q].notebook = print[2] /\ print[2] # Omitted
       \/ request[q].notebook = Omitted /\ (spent.changes = 0 => print[2] = default)

Caused == \A k \in Keys : ledger[k].status # "absent" =>
             \E q \in Requests : Asks(q, k, ledger[k].print)

Causes == Caused /\ ConflictHasCause

(* What every step but an arrival leaves as it is.                         *)
Remembered ==
    /\ \A q \in Requests :
          /\ request'[q].key = request[q].key
          /\ request'[q].text = request[q].text
          /\ request'[q].notebook = request[q].notebook
          /\ (request[q].phase # "new" => request'[q].phase # "new")
          /\ (answer'[q].code = "conflict" => answer[q].code = "conflict")
    /\ \A k \in Keys :
          /\ ledger'[k].print = ledger[k].print
          /\ (ledger'[k].status # "absent" => ledger[k].status # "absent")
    /\ \/ UNCHANGED default /\ spent'.changes = spent.changes
       \/ spent'.changes > 0

LEMMA RememberedStep == ASSUME TypeOK, Causes, Remembered PROVE Causes'
<1>0. spent \in Spendings
  BY TypeParts
<1>1. Caused'
  <2>. SUFFICES ASSUME NEW k \in Keys, ledger'[k].status # "absent"
                PROVE  \E q \in Requests : Asks(q, k, ledger[k].print)'
    BY DEF Caused
  <2>1. PICK q \in Requests : Asks(q, k, ledger[k].print)
    BY DEF Causes, Caused, Remembered
  <2>. QED  BY <2>1 DEF Asks, Remembered
<1>2. ConflictHasCause'
  BY <1>0 DEF Causes, ConflictHasCause, Remembered, Spendings
<1>. QED  BY <1>1, <1>2 DEF Causes

LEMMA HandlersRemember ==
    ASSUME DescriptionInv, NEW r \in Requests,
           Check(r) \/ Update(r) \/ Fail(r) \/ Complete(r)
    PROVE  Remembered
<1>0. /\ request \in [Requests -> Asked] /\ answer \in [Requests -> Answers]
      /\ ledger \in [Keys -> Rows] /\ spent \in Spendings
      /\ Live(r) => request[r].key \in Keys /\ ledger[request[r].key].status # "absent"
  BY TypeParts DEF DescriptionInv, Underway, Reserved
<1>1. Live(r) /\ UNCHANGED default
  BY DEF Check, Update, Fail, Complete, Live
<1>2. /\ \E phase : phase # "new" /\ Goto(r, phase)
      /\ UNCHANGED answer \/ \E code, cursor : code # "conflict" /\ Answer(r, code, cursor)
  BY DEF Check, Update, Raises, Fail, Complete
<1>3. \/ UNCHANGED ledger
      \/ \E status : ledger' = [ledger EXCEPT ![request[r].key].status = status]
  BY DEF Check, Update, Fail, Complete
<1>4. spent'.changes = spent.changes
  BY <1>0 DEF Check, Update, Raises, Fail, Complete, Spendings
<1>5. \A q \in Requests :
          /\ request'[q].key = request[q].key
          /\ request'[q].text = request[q].text
          /\ request'[q].notebook = request[q].notebook
          /\ (request[q].phase # "new" => request'[q].phase # "new")
  BY <1>0, <1>2 DEF Goto, Asked
<1>6. \A q \in Requests : answer'[q].code = "conflict" => answer[q].code = "conflict"
  BY <1>0, <1>2 DEF Answer, Answers
<1>7. \A k \in Keys :
          /\ ledger'[k].print = ledger[k].print
          /\ (ledger'[k].status # "absent" => ledger[k].status # "absent")
  <2>1. CASE UNCHANGED ledger
    BY <2>1
  <2>2. CASE ~UNCHANGED ledger
    <3>. DEFINE j == request[r].key
    <3>1. PICK status : ledger' = [ledger EXCEPT ![j].status = status]
      BY <1>3, <2>2
    <3>2. j \in Keys /\ ledger[j].status # "absent" /\ ledger[j] \in Rows
      BY <1>0, <1>1
    <3>. HIDE DEF j
    <3>3. /\ \A k \in Keys \ {j} : ledger'[k] = ledger[k]
          /\ ledger'[j] = [ledger[j] EXCEPT !.status = status]
      BY <1>0, <3>1, <3>2
    <3>4. ledger'[j].print = ledger[j].print
      BY <3>2, <3>3 DEF Rows
    <3>. QED  BY <3>2, <3>3, <3>4
  <2>. QED  BY <2>1, <2>2
<1>. QED  BY <1>1, <1>4, <1>5, <1>6, <1>7 DEF Remembered

LEMMA ArriveCauses ==
    ASSUME DescriptionInv, Causes, NEW r \in Requests, NEW k \in Keys, NEW text \in Texts,
           NEW n \in Notebooks \cup {Omitted}, Arrive(r, k, text, n)
    PROVE  Causes'
<1>. DEFINE target == IF n = Omitted THEN default ELSE n
<1>0. /\ request \in [Requests -> Asked] /\ answer \in [Requests -> Answers]
      /\ ledger \in [Keys -> Rows] /\ spent \in Spendings
  BY TypeParts DEF DescriptionInv
<1>1. PICK phase \in {"check", "done"}, duplicate \in BOOLEAN :
          /\ Reserve(r, k, text, target, phase, duplicate)
          /\ request' = [request EXCEPT ![r] =
                [phase |-> phase, key |-> k, text |-> text, notebook |-> n,
                 duplicate |-> duplicate, replay |-> Repeats(k, text, n)]]
  BY DEF Arrive
<1>2. /\ request[r].phase = "new" /\ UNCHANGED <<default, spent>>
      /\ answer[r].code = "none" /\ target # Omitted
  BY <1>0 DEF Arrive, DescriptionInv, Underway
<1>3. /\ \A q \in Requests \ {r} : request'[q] = request[q]
      /\ request'[r].phase # "new" /\ request'[r].key = k
      /\ request'[r].text = text /\ request'[r].notebook = n
  BY <1>0, <1>1
<1>4. /\ \A j \in Keys \ {k} : ledger'[j] = ledger[j]
      /\ \/ ledger[k].status # "absent" /\ ledger'[k] = ledger[k]
         \/ ledger[k].status = "absent" /\ ledger'[k].print = <<text, target>>
  BY <1>0, <1>1 DEF Reserve
<1>5. /\ \A q \in Requests \ {r} : answer'[q] = answer[q]
      /\ answer'[r].code = "conflict" =>
            ledger[k].status # "absent" /\ ledger[k].print # <<text, target>>
  BY <1>0, <1>1, <1>2 DEF Reserve, Answer
<1>6. ASSUME NEW q \in Requests, NEW j, NEW print, Asks(q, j, print)
      PROVE  q # r /\ Asks(q, j, print)'
  BY <1>2, <1>3, <1>6 DEF Asks
<1>7. Caused'
  <2>. SUFFICES ASSUME NEW j \in Keys, ledger'[j].status # "absent"
                PROVE  \E q \in Requests : Asks(q, j, ledger[j].print)'
    BY DEF Caused
  <2>1. CASE ledger[j].status # "absent"
    <3>1. PICK q \in Requests : Asks(q, j, ledger[j].print)
      BY <2>1 DEF Causes, Caused
    <3>2. ledger'[j] = ledger[j]
      BY <1>4, <2>1
    <3>. QED  BY <1>6, <3>1, <3>2
  <2>2. CASE ledger[j].status = "absent"
    <3>1. j = k /\ ledger'[j].print = <<text, target>>
      BY <1>4, <2>2
    <3>2. ledger'[j].print[1] = text /\ ledger'[j].print[2] = target
      BY <3>1
    <3>3. Asks(r, j, ledger[j].print)'
      BY <1>2, <1>3, <3>1, <3>2 DEF Asks
    <3>. QED  BY <3>3
  <2>. QED  BY <2>1, <2>2
<1>8. ConflictHasCause'
  <2>. SUFFICES ASSUME NEW p \in Requests, answer'[p].code = "conflict"
                PROVE  \E q \in Requests \ {p} :
                          /\ request'[q].phase # "new" /\ request'[q].key = request'[p].key
                          /\ \/ request'[q].text # request'[p].text
                             \/ request'[q].notebook # request'[p].notebook
                             \/ request'[p].notebook = Omitted /\ spent'.changes > 0
    BY DEF ConflictHasCause
  <2>1. CASE p = r
    <3>1. ledger[k].status # "absent" /\ ledger[k].print # <<text, target>>
      BY <1>5, <2>1
    <3>2. PICK q \in Requests : Asks(q, k, ledger[k].print)
      BY <3>1 DEF Causes, Caused
    <3>3. q # r
      BY <1>6, <3>2
    <3>4. ledger[k].print = <<ledger[k].print[1], ledger[k].print[2]>>
      BY <1>0 DEF Rows, Prints
    <3>5. ledger[k].print[1] # text \/ ledger[k].print[2] # target
      BY <3>1, <3>4
    <3>6. CASE request[q].text = text /\ request[q].notebook = n
      <4>1. ledger[k].print[2] # target
        BY <3>2, <3>5, <3>6 DEF Asks
      <4>2. n = Omitted /\ spent.changes # 0
        BY <3>2, <3>6, <4>1 DEF Asks
      <4>3. spent.changes > 0
        BY <1>0, <4>2 DEF Spendings
      <4>. QED  BY <1>2, <1>3, <2>1, <3>2, <3>3, <4>2, <4>3 DEF Asks
    <3>7. CASE ~(request[q].text = text /\ request[q].notebook = n)
      BY <1>3, <2>1, <3>2, <3>3, <3>7 DEF Asks
    <3>. QED  BY <3>6, <3>7
  <2>2. CASE p # r
    <3>1. answer[p].code = "conflict"
      BY <1>5, <2>2
    <3>2. PICK q \in Requests \ {p} :
              /\ request[q].phase # "new" /\ request[q].key = request[p].key
              /\ \/ request[q].text # request[p].text
                 \/ request[q].notebook # request[p].notebook
                 \/ request[p].notebook = Omitted /\ spent.changes > 0
      BY <3>1 DEF Causes, ConflictHasCause
    <3>. QED  BY <1>2, <1>3, <2>2, <3>2
  <2>. QED  BY <2>1, <2>2
<1>. QED  BY <1>7, <1>8 DEF Causes

LEMMA CausesStep == ASSUME DescriptionInv, Causes, [Next]_vars PROVE Causes'
<1>0. TypeOK /\ spent \in Spendings /\ request \in [Requests -> Asked]
  BY TypeParts DEF DescriptionInv
<1>1. ASSUME NEW r \in Requests, Check(r) \/ Update(r) \/ Fail(r) \/ Complete(r)
      PROVE  Causes'
  BY <1>0, <1>1, HandlersRemember, RememberedStep
<1>2. CASE LateUpdate \/ UNCHANGED vars
  <2>1. Remembered
    BY <1>2 DEF LateUpdate, vars, Remembered
  <2>. QED  BY <1>0, <2>1, RememberedStep
<1>3. CASE ChangeDefault
  <2>1. spent'.changes > 0
    BY <1>0, <1>3 DEF ChangeDefault, Spendings
  <2>2. Remembered
    BY <1>3, <2>1 DEF ChangeDefault, Remembered
  <2>. QED  BY <1>0, <2>2, RememberedStep
<1>4. CASE Crash
  <2>1. /\ request' = [r \in Requests |-> IF request[r].phase = "new" THEN request[r]
                                         ELSE [request[r] EXCEPT !.phase = "done"]]
        /\ UNCHANGED <<ledger, feed, default, answer, modules>>
        /\ spent' = [spent EXCEPT !.crashes = @ + 1]
    BY <1>4 DEF Crash
  <2>2. spent'.changes = spent.changes
    BY <1>0, <2>1 DEF Spendings
  <2>3. Remembered
    BY <1>0, <2>1, <2>2 DEF Remembered, Asked
  <2>. QED  BY <1>0, <2>3, RememberedStep
<1>. QED  BY <1>1, <1>2, <1>3, <1>4, ArriveCauses DEF Next

(* A request is refused for its key only where another one of that key     *)
(* asked for something else.                                               *)
THEOREM Conflicts == Spec => []ConflictHasCause
<1>1. Init => Causes
  BY DEF Init, Causes, Caused, ConflictHasCause, NoRow, NoAnswer
<1>2. DescriptionInv /\ Causes /\ [Next]_vars => Causes'
  BY CausesStep
<1>3. Causes => ConflictHasCause
  BY DEF Causes
<1>. QED  BY <1>1, <1>2, <1>3, DescriptionInitial, DescriptionStep, PTL DEF Spec
-----------------------------------------------------------------------------
(* Rows, modules, events and answers of one key agree at all times.        *)
THEOREM DescriptionInvariant == Spec => []DescriptionInv
<1>. QED  BY DescriptionInitial, DescriptionStep, PTL DEF Spec

(* The types of Descriptions hold for every number of requests and keys.   *)
THEOREM DescriptionsTyped == Spec => []TypeOK
<1>1. DescriptionInv => TypeOK
  BY DEF DescriptionInv
<1>. QED  BY <1>1, DescriptionInvariant, PTL

(* An acknowledged description is in the record with its own text and in   *)
(* the feed at the cursor that was told, and no event precedes its text,   *)
(* whatever calls were lost, late or repeated.                             *)
THEOREM Acknowledges == Spec => []AcknowledgedIsWritten
<1>1. DescriptionInv => AcknowledgedIsWritten
  <2>. SUFFICES ASSUME DescriptionInv PROVE AcknowledgedIsWritten
    OBVIOUS
  <2>0. TypeOK /\ Written /\ Told
    BY DEF DescriptionInv
  <2>1. ASSUME NEW r \in Acknowledged
        PROVE  /\ modules[request[r].key] = request[r].text
               /\ answer[r].cursor \in DOMAIN feed
               /\ feed[answer[r].cursor] = request[r].key
    BY <2>0 DEF Told, Written, Reserved
  <2>. QED  BY <2>0, <2>1 DEF Told, AcknowledgedIsWritten
<1>. QED  BY <1>1, DescriptionInvariant, PTL

(* Whoever is acknowledged under one key is told the same event, one at    *)
(* most that it created it, and the feed has it once.                      *)
THEOREM OneReceipt == Spec => []OneReceiptPerKey
<1>1. DescriptionInv => OneReceiptPerKey
  <2>. SUFFICES ASSUME DescriptionInv PROVE OneReceiptPerKey
    OBVIOUS
  <2>0. Told /\ OneCreates /\ TypeOK
    BY DEF DescriptionInv
  <2>. QED  BY <2>0 DEF Told, OneCreates, Creates, Acknowledged, OneReceiptPerKey
<1>. QED  BY <1>1, DescriptionInvariant, PTL
=============================================================================
