------------------------------ MODULE EventFeed ------------------------------
(***************************************************************************)
(* GET /v1/events and GET /v1/events/stream: consumers read the events     *)
(* that the connector publishes, page by page or as a stream of frames,    *)
(* and resume from the cursor they saved last.  The server keeps nothing   *)
(* of a consumer but the cursor of its open stream.  A consumer processes  *)
(* what it is given and saves the cursor when that is done, as             *)
(* docs/api-quickstart.zh-CN.md asks; it may lose its connection or be     *)
(* restarted in between.                                                   *)
(***************************************************************************)
EXTENDS Naturals, Sequences, FiniteSets, SequencesExt

CONSTANTS
    Consumers,    \* clients that read events
    Types,        \* event types
    Limit,        \* events of one page or of one read of the stream
    MaxEvents,    \* bound: events that are published
    MaxDrops      \* bound: lost connections and restarts of a consumer

ASSUME FeedConstants == Limit \in Nat \ {0} /\ MaxEvents \in Nat

VARIABLES
    feed,        \* integration_events: the type of each, by seq
    wanted,      \* the types each consumer asks for
    saved,       \* the cursor each consumer has saved
    processed,   \* the events each consumer has processed
    link,        \* its connection: none, a page, or a stream
    drops        \* connections lost and restarts so far

vars == <<feed, wanted, saved, processed, link, drops>>

Seqs == 1..MaxEvents
(* after: the query parameter; last: the id of the last frame received;    *)
(* cursor, batch: the generator's; wire: frames on their way.              *)
Links == [kind : {"none", "page", "stream"}, after : 0..MaxEvents, last : 0..MaxEvents,
          cursor : 0..MaxEvents, batch : Seq(Seqs), wire : Seq(Seqs)]
NoLink == [kind |-> "none", after |-> 0, last |-> 0, cursor |-> 0,
           batch |-> <<>>, wire |-> <<>>]

Init ==
    /\ feed = <<>>
    /\ wanted \in [Consumers -> SUBSET Types \ {{}}]
    /\ saved = [c \in Consumers |-> 0]
    /\ processed = [c \in Consumers |-> {}]
    /\ link = [c \in Consumers |-> NoLink]
    /\ drops = [c \in Consumers |-> 0]

TypeOK ==
    /\ feed \in Seq(Types)
    /\ wanted \in [Consumers -> SUBSET Types]
    /\ saved \in [Consumers -> 0..MaxEvents]
    /\ processed \in [Consumers -> SUBSET Seqs]
    /\ link \in [Consumers -> Links]
    /\ drops \in [Consumers -> Nat]
-----------------------------------------------------------------------------
Matching(c) == {i \in DOMAIN feed : feed[i] \in wanted[c]}
Ascending(s) == \A i, j \in DOMAIN s : i < j => s[i] < s[j]
(* ORDER BY seq                                                            *)
InOrder(S) == CHOOSE s \in [1..Cardinality(S) -> S] : Ascending(s) /\ Range(s) = S
FirstOf(s, n) == SubSeq(s, 1, IF Len(s) < n THEN Len(s) ELSE n)

(* Mutant: the types are looked at after the limit.                        *)
Listed_LimitFirst(c, after) ==
    SelectSeq(FirstOf(InOrder({i \in DOMAIN feed : i > after}), Limit),
              LAMBDA i : i \in Matching(c))

(* list_integration_events: WHERE seq>? ... ORDER BY seq LIMIT ?           *)
Listed(c, after) == FirstOf(InOrder({i \in Matching(c) : i > after}), Limit)

(* Mutant: the latest cursor, whatever the limit has left for later.       *)
NextCursor_Latest(batch, after) == Len(feed)

(* Mutant: the cursor of the next event that will be.                      *)
NextCursor_OneMore(batch, after) == IF batch = <<>> THEN after ELSE Last(batch) + 1

(* next_cursor of a page.                                                  *)
NextCursor(batch, after) == IF batch = <<>> THEN after ELSE Last(batch)

(* The connector publishes an event.                                       *)
Publish(t) ==
    /\ Len(feed) < MaxEvents
    /\ feed' = Append(feed, t)
    /\ UNCHANGED <<wanted, saved, processed, link, drops>>

(* GET /v1/events?after=<saved>                                            *)
GetPage(c) ==
    LET batch == Listed(c, saved[c]) IN
    /\ link[c].kind = "none"
    /\ batch # <<>>
    /\ link' = [link EXCEPT ![c] = [NoLink EXCEPT !.kind = "page", !.after = saved[c],
                                       !.cursor = NextCursor(batch, saved[c]), !.wire = batch]]
    /\ UNCHANGED <<feed, wanted, saved, processed, drops>>

(* The page is worked off; its next_cursor is saved at its end.            *)
ReadPage(c) ==
    /\ link[c].kind = "page"
    /\ IF link[c].wire = <<>>
         THEN /\ saved' = [saved EXCEPT ![c] = link[c].cursor]
              /\ link' = [link EXCEPT ![c] = NoLink]
              /\ UNCHANGED processed
         ELSE /\ processed' = [processed EXCEPT ![c] = @ \cup {Head(link[c].wire)}]
              /\ link' = [link EXCEPT ![c].wire = Tail(@)]
              /\ UNCHANGED saved
    /\ UNCHANGED <<feed, wanted, drops>>

(* Mutant: Last-Event-ID is not looked at.                                 *)
Resumed_AfterOnly(after, last) == after

(* The cursor a stream starts with.                                        *)
Resumed(after, last) == IF last > after THEN last ELSE after

(* GET /v1/events/stream: by a consumer that knows its saved cursor, or by *)
(* one that repeats its last request with the Last-Event-ID header.        *)
Connect(c) ==
    /\ link[c].kind = "none"
    /\ \E after \in {saved[c], link[c].after} :
          /\ after = saved[c] \/ link[c].last = saved[c]
          /\ link' = [link EXCEPT ![c] = [NoLink EXCEPT !.kind = "stream",
                        !.after = after, !.last = saved[c],
                        !.cursor = Resumed(after, saved[c])]]
    /\ UNCHANGED <<feed, wanted, saved, processed, drops>>

(* generate(): a read in a thread, then one frame per event.               *)
Fetch(c) ==
    /\ link[c].kind = "stream"
    /\ link[c].batch = <<>>
    /\ Listed(c, link[c].cursor) # <<>>
    /\ link' = [link EXCEPT ![c].batch = Listed(c, link[c].cursor)]
    /\ UNCHANGED <<feed, wanted, saved, processed, drops>>

Emit(c) ==
    /\ link[c].kind = "stream"
    /\ link[c].batch # <<>>
    /\ link' = [link EXCEPT ![c].cursor = Head(link[c].batch),
                            ![c].wire = Append(@, Head(link[c].batch)),
                            ![c].batch = Tail(@)]
    /\ UNCHANGED <<feed, wanted, saved, processed, drops>>

(* The consumer processes a frame and saves its id - or is restarted after *)
(* the first and before the second.                                        *)
ReadFrame(c) ==
    LET i == Head(link[c].wire) IN
    /\ link[c].kind = "stream"
    /\ link[c].wire # <<>>
    /\ processed' = [processed EXCEPT ![c] = @ \cup {i}]
    /\ \/ /\ saved' = [saved EXCEPT ![c] = i]
          /\ link' = [link EXCEPT ![c].wire = Tail(@), ![c].last = i]
          /\ UNCHANGED drops
       \/ /\ drops[c] < MaxDrops
          /\ drops' = [drops EXCEPT ![c] = @ + 1]
          /\ link' = [link EXCEPT ![c] = NoLink]
          /\ UNCHANGED saved
    /\ UNCHANGED <<feed, wanted>>

(* The connection is lost, with the frames on it.  A consumer that is not  *)
(* restarted remembers its request and the last id it received.            *)
Drop(c) ==
    /\ link[c].kind # "none"
    /\ drops[c] < MaxDrops
    /\ drops' = [drops EXCEPT ![c] = @ + 1]
    /\ link' = [link EXCEPT ![c] = IF @.kind = "stream"
                  THEN [NoLink EXCEPT !.after = link[c].after, !.last = link[c].last]
                  ELSE NoLink]
    /\ UNCHANGED <<feed, wanted, saved, processed>>

ConsumerStep(c) == GetPage(c) \/ ReadPage(c) \/ Connect(c) \/ ReadFrame(c)
StreamStep(c) == Fetch(c) \/ Emit(c)

Next ==
    \/ \E t \in Types : Publish(t)
    \/ \E c \in Consumers : ConsumerStep(c) \/ StreamStep(c) \/ Drop(c)

Spec == Init /\ [][Next]_vars

(* generate() goes on while the consumer is connected, and a consumer that *)
(* was dropped comes back.                                                 *)
FairSpec ==
    Spec /\ \A c \in Consumers : WF_vars(ConsumerStep(c)) /\ WF_vars(StreamStep(c))
-----------------------------------------------------------------------------
(* Up to the cursor that a consumer has saved, it has processed every      *)
(* event of the types it asks for: no page, limit, reconnection or event   *)
(* published meanwhile makes it miss one.                                  *)
NothingSkipped ==
    \A c \in Consumers : {i \in Matching(c) : i <= saved[c]} \subseteq processed[c]

(* A stream sends no event whose cursor the consumer has saved, and none   *)
(* twice or out of order.                                                  *)
StreamGoesOn ==
    \A c \in Consumers : link[c].kind = "stream" =>
        Ascending(<<saved[c]>> \o link[c].wire \o link[c].batch)

(* An event reaches every consumer that asks for its type.                 *)
EventsArrive ==
    \A c \in Consumers, i \in Seqs : (i \in Matching(c)) ~> (i \in processed[c])
=============================================================================
