------------------------------- MODULE Outbox -------------------------------
(***************************************************************************)
(* What the connector promises its clients, whatever goes on inside: a     *)
(* commit is a promise that is never taken back, a capture is announced    *)
(* only when its record was verified, and once, and the feed of            *)
(* announcements only grows at its end.                                    *)
(***************************************************************************)
EXTENDS Sequences, Naturals

CONSTANT Captures

VARIABLES
    accepted,   \* captures whose commit was acknowledged
    verified,   \* captures with an export that was verified and recorded
    feed        \* captures announced as synced, in order

vars == <<accepted, verified, feed>>

Announced == {feed[i] : i \in DOMAIN feed}

Init == accepted = {} /\ verified = {} /\ feed = <<>>

Accept(c) ==
    /\ c \notin accepted
    /\ accepted' = accepted \cup {c}
    /\ UNCHANGED <<verified, feed>>

Verify(c) ==
    /\ c \in accepted
    /\ c \notin verified
    /\ verified' = verified \cup {c}
    /\ UNCHANGED <<accepted, feed>>

Announce(c) ==
    /\ c \in verified
    /\ c \notin Announced
    /\ feed' = Append(feed, c)
    /\ UNCHANGED <<accepted, verified>>

Next == \E c \in Captures : Accept(c) \/ Verify(c) \/ Announce(c)

Spec == Init /\ [][Next]_vars
=============================================================================
