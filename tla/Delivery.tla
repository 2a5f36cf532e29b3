------------------------------- MODULE Delivery -------------------------------
(* What message delivery promises the user, whatever the connection does: the  *)
(* chat log marks a message as received only after the peer has reached it, marks *)
(* it once, and never marks a message it has given up.                         *)
EXTENDS Naturals

CONSTANT Message

VARIABLES
    submitted,   \* messages handed to the dispatcher
    reached,     \* messages that have reached the peer at least once
    confirmed,   \* messages marked as received
    abandoned    \* messages that are no longer followed

vars == <<submitted, reached, confirmed, abandoned>>

Init == submitted = {} /\ reached = {} /\ confirmed = {} /\ abandoned = {}

Unsettled == submitted \ (confirmed \cup abandoned)

\* A new message may displace one that waits, and no more than one.
Submit(m) ==
    /\ m \notin submitted
    /\ submitted' = submitted \cup {m}
    /\ abandoned' = abandoned \/ \E d \in Unsettled : abandoned' = abandoned \cup {d}
    /\ UNCHANGED <<reached, confirmed>>

Arrive(m) ==
    /\ m \in submitted
    /\ reached' = reached \cup {m}
    /\ UNCHANGED <<submitted, confirmed, abandoned>>

Confirm(m) ==
    /\ m \in reached \cap Unsettled
    /\ confirmed' = confirmed \cup {m}
    /\ UNCHANGED <<submitted, reached, abandoned>>

\* The messages that are dropped: the user switches the history off, or another
\* message takes the place of one.
Abandon(S) ==
    /\ S \subseteq Unsettled
    /\ abandoned' = abandoned \cup S
    /\ UNCHANGED <<submitted, reached, confirmed>>

Next ==
    \/ \E m \in Message : Submit(m) \/ Arrive(m) \/ Confirm(m)
    \/ \E S \in SUBSET Message : Abandon(S)

Spec == Init /\ [][Next]_vars
=============================================================================
