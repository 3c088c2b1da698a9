------------------------------- MODULE Mailbox -------------------------------
(* What the mailbox of one entity promises: every envelope has one status, and *)
(* the status moves along the state machine of inbox-envelope.py.              *)
EXTENDS Naturals

CONSTANT MaxId  \* bound: envelopes

VARIABLES
    status,  \* of each envelope; "CLOSED" is DONE or NACK
    killed   \* a process has been killed in the middle of a move

Init ==
    /\ status = [m \in 1..MaxId |-> "absent"]
    /\ killed = FALSE

Turn(from, to) == \E m \in 1..MaxId : status[m] \in from /\ status' = [status EXCEPT ![m] = to]
Move(from, to) == Turn(from, to) /\ UNCHANGED killed

Deliver == Move({"absent"}, "WAIT")
Claim == Move({"WAIT"}, "ACTIVE")
Defer == Move({"WAIT", "ACTIVE"}, "DEFER")
Resurface == Move({"DEFER"}, "WAIT")

\* Completed, refused, or superseded by a newer envelope of the same key.
Close == Move({"WAIT", "ACTIVE", "DEFER"}, "CLOSED")

\* An envelope that is superseded a second time is deleted. What a killed move
\* left of it then shows again.
Purge == Move({"CLOSED"}, "absent")
Return == killed /\ Move({"CLOSED"}, "DEFER")

\* The move that is killed may be the one that deletes.
Kill ==
    /\ killed' = TRUE
    /\ UNCHANGED status \/ Turn({"CLOSED"}, "absent") \/ Turn({"CLOSED"}, "DEFER")

Next == Deliver \/ Claim \/ Defer \/ Resurface \/ Close \/ Purge \/ Return \/ Kill

Spec == Init /\ [][Next]_<<status, killed>>
=============================================================================
