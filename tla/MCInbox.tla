------------------------------- MODULE MCInbox -------------------------------
(* Keys and policies for checking InboxEnvelope.                               *)
EXTENDS InboxEnvelope

CONSTANTS latest, first, ob1, ob2  \* two triggers, the obligations of two tics

MCKey == {latest, first, ob1, ob2}
MCPolicy == [k \in MCKey |-> IF k = first THEN "first_wins" ELSE "latest_wins"]
MCObligationKey == <<ob1, ob2>>
=============================================================================
