----------------------------- MODULE MCBoundary ------------------------------
(* Model values and argument sets for checking TicEmission and HandoffSeal. *)
EXTENDS HandoffSeal, TLC

CONSTANTS s1, s2

MCSession == {s1, s2}

Args(session, counted, armed, downbeat, conform, replay) ==
    [session |-> session, counted |-> counted, armed |-> armed, downbeat |-> downbeat,
     conform |-> conform, replay |-> replay]

\* Downbeats of either session or of none, a second emission that is armed, an
\* uncounted downbeat, a syncopate that skips the snapshot, and replays.
MCInvocation ==
    {Args(s, TRUE, FALSE, TRUE, TRUE, 0) : s \in MCSession \cup {NoSession}}
    \cup {Args(s1, TRUE, TRUE, TRUE, TRUE, 0), Args(s1, FALSE, FALSE, TRUE, TRUE, 0),
          Args(s2, TRUE, FALSE, FALSE, FALSE, 0)}
    \cup {Args(s1, TRUE, FALSE, TRUE, TRUE, n) : n \in 1..MaxEmission}

\* Deliberate boundaries only, which the guard lets through.
MCArmed == {Args(s1, TRUE, TRUE, TRUE, TRUE, 0)}

MCSymmetry == Permutations(Hook) \cup Permutations(Cadence)
=============================================================================
