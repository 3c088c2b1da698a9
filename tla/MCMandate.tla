------------------------------- MODULE MCMandate -------------------------------
(* Model values and symmetry for checking MandateLifecycle on small instances. *)
EXTENDS MandateLifecycle, TLC

CONSTANTS q, h, c  \* queue_refresh, harmony_invoke, review_close_check

MCCycle == {q, h, c}
MCLightweight == {q}

\* /cadence requests heavy cycles, the set computed from the tic; a session
\* start requests the lightweight ones and /review its consistency check.
MCWants ==
    [kind \in Kind |-> [t \in 0..MaxTic |->
        CASE kind = "cadence" -> {IF t % 2 = 0 THEN {q, c} ELSE {q, h}}
          [] kind = "session" -> {{q}}
          [] kind = "review"  -> {{c}}]]

\* Only /cadence writes.
MCCadenceWants ==
    [kind \in Kind |-> [t \in 0..MaxTic |->
        IF kind = "cadence" THEN MCWants[kind][t] ELSE {}]]

MCSymmetry == Permutations(Writer) \cup Permutations(Runner)
=============================================================================
