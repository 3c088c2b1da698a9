------------------------------ MODULE SignalRay ------------------------------
(* One row of the active manifest as manifest-prune.py projects it, tic after  *)
(* tic: decay, carry, re-escalation. Ages are counted from now and stop where  *)
(* the code stops telling them apart, so that time has no bound. Signals       *)
(* without a volume history.                                                   *)
EXTENDS Naturals

CONSTANTS
    Volume,      \* volumes an emitter or an actor gives a row
    QuietTics,   \* REESC_QUIET_TICS
    ReheatVolume \* REESC_VOLUME

ASSUME RayAssumption == Volume \subseteq Nat /\ QuietTics \in 1..10 /\ ReheatVolume \in Nat \ {0}

Unknown == 99       \* no tic to count an age from
AgeCap == 10

VARIABLES
    status,     \* raw status
    volume,
    owned,      \* resolution_action, scheduled_drill_tic, blocking dependency
    age,        \* tics since the last reinforcement
    quiet,      \* tics since the acknowledgement or the last re-escalation
    structural, \* structural_status
    hot,        \* heat > HEAT_FLOOR
    reminder,   \* re_escalation_reminder
    current     \* projected since the last tic or change

rayVars == <<status, volume, owned, age, quiet, structural, hot, reminder, current>>

(***************************************************************************)
(* project_signal                                                          *)
(***************************************************************************)
\* visible_volume in twentieths: decay stops at one half; an unknown age does
\* not decay; an owner adds one half.
Faded(a) == IF a = Unknown THEN 20 ELSE 20 - a
Visible(v, a, o) == IF o THEN (v * Faded(a) * 3) \div 2 ELSE v * Faded(a)

Carried(s) == s = "acknowledged"
Settled(s) == s \in {"resolved", "dismissed", "superseded"}
Structure(s, v, a, o) ==
    CASE s \in {"resolved", "dismissed"} -> "resolved"
      [] s = "superseded" -> "superseded"
      [] Carried(s) /\ v > 0 /\ Visible(v, a, o) <= 11 * v -> "dimmed"
      [] Carried(s) -> "carried"
      [] OTHER -> "live"

\* heat is visible_volume / 100, and 1.2 of it for a carried row; the floor is
\* 0.01.
Hot(s, v, a, o) ==
    ~Settled(s) /\ IF Carried(s) THEN Visible(v, a, o) * 6 > 100 ELSE Visible(v, a, o) > 20

\* The quiet clock: from the last decision or escalation, else from the last
\* reinforcement, else unmeasurable and therefore over.
\* Bug: an unknown age counts as fresh.
QuietFresh ==
    IF quiet # Unknown THEN quiet >= QuietTics ELSE age # Unknown /\ age >= QuietTics
Quiet ==
    IF quiet # Unknown THEN quiet >= QuietTics ELSE age = Unknown \/ age >= QuietTics

Escalates == Carried(status) /\ ~Hot(status, volume, age, owned) /\ ~owned /\ Quiet

\* is_active_ray.
ActiveRay ==
    /\ structural \notin {"resolved", "superseded"} /\ ~Settled(status)
    /\ structural = "live" \/ hot

(***************************************************************************)
(* The ray's life                                                          *)
(***************************************************************************)
RayInit ==
    /\ status = "active"
    /\ volume \in Volume
    /\ owned \in BOOLEAN
    /\ age \in {0, Unknown}
    /\ quiet = Unknown
    /\ structural = "live"
    /\ hot = Hot(status, volume, age, owned)
    /\ reminder = FALSE
    /\ current = FALSE

Older(a, cap) == IF a = Unknown \/ a = cap THEN a ELSE a + 1

\* A counted tic.
Tick ==
    /\ current                     \* every /cadence is followed by a prune
    /\ age' = Older(age, AgeCap)
    /\ quiet' = Older(quiet, QuietTics)
    /\ current' = FALSE
    /\ UNCHANGED <<status, volume, owned, structural, hot, reminder>>

Project ==
    /\ ~Settled(status) /\ ~current
    /\ IF Escalates
         THEN /\ volume' = ReheatVolume
              /\ hot' = (ReheatVolume * 24 > 20)
              /\ structural' = "carried"
              /\ quiet' = 0
              /\ reminder' = TRUE
         ELSE /\ hot' = Hot(status, volume, age, owned)
              /\ structural' = Structure(status, volume, age, owned)
              /\ UNCHANGED <<volume, quiet, reminder>>
    /\ current' = TRUE
    /\ UNCHANGED <<status, owned, age>>

\* Rows that actors append: acknowledged (with a volume of their choice), owned,
\* closed. A new row carries no projection.
Row(s, v, o, q) ==
    /\ ~Settled(status)
    /\ status' = s /\ volume' = v /\ owned' = o /\ quiet' = q
    /\ structural' = IF Settled(s) THEN "resolved" ELSE IF Carried(s) THEN "carried" ELSE "live"
    /\ hot' = (~Settled(s) /\ v > 1)
    /\ reminder' = FALSE /\ current' = FALSE
    /\ UNCHANGED age

Acknowledge(v) == Row("acknowledged", v, owned, 0)
AcknowledgeUndated(v) == \E q \in {quiet, Unknown} : Row("acknowledged", v, owned, q)
Own == ~owned /\ Row(status, volume, TRUE, quiet)
Close(s) == Row(s, volume, owned, quiet)

RayNext ==
    \/ Tick
    \/ Project
    \/ \E v \in Volume : Acknowledge(v) \/ AcknowledgeUndated(v)
    \/ Own
    \/ \E s \in {"resolved", "dismissed", "superseded"} : Close(s)

RaySpec == RayInit /\ [][RayNext]_rayVars

\* /cadence goes on, whatever the actors do, and prunes each time.
RayFairSpec == RaySpec /\ SF_rayVars(Tick) /\ WF_rayVars(Project)

(***************************************************************************)
(* Properties                                                              *)
(***************************************************************************)
\* Every variable holds what the comment at its declaration says.
RayTypeOK ==
    /\ status \in {"active", "acknowledged", "resolved", "dismissed", "superseded"}
    /\ volume \in Volume \cup {ReheatVolume}
    /\ owned \in BOOLEAN
    /\ age \in 0..AgeCap \cup {Unknown}
    /\ quiet \in 0..QuietTics \cup {Unknown}
    /\ structural \in {"live", "carried", "dimmed", "resolved", "superseded"}
    /\ hot \in BOOLEAN /\ reminder \in BOOLEAN /\ current \in BOOLEAN

\* "Silence is always temporary until a ray is carried by decision": an
\* acknowledged ray nobody owns comes back to the docket, or an actor decides.
SilenceEnds ==
    (status = "acknowledged" /\ ~owned /\ ~ActiveRay)
        ~> (ActiveRay \/ owned \/ Settled(status) \/ quiet = 0)
=============================================================================
