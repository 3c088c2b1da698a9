----------------------------- MODULE HandoffSeal -----------------------------
(***************************************************************************)
(* The handoff seal: how the plan approved at a tic boundary reaches the   *)
(* next session (cadence-handoff-seal.py) and the pause gate of            *)
(* cgg-gate.sh.                                                            *)
(*                                                                         *)
(* PreToolUse:ExitPlanMode stages a seal, PostToolUse promotes it to the   *)
(* current one, and the reconciler of every SessionStart consumes it,      *)
(* arms the pause it asks for and flips the interstitial marker to active. *)
(* The hooks run as separate processes and share files without a lock;     *)
(* /cadence (module TicEmission) moves the marker under their hands.       *)
(***************************************************************************)
EXTENDS TicEmission

CONSTANTS
    Hook,       \* hook processes
    HookCrasher,\* those that may be killed
    MaxSeal,    \* bound: seals staged
    MaxPause    \* bound: /cadence pause-next invocations

ASSUME HookAssumption == HookCrasher \subseteq Hook
ASSUME SealBounds == MaxSeal \in Nat /\ MaxPause \in Nat

VARIABLES
    staged,     \* handoff-seal-staged.json
    current,    \* handoff-seal-current.json
    journal,    \* consumptions in handoff-seals.jsonl, each <<seal, emission>>
    pauseNext,  \* cadence-pause-next.json exists
    pauseActive,\* emission of pause-after-boot-active.json, or NoEmission
    hook,       \* where each hook process is
    held,       \* what it read and is about to write
    sealed,     \* number of seals staged
    pauses,     \* number of pause-next invocations
    uses,       \* history: consumptions of each seal
    overlap,    \* history: two hooks ran at the same time
    stale,      \* history: a reconciler wrote back a marker that had moved since
    asked       \* history: <<boundary, seal>> of stagings that took the override

seals == <<staged, current, journal, pauseNext, pauseActive, hook, held, sealed,
           pauses, uses, overlap, stale, asked>>
vars == <<tics, seals>>

-----------------------------------------------------------------------------

Mode == {"continuous", "pause_after_boot"}

Seal == [id : 0..MaxSeal, bound : BOOLEAN, em : Nat, entry : Nat, mode : Mode,
         consumed : BOOLEAN]
NoSeal == [id |-> 0, bound |-> FALSE, em |-> NoEmission, entry |-> 0,
           mode |-> "continuous", consumed |-> FALSE]
Exists(s) == s.id # 0

Held == [seal : Seal, marker : Marker, recovered : BOOLEAN]
NoHeld == [seal |-> NoSeal, marker |-> NoMarker, recovered |-> FALSE]

HookStep == {"idle", "unlinkPause", "stage", "promote", "unstage",
             "consume", "journal", "unlinkStaged", "pause", "flip"}

SealTypeOK ==
    /\ EmissionTypeOK
    /\ staged \in Seal /\ current \in Seal
    /\ journal \subseteq (0..MaxSeal) \X Nat
    /\ pauseNext \in BOOLEAN
    /\ pauseActive \in Nat
    /\ hook \in [Hook -> HookStep]
    /\ held \in [Hook -> Held]
    /\ sealed \in 0..MaxSeal /\ pauses \in 0..MaxPause
    /\ uses \in [1..MaxSeal -> Nat]
    /\ overlap \in BOOLEAN /\ stale \in BOOLEAN
    /\ asked \subseteq Nat \X (1..MaxSeal)

Init ==
    /\ EmissionInit
    /\ staged = NoSeal /\ current = NoSeal /\ journal = {}
    /\ pauseNext = FALSE /\ pauseActive = NoEmission
    /\ hook = [h \in Hook |-> "idle"]
    /\ held = [h \in Hook |-> NoHeld]
    /\ sealed = 0 /\ pauses = 0
    /\ uses = [s \in 1..MaxSeal |-> 0]
    /\ overlap = FALSE /\ stale = FALSE /\ asked = {}

\* A hook that starts while another runs.
Begin(h, step) ==
    /\ hook[h] = "idle"
    /\ hook' = [hook EXCEPT ![h] = step]
    /\ overlap' = (overlap \/ \E g \in Hook \ {h} : hook[g] # "idle")
Proceed(h, step) == hook' = [hook EXCEPT ![h] = step]
Finish(h) == /\ Proceed(h, "idle")
             /\ held' = [held EXCEPT ![h] = NoHeld]

-----------------------------------------------------------------------------
(* The hooks of ExitPlanMode *)

\* Mutant: a seal staged before hands its mode on.
PreModeSticky ==
    IF pauseNext \/ staged.mode = "pause_after_boot" THEN "pause_after_boot"
    ELSE "continuous"

\* resolve_activation_mode
PreMode == IF pauseNext THEN "pause_after_boot" ELSE "continuous"

\* handle_pre: the seal is bound to the marker's boundary when that is still
\* interstitial, and takes the pause-next override if there is one.
Pre(h) ==
    /\ sealed < MaxSeal
    /\ LET seal == [id |-> sealed + 1, bound |-> marker.state = "interstitial",
                    em |-> marker.em, entry |-> marker.entry, mode |-> PreMode,
                    consumed |-> FALSE]
       IN held' = [held EXCEPT ![h].seal = seal]
    /\ sealed' = sealed + 1
    /\ asked' = IF pauseNext THEN asked \cup {<<marker.em, sealed + 1>>} ELSE asked
    /\ Begin(h, IF pauseNext THEN "unlinkPause" ELSE "stage")
    /\ UNCHANGED <<tics, staged, current, journal, pauseNext, pauseActive, pauses,
                   uses, stale>>

UnlinkPause(h) ==
    /\ hook[h] = "unlinkPause"
    /\ pauseNext' = FALSE
    /\ Proceed(h, "stage")
    /\ UNCHANGED <<tics, staged, current, journal, pauseActive, held, sealed, pauses,
                   uses, overlap, stale, asked>>

Stage(h) ==
    /\ hook[h] = "stage"
    /\ staged' = held[h].seal
    /\ Finish(h)
    /\ UNCHANGED <<tics, current, journal, pauseNext, pauseActive, sealed, pauses,
                   uses, overlap, stale, asked>>

\* handle_post reads the staged record; there may be none.
Post(h) ==
    /\ held' = [held EXCEPT ![h].seal = staged]
    /\ Begin(h, "promote")
    /\ UNCHANGED <<tics, staged, current, journal, pauseNext, pauseActive, sealed,
                   pauses, uses, stale, asked>>

\* Only a seal bound to a real boundary becomes the current one.
Promote(h) ==
    /\ hook[h] = "promote"
    /\ LET seal == held[h].seal IN
       current' = IF seal.bound /\ seal.em # NoEmission THEN seal ELSE current
    /\ Proceed(h, "unstage")
    /\ UNCHANGED <<tics, staged, journal, pauseNext, pauseActive, held, sealed, pauses,
                   uses, overlap, stale, asked>>

\* The staged record is one-shot: whatever is staged by now is removed.
Unstage(h) ==
    /\ hook[h] = "unstage"
    /\ staged' = NoSeal
    /\ Finish(h)
    /\ UNCHANGED <<tics, current, journal, pauseNext, pauseActive, sealed, pauses,
                   uses, overlap, stale, asked>>

-----------------------------------------------------------------------------
(* SessionStart: --reconcile-at-start.  A subagent or a headless citizen only  *)
(* journals its sighting; nothing modelled here changes.                       *)

\* Mutant: a consumed seal still awaits its session.
AwaitsAlways(s) == Exists(s)

\* consumed_at is null
Awaits(s) == Exists(s) /\ ~s.consumed

\* A current seal of another boundary than the live one is refused.
Agrees(s, m) == m.em = NoEmission \/ s.em = m.em

\* Recovery needs the matching live boundary; the plan file that evidences the
\* approval may be missing or differ, and then nothing happens.
Recoverable(s, m) == m.em # NoEmission /\ s.em = m.em /\ s.entry = m.entry

\* Mutant: the marker is flipped before the seal is consumed.
ClaimFlipsFirst(h, seal, recovered) ==
    /\ held' = [held EXCEPT ![h] = [seal |-> [seal EXCEPT !.consumed = TRUE],
                                    marker |-> marker, recovered |-> recovered]]
    /\ marker' = [marker EXCEPT !.state = IF @ = "absent" THEN @ ELSE "active"]
    /\ Begin(h, "consume")
    /\ UNCHANGED <<log, mirror, guard, conf, lock, at, call, kills, guarded,
                   staged, current, journal, pauseNext, pauseActive, sealed, pauses,
                   uses, stale, asked>>

\* What a primary reconciler read and decided to consume.
Claim(h, seal, recovered) ==
    /\ held' = [held EXCEPT ![h] = [seal |-> [seal EXCEPT !.consumed = TRUE],
                                    marker |-> marker, recovered |-> recovered]]
    /\ Begin(h, "consume")
    /\ UNCHANGED <<tics, staged, current, journal, pauseNext, pauseActive, sealed,
                   pauses, uses, stale, asked>>

Reconcile(h) ==
    /\ Awaits(current) /\ Agrees(current, marker)
    /\ Claim(h, current, FALSE)

Recover(h) ==
    /\ ~Awaits(current)
    /\ Exists(staged) /\ Recoverable(staged, marker)
    /\ Claim(h, staged, TRUE)

Consume(h) ==
    /\ hook[h] = "consume"
    /\ current' = held[h].seal
    /\ uses' = [uses EXCEPT ![held[h].seal.id] = @ + 1]
    /\ Proceed(h, "journal")
    /\ UNCHANGED <<tics, staged, journal, pauseNext, pauseActive, held, sealed, pauses,
                   overlap, stale, asked>>

Journal(h) ==
    /\ hook[h] = "journal"
    /\ journal' = journal \cup {<<held[h].seal.id, held[h].seal.em>>}
    /\ Proceed(h, IF held[h].recovered THEN "unlinkStaged" ELSE "pause")
    /\ UNCHANGED <<tics, staged, current, pauseNext, pauseActive, held, sealed, pauses,
                   uses, overlap, stale, asked>>

UnlinkStaged(h) ==
    /\ hook[h] = "unlinkStaged"
    /\ staged' = NoSeal
    /\ Proceed(h, "pause")
    /\ UNCHANGED <<tics, current, journal, pauseNext, pauseActive, held, sealed, pauses,
                   uses, overlap, stale, asked>>

ArmPause(h) ==
    /\ hook[h] = "pause"
    /\ pauseActive' = IF held[h].seal.mode = "pause_after_boot"
                      THEN held[h].seal.em ELSE pauseActive
    /\ Proceed(h, "flip")
    /\ UNCHANGED <<tics, staged, current, journal, pauseNext, held, sealed, pauses,
                   uses, overlap, stale, asked>>

\* The marker read at the start is written back, active.
Flip(h) ==
    /\ hook[h] = "flip"
    /\ LET m == held[h].marker IN
       IF m.state # "absent" /\ m.em = held[h].seal.em
       THEN /\ marker' = [m EXCEPT !.state = "active"]
            /\ stale' = (stale \/ marker # m)
       ELSE UNCHANGED <<marker, stale>>
    /\ Finish(h)
    /\ UNCHANGED <<log, mirror, guard, conf, lock, at, call, kills, guarded,
                   staged, current, journal, pauseNext, pauseActive, sealed, pauses,
                   uses, overlap, asked>>

-----------------------------------------------------------------------------
(* The Architect *)

\* /cadence pause-next
ArmPauseNext ==
    /\ ~pauseNext /\ pauses < MaxPause
    /\ pauseNext' = TRUE
    /\ pauses' = pauses + 1
    /\ UNCHANGED <<tics, staged, current, journal, pauseActive, hook, held, sealed,
                   uses, overlap, stale, asked>>

\* A prompt that starts with "continue" opens the gate (cgg-gate.sh).
Continue ==
    /\ pauseActive # NoEmission
    /\ pauseActive' = NoEmission
    /\ UNCHANGED <<tics, staged, current, journal, pauseNext, hook, held, sealed, pauses,
                   uses, overlap, stale, asked>>

KillHook(h) ==
    /\ hook[h] # "idle"
    /\ kills < MaxKill
    /\ kills' = kills + 1
    /\ Finish(h)
    /\ UNCHANGED <<log, mirror, guard, marker, conf, lock, at, call, guarded,
                   staged, current, journal, pauseNext, pauseActive, sealed, pauses,
                   uses, overlap, stale, asked>>

HookStepOf(h) ==
    \/ Pre(h) \/ UnlinkPause(h) \/ Stage(h)
    \/ Post(h) \/ Promote(h) \/ Unstage(h)
    \/ Reconcile(h) \/ Recover(h) \/ Consume(h) \/ Journal(h) \/ UnlinkStaged(h)
    \/ ArmPause(h) \/ Flip(h)

Next ==
    \/ EmissionNext /\ UNCHANGED seals
    \/ \E h \in Hook : HookStepOf(h)
    \/ \E h \in HookCrasher : KillHook(h)
    \/ ArmPauseNext \/ Continue

Spec == Init /\ [][Next]_vars

-----------------------------------------------------------------------------
(* Properties *)

\* The guard and the marker name the last counted boundary while nobody emits,
\* unless a process was killed or a reconciler wrote back a marker it had read
\* before the boundary moved.
BoundaryAgreed ==
    lock = "free" /\ kills = 0 =>
        /\ guard.em = LastCounted
        /\ ~stale => marker.em = LastCounted

\* A boundary becomes active only when its own seal was consumed: a generic or
\* background SessionStart never clears the interstitial (t634 item 3).
ActivatedBySeal ==
    marker.state = "active" => \E entry \in journal : entry[2] = marker.em

\* A seal is consumed once (guard: consumed_at null), unless two hooks
\* overlapped or one was killed half-way.
ConsumedOnce ==
    ~overlap /\ kills = 0 => \A s \in 1..MaxSeal : uses[s] <= 1

\* The gate is held only for a boundary at which a seal took the pause-next
\* override: it never leaks to a later one.
PausedByChoice ==
    pauseActive # NoEmission => \E taken \in asked : taken[1] = pauseActive
=============================================================================
