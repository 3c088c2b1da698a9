----------------------------- MODULE TicEmission -----------------------------
(***************************************************************************)
(* The tic boundary of the CGG runtime: cadence-ops.py --fire.             *)
(*                                                                         *)
(* A counted emission appends a row to the tic log, refreshes the counter  *)
(* mirror, records itself in the guard sidecar and declares the boundary   *)
(* interstitial in the marker, all under one flock; the kernel drops the   *)
(* lock of a killed process.  The conformation snapshot follows outside    *)
(* the lock (and then the mandate: module MandateLifecycle).  The guard    *)
(* refuses a second emission of a session or of the last two minutes, and  *)
(* resolves a replay.  Every file but the log and the conformation is      *)
(* replaced atomically.  Emission ids are positions in the log.            *)
(***************************************************************************)
EXTENDS Naturals, Sequences, FiniteSets

CONSTANTS
    Cadence,      \* cadence-ops.py processes
    Session,      \* values of CLAUDE_CODE_SESSION_ID
    NoSession,    \* the variable is not set
    Invocation,   \* argument records a cadence process may be started with
    CadenceCrasher, \* the cadence processes that may be killed
    MaxEmission,  \* bound: rows of the tic log
    MaxKill       \* bound: kills

ASSUME SessionAssumption == NoSession \notin Session
ASSUME InvocationAssumption ==
    Invocation \subseteq [session : Session \cup {NoSession}, counted : BOOLEAN,
                          armed : BOOLEAN, downbeat : BOOLEAN, conform : BOOLEAN,
                          replay : Nat]
ASSUME FreeAssumption == "free" \notin Cadence
ASSUME EmissionBounds ==
    MaxEmission \in Nat /\ MaxKill \in Nat /\ CadenceCrasher \subseteq Cadence

VARIABLES
    log,     \* the rows of audit-logs/tics/*.jsonl
    mirror,  \* count in ~/.claude/cgg-tic-counter.json
    guard,   \* .emission-guard.json
    marker,  \* .interstitial-marker.json
    conf,    \* <<t, n>>: conformations/tic-<t>.json is the snapshot of emission n
    lock,    \* holder of .emission.lock
    at,      \* where each cadence process is
    call,    \* its arguments and local variables
    kills,   \* processes killed so far
    guarded  \* history: emissions that reached the guard sidecar

tics == <<log, mirror, guard, marker, conf, lock, at, call, kills, guarded>>

-----------------------------------------------------------------------------

NoEmission == 0

TicRow == [session : Session \cup {NoSession}, counted : BOOLEAN, downbeat : BOOLEAN,
           after : Nat, armed : BOOLEAN]

Guard == [em : Nat, session : Session \cup {NoSession}, after : Nat, fresh : BOOLEAN]
NoGuard == [em |-> NoEmission, session |-> NoSession, after |-> 0, fresh |-> FALSE]

Marker == [state : {"absent", "interstitial", "active"}, em : Nat, entry : Nat]
NoMarker == [state |-> "absent", em |-> NoEmission, entry |-> 0]

Call == [session : Session \cup {NoSession}, counted : BOOLEAN, armed : BOOLEAN,
         downbeat : BOOLEAN, conform : BOOLEAN, replay : Nat, em : Nat, tic : Nat]
NoCall == [session |-> NoSession, counted |-> FALSE, armed |-> FALSE,
           downbeat |-> FALSE, conform |-> FALSE, replay |-> NoEmission,
           em |-> NoEmission, tic |-> 0]

EmissionStep == {"idle", "lock", "decide", "append", "mirror", "guard", "marker",
                 "conformation"}

EmissionTypeOK ==
    /\ log \in Seq(TicRow)
    /\ mirror \in Nat
    /\ guard \in Guard
    /\ marker \in Marker
    /\ conf \subseteq Nat \X Nat
    /\ lock \in Cadence \cup {"free"}
    /\ at \in [Cadence -> EmissionStep]
    /\ call \in [Cadence -> Call]
    /\ kills \in Nat
    /\ guarded \subseteq Nat

EmissionInit ==
    /\ log = <<>> /\ mirror = 0
    /\ guard = NoGuard /\ marker = NoMarker
    /\ conf = {}
    /\ lock = "free"
    /\ at = [p \in Cadence |-> "idle"]
    /\ call = [p \in Cadence |-> NoCall]
    /\ kills = 0 /\ guarded = {}

-----------------------------------------------------------------------------

CountedTo(rows, n) == Cardinality({k \in 1..n : rows[k].counted})

\* count_physical_tics
Counted(rows) == CountedTo(rows, Len(rows))

Advance(p, step) == at' = [at EXCEPT ![p] = step]
Leave(p) == /\ at' = [at EXCEPT ![p] = "idle"]
            /\ call' = [call EXCEPT ![p] = NoCall]

\* Bound: every process on its way to the log finds room there.
Emitting == {p \in Cadence : at[p] \in {"lock", "decide", "append"}}
LogRoom == Len(log) + Cardinality(Emitting) < MaxEmission

\* cadence-ops.py --fire with its arguments; only a syncopate may skip the
\* conformation.
Fire(p) ==
    /\ at[p] = "idle" /\ LogRoom
    /\ \E c \in Invocation :
          /\ c.replay <= Len(log)
          /\ call' = [call EXCEPT ![p] =
                        [NoCall EXCEPT !.session = c.session, !.counted = c.counted,
                                       !.armed = c.armed, !.downbeat = c.downbeat,
                                       !.conform = c.downbeat \/ c.conform,
                                       !.replay = c.replay]]
    /\ Advance(p, "lock")
    /\ UNCHANGED <<log, mirror, guard, marker, conf, lock, kills, guarded>>

\* Mutant: the lock is not taken.
LockSkipped(p) ==
    /\ at[p] = "lock"
    /\ lock' = p
    /\ Advance(p, "decide")
    /\ UNCHANGED <<log, mirror, guard, marker, conf, call, kills, guarded>>

\* flock(LOCK_EX)
Lock(p) ==
    /\ at[p] = "lock"
    /\ lock = "free"
    /\ lock' = p
    /\ Advance(p, "decide")
    /\ UNCHANGED <<log, mirror, guard, marker, conf, call, kills, guarded>>

\* A replay of the boundary the guard remembers.
Replays(c) == c.replay # NoEmission /\ guard.em = c.replay

\* Mutant: only the two-minute window is looked at.
SuspectByWindow(c) == c.counted /\ guard.em # NoEmission /\ guard.fresh

\* check_counted_emission_guard: same session, or less than 120 s ago.
Suspect(c) ==
    /\ c.counted
    /\ guard.em # NoEmission
    /\ \/ c.session # NoSession /\ c.session = guard.session
       \/ guard.fresh

Refused(c) == /\ ~Replays(c) /\ ~c.armed
              /\ c.replay # NoEmission \/ Suspect(c)

\* The matching replay returns the existing tic, for main to repair what is
\* missing downstream.
Replay(p) ==
    /\ at[p] = "decide"
    /\ Replays(call[p])
    /\ call' = [call EXCEPT ![p].em = guard.em, ![p].tic = guard.after]
    /\ lock' = "free"
    /\ Advance(p, "conformation")
    /\ UNCHANGED <<log, mirror, guard, marker, conf, kills, guarded>>

Refuse(p) ==
    /\ at[p] = "decide"
    /\ Refused(call[p])
    /\ lock' = "free"
    /\ Leave(p)
    /\ UNCHANGED <<log, mirror, guard, marker, conf, kills, guarded>>

\* Mutant: an emission that does not count takes one off.
CountBackwards(p) ==
    /\ at[p] = "decide"
    /\ ~Replays(call[p]) /\ ~Refused(call[p])
    /\ call' = [call EXCEPT ![p].tic = IF call[p].counted THEN Counted(log) + 1
                                                         ELSE Counted(log) - 1]
    /\ Advance(p, "append")
    /\ UNCHANGED <<log, mirror, guard, marker, conf, lock, kills, guarded>>

\* before and after are computed from the log.
Count(p) ==
    /\ at[p] = "decide"
    /\ ~Replays(call[p]) /\ ~Refused(call[p])
    /\ call' = [call EXCEPT ![p].tic = Counted(log) + (IF call[p].counted THEN 1 ELSE 0)]
    /\ Advance(p, "append")
    /\ UNCHANGED <<log, mirror, guard, marker, conf, lock, kills, guarded>>

RowOf(c) == [session |-> c.session, counted |-> c.counted, downbeat |-> c.downbeat,
             after |-> c.tic, armed |-> c.armed]

Append_(p) ==
    /\ at[p] = "append"
    /\ log' = Append(log, RowOf(call[p]))
    /\ call' = [call EXCEPT ![p].em = Len(log')]
    /\ Advance(p, "mirror")
    /\ UNCHANGED <<mirror, guard, marker, conf, lock, kills, guarded>>

\* An uncounted emission leaves guard and marker alone.
Mirror(p) ==
    /\ at[p] = "mirror"
    /\ mirror' = call[p].tic
    /\ IF call[p].counted
       THEN Advance(p, "guard") /\ UNCHANGED lock
       ELSE Advance(p, "conformation") /\ lock' = "free"
    /\ UNCHANGED <<log, guard, marker, conf, call, kills, guarded>>

RecordGuard(p) ==
    /\ at[p] = "guard"
    /\ guard' = [em |-> call[p].em, session |-> call[p].session,
                 after |-> call[p].tic, fresh |-> TRUE]
    /\ guarded' = guarded \cup {call[p].em}
    /\ Advance(p, "marker")
    /\ UNCHANGED <<log, mirror, marker, conf, lock, call, kills>>

\* Mutant: a boundary that is still interstitial keeps the marker.
DeclareInterstitialOnce(p) ==
    /\ at[p] = "marker"
    /\ marker' = IF marker.state = "interstitial" THEN marker
                 ELSE [state |-> "interstitial", em |-> call[p].em, entry |-> call[p].tic]
    /\ lock' = "free"
    /\ Advance(p, "conformation")
    /\ UNCHANGED <<log, mirror, guard, conf, call, kills, guarded>>

DeclareInterstitial(p) ==
    /\ at[p] = "marker"
    /\ marker' = [state |-> "interstitial", em |-> call[p].em, entry |-> call[p].tic]
    /\ lock' = "free"
    /\ Advance(p, "conformation")
    /\ UNCHANGED <<log, mirror, guard, conf, call, kills, guarded>>

\* conformations/tic-<t>.json is replaced.
Snapshot(t, em) == conf' = {s \in conf : s[1] # t} \cup {<<t, em>>}

\* Mutant: the tic is read back from the counter mirror.
ConformationFromMirror(p) ==
    /\ at[p] = "conformation"
    /\ IF call[p].conform THEN Snapshot(mirror, call[p].em) ELSE UNCHANGED conf
    /\ Leave(p)
    /\ UNCHANGED <<log, mirror, guard, marker, lock, kills, guarded>>

\* write_conformation: skipped when the file carries this emission already.
Conformation(p) ==
    /\ at[p] = "conformation"
    /\ IF call[p].conform THEN Snapshot(call[p].tic, call[p].em) ELSE UNCHANGED conf
    /\ Leave(p)
    /\ UNCHANGED <<log, mirror, guard, marker, lock, kills, guarded>>

\* The last emission is two minutes old, or the wall clock went back.
WindowPasses ==
    /\ guard.fresh
    /\ guard' = [guard EXCEPT !.fresh = FALSE]
    /\ UNCHANGED <<log, mirror, marker, conf, lock, at, call, kills, guarded>>

\* The process is killed; inside write_conformation the file may stay truncated.
Kill(p) ==
    /\ at[p] # "idle"
    /\ kills < MaxKill
    /\ kills' = kills + 1
    /\ lock' = IF lock = p THEN "free" ELSE lock
    /\ \/ conf' = conf
       \/ /\ at[p] = "conformation" /\ call[p].conform
          /\ <<call[p].tic, call[p].em>> \notin conf
          /\ conf' = {s \in conf : s[1] # call[p].tic}
    /\ Leave(p)
    /\ UNCHANGED <<log, mirror, guard, marker, guarded>>

CadenceStep(p) ==
    \/ Fire(p) \/ Lock(p) \/ Replay(p) \/ Refuse(p) \/ Count(p) \/ Append_(p)
    \/ Mirror(p) \/ RecordGuard(p) \/ DeclareInterstitial(p) \/ Conformation(p)

EmissionNext ==
    \/ \E p \in Cadence : CadenceStep(p)
    \/ \E p \in CadenceCrasher : Kill(p)
    \/ WindowPasses

EmissionSpec == EmissionInit /\ [][EmissionNext]_tics

-----------------------------------------------------------------------------
(* Properties *)

\* The tics are numbered without gap or repetition, whichever cadence
\* processes overlap or die: count and append are one critical section.
CountersConsecutive ==
    \A n \in DOMAIN log : log[n].after = CountedTo(log, n)

NextCounted(m, n) ==
    /\ m < n /\ log[m].counted /\ log[n].counted
    /\ \A k \in (m + 1)..(n - 1) : ~log[k].counted

\* The phantom tic of 266, 579, 580 and 588: a session's counted emission is
\* not followed by another of its own unless that one was armed, provided the
\* first lived to write its guard.
PhantomRefused ==
    \A m, n \in DOMAIN log :
        /\ NextCounted(m, n) /\ m \in guarded
        /\ log[m].session = log[n].session /\ log[m].session # NoSession
        => log[n].armed

LastCounted == LET rows == {n \in DOMAIN log : log[n].counted} IN
    IF rows = {} THEN NoEmission
    ELSE CHOOSE n \in rows : \A m \in rows : m <= n

\* A snapshot conformations/tic-<t>.json is of an emission of tic t, and no
\* finished downbeat is without one (CogPR-43) unless a process was killed.
TicHasConformation ==
    /\ \A s \in conf : log[s[2]].after = s[1]
    /\ kills = 0 =>
         \A n \in DOMAIN log :
            /\ log[n].counted /\ log[n].downbeat
            /\ \A p \in Cadence : call[p].em # n
            => \E s \in conf : s[1] = log[n].after
=============================================================================
