-------------------------- MODULE HandoffSealProofs --------------------------
(***************************************************************************)
(* TLAPS proofs about HandoffSeal (with TicEmission inside), for every set *)
(* of processes, sessions and invocations and every bound.                 *)
(***************************************************************************)
EXTENDS HandoffSeal, TicEmissionProofs

-----------------------------------------------------------------------------
(* The inductive invariant *)

\* Unless a reconciler wrote an old one back, the marker follows the guard.
MarkerFollows == kills = 0 /\ ~stale /\ Settled => marker.em = guard.em

\* Before a hook touches marker or pause, the consumption is in the journal.
Journaled ==
    \A h \in Hook : hook[h] \in {"unlinkStaged", "pause", "flip"} =>
        <<held[h].seal.id, held[h].seal.em>> \in journal

AskedFor(s) == s.mode = "pause_after_boot" => <<s.em, s.id>> \in asked
PausesAsked ==
    AskedFor(staged) /\ AskedFor(current) /\ \A h \in Hook : AskedFor(held[h].seal)

\* Seals are numbered in the order they are staged.
Numbered ==
    /\ staged.id <= sealed /\ current.id <= sealed
    /\ \A h \in Hook : held[h].seal.id <= sealed

Unused(s) == Exists(s) => uses[s.id] = 0

\* A recovered seal is still staged, though consumed.
Recovering(h) == hook[h] \in {"journal", "unlinkStaged"} /\ held[h].recovered

\* What a hook that runs alone knows of the seals.
HookAgrees(h) ==
    LET s == held[h].seal IN
    /\ hook[h] \in {"unlinkPause", "stage"} =>
          s.id = sealed /\ staged.id # s.id /\ current.id # s.id /\ uses[s.id] = 0
    /\ hook[h] = "promote" => s = staged
    /\ hook[h] = "consume" =>
          /\ Exists(s) /\ s.consumed /\ uses[s.id] = 0
          /\ held[h].recovered <=> staged.id = s.id

\* While no two hooks overlap and none is killed, a seal is in one place:
\* staged, or current and awaiting its session, or consumed once.
OneUse ==
    ~overlap /\ kills = 0 =>
        /\ \A g, h \in Hook : hook[g] # "idle" /\ hook[h] # "idle" => g = h
        /\ \A s \in 1..MaxSeal : uses[s] <= 1 /\ (s > sealed => uses[s] = 0)
        /\ Awaits(current) => uses[current.id] = 0
        /\ (\A h \in Hook : ~Recovering(h)) => Unused(staged)
        /\ Exists(staged) /\ (\A h \in Hook : ~Recovering(h) /\ hook[h] # "unstage")
              => staged.id # current.id
        /\ \A h \in Hook : HookAgrees(h)

SealInv ==
    /\ EmissionInv
    /\ SealTypeOK
    /\ MarkerFollows
    /\ Journaled
    /\ ActivatedBySeal
    /\ PausesAsked
    /\ PausedByChoice
    /\ Numbered
    /\ OneUse

-----------------------------------------------------------------------------
(* Types *)

LEMMA SealNulls == NoSeal \in Seal /\ NoHeld \in Held
BY SealBounds, NullTypes DEF NoSeal, Seal, NoHeld, Held, Mode, NoEmission

LEMMA FinishType ==
    ASSUME SealTypeOK, NEW h \in Hook, Finish(h)
    PROVE  hook' \in [Hook -> HookStep] /\ held' \in [Hook -> Held]
BY SealNulls DEF SealTypeOK, Finish, Proceed, HookStep

LEMMA BeginType ==
    ASSUME SealTypeOK, NEW h \in Hook, NEW step \in HookStep, Begin(h, step)
    PROVE  hook' \in [Hook -> HookStep] /\ overlap' \in BOOLEAN
BY DEF SealTypeOK, Begin

LEMMA ProceedType ==
    ASSUME SealTypeOK, NEW h \in Hook, NEW step \in HookStep, Proceed(h, step)
    PROVE  hook' \in [Hook -> HookStep]
BY DEF SealTypeOK, Proceed

\* Hooks change nothing of cadence's but the marker, and only Flip does that.
LEMMA HookFrame ==
    ASSUME SealTypeOK, NEW h \in Hook, HookStepOf(h) \/ KillHook(h)
    PROVE  /\ UNCHANGED <<log, mirror, guard, conf, lock, at, call, guarded>>
           /\ marker' \in Marker
           /\ kills' = kills \/ kills' = kills + 1
           /\ ~Flip(h) => marker' = marker /\ stale' = stale
           /\ ~KillHook(h) => kills' = kills
           /\ KillHook(h) => kills' = kills + 1
<1>1. marker \in Marker /\ held[h] \in Held
  BY DEF SealTypeOK, EmissionTypeOK
<1>2. CASE Flip(h)
  BY <1>1, <1>2 DEF Flip, Finish, Proceed, KillHook, Held, Marker
<1>3. CASE KillHook(h)
  BY <1>1, <1>3 DEF KillHook, Flip, Finish, Proceed, tics
<1>4. CASE ~Flip(h) /\ ~KillHook(h)
  BY <1>1, <1>4 DEF HookStepOf, Pre, UnlinkPause, Stage, Post, Promote, Unstage,
     Reconcile, Recover, Claim, Consume, Journal, UnlinkStaged, ArmPause, tics
<1>5. QED
  BY <1>2, <1>3, <1>4

\* The hooks keep their own files well typed.
LEMMA HookTypes ==
    ASSUME SealTypeOK, NEW h \in Hook, HookStepOf(h) \/ KillHook(h)
    PROVE  SealTypeOK'
<1>1. EmissionTypeOK'
  <2>1. /\ UNCHANGED <<log, mirror, guard, conf, lock, at, call, guarded>>
        /\ marker' \in Marker /\ (kills' = kills \/ kills' = kills + 1)
    BY HookFrame
  <2>2. QED
    BY <2>1 DEF SealTypeOK, EmissionTypeOK
<1>2. /\ held[h] \in Held /\ held[h].seal \in Seal /\ marker \in Marker
      /\ staged \in Seal /\ current \in Seal
  BY DEF SealTypeOK, EmissionTypeOK, Held
<1>3. CASE Pre(h)
  <2> DEFINE seal == [id |-> sealed + 1, bound |-> marker.state = "interstitial",
                      em |-> marker.em, entry |-> marker.entry, mode |-> PreMode,
                      consumed |-> FALSE]
  <2>1. sealed + 1 \in 1..MaxSeal
    BY <1>3, SealBounds DEF Pre, SealTypeOK
  <2>2. seal \in Seal
    BY <1>2, <2>1, SealBounds DEF Seal, Marker, PreMode, Mode
  <2>3. held' \in [Hook -> Held]
    BY <1>3, <2>2 DEF Pre, SealTypeOK, Held
  <2>4. <<marker.em, sealed + 1>> \in Nat \X (1..MaxSeal)
    BY <1>2, <2>1 DEF Marker
  <2>5. hook' \in [Hook -> HookStep] /\ overlap' \in BOOLEAN
    BY <1>3, BeginType DEF Pre, HookStep
  <2>6. QED
    BY <1>1, <1>3, <2>1, <2>3, <2>4, <2>5, SealBounds DEF Pre, SealTypeOK
<1>4. CASE UnlinkPause(h)
  <2>1. hook' \in [Hook -> HookStep]
    BY <1>4, ProceedType DEF UnlinkPause, HookStep
  <2>2. QED
    BY <1>1, <1>4, <2>1 DEF UnlinkPause, SealTypeOK
<1>5. CASE Stage(h)
  BY <1>1, <1>2, <1>5, FinishType DEF Stage, SealTypeOK
<1>6. CASE Post(h)
  <2>1. held' \in [Hook -> Held]
    BY <1>2, <1>6 DEF Post, SealTypeOK, Held
  <2>2. hook' \in [Hook -> HookStep] /\ overlap' \in BOOLEAN
    BY <1>6, BeginType DEF Post, HookStep
  <2>3. QED
    BY <1>1, <1>6, <2>1, <2>2 DEF Post, SealTypeOK
<1>7. CASE Promote(h)
  <2>1. hook' \in [Hook -> HookStep]
    BY <1>7, ProceedType DEF Promote, HookStep
  <2>2. QED
    BY <1>1, <1>2, <1>7, <2>1 DEF Promote, SealTypeOK
<1>8. CASE Unstage(h)
  BY <1>1, <1>8, FinishType, SealNulls DEF Unstage, SealTypeOK
<1>9. ASSUME NEW s \in Seal, NEW recovered \in BOOLEAN, Claim(h, s, recovered)
      PROVE  SealTypeOK'
  <2>1. [s EXCEPT !.consumed = TRUE] \in Seal
    BY DEF Seal
  <2>2. held' \in [Hook -> Held]
    BY <1>2, <1>9, <2>1 DEF Claim, SealTypeOK, Held
  <2>3. hook' \in [Hook -> HookStep] /\ overlap' \in BOOLEAN
    BY <1>9, BeginType DEF Claim, HookStep
  <2>4. QED
    BY <1>1, <1>9, <2>2, <2>3 DEF Claim, SealTypeOK
<1>10. CASE Reconcile(h) \/ Recover(h)
  BY <1>2, <1>9, <1>10 DEF Reconcile, Recover
<1>11. CASE Consume(h)
  <2>1. hook' \in [Hook -> HookStep]
    BY <1>11, ProceedType DEF Consume, HookStep
  <2>2. uses' \in [1..MaxSeal -> Nat]
    <3> DEFINE id == held[h].seal.id
    <3>1. uses' = [s \in 1..MaxSeal |-> IF s = id THEN uses[s] + 1 ELSE uses[s]]
      BY <1>11 DEF Consume, SealTypeOK
    <3>2. QED
      BY <3>1 DEF SealTypeOK
  <2>3. QED
    BY <1>1, <1>2, <1>11, <2>1, <2>2 DEF Consume, SealTypeOK
<1>12. CASE Journal(h)
  <2>1. hook' \in [Hook -> HookStep]
    BY <1>12, ProceedType DEF Journal, HookStep
  <2>2. <<held[h].seal.id, held[h].seal.em>> \in (0..MaxSeal) \X Nat
    BY <1>2 DEF Seal
  <2>3. QED
    BY <1>1, <1>12, <2>1, <2>2 DEF Journal, SealTypeOK
<1>13. CASE UnlinkStaged(h)
  <2>1. hook' \in [Hook -> HookStep]
    BY <1>13, ProceedType DEF UnlinkStaged, HookStep
  <2>2. QED
    BY <1>1, <1>13, <2>1, SealNulls DEF UnlinkStaged, SealTypeOK
<1>14. CASE ArmPause(h)
  <2>1. hook' \in [Hook -> HookStep]
    BY <1>14, ProceedType DEF ArmPause, HookStep
  <2>2. held[h].seal.em \in Nat
    BY <1>2 DEF Seal
  <2>3. QED
    BY <1>1, <1>14, <2>1, <2>2 DEF ArmPause, SealTypeOK
<1>15. CASE Flip(h)
  <2>1. stale' \in BOOLEAN
    BY <1>15 DEF Flip, SealTypeOK
  <2>2. QED
    BY <1>1, <1>15, <2>1, FinishType DEF Flip, SealTypeOK
<1>16. CASE KillHook(h)
  BY <1>1, <1>16, FinishType DEF KillHook, SealTypeOK
<1>17. QED
  BY <1>3, <1>4, <1>5, <1>6, <1>7, <1>8, <1>10, <1>11, <1>12, <1>13, <1>14, <1>15, <1>16
  DEF HookStepOf

-----------------------------------------------------------------------------
(* The marker *)

LEMMA CadenceMarker ==
    ASSUME SealInv, EmissionNext, UNCHANGED seals
    PROVE  MarkerFollows' /\ ActivatedBySeal'
<1>1. /\ EmissionTypeOK /\ EmissionInv /\ LockHeld /\ MarkerFollows /\ ActivatedBySeal
      /\ stale' = stale /\ journal' = journal
  BY DEF SealInv, EmissionInv, seals
<1>2. ASSUME NEW p \in Cadence, Kill(p)
      PROVE  MarkerFollows' /\ ActivatedBySeal'
  BY <1>1, <1>2 DEF Kill, MarkerFollows, ActivatedBySeal, EmissionTypeOK
<1>3. ASSUME NEW p \in Cadence, Append_(p)
      PROVE  MarkerFollows' /\ ActivatedBySeal'
  <2>1. /\ kills' = kills /\ guard' = guard /\ marker' = marker /\ at[p] = "append"
        /\ at'[p] = "mirror" /\ call'[p].counted = call[p].counted
    BY <1>1, <1>3 DEF Append_, Advance, EmissionTypeOK, Call
  <2>2. Settled
    BY <1>1, <2>1 DEF Settled, LockHeld, Critical, Appended
  <2>3. QED
    BY <1>1, <2>1, <2>2 DEF MarkerFollows, ActivatedBySeal
<1>4. ASSUME NEW p \in Cadence, RecordGuard(p)
      PROVE  MarkerFollows' /\ ActivatedBySeal'
  <2>1. /\ marker' = marker /\ at'[p] = "marker" /\ call'[p].counted
    BY <1>1, <1>4 DEF RecordGuard, Advance, EmissionInv, CallAgrees, EmissionTypeOK
  <2>2. ~Settled'
    BY <2>1 DEF Settled, Appended
  <2>3. QED
    BY <1>1, <2>1, <2>2 DEF MarkerFollows, ActivatedBySeal
<1>5. ASSUME NEW p \in Cadence, DeclareInterstitial(p)
      PROVE  MarkerFollows' /\ ActivatedBySeal'
  <2>1. /\ guard' = guard /\ guard.em = call[p].em
        /\ marker' = [state |-> "interstitial", em |-> call[p].em, entry |-> call[p].tic]
    BY <1>1, <1>5 DEF DeclareInterstitial, EmissionInv, CallAgrees
  <2>2. QED
    BY <2>1 DEF MarkerFollows, ActivatedBySeal
<1>6. CASE WindowPasses
  <2>1. /\ marker' = marker /\ kills' = kills /\ guard'.em = guard.em
        /\ Settled' = Settled
    BY <1>1, <1>6 DEF WindowPasses, EmissionTypeOK, Guard, Settled
  <2>2. QED
    BY <1>1, <2>1 DEF MarkerFollows, ActivatedBySeal
<1>7. ASSUME NEW p \in Cadence,
             \/ Fire(p) \/ Lock(p) \/ Replay(p) \/ Refuse(p) \/ Count(p) \/ Mirror(p)
             \/ Conformation(p)
      PROVE  MarkerFollows' /\ ActivatedBySeal'
  <2>1. marker' = marker /\ guard' = guard /\ kills' = kills
    BY <1>7 DEF Fire, Lock, Replay, Refuse, Count, Mirror, Conformation
  <2>2. Settled' => Settled
    BY <1>1, <1>7, SettledBack
  <2>3. QED
    BY <1>1, <2>1, <2>2 DEF MarkerFollows, ActivatedBySeal
<1>8. QED
  BY <1>2, <1>3, <1>4, <1>5, <1>6, <1>7, EmissionBounds DEF EmissionNext, CadenceStep

LEMMA HookMarker ==
    ASSUME SealInv, NEW h \in Hook, HookStepOf(h) \/ KillHook(h)
    PROVE  MarkerFollows' /\ ActivatedBySeal'
<1>1. /\ SealTypeOK /\ MarkerFollows /\ ActivatedBySeal /\ Journaled
      /\ kills \in Nat /\ held[h].marker \in Marker
  BY DEF SealInv, SealTypeOK, EmissionTypeOK, Held
<1>2. /\ guard' = guard /\ Settled' = Settled
      /\ ~Flip(h) => marker' = marker /\ stale' = stale
      /\ kills' = kills \/ kills' = kills + 1
  BY <1>1, HookFrame DEF Settled
<1>3. journal \subseteq journal'
  BY DEF HookStepOf, KillHook, Pre, UnlinkPause, Stage, Post, Promote, Unstage,
     Reconcile, Recover, Claim, Consume, Journal, UnlinkStaged, ArmPause, Flip
<1>4. CASE Flip(h)
  <2> DEFINE m == held[h].marker
             s == held[h].seal
  <2>1. CASE m.state # "absent" /\ m.em = s.em
    <3>1. /\ marker' = [m EXCEPT !.state = "active"] /\ stale' = (stale \/ marker # m)
          /\ hook[h] = "flip"
      BY <1>4, <2>1 DEF Flip
    <3>2. marker'.em = s.em /\ marker'.em = m.em
      BY <1>1, <2>1, <3>1 DEF Marker
    <3>3. <<s.id, s.em>> \in journal
      BY <1>1, <3>1 DEF Journaled
    <3>4. ActivatedBySeal'
      BY <1>3, <3>2, <3>3 DEF ActivatedBySeal
    <3>5. MarkerFollows'
      <4>1. CASE marker = m
        <5>1. ~stale' => ~stale
          BY <3>1
        <5>2. marker'.em = marker.em /\ (kills' = 0 => kills = 0)
          BY <1>1, <1>2, <3>2, <4>1
        <5>3. QED
          BY <1>1, <1>2, <5>1, <5>2 DEF MarkerFollows
      <4>2. CASE marker # m
        BY <3>1, <4>2 DEF MarkerFollows
      <4>3. QED
        BY <4>1, <4>2
    <3>6. QED
      BY <3>4, <3>5
  <2>2. CASE ~(m.state # "absent" /\ m.em = s.em)
    <3>1. marker' = marker /\ stale' = stale
      BY <1>4, <2>2 DEF Flip
    <3>2. QED
      BY <1>1, <1>2, <1>3, <3>1 DEF MarkerFollows, ActivatedBySeal
  <2>3. QED
    BY <2>1, <2>2
<1>5. CASE ~Flip(h)
  BY <1>1, <1>2, <1>3, <1>5 DEF MarkerFollows, ActivatedBySeal
<1>6. QED
  BY <1>4, <1>5

\* The journal entry precedes the pause and the flip of the same hook.
LEMMA HookJournal ==
    ASSUME SealInv, NEW h \in Hook, HookStepOf(h) \/ KillHook(h)
    PROVE  Journaled'
<1>1. SealTypeOK /\ Journaled
  BY DEF SealInv
<1>2. journal \subseteq journal'
  BY DEF HookStepOf, KillHook, Pre, UnlinkPause, Stage, Post, Promote, Unstage,
     Reconcile, Recover, Claim, Consume, Journal, UnlinkStaged, ArmPause, Flip
<1> SUFFICES ASSUME NEW g \in Hook, hook'[g] \in {"unlinkStaged", "pause", "flip"}
             PROVE  <<held'[g].seal.id, held'[g].seal.em>> \in journal'
  BY DEF Journaled
<1>3. CASE g # h
  <2>1. hook'[g] = hook[g] /\ held'[g] = held[g]
    BY <1>1, <1>3 DEF HookStepOf, KillHook, Pre, UnlinkPause, Stage, Post, Promote,
       Unstage, Reconcile, Recover, Claim, Consume, Journal, UnlinkStaged, ArmPause,
       Flip, Begin, Proceed, Finish, SealTypeOK
  <2>2. QED
    BY <1>1, <1>2, <2>1 DEF Journaled
<1>4. CASE g = h
  <2>1. Journal(h) \/ UnlinkStaged(h) \/ ArmPause(h)
    BY <1>1, <1>4 DEF HookStepOf, KillHook, Pre, UnlinkPause, Stage, Post, Promote,
       Unstage, Reconcile, Recover, Claim, Consume, Flip, Begin, Proceed, Finish,
       SealTypeOK
  <2>2. CASE Journal(h)
    BY <1>4, <2>2 DEF Journal
  <2>3. CASE UnlinkStaged(h) \/ ArmPause(h)
    BY <1>1, <1>4, <2>3 DEF UnlinkStaged, ArmPause, Journaled
  <2>4. QED
    BY <2>1, <2>2, <2>3
<1>5. QED
  BY <1>3, <1>4

-----------------------------------------------------------------------------
(* The pause *)

LEMMA HookPause ==
    ASSUME SealInv, NEW h \in Hook, HookStepOf(h) \/ KillHook(h)
    PROVE  PausesAsked' /\ PausedByChoice'
<1>1. /\ SealTypeOK /\ PausesAsked /\ PausedByChoice
      /\ held[h] \in Held /\ held[h].seal \in Seal /\ AskedFor(held[h].seal)
      /\ staged \in Seal /\ current \in Seal /\ AskedFor(staged) /\ AskedFor(current)
  BY DEF SealInv, SealTypeOK, PausesAsked, Held
<1>2. asked \subseteq asked' /\ AskedFor(NoSeal)' /\ AskedFor(NoHeld.seal)'
  BY DEF HookStepOf, KillHook, Pre, UnlinkPause, Stage, Post, Promote, Unstage,
     Reconcile, Recover, Claim, Consume, Journal, UnlinkStaged, ArmPause, Flip,
     AskedFor, NoHeld, NoSeal
<1>3. staged' \in {staged, held[h].seal, NoSeal} /\ current' \in {current, held[h].seal}
  BY DEF HookStepOf, KillHook, Pre, UnlinkPause, Stage, Post, Promote, Unstage,
     Reconcile, Recover, Claim, Consume, Journal, UnlinkStaged, ArmPause, Flip
<1>4. \A g \in Hook : g # h => held'[g] = held[g]
  BY <1>1 DEF HookStepOf, KillHook, Pre, UnlinkPause, Stage, Post, Promote, Unstage,
     Reconcile, Recover, Claim, Consume, Journal, UnlinkStaged, ArmPause, Flip,
     Finish, SealTypeOK
<1>5. AskedFor(held[h].seal)'
  <2>1. CASE Pre(h)
    <3>1. /\ held'[h].seal.id = sealed + 1 /\ held'[h].seal.em = marker.em
          /\ held'[h].seal.mode = PreMode
      BY <1>1, <2>1 DEF Pre, SealTypeOK, Held
    <3>2. pauseNext => <<marker.em, sealed + 1>> \in asked'
      BY <2>1 DEF Pre
    <3>3. QED
      BY <3>1, <3>2 DEF AskedFor, PreMode
  <2>2. CASE Post(h)
    <3>1. held'[h].seal = staged /\ asked' = asked
      BY <1>1, <2>2 DEF Post, SealTypeOK, Held
    <3>2. QED
      BY <1>1, <3>1 DEF AskedFor
  <2>3. ASSUME NEW s \in {current, staged}, NEW recovered \in BOOLEAN, Claim(h, s, recovered)
        PROVE  AskedFor(held[h].seal)'
    <3>1. held'[h].seal = [s EXCEPT !.consumed = TRUE] /\ asked' = asked
      BY <1>1, <2>3 DEF Claim, SealTypeOK, Held
    <3>2. held'[h].seal.mode = s.mode /\ held'[h].seal.em = s.em /\ held'[h].seal.id = s.id
      BY <1>1, <3>1 DEF Seal
    <3>3. QED
      BY <1>1, <3>1, <3>2 DEF AskedFor
  <2>4. CASE Reconcile(h) \/ Recover(h)
    BY <2>3, <2>4 DEF Reconcile, Recover
  <2>5. CASE Stage(h) \/ Unstage(h) \/ Flip(h) \/ KillHook(h)
    <3>1. held'[h] = NoHeld
      BY <1>1, <2>5 DEF Stage, Unstage, Flip, KillHook, Finish, SealTypeOK
    <3>2. QED
      BY <1>2, <3>1
  <2>6. CASE UnlinkPause(h) \/ Promote(h) \/ Consume(h) \/ Journal(h) \/ UnlinkStaged(h)
             \/ ArmPause(h)
    BY <1>1, <2>6 DEF UnlinkPause, Promote, Consume, Journal, UnlinkStaged, ArmPause,
       AskedFor
  <2>7. QED
    BY <2>1, <2>2, <2>4, <2>5, <2>6 DEF HookStepOf
<1>6. PausesAsked'
  BY <1>1, <1>2, <1>3, <1>4, <1>5 DEF PausesAsked, AskedFor
<1>7. PausedByChoice'
  <2>1. CASE ArmPause(h)
    <3>1. CASE held[h].seal.mode = "pause_after_boot"
      <4>1. <<held[h].seal.em, held[h].seal.id>> \in asked'
        BY <1>1, <1>2, <3>1 DEF AskedFor
      <4>2. pauseActive' = held[h].seal.em
        BY <2>1, <3>1 DEF ArmPause
      <4>3. QED
        BY <4>1, <4>2 DEF PausedByChoice
    <3>2. CASE held[h].seal.mode # "pause_after_boot"
      BY <1>1, <1>2, <2>1, <3>2 DEF ArmPause, PausedByChoice
    <3>3. QED
      BY <3>1, <3>2
  <2>2. CASE ~ArmPause(h)
    <3>1. pauseActive' = pauseActive
      BY <2>2 DEF HookStepOf, KillHook, Pre, UnlinkPause, Stage, Post, Promote, Unstage,
         Reconcile, Recover, Claim, Consume, Journal, UnlinkStaged, Flip
    <3>2. QED
      BY <1>1, <1>2, <3>1 DEF PausedByChoice
  <2>3. QED
    BY <2>1, <2>2
<1>8. QED
  BY <1>6, <1>7

-----------------------------------------------------------------------------
(* The one use of a seal *)

LEMMA HookNumbers ==
    ASSUME SealInv, NEW h \in Hook, HookStepOf(h) \/ KillHook(h)
    PROVE  Numbered'
<1>1. /\ SealTypeOK /\ Numbered /\ sealed \in Nat /\ staged \in Seal /\ current \in Seal
      /\ held[h] \in Held /\ held[h].seal \in Seal
      /\ staged.id <= sealed /\ current.id <= sealed /\ held[h].seal.id <= sealed
      /\ staged.id \in Nat /\ current.id \in Nat
      /\ \A g \in Hook : held[g].seal.id \in Nat
  BY SealBounds DEF SealInv, SealTypeOK, Held, Numbered, Seal
<1>2. sealed' \in Nat /\ sealed <= sealed'
  BY <1>1 DEF HookStepOf, KillHook, Pre, UnlinkPause, Stage, Post, Promote, Unstage,
     Reconcile, Recover, Claim, Consume, Journal, UnlinkStaged, ArmPause, Flip
<1>3. staged' \in {staged, held[h].seal, NoSeal} /\ current' \in {current, held[h].seal}
  BY DEF HookStepOf, KillHook, Pre, UnlinkPause, Stage, Post, Promote, Unstage,
     Reconcile, Recover, Claim, Consume, Journal, UnlinkStaged, ArmPause, Flip
<1>4. \A g \in Hook : g # h => held'[g] = held[g]
  BY <1>1 DEF HookStepOf, KillHook, Pre, UnlinkPause, Stage, Post, Promote, Unstage,
     Reconcile, Recover, Claim, Consume, Journal, UnlinkStaged, ArmPause, Flip,
     Finish, SealTypeOK
<1>5. held'[h].seal.id \in Nat /\ held'[h].seal.id <= sealed'
  <2>1. CASE Pre(h)
    BY <1>1, <2>1 DEF Pre, SealTypeOK, Held
  <2>2. CASE Post(h)
    BY <1>1, <1>2, <2>2 DEF Post, SealTypeOK, Held
  <2>3. ASSUME NEW s \in {current, staged}, NEW recovered \in BOOLEAN, Claim(h, s, recovered)
        PROVE  held'[h].seal.id \in Nat /\ held'[h].seal.id <= sealed'
    <3>1. held'[h].seal = [s EXCEPT !.consumed = TRUE]
      BY <1>1, <2>3 DEF Claim, SealTypeOK, Held
    <3>2. held'[h].seal.id = s.id
      BY <1>1, <3>1 DEF Seal
    <3>3. QED
      BY <1>1, <1>2, <3>2
  <2>4. CASE Reconcile(h) \/ Recover(h)
    BY <2>3, <2>4 DEF Reconcile, Recover
  <2>5. CASE Stage(h) \/ Unstage(h) \/ Flip(h) \/ KillHook(h)
    <3>1. held'[h].seal.id = 0
      BY <1>1, <2>5 DEF Stage, Unstage, Flip, KillHook, Finish, SealTypeOK, NoHeld, NoSeal
    <3>2. QED
      BY <1>2, <3>1
  <2>6. CASE UnlinkPause(h) \/ Promote(h) \/ Consume(h) \/ Journal(h) \/ UnlinkStaged(h)
             \/ ArmPause(h)
    BY <1>1, <1>2, <2>6 DEF UnlinkPause, Promote, Consume, Journal, UnlinkStaged, ArmPause
  <2>7. QED
    BY <2>1, <2>2, <2>4, <2>5, <2>6 DEF HookStepOf
<1>6. QED
  BY <1>1, <1>2, <1>3, <1>4, <1>5 DEF Numbered, NoSeal

\* A hook that runs alone, and the files of a quiet moment.
Alone(h) == \A g \in Hook : g # h => hook[g] = "idle"

\* OneUse, for the one hook that may be running.
OneUseAlone(h) ==
    /\ \A s \in 1..MaxSeal : uses[s] <= 1 /\ (s > sealed => uses[s] = 0)
    /\ Awaits(current) => uses[current.id] = 0
    /\ ~Recovering(h) => Unused(staged)
    /\ Exists(staged) /\ ~Recovering(h) /\ hook[h] # "unstage" => staged.id # current.id
    /\ HookAgrees(h)

LEMMA AloneIsOne ==
    ASSUME SealInv, ~overlap, kills = 0, NEW h \in Hook,
           \A g \in Hook : g # h => hook[g] = "idle"
    PROVE  OneUseAlone(h)
BY DEF SealInv, OneUse, OneUseAlone, Recovering

LEMMA AloneGivesOne ==
    ASSUME NEW h \in Hook, Alone(h), OneUseAlone(h)
    PROVE  OneUse
<1>1. \A g \in Hook : g # h => HookAgrees(g) /\ ~Recovering(g) /\ hook[g] # "unstage"
  BY DEF Alone, HookAgrees, Recovering
<1>2. \A g \in Hook : HookAgrees(g)
  BY <1>1 DEF OneUseAlone
<1>3. \A f, g \in Hook : hook[f] # "idle" /\ hook[g] # "idle" => f = g
  BY DEF Alone
<1>4. QED
  BY <1>1, <1>2, <1>3 DEF OneUse, OneUseAlone

\* A hook that begins runs alone, or the overlap is on record.
LEMMA BeginAlone ==
    ASSUME SealTypeOK, NEW h \in Hook, NEW step \in HookStep, Begin(h, step), ~overlap'
    PROVE  /\ ~overlap /\ Alone(h) /\ Alone(h)'
           /\ hook[h] = "idle" /\ hook'[h] = step
BY DEF SealTypeOK, Begin, Alone

LEMMA HookOneUse ==
    ASSUME SealInv, NEW h \in Hook, HookStepOf(h), ~overlap', kills' = 0
    PROVE  OneUseAlone(h)' /\ Alone(h)'
<1>1. /\ SealTypeOK /\ Numbered /\ OneUse /\ staged \in Seal /\ current \in Seal
      /\ held \in [Hook -> Held] /\ hook \in [Hook -> HookStep]
      /\ held[h] \in Held /\ held[h].seal \in Seal
      /\ uses \in [1..MaxSeal -> Nat] /\ sealed \in 0..MaxSeal /\ MaxSeal \in Nat
      /\ staged.id <= sealed /\ current.id <= sealed /\ held[h].seal.id <= sealed
      /\ staged.id \in Nat /\ current.id \in Nat /\ held[h].seal.id \in Nat
  BY SealBounds DEF SealInv, SealTypeOK, Held, Numbered, Seal
<1>2. kills = 0
  BY <1>1, HookFrame DEF SealTypeOK, EmissionTypeOK
<1>3. CASE Pre(h)
  <2>1. ~overlap /\ Alone(h) /\ Alone(h)' /\ hook[h] = "idle"
        /\ hook'[h] \in {"unlinkPause", "stage"}
    BY <1>1, <1>3, BeginAlone DEF Pre, HookStep
  <2>2. OneUseAlone(h)
    BY <1>2, <2>1, AloneIsOne DEF Alone
  <2>3. /\ sealed' = sealed + 1 /\ sealed' \in 1..MaxSeal /\ held'[h].seal.id = sealed'
        /\ UNCHANGED <<staged, current, uses>>
    BY <1>1, <1>3 DEF Pre, Held
  <2>4. uses[sealed'] = 0
    BY <1>1, <2>2, <2>3 DEF OneUseAlone
  <2>5. ~Recovering(h) /\ hook[h] # "unstage" /\ ~Recovering(h)'
    BY <2>1 DEF Recovering
  <2>6. HookAgrees(h)'
    BY <1>1, <2>1, <2>3, <2>4 DEF HookAgrees
  <2>7. QED
    BY <1>1, <2>1, <2>2, <2>3, <2>5, <2>6 DEF OneUseAlone, Awaits, Unused, Exists
<1>4. CASE Post(h)
  <2>1. ~overlap /\ Alone(h) /\ Alone(h)' /\ hook[h] = "idle" /\ hook'[h] = "promote"
    BY <1>1, <1>4, BeginAlone DEF Post, HookStep
  <2>2. OneUseAlone(h)
    BY <1>2, <2>1, AloneIsOne DEF Alone
  <2>3. held'[h].seal = staged /\ UNCHANGED <<staged, current, uses, sealed>>
    BY <1>1, <1>4 DEF Post, Held
  <2>4. ~Recovering(h) /\ HookAgrees(h)'
    BY <2>1, <2>3 DEF Recovering, HookAgrees
  <2>5. QED
    BY <1>1, <2>1, <2>2, <2>3, <2>4 DEF OneUseAlone, Awaits, Unused, Exists
<1>5. CASE Reconcile(h) \/ Recover(h)
  <2>1. PICK s \in {current, staged}, recovered \in BOOLEAN :
            /\ Claim(h, s, recovered)
            /\ Exists(s)
            /\ IF recovered THEN s = staged ELSE s = current /\ Awaits(current)
    BY <1>5 DEF Reconcile, Recover, Awaits
  <2>2. ~overlap /\ Alone(h) /\ Alone(h)' /\ hook[h] = "idle" /\ hook'[h] = "consume"
    BY <1>1, <2>1, BeginAlone DEF Claim, HookStep
  <2>3. OneUseAlone(h)
    BY <1>2, <2>2, AloneIsOne DEF Alone
  <2>4. /\ held'[h].seal = [s EXCEPT !.consumed = TRUE] /\ held'[h].recovered = recovered
        /\ UNCHANGED <<staged, current, uses, sealed>>
    BY <1>1, <2>1 DEF Claim, Held
  <2>5. s \in Seal /\ held'[h].seal.id = s.id /\ held'[h].seal.consumed
    BY <1>1, <2>4 DEF Seal
  <2>6. ~Recovering(h) /\ hook[h] # "unstage"
    BY <2>2 DEF Recovering
  <2>7. uses[s.id] = 0 /\ (recovered <=> staged.id = s.id)
    BY <1>1, <2>1, <2>3, <2>6 DEF OneUseAlone, Unused, Exists
  <2>8. HookAgrees(h)'
    BY <2>1, <2>2, <2>4, <2>5, <2>7 DEF HookAgrees, Exists
  <2>9. QED
    BY <1>1, <2>2, <2>3, <2>4, <2>6, <2>8 DEF OneUseAlone, Awaits, Unused, Exists
<1>6. CASE \/ UnlinkPause(h) \/ Stage(h) \/ Promote(h) \/ Unstage(h) \/ Consume(h)
           \/ Journal(h) \/ UnlinkStaged(h) \/ ArmPause(h) \/ Flip(h)
  <2>1. /\ overlap' = overlap /\ hook[h] # "idle"
        /\ \A g \in Hook : g # h => hook'[g] = hook[g]
    BY <1>1, <1>6 DEF UnlinkPause, Stage, Promote, Unstage, Consume, Journal,
       UnlinkStaged, ArmPause, Flip, Proceed, Finish
  <2>2. Alone(h) /\ Alone(h)'
    BY <1>1, <1>2, <2>1 DEF OneUse, Alone
  <2>3. OneUseAlone(h)
    BY <1>2, <2>1, <2>2, AloneIsOne DEF Alone
  <2>4. CASE UnlinkPause(h)
    BY <1>1, <2>2, <2>3, <2>4 DEF UnlinkPause, Proceed, OneUseAlone, HookAgrees, Recovering,
       Awaits, Unused, Exists
  <2>5. CASE Stage(h)
    <3>1. /\ hook[h] = "stage" /\ hook'[h] = "idle" /\ staged' = held[h].seal
          /\ UNCHANGED <<current, uses, sealed>>
      BY <1>1, <2>5 DEF Stage, Finish, Proceed
    <3>2. QED
      BY <1>1, <2>2, <2>3, <3>1 DEF OneUseAlone, HookAgrees, Recovering, Awaits, Unused,
         Exists
  <2>6. CASE Promote(h)
    <3>1. /\ hook[h] = "promote" /\ hook'[h] = "unstage" /\ current' \in {current, staged}
          /\ UNCHANGED <<staged, uses, sealed>>
      BY <1>1, <2>3, <2>6 DEF Promote, Proceed, OneUseAlone, HookAgrees
    <3>2. QED
      BY <1>1, <2>2, <2>3, <3>1 DEF OneUseAlone, HookAgrees, Recovering, Awaits, Unused,
         Exists
  <2>7. CASE Unstage(h) \/ UnlinkStaged(h)
    <3>1. /\ hook'[h] \in {"idle", "pause"} /\ staged' = NoSeal
          /\ UNCHANGED <<current, uses, sealed>>
      BY <1>1, <2>7 DEF Unstage, UnlinkStaged, Finish, Proceed
    <3>2. QED
      BY <1>1, <2>2, <2>3, <3>1 DEF OneUseAlone, HookAgrees, Recovering, Awaits, Unused,
         Exists, NoSeal
  <2>8. CASE Consume(h)
    <3> DEFINE s == held[h].seal
    <3>1. /\ hook[h] = "consume" /\ hook'[h] = "journal" /\ current' = s
          /\ uses' = [uses EXCEPT ![s.id] = uses[s.id] + 1] /\ held'[h] = held[h]
          /\ UNCHANGED <<staged, sealed>>
      BY <1>1, <2>8 DEF Consume, Proceed
    <3>2. /\ Exists(s) /\ s.consumed /\ uses[s.id] = 0
          /\ held[h].recovered <=> staged.id = s.id
          /\ Unused(staged)
      BY <2>3, <3>1 DEF OneUseAlone, HookAgrees, Recovering
    <3>3. s.id \in 1..MaxSeal /\ s.id <= sealed
      BY <1>1, <3>2 DEF Exists
    <3>4. \A t \in 1..MaxSeal : uses'[t] = IF t = s.id THEN 1 ELSE uses[t]
      BY <1>1, <3>1, <3>2, <3>3
    <3>5. \A t \in 1..MaxSeal : uses'[t] <= 1 /\ (t > sealed => uses'[t] = 0)
      BY <1>1, <2>3, <3>3, <3>4 DEF OneUseAlone
    <3>6. ~Awaits(current')
      BY <3>1, <3>2 DEF Awaits
    <3>7. ~Recovering(h)' => ~Exists(staged) \/ staged.id # s.id
      BY <3>1, <3>2 DEF Recovering
    <3>8. ~Recovering(h)' => Unused(staged)'
      BY <1>1, <3>1, <3>2, <3>4, <3>7 DEF Unused, Exists
    <3>9. HookAgrees(h)'
      BY <3>1 DEF HookAgrees
    <3>10. QED
      BY <2>2, <3>1, <3>5, <3>6, <3>7, <3>8, <3>9 DEF OneUseAlone, Awaits, Exists
  <2>9. CASE Journal(h)
    <3>1. /\ hook[h] = "journal" /\ held'[h] = held[h]
          /\ hook'[h] = IF held[h].recovered THEN "unlinkStaged" ELSE "pause"
          /\ UNCHANGED <<staged, current, uses, sealed>>
      BY <1>1, <2>9 DEF Journal, Proceed
    <3>2. QED
      BY <1>1, <2>2, <2>3, <3>1 DEF OneUseAlone, HookAgrees, Recovering, Awaits, Unused,
         Exists
  <2>10. CASE ArmPause(h) \/ Flip(h)
    <3>1. /\ hook[h] \in {"pause", "flip"} /\ hook'[h] \in {"flip", "idle"}
          /\ UNCHANGED <<staged, current, uses, sealed>>
      BY <1>1, <2>10 DEF ArmPause, Flip, Finish, Proceed
    <3>2. QED
      BY <1>1, <2>2, <2>3, <3>1 DEF OneUseAlone, HookAgrees, Recovering, Awaits, Unused,
         Exists
  <2>11. QED
    BY <1>6, <2>4, <2>5, <2>6, <2>7, <2>8, <2>9, <2>10
<1>7. QED
  BY <1>3, <1>4, <1>5, <1>6 DEF HookStepOf

-----------------------------------------------------------------------------
(* The invariant *)

LEMMA SealStarts == Init => SealInv
<1> SUFFICES ASSUME Init
             PROVE  SealInv
  OBVIOUS
<1>1. EmissionInv
  BY EmissionStarts DEF Init
<1>2. SealTypeOK
  <2>1. hook \in [Hook -> HookStep] /\ held \in [Hook -> Held]
    BY SealNulls DEF Init, HookStep
  <2>2. /\ staged \in Seal /\ current \in Seal /\ pauseActive \in Nat
        /\ uses \in [1..MaxSeal -> Nat] /\ sealed \in 0..MaxSeal /\ pauses \in 0..MaxPause
    BY SealNulls, SealBounds DEF Init, NoEmission
  <2>3. overlap \in BOOLEAN /\ stale \in BOOLEAN /\ pauseNext \in BOOLEAN
    BY DEF Init
  <2>4. QED
    BY <1>1, <2>1, <2>2, <2>3 DEF Init, SealTypeOK, EmissionInv
<1>3. MarkerFollows /\ ActivatedBySeal
  BY DEF Init, EmissionInit, MarkerFollows, ActivatedBySeal, NoMarker, NoGuard
<1>4. Journaled /\ PausesAsked /\ PausedByChoice /\ Numbered
  BY DEF Init, Journaled, PausesAsked, PausedByChoice, Numbered, AskedFor, NoHeld, NoSeal
<1>5. OneUse
  BY SealBounds DEF Init, OneUse, Awaits, Unused, Exists, HookAgrees, Recovering, NoSeal
<1>6. QED
  BY <1>1, <1>2, <1>3, <1>4, <1>5 DEF SealInv

LEMMA HookKept ==
    ASSUME SealInv, NEW h \in Hook, HookStepOf(h) \/ KillHook(h)
    PROVE  SealInv'
<1>1. SealTypeOK /\ EmissionInv
  BY DEF SealInv
<1>2. EmissionInv'
  BY <1>1, HookFrame, EmissionFrame
<1>3. SealTypeOK'
  BY <1>1, HookTypes
<1>4. MarkerFollows' /\ ActivatedBySeal' /\ Journaled'
  BY HookMarker, HookJournal
<1>5. PausesAsked' /\ PausedByChoice' /\ Numbered'
  BY HookPause, HookNumbers
<1>6. OneUse'
  <2>1. CASE KillHook(h)
    <3>1. kills' = kills + 1 /\ kills \in Nat
      BY <1>1, <2>1 DEF KillHook, SealTypeOK, EmissionTypeOK
    <3>2. QED
      BY <3>1 DEF OneUse
  <2>2. CASE HookStepOf(h) /\ ~overlap' /\ kills' = 0
    <3>1. OneUseAlone(h)' /\ Alone(h)'
      BY <2>2, HookOneUse
    <3>2. OneUse'
      BY <3>1, AloneGivesOne, PTL
    <3>3. QED
      BY <3>2
  <2>3. CASE overlap' \/ kills' # 0
    BY <2>3 DEF OneUse
  <2>4. QED
    BY <2>1, <2>2, <2>3
<1>7. QED
  BY <1>2, <1>3, <1>4, <1>5, <1>6 DEF SealInv

\* What only the hooks and the Architect change.
LEMMA SealFrame ==
    ASSUME SealInv, UNCHANGED <<staged, current, journal, hook, held, sealed, uses,
                                overlap, asked>>,
           kills' = 0 => kills = 0
    PROVE  Journaled' /\ PausesAsked' /\ Numbered' /\ OneUse'
BY DEF SealInv, Journaled, PausesAsked, AskedFor, Numbered, OneUse, Awaits, Unused,
   Recovering, HookAgrees

LEMMA SealKept ==
    ASSUME SealInv, [Next]_vars
    PROVE  SealInv'
<1>1. SealTypeOK /\ EmissionInv /\ kills \in Nat
  BY DEF SealInv, SealTypeOK, EmissionTypeOK
<1>2. CASE EmissionNext /\ UNCHANGED seals
  <2>1. EmissionInv'
    BY <1>1, <1>2, EmissionKept
  <2>2. SealTypeOK'
    BY <1>1, <1>2, <2>1 DEF SealTypeOK, EmissionInv, seals
  <2>3. MarkerFollows' /\ ActivatedBySeal'
    BY <1>2, CadenceMarker
  <2>4. kills' = 0 => kills = 0
    BY <1>1, <1>2, KillsCounted
  <2>5. Journaled' /\ PausesAsked' /\ Numbered' /\ OneUse'
    BY <1>2, <2>4, SealFrame DEF seals
  <2>6. PausedByChoice'
    BY <1>2 DEF SealInv, PausedByChoice, seals
  <2>7. QED
    BY <2>1, <2>2, <2>3, <2>5, <2>6 DEF SealInv
<1>3. ASSUME NEW h \in Hook, HookStepOf(h) \/ KillHook(h)
      PROVE  SealInv'
  BY <1>3, HookKept
<1>4. CASE ArmPauseNext \/ Continue \/ UNCHANGED vars
  <2>1. /\ UNCHANGED tics
        /\ UNCHANGED <<staged, current, journal, hook, held, sealed, uses, overlap,
                       stale, asked>>
        /\ pauseNext' \in BOOLEAN /\ pauseActive' \in {pauseActive, NoEmission}
        /\ pauses' \in 0..MaxPause
    <3>1. CASE ArmPauseNext
      <4>1. pauses + 1 \in 0..MaxPause
        BY <1>1, <3>1, SealBounds DEF ArmPauseNext, SealTypeOK
      <4>2. QED
        BY <3>1, <4>1 DEF ArmPauseNext
    <3>2. CASE Continue
      BY <1>1, <3>2 DEF Continue, SealTypeOK
    <3>3. CASE UNCHANGED vars
      BY <1>1, <3>3 DEF vars, seals, SealTypeOK
    <3>4. QED
      BY <1>4, <3>1, <3>2, <3>3
  <2>2. EmissionInv'
    BY <1>1, <2>1, EmissionFrame DEF tics, EmissionInv, EmissionTypeOK
  <2>3. SealTypeOK'
    BY <1>1, <2>1, <2>2 DEF SealTypeOK, EmissionInv, NoEmission
  <2>4. Journaled' /\ PausesAsked' /\ Numbered' /\ OneUse'
    BY <2>1, SealFrame DEF tics
  <2>5. MarkerFollows' /\ ActivatedBySeal' /\ PausedByChoice'
    BY <2>1 DEF SealInv, MarkerFollows, Settled, ActivatedBySeal, PausedByChoice, tics
  <2>6. QED
    BY <2>2, <2>3, <2>4, <2>5 DEF SealInv
<1>5. QED
  BY <1>2, <1>3, <1>4, HookAssumption DEF Next

\* The strengthening that all of the following rest on.
THEOREM SealInvariant == Spec => []SealInv
<1>1. Init => SealInv
  BY SealStarts
<1>2. SealInv /\ [Next]_vars => SealInv'
  BY SealKept
<1>3. QED
  BY <1>1, <1>2, PTL DEF Spec

LEMMA LastIs ==
    ASSUME EmissionTypeOK, NEW m \in Nat, IsLastCounted(m)
    PROVE  LastCounted = m
<1> DEFINE rows == {n \in DOMAIN log : log[n].counted}
<1>1. rows \subseteq Nat
  BY DEF EmissionTypeOK
<1>2. CASE m = NoEmission
  BY <1>2 DEF IsLastCounted, LastCounted
<1>3. CASE m # NoEmission
  <2> DEFINE Latest(n) == \A k \in rows : k <= n
  <2>1. m \in rows /\ Latest(m)
    BY <1>3 DEF IsLastCounted
  <2>2. LastCounted = CHOOSE n \in rows : Latest(n)
    BY <2>1 DEF LastCounted
  <2>3. LastCounted \in rows /\ Latest(LastCounted)
    BY <2>1, <2>2
  <2>4. QED
    BY <1>1, <2>1, <2>3
<1>4. QED
  BY <1>2, <1>3

LEMMA AgreedFromInv == SealInv => BoundaryAgreed
<1> SUFFICES ASSUME SealInv, lock = "free", kills = 0
             PROVE  guard.em = LastCounted /\ (~stale => marker.em = LastCounted)
  BY DEF BoundaryAgreed
<1>1. EmissionInv /\ EmissionTypeOK /\ MarkerFollows
  BY DEF SealInv, EmissionInv
<1>2. Settled
  BY <1>1, FreeAssumption DEF EmissionInv, LockHeld, Settled, Critical, Appended
<1>3. IsLastCounted(guard.em)
  BY <1>1, <1>2 DEF EmissionInv, GuardLast
<1>4. guard.em \in Nat
  BY <1>1 DEF EmissionTypeOK, Guard
<1>5. guard.em = LastCounted
  BY <1>1, <1>3, <1>4, LastIs
<1>6. QED
  BY <1>1, <1>2, <1>5 DEF MarkerFollows

\* The types of every file and variable of boundary and handoff.
THEOREM BoundaryTypes == Spec => []SealTypeOK
<1>1. SealInv => SealTypeOK
  BY DEF SealInv
<1>2. QED
  BY <1>1, SealInvariant, PTL

\* However cadence processes and hooks overlap and wherever they die, the tics of
\* the log are numbered 1, 2, 3, ... (cadence-ops.py emit_tic).
THEOREM TicsNumbered == Spec => []CountersConsecutive
<1>1. SealInv => CountersConsecutive
  BY DEF SealInv, EmissionInv
<1>2. QED
  BY <1>1, SealInvariant, PTL

\* ... a session's phantom tic is refused (check_counted_emission_guard) ...
THEOREM PhantomsRefused == Spec => []PhantomRefused
<1>1. SealInv => PhantomRefused
  BY DEF SealInv, EmissionInv
<1>2. QED
  BY <1>1, SealInvariant, PTL

\* ... and a snapshot is one of its own tic, with none missing (write_conformation).
THEOREM SnapshotsPresent == Spec => []TicHasConformation
<1>1. SealInv => TicHasConformation
  BY SnapshotsComplete DEF SealInv
<1>2. QED
  BY <1>1, SealInvariant, PTL

\* Guard and marker name the last boundary while no process was killed and no
\* reconciler wrote back a stale marker (emit_tic, reconcile_seal).
THEOREM BoundariesAgree == Spec => []BoundaryAgreed
<1>1. SealInv => BoundaryAgreed
  BY AgreedFromInv
<1>2. QED
  BY <1>1, SealInvariant, PTL

\* An active boundary has a journalled consumption of its own seal, whatever
\* overlaps and dies (handle_reconcile).
THEOREM ActivationsSealed == Spec => []ActivatedBySeal
<1>1. SealInv => ActivatedBySeal
  BY DEF SealInv
<1>2. QED
  BY <1>1, SealInvariant, PTL

\* Hooks that neither overlap nor die consume a seal at most once.
THEOREM SealsConsumedOnce == Spec => []ConsumedOnce
<1>1. SealInv => ConsumedOnce
  BY DEF SealInv, OneUse, ConsumedOnce
<1>2. QED
  BY <1>1, SealInvariant, PTL

\* The gate pauses only at a boundary for which the override was taken
\* (resolve_activation_mode), whatever overlaps and dies.
THEOREM PausesChosen == Spec => []PausedByChoice
<1>1. SealInv => PausedByChoice
  BY DEF SealInv
<1>2. QED
  BY <1>1, SealInvariant, PTL
=============================================================================
