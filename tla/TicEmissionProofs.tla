-------------------------- MODULE TicEmissionProofs --------------------------
(***************************************************************************)
(* TLAPS proofs about TicEmission, for every set of cadence processes,     *)
(* sessions and invocations and every bound.                               *)
(***************************************************************************)
EXTENDS TicEmission, FiniteSetTheorems, TLAPS

-----------------------------------------------------------------------------
(* The inductive invariant *)

\* Steps of the critical section, and those after the row was appended.
Critical == {"decide", "append", "mirror", "guard", "marker"}
Appended == {"mirror", "guard", "marker"}

LockHeld == \A p \in Cadence : at[p] \in Critical => lock = p

\* What a process knows of the log and the guard at each step.
CallAgrees(p) ==
    LET c == call[p] IN
    /\ at[p] = "append" =>
        /\ c.tic = Counted(log) + (IF c.counted THEN 1 ELSE 0)
        /\ c.counted /\ ~c.armed /\ c.session # NoSession /\ guard.em # NoEmission
              => guard.session # c.session
    /\ at[p] \in Appended => c.em = Len(log) /\ c.em > 0 /\ log[c.em] = RowOf(c)
    /\ at[p] \in {"guard", "marker"} => c.counted
    /\ at[p] = "marker" => guard.em = c.em
    /\ at[p] = "conformation" => c.em \in DOMAIN log /\ log[c.em].after = c.tic
    /\ at[p] # "idle" /\ c.downbeat => c.conform

\* The guard describes the last emission that reached it.
GuardAgrees ==
    /\ guard.em # NoEmission =>
        /\ guard.em \in guarded
        /\ log[guard.em].counted
        /\ log[guard.em].session = guard.session
        /\ log[guard.em].after = guard.after
    /\ \A m \in guarded : m \in DOMAIN log /\ m <= guard.em

SnapshotsKnown == \A s \in conf : s[2] \in DOMAIN log /\ log[s[2]].after = s[1]

\* A counted downbeat has its snapshot, or a process that will write it.
DownbeatsPending ==
    kills = 0 =>
        \A n \in DOMAIN log :
            log[n].counted /\ log[n].downbeat =>
                \/ \E p \in Cadence : /\ at[p] \in Appended \cup {"conformation"}
                                      /\ call[p].em = n /\ call[p].conform
                \/ \E s \in conf : s[1] = log[n].after

IsLastCounted(m) ==
    IF m = NoEmission THEN \A n \in DOMAIN log : ~log[n].counted
    ELSE /\ m \in DOMAIN log /\ log[m].counted
         /\ \A n \in DOMAIN log : log[n].counted => n <= m

\* No counted emission is under way between the row and the marker.
Settled == \A p \in Cadence : at[p] \in Appended => ~call[p].counted

GuardLast == kills = 0 /\ Settled => IsLastCounted(guard.em)

EmissionInv ==
    /\ EmissionTypeOK
    /\ LockHeld
    /\ CountersConsecutive
    /\ \A p \in Cadence : CallAgrees(p)
    /\ GuardAgrees
    /\ PhantomRefused
    /\ SnapshotsKnown
    /\ DownbeatsPending
    /\ GuardLast

-----------------------------------------------------------------------------
(* Types *)

LEMMA CountedType ==
    ASSUME NEW rows, NEW n \in Nat
    PROVE  CountedTo(rows, n) \in Nat
<1>1. IsFiniteSet(1..n)
  BY FS_Interval
<1>2. IsFiniteSet({k \in 1..n : rows[k].counted})
  BY <1>1, FS_Subset
<1>3. QED
  BY <1>2, FS_CardinalityType DEF CountedTo

LEMMA NullTypes == NoGuard \in Guard /\ NoMarker \in Marker /\ NoCall \in Call
BY DEF NoGuard, Guard, NoMarker, Marker, NoCall, Call, NoEmission

LEMMA LeaveType ==
    ASSUME EmissionTypeOK, NEW p \in Cadence, Leave(p)
    PROVE  at' \in [Cadence -> EmissionStep] /\ call' \in [Cadence -> Call]
BY NullTypes DEF EmissionTypeOK, Leave, EmissionStep

LEMMA AdvanceType ==
    ASSUME EmissionTypeOK, NEW p \in Cadence, NEW step \in EmissionStep, Advance(p, step)
    PROVE  at' \in [Cadence -> EmissionStep]
BY DEF EmissionTypeOK, Advance

\* Whatever cadence does, every file and variable stays well typed.
LEMMA EmissionTypes ==
    ASSUME EmissionTypeOK, EmissionNext
    PROVE  EmissionTypeOK'
<1>1. ASSUME NEW p \in Cadence, Fire(p)
      PROVE  EmissionTypeOK'
  <2>1. PICK c \in Invocation :
            call' = [call EXCEPT ![p] =
                      [NoCall EXCEPT !.session = c.session, !.counted = c.counted,
                                     !.armed = c.armed, !.downbeat = c.downbeat,
                                     !.conform = c.downbeat \/ c.conform,
                                     !.replay = c.replay]]
    BY <1>1 DEF Fire
  <2>2. c \in [session : Session \cup {NoSession}, counted : BOOLEAN, armed : BOOLEAN,
               downbeat : BOOLEAN, conform : BOOLEAN, replay : Nat]
    BY InvocationAssumption
  <2>3. call' \in [Cadence -> Call]
    BY <2>1, <2>2, NullTypes DEF EmissionTypeOK, Call
  <2>4. at' \in [Cadence -> EmissionStep]
    BY <1>1, AdvanceType DEF Fire, EmissionStep
  <2>5. QED
    BY <1>1, <2>3, <2>4 DEF Fire, EmissionTypeOK
<1>2. ASSUME NEW p \in Cadence, Lock(p)
      PROVE  EmissionTypeOK'
  <2>1. at' \in [Cadence -> EmissionStep]
    BY <1>2, AdvanceType DEF Lock, EmissionStep
  <2>2. QED
    BY <1>2, <2>1 DEF Lock, EmissionTypeOK
<1>3. ASSUME NEW p \in Cadence, Replay(p)
      PROVE  EmissionTypeOK'
  <2>1. at' \in [Cadence -> EmissionStep]
    BY <1>3, AdvanceType DEF Replay, EmissionStep
  <2>2. call' \in [Cadence -> Call]
    BY <1>3 DEF Replay, EmissionTypeOK, Call, Guard
  <2>3. QED
    BY <1>3, <2>1, <2>2 DEF Replay, EmissionTypeOK
<1>4. ASSUME NEW p \in Cadence, Refuse(p)
      PROVE  EmissionTypeOK'
  BY <1>4, LeaveType DEF Refuse, EmissionTypeOK
<1>5. ASSUME NEW p \in Cadence, Count(p)
      PROVE  EmissionTypeOK'
  <2>1. at' \in [Cadence -> EmissionStep]
    BY <1>5, AdvanceType DEF Count, EmissionStep
  <2>2. Counted(log) + (IF call[p].counted THEN 1 ELSE 0) \in Nat
    BY CountedType DEF Counted, EmissionTypeOK
  <2>3. call' \in [Cadence -> Call]
    BY <1>5, <2>2 DEF Count, EmissionTypeOK, Call
  <2>4. QED
    BY <1>5, <2>1, <2>3 DEF Count, EmissionTypeOK
<1>6. ASSUME NEW p \in Cadence, Append_(p)
      PROVE  EmissionTypeOK'
  <2>1. at' \in [Cadence -> EmissionStep]
    BY <1>6, AdvanceType DEF Append_, EmissionStep
  <2>2. RowOf(call[p]) \in TicRow
    BY DEF RowOf, TicRow, EmissionTypeOK, Call
  <2>3. log' \in Seq(TicRow) /\ Len(log') \in Nat
    BY <1>6, <2>2 DEF Append_, EmissionTypeOK
  <2>4. call' \in [Cadence -> Call]
    BY <1>6, <2>3 DEF Append_, EmissionTypeOK, Call
  <2>5. QED
    BY <1>6, <2>1, <2>3, <2>4 DEF Append_, EmissionTypeOK
<1>7. ASSUME NEW p \in Cadence, Mirror(p)
      PROVE  EmissionTypeOK'
  <2>1. at' \in [Cadence -> EmissionStep]
    BY <1>7, AdvanceType DEF Mirror, EmissionStep
  <2>2. QED
    BY <1>7, <2>1 DEF Mirror, EmissionTypeOK, Call
<1>8. ASSUME NEW p \in Cadence, RecordGuard(p)
      PROVE  EmissionTypeOK'
  <2>1. at' \in [Cadence -> EmissionStep]
    BY <1>8, AdvanceType DEF RecordGuard, EmissionStep
  <2>2. QED
    BY <1>8, <2>1 DEF RecordGuard, EmissionTypeOK, Call, Guard
<1>9. ASSUME NEW p \in Cadence, DeclareInterstitial(p)
      PROVE  EmissionTypeOK'
  <2>1. at' \in [Cadence -> EmissionStep]
    BY <1>9, AdvanceType DEF DeclareInterstitial, EmissionStep
  <2>2. QED
    BY <1>9, <2>1 DEF DeclareInterstitial, EmissionTypeOK, Call, Marker
<1>10. ASSUME NEW p \in Cadence, Conformation(p)
       PROVE  EmissionTypeOK'
  BY <1>10, LeaveType DEF Conformation, Snapshot, EmissionTypeOK, Call
<1>11. ASSUME WindowPasses
       PROVE  EmissionTypeOK'
  BY <1>11 DEF WindowPasses, EmissionTypeOK, Guard
<1>12. ASSUME NEW p \in Cadence, Kill(p)
       PROVE  EmissionTypeOK'
  <2>1. conf' \subseteq Nat \X Nat
    BY <1>12 DEF Kill, EmissionTypeOK
  <2>2. QED
    BY <1>12, <2>1, LeaveType DEF Kill, EmissionTypeOK
<1>13. QED
  BY <1>1, <1>2, <1>3, <1>4, <1>5, <1>6, <1>7, <1>8, <1>9, <1>10, <1>11, <1>12,
     EmissionBounds DEF EmissionNext, CadenceStep

-----------------------------------------------------------------------------
(* Counting and appending *)

LEMMA CountedSame ==
    ASSUME NEW rows, NEW more, NEW n \in Nat, \A k \in 1..n : more[k] = rows[k]
    PROVE  CountedTo(more, n) = CountedTo(rows, n)
<1>1. {k \in 1..n : more[k].counted} = {k \in 1..n : rows[k].counted}
  OBVIOUS
<1>2. QED
  BY <1>1 DEF CountedTo

LEMMA CountedOneMore ==
    ASSUME NEW rows, NEW n \in Nat, rows[n + 1].counted \in BOOLEAN
    PROVE  CountedTo(rows, n + 1)
             = CountedTo(rows, n) + (IF rows[n + 1].counted THEN 1 ELSE 0)
<1> DEFINE K == {k \in 1..n : rows[k].counted}
<1>1. IsFiniteSet(K) /\ Cardinality(K) \in Nat
  <2>1. IsFiniteSet(1..n)
    BY FS_Interval
  <2>2. QED
    BY <2>1, FS_Subset, FS_CardinalityType
<1>2. CASE rows[n + 1].counted
  <2>1. {k \in 1..(n + 1) : rows[k].counted} = K \cup {n + 1}
    BY <1>2
  <2>2. n + 1 \notin K
    OBVIOUS
  <2>3. QED
    BY <1>1, <1>2, <2>1, <2>2, FS_AddElement DEF CountedTo
<1>3. CASE ~rows[n + 1].counted
  <2>1. {k \in 1..(n + 1) : rows[k].counted} = K
    BY <1>3
  <2>2. CountedTo(rows, n + 1) = Cardinality(K) /\ CountedTo(rows, n) = Cardinality(K)
    BY <2>1 DEF CountedTo
  <2>3. QED
    BY <1>1, <1>3, <2>2
<1>4. QED
  BY <1>2, <1>3

\* An append leaves the rows before it alone and counts its own.
LEMMA AppendFacts ==
    ASSUME EmissionTypeOK, NEW p \in Cadence, Append_(p)
    PROVE  /\ Len(log) \in Nat /\ Len(log') = Len(log) + 1
           /\ DOMAIN log = 1..Len(log) /\ DOMAIN log' = 1..(Len(log) + 1)
           /\ \A n \in DOMAIN log : log'[n] = log[n]
           /\ log'[Len(log) + 1] = RowOf(call[p])
           /\ \A n \in DOMAIN log : CountedTo(log', n) = CountedTo(log, n)
           /\ CountedTo(log', Len(log) + 1)
                = Counted(log) + (IF call[p].counted THEN 1 ELSE 0)
<1>1. RowOf(call[p]) \in TicRow
  BY DEF RowOf, TicRow, EmissionTypeOK, Call
<1>2. log' = Append(log, RowOf(call[p])) /\ log \in Seq(TicRow)
  BY DEF Append_, EmissionTypeOK
<1>3. /\ Len(log) \in Nat /\ Len(log') = Len(log) + 1
      /\ DOMAIN log = 1..Len(log) /\ DOMAIN log' = 1..(Len(log) + 1)
      /\ \A n \in 1..Len(log) : log'[n] = log[n]
      /\ log'[Len(log) + 1] = RowOf(call[p])
  BY <1>1, <1>2
<1>4. \A n \in 0..Len(log) : CountedTo(log', n) = CountedTo(log, n)
  <2>1. ASSUME NEW n \in 0..Len(log)
        PROVE  CountedTo(log', n) = CountedTo(log, n)
    <3>1. n \in Nat /\ \A k \in 1..n : log'[k] = log[k]
      BY <1>3
    <3>2. QED
      BY <3>1, CountedSame
  <2>2. QED
    BY <2>1
<1>5. CountedTo(log', Len(log) + 1)
        = CountedTo(log', Len(log)) + (IF call[p].counted THEN 1 ELSE 0)
  <2>1. log'[Len(log) + 1].counted = call[p].counted /\ call[p].counted \in BOOLEAN
    BY <1>3 DEF RowOf, EmissionTypeOK, Call
  <2>2. QED
    BY <1>3, <2>1, CountedOneMore
<1>6. CountedTo(log', Len(log)) = Counted(log)
  BY <1>3, <1>4 DEF Counted
<1>7. QED
  BY <1>3, <1>4, <1>5, <1>6

-----------------------------------------------------------------------------
(* The lock *)

\* Only the holder of .emission.lock is between the guard check and the marker.
LEMMA LockKept ==
    ASSUME EmissionTypeOK, LockHeld, EmissionNext
    PROVE  LockHeld'
<1> SUFFICES ASSUME NEW q \in Cadence, at'[q] \in Critical
             PROVE  lock' = q
  BY DEF LockHeld
<1>1. ASSUME NEW p \in Cadence, Fire(p)
      PROVE  lock' = q
  BY <1>1 DEF Fire, Advance, LockHeld, Critical, EmissionTypeOK
<1>2. ASSUME NEW p \in Cadence, Lock(p)
      PROVE  lock' = q
  BY <1>2, FreeAssumption DEF Lock, Advance, LockHeld, EmissionTypeOK
<1>3. ASSUME NEW p \in Cadence, Replay(p) \/ DeclareInterstitial(p)
      PROVE  lock' = q
  BY <1>3 DEF Replay, DeclareInterstitial, Advance, LockHeld, Critical, EmissionTypeOK
<1>4. ASSUME NEW p \in Cadence, Refuse(p)
      PROVE  lock' = q
  BY <1>4 DEF Refuse, Leave, LockHeld, Critical, EmissionTypeOK
<1>5. ASSUME NEW p \in Cadence, Count(p) \/ Append_(p) \/ RecordGuard(p)
      PROVE  lock' = q
  BY <1>5 DEF Count, Append_, RecordGuard, Advance, LockHeld, Critical, EmissionTypeOK
<1>6. ASSUME NEW p \in Cadence, Mirror(p)
      PROVE  lock' = q
  BY <1>6 DEF Mirror, Advance, LockHeld, Critical, EmissionTypeOK
<1>7. ASSUME NEW p \in Cadence, Conformation(p)
      PROVE  lock' = q
  BY <1>7 DEF Conformation, Leave, LockHeld, Critical, EmissionTypeOK
<1>8. ASSUME WindowPasses
      PROVE  lock' = q
  BY <1>8 DEF WindowPasses, LockHeld
<1>9. ASSUME NEW p \in Cadence, Kill(p)
      PROVE  lock' = q
  BY <1>9 DEF Kill, Leave, LockHeld, Critical, EmissionTypeOK
<1>10. QED
  BY <1>1, <1>2, <1>3, <1>4, <1>5, <1>6, <1>7, <1>8, <1>9, EmissionBounds
  DEF EmissionNext, CadenceStep

-----------------------------------------------------------------------------
(* What the processes know *)

LEMMA OthersKept ==
    ASSUME EmissionInv, NEW p \in Cadence, NEW q \in Cadence, q # p,
           CadenceStep(p) \/ Kill(p)
    PROVE  CallAgrees(q)'
<1>1. CallAgrees(q) /\ EmissionTypeOK /\ LockHeld
  BY DEF EmissionInv
<1>2. at'[q] = at[q] /\ call'[q] = call[q]
  BY <1>1 DEF EmissionTypeOK, CadenceStep, Fire, Lock, Replay, Refuse, Count, Append_,
     Mirror, RecordGuard, DeclareInterstitial, Conformation, Kill, Advance, Leave
<1>3. CASE Append_(p)
  <2>1. at[q] \notin Critical
    BY <1>1, <1>3 DEF LockHeld, Critical, Append_
  <2>2. at[q] = "conformation" => /\ call[q].em \in DOMAIN log'
                                  /\ log'[call[q].em] = log[call[q].em]
    BY <1>1, <1>3, AppendFacts DEF CallAgrees
  <2>3. QED
    BY <1>1, <1>2, <2>1, <2>2 DEF CallAgrees, Critical, Appended
<1>4. CASE RecordGuard(p)
  <2>1. at[q] \notin Critical /\ log' = log
    BY <1>1, <1>4 DEF LockHeld, Critical, RecordGuard
  <2>2. QED
    BY <1>1, <1>2, <2>1 DEF CallAgrees, Critical, Appended
<1>5. CASE ~Append_(p) /\ ~RecordGuard(p)
  <2>1. log' = log /\ guard' = guard
    BY <1>5 DEF CadenceStep, Fire, Lock, Replay, Refuse, Count, Mirror,
       DeclareInterstitial, Conformation, Kill
  <2>2. QED
    BY <1>1, <1>2, <2>1 DEF CallAgrees
<1>6. QED
  BY <1>3, <1>4, <1>5

LEMMA OwnKept ==
    ASSUME EmissionInv, NEW p \in Cadence, CadenceStep(p) \/ Kill(p)
    PROVE  CallAgrees(p)'
<1>1. /\ CallAgrees(p) /\ EmissionTypeOK /\ GuardAgrees
      /\ at \in [Cadence -> EmissionStep] /\ call \in [Cadence -> Call]
  BY DEF EmissionInv, EmissionTypeOK
<1>2. CASE Fire(p)
  <2>1. PICK c \in Invocation :
            call' = [call EXCEPT ![p] =
                      [NoCall EXCEPT !.session = c.session, !.counted = c.counted,
                                     !.armed = c.armed, !.downbeat = c.downbeat,
                                     !.conform = c.downbeat \/ c.conform,
                                     !.replay = c.replay]]
    BY <1>2 DEF Fire
  <2>2. call'[p].downbeat = c.downbeat /\ call'[p].conform = (c.downbeat \/ c.conform)
    BY <1>1, <2>1 DEF NoCall
  <2>3. at'[p] = "lock"
    BY <1>1, <1>2 DEF Fire, Advance
  <2>4. QED
    BY <2>2, <2>3 DEF CallAgrees, Appended
<1>3. CASE Lock(p)
  <2>1. at'[p] = "decide" /\ call'[p] = call[p] /\ at[p] = "lock"
    BY <1>1, <1>3 DEF Lock, Advance
  <2>2. QED
    BY <1>1, <2>1 DEF CallAgrees, Appended
<1>4. CASE Replay(p)
  <2>1. /\ at[p] = "decide" /\ at'[p] = "conformation" /\ log' = log
        /\ call'[p] = [call[p] EXCEPT !.em = guard.em, !.tic = guard.after]
        /\ guard.em # NoEmission
    BY <1>1, <1>4 DEF Replay, Advance, Replays
  <2>2. guard.em \in DOMAIN log /\ log[guard.em].after = guard.after
    BY <1>1, <2>1 DEF GuardAgrees
  <2>3. /\ call'[p].em = guard.em /\ call'[p].tic = guard.after
        /\ call'[p].downbeat = call[p].downbeat /\ call'[p].conform = call[p].conform
    BY <1>1, <2>1 DEF Call
  <2>4. QED
    BY <1>1, <2>1, <2>2, <2>3 DEF CallAgrees, Appended
<1>5. CASE Refuse(p) \/ Conformation(p) \/ Kill(p)
  <2>1. at'[p] = "idle"
    BY <1>1, <1>5 DEF Refuse, Conformation, Kill, Leave
  <2>2. QED
    BY <2>1 DEF CallAgrees, Appended
<1>6. CASE Count(p)
  <2> DEFINE t == Counted(log) + (IF call[p].counted THEN 1 ELSE 0)
  <2>1. /\ at[p] = "decide" /\ at'[p] = "append" /\ log' = log /\ guard' = guard
        /\ call'[p] = [call[p] EXCEPT !.tic = t]
        /\ ~Replays(call[p]) /\ ~Refused(call[p])
    BY <1>1, <1>6 DEF Count, Advance
  <2>2. /\ call'[p].tic = t
        /\ call'[p].counted = call[p].counted /\ call'[p].armed = call[p].armed
        /\ call'[p].session = call[p].session
        /\ call'[p].downbeat = call[p].downbeat /\ call'[p].conform = call[p].conform
    BY <1>1, <2>1 DEF Call
  <2>3. call[p].counted /\ ~call[p].armed /\ call[p].session # NoSession
          /\ guard.em # NoEmission => guard.session # call[p].session
    BY <2>1 DEF Refused, Suspect
  <2>4. Counted(log)' = Counted(log)
    BY <2>1 DEF Counted, CountedTo
  <2>5. QED
    BY <1>1, <2>1, <2>2, <2>3, <2>4 DEF CallAgrees, Appended
<1>7. CASE Append_(p)
  <2>1. /\ at[p] = "append" /\ at'[p] = "mirror"
        /\ call'[p] = [call[p] EXCEPT !.em = Len(log')]
    BY <1>1, <1>7 DEF Append_, Advance
  <2>2. /\ call'[p].em = Len(log') /\ RowOf(call'[p]) = RowOf(call[p])
        /\ call'[p].downbeat = call[p].downbeat /\ call'[p].conform = call[p].conform
    BY <1>1, <2>1 DEF Call, RowOf
  <2>3. Len(log') > 0 /\ log'[Len(log')] = RowOf(call[p])
    BY <1>1, <1>7, AppendFacts
  <2>4. QED
    BY <1>1, <2>1, <2>2, <2>3 DEF CallAgrees, Appended
<1>8. CASE Mirror(p)
  <2>1. /\ at[p] = "mirror" /\ call'[p] = call[p] /\ log' = log /\ guard' = guard
        /\ at'[p] = IF call[p].counted THEN "guard" ELSE "conformation"
    BY <1>1, <1>8 DEF Mirror, Advance
  <2>2. call[p].em \in DOMAIN log /\ log[call[p].em].after = call[p].tic
    BY <1>1, <2>1 DEF CallAgrees, Appended, RowOf, EmissionTypeOK, Call
  <2>3. QED
    BY <1>1, <2>1, <2>2 DEF CallAgrees, Appended
<1>9. CASE RecordGuard(p)
  <2>1. /\ at[p] = "guard" /\ at'[p] = "marker" /\ call'[p] = call[p] /\ log' = log
        /\ guard'.em = call[p].em
    BY <1>1, <1>9 DEF RecordGuard, Advance
  <2>2. QED
    BY <1>1, <2>1 DEF CallAgrees, Appended
<1>10. CASE DeclareInterstitial(p)
  <2>1. /\ at[p] = "marker" /\ at'[p] = "conformation" /\ call'[p] = call[p]
        /\ log' = log
    BY <1>1, <1>10 DEF DeclareInterstitial, Advance
  <2>2. call[p].em \in DOMAIN log /\ log[call[p].em].after = call[p].tic
    BY <1>1, <2>1 DEF CallAgrees, Appended, RowOf, EmissionTypeOK, Call
  <2>3. QED
    BY <1>1, <2>1, <2>2 DEF CallAgrees, Appended
<1>11. QED
  BY <1>2, <1>3, <1>4, <1>5, <1>6, <1>7, <1>8, <1>9, <1>10 DEF CadenceStep

LEMMA CallsKept ==
    ASSUME EmissionInv, EmissionNext
    PROVE  \A q \in Cadence : CallAgrees(q)'
<1> SUFFICES ASSUME NEW q \in Cadence
             PROVE  CallAgrees(q)'
  OBVIOUS
<1>1. ASSUME NEW p \in Cadence, CadenceStep(p) \/ Kill(p)
      PROVE  CallAgrees(q)'
  BY <1>1, OthersKept, OwnKept
<1>2. ASSUME WindowPasses
      PROVE  CallAgrees(q)'
  <2>1. /\ log' = log /\ at' = at /\ call' = call
        /\ guard'.em = guard.em /\ guard'.session = guard.session
    BY <1>2 DEF WindowPasses, EmissionInv, EmissionTypeOK, Guard
  <2>2. Counted(log)' = Counted(log)
    BY <2>1 DEF Counted, CountedTo
  <2>3. QED
    BY <2>1, <2>2 DEF CallAgrees, EmissionInv
<1>3. QED
  BY <1>1, <1>2, EmissionBounds DEF EmissionNext

-----------------------------------------------------------------------------
(* What the log, the guard and the snapshots say *)

\* Every step but these three leaves log, guard and history as they are.
LEMMA QuietSteps ==
    ASSUME EmissionNext, \A p \in Cadence : ~Append_(p) /\ ~RecordGuard(p),
           ~WindowPasses
    PROVE  log' = log /\ guard' = guard /\ guarded' = guarded
BY EmissionBounds DEF EmissionNext, CadenceStep, Fire, Lock, Replay, Refuse, Count, Mirror,
   DeclareInterstitial, Conformation, Kill

LEMMA KillsCounted ==
    ASSUME EmissionNext, kills \in Nat
    PROVE  kills' = 0 => kills = 0
<1>1. ASSUME NEW p \in Cadence, Kill(p)
      PROVE  kills' = kills + 1
  BY <1>1 DEF Kill
<1>2. CASE \A p \in CadenceCrasher : ~Kill(p)
  <2>1. kills' = kills
    BY <1>2 DEF EmissionNext, CadenceStep, Fire, Lock, Replay, Refuse, Count, Append_,
       Mirror, RecordGuard, DeclareInterstitial, Conformation, WindowPasses
  <2>2. QED
    BY <2>1
<1>3. QED
  BY <1>1, <1>2, EmissionBounds

LEMMA LogKept ==
    ASSUME EmissionInv, EmissionNext
    PROVE  CountersConsecutive' /\ GuardAgrees' /\ PhantomRefused'
<1>1. /\ EmissionTypeOK /\ CountersConsecutive /\ GuardAgrees /\ PhantomRefused
      /\ Len(log) \in Nat /\ DOMAIN log = 1..Len(log)
  BY DEF EmissionInv, EmissionTypeOK
<1>2. ASSUME NEW p \in Cadence, Append_(p)
      PROVE  CountersConsecutive' /\ GuardAgrees' /\ PhantomRefused'
  <2>1. /\ at[p] = "append" /\ guard' = guard /\ guarded' = guarded
        /\ call[p] \in Call /\ CallAgrees(p)
    BY <1>1, <1>2 DEF Append_, EmissionInv, EmissionTypeOK
  <2>2. /\ DOMAIN log' = 1..(Len(log) + 1)
        /\ \A n \in DOMAIN log : log'[n] = log[n]
        /\ log'[Len(log) + 1] = RowOf(call[p])
        /\ \A n \in DOMAIN log : CountedTo(log', n) = CountedTo(log, n)
        /\ CountedTo(log', Len(log) + 1)
             = Counted(log) + (IF call[p].counted THEN 1 ELSE 0)
    BY <1>1, <1>2, AppendFacts
  <2>3. CountersConsecutive'
    <3> SUFFICES ASSUME NEW n \in DOMAIN log'
                 PROVE  log'[n].after = CountedTo(log', n)
      BY DEF CountersConsecutive, CountedTo
    <3>1. CASE n \in DOMAIN log
      BY <1>1, <2>2, <3>1 DEF CountersConsecutive
    <3>2. CASE n = Len(log) + 1
      BY <2>1, <2>2, <3>2 DEF CallAgrees, RowOf
    <3>3. QED
      BY <1>1, <2>2, <3>1, <3>2
  <2>4. GuardAgrees'
    BY <1>1, <2>1, <2>2 DEF GuardAgrees
  <2>5. PhantomRefused'
    <3> SUFFICES ASSUME NEW m \in DOMAIN log', NEW n \in DOMAIN log',
                        NextCounted(m, n)', m \in guarded,
                        log'[m].session = log'[n].session,
                        log'[m].session # NoSession
                 PROVE  log'[n].armed
      BY <2>1 DEF PhantomRefused
    <3>1. /\ m \in Nat /\ n \in Nat /\ m < n /\ m \in DOMAIN log
          /\ log'[m].counted /\ log'[n].counted
          /\ \A k \in (m + 1)..(n - 1) : ~log'[k].counted
      BY <1>1, <2>2 DEF NextCounted
    <3>2. CASE n \in DOMAIN log
      <4>1. NextCounted(m, n)
        BY <1>1, <2>2, <3>1, <3>2 DEF NextCounted
      <4>2. QED
        BY <1>1, <2>2, <3>1, <3>2, <4>1 DEF PhantomRefused
    <3>3. CASE n = Len(log) + 1
      <4>1. guard.em \in Nat /\ m <= guard.em
        BY <1>1 DEF GuardAgrees, EmissionTypeOK, Guard
      <4>2. guard.em # NoEmission /\ guard.em \in DOMAIN log /\ log[guard.em].counted
        BY <1>1, <3>1, <4>1 DEF GuardAgrees, NoEmission
      <4>3. m = guard.em
        BY <1>1, <2>2, <3>1, <3>3, <4>1, <4>2
      <4>4. /\ call[p].counted /\ call[p].session = guard.session
            /\ call[p].session # NoSession
        BY <1>1, <2>2, <3>1, <3>3, <4>2, <4>3 DEF GuardAgrees, RowOf
      <4>5. call[p].armed
        BY <2>1, <4>2, <4>4 DEF CallAgrees
      <4>6. QED
        BY <2>2, <3>3, <4>5 DEF RowOf
    <3>4. QED
      BY <1>1, <2>2, <3>2, <3>3
  <2>6. QED
    BY <2>3, <2>4, <2>5
<1>3. ASSUME NEW p \in Cadence, RecordGuard(p)
      PROVE  CountersConsecutive' /\ GuardAgrees' /\ PhantomRefused'
  <2>1. /\ at[p] = "guard" /\ log' = log /\ guarded' = guarded \cup {call[p].em}
        /\ guard' = [em |-> call[p].em, session |-> call[p].session,
                     after |-> call[p].tic, fresh |-> TRUE]
        /\ call[p] \in Call /\ CallAgrees(p)
    BY <1>1, <1>3 DEF RecordGuard, EmissionInv, EmissionTypeOK
  <2>2. /\ call[p].em = Len(log) /\ call[p].em \in DOMAIN log
        /\ log[call[p].em] = RowOf(call[p]) /\ call[p].counted
    BY <1>1, <2>1 DEF CallAgrees, Appended
  <2>3. CountersConsecutive'
    BY <1>1, <2>1 DEF CountersConsecutive, CountedTo
  <2>4. GuardAgrees'
    BY <1>1, <2>1, <2>2 DEF GuardAgrees, RowOf
  <2>5. PhantomRefused'
    <3> SUFFICES ASSUME NEW m \in DOMAIN log, NEW n \in DOMAIN log, NextCounted(m, n),
                        m \in guarded \cup {call[p].em},
                        log[m].session = log[n].session, log[m].session # NoSession
                 PROVE  log[n].armed
      BY <2>1 DEF PhantomRefused, NextCounted
    <3>1. m # Len(log)
      BY <1>1 DEF NextCounted
    <3>2. QED
      BY <1>1, <2>2, <3>1 DEF PhantomRefused
  <2>6. QED
    BY <2>3, <2>4, <2>5
<1>4. CASE WindowPasses
  <2>1. /\ log' = log /\ guarded' = guarded /\ guard'.em = guard.em
        /\ guard'.session = guard.session /\ guard'.after = guard.after
    BY <1>1, <1>4 DEF WindowPasses, EmissionTypeOK, Guard
  <2>2. QED
    BY <1>1, <2>1 DEF CountersConsecutive, CountedTo, GuardAgrees, PhantomRefused,
       NextCounted
<1>5. CASE (\A p \in Cadence : ~Append_(p) /\ ~RecordGuard(p)) /\ ~WindowPasses
  BY <1>1, <1>5, QuietSteps DEF CountersConsecutive, CountedTo, GuardAgrees,
     PhantomRefused, NextCounted
<1>6. QED
  BY <1>2, <1>3, <1>4, <1>5

\* Every row that was in the log is there still.
LEMMA RowsStay ==
    ASSUME EmissionTypeOK, EmissionNext
    PROVE  \A n \in DOMAIN log : n \in DOMAIN log' /\ log'[n] = log[n]
<1>1. ASSUME NEW p \in Cadence, Append_(p)
      PROVE  \A n \in DOMAIN log : n \in DOMAIN log' /\ log'[n] = log[n]
  BY <1>1, AppendFacts
<1>2. CASE \A p \in Cadence : ~Append_(p)
  <2>1. log' = log
    BY <1>2, EmissionBounds DEF EmissionNext, CadenceStep, Fire, Lock, Replay, Refuse,
       Count, Mirror, RecordGuard, DeclareInterstitial, Conformation, WindowPasses, Kill
  <2>2. QED
    BY <2>1
<1>3. QED
  BY <1>1, <1>2

LEMMA SnapshotsKept ==
    ASSUME EmissionInv, EmissionNext
    PROVE  SnapshotsKnown'
<1>1. EmissionTypeOK /\ SnapshotsKnown
  BY DEF EmissionInv
<1>2. ASSUME NEW p \in Cadence, Conformation(p)
      PROVE  SnapshotsKnown'
  <2>1. call[p].em \in DOMAIN log /\ log[call[p].em].after = call[p].tic
    BY <1>2 DEF EmissionInv, CallAgrees, Conformation
  <2>2. log' = log
    BY <1>2 DEF Conformation
  <2>3. conf' \subseteq conf \cup {<<call[p].tic, call[p].em>>}
    BY <1>2 DEF Conformation, Snapshot
  <2>4. QED
    BY <1>1, <2>1, <2>2, <2>3 DEF SnapshotsKnown
<1>3. CASE \A p \in Cadence : ~Conformation(p)
  <2>1. conf' \subseteq conf
    BY <1>3, EmissionBounds DEF EmissionNext, CadenceStep, Fire, Lock, Replay, Refuse,
       Count, Append_, Mirror, RecordGuard, DeclareInterstitial, WindowPasses, Kill
  <2>2. QED
    BY <1>1, <2>1, RowsStay DEF SnapshotsKnown
<1>4. QED
  BY <1>2, <1>3

\* A process that still owes a snapshot owes it after the step, or wrote it.
LEMMA DownbeatsKept ==
    ASSUME EmissionInv, EmissionNext
    PROVE  DownbeatsPending'
<1>1. /\ EmissionTypeOK /\ DownbeatsPending
      /\ Len(log) \in Nat /\ DOMAIN log = 1..Len(log)
  BY DEF EmissionInv, EmissionTypeOK
<1> DEFINE Owes(p, n) == /\ at[p] \in Appended \cup {"conformation"}
                         /\ call[p].em = n /\ call[p].conform
           Kept(n) == \E s \in conf : s[1] = log[n].after
<1>2. ASSUME NEW p \in Cadence, Kill(p)
      PROVE  DownbeatsPending'
  BY <1>1, <1>2 DEF Kill, DownbeatsPending, EmissionTypeOK
<1>3. ASSUME NEW p \in Cadence, Append_(p)
      PROVE  DownbeatsPending'
  <2>1. /\ DOMAIN log' = 1..(Len(log) + 1)
        /\ \A n \in DOMAIN log : log'[n] = log[n]
        /\ log'[Len(log) + 1] = RowOf(call[p])
        /\ Len(log') = Len(log) + 1
    BY <1>1, <1>3, AppendFacts
  <2>2. /\ kills' = kills /\ conf' = conf /\ at[p] = "append" /\ at'[p] = "mirror"
        /\ call'[p].em = Len(log') /\ call'[p].conform = call[p].conform
        /\ call[p].downbeat => call[p].conform
    BY <1>1, <1>3 DEF Append_, Advance, EmissionTypeOK, Call, EmissionInv, CallAgrees
  <2>3. \A q \in Cadence : q # p => at'[q] = at[q] /\ call'[q] = call[q]
    BY <1>1, <1>3 DEF Append_, Advance, EmissionTypeOK
  <2>4. ASSUME NEW n \in DOMAIN log', kills = 0, log'[n].counted, log'[n].downbeat
        PROVE  (\E q \in Cadence : Owes(q, n)') \/ Kept(n)'
    <3>1. CASE n \in DOMAIN log
      <4>1. CASE Kept(n)
        BY <2>1, <2>2, <3>1, <4>1
      <4>2. CASE \E q \in Cadence : Owes(q, n)
        <5>1. PICK q \in Cadence : Owes(q, n)
          BY <4>2
        <5>2. q # p
          BY <2>2, <5>1 DEF Appended
        <5>3. Owes(q, n)'
          BY <2>3, <5>1, <5>2
        <5>4. QED
          BY <5>3
      <4>3. QED
        BY <1>1, <2>1, <2>4, <3>1, <4>1, <4>2 DEF DownbeatsPending
    <3>2. CASE n = Len(log) + 1
      BY <2>1, <2>2, <2>4, <3>2 DEF RowOf, Appended
    <3>3. QED
      BY <1>1, <2>1, <3>1, <3>2
  <2>5. QED
    BY <2>2, <2>4 DEF DownbeatsPending
<1>4. ASSUME NEW p \in Cadence, Conformation(p)
      PROVE  DownbeatsPending'
  <2>1. log[call[p].em].after = call[p].tic /\ log' = log /\ kills' = kills
    BY <1>4 DEF EmissionInv, CallAgrees, Conformation
  <2>2. \A q \in Cadence : q # p => at'[q] = at[q] /\ call'[q] = call[q]
    BY <1>1, <1>4 DEF Conformation, Leave, EmissionTypeOK
  <2>3. ASSUME NEW n \in DOMAIN log, kills = 0, log[n].counted, log[n].downbeat
        PROVE  (\E q \in Cadence : Owes(q, n)') \/ Kept(n)'
    <3>1. CASE Owes(p, n)
      <4>1. <<call[p].tic, n>> \in conf'
        BY <1>4, <3>1 DEF Conformation, Snapshot
      <4>2. QED
        BY <2>1, <3>1, <4>1
    <3>2. CASE \E q \in Cadence : q # p /\ Owes(q, n)
      BY <2>2, <3>2
    <3>3. CASE Kept(n)
      <4>1. PICK s \in conf : s[1] = log[n].after
        BY <3>3
      <4>2. s \in conf' \/ <<s[1], call[p].em>> \in conf'
        BY <1>4 DEF Conformation, Snapshot
      <4>3. QED
        BY <2>1, <4>1, <4>2
    <3>4. QED
      BY <1>1, <2>3, <3>1, <3>2, <3>3 DEF DownbeatsPending
  <2>4. QED
    BY <2>1, <2>3 DEF DownbeatsPending
<1>5. CASE \A p \in Cadence : ~Kill(p) /\ ~Append_(p) /\ ~Conformation(p)
  <2>1. log' = log /\ conf' = conf /\ kills' = kills
    BY <1>5, EmissionBounds DEF EmissionNext, CadenceStep, Fire, Lock, Replay, Refuse,
       Count, Mirror, RecordGuard, DeclareInterstitial, WindowPasses
  <2>2. ASSUME NEW q \in Cadence, NEW n \in DOMAIN log, Owes(q, n)
        PROVE  Owes(q, n)'
    BY <1>1, <1>5, <2>2, EmissionBounds
    DEF EmissionNext, CadenceStep, Fire, Lock, Replay, Refuse, Count, Mirror,
        RecordGuard, DeclareInterstitial, WindowPasses, Advance, Leave, Appended,
        EmissionTypeOK
  <2>3. QED
    BY <1>1, <2>1, <2>2 DEF DownbeatsPending
<1>6. QED
  BY <1>2, <1>3, <1>4, <1>5

\* Only a row and the step of its marker change who is under way.
LEMMA SettledBack ==
    ASSUME EmissionTypeOK, NEW p \in Cadence,
           \/ Fire(p) \/ Lock(p) \/ Replay(p) \/ Refuse(p) \/ Count(p) \/ Mirror(p)
           \/ Conformation(p)
    PROVE  Settled' => Settled
<1> SUFFICES ASSUME Settled', NEW q \in Cadence, at[q] \in Appended
             PROVE  ~call[q].counted
  BY DEF Settled
<1>1. CASE q # p
  <2>1. at'[q] = at[q] /\ call'[q] = call[q]
    BY <1>1 DEF EmissionTypeOK, Fire, Lock, Replay, Refuse, Count, Mirror,
       Conformation, Advance, Leave
  <2>2. QED
    BY <2>1 DEF Settled
<1>2. CASE q = p
  <2>1. Mirror(p)
    BY <1>2 DEF Appended, Fire, Lock, Replay, Refuse, Count, Conformation
  <2>2. call'[p] = call[p] /\ (call[p].counted => at'[p] = "guard")
    BY <2>1 DEF Mirror, Advance, EmissionTypeOK
  <2>3. QED
    BY <1>2, <2>2 DEF Settled, Appended
<1>3. QED
  BY <1>1, <1>2

\* Between two counted emissions the guard names the last.
LEMMA GuardLastKept ==
    ASSUME EmissionInv, EmissionNext
    PROVE  GuardLast'
<1>1. /\ EmissionTypeOK /\ LockHeld /\ GuardLast
      /\ Len(log) \in Nat /\ DOMAIN log = 1..Len(log)
  BY DEF EmissionInv, EmissionTypeOK
<1>2. ASSUME NEW p \in Cadence, Kill(p)
      PROVE  GuardLast'
  BY <1>1, <1>2 DEF Kill, GuardLast, EmissionTypeOK
<1>3. ASSUME NEW p \in Cadence, Append_(p)
      PROVE  GuardLast'
  <2>1. /\ DOMAIN log' = 1..(Len(log) + 1)
        /\ \A n \in DOMAIN log : log'[n] = log[n]
        /\ log'[Len(log) + 1] = RowOf(call[p])
    BY <1>1, <1>3, AppendFacts
  <2>2. /\ kills' = kills /\ guard' = guard /\ at[p] = "append" /\ at'[p] = "mirror"
        /\ call'[p].counted = call[p].counted
    BY <1>1, <1>3 DEF Append_, Advance, EmissionTypeOK, Call
  <2>3. Settled
    BY <1>1, <2>2 DEF Settled, LockHeld, Critical, Appended
  <2>4. CASE ~call[p].counted
    <3>1. kills = 0 => IsLastCounted(guard.em)
      BY <1>1, <2>3 DEF GuardLast
    <3>2. IsLastCounted(guard.em) => IsLastCounted(guard.em)'
      BY <1>1, <2>1, <2>2, <2>4 DEF IsLastCounted, RowOf
    <3>3. QED
      BY <2>2, <3>1, <3>2 DEF GuardLast
  <2>5. CASE call[p].counted
    BY <2>2, <2>5 DEF GuardLast, Settled, Appended
  <2>6. QED
    BY <2>4, <2>5
<1>4. ASSUME NEW p \in Cadence, RecordGuard(p)
      PROVE  GuardLast'
  BY <1>1, <1>4 DEF RecordGuard, Advance, GuardLast, Settled, Appended, EmissionInv,
     CallAgrees, EmissionTypeOK
<1>5. ASSUME NEW p \in Cadence, DeclareInterstitial(p)
      PROVE  GuardLast'
  <2>1. /\ log' = log /\ guard' = guard /\ at[p] = "marker" /\ CallAgrees(p)
    BY <1>5 DEF DeclareInterstitial, EmissionInv
  <2>2. /\ guard.em = Len(log) /\ guard.em \in DOMAIN log /\ log[guard.em].counted
    BY <1>1, <2>1 DEF CallAgrees, Appended, RowOf
  <2>3. IsLastCounted(guard.em)
    BY <1>1, <2>2 DEF IsLastCounted, NoEmission
  <2>4. QED
    BY <2>1, <2>3 DEF GuardLast, IsLastCounted
<1>6. CASE WindowPasses
  <2>1. /\ log' = log /\ at' = at /\ call' = call /\ kills' = kills
        /\ guard'.em = guard.em
    BY <1>1, <1>6 DEF WindowPasses, EmissionTypeOK, Guard
  <2>2. QED
    BY <1>1, <2>1 DEF GuardLast, Settled, IsLastCounted
<1>7. ASSUME NEW p \in Cadence,
             \/ Fire(p) \/ Lock(p) \/ Replay(p) \/ Refuse(p) \/ Count(p) \/ Mirror(p)
             \/ Conformation(p)
      PROVE  GuardLast'
  <2>1. log' = log /\ guard' = guard /\ kills' = kills
    BY <1>7 DEF Fire, Lock, Replay, Refuse, Count, Mirror, Conformation
  <2>2. Settled' => Settled
    BY <1>1, <1>7, SettledBack
  <2>3. QED
    BY <1>1, <2>1, <2>2 DEF GuardLast, IsLastCounted
<1>8. QED
  BY <1>2, <1>3, <1>4, <1>5, <1>6, <1>7, EmissionBounds DEF EmissionNext, CadenceStep

-----------------------------------------------------------------------------
(* The invariant *)

LEMMA EmissionStarts == EmissionInit => EmissionInv
<1> SUFFICES ASSUME EmissionInit
             PROVE  EmissionInv
  OBVIOUS
<1>1. EmissionTypeOK
  BY NullTypes DEF EmissionInit, EmissionTypeOK, EmissionStep
<1>2. DOMAIN log = {} /\ \A p \in Cadence : at[p] = "idle"
  BY DEF EmissionInit
<1>3. QED
  BY <1>1, <1>2 DEF EmissionInit, EmissionInv, LockHeld, Critical, CountersConsecutive,
     CallAgrees, Appended, GuardAgrees, NoGuard, PhantomRefused, SnapshotsKnown,
     DownbeatsPending, GuardLast, IsLastCounted

LEMMA EmissionKept ==
    ASSUME EmissionInv, EmissionNext
    PROVE  EmissionInv'
<1>1. EmissionTypeOK /\ LockHeld
  BY DEF EmissionInv
<1>2. EmissionTypeOK' /\ LockHeld'
  BY <1>1, EmissionTypes, LockKept
<1>3. (\A p \in Cadence : CallAgrees(p)') /\ SnapshotsKnown'
  BY CallsKept, SnapshotsKept
<1>4. CountersConsecutive' /\ GuardAgrees' /\ PhantomRefused'
  BY LogKept
<1>5. DownbeatsPending' /\ GuardLast'
  BY DownbeatsKept, GuardLastKept
<1>6. QED
  BY <1>2, <1>3, <1>4, <1>5 DEF EmissionInv

\* The invariant does not depend on what another component does to the marker,
\* nor on kills elsewhere.
LEMMA EmissionFrame ==
    ASSUME EmissionInv,
           UNCHANGED <<log, mirror, guard, conf, lock, at, call, guarded>>,
           marker' \in Marker, kills' = kills \/ kills' = kills + 1
    PROVE  EmissionInv'
<1>1. EmissionTypeOK' /\ (kills' = 0 => kills = 0)
  BY DEF EmissionInv, EmissionTypeOK
<1>2. /\ LockHeld' /\ CountersConsecutive' /\ GuardAgrees' /\ PhantomRefused'
      /\ SnapshotsKnown'
  BY DEF EmissionInv, LockHeld, CountersConsecutive, CountedTo, GuardAgrees,
     PhantomRefused, NextCounted, SnapshotsKnown
<1>3. \A p \in Cadence : CallAgrees(p)'
  BY DEF EmissionInv, CallAgrees, Counted, CountedTo
<1>4. DownbeatsPending' /\ GuardLast'
  BY <1>1 DEF EmissionInv, DownbeatsPending, GuardLast, Settled, IsLastCounted
<1>5. QED
  BY <1>1, <1>2, <1>3, <1>4 DEF EmissionInv

LEMMA SnapshotsComplete == EmissionInv => TicHasConformation
<1> SUFFICES ASSUME EmissionInv
             PROVE  TicHasConformation
  OBVIOUS
<1>1. \A s \in conf : log[s[2]].after = s[1]
  BY DEF EmissionInv, SnapshotsKnown
<1>2. ASSUME kills = 0, NEW n \in DOMAIN log, log[n].counted, log[n].downbeat,
             \A p \in Cadence : call[p].em # n
      PROVE  \E s \in conf : s[1] = log[n].after
  BY <1>2 DEF EmissionInv, DownbeatsPending
<1>3. QED
  BY <1>1, <1>2 DEF TicHasConformation

\* cadence-ops.py on its own, for every set of processes, sessions and arguments:
\* tics are numbered 1, 2, 3, ... (count_physical_tics and the append are one
\* critical section), the phantom tic is refused, and every finished downbeat
\* has its snapshot.
THEOREM EmissionCorrect ==
    EmissionSpec => [](CountersConsecutive /\ PhantomRefused /\ TicHasConformation)
<1>1. EmissionInit => EmissionInv
  BY EmissionStarts
<1>2. EmissionInv /\ [EmissionNext]_tics => EmissionInv'
  <2>1. ASSUME EmissionInv, UNCHANGED tics
        PROVE  EmissionInv'
    BY <2>1, EmissionFrame DEF tics, EmissionInv, EmissionTypeOK
  <2>2. QED
    BY <2>1, EmissionKept
<1>3. EmissionInv => CountersConsecutive /\ PhantomRefused /\ TicHasConformation
  BY SnapshotsComplete DEF EmissionInv
<1>4. QED
  BY <1>1, <1>2, <1>3, PTL DEF EmissionSpec
=============================================================================
