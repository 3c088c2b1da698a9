------------------------ MODULE MandateLifecycleProofs ------------------------
(***************************************************************************)
(* TLAPS proofs about MandateLifecycle, for every set of processes, cycles *)
(* and every bound.                                                        *)
(***************************************************************************)
EXTENDS MandateLifecycle, TLAPS

-----------------------------------------------------------------------------
(* Types of the records the operators build *)

LEMMA MandateTypes ==
    /\ NoMandate \in Mandate
    /\ TornFile \in Mandate
    /\ \A m \in Mandate : Existing(m) \in Mandate
    /\ \A m \in Mandate, s \in Live \cup Terminal : [m EXCEPT !.status = s] \in Mandate
BY DEF NoMandate, TornFile, Existing, Mandate, Kind, Live, Terminal

LEMMA NoJobType == NoJob \in Job
BY MandateTypes DEF NoJob, Job, Kind, Terminal, Resumption

LEMMA RowTypes ==
    /\ \A t \in Transition, id \in Nat, into \in Nat : TransitionRow(t, id, into) \in Row
    /\ \A m \in Mandate : MandateRow(m) \in Row
BY DEF TransitionRow, MandateRow, Row, Mandate, Kind, Transition

LEMMA BuildType ==
    ASSUME NEW j \in Job, NEW id \in Nat, NEW existing \in Mandate
    PROVE  BuildMandate(j, id, MergeOrSupersede(existing, j.want)) \in Mandate
BY DEF BuildMandate, MergeOrSupersede, Mandate, Job, Live, Kind

LEMMA ExitType ==
    ASSUME TypeOK, NEW p \in Proc, Exit(p)
    PROVE  pc' \in [Proc -> Step] /\ job' \in [Proc -> Job]
BY NoJobType DEF TypeOK, Exit, Step

LEMMA GotoType ==
    ASSUME TypeOK, NEW p \in Proc, NEW step \in Step, Goto(p, step)
    PROVE  pc' \in [Proc -> Step]
BY DEF TypeOK, Goto

LEMMA RewriteType ==
    ASSUME TypeOK, NEW p \in Proc, NEW j \in Job, NEW m \in Mandate,
           NEW out \in Mandate, NEW after \in Resumption, Rewrite(p, j, m, out, after)
    PROVE  pc' \in [Proc -> Step] /\ job' \in [Proc -> Job]
<1>1. [j EXCEPT !.seen = m, !.out = out, !.after = after] \in Job
  BY DEF Job
<1>2. QED
  BY <1>1, GotoType DEF Rewrite, TypeOK, Step, Goto

LEMMA DroppedType ==
    ASSUME NEW old \in Mandate, NEW new \in Mandate
    PROVE  Dropped(old, new) \subseteq Cycle
BY DEF Dropped, Mandate

LEMMA BeginType ==
    ASSUME TypeOK, NEW w \in Proc, NEW kind \in Kind, NEW em \in Nat,
           NEW t \in 0..MaxTic, NEW want \in Wants[kind][t], NEW step \in Step,
           Begin(w, kind, t, em, want, step)
    PROVE  pc' \in [Proc -> Step] /\ job' \in [Proc -> Job]
<1>1. want \in SUBSET Cycle
  BY WantsAssumption
<1>2. [NoJob EXCEPT !.kind = kind, !.tic = t, !.em = em, !.want = want] \in Job
  <2>1. t \in Nat
    BY BoundAssumption
  <2>2. QED
    BY <1>1, <2>1, NoJobType DEF Job
<1>3. QED
  BY <1>2 DEF Begin, Goto, TypeOK

-----------------------------------------------------------------------------
(* Every step preserves the types *)

LEMMA BeginStepTypes ==
    ASSUME TypeOK, NEW w \in Writer,
           Cadence(w) \/ Replay(w) \/ SessionStart(w) \/ Review(w)
    PROVE  TypeOK'
<1>1. w \in Proc
  BY DEF Proc
<1>2. "idempotency" \in Step /\ "read" \in Step
  BY DEF Step
<1>3. CASE Cadence(w)
  <2>1. PICK want \in Wants["cadence"][tic + 1] :
            Begin(w, "cadence", tic + 1, tic + 1, want, "idempotency")
    BY <1>3 DEF Cadence
  <2>2. tic + 1 \in 0..MaxTic
    BY <1>3, BoundAssumption DEF Cadence, TypeOK
  <2>3. pc' \in [Proc -> Step] /\ job' \in [Proc -> Job]
    BY <1>1, <1>2, <2>1, <2>2, BeginType DEF Kind
  <2>4. QED
    BY <1>3, <2>2, <2>3 DEF Cadence, TypeOK, history
<1>4. CASE Replay(w)
  <2>1. PICK want \in Wants["cadence"][tic] :
            Begin(w, "cadence", tic, tic, want, "idempotency")
    BY <1>4 DEF Replay
  <2>2. pc' \in [Proc -> Step] /\ job' \in [Proc -> Job]
    BY <1>1, <1>2, <2>1, BeginType DEF Kind, TypeOK
  <2>3. QED
    BY <1>4, <2>2 DEF Replay, TypeOK, history
<1>5. CASE SessionStart(w)
  <2>1. PICK want \in Wants["session"][tic] : Begin(w, "session", tic, 0, want, "read")
    BY <1>5 DEF SessionStart
  <2>2. pc' \in [Proc -> Step] /\ job' \in [Proc -> Job]
    BY <1>1, <1>2, <2>1, BeginType DEF Kind, TypeOK
  <2>3. QED
    BY <1>5, <2>2 DEF SessionStart, TypeOK, history
<1>6. CASE Review(w)
  <2>1. PICK want \in Wants["review"][tic] : Begin(w, "review", tic, 0, want, "read")
    BY <1>6 DEF Review
  <2>2. pc' \in [Proc -> Step] /\ job' \in [Proc -> Job]
    BY <1>1, <1>2, <2>1, BeginType DEF Kind, TypeOK
  <2>3. QED
    BY <1>6, <2>2 DEF Review, TypeOK, history
<1>7. QED
  BY <1>3, <1>4, <1>5, <1>6

LEMMA WriteTypes ==
    ASSUME TypeOK, NEW p \in Proc, Truncate(p) \/ Fill(p)
    PROVE  TypeOK'
<1>1. job[p] \in Job /\ job[p].out \in Mandate /\ job[p].after \in Step
  BY DEF TypeOK, Job, Resumption, Step
<1>2. CASE Truncate(p)
  <2>1. Dropped(cur, job[p].out) \subseteq Cycle
    BY <1>1, DroppedType DEF TypeOK
  <2>2. (raced \/ Stale(job[p].seen)) \in BOOLEAN
    BY DEF TypeOK
  <2>3. pc' \in [Proc -> Step]
    BY <1>2, GotoType DEF Truncate, Step
  <2>4. QED
    BY <1>2, <2>1, <2>2, <2>3, MandateTypes DEF Truncate, TypeOK
<1>3. CASE Fill(p)
  <2>1. /\ Dropped(cur, job[p].out) \subseteq Cycle
        /\ Dropped(cur, NoMandate) \subseteq Cycle
        /\ Dropped(job[p].out, NoMandate) \subseteq Cycle
    BY <1>1, DroppedType, MandateTypes DEF TypeOK
  <2>2. pc' \in [Proc -> Step] /\ job' \in [Proc -> Job]
    <3>1. CASE job[p].after = "idle"
      BY <1>3, <3>1, ExitType DEF Fill, Resume
    <3>2. CASE job[p].after # "idle"
      BY <1>1, <1>3, <3>2, GotoType DEF Fill, Resume, TypeOK
    <3>3. QED
      BY <3>1, <3>2
  <2>3. cur' \in Mandate /\ lost' \subseteq Cycle
    BY <1>1, <1>3, <2>1, MandateTypes DEF Fill, TypeOK
  <2>4. raced' \in BOOLEAN
    BY <1>3 DEF Fill, TypeOK
  <2>5. QED
    BY <1>3, <2>2, <2>3, <2>4 DEF Fill, TypeOK
<1>4. QED
  BY <1>2, <1>3

LEMMA ProgressTypes ==
    ASSUME TypeOK, NEW w \in Writer, WriterProgress(w)
    PROVE  TypeOK'
<1>1. w \in Proc /\ job[w] \in Job /\ cur \in Mandate
  BY DEF Proc, TypeOK
<1>2. CASE Idempotent(w)
  <2>1. pc' \in [Proc -> Step] /\ job' \in [Proc -> Job]
    <3>1. CASE Readable(cur) /\ cur.em = job[w].em
      BY <1>1, <1>2, <3>1, ExitType DEF Idempotent
    <3>2. CASE ~(Readable(cur) /\ cur.em = job[w].em)
      BY <1>1, <1>2, <3>2, GotoType DEF Idempotent, Step, TypeOK
    <3>3. QED
      BY <3>1, <3>2
  <2>2. QED
    BY <1>2, <2>1 DEF Idempotent, TypeOK
<1>3. CASE Quiescent(w) \/ QuiesceTimeout(w)
  BY <1>1, <1>3, GotoType DEF Quiescent, QuiesceTimeout, Step, TypeOK, history
<1>4. CASE ReadExisting(w)
  <2>1. PICK id \in NewId :
          LET existing == Existing(cur)
              out == BuildMandate(job[w], id, MergeOrSupersede(existing, job[w].want))
          IN  /\ job' = [job EXCEPT ![w].seen = existing, ![w].out = out]
              /\ stamp' = id
    BY <1>4 DEF ReadExisting
  <2>2. id \in Nat
    BY DEF NewId, TypeOK
  <2> DEFINE existing == Existing(cur)
             out == BuildMandate(job[w], id, MergeOrSupersede(existing, job[w].want))
  <2>3. existing \in Mandate /\ out \in Mandate
    BY <1>1, <2>2, MandateTypes, BuildType
  <2>4. [job[w] EXCEPT !.seen = existing, !.out = out] \in Job
    BY <1>1, <2>3 DEF Job
  <2>5. job' = [job EXCEPT ![w] = [job[w] EXCEPT !.seen = existing, !.out = out]]
    BY <1>1, <2>1 DEF TypeOK, Job
  <2>6. job' \in [Proc -> Job]
    BY <2>4, <2>5 DEF TypeOK
  <2>7. pc' \in [Proc -> Step]
    BY <1>1, <1>4, GotoType DEF ReadExisting, Step
  <2>8. QED
    BY <1>4, <2>1, <2>2, <2>6, <2>7 DEF ReadExisting, TypeOK
<1>5. CASE ReadBoundary(w)
  <2> DEFINE j == [job[w] EXCEPT !.absorbed = Existing(cur), !.after = "terminalize"]
  <2>1. j \in Job
    BY <1>1, MandateTypes DEF Job, Resumption
  <2>2. job' = [job EXCEPT ![w] = j]
    BY <1>1, <1>5 DEF ReadBoundary, TypeOK, Job
  <2>3. job' \in [Proc -> Job]
    BY <2>1, <2>2 DEF TypeOK
  <2>4. pc' \in [Proc -> Step]
    BY <1>1, <1>5, GotoType DEF ReadBoundary, Step
  <2>5. QED
    BY <1>5, <2>3, <2>4 DEF ReadBoundary, TypeOK, history
<1>6. CASE Truncate(w) \/ Fill(w)
  BY <1>1, <1>6, WriteTypes
<1>7. CASE Terminalize(w)
  <2>1. TransitionRow("pending_to_merged", job[w].absorbed.id, job[w].out.id) \in Row
    BY <1>1, RowTypes DEF Job, Mandate, Transition
  <2>2. pc' \in [Proc -> Step]
    BY <1>1, <1>7, GotoType DEF Terminalize, Step
  <2>3. QED
    BY <1>7, <2>1, <2>2 DEF Terminalize, TypeOK, history
<1>8. CASE AppendMandateRow(w)
  <2>1. MandateRow(job[w].out) \in Row
    BY <1>1, RowTypes DEF Job
  <2>2. pc' \in [Proc -> Step] /\ job' \in [Proc -> Job]
    BY <1>1, <1>8, ExitType DEF AppendMandateRow
  <2>3. QED
    BY <1>8, <2>1, <2>2 DEF AppendMandateRow, TypeOK, history
<1>9. QED
  BY <1>2, <1>3, <1>4, <1>5, <1>6, <1>7, <1>8 DEF WriterProgress

LEMMA RunnerTypes ==
    ASSUME TypeOK, NEW r \in Runner, RunnerStep(r)
    PROVE  TypeOK'
<1>1. r \in Proc /\ job[r] \in Job /\ cur \in Mandate
  BY DEF Proc, TypeOK
<1>2. CASE Check(r)
  <2>1. pc' \in [Proc -> Step] /\ job' \in [Proc -> Job]
    <3>1. CASE cur.status = "pending"
      BY <1>1, <1>2, <3>1, GotoType DEF Check, Step, TypeOK
    <3>2. CASE cur.status # "pending"
      BY <1>1, <1>2, <3>2, ExitType DEF Check
    <3>3. QED
      BY <3>1, <3>2
  <2>2. QED
    BY <1>2, <2>1 DEF Check, TypeOK, history
<1>3. CASE Details(r)
  <2>1. pc' \in [Proc -> Step] /\ job' \in [Proc -> Job]
    <3>1. CASE Readable(cur)
      <4> DEFINE j == [job[r] EXCEPT !.id = cur.id, !.cycles = cur.cycles]
      <4>1. j \in Job
        BY <1>1 DEF Job, Mandate
      <4>2. job' = [job EXCEPT ![r] = j]
        BY <1>1, <1>3, <3>1 DEF Details, TypeOK, Job
      <4>3. QED
        BY <1>1, <1>3, <3>1, <4>1, <4>2, GotoType DEF Details, Step, TypeOK
    <3>2. CASE ~Readable(cur)
      BY <1>1, <1>3, <3>2, ExitType DEF Details
    <3>3. QED
      BY <3>1, <3>2
  <2>2. QED
    BY <1>3, <2>1 DEF Details, TypeOK, history
<1>4. CASE Start(r)
  <2>1. pc' \in [Proc -> Step] /\ job' \in [Proc -> Job]
    <3>1. CASE Readable(cur)
      <4>1. [cur EXCEPT !.status = "running"] \in Mandate
        BY <1>1, MandateTypes DEF Live
      <4>2. QED
        BY <1>1, <1>4, <3>1, <4>1, RewriteType DEF Start, Resumption
    <3>2. CASE ~Readable(cur)
      BY <1>1, <1>4, <3>2, ExitType DEF Start
    <3>3. QED
      BY <3>1, <3>2
  <2>2. QED
    BY <1>4, <2>1 DEF Start, TypeOK, history
<1>5. CASE StartRow(r)
  <2>1. TransitionRow("pending_to_running", cur.id, 0) \in Row
    BY <1>1, RowTypes DEF Mandate, Transition
  <2>2. pc' \in [Proc -> Step] /\ job' \in [Proc -> Job]
    <3>1. CASE Readable(cur)
      BY <1>1, <1>5, <3>1, GotoType DEF StartRow, Step, TypeOK
    <3>2. CASE ~Readable(cur)
      BY <1>1, <1>5, <3>2, ExitType DEF StartRow
    <3>3. QED
      BY <3>1, <3>2
  <2>3. ledger' \subseteq Row
    BY <1>5, <2>1 DEF StartRow, TypeOK
  <2>4. QED
    BY <1>5, <2>2, <2>3 DEF StartRow, TypeOK, history
<1>6. CASE Execute(r)
  <2>1. \A verdict \in Terminal, logged \in BOOLEAN :
            [job[r] EXCEPT !.verdict = verdict, !.logged = logged] \in Job
    BY <1>1 DEF Job
  <2>2. PICK verdict \in Terminal, logged \in BOOLEAN :
            job' = [job EXCEPT ![r].verdict = verdict, ![r].logged = logged]
    BY <1>6 DEF Execute, Terminal
  <2>3. job' = [job EXCEPT ![r] = [job[r] EXCEPT !.verdict = verdict, !.logged = logged]]
    BY <1>1, <2>2 DEF TypeOK, Job
  <2>4. job' \in [Proc -> Job]
    BY <2>1, <2>3 DEF TypeOK
  <2>5. ran' \subseteq Nat
    BY <1>1, <1>6 DEF Execute, TypeOK, Job
  <2>6. pc' \in [Proc -> Step]
    BY <1>1, <1>6, GotoType DEF Execute, Step
  <2>7. QED
    BY <1>6, <2>4, <2>5, <2>6 DEF Execute, TypeOK
<1>7. CASE WriteBack(r)
  <2> DEFINE next == IF job[r].logged THEN "final" ELSE "idle"
  <2>1. next \in Resumption /\ next \in Step
    BY DEF Resumption, Step
  <2>2. pc' \in [Proc -> Step] /\ job' \in [Proc -> Job]
    <3>1. CASE Readable(cur) /\ cur.id = job[r].id
      <4>1. [cur EXCEPT !.status = job[r].verdict] \in Mandate
        BY <1>1, MandateTypes DEF Job
      <4>2. Rewrite(r, job[r], cur, [cur EXCEPT !.status = job[r].verdict], next)
        BY <1>7, <3>1 DEF WriteBack
      <4>3. QED
        BY <1>1, <2>1, <4>1, <4>2, RewriteType
    <3>2. CASE ~(Readable(cur) /\ cur.id = job[r].id) /\ next = "idle"
      BY <1>1, <1>7, <3>2, ExitType DEF WriteBack
    <3>3. CASE ~(Readable(cur) /\ cur.id = job[r].id) /\ next # "idle"
      <4>1. [job[r] EXCEPT !.detached = TRUE, !.by = cur.id] \in Job
        BY <1>1 DEF Job, Mandate
      <4>2. job' = [job EXCEPT ![r] = [job[r] EXCEPT !.detached = TRUE, !.by = cur.id]]
        BY <1>1, <1>7, <3>3 DEF WriteBack, TypeOK, Job
      <4>3. Goto(r, next)
        BY <1>7, <3>3 DEF WriteBack
      <4>4. QED
        BY <1>1, <2>1, <4>1, <4>2, <4>3, GotoType DEF TypeOK
    <3>4. QED
      BY <3>1, <3>2, <3>3
  <2>3. QED
    BY <1>7, <2>2 DEF WriteBack, TypeOK, history
<1>8. CASE FinalRow(r)
  <2>1. FinalTransition(job[r]) \in Transition
    BY DEF FinalTransition, Transition
  <2>2. TransitionRow(FinalTransition(job[r]), job[r].id, job[r].by) \in Row
    BY <1>1, <2>1, RowTypes DEF Job
  <2>3. pc' \in [Proc -> Step] /\ job' \in [Proc -> Job]
    BY <1>1, <1>8, ExitType DEF FinalRow
  <2>4. QED
    BY <1>8, <2>2, <2>3 DEF FinalRow, TypeOK, history
<1>9. CASE Truncate(r) \/ Fill(r)
  BY <1>1, <1>9, WriteTypes
<1>10. QED
  BY <1>2, <1>3, <1>4, <1>5, <1>6, <1>7, <1>8, <1>9 DEF RunnerStep

LEMMA GateTypes ==
    ASSUME TypeOK, NEW g \in Gate, GateStep(g)
    PROVE  TypeOK'
<1>1. g \in Proc /\ job[g] \in Job /\ cur \in Mandate
  BY DEF Proc, TypeOK
<1>2. CASE Spawn(g)
  <2>1. PICK r \in Runner : Goto(r, "check")
    BY <1>2 DEF Spawn
  <2>2. pc' \in [Proc -> Step]
    BY <2>1, GotoType DEF Proc, Step
  <2>3. QED
    BY <1>2, <2>2 DEF Spawn, TypeOK, history
<1>3. CASE Take(g)
  <2> DEFINE j == [job[g] EXCEPT !.id = cur.id, !.cycles = cur.cycles]
  <2>1. j \in Job
    BY <1>1 DEF Job, Mandate
  <2>2. job' = [job EXCEPT ![g] = j]
    BY <1>1, <1>3 DEF Take, TypeOK, Job
  <2>3. pc' \in [Proc -> Step] /\ job' \in [Proc -> Job]
    BY <1>1, <1>3, <2>1, <2>2, GotoType DEF Take, Step, TypeOK
  <2>4. QED
    BY <1>3, <2>3 DEF Take, TypeOK, history
<1>4. CASE Recheck(g)
  <2>1. pc' \in [Proc -> Step] /\ job' \in [Proc -> Job]
    <3>1. CASE cur.status = "pending"
      BY <1>1, <1>4, <3>1, GotoType DEF Recheck, Step, TypeOK
    <3>2. CASE cur.status # "pending"
      BY <1>1, <1>4, <3>2, ExitType DEF Recheck
    <3>3. QED
      BY <3>1, <3>2
  <2>2. QED
    BY <1>4, <2>1 DEF Recheck, TypeOK, history
<1>5. CASE Inline(g)
  <2>1. pc' \in [Proc -> Step] /\ ran' \subseteq Nat
    BY <1>1, <1>5, GotoType DEF Inline, Step, TypeOK, Job
  <2>2. QED
    BY <1>5, <2>1 DEF Inline, TypeOK
<1>6. CASE Consume(g)
  <2>1. pc' \in [Proc -> Step] /\ job' \in [Proc -> Job]
    <3>1. CASE Readable(cur)
      <4>1. [cur EXCEPT !.status = "consumed"] \in Mandate
        BY <1>1, MandateTypes DEF Terminal
      <4>2. QED
        BY <1>1, <1>6, <3>1, <4>1, RewriteType DEF Consume, Resumption
    <3>2. CASE ~Readable(cur)
      BY <1>1, <1>6, <3>2, ExitType DEF Consume
    <3>3. QED
      BY <3>1, <3>2
  <2>2. QED
    BY <1>6, <2>1 DEF Consume, TypeOK, history
<1>7. CASE Truncate(g) \/ Fill(g)
  BY <1>1, <1>7, WriteTypes
<1>8. QED
  BY <1>2, <1>3, <1>4, <1>5, <1>6, <1>7 DEF GateStep

LEMMA CrashTypes ==
    ASSUME TypeOK, NEW p \in Crasher, Crash(p)
    PROVE  TypeOK'
<1>1. p \in Proc
  BY ProcAssumption
<1>2. pc' \in [Proc -> Step] /\ job' \in [Proc -> Job]
  BY <1>1, ExitType DEF Crash
<1>3. Dropped(job[p].out, NoMandate) \subseteq Cycle
  BY <1>1, DroppedType, MandateTypes DEF TypeOK, Job
<1>4. lost' \subseteq Cycle /\ raced' \in BOOLEAN
  BY <1>3 DEF Crash, TypeOK
<1>5. QED
  BY <1>2, <1>4 DEF Crash, TypeOK

LEMMA InitTypes == Init => TypeOK
<1> SUFFICES ASSUME Init
             PROVE  TypeOK
  OBVIOUS
<1>1. tic \in 0..MaxTic
  BY BoundAssumption DEF Init
<1>2. pc \in [Proc -> Step] /\ job \in [Proc -> Job]
  BY NoJobType DEF Init, Step
<1>3. cur \in Mandate
  BY MandateTypes DEF Init
<1>4. QED
  BY <1>1, <1>2, <1>3 DEF Init, TypeOK

LEMMA NextTypes == TypeOK /\ [Next]_vars => TypeOK'
<1> SUFFICES ASSUME TypeOK, [Next]_vars
             PROVE  TypeOK'
  OBVIOUS
<1>1. CASE \E w \in Writer : WriterStep(w)
  BY <1>1, BeginStepTypes, ProgressTypes DEF WriterStep
<1>2. CASE \E r \in Runner : RunnerStep(r)
  BY <1>2, RunnerTypes
<1>3. CASE \E g \in Gate : GateStep(g)
  BY <1>3, GateTypes
<1>4. CASE \E p \in Crasher : Crash(p)
  BY <1>4, CrashTypes
<1>5. CASE UNCHANGED vars
  BY <1>5 DEF vars, TypeOK
<1>6. QED
  BY <1>1, <1>2, <1>3, <1>4, <1>5 DEF Next

\* The type invariant holds in every reachable state: every handler leaves
\* current.json, the ledger and its own variables well formed.
THEOREM TypeCorrect == Spec => []TypeOK
<1>1. Init => TypeOK
  BY InitTypes
<1>2. TypeOK /\ [Next]_vars => TypeOK'
  BY NextTypes
<1>3. QED
  BY <1>1, <1>2, PTL DEF Spec

-----------------------------------------------------------------------------
(* Obligations are conserved and merged lanes are carried                  *)
(*                                                                         *)
(* Two mandates are never given one identifier, so a process whose write   *)
(* is not stale finds in the file the very cycles it read, and what it     *)
(* writes covers them.                                                     *)

\* A step of p (or of a runner p the gate spawns) that builds no mandate and
\* closes no lane.
Quiet(p) ==
    /\ stamp' = stamp
    /\ MergeRows' = MergeRows
    /\ Tags' \subseteq Tags
    /\ \A x \in Proc \ {p} : pc'[x] = pc[x] /\ job'[x] = job[x]
    /\ CoversAt(p)'
    /\ p \in Writer => MergesAt(p)'

LEMMA QuietKeeps ==
    ASSUME Inductive, TypeOK', ObligationConserved', NEW p \in Proc, Quiet(p)
    PROVE  Inductive'
<1>1. OneTagPerId'
  BY DEF Inductive, Quiet, OneTagPerId
<1>2. RowsCover'
  BY DEF Inductive, Quiet, RowsCover
<1>3. \A x \in Proc : CoversAt(x)'
  BY DEF Inductive, Quiet, CoversAt
<1>4. \A x \in Writer : MergesAt(x)'
  BY DEF Inductive, Quiet, MergesAt, Proc
<1>5. QED
  BY <1>1, <1>2, <1>3, <1>4 DEF Inductive

LEMMA KnownTags ==
    /\ Tag(NoMandate) \in Tags /\ Tag(cur) \in Tags
    /\ Tag(TornFile) \in Tags /\ Tag(Existing(cur)) \in Tags
    /\ \A p \in Proc : /\ Tag(job[p].seen) \in Tags
                       /\ Tag(job[p].out) \in Tags
                       /\ Tag(job[p].absorbed) \in Tags
    /\ \A row \in MandateRows : Tag(row) \in Tags
<1>1. Tag(TornFile) = Tag(NoMandate)
  BY DEF Tag, TornFile, NoMandate
<1>2. Tag(NoMandate) \in Tags /\ Tag(cur) \in Tags
  BY DEF Tags
<1>3. Tag(Existing(cur)) \in Tags
  BY <1>2 DEF Existing
<1>4. QED
  BY <1>1, <1>2, <1>3 DEF Tags

\* The tags after a step of p are known ones if the file, p's variables and the
\* new mandate rows carry known ones.
LEMMA TagsKept ==
    ASSUME NEW p \in Proc,
           \A x \in Proc \ {p} : job'[x] = job[x],
           Tag(cur') \in Tags,
           Tag(job'[p].seen) \in Tags, Tag(job'[p].out) \in Tags,
           Tag(job'[p].absorbed) \in Tags,
           \A row \in MandateRows' : Tag(row) \in Tags
    PROVE  Tags' \subseteq Tags
<1>1. \A x \in Proc : /\ Tag(job'[x].seen) \in Tags
                     /\ Tag(job'[x].out) \in Tags
                     /\ Tag(job'[x].absorbed) \in Tags
  BY KnownTags
<1>2. Tag(NoMandate) \in Tags
  BY KnownTags
<1>3. Tags' = {Tag(NoMandate), Tag(cur')}
          \cup {Tag(job'[x].seen) : x \in Proc} \cup {Tag(job'[x].out) : x \in Proc}
          \cup {Tag(job'[x].absorbed) : x \in Proc} \cup {Tag(row) : row \in MandateRows'}
  BY DEF Tags, Tag
<1>4. QED
  BY <1>1, <1>2, <1>3

\* A process that leaves forgets its variables.
LEMMA ExitQuiet ==
    ASSUME TypeOK, NEW p \in Proc, Exit(p), stamp' = stamp,
           Tag(cur') \in Tags,
           MergeRows' = MergeRows, \A row \in MandateRows' : Tag(row) \in Tags
    PROVE  Quiet(p)
<1>1. pc'[p] = "idle" /\ job'[p] = NoJob
  BY DEF Exit, TypeOK
<1>2. \A x \in Proc \ {p} : pc'[x] = pc[x] /\ job'[x] = job[x]
  BY DEF Exit, TypeOK
<1>3. NoJob.seen = NoMandate /\ NoJob.out = NoMandate /\ NoJob.absorbed = NoMandate
  BY DEF NoJob
<1>4. Tags' \subseteq Tags
  BY <1>1, <1>2, <1>3, TagsKept, KnownTags
<1>5. QED
  BY <1>1, <1>2, <1>4 DEF Quiet, CoversAt, MergesAt

\* A process that moves on with its variables unchanged.
LEMMA GotoQuiet ==
    ASSUME Inductive, NEW p \in Proc, NEW step \in Step, Goto(p, step),
           job' = job, stamp' = stamp, Tag(cur') \in Tags,
           MergeRows' = MergeRows, \A row \in MandateRows' : Tag(row) \in Tags,
           step \in {"boundary", "truncate"} => CoversAt(p)',
           p \in Writer /\ step \in {"boundary", "truncate", "fill", "terminalize"}
               => MergesAt(p)'
    PROVE  Quiet(p)
<1>1. pc'[p] = step /\ \A x \in Proc \ {p} : pc'[x] = pc[x]
  BY DEF Goto, Inductive, TypeOK
<1>2. Tags' \subseteq Tags
  BY TagsKept, KnownTags
<1>3. QED
  BY <1>1, <1>2 DEF Quiet, CoversAt, MergesAt

LEMMA RowsUnchanged ==
    ASSUME ledger' = ledger
    PROVE  MergeRows' = MergeRows /\ \A row \in MandateRows' : Tag(row) \in Tags
BY KnownTags DEF MergeRows, MandateRows

\* A runner's or the gate's read-modify-write keeps the tag it read.
LEMMA RewriteQuiet ==
    ASSUME TypeOK, NEW p \in Runner \cup Gate, NEW status \in Live \cup Terminal,
           NEW after,
           Rewrite(p, job[p], cur, [cur EXCEPT !.status = status], after),
           cur' = cur, ledger' = ledger, stamp' = stamp
    PROVE  Quiet(p)
<1>1. p \in Proc /\ p \notin Writer
  BY ProcAssumption DEF Proc
<1> DEFINE out == [cur EXCEPT !.status = status]
<1>2. Tag(out) = Tag(cur) /\ out.id = cur.id /\ out.cycles = cur.cycles
  BY DEF Tag, TypeOK, Mandate
<1>3. /\ job'[p].seen = cur /\ job'[p].out = out
      /\ job'[p].absorbed = job[p].absorbed
      /\ \A x \in Proc \ {p} : job'[x] = job[x]
  BY <1>1 DEF Rewrite, TypeOK, Job
<1>4. pc'[p] = "truncate" /\ \A x \in Proc \ {p} : pc'[x] = pc[x]
  BY <1>1 DEF Rewrite, Goto, TypeOK
<1>5. Tags' \subseteq Tags
  BY <1>1, <1>2, <1>3, TagsKept, KnownTags, RowsUnchanged
<1>6. CoversAt(p)'
  BY <1>2, <1>3 DEF CoversAt
<1>7. QED
  BY <1>1, <1>3, <1>4, <1>5, <1>6, RowsUnchanged DEF Quiet

LEMMA BeginJob ==
    ASSUME TypeOK, NEW w \in Proc, NEW kind, NEW t, NEW em, NEW want, NEW step,
           Begin(w, kind, t, em, want, step)
    PROVE  /\ job'[w].seen = NoMandate /\ job'[w].out = NoMandate
           /\ job'[w].absorbed = NoMandate
           /\ pc'[w] = step
           /\ \A x \in Proc \ {w} : pc'[x] = pc[x] /\ job'[x] = job[x]
BY DEF Begin, Goto, TypeOK, NoJob

LEMMA BeginQuiet ==
    ASSUME Inductive, NEW w \in Writer,
           Cadence(w) \/ Replay(w) \/ SessionStart(w) \/ Review(w)
    PROVE  Quiet(w) /\ UNCHANGED <<lost, raced>>
<1>1. w \in Proc /\ TypeOK
  BY DEF Proc, Inductive
<1>2. /\ job'[w].seen = NoMandate /\ job'[w].out = NoMandate
      /\ job'[w].absorbed = NoMandate
      /\ pc'[w] \in {"idempotency", "read"}
      /\ \A x \in Proc \ {w} : pc'[x] = pc[x] /\ job'[x] = job[x]
  <2>1. CASE Cadence(w)
    BY <1>1, <2>1, BeginJob DEF Cadence
  <2>2. CASE Replay(w)
    BY <1>1, <2>2, BeginJob DEF Replay
  <2>3. CASE SessionStart(w)
    BY <1>1, <2>3, BeginJob DEF SessionStart
  <2>4. CASE Review(w)
    BY <1>1, <2>4, BeginJob DEF Review
  <2>5. QED
    BY <2>1, <2>2, <2>3, <2>4
<1>3. UNCHANGED <<cur, ledger, stamp, lost, raced>>
  BY DEF Cadence, Replay, SessionStart, Review, history
<1>4. Tags' \subseteq Tags
  BY <1>1, <1>2, <1>3, TagsKept, KnownTags, RowsUnchanged
<1>5. CoversAt(w)' /\ MergesAt(w)'
  BY <1>2 DEF CoversAt, MergesAt
<1>6. QED
  BY <1>2, <1>3, <1>4, <1>5, RowsUnchanged DEF Quiet

\* An unstale write drops nothing: the file still holds the tag that was read,
\* and what is written covers it.
LEMMA TruncateConserves ==
    ASSUME Inductive, NEW p \in Proc, Truncate(p), ~Stale(job[p].seen)
    PROVE  Dropped(cur, job[p].out) = {}
<1> DEFINE seen == job[p].seen
           out == job[p].out
<1>1. cur.id = seen.id /\ (IsLive(cur) => IsLive(seen))
  BY DEF Stale
<1>2. cur.cycles = seen.cycles
  <2>1. Tag(cur) \in Tags /\ Tag(seen) \in Tags
    BY KnownTags
  <2>2. QED
    BY <1>1, <2>1 DEF Inductive, OneTagPerId, Tag
<1>3. IsLive(seen) => seen.cycles \subseteq out.cycles /\ (out.id = seen.id \/ IsLive(out))
  BY DEF Truncate, At, Inductive, CoversAt
<1>4. CASE ~IsLive(cur)
  BY <1>4 DEF Dropped
<1>5. CASE IsLive(cur)
  BY <1>1, <1>2, <1>3, <1>5 DEF Dropped
<1>6. QED
  BY <1>4, <1>5

LEMMA WriteQuiet ==
    ASSUME Inductive, TypeOK', NEW p \in Proc, Truncate(p) \/ Fill(p)
    PROVE  Quiet(p) /\ ObligationConserved'
<1>1. TypeOK /\ job[p].after \in Resumption
  BY DEF Inductive, TypeOK, Job
<1>2. CASE Truncate(p)
  <2>1. MergesAt(p)' \/ p \notin Writer
    BY <1>1, <1>2 DEF Truncate, At, Inductive, MergesAt
  <2>2. Quiet(p)
    BY <1>1, <1>2, <2>1, GotoQuiet, KnownTags, RowsUnchanged DEF Truncate, Step
  <2>3. ObligationConserved'
    <3>1. CASE Stale(job[p].seen)
      BY <1>2, <3>1 DEF Truncate, ObligationConserved
    <3>2. CASE ~Stale(job[p].seen)
      BY <1>2, <3>2, TruncateConserves DEF Truncate, ObligationConserved, Inductive
    <3>3. QED
      BY <3>1, <3>2
  <2>4. QED
    BY <2>2, <2>3
<1>3. CASE Fill(p)
  <2>1. Tag(cur') \in Tags
    BY <1>3, KnownTags DEF Fill
  <2>2. Quiet(p)
    <3>1. CASE job[p].after = "idle"
      BY <1>1, <1>3, <2>1, <3>1, ExitQuiet, RowsUnchanged DEF Fill, Resume
    <3>2. CASE job[p].after # "idle"
      <4>1. Goto(p, job[p].after) /\ job' = job
        BY <1>3, <3>2 DEF Fill, Resume
      <4>2. job[p].after \in Step /\ job[p].after \notin {"boundary", "truncate", "fill"}
        BY <1>1 DEF Resumption, Step
      <4>3. p \in Writer => MergesAt(p)'
        BY <1>3, <4>1 DEF Fill, At, Inductive, MergesAt
      <4>4. QED
        BY <1>3, <2>1, <4>1, <4>2, <4>3, GotoQuiet, RowsUnchanged DEF Fill
    <3>3. QED
      BY <3>1, <3>2
  <2>3. ObligationConserved'
    <3>1. CASE cur.status = "torn"
      <4>1. Dropped(cur, job[p].out) = {}
        BY <3>1 DEF Dropped, IsLive, Live
      <4>2. QED
        BY <1>3, <3>1, <4>1 DEF Fill, ObligationConserved, Inductive
    <3>2. CASE cur.status # "torn"
      BY <1>3, <3>2 DEF Fill, ObligationConserved
    <3>3. QED
      BY <3>1, <3>2
  <2>4. QED
    BY <2>2, <2>3
<1>4. QED
  BY <1>2, <1>3

\* Building a mandate: its identifier is new, and it takes over the cycles of
\* the live mandate it read.
LEMMA BuildKeeps ==
    ASSUME Inductive, TypeOK', SameSecond = FALSE, NEW w \in Writer, ReadExisting(w)
    PROVE  Inductive'
<1>1. w \in Proc /\ TypeOK /\ stamp \in Nat /\ job[w] \in Job
  BY DEF Proc, Inductive, TypeOK
<1> DEFINE existing == Existing(cur)
           merge == MergeOrSupersede(existing, job[w].want)
           out == BuildMandate(job[w], stamp + 1, merge)
<1>2. job' = [job EXCEPT ![w].seen = existing, ![w].out = out] /\ stamp' = stamp + 1
  BY DEF ReadExisting, NewId
<1>3. /\ job'[w].seen = existing /\ job'[w].out = out
      /\ job'[w].absorbed = job[w].absorbed
      /\ \A x \in Proc \ {w} : job'[x] = job[x]
  BY <1>1, <1>2 DEF TypeOK, Job
<1>4. pc'[w] = "boundary" /\ \A x \in Proc \ {w} : pc'[x] = pc[x]
  BY <1>1 DEF ReadExisting, Goto, TypeOK
<1>5. Tag(out) = <<stamp + 1, out.cycles>>
  BY DEF Tag, BuildMandate
<1>6. Tags' \subseteq Tags \cup {Tag(out)}
  <2>1. \A x \in Proc : /\ Tag(job'[x].seen) \in Tags \cup {Tag(out)}
                       /\ Tag(job'[x].out) \in Tags \cup {Tag(out)}
                       /\ Tag(job'[x].absorbed) \in Tags \cup {Tag(out)}
    BY <1>3, KnownTags
  <2>2. cur' = cur /\ MandateRows' = MandateRows
    BY DEF ReadExisting, MandateRows
  <2>3. Tags' = {Tag(NoMandate), Tag(cur)}
          \cup {Tag(job'[x].seen) : x \in Proc} \cup {Tag(job'[x].out) : x \in Proc}
          \cup {Tag(job'[x].absorbed) : x \in Proc} \cup {Tag(row) : row \in MandateRows}
    BY <2>2 DEF Tags, Tag
  <2>4. QED
    BY <2>1, <2>3, KnownTags
<1>7. \A x \in Tags : x[1] <= stamp
  BY DEF Inductive, OneTagPerId
<1>8. \A x \in Tags : x[1] \in Nat
  BY <1>1 DEF Tags, Tag, TypeOK, Job, Mandate, NoMandate, MandateRows, Row
<1>9. OneTagPerId'
  <2>1. \A x \in Tags \cup {Tag(out)} : x[1] <= stamp + 1
    BY <1>1, <1>5, <1>7, <1>8
  <2>2. \A x, y \in Tags \cup {Tag(out)} : x[1] = y[1] => x[2] = y[2]
    BY <1>1, <1>5, <1>7, <1>8 DEF Inductive, OneTagPerId
  <2>3. QED
    BY <1>2, <1>6, <2>1, <2>2 DEF OneTagPerId
<1>10. RowsCover'
  <2>1. MergeRows' = MergeRows
    BY DEF ReadExisting, MergeRows
  <2>2. \A m \in MergeRows : /\ m.id \in Nat /\ m.into \in Nat
                              /\ m.id <= stamp /\ m.into <= stamp
    BY <1>1 DEF MergeRows, Inductive, RowsCover, TypeOK, Row
  <2>3. \A m \in MergeRows : \A x, y \in Tags \cup {Tag(out)} :
            x[1] = m.id /\ y[1] = m.into => x[2] \subseteq y[2]
    BY <1>1, <1>5, <2>2 DEF Inductive, RowsCover
  <2>4. QED
    BY <1>1, <1>2, <1>6, <2>1, <2>2, <2>3 DEF RowsCover
<1>11. /\ IsLive(existing) => /\ existing.cycles \subseteq out.cycles
                              /\ out.mergedFrom = {existing.id}
       /\ ~IsLive(existing) => out.mergedFrom = {}
       /\ IsLive(out)
  BY DEF BuildMandate, MergeOrSupersede, IsLive, Live
<1>12. \A x \in Proc : CoversAt(x)'
  BY <1>3, <1>4, <1>11 DEF CoversAt, Inductive
<1>13. \A x \in Writer : MergesAt(x)'
  BY <1>3, <1>4, <1>11 DEF MergesAt, Inductive, Proc
<1>14. ObligationConserved'
  BY DEF ReadExisting, ObligationConserved, Inductive
<1>15. QED
  BY <1>9, <1>10, <1>12, <1>13, <1>14 DEF Inductive

\* Closing an absorbed lane: the mandate it names was merged into this one.
LEMMA TerminalizeKeeps ==
    ASSUME Inductive, TypeOK', NEW w \in Writer, Terminalize(w)
    PROVE  Inductive'
<1> DEFINE j == job[w]
           row == TransitionRow("pending_to_merged", j.absorbed.id, j.out.id)
<1>1. w \in Proc /\ TypeOK /\ j \in Job
  BY DEF Proc, Inductive, TypeOK
<1>2. pc'[w] = "row" /\ (\A x \in Proc \ {w} : pc'[x] = pc[x]) /\ job' = job
  BY <1>1 DEF Terminalize, Goto, TypeOK
<1>3. MandateRows' = MandateRows
  BY DEF Terminalize, MandateRows, TransitionRow
<1>4. Tags' = Tags
  BY <1>2, <1>3 DEF Tags, Tag, Terminalize
<1>5. OneTagPerId'
  BY <1>4 DEF Terminalize, OneTagPerId, Inductive
<1>6. RowsCover'
  <2>1. CASE ledger' = ledger
    BY <1>4, <2>1 DEF Terminalize, RowsCover, MergeRows, Inductive
  <2>2. CASE Absorbs(j) /\ ledger' = ledger \cup {row}
    <3>1. row.id = j.absorbed.id /\ row.into = j.out.id
      BY DEF TransitionRow
    <3>2. j.absorbed.id = j.seen.id /\ j.seen.cycles \subseteq j.out.cycles
      BY <2>2 DEF Absorbs, Terminalize, At, Inductive, MergesAt
    <3>3. Tag(j.absorbed) \in Tags /\ Tag(j.seen) \in Tags /\ Tag(j.out) \in Tags
      BY <1>1, KnownTags
    <3>4. row.id <= stamp /\ row.into <= stamp
      BY <3>1, <3>3 DEF Inductive, OneTagPerId, Tag
    <3>5. \A x, y \in Tags : x[1] = row.id /\ y[1] = row.into => x[2] \subseteq y[2]
      BY <3>1, <3>2, <3>3 DEF Inductive, OneTagPerId, Tag
    <3>6. MergeRows' \subseteq MergeRows \cup {row}
      BY <2>2 DEF MergeRows
    <3>7. stamp' = stamp
      BY DEF Terminalize
    <3>8. QED
      BY <1>4, <3>4, <3>5, <3>6, <3>7 DEF RowsCover, Inductive
  <2>3. QED
    BY <2>1, <2>2 DEF Terminalize
<1>7. \A x \in Proc : CoversAt(x)'
  BY <1>2 DEF CoversAt, Inductive
<1>8. \A x \in Writer : MergesAt(x)'
  BY <1>2 DEF MergesAt, Inductive, Proc
<1>9. ObligationConserved'
  BY DEF Terminalize, ObligationConserved, Inductive, history
<1>10. QED
  BY <1>5, <1>6, <1>7, <1>8, <1>9 DEF Inductive

\* The writer's other steps.
LEMMA ProgressKeeps ==
    ASSUME Inductive, TypeOK', SameSecond = FALSE, NEW w \in Writer, WriterProgress(w)
    PROVE  Inductive'
<1>1. w \in Proc /\ TypeOK
  BY DEF Proc, Inductive
<1>2. CASE Idempotent(w)
  <2>1. Quiet(w)
    <3>1. CASE Readable(cur) /\ cur.em = job[w].em
      BY <1>1, <1>2, <3>1, ExitQuiet, KnownTags, RowsUnchanged DEF Idempotent
    <3>2. CASE ~(Readable(cur) /\ cur.em = job[w].em)
      BY <1>1, <1>2, <3>2, GotoQuiet, KnownTags, RowsUnchanged DEF Idempotent, Step
    <3>3. QED
      BY <3>1, <3>2
  <2>2. ObligationConserved'
    BY <1>2 DEF Idempotent, ObligationConserved, Inductive
  <2>3. QED
    BY <1>1, <2>1, <2>2, QuietKeeps
<1>3. CASE Quiescent(w) \/ QuiesceTimeout(w)
  <2>1. Quiet(w)
    BY <1>1, <1>3, GotoQuiet, KnownTags, RowsUnchanged DEF Quiescent, QuiesceTimeout, Step
  <2>2. ObligationConserved'
    BY <1>3 DEF Quiescent, QuiesceTimeout, ObligationConserved, Inductive, history
  <2>3. QED
    BY <1>1, <2>1, <2>2, QuietKeeps
<1>4. CASE ReadExisting(w)
  BY <1>4, BuildKeeps
<1>5. CASE ReadBoundary(w)
  <2>1. /\ job'[w].seen = job[w].seen /\ job'[w].out = job[w].out
        /\ job'[w].absorbed = Existing(cur)
        /\ \A x \in Proc \ {w} : job'[x] = job[x]
    BY <1>1, <1>5 DEF ReadBoundary, TypeOK, Job
  <2>2. pc[w] = "boundary" /\ pc'[w] = "truncate" /\ \A x \in Proc \ {w} : pc'[x] = pc[x]
    BY <1>1, <1>5 DEF ReadBoundary, At, Goto, TypeOK
  <2>3. UNCHANGED <<cur, ledger, stamp, lost, raced>>
    BY <1>5 DEF ReadBoundary, history
  <2>4. Tags' \subseteq Tags
    BY <1>1, <2>1, <2>3, TagsKept, KnownTags, RowsUnchanged
  <2>5. CoversAt(w)' /\ MergesAt(w)'
    BY <1>1, <2>1, <2>2 DEF CoversAt, MergesAt, Inductive
  <2>6. Quiet(w)
    BY <2>1, <2>2, <2>3, <2>4, <2>5, RowsUnchanged DEF Quiet
  <2>7. ObligationConserved'
    BY <2>3 DEF ObligationConserved, Inductive
  <2>8. QED
    BY <1>1, <2>6, <2>7, QuietKeeps
<1>6. CASE Truncate(w) \/ Fill(w)
  BY <1>1, <1>6, WriteQuiet, QuietKeeps
<1>7. CASE Terminalize(w)
  BY <1>7, TerminalizeKeeps
<1>8. CASE AppendMandateRow(w)
  <2>1. MergeRows' = MergeRows
    BY <1>8 DEF AppendMandateRow, MergeRows, MandateRow
  <2>2. Tag(MandateRow(job[w].out)) \in Tags
    BY <1>1, KnownTags DEF Tag, MandateRow
  <2>3. \A row \in MandateRows' : Tag(row) \in Tags
    BY <1>8, <2>2, KnownTags DEF AppendMandateRow, MandateRows
  <2>4. Quiet(w)
    BY <1>1, <1>8, <2>1, <2>3, ExitQuiet, KnownTags DEF AppendMandateRow
  <2>5. ObligationConserved'
    BY <1>8 DEF AppendMandateRow, ObligationConserved, Inductive, history
  <2>6. QED
    BY <1>1, <2>4, <2>5, QuietKeeps
<1>9. QED
  BY <1>2, <1>3, <1>4, <1>5, <1>6, <1>7, <1>8 DEF WriterProgress

\* A transition row of the runner neither closes a merged lane nor is a mandate.
LEMMA RunnerRow ==
    ASSUME NEW t \in Transition \ {"pending_to_merged"}, NEW id, NEW into,
           ledger' = ledger \cup {TransitionRow(t, id, into)}
    PROVE  MergeRows' = MergeRows /\ \A row \in MandateRows' : Tag(row) \in Tags
<1>1. TransitionRow(t, id, into).t = t /\ t # "mandate"
  BY DEF TransitionRow, Transition
<1>2. MergeRows' = MergeRows /\ MandateRows' = MandateRows
  BY <1>1 DEF MergeRows, MandateRows
<1>3. QED
  BY <1>2, KnownTags

LEMMA RunnerKeeps ==
    ASSUME Inductive, TypeOK', NEW r \in Runner, RunnerStep(r)
    PROVE  Inductive'
<1>1. r \in Proc /\ r \notin Writer /\ TypeOK /\ job[r] \in Job
  BY ProcAssumption DEF Proc, Inductive, TypeOK
<1>2. CASE Check(r)
  <2>1. Quiet(r)
    BY <1>1, <1>2, ExitQuiet, GotoQuiet, KnownTags, RowsUnchanged DEF Check, Step
  <2>2. ObligationConserved'
    BY <1>2 DEF Check, ObligationConserved, Inductive, history
  <2>3. QED
    BY <1>1, <2>1, <2>2, QuietKeeps
<1>3. CASE Details(r)
  <2>1. Quiet(r)
    <3>1. CASE Readable(cur)
      <4>1. /\ job'[r].seen = job[r].seen /\ job'[r].out = job[r].out
            /\ job'[r].absorbed = job[r].absorbed
            /\ \A x \in Proc \ {r} : job'[x] = job[x]
        BY <1>1, <1>3, <3>1 DEF Details, TypeOK, Job
      <4>2. pc'[r] = "start" /\ \A x \in Proc \ {r} : pc'[x] = pc[x]
        BY <1>1, <1>3, <3>1 DEF Details, Goto, TypeOK
      <4>3. UNCHANGED <<cur, ledger, stamp>>
        BY <1>3 DEF Details
      <4>4. Tags' \subseteq Tags
        BY <1>1, <4>1, <4>3, TagsKept, KnownTags, RowsUnchanged
      <4>5. QED
        BY <1>1, <4>1, <4>2, <4>3, <4>4, RowsUnchanged DEF Quiet, CoversAt
    <3>2. CASE ~Readable(cur)
      BY <1>1, <1>3, <3>2, ExitQuiet, KnownTags, RowsUnchanged DEF Details
    <3>3. QED
      BY <3>1, <3>2
  <2>2. ObligationConserved'
    BY <1>3 DEF Details, ObligationConserved, Inductive, history
  <2>3. QED
    BY <1>1, <2>1, <2>2, QuietKeeps
<1>4. CASE Start(r)
  <2>1. Quiet(r)
    <3>1. CASE Readable(cur)
      BY <1>1, <1>4, <3>1, RewriteQuiet DEF Start, Live
    <3>2. CASE ~Readable(cur)
      BY <1>1, <1>4, <3>2, ExitQuiet, KnownTags, RowsUnchanged DEF Start
    <3>3. QED
      BY <3>1, <3>2
  <2>2. ObligationConserved'
    BY <1>4 DEF Start, ObligationConserved, Inductive, history
  <2>3. QED
    BY <1>1, <2>1, <2>2, QuietKeeps
<1>5. CASE StartRow(r)
  <2>1. Quiet(r)
    <3>1. CASE Readable(cur)
      <4>1. MergeRows' = MergeRows /\ \A row \in MandateRows' : Tag(row) \in Tags
        BY <1>5, <3>1, RunnerRow DEF StartRow, Transition
      <4>2. QED
        BY <1>1, <1>5, <3>1, <4>1, GotoQuiet, KnownTags DEF StartRow, Step
    <3>2. CASE ~Readable(cur)
      BY <1>1, <1>5, <3>2, ExitQuiet, KnownTags, RowsUnchanged DEF StartRow
    <3>3. QED
      BY <3>1, <3>2
  <2>2. ObligationConserved'
    BY <1>5 DEF StartRow, ObligationConserved, Inductive, history
  <2>3. QED
    BY <1>1, <2>1, <2>2, QuietKeeps
<1>6. CASE Execute(r)
  <2>1. /\ job'[r].seen = job[r].seen /\ job'[r].out = job[r].out
        /\ job'[r].absorbed = job[r].absorbed
        /\ \A x \in Proc \ {r} : job'[x] = job[x]
    BY <1>1, <1>6 DEF Execute, TypeOK, Job
  <2>2. pc'[r] = "writeback" /\ \A x \in Proc \ {r} : pc'[x] = pc[x]
    BY <1>1, <1>6 DEF Execute, Goto, TypeOK
  <2>3. UNCHANGED <<cur, ledger, stamp, lost, raced>>
    BY <1>6 DEF Execute
  <2>4. Tags' \subseteq Tags
    BY <1>1, <2>1, <2>3, TagsKept, KnownTags, RowsUnchanged
  <2>5. Quiet(r)
    BY <1>1, <2>1, <2>2, <2>3, <2>4, RowsUnchanged DEF Quiet, CoversAt
  <2>6. ObligationConserved'
    BY <2>3 DEF ObligationConserved, Inductive
  <2>7. QED
    BY <1>1, <2>5, <2>6, QuietKeeps
<1>7. CASE WriteBack(r)
  <2> DEFINE next == IF job[r].logged THEN "final" ELSE "idle"
  <2>1. Quiet(r)
    <3>1. CASE Readable(cur) /\ cur.id = job[r].id
      <4>1. Rewrite(r, job[r], cur, [cur EXCEPT !.status = job[r].verdict], next)
        BY <1>7, <3>1 DEF WriteBack
      <4>2. job[r].verdict \in Live \cup Terminal
        BY <1>1 DEF Job
      <4>3. QED
        BY <1>1, <1>7, <4>1, <4>2, RewriteQuiet DEF WriteBack
    <3>2. CASE ~(Readable(cur) /\ cur.id = job[r].id) /\ next = "idle"
      BY <1>1, <1>7, <3>2, ExitQuiet, KnownTags, RowsUnchanged DEF WriteBack
    <3>3. CASE ~(Readable(cur) /\ cur.id = job[r].id) /\ next # "idle"
      <4>1. /\ job'[r].seen = job[r].seen /\ job'[r].out = job[r].out
            /\ job'[r].absorbed = job[r].absorbed
            /\ \A x \in Proc \ {r} : job'[x] = job[x]
        BY <1>1, <1>7, <3>3 DEF WriteBack, TypeOK, Job
      <4>2. pc'[r] = next /\ \A x \in Proc \ {r} : pc'[x] = pc[x]
        BY <1>1, <1>7, <3>3 DEF WriteBack, Goto, TypeOK
      <4>3. UNCHANGED <<cur, ledger, stamp>>
        BY <1>7 DEF WriteBack
      <4>4. Tags' \subseteq Tags
        BY <1>1, <4>1, <4>3, TagsKept, KnownTags, RowsUnchanged
      <4>5. QED
        BY <1>1, <4>1, <4>2, <4>3, <4>4, RowsUnchanged DEF Quiet, CoversAt
    <3>4. QED
      BY <3>1, <3>2, <3>3
  <2>2. ObligationConserved'
    BY <1>7 DEF WriteBack, ObligationConserved, Inductive, history
  <2>3. QED
    BY <1>1, <2>1, <2>2, QuietKeeps
<1>8. CASE FinalRow(r)
  <2>1. FinalTransition(job[r]) \in Transition \ {"pending_to_merged"}
    BY DEF FinalTransition, Transition
  <2>2. MergeRows' = MergeRows /\ \A row \in MandateRows' : Tag(row) \in Tags
    BY <1>8, <2>1, RunnerRow DEF FinalRow
  <2>3. Quiet(r)
    BY <1>1, <1>8, <2>2, ExitQuiet, KnownTags DEF FinalRow
  <2>4. ObligationConserved'
    BY <1>8 DEF FinalRow, ObligationConserved, Inductive, history
  <2>5. QED
    BY <1>1, <2>3, <2>4, QuietKeeps
<1>9. CASE Truncate(r) \/ Fill(r)
  BY <1>1, <1>9, WriteQuiet, QuietKeeps
<1>10. QED
  BY <1>2, <1>3, <1>4, <1>5, <1>6, <1>7, <1>8, <1>9 DEF RunnerStep

LEMMA GateKeeps ==
    ASSUME Inductive, TypeOK', NEW g \in Gate, GateStep(g)
    PROVE  Inductive'
<1>1. g \in Proc /\ g \notin Writer /\ TypeOK /\ job[g] \in Job
  BY ProcAssumption DEF Proc, Inductive, TypeOK
<1>2. CASE Spawn(g)
  <2>1. PICK r \in Runner : Goto(r, "check")
    BY <1>2 DEF Spawn
  <2>2. r \in Proc
    BY DEF Proc
  <2>3. Quiet(r)
    BY <1>2, <2>1, <2>2, GotoQuiet, KnownTags, RowsUnchanged DEF Spawn, Step
  <2>4. ObligationConserved'
    BY <1>2 DEF Spawn, ObligationConserved, Inductive, history
  <2>5. QED
    BY <2>2, <2>3, <2>4, QuietKeeps
<1>3. CASE Take(g)
  <2>1. /\ job'[g].seen = job[g].seen /\ job'[g].out = job[g].out
        /\ job'[g].absorbed = job[g].absorbed
        /\ \A x \in Proc \ {g} : job'[x] = job[x]
    BY <1>1, <1>3 DEF Take, TypeOK, Job
  <2>2. pc'[g] = "recheck" /\ \A x \in Proc \ {g} : pc'[x] = pc[x]
    BY <1>1, <1>3 DEF Take, Goto, TypeOK
  <2>3. UNCHANGED <<cur, ledger, stamp, lost, raced>>
    BY <1>3 DEF Take, history
  <2>4. Tags' \subseteq Tags
    BY <1>1, <2>1, <2>3, TagsKept, KnownTags, RowsUnchanged
  <2>5. Quiet(g)
    BY <1>1, <2>1, <2>2, <2>3, <2>4, RowsUnchanged DEF Quiet, CoversAt
  <2>6. ObligationConserved'
    BY <2>3 DEF ObligationConserved, Inductive
  <2>7. QED
    BY <1>1, <2>5, <2>6, QuietKeeps
<1>4. CASE Recheck(g)
  <2>1. Quiet(g)
    BY <1>1, <1>4, ExitQuiet, GotoQuiet, KnownTags, RowsUnchanged DEF Recheck, Step
  <2>2. ObligationConserved'
    BY <1>4 DEF Recheck, ObligationConserved, Inductive, history
  <2>3. QED
    BY <1>1, <2>1, <2>2, QuietKeeps
<1>5. CASE Inline(g)
  <2>1. Quiet(g)
    BY <1>1, <1>5, GotoQuiet, KnownTags, RowsUnchanged DEF Inline, Step
  <2>2. ObligationConserved'
    BY <1>5 DEF Inline, ObligationConserved, Inductive
  <2>3. QED
    BY <1>1, <2>1, <2>2, QuietKeeps
<1>6. CASE Consume(g)
  <2>1. Quiet(g)
    <3>1. CASE Readable(cur)
      BY <1>1, <1>6, <3>1, RewriteQuiet DEF Consume, Terminal
    <3>2. CASE ~Readable(cur)
      BY <1>1, <1>6, <3>2, ExitQuiet, KnownTags, RowsUnchanged DEF Consume
    <3>3. QED
      BY <3>1, <3>2
  <2>2. ObligationConserved'
    BY <1>6 DEF Consume, ObligationConserved, Inductive, history
  <2>3. QED
    BY <1>1, <2>1, <2>2, QuietKeeps
<1>7. CASE Truncate(g) \/ Fill(g)
  BY <1>1, <1>7, WriteQuiet, QuietKeeps
<1>8. QED
  BY <1>2, <1>3, <1>4, <1>5, <1>6, <1>7 DEF GateStep

LEMMA CrashKeeps ==
    ASSUME Inductive, TypeOK', NEW p \in Crasher, Crash(p)
    PROVE  Inductive'
<1>1. p \in Proc /\ TypeOK
  BY ProcAssumption DEF Inductive
<1>2. Quiet(p)
  BY <1>1, ExitQuiet, KnownTags, RowsUnchanged DEF Crash
<1>3. ObligationConserved'
  BY DEF Crash, ObligationConserved, Inductive
<1>4. QED
  BY <1>1, <1>2, <1>3, QuietKeeps

LEMMA InitInductive == Init => Inductive
<1> SUFFICES ASSUME Init
             PROVE  Inductive
  OBVIOUS
<1>1. TypeOK
  BY InitTypes
<1>2. \A p \in Proc : /\ job[p].seen = NoMandate /\ job[p].out = NoMandate
                     /\ job[p].absorbed = NoMandate /\ pc[p] = "idle"
  BY DEF Init, NoJob
<1>3. MandateRows = {} /\ MergeRows = {} /\ cur = NoMandate /\ stamp = 0
  BY DEF Init, MandateRows, MergeRows
<1>4. Tags \subseteq {Tag(NoMandate)}
  BY <1>2, <1>3 DEF Tags
<1>5. Tag(NoMandate) = <<0, {}>>
  BY DEF Tag, NoMandate
<1>6. OneTagPerId /\ RowsCover
  BY <1>3, <1>4, <1>5 DEF OneTagPerId, RowsCover
<1>7. (\A p \in Proc : CoversAt(p)) /\ (\A w \in Writer : MergesAt(w))
  BY <1>2 DEF CoversAt, MergesAt, Proc
<1>8. ObligationConserved
  BY DEF Init, ObligationConserved
<1>9. QED
  BY <1>1, <1>6, <1>7, <1>8 DEF Inductive

LEMMA NextInductive ==
    ASSUME SameSecond = FALSE
    PROVE  Inductive /\ [Next]_vars => Inductive'
<1> SUFFICES ASSUME Inductive, [Next]_vars
             PROVE  Inductive'
  OBVIOUS
<1>1. TypeOK'
  BY NextTypes DEF Inductive
<1>2. ASSUME NEW w \in Writer, WriterStep(w)
      PROVE  Inductive'
  <2>1. CASE Cadence(w) \/ Replay(w) \/ SessionStart(w) \/ Review(w)
    <3>1. Quiet(w) /\ ObligationConserved'
      BY <2>1, BeginQuiet DEF ObligationConserved, Inductive
    <3>2. QED
      BY <1>1, <3>1, QuietKeeps DEF Proc
  <2>2. CASE WriterProgress(w)
    BY <1>1, <2>2, ProgressKeeps
  <2>3. QED
    BY <1>2, <2>1, <2>2 DEF WriterStep
<1>3. CASE \E r \in Runner : RunnerStep(r)
  BY <1>1, <1>3, RunnerKeeps
<1>4. CASE \E g \in Gate : GateStep(g)
  BY <1>1, <1>4, GateKeeps
<1>5. CASE \E p \in Crasher : Crash(p)
  BY <1>1, <1>5, CrashKeeps
<1>6. CASE UNCHANGED vars
  <2>1. Tags' = Tags /\ MergeRows' = MergeRows
    BY <1>6 DEF vars, Tags, Tag, MandateRows, MergeRows
  <2>2. OneTagPerId' /\ RowsCover'
    BY <1>6, <2>1 DEF vars, OneTagPerId, RowsCover, Inductive
  <2>3. (\A p \in Proc : CoversAt(p)') /\ (\A w \in Writer : MergesAt(w)')
    BY <1>6 DEF vars, CoversAt, MergesAt, Inductive
  <2>4. QED
    BY <1>1, <1>6, <2>2, <2>3 DEF vars, ObligationConserved, Inductive
<1>7. QED
  BY <1>2, <1>3, <1>4, <1>5, <1>6 DEF Next

THEOREM InductiveInvariant ==
    ASSUME SameSecond = FALSE
    PROVE  Spec => []Inductive
<1>1. Init => Inductive
  BY InitInductive
<1>2. Inductive /\ [Next]_vars => Inductive'
  BY NextInductive
<1>3. QED
  BY <1>1, <1>2, PTL DEF Spec

\* However many writers, runners, gates and crashes there are, an owed cycle
\* leaves current.json unexecuted only if a read or a write raced, as long as
\* no two mandates are built in one second (mandate-write.py merge_or_supersede).
THEOREM ObligationsConserved ==
    ASSUME SameSecond = FALSE
    PROVE  Spec => []ObligationConserved
<1>1. Inductive => ObligationConserved
  BY DEF Inductive
<1>2. QED
  BY <1>1, InductiveInvariant, PTL

\* Under the same condition a lane the ledger closes as merged into Y is carried
\* by Y, races and crashes included (mandate-write.py _terminalize_absorbed_pending).
THEOREM MergedLanesCarried ==
    ASSUME SameSecond = FALSE
    PROVE  Spec => []MergedLaneCarried
<1>1. Inductive => MergedLaneCarried
  <2> SUFFICES ASSUME Inductive, NEW merge \in ledger, merge.t = "pending_to_merged",
                      NEW x \in MandateRows, NEW y \in MandateRows,
                      x.id = merge.id, y.id = merge.into
               PROVE  x.cycles \subseteq y.cycles
    BY DEF MergedLaneCarried
  <2>1. Tag(x) \in Tags /\ Tag(y) \in Tags /\ merge \in MergeRows
    BY KnownTags DEF MergeRows
  <2>2. QED
    BY <2>1 DEF Inductive, RowsCover, Tag
<1>2. QED
  BY <1>1, InductiveInvariant, PTL
-----------------------------------------------------------------------------
(* Consumed means ran                                                      *)
(*                                                                         *)
(* When every mandate asks for a heavy cycle no prompt runs one inline,    *)
(* and the runner's write-back stamps only the mandate it has executed.    *)

AlwaysHeavy == \A kind \in Kind, t \in 0..MaxTic : \A want \in Wants[kind][t] : want \ Lightweight # {}

Honest(m) == m.status = "consumed" => m.id \in ran
Weighs(m) == Readable(m) => Heavy(m) # {}

\* What a process knows: a writer that will build asks for a heavy cycle, a
\* runner about to write "consumed" back has executed, and no gate goes to work.
Judges(p) ==
    /\ Honest(job[p].out) /\ Weighs(job[p].out)
    /\ p \in Writer /\ pc[p] \in {"idempotency", "quiesce", "read"} => job[p].want \ Lightweight # {}
    /\ pc[p] = "writeback" /\ job[p].verdict = "consumed" => job[p].id \in ran
    /\ p \in Gate => pc[p] = "idle"

Verdicts == TypeOK /\ Honest(cur) /\ Weighs(cur) /\ \A p \in Proc : Judges(p)

\* A step of p that leaves the other processes where they are and forgets no run.
LEMMA JudgesKeep ==
    ASSUME Verdicts, TypeOK', NEW p \in Proc, ran \subseteq ran',
           \A x \in Proc \ {p} : pc'[x] = pc[x] /\ job'[x] = job[x],
           Honest(cur)', Weighs(cur)', Judges(p)'
    PROVE  Verdicts'
<1>1. ASSUME NEW x \in Proc \ {p} PROVE Judges(x)'
  <2>1. Judges(x) /\ pc'[x] = pc[x] /\ job'[x] = job[x]
    BY DEF Verdicts
  <2>2. QED
    BY <2>1 DEF Judges, Honest, Weighs, Heavy, Readable
<1>2. QED
  BY <1>1 DEF Verdicts

LEMMA FileJudged ==
    ASSUME Verdicts, cur' = cur, ran \subseteq ran'
    PROVE  Honest(cur)' /\ Weighs(cur)'
BY DEF Verdicts, Honest, Weighs, Heavy, Readable

LEMMA NoneJudged ==
    /\ NoMandate.status = "absent" /\ TornFile.status = "torn"
    /\ \A x : x = NoMandate \/ x = TornFile => Honest(x) /\ Weighs(x)
<1>1. NoMandate.status = "absent" /\ TornFile.status = "torn"
  BY DEF NoMandate, TornFile
<1>2. QED
  BY <1>1 DEF Honest, Weighs, Readable, Live, Terminal

\* A process that leaves knows nothing.
LEMMA ExitJudged ==
    ASSUME Verdicts, TypeOK', NEW p \in Proc, Exit(p), ran' = ran, Honest(cur)', Weighs(cur)'
    PROVE  Verdicts'
<1>1. pc'[p] = "idle" /\ job'[p] = NoJob /\ \A x \in Proc \ {p} : pc'[x] = pc[x] /\ job'[x] = job[x]
  BY DEF Exit, Verdicts, TypeOK
<1>2. NoJob.out = NoMandate
  BY DEF NoJob
<1>3. Honest(NoJob.out)' /\ Weighs(NoJob.out)'
  BY <1>2, NoneJudged DEF Honest, Weighs, Heavy, Readable, Live, Terminal
<1>4. Judges(p)'
  BY <1>1, <1>3 DEF Judges, Honest, Weighs
<1>5. QED
  BY <1>1, <1>4, JudgesKeep

\* A process that only moves on.
LEMMA GotoJudged ==
    ASSUME Verdicts, TypeOK', NEW p \in Proc \ Gate, NEW step, Goto(p, step), job' = job, ran' = ran,
           Honest(cur)', Weighs(cur)', step # "writeback",
           step \in {"idempotency", "quiesce", "read"} => pc[p] \in {"idempotency", "quiesce", "read"}
    PROVE  Verdicts'
<1>1. pc'[p] = step /\ \A x \in Proc \ {p} : pc'[x] = pc[x] /\ job'[x] = job[x]
  BY DEF Goto, Verdicts, TypeOK
<1>2. Judges(p)
  BY DEF Verdicts
<1>3. Judges(p)'
  BY <1>1, <1>2 DEF Judges, Honest, Weighs, Heavy, Readable
<1>4. QED
  BY <1>1, <1>3, JudgesKeep

\* A runner's rewrite: what it stamps is the mandate it finds, and "consumed"
\* only if that has run.
LEMMA RewriteJudged ==
    ASSUME Verdicts, TypeOK', NEW p \in Runner, NEW status \in Live \cup Terminal, NEW after,
           Rewrite(p, job[p], cur, [cur EXCEPT !.status = status], after), Readable(cur),
           status = "consumed" => cur.id \in ran, cur' = cur, ran' = ran
    PROVE  Verdicts'
<1>1. p \in Proc /\ p \notin Writer /\ p \notin Gate
  BY ProcAssumption DEF Proc
<1>2. PICK out : out = [cur EXCEPT !.status = status]
  OBVIOUS
<1>3. out.id = cur.id /\ out.cycles = cur.cycles /\ out.status = status
  BY <1>2 DEF Verdicts, TypeOK, Mandate
<1>4. job'[p].out = out /\ pc'[p] = "truncate"
      /\ \A x \in Proc \ {p} : pc'[x] = pc[x] /\ job'[x] = job[x]
  BY <1>1, <1>2 DEF Rewrite, Goto, Verdicts, TypeOK, Job
<1>5. Honest(out)' /\ Weighs(out)'
  BY <1>3 DEF Honest, Weighs, Heavy, Readable, Verdicts
<1>6. Judges(p)'
  BY <1>1, <1>4, <1>5 DEF Judges, Honest, Weighs
<1>7. QED
  BY <1>1, <1>4, <1>6, FileJudged, JudgesKeep

LEMMA WriteJudged ==
    ASSUME Verdicts, TypeOK', NEW p \in Proc, Truncate(p) \/ Fill(p)
    PROVE  Verdicts'
<1>1. p \notin Gate /\ Judges(p) /\ ran' = ran
  BY DEF Verdicts, Judges, Truncate, Fill, At
<1>2. Honest(cur)' /\ Weighs(cur)'
  <2>1. cur' = TornFile \/ cur' = job[p].out
    BY DEF Truncate, Fill
  <2>2. CASE cur' = TornFile
    BY <2>2, NoneJudged DEF Honest, Weighs, Readable, Live, Terminal
  <2>3. CASE cur' = job[p].out
    BY <1>1, <2>3 DEF Judges, Honest, Weighs, Heavy, Readable
  <2>4. QED
    BY <2>1, <2>2, <2>3
<1>3. CASE Truncate(p)
  BY <1>1, <1>2, <1>3, GotoJudged DEF Truncate
<1>4. CASE Fill(p)
  <2>1. job[p].after \in Resumption
    BY DEF Verdicts, TypeOK, Job
  <2>2. CASE job[p].after = "idle"
    BY <1>1, <1>2, <1>4, <2>2, ExitJudged DEF Fill, Resume
  <2>3. CASE job[p].after # "idle"
    BY <1>1, <1>2, <1>4, <2>1, <2>3, GotoJudged DEF Fill, Resume, Resumption
  <2>4. QED
    BY <2>2, <2>3
<1>5. QED
  BY <1>3, <1>4

LEMMA BeginJudged ==
    ASSUME AlwaysHeavy, Verdicts, TypeOK', NEW w \in Writer,
           Cadence(w) \/ Replay(w) \/ SessionStart(w) \/ Review(w)
    PROVE  Verdicts'
<1>1. w \in Proc /\ w \notin Gate /\ TypeOK
  BY ProcAssumption DEF Proc, Verdicts
<1>2. PICK kind \in Kind, t \in 0..MaxTic : \E em \in Nat, want \in Wants[kind][t], step \in {"idempotency", "read"} :
         Begin(w, kind, t, em, want, step)
  <2>1. CASE Cadence(w)
    <3>1. tic + 1 \in 0..MaxTic
      BY <1>1, <2>1, BoundAssumption DEF Cadence, TypeOK
    <3>2. QED
      BY <2>1, <3>1 DEF Cadence, Kind
  <2>2. CASE Replay(w) \/ SessionStart(w) \/ Review(w)
    BY <1>1, <2>2 DEF Replay, SessionStart, Review, Kind, TypeOK
  <2>3. QED
    BY <2>1, <2>2
<1>3. PICK em \in Nat, want \in Wants[kind][t], step \in {"idempotency", "read"} : Begin(w, kind, t, em, want, step)
  BY <1>2
<1>4. want \ Lightweight # {}
  BY <1>3 DEF AlwaysHeavy
<1>5. PICK j : j = [NoJob EXCEPT !.kind = kind, !.tic = t, !.em = em, !.want = want]
  OBVIOUS
<1>6. j.want = want /\ j.out = NoMandate
  BY <1>5 DEF NoJob
<1>7. job'[w] = j /\ pc'[w] = step /\ \A x \in Proc \ {w} : pc'[x] = pc[x] /\ job'[x] = job[x]
  BY <1>1, <1>3, <1>5 DEF Begin, Goto, TypeOK
<1>8. Honest(NoMandate)' /\ Weighs(NoMandate)'
  BY NoneJudged DEF Honest, Weighs, Heavy, Readable, Live, Terminal
<1>9. Judges(w)'
  BY <1>1, <1>4, <1>6, <1>7, <1>8 DEF Judges, Honest, Weighs
<1>10. cur' = cur /\ ran' = ran
  BY DEF Cadence, Replay, SessionStart, Review, history
<1>11. QED
  BY <1>1, <1>7, <1>9, <1>10, FileJudged, JudgesKeep

LEMMA WriterJudged ==
    ASSUME Verdicts, TypeOK', NEW w \in Writer, WriterProgress(w)
    PROVE  Verdicts'
<1>1. w \in Proc /\ w \notin Gate /\ TypeOK /\ Judges(w) /\ job[w] \in Job
  BY ProcAssumption DEF Proc, Verdicts, TypeOK
<1>2. CASE Truncate(w) \/ Fill(w)
  BY <1>1, <1>2, WriteJudged
<1>3. CASE ~(Truncate(w) \/ Fill(w))
  <2>1. cur' = cur /\ ran' = ran
    BY <1>3 DEF WriterProgress, Idempotent, Quiescent, QuiesceTimeout, ReadExisting, ReadBoundary,
                Terminalize, AppendMandateRow, history
  <2>2. Honest(cur)' /\ Weighs(cur)'
    BY <2>1, FileJudged
  <2>3. CASE Idempotent(w)
    BY <1>1, <2>1, <2>2, <2>3, ExitJudged, GotoJudged DEF Idempotent, At
  <2>4. CASE Quiescent(w) \/ QuiesceTimeout(w) \/ Terminalize(w)
    BY <1>1, <2>1, <2>2, <2>4, GotoJudged DEF Quiescent, QuiesceTimeout, Terminalize, At
  <2>5. CASE AppendMandateRow(w)
    BY <1>1, <2>1, <2>2, <2>5, ExitJudged DEF AppendMandateRow
  <2>6. CASE ReadExisting(w)
    <3>1. PICK id, existing, out :
             /\ existing = Existing(cur)
             /\ out = BuildMandate(job[w], id, MergeOrSupersede(existing, job[w].want))
             /\ job' = [job EXCEPT ![w].seen = existing, ![w].out = out]
      BY <2>6 DEF ReadExisting
    <3>2. /\ job'[w].out = out /\ pc'[w] = "boundary"
          /\ \A x \in Proc \ {w} : pc'[x] = pc[x] /\ job'[x] = job[x]
      BY <1>1, <2>6, <3>1 DEF ReadExisting, Goto, TypeOK, Job
    <3>3. job[w].want \ Lightweight # {}
      BY <1>1, <2>6 DEF Judges, ReadExisting, At
    <3>4. out.status = "pending" /\ job[w].want \subseteq out.cycles
      BY <3>1 DEF BuildMandate, MergeOrSupersede
    <3>5. Honest(out)' /\ Weighs(out)'
      BY <3>3, <3>4 DEF Honest, Weighs, Heavy
    <3>6. Judges(w)'
      BY <1>1, <3>2, <3>5 DEF Judges, Honest, Weighs
    <3>7. QED
      BY <1>1, <2>1, <2>2, <3>2, <3>6, JudgesKeep
  <2>7. CASE ReadBoundary(w)
    <3>1. /\ job'[w].out = job[w].out /\ pc'[w] = "truncate"
          /\ \A x \in Proc \ {w} : pc'[x] = pc[x] /\ job'[x] = job[x]
      BY <1>1, <2>7 DEF ReadBoundary, Goto, TypeOK, Job
    <3>2. Judges(w)'
      BY <1>1, <2>1, <3>1 DEF Judges, Honest, Weighs, Heavy, Readable
    <3>3. QED
      BY <1>1, <2>1, <2>2, <3>1, <3>2, JudgesKeep
  <2>8. QED
    BY <1>3, <2>3, <2>4, <2>5, <2>6, <2>7 DEF WriterProgress
<1>4. QED
  BY <1>2, <1>3

LEMMA RunnerJudged ==
    ASSUME Verdicts, TypeOK', NEW r \in Runner, RunnerStep(r)
    PROVE  Verdicts'
<1>1. r \in Proc /\ r \notin Gate /\ r \notin Writer /\ TypeOK /\ Judges(r) /\ job[r] \in Job
  BY ProcAssumption DEF Proc, Verdicts, TypeOK
<1>2. CASE Truncate(r) \/ Fill(r)
  BY <1>1, <1>2, WriteJudged
<1>3. CASE Check(r) \/ StartRow(r) \/ FinalRow(r)
  <2>1. cur' = cur /\ ran' = ran
    BY <1>3 DEF Check, StartRow, FinalRow, history
  <2>2. QED
    BY <1>1, <1>3, <2>1, FileJudged, ExitJudged, GotoJudged DEF Check, StartRow, FinalRow
<1>4. CASE Details(r)
  <2>1. cur' = cur /\ ran' = ran
    BY <1>4 DEF Details, history
  <2>2. CASE ~Readable(cur)
    BY <1>1, <1>4, <2>1, <2>2, FileJudged, ExitJudged DEF Details
  <2>3. CASE Readable(cur)
    <3>1. /\ job'[r].out = job[r].out /\ pc'[r] = "start"
          /\ \A x \in Proc \ {r} : pc'[x] = pc[x] /\ job'[x] = job[x]
      BY <1>1, <1>4, <2>3 DEF Details, Goto, TypeOK, Job
    <3>2. Judges(r)'
      BY <1>1, <2>1, <3>1 DEF Judges, Honest, Weighs, Heavy, Readable
    <3>3. QED
      BY <1>1, <2>1, <3>1, <3>2, FileJudged, JudgesKeep
  <2>4. QED
    BY <2>2, <2>3
<1>5. CASE Start(r)
  <2>1. cur' = cur /\ ran' = ran
    BY <1>5 DEF Start, history
  <2>2. QED
    BY <1>1, <1>5, <2>1, FileJudged, ExitJudged, RewriteJudged DEF Start, Live
<1>6. CASE Execute(r)
  <2>1. /\ job'[r].out = job[r].out /\ job'[r].id = job[r].id /\ pc'[r] = "writeback"
        /\ \A x \in Proc \ {r} : pc'[x] = pc[x] /\ job'[x] = job[x]
        /\ job'[r].verdict = "consumed" => ran' = ran \cup {job[r].id}
        /\ cur' = cur /\ ran \subseteq ran'
    BY <1>1, <1>6 DEF Execute, Goto, TypeOK, Job
  <2>2. Judges(r)'
    BY <1>1, <2>1 DEF Judges, Honest, Weighs, Heavy, Readable
  <2>3. QED
    BY <1>1, <2>1, <2>2, FileJudged, JudgesKeep
<1>7. CASE WriteBack(r)
  <2>1. cur' = cur /\ ran' = ran /\ pc[r] = "writeback"
    BY <1>7 DEF WriteBack, history, At
  <2> DEFINE next == IF job[r].logged THEN "final" ELSE "idle"
  <2>2. CASE Readable(cur) /\ cur.id = job[r].id
    <3>1. job[r].verdict \in Live \cup Terminal
      BY <1>1 DEF Job
    <3>2. job[r].verdict = "consumed" => cur.id \in ran
      BY <1>1, <2>1, <2>2 DEF Judges
    <3>3. Rewrite(r, job[r], cur, [cur EXCEPT !.status = job[r].verdict], next)
      BY <1>7, <2>2 DEF WriteBack
    <3>4. QED
      BY <2>1, <2>2, <3>1, <3>2, <3>3, RewriteJudged
  <2>3. CASE ~(Readable(cur) /\ cur.id = job[r].id) /\ next = "idle"
    BY <1>1, <1>7, <2>1, <2>3, FileJudged, ExitJudged DEF WriteBack
  <2>4. CASE ~(Readable(cur) /\ cur.id = job[r].id) /\ next # "idle"
    <3>1. /\ job'[r].out = job[r].out /\ pc'[r] = "final"
          /\ \A x \in Proc \ {r} : pc'[x] = pc[x] /\ job'[x] = job[x]
      BY <1>1, <1>7, <2>4 DEF WriteBack, Goto, TypeOK, Job
    <3>2. Judges(r)'
      BY <1>1, <2>1, <3>1 DEF Judges, Honest, Weighs, Heavy, Readable
    <3>3. QED
      BY <1>1, <2>1, <3>1, <3>2, FileJudged, JudgesKeep
  <2>5. QED
    BY <2>2, <2>3, <2>4
<1>8. QED
  BY <1>2, <1>3, <1>4, <1>5, <1>6, <1>7 DEF RunnerStep

\* The gate finds heavy cycles in every pending mandate and starts a runner.
LEMMA GateJudged ==
    ASSUME Verdicts, TypeOK', NEW g \in Gate, GateStep(g)
    PROVE  Verdicts'
<1>1. g \in Proc /\ Judges(g) /\ pc[g] = "idle"
  BY DEF Proc, Verdicts, Judges
<1>2. ~Take(g)
  BY DEF Take, Verdicts, Weighs, Readable, Live
<1>3. Spawn(g)
  BY <1>1, <1>2 DEF GateStep, Recheck, Inline, Consume, Truncate, Fill, At
<1>4. PICK r \in Runner : Goto(r, "check") /\ cur' = cur /\ ran' = ran /\ job' = job
  BY <1>3 DEF Spawn, history
<1>5. r \in Proc \ Gate
  BY ProcAssumption DEF Proc
<1>6. QED
  BY <1>4, <1>5, FileJudged, GotoJudged

LEMMA InitVerdicts == Init => Verdicts
<1> SUFFICES ASSUME Init PROVE Verdicts
  OBVIOUS
<1>1. TypeOK
  BY InitTypes
<1>2. \A p \in Proc : job[p].out = NoMandate /\ pc[p] = "idle"
  BY DEF Init, NoJob
<1>3. Honest(NoMandate) /\ Weighs(NoMandate) /\ cur = NoMandate
  BY NoneJudged DEF Init
<1>4. \A p \in Proc : Judges(p)
  BY <1>2, <1>3 DEF Judges
<1>5. QED
  BY <1>1, <1>3, <1>4 DEF Verdicts

LEMMA NextVerdicts ==
    ASSUME AlwaysHeavy
    PROVE  Verdicts /\ [Next]_vars => Verdicts'
<1> SUFFICES ASSUME Verdicts, [Next]_vars
             PROVE  Verdicts'
  OBVIOUS
<1>1. TypeOK'
  BY NextTypes DEF Verdicts
<1>2. ASSUME NEW w \in Writer, WriterStep(w)
      PROVE  Verdicts'
  BY <1>1, <1>2, BeginJudged, WriterJudged DEF WriterStep
<1>3. CASE \E r \in Runner : RunnerStep(r)
  BY <1>1, <1>3, RunnerJudged
<1>4. CASE \E g \in Gate : GateStep(g)
  BY <1>1, <1>4, GateJudged
<1>5. ASSUME NEW p \in Crasher, Crash(p)
      PROVE  Verdicts'
  <2>1. p \in Proc /\ Exit(p) /\ cur' = cur /\ ran' = ran
    BY <1>5, ProcAssumption DEF Crash
  <2>2. QED
    BY <1>1, <2>1, FileJudged, ExitJudged
<1>6. CASE UNCHANGED vars
  BY <1>1, <1>6 DEF vars, Verdicts, Judges, Honest, Weighs, Heavy, Readable
<1>7. QED
  BY <1>2, <1>3, <1>4, <1>5, <1>6 DEF Next

\* Whatever races and whoever dies, a mandate reads "consumed" only after some
\* runner executed it, as long as no prompt runs a mandate inline: the
\* write-back compares identifiers (mogul-runner.sh write_current_mandate_status).
THEOREM ConsumedOnlyIfRan ==
    ASSUME AlwaysHeavy
    PROVE  Spec => []ConsumedMeansRan
<1>1. Init => Verdicts
  BY InitVerdicts
<1>2. Verdicts /\ [Next]_vars => Verdicts'
  BY NextVerdicts
<1>3. Verdicts => ConsumedMeansRan
  BY DEF Verdicts, Honest, ConsumedMeansRan
<1>4. QED
  BY <1>1, <1>2, <1>3, PTL DEF Spec
-----------------------------------------------------------------------------
(* A boundary gets one mandate                                             *)
(*                                                                         *)
(* While no read or write races, what the file holds, or what the one      *)
(* process that has truncated it is about to write, is the mandate of the  *)
(* last boundary once that has one: a replay finds it and stops.           *)

\* The setting: /cadence is the only writer, one at a time, and no two mandates
\* are built in one second.
OneCadence ==
    /\ SameSecond = FALSE
    /\ \A v, w \in Writer : v = w
    /\ \A t \in 0..MaxTic : Wants["session"][t] = {} /\ Wants["review"][t] = {}

\* A mandate's identifier fixes its boundary.
Mark(m) == <<m.id, m.em>>
Marks == {Mark(NoMandate), Mark(cur)} \cup {Mark(job[p].seen) : p \in Proc} \cup {Mark(job[p].out) : p \in Proc}
OneEmPerId == \A x, y \in Marks : x[1] <= stamp /\ (x[1] = y[1] => x[2] = y[2])

FileReal == (Readable(cur) <=> cur.id # 0) /\ (~Readable(cur) => cur.em = 0)

\* The file is torn exactly while one process is between its two steps.
OneFiller ==
    /\ \A p, v \in Proc : pc[p] = "fill" /\ pc[v] = "fill" => p = v
    /\ cur.status = "torn" <=> \E p \in Proc : pc[p] = "fill"

\* The file holds the mandate of the last boundary, or will.
Settled ==
    /\ cur.status # "torn" => cur.em = tic
    /\ \A p \in Proc : pc[p] = "fill" => job[p].out.em = tic

Landed == \E row \in MandateRows : row.em = tic
OneEach == \A x, y \in MandateRows : x.em > 0 /\ x.em = y.em => x = y

\* What a runner or gate writes is the mandate it read.
Restamps(p) == pc[p] = "truncate" => job[p].seen.id # 0 /\ job[p].out.em = job[p].seen.em

Builds(w) ==
    /\ pc[w] # "idle" => job[w].em = tic /\ tic > 0
    /\ pc[w] \in {"boundary", "truncate", "fill", "terminalize", "row"} => job[w].out.em = tic
    /\ pc[w] \in {"quiesce", "read", "boundary", "truncate", "fill", "terminalize", "row"} => ~Landed
    /\ pc[w] \in {"boundary", "truncate"} /\ job[w].seen.id = 0 => cur.status = "absent"
    /\ pc[w] \in {"fill", "terminalize", "row"} => Settled

Writes(p) ==
    /\ pc[p] \in {"boundary", "truncate", "fill"} => Readable(job[p].out) /\ job[p].out.id # 0
    /\ IF p \in Writer THEN Builds(p) ELSE Restamps(p)

Unraced ==
    /\ OneEmPerId /\ FileReal /\ OneFiller /\ OneEach
    /\ \A row \in MandateRows : row.em <= tic
    /\ Landed => Settled
    /\ \A p \in Proc : Writes(p)

Boundaries == TypeOK /\ (~raced => Unraced)

\* The other processes stay where they are.
Apart(p) == \A x \in Proc \ {p} : pc'[x] = pc[x] /\ job'[x] = job[x]

LEMMA KnownMarks ==
    /\ Mark(NoMandate) \in Marks /\ Mark(cur) \in Marks
    /\ \A p \in Proc : Mark(job[p].seen) \in Marks /\ Mark(job[p].out) \in Marks
BY DEF Marks

LEMMA MarksKept ==
    ASSUME OneEmPerId, NEW p \in Proc, Apart(p), stamp' = stamp, Mark(cur') \in Marks,
           Mark(job'[p].seen) \in Marks, Mark(job'[p].out) \in Marks
    PROVE  OneEmPerId'
<1>1. \A x \in Proc : Mark(job'[x].seen) \in Marks /\ Mark(job'[x].out) \in Marks
  BY KnownMarks DEF Apart
<1>2. Marks' = {Mark(NoMandate), Mark(cur')}
          \cup {Mark(job'[x].seen) : x \in Proc} \cup {Mark(job'[x].out) : x \in Proc}
  BY DEF Marks, Mark
<1>3. Marks' \subseteq Marks
  BY <1>1, <1>2, KnownMarks
<1>4. QED
  BY <1>3 DEF OneEmPerId

\* A step of p outside its writes that leaves the file and the mandate rows.
LEMMA StillUnraced ==
    ASSUME Unraced, NEW p \in Proc, Apart(p), cur' = cur, tic' = tic, MandateRows' = MandateRows,
           pc[p] # "fill", pc'[p] # "fill", OneEmPerId', Writes(p)'
    PROVE  Unraced'
<1>1. \A x \in Proc : pc'[x] = "fill" <=> pc[x] = "fill"
  BY DEF Apart
<1>2. \A x \in Proc : pc[x] = "fill" => job'[x] = job[x]
  BY DEF Apart
<1>3. (Landed' <=> Landed) /\ (Settled' <=> Settled)
  BY <1>1, <1>2 DEF Landed, Settled
<1>4. OneFiller' /\ FileReal' /\ OneEach' /\ \A row \in MandateRows' : row.em <= tic'
  BY <1>1 DEF Unraced, OneFiller, FileReal, OneEach, Readable
<1>5. ASSUME NEW x \in Proc \ {p} PROVE Writes(x)'
  <2>1. Writes(x) /\ pc'[x] = pc[x] /\ job'[x] = job[x]
    BY DEF Unraced, Apart
  <2>2. QED
    BY <1>3, <2>1 DEF Writes, Builds, Restamps, Readable
<1>6. QED
  BY <1>3, <1>4, <1>5 DEF Unraced

\* The same with variables that name nothing new, by a runner or a gate that is
\* not about to write, or by a process that leaves.
LEMMA PassUnraced ==
    ASSUME Unraced, NEW p \in Proc, Apart(p), cur' = cur, tic' = tic, stamp' = stamp,
           MandateRows' = MandateRows, pc[p] # "fill", pc'[p] \notin {"boundary", "truncate", "fill"},
           Mark(job'[p].seen) \in Marks, Mark(job'[p].out) \in Marks,
           pc'[p] = "idle" \/ p \notin Writer
    PROVE  Unraced'
<1>1. OneEmPerId'
  BY MarksKept, KnownMarks DEF Unraced
<1>2. Writes(p)'
  BY DEF Writes, Builds, Restamps
<1>3. QED
  BY <1>1, <1>2, StillUnraced

LEMMA ExitUnraced ==
    ASSUME TypeOK, Unraced, NEW p \in Proc, Exit(p), cur' = cur, tic' = tic, stamp' = stamp,
           MandateRows' = MandateRows, pc[p] # "fill"
    PROVE  Unraced'
<1>1. pc'[p] = "idle" /\ job'[p] = NoJob /\ Apart(p)
  BY DEF Exit, TypeOK, Apart
<1>2. NoJob.seen = NoMandate /\ NoJob.out = NoMandate
  BY DEF NoJob
<1>3. QED
  BY <1>1, <1>2, PassUnraced, KnownMarks

LEMMA GotoUnraced ==
    ASSUME TypeOK, Unraced, NEW p \in Proc, NEW step, Goto(p, step), job' = job, cur' = cur, tic' = tic,
           stamp' = stamp, MandateRows' = MandateRows, pc[p] # "fill",
           step \notin {"boundary", "truncate", "fill"},
           p \in Writer => Builds(p)'
    PROVE  Unraced'
<1>1. pc'[p] = step /\ Apart(p)
  BY DEF Goto, TypeOK, Apart
<1>2. OneEmPerId'
  BY <1>1, MarksKept, KnownMarks DEF Unraced
<1>3. Writes(p)'
  BY <1>1 DEF Writes, Restamps
<1>4. QED
  BY <1>1, <1>2, <1>3, StillUnraced

\* A status rewrite carries the boundary of the mandate it read.
LEMMA RewriteUnraced ==
    ASSUME TypeOK, Unraced, NEW p \in Runner \cup Gate, NEW status \in Live \cup Terminal, NEW after,
           Rewrite(p, job[p], cur, [cur EXCEPT !.status = status], after), Readable(cur),
           pc[p] # "fill", cur' = cur, tic' = tic, stamp' = stamp, MandateRows' = MandateRows
    PROVE  Unraced'
<1>1. p \in Proc /\ p \notin Writer
  BY ProcAssumption DEF Proc
<1>2. PICK out : out = [cur EXCEPT !.status = status]
  OBVIOUS
<1>3. out.id = cur.id /\ out.em = cur.em /\ out.status = status
  BY <1>2 DEF TypeOK, Mandate
<1>4. job'[p].out = out /\ job'[p].seen = cur /\ pc'[p] = "truncate" /\ Apart(p)
  BY <1>1, <1>2 DEF Rewrite, Goto, TypeOK, Job, Apart
<1>5. OneEmPerId'
  BY <1>1, <1>3, <1>4, MarksKept, KnownMarks DEF Unraced, Mark
<1>6. cur.id # 0
  BY DEF Unraced, FileReal
<1>7. Writes(p)'
  BY <1>1, <1>3, <1>4, <1>6 DEF Writes, Restamps, Readable
<1>8. QED
  BY <1>1, <1>4, <1>5, <1>7, StillUnraced
\* An unraced open(..., "w") meets the very file the process read, so nobody
\* else is between its two steps.
LEMMA TruncateUnraced ==
    ASSUME OneCadence, TypeOK, Unraced, NEW p \in Proc, Truncate(p), ~raced'
    PROVE  Unraced'
<1> DEFINE seen == job[p].seen
           out == job[p].out
<1>1. /\ cur' = TornFile /\ pc[p] = "truncate" /\ pc'[p] = "fill" /\ job' = job /\ Apart(p)
      /\ cur.id = seen.id /\ tic' = tic /\ stamp' = stamp /\ ledger' = ledger
  BY DEF Truncate, At, Goto, TypeOK, Apart, Stale
<1>2. TornFile.status = "torn" /\ TornFile.id = 0 /\ TornFile.em = 0 /\ Mark(TornFile) = Mark(NoMandate)
  BY DEF TornFile, NoMandate, Mark
<1>3. ~Readable(TornFile)
  BY <1>2 DEF Readable, Live, Terminal
<1>4. Writes(p) /\ FileReal /\ OneFiller /\ OneEmPerId
  BY DEF Unraced
<1>5. IF p \in Writer THEN seen.id # 0 \/ cur.status = "absent" ELSE seen.id # 0
  BY <1>1, <1>4 DEF Writes, Builds, Restamps
<1>6. cur.status # "torn" /\ (p \notin Writer => Readable(cur))
  BY <1>1, <1>4, <1>5 DEF FileReal, Readable, Live, Terminal
<1>7. \A x \in Proc : pc[x] # "fill"
  BY <1>4, <1>6 DEF OneFiller
<1>8. OneFiller'
  BY <1>1, <1>2, <1>7 DEF OneFiller, Apart
<1>9. FileReal'
  BY <1>1, <1>2, <1>3 DEF FileReal, Readable
<1>10. OneEmPerId'
  BY <1>1, <1>2, <1>4, MarksKept, KnownMarks
<1>11. MandateRows' = MandateRows
  BY <1>1 DEF MandateRows
<1>12. (p \in Writer => out.em = tic) /\ (p \notin Writer => out.em = cur.em)
  <2>1. CASE p \in Writer
    BY <1>1, <1>4, <2>1 DEF Writes, Builds
  <2>2. CASE p \notin Writer
    <3>1. out.em = seen.em
      BY <1>1, <1>4, <2>2 DEF Writes, Restamps
    <3>2. seen.em = cur.em
      BY <1>1, <1>4, KnownMarks DEF OneEmPerId, Mark
    <3>3. QED
      BY <2>2, <3>1, <3>2
  <2>3. QED
    BY <2>1, <2>2
<1>13. Settled \/ p \in Writer => Settled'
  BY <1>1, <1>2, <1>6, <1>7, <1>12 DEF Settled, Apart
<1>14. Landed' <=> Landed
  BY <1>1, <1>11 DEF Landed
<1>15. Writes(p)'
  BY <1>1, <1>4, <1>13, <1>14 DEF Writes, Builds, Restamps, Readable
<1>16. ASSUME NEW x \in Proc \ {p} PROVE Writes(x)'
  <2>1. Writes(x) /\ pc'[x] = pc[x] /\ job'[x] = job[x]
    BY <1>1 DEF Unraced, Apart
  <2>2. CASE x \notin Writer
    BY <2>1, <2>2 DEF Writes, Restamps, Readable
  <2>3. CASE x \in Writer
    <3>1. p \notin Writer /\ cur.status # "absent"
      BY <1>6, <2>3 DEF OneCadence, Readable, Live, Terminal
    <3>2. QED
      BY <1>1, <1>13, <1>14, <2>1, <2>3, <3>1 DEF Writes, Builds, Readable
  <2>4. QED
    BY <2>2, <2>3
<1>17. OneEach' /\ \A row \in MandateRows' : row.em <= tic'
  BY <1>1, <1>11 DEF Unraced, OneEach
<1>18. Landed' => Settled'
  BY <1>13, <1>14 DEF Unraced
<1>19. QED
  BY <1>8, <1>9, <1>10, <1>15, <1>16, <1>17, <1>18 DEF Unraced

\* The text of the one process that had truncated the file arrives.
LEMMA FillUnraced ==
    ASSUME OneCadence, TypeOK, Unraced, NEW p \in Proc, Fill(p), ~raced'
    PROVE  Unraced'
<1> DEFINE out == job[p].out
           after == job[p].after
<1>1. /\ cur' = out /\ pc[p] = "fill" /\ cur.status = "torn" /\ tic' = tic /\ stamp' = stamp
      /\ ledger' = ledger /\ Resume(p, after)
  BY DEF Fill, At
<1>2. after \in Resumption
  BY DEF TypeOK, Job
<1>3. /\ Apart(p) /\ pc'[p] = after
      /\ job'[p] = job[p] \/ job'[p] = NoJob
      /\ job'[p] = job[p] \/ after = "idle"
  BY <1>1 DEF Resume, Exit, Goto, TypeOK, Apart
<1>4. Writes(p) /\ OneFiller /\ OneEmPerId /\ Readable(out) /\ out.id # 0
  BY <1>1 DEF Unraced, Writes
<1>5. \A x \in Proc \ {p} : pc[x] # "fill"
  BY <1>1, <1>4 DEF OneFiller
<1>6. after \notin {"boundary", "truncate", "fill"}
  BY <1>2 DEF Resumption
<1>7. out.status # "torn"
  BY <1>4 DEF Readable, Live, Terminal
<1>8. OneFiller'
  BY <1>1, <1>3, <1>5, <1>6, <1>7 DEF OneFiller, Apart
<1>9. FileReal'
  BY <1>1, <1>4 DEF FileReal, Readable
<1>10. OneEmPerId'
  <2>1. NoJob.seen = NoMandate /\ NoJob.out = NoMandate
    BY DEF NoJob
  <2>2. QED
    BY <1>1, <1>3, <1>4, <2>1, MarksKept, KnownMarks
<1>11. MandateRows' = MandateRows
  BY <1>1 DEF MandateRows
<1>12. Settled => Settled'
  BY <1>1, <1>3, <1>5, <1>6 DEF Settled, Apart
<1>13. Landed' <=> Landed
  BY <1>1, <1>11 DEF Landed
<1>14. Writes(p)'
  BY <1>1, <1>3, <1>4, <1>6, <1>12, <1>13 DEF Writes, Builds, Restamps, Readable
<1>15. ASSUME NEW x \in Proc \ {p} PROVE Writes(x)'
  <2>1. Writes(x) /\ pc'[x] = pc[x] /\ job'[x] = job[x] /\ pc[x] # "fill"
    BY <1>3, <1>5 DEF Unraced, Apart
  <2>2. QED
    BY <1>1, <1>12, <1>13, <2>1 DEF Writes, Builds, Restamps, Readable
<1>16. OneEach' /\ \A row \in MandateRows' : row.em <= tic'
  BY <1>1, <1>11 DEF Unraced, OneEach
<1>17. Landed' => Settled'
  BY <1>12, <1>13 DEF Unraced
<1>18. QED
  BY <1>8, <1>9, <1>10, <1>14, <1>15, <1>16, <1>17 DEF Unraced

\* A mandate is built under an identifier nobody holds.
LEMMA BuildUnraced ==
    ASSUME OneCadence, TypeOK, Unraced, NEW w \in Writer, ReadExisting(w), ~raced'
    PROVE  Unraced'
<1>1. w \in Proc /\ stamp \in Nat /\ job[w] \in Job /\ cur \in Mandate
  BY DEF Proc, TypeOK
<1>2. /\ pc[w] = "read" /\ cur.status # "torn" /\ stamp' = stamp + 1 /\ cur' = cur /\ tic' = tic
      /\ ledger' = ledger
  BY DEF ReadExisting, NewId, At, OneCadence
<1>3. PICK out :
         /\ out = BuildMandate(job[w], stamp + 1, MergeOrSupersede(cur, job[w].want))
         /\ job' = [job EXCEPT ![w].seen = cur, ![w].out = out]
  BY <1>2 DEF ReadExisting, NewId, OneCadence, Existing
<1>4. out.id = stamp + 1 /\ out.em = job[w].em /\ out.status = "pending"
  BY <1>3 DEF BuildMandate
<1>5. /\ job'[w].seen = cur /\ job'[w].out = out /\ job'[w].em = job[w].em /\ pc'[w] = "boundary"
      /\ Apart(w)
  BY <1>1, <1>3 DEF ReadExisting, Goto, TypeOK, Job, Apart
<1>6. Writes(w) /\ OneEmPerId /\ FileReal
  BY <1>1 DEF Unraced
<1>7. OneEmPerId'
  <2>1. \A x \in Proc : /\ Mark(job'[x].seen) \in Marks \cup {Mark(out)}
                       /\ Mark(job'[x].out) \in Marks \cup {Mark(out)}
    BY <1>5, KnownMarks DEF Apart
  <2>2. Marks' = {Mark(NoMandate), Mark(cur)}
          \cup {Mark(job'[x].seen) : x \in Proc} \cup {Mark(job'[x].out) : x \in Proc}
    BY <1>2 DEF Marks, Mark
  <2>3. Marks' \subseteq Marks \cup {Mark(out)}
    BY <2>1, <2>2, KnownMarks
  <2>4. \A x \in Marks : x[1] \in Nat
    BY DEF Marks, Mark, TypeOK, Job, Mandate, NoMandate
  <2>5. Mark(out)[1] = stamp + 1
    BY <1>4 DEF Mark
  <2>6. \A x \in Marks : x[1] <= stamp
    BY <1>6 DEF OneEmPerId
  <2>7. \A x \in Marks \cup {Mark(out)} : x[1] <= stamp + 1
    BY <1>1, <2>4, <2>5, <2>6
  <2>8. \A x, y \in Marks \cup {Mark(out)} : x[1] = y[1] => x[2] = y[2]
    BY <1>1, <1>6, <2>4, <2>5, <2>6 DEF OneEmPerId
  <2>9. QED
    BY <1>2, <2>3, <2>7, <2>8 DEF OneEmPerId
<1>8. MandateRows' = MandateRows
  BY <1>2 DEF MandateRows
<1>9. cur.id = 0 => cur.status = "absent"
  BY <1>1, <1>2, <1>6 DEF FileReal, Readable, Mandate
<1>10. job[w].em = tic /\ tic > 0 /\ ~Landed /\ ~Landed'
  BY <1>2, <1>6, <1>8 DEF Writes, Builds, Landed
<1>11. Writes(w)'
  BY <1>1, <1>2, <1>4, <1>5, <1>9, <1>10 DEF Writes, Builds, Readable, Live
<1>12. QED
  BY <1>1, <1>2, <1>5, <1>7, <1>8, <1>11, StillUnraced

\* The boundary lands: no row carried it, and the file does.
LEMMA RowUnraced ==
    ASSUME OneCadence, TypeOK, Unraced, NEW w \in Writer, AppendMandateRow(w)
    PROVE  Unraced'
<1>1. w \in Proc /\ tic \in Nat
  BY BoundAssumption DEF Proc, TypeOK
<1>2. pc[w] = "row" /\ cur' = cur /\ tic' = tic /\ stamp' = stamp
  BY DEF AppendMandateRow, At
<1>3. pc'[w] = "idle" /\ job'[w] = NoJob /\ Apart(w)
  BY <1>1 DEF AppendMandateRow, Exit, TypeOK, Apart
<1>4. job[w].out.em = tic /\ ~Landed /\ Settled
  BY <1>1, <1>2 DEF Unraced, Writes, Builds
<1>5. PICK row : row = MandateRow(job[w].out)
  OBVIOUS
<1>6. row.em = tic /\ MandateRows' = MandateRows \cup {row}
  BY <1>4, <1>5 DEF MandateRow, MandateRows, AppendMandateRow
<1>7. OneEach' /\ \A x \in MandateRows' : x.em <= tic'
  BY <1>1, <1>2, <1>4, <1>6 DEF OneEach, Landed, Unraced
<1>8. \A x \in Proc : pc'[x] = "fill" => pc[x] = "fill" /\ job'[x] = job[x]
  BY <1>3 DEF Apart
<1>9. \A x \in Proc : pc'[x] = "fill" <=> pc[x] = "fill"
  BY <1>2, <1>3 DEF Apart
<1>10. Settled'
  BY <1>2, <1>4, <1>8 DEF Settled
<1>11. OneFiller' /\ FileReal'
  BY <1>2, <1>9 DEF Unraced, OneFiller, FileReal, Readable
<1>12. OneEmPerId'
  <2>1. NoJob.seen = NoMandate /\ NoJob.out = NoMandate
    BY DEF NoJob
  <2>2. QED
    BY <1>1, <1>2, <1>3, <2>1, MarksKept, KnownMarks DEF Unraced
<1>13. ASSUME NEW x \in Proc PROVE Writes(x)'
  <2>1. CASE x = w
    BY <1>3, <2>1 DEF Writes, Builds
  <2>2. CASE x # w
    <3>1. Writes(x) /\ pc'[x] = pc[x] /\ job'[x] = job[x] /\ x \notin Writer
      BY <1>3, <2>2 DEF Unraced, Apart, OneCadence
    <3>2. QED
      BY <3>1 DEF Writes, Restamps, Readable
  <2>3. QED
    BY <2>1, <2>2
<1>14. QED
  BY <1>7, <1>10, <1>11, <1>12, <1>13 DEF Unraced
\* A downbeat opens a boundary no row knows; a replay reopens the last one.
LEMMA BeginUnraced ==
    ASSUME OneCadence, TypeOK, TypeOK', Unraced, NEW w \in Writer,
           Cadence(w) \/ Replay(w) \/ SessionStart(w) \/ Review(w)
    PROVE  Unraced'
<1>1. w \in Proc /\ tic \in Nat /\ tic \in 0..MaxTic
  BY BoundAssumption DEF Proc, TypeOK
<1>2. ~SessionStart(w) /\ ~Review(w)
  BY <1>1 DEF SessionStart, Review, OneCadence
<1>3. tic' \in Nat /\ tic' > 0 /\ (tic' = tic \/ (Cadence(w) /\ tic' = tic + 1))
  BY <1>1, <1>2 DEF Cadence, Replay
<1>4. PICK want : Begin(w, "cadence", tic', tic', want, "idempotency")
  BY <1>1, <1>2 DEF Cadence, Replay
<1>5. PICK j : j = [NoJob EXCEPT !.kind = "cadence", !.tic = tic', !.em = tic', !.want = want]
  OBVIOUS
<1>6. j.em = tic' /\ j.seen = NoMandate /\ j.out = NoMandate
  BY <1>5 DEF NoJob
<1>7. job'[w] = j /\ pc'[w] = "idempotency" /\ pc[w] = "idle" /\ Apart(w)
  BY <1>1, <1>2, <1>4, <1>5 DEF Begin, Goto, TypeOK, Apart, Cadence, Replay, At
<1>8. cur' = cur /\ ledger' = ledger /\ stamp' = stamp /\ MandateRows' = MandateRows
  BY <1>2 DEF Cadence, Replay, MandateRows
<1>9. OneEmPerId'
  BY <1>1, <1>6, <1>7, <1>8, MarksKept, KnownMarks DEF Unraced
<1>10. Writes(w)'
  BY <1>1, <1>3, <1>6, <1>7 DEF Writes, Builds
<1>11. CASE tic' = tic
  BY <1>1, <1>7, <1>8, <1>9, <1>10, <1>11, StillUnraced
<1>12. CASE tic' = tic + 1
  <2>1. \A row \in MandateRows : row.em \in Nat /\ row.em <= tic
    BY DEF Unraced, MandateRows, TypeOK, Row
  <2>2. ~Landed' /\ \A row \in MandateRows' : row.em <= tic'
    BY <1>1, <1>8, <1>12, <2>1 DEF Landed
  <2>3. \A x \in Proc : pc'[x] = "fill" <=> pc[x] = "fill"
    BY <1>7 DEF Apart
  <2>4. OneFiller' /\ FileReal' /\ OneEach'
    BY <1>8, <2>3 DEF Unraced, OneFiller, FileReal, OneEach, Readable
  <2>5. ASSUME NEW x \in Proc \ {w} PROVE Writes(x)'
    <3>1. Writes(x) /\ pc'[x] = pc[x] /\ job'[x] = job[x] /\ x \notin Writer
      BY <1>7 DEF Unraced, Apart, OneCadence
    <3>2. QED
      BY <3>1 DEF Writes, Restamps, Readable
  <2>6. QED
    BY <1>9, <1>10, <2>2, <2>4, <2>5 DEF Unraced
<1>13. QED
  BY <1>3, <1>11, <1>12

\* A boundary that has its mandate has it in the file: the replay stops there.
LEMMA IdempotentUnraced ==
    ASSUME TypeOK, Unraced, NEW w \in Writer, Idempotent(w), ~raced'
    PROVE  Unraced'
<1>1. w \in Proc /\ Writes(w)
  BY DEF Proc, Unraced
<1>2. /\ pc[w] = "idempotency" /\ cur.status # "torn" /\ cur' = cur /\ tic' = tic /\ stamp' = stamp
      /\ MandateRows' = MandateRows
  BY DEF Idempotent, At, MandateRows
<1>3. CASE Readable(cur) /\ cur.em = job[w].em
  BY <1>1, <1>2, <1>3, ExitUnraced DEF Idempotent
<1>4. CASE ~(Readable(cur) /\ cur.em = job[w].em)
  <2>1. Goto(w, "quiesce") /\ job' = job /\ pc'[w] = "quiesce"
    BY <1>1, <1>4 DEF Idempotent, Goto, TypeOK
  <2>2. job[w].em = tic /\ tic > 0
    BY <1>1, <1>2 DEF Writes, Builds
  <2>3. ~Landed
    BY <1>2, <1>4, <2>2 DEF Unraced, Settled, FileReal
  <2>4. Builds(w)'
    BY <1>2, <2>1, <2>2, <2>3 DEF Builds, Landed
  <2>5. QED
    BY <1>1, <1>2, <2>1, <2>4, GotoUnraced
<1>5. QED
  BY <1>3, <1>4

LEMMA WriterUnraced ==
    ASSUME OneCadence, TypeOK, Unraced, NEW w \in Writer, WriterProgress(w), ~raced'
    PROVE  Unraced'
<1>1. w \in Proc /\ Writes(w)
  BY DEF Proc, Unraced
<1>2. CASE Quiescent(w) \/ QuiesceTimeout(w)
  <2>1. /\ pc[w] = "quiesce" /\ Goto(w, "read") /\ job' = job /\ cur' = cur /\ tic' = tic /\ stamp' = stamp
        /\ MandateRows' = MandateRows
    BY <1>2 DEF Quiescent, QuiesceTimeout, At, MandateRows
  <2>2. pc'[w] = "read"
    BY <1>1, <2>1 DEF Goto, TypeOK
  <2>3. Builds(w)'
    BY <1>1, <2>1, <2>2 DEF Writes, Builds, Landed
  <2>4. QED
    BY <1>1, <2>1, <2>3, GotoUnraced
<1>3. CASE ReadBoundary(w)
  <2>1. /\ pc[w] = "boundary" /\ cur' = cur /\ tic' = tic /\ stamp' = stamp /\ MandateRows' = MandateRows
    BY <1>3 DEF ReadBoundary, At, MandateRows
  <2>2. /\ pc'[w] = "truncate" /\ job'[w].seen = job[w].seen /\ job'[w].out = job[w].out
        /\ job'[w].em = job[w].em /\ Apart(w)
    BY <1>1, <1>3 DEF ReadBoundary, Goto, TypeOK, Job, Apart
  <2>3. OneEmPerId'
    BY <1>1, <2>1, <2>2, MarksKept, KnownMarks DEF Unraced
  <2>4. Writes(w)'
    BY <1>1, <2>1, <2>2 DEF Writes, Builds, Readable, Landed
  <2>5. QED
    BY <1>1, <2>1, <2>2, <2>3, <2>4, StillUnraced
<1>4. CASE Terminalize(w)
  <2>1. /\ pc[w] = "terminalize" /\ Goto(w, "row") /\ job' = job /\ cur' = cur /\ tic' = tic
        /\ stamp' = stamp /\ MandateRows' = MandateRows
    BY <1>4 DEF Terminalize, At, MandateRows, TransitionRow
  <2>2. pc'[w] = "row" /\ \A x \in Proc : pc'[x] = "fill" <=> pc[x] = "fill"
    BY <1>1, <2>1 DEF Goto, TypeOK
  <2>3. (Landed' <=> Landed) /\ (Settled' <=> Settled)
    BY <2>1, <2>2 DEF Landed, Settled
  <2>4. Builds(w)'
    BY <1>1, <2>1, <2>2, <2>3 DEF Writes, Builds
  <2>5. QED
    BY <1>1, <2>1, <2>4, GotoUnraced
<1>5. QED
  BY <1>1, <1>2, <1>3, <1>4, IdempotentUnraced, BuildUnraced, TruncateUnraced, FillUnraced, RowUnraced
     DEF WriterProgress

\* A runner's row is not a mandate row.
LEMMA RunnerUnraced ==
    ASSUME OneCadence, TypeOK, Unraced, NEW r \in Runner, RunnerStep(r), ~raced'
    PROVE  Unraced'
<1>1. r \in Proc /\ r \notin Writer /\ job[r] \in Job
  BY ProcAssumption DEF Proc, TypeOK
<1>2. CASE Truncate(r) \/ Fill(r)
  BY <1>1, <1>2, TruncateUnraced, FillUnraced
<1>3. CASE ~(Truncate(r) \/ Fill(r))
  <2>1. cur' = cur /\ tic' = tic /\ stamp' = stamp /\ pc[r] # "fill"
    BY <1>3 DEF RunnerStep, Check, Details, Start, StartRow, Execute, WriteBack, FinalRow, At
  <2>2. MandateRows' = MandateRows
    <3>1. CASE ledger' = ledger
      BY <3>1 DEF MandateRows
    <3>2. CASE StartRow(r) \/ FinalRow(r)
      BY <3>2 DEF StartRow, FinalRow, MandateRows, TransitionRow, FinalTransition
    <3>3. QED
      BY <1>3, <3>1, <3>2 DEF RunnerStep, Check, Details, Start, Execute, WriteBack
  <2>3. CASE Check(r) \/ StartRow(r) \/ FinalRow(r)
    BY <1>1, <2>1, <2>2, <2>3, ExitUnraced, GotoUnraced DEF Check, StartRow, FinalRow
  <2>4. CASE Start(r)
    BY <1>1, <2>1, <2>2, <2>4, ExitUnraced, RewriteUnraced DEF Start, Live
  <2>5. CASE Details(r) \/ Execute(r) \/ WriteBack(r)
    <3> DEFINE next == IF job[r].logged THEN "final" ELSE "idle"
    <3>1. CASE Exit(r)
      BY <1>1, <2>1, <2>2, <3>1, ExitUnraced
    <3>2. CASE WriteBack(r) /\ Readable(cur) /\ cur.id = job[r].id
      <4>1. Rewrite(r, job[r], cur, [cur EXCEPT !.status = job[r].verdict], next)
        BY <3>2 DEF WriteBack
      <4>2. job[r].verdict \in Live \cup Terminal
        BY <1>1 DEF Job
      <4>3. QED
        BY <2>1, <2>2, <3>2, <4>1, <4>2, RewriteUnraced
    <3>3. CASE ~Exit(r) /\ ~(WriteBack(r) /\ Readable(cur) /\ cur.id = job[r].id)
      <4>1. /\ job'[r].seen = job[r].seen /\ job'[r].out = job[r].out
            /\ pc'[r] \in {"start", "writeback", "final"} /\ Apart(r)
        <5>1. CASE Details(r)
          BY <1>1, <3>3, <5>1 DEF Details, Goto, TypeOK, Job, Apart
        <5>2. CASE Execute(r)
          BY <1>1, <3>3, <5>2 DEF Execute, Goto, TypeOK, Job, Apart
        <5>3. CASE WriteBack(r)
          BY <1>1, <3>3, <5>3 DEF WriteBack, Goto, TypeOK, Job, Apart
        <5>4. QED
          BY <2>5, <5>1, <5>2, <5>3
      <4>2. QED
        BY <1>1, <2>1, <2>2, <4>1, PassUnraced, KnownMarks
    <3>4. QED
      BY <3>1, <3>2, <3>3
  <2>6. QED
    BY <1>3, <2>3, <2>4, <2>5 DEF RunnerStep
<1>4. QED
  BY <1>2, <1>3

LEMMA GateUnraced ==
    ASSUME OneCadence, TypeOK, Unraced, NEW g \in Gate, GateStep(g), ~raced'
    PROVE  Unraced'
<1>1. g \in Proc /\ g \notin Writer
  BY ProcAssumption DEF Proc
<1>2. CASE Truncate(g) \/ Fill(g)
  BY <1>1, <1>2, TruncateUnraced, FillUnraced
<1>3. CASE ~(Truncate(g) \/ Fill(g))
  <2>1. cur' = cur /\ tic' = tic /\ stamp' = stamp /\ MandateRows' = MandateRows /\ pc[g] # "fill"
    BY <1>3 DEF GateStep, Spawn, Take, Recheck, Inline, Consume, At, MandateRows
  <2>2. CASE Spawn(g)
    <3>1. PICK r \in Runner : pc[r] = "idle" /\ Goto(r, "check") /\ job' = job
      BY <2>2 DEF Spawn, At
    <3>2. r \in Proc /\ r \notin Writer
      BY ProcAssumption DEF Proc
    <3>3. QED
      BY <2>1, <3>1, <3>2, GotoUnraced
  <2>3. CASE Take(g)
    <3>1. job'[g].seen = job[g].seen /\ job'[g].out = job[g].out /\ pc'[g] = "recheck" /\ Apart(g)
      BY <1>1, <2>3 DEF Take, Goto, TypeOK, Job, Apart
    <3>2. QED
      BY <1>1, <2>1, <3>1, PassUnraced, KnownMarks
  <2>4. CASE Recheck(g) \/ Inline(g)
    BY <1>1, <2>1, <2>4, ExitUnraced, GotoUnraced DEF Recheck, Inline
  <2>5. CASE Consume(g)
    BY <1>1, <2>1, <2>5, ExitUnraced, RewriteUnraced DEF Consume, Terminal
  <2>6. QED
    BY <1>3, <2>2, <2>3, <2>4, <2>5 DEF GateStep
<1>4. QED
  BY <1>2, <1>3

LEMMA InitBoundaries == Init => Boundaries
<1> SUFFICES ASSUME Init PROVE Boundaries
  OBVIOUS
<1>1. TypeOK /\ cur = NoMandate /\ MandateRows = {} /\ stamp = 0
  BY InitTypes DEF Init, MandateRows
<1>2. \A p \in Proc : pc[p] = "idle" /\ job[p].seen = NoMandate /\ job[p].out = NoMandate
  BY DEF Init, NoJob
<1>3. NoMandate.id = 0 /\ NoMandate.em = 0 /\ NoMandate.status = "absent"
  BY DEF NoMandate
<1>4. \A x \in Marks : x = <<0, 0>>
  BY <1>1, <1>2, <1>3 DEF Marks, Mark
<1>5. OneEmPerId
  BY <1>1, <1>4 DEF OneEmPerId
<1>6. FileReal /\ OneFiller
  BY <1>1, <1>2, <1>3 DEF FileReal, OneFiller, Readable, Live, Terminal
<1>7. \A p \in Proc : Writes(p)
  BY <1>2 DEF Writes, Builds, Restamps
<1>8. QED
  BY <1>1, <1>5, <1>6, <1>7 DEF Boundaries, Unraced, OneEach, Landed

\* A race is never forgotten.
LEMMA RacedForGood == TypeOK /\ [Next]_vars => (raced => raced')
<1> SUFFICES ASSUME TypeOK, [Next]_vars, raced
             PROVE  raced'
  OBVIOUS
<1>1. ASSUME NEW w \in Writer, WriterStep(w) PROVE raced'
  BY <1>1 DEF WriterStep, WriterProgress, Cadence, Replay, SessionStart, Review, Idempotent, Quiescent,
              QuiesceTimeout, ReadExisting, ReadBoundary, Truncate, Fill, Terminalize, AppendMandateRow, history
<1>2. ASSUME NEW r \in Runner, RunnerStep(r) PROVE raced'
  BY <1>2 DEF RunnerStep, Check, Details, Start, StartRow, Execute, WriteBack, FinalRow, Truncate, Fill, history
<1>3. ASSUME NEW g \in Gate, GateStep(g) PROVE raced'
  BY <1>3 DEF GateStep, Spawn, Take, Recheck, Inline, Consume, Truncate, Fill, history
<1>4. ASSUME NEW p \in Crasher, Crash(p) PROVE raced'
  BY <1>4 DEF Crash
<1>5. QED
  BY <1>1, <1>2, <1>3, <1>4 DEF Next, vars

LEMMA NextBoundaries ==
    ASSUME OneCadence
    PROVE  Boundaries /\ [Next]_vars => Boundaries'
<1> SUFFICES ASSUME Boundaries, [Next]_vars
             PROVE  Boundaries'
  OBVIOUS
<1>1. TypeOK /\ TypeOK'
  BY NextTypes DEF Boundaries
<1>2. SUFFICES ASSUME ~raced' PROVE Unraced'
  BY <1>1 DEF Boundaries
<1>3. ~raced /\ Unraced
  BY <1>1, <1>2, RacedForGood DEF Boundaries
<1>4. ASSUME NEW w \in Writer, WriterStep(w) PROVE Unraced'
  BY <1>1, <1>2, <1>3, <1>4, BeginUnraced, WriterUnraced DEF WriterStep
<1>5. ASSUME NEW r \in Runner, RunnerStep(r) PROVE Unraced'
  BY <1>1, <1>2, <1>3, <1>5, RunnerUnraced
<1>6. ASSUME NEW g \in Gate, GateStep(g) PROVE Unraced'
  BY <1>1, <1>2, <1>3, <1>6, GateUnraced
<1>7. ASSUME NEW p \in Crasher, Crash(p) PROVE Unraced'
  <2>1. /\ p \in Proc /\ pc[p] # "fill" /\ Exit(p) /\ cur' = cur /\ tic' = tic /\ stamp' = stamp
        /\ MandateRows' = MandateRows
    BY <1>2, <1>7, ProcAssumption DEF Crash, At, MandateRows
  <2>2. QED
    BY <1>1, <1>3, <2>1, ExitUnraced
<1>8. CASE UNCHANGED vars
  <2>1. /\ \A p \in Proc : Writes(p)' <=> Writes(p)
        /\ OneEmPerId' <=> OneEmPerId
    BY <1>8 DEF vars, Writes, Builds, Restamps, Landed, Settled, Readable, MandateRows,
                OneEmPerId, Marks, Mark
  <2>2. QED
    BY <1>3, <1>8, <2>1 DEF vars, Unraced, FileReal, OneFiller, OneEach, Landed, Settled, Readable, MandateRows
<1>9. QED
  BY <1>4, <1>5, <1>6, <1>7, <1>8 DEF Next

\* With one /cadence at a time as the only writer, a tic boundary gets one
\* mandate however often it is replayed and wherever an attempt was killed, as
\* long as no read or write meets a file it did not expect (cadence-ops.py
\* write_cadence_mandate, the active-boundary check).
THEOREM BoundariesOnce ==
    ASSUME OneCadence
    PROVE  Spec => []BoundaryOnce
<1>1. Init => Boundaries
  BY InitBoundaries
<1>2. Boundaries /\ [Next]_vars => Boundaries'
  BY NextBoundaries
<1>3. Boundaries => BoundaryOnce
  BY DEF Boundaries, Unraced, OneEach, BoundaryOnce
<1>4. QED
  BY <1>1, <1>2, <1>3, PTL DEF Spec
=============================================================================
