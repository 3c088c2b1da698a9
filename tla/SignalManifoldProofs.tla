------------------------- MODULE SignalManifoldProofs -------------------------
(***************************************************************************)
(* TLAPS proofs about SignalManifold, for every set of signals and         *)
(* processes and every bound.                                              *)
(***************************************************************************)
EXTENDS SignalManifold, TLAPS

-----------------------------------------------------------------------------
(* The inductive invariant *)

\* What a process may be doing, to which signal, and how far.
Shape(p) ==
    \/ task[p] = NoTask /\ stage[p] = "start"
    \/ Doing(p, "emit") /\ Id(p) \in Signal \ Audited /\ stage[p] \in {"daily", "row"}
    \/ Doing(p, "settle") /\ Id(p) \in Signal \ Audited /\ stage[p] \in {"daily", "row"}
    \/ /\ Doing(p, "audit") \/ Doing(p, "reaffirm")
       /\ Id(p) \in Audited /\ stage[p] \in {"daily", "row"}
    \/ /\ Doing(p, "resolve") /\ Id(p) \in Audited
       /\ stage[p] \in {"daily", "archive", "read", "write"}
    \/ /\ Doing(p, "prune") /\ stage[p] = "write"
       /\ \A q \in Process \ {p} : Free(q)

\* Whoever is about to replace the manifest replaces the one there is, and has
\* archived what it leaves out.
Replaces(p) ==
    /\ Doing(p, "resolve") /\ stage[p] \in {"read", "write"} => Id(p) \in resolved
    /\ Doing(p, "resolve") /\ stage[p] = "write" =>
          pending[p] = [manifest EXCEPT ![Id(p)] = <<>>]
    /\ Doing(p, "prune") => pending[p] = Kept(manifest) /\ ClosedIn(manifest) \subseteq resolved

OneWriter == \A p, q \in Process : stage[p] = "write" /\ stage[q] = "write" => p = q

\* The operations on one audited finding follow one another.
OneAudit == \A p, q \in Process : Id(p) = Id(q) /\ Id(p) \in Audited => Free(p) \/ Free(q) \/ p = q

On(p, s) == ~Free(p) /\ ~Doing(p, "prune") /\ Id(p) = s
Amid(p, name, s, place) == Doing(p, name) /\ Id(p) = s /\ stage[p] = place

\* A signal that is emitted and settled.
Tracks(s) ==
    /\ \A p \in Process : Doing(p, "settle") /\ Id(p) = s => s \in Ids(manifest)
    /\ \A p \in Process : Amid(p, "settle", s, "row") =>
          /\ lineage[s] = "resolved"
          /\ \A q \in Process : ~Amid(q, "emit", s, "daily")
    /\ \A p \in Process : Amid(p, "emit", s, "row") /\ s \notin Ids(manifest) =>
          lineage[s] = "active"
    /\ s \notin Ids(manifest) /\ lineage[s] = "active" =>
          \E p \in Process : Amid(p, "emit", s, "row")
    /\ s \in ActiveIn(manifest) =>
          lineage[s] = "active" \/ \E p \in Process : Amid(p, "settle", s, "row")
    /\ s \in ClosedIn(manifest) =>
          lineage[s] = "resolved" /\ \A p \in Process : ~Amid(p, "emit", s, "daily")

\* An audited finding.
Follows(s) ==
    /\ s \notin ClosedIn(manifest)
    /\ \A p \in Process : On(p, s) =>
          /\ stage[p] = "row" => lineage[s] = "active"
          /\ stage[p] \in {"archive", "read", "write"} => lineage[s] = "resolved"
    /\ (\A p \in Process : On(p, s) => stage[p] = "daily") =>
          (lineage[s] = "active" <=> s \in Ids(manifest))

Agree == (\A s \in Signal \ Audited : Tracks(s)) /\ (\A s \in Audited : Follows(s))

Core ==
    /\ SignalTypeOK
    /\ \A p \in Process : Shape(p) /\ Replaces(p)
    /\ OneWriter /\ OneAudit

SignalInv == Core /\ (crashes = 0 => Agree)

-----------------------------------------------------------------------------
(* The manifest's operations *)

Rows == Seq({"active", "resolved"})
Manifest == [Signal -> Rows]

LEMMA Appended ==
    ASSUME NEW m \in Manifest, NEW s \in Signal, NEW v \in {"active", "resolved"},
           NEW n, n = [m EXCEPT ![s] = Append(@, v)]
    PROVE  /\ n \in Manifest /\ Ids(n) = Ids(m) \cup {s}
           /\ s \in ActiveIn(n) <=> v = "active"
           /\ \A t \in Signal \ {s} : t \in ActiveIn(n) <=> t \in ActiveIn(m)
<1>1. m[s] \in Rows /\ n[s] = Append(m[s], v)
  BY DEF Manifest
<1>2. n[s] \in Rows /\ n[s] # <<>> /\ Latest(n, s) = v
  BY <1>1 DEF Rows, Latest
<1>3. \A t \in Signal \ {s} : n[t] = m[t]
  BY DEF Manifest
<1>4. n \in Manifest
  BY <1>2 DEF Manifest
<1>5. QED
  BY <1>2, <1>3, <1>4 DEF Ids, ActiveIn, Latest

LEMMA Dropped ==
    ASSUME NEW m \in Manifest, NEW s \in Signal, NEW n, n = [m EXCEPT ![s] = <<>>]
    PROVE  /\ n \in Manifest /\ Ids(n) = Ids(m) \ {s}
           /\ ActiveIn(n) = ActiveIn(m) \ {s}
<1>1. n[s] = <<>> /\ \A t \in Signal \ {s} : n[t] = m[t]
  BY DEF Manifest
<1>2. n \in Manifest
  BY DEF Manifest, Rows
<1>3. QED
  BY <1>1, <1>2 DEF Ids, ActiveIn, Latest

LEMMA KeptActive ==
    ASSUME NEW m \in Manifest
    PROVE  Kept(m) \in Manifest /\ Ids(Kept(m)) = ActiveIn(m) /\ ActiveIn(Kept(m)) = ActiveIn(m)
<1>1. \A s \in ActiveIn(m) :
        /\ s \in Signal /\ Latest(m, s) = "active" /\ Kept(m)[s] = <<"active">>
  BY DEF ActiveIn, Ids, Kept
<1>2. \A s \in Signal \ ActiveIn(m) : Kept(m)[s] = <<>>
  BY DEF Kept
<1>3. <<"active">> \in Rows /\ <<"active">> # <<>> /\ Len(<<"active">>) = 1
  BY DEF Rows
<1>4. Kept(m) \in Manifest
  <2>1. \A s \in Signal : Kept(m)[s] \in Rows
    <3>1. <<>> \in Rows
      BY DEF Rows
    <3>2. QED
      BY <1>1, <1>2, <1>3, <3>1
  <2>2. QED
    BY <2>1 DEF Kept, Manifest
<1>5. \A s \in ActiveIn(m) : Latest(Kept(m), s) = "active"
  BY <1>1, <1>3 DEF Latest
<1>6. QED
  BY <1>1, <1>2, <1>3, <1>4, <1>5 DEF Ids, ActiveIn

-----------------------------------------------------------------------------
(* Types *)

LEMMA SignalTypes ==
    SignalTypeOK <=>
        /\ lineage \in [Signal -> {"none", "active", "resolved"}]
        /\ today \subseteq Signal
        /\ manifest \in Manifest
        /\ resolved \subseteq Signal
        /\ task \in [Process -> [do : Task, id : Signal]]
        /\ stage \in [Process -> {"start", "daily", "row", "archive", "read", "write"}]
        /\ pending \in [Process -> Manifest]
        /\ ops \in 0..MaxOp /\ crashes \in 0..MaxCrash
BY DEF SignalTypeOK, Manifest, Rows

LEMMA SignalNulls ==
    /\ NoTask \in [do : Task, id : Signal] /\ Empty \in Manifest
    /\ Ids(Empty) = {} /\ ActiveIn(Empty) = {}
<1>1. (CHOOSE s \in Signal : TRUE) \in Signal
  BY SignalAssumption
<1>2. QED
  BY <1>1 DEF NoTask, Task, Empty, Manifest, Rows, Ids, ActiveIn

LEMMA SignalInitTypes == SignalInit => SignalTypeOK
BY SignalNulls, SignalAssumption DEF SignalInit, SignalTypeOK, Manifest, Rows

LEMMA SignalStepTypes == SignalTypeOK /\ [SignalNext]_signalVars => SignalTypeOK'
<1> SUFFICES ASSUME SignalTypeOK, [SignalNext]_signalVars PROVE SignalTypeOK'
  OBVIOUS
<1>0. /\ lineage \in [Signal -> {"none", "active", "resolved"}]
      /\ manifest \in Manifest /\ pending \in [Process -> Manifest]
      /\ task \in [Process -> [do : Task, id : Signal]]
  BY SignalTypes
<1>a. \A p \in Process : Id(p) \in Signal
  BY <1>0 DEF Id
<1>1. CASE NextDay
  BY <1>1 DEF NextDay, SignalTypeOK
<1>2. ASSUME NEW p \in Process, NEW s \in Signal, NEW name \in Task,
             Start(p, name, s, "daily")
      PROVE  SignalTypeOK'
  <2>1. ops' \in 0..MaxOp
    BY <1>2, SignalAssumption DEF Start, SignalTypeOK
  <2>2. [do |-> name, id |-> s] \in [do : Task, id : Signal]
    OBVIOUS
  <2>3. QED
    BY <1>2, <2>1, <2>2 DEF Start, SignalTypeOK, surfaces
<1>3. ASSUME NEW p \in Process, NEW s \in Signal,
             Emit(p, s) \/ Audit(p, s) \/ Resolve(p, s) \/ Reaffirm(p, s) \/ Settle(p, s)
      PROVE  SignalTypeOK'
  BY <1>2, <1>3 DEF Emit, Audit, Resolve, Reaffirm, Settle, Task
<1>4. ASSUME NEW p \in Process, AppendDaily(p)
      PROVE  SignalTypeOK'
  <2>1. Id(p) \in Signal /\ StatusOf(task[p].do) \in {"active", "resolved"}
        /\ Then(task[p].do) \in {"archive", "row"}
    BY <1>a DEF StatusOf, Then
  <2>2. QED
    BY <1>4, <2>1 DEF AppendDaily, Goto, SignalTypeOK
<1>5. ASSUME NEW p \in Process, AppendRow(p)
      PROVE  SignalTypeOK'
  <2>1. manifest' \in Manifest
    <3>1. Id(p) \in Signal /\ StatusOf(task[p].do) \in {"active", "resolved"}
      BY <1>a DEF StatusOf
    <3>2. QED
      BY <1>0, <1>5, <3>1, Appended DEF AppendRow
  <2>2. QED
    BY <1>5, <2>1, SignalNulls DEF AppendRow, Leave, SignalTypeOK, Manifest, Rows
<1>6. ASSUME NEW p \in Process, AppendArchive(p)
      PROVE  SignalTypeOK'
  BY <1>a, <1>6 DEF AppendArchive, Goto, SignalTypeOK
<1>7. ASSUME NEW p \in Process, ReadManifest(p)
      PROVE  SignalTypeOK'
  <2>1. [manifest EXCEPT ![Id(p)] = <<>>] \in Manifest
    BY <1>0, <1>a, Dropped
  <2>2. pending' \in [Process -> Manifest]
    BY <1>0, <1>7, <2>1 DEF ReadManifest
  <2>3. QED
    <3>1. CASE Leave(p)
      BY <1>7, <2>2, <3>1, SignalNulls
         DEF ReadManifest, Leave, surfaces, SignalTypeOK, Manifest, Rows
    <3>2. CASE Goto(p, "write")
      BY <1>7, <2>2, <3>2 DEF ReadManifest, Goto, surfaces, SignalTypeOK, Manifest, Rows
    <3>3. QED
      BY <1>7, <3>1, <3>2 DEF ReadManifest
<1>8. ASSUME NEW p \in Process, PruneManifest(p)
      PROVE  SignalTypeOK'
  <2>1. pending' \in [Process -> Manifest]
    BY <1>0, <1>8, KeptActive DEF PruneManifest
  <2>2. task' \in [Process -> [do : Task, id : Signal]]
    BY <1>0, <1>8 DEF PruneManifest, Task
  <2>3. resolved' \subseteq Signal
    BY <1>8, SignalTypes DEF PruneManifest, ClosedIn, Ids
  <2>4. QED
    BY <1>8, <2>1, <2>2, <2>3 DEF PruneManifest, SignalTypeOK, Manifest, Rows
<1>9. ASSUME NEW p \in Process, WriteManifest(p)
      PROVE  SignalTypeOK'
  BY <1>9, SignalNulls DEF WriteManifest, Leave, SignalTypeOK, Manifest, Rows
<1>10. ASSUME NEW p \in Process, Crash(p)
       PROVE  SignalTypeOK'
  <2>1. crashes' \in 0..MaxCrash
    BY <1>10, SignalAssumption DEF Crash, SignalTypeOK
  <2>2. QED
    BY <1>10, <2>1, SignalNulls DEF Crash, Leave, surfaces, SignalTypeOK, Manifest, Rows
<1>11. CASE UNCHANGED signalVars
  BY <1>11 DEF signalVars, SignalTypeOK
<1>12. QED
  BY <1>1, <1>3, <1>4, <1>5, <1>6, <1>7, <1>8, <1>9, <1>10, <1>11 DEF SignalNext, Work

\* Every variable of the manifold's model holds what its declaration says.
THEOREM ManifoldTypes == SignalSpec => []SignalTypeOK
BY SignalInitTypes, SignalStepTypes, PTL DEF SignalSpec
-----------------------------------------------------------------------------
(* Who holds the manifest, and what leaves it *)

\* p is the only one that moves.
Others(p) ==
    \A q \in Process \ {p} :
        task'[q] = task[q] /\ stage'[q] = stage[q] /\ pending'[q] = pending[q]

LEMMA CoreKept ==
    ASSUME Core, SignalTypeOK', NEW p \in Process, Others(p),
           \A q \in Process \ {p} : ~Doing(q, "prune"),
           resolved \subseteq resolved',
           manifest' = manifest \/ \A q \in Process \ {p} : ~HoldsManifest(q),
           stage'[p] = "write" => \A q \in Process \ {p} : stage[q] # "write",
           \/ task'[p] \in {task[p], NoTask}
           \/ task'[p].id \notin Audited
           \/ \A q \in Process \ {p} : Free(q) \/ Id(q) # task'[p].id,
           Shape(p)', Replaces(p)'
    PROVE  Core'
<1>1. \A q \in Process \ {p} : Shape(q)'
  BY DEF Core, Shape, Others, Doing, Id, Free
<1>2. \A q \in Process \ {p} : Replaces(q)'
  BY DEF Core, Replaces, Others, Doing, Id, HoldsManifest
<1>3. OneWriter'
  BY DEF Core, OneWriter, Others
<1>4. OneAudit'
  BY DEF Core, OneAudit, Others, Id, Free
<1>5. QED
  BY <1>1, <1>2, <1>3, <1>4 DEF Core

\* Nothing else happens while a prune does.
LEMMA PruneAlone ==
    ASSUME Core, NEW p \in Process, ~Free(p)
    PROVE  \A q \in Process \ {p} : ~Doing(q, "prune")
<1> SUFFICES ASSUME NEW q \in Process \ {p}, Doing(q, "prune") PROVE FALSE
  OBVIOUS
<1>1. Shape(q)
  BY DEF Core
<1>2. QED
  BY <1>1 DEF Shape, Doing, NoTask

LEMMA Busy ==
    ASSUME Core, NEW p \in Process
    PROVE  /\ stage[p] # "start" => ~Free(p)
           /\ stage[p] = "write" => Doing(p, "resolve") \/ Doing(p, "prune")
           /\ stage[p] \in {"archive", "read"} => Doing(p, "resolve")
           /\ Free(p) => stage[p] = "start"
BY DEF Core, Shape, Free, Doing, NoTask

LEMMA NothingToDo == NoTask.do = "none"
BY DEF NoTask

LEMMA CoreInit == SignalInit => Core
<1> SUFFICES ASSUME SignalInit PROVE Core
  OBVIOUS
<1>1. SignalTypeOK
  BY SignalInitTypes
<1>2. \A p \in Process : task[p] = NoTask /\ stage[p] = "start"
  BY DEF SignalInit
<1>3. \A p \in Process : Shape(p) /\ Free(p)
  BY <1>2 DEF Shape, Free
<1>4. \A p \in Process : Replaces(p)
  BY <1>2, NothingToDo DEF Replaces, Doing
<1>5. QED
  BY <1>1, <1>2, <1>3, <1>4 DEF Core, OneWriter, OneAudit

LEMMA CoreStart ==
    ASSUME Alone, Core, SignalTypeOK', NEW p \in Process, NEW s \in Signal,
           Emit(p, s) \/ Audit(p, s) \/ Resolve(p, s) \/ Reaffirm(p, s) \/ Settle(p, s)
    PROVE  Core'
<1>1. PICK name \in {"emit", "audit", "resolve", "reaffirm", "settle"} :
          /\ Start(p, name, s, "daily")
          /\ name \in {"emit", "settle"} => s \in Signal \ Audited
          /\ name \in {"audit", "resolve", "reaffirm"} => s \in Audited
  BY SignalAssumption DEF Emit, Audit, Resolve, Reaffirm, Settle, ActiveIn, Ids
<1>2. /\ task'[p] = [do |-> name, id |-> s] /\ stage'[p] = "daily" /\ Others(p)
      /\ UNCHANGED <<manifest, resolved>>
  BY <1>1 DEF Start, Core, SignalTypeOK, Others, surfaces
<1>3. /\ \A q \in Process \ {p} : ~Doing(q, "prune")
      /\ s \in Audited => \A q \in Process \ {p} : Free(q) \/ Id(q) # s
  BY <1>1 DEF Start
<1>4. Shape(p)' /\ Replaces(p)'
  BY <1>1, <1>2 DEF Shape, Replaces, Doing, Id
<1>5. QED
  BY <1>2, <1>3, <1>4, CoreKept

LEMMA CoreWork ==
    ASSUME Alone, Core, SignalTypeOK', NEW p \in Process, Work(p)
    PROVE  Core'
<1>0. SignalTypeOK /\ Shape(p) /\ Replaces(p) /\ stage[p] # "start"
  BY DEF Core, Work, AppendDaily, AppendRow, AppendArchive, ReadManifest, WriteManifest
<1>1. ~Free(p) /\ \A q \in Process \ {p} : ~Doing(q, "prune")
  BY <1>0, Busy, PruneAlone
<1>2. ASSUME Leave(p), Others(p), UNCHANGED resolved,
             manifest' = manifest \/ \A q \in Process \ {p} : ~HoldsManifest(q)
      PROVE  Core'
  <2>1. task'[p] = NoTask /\ stage'[p] = "start"
    BY <1>0, <1>2 DEF Leave, SignalTypeOK
  <2>2. Shape(p)' /\ Replaces(p)'
    BY <2>1 DEF Shape, Replaces, Doing, NoTask
  <2>3. QED
    BY <1>1, <1>2, <2>1, <2>2, CoreKept
<1>3. ASSUME NEW next, Goto(p, next)
      PROVE  stage'[p] = next /\ task' = task
  BY <1>0, <1>3 DEF Goto, SignalTypeOK
<1>4. CASE AppendDaily(p)
  <2>1. stage'[p] = Then(task[p].do) /\ UNCHANGED <<task, manifest, resolved>> /\ Others(p)
    BY <1>0, <1>3, <1>4 DEF AppendDaily, Goto, Others, SignalTypeOK
  <2>2. Shape(p)' /\ Replaces(p)' /\ stage'[p] # "write"
    BY <1>0, <1>4, <2>1 DEF Shape, Replaces, Then, AppendDaily, Doing, Id, NoTask
  <2>3. QED
    BY <1>1, <2>1, <2>2, CoreKept
<1>5. CASE AppendRow(p)
  <2>1. Others(p) /\ \A q \in Process \ {p} : ~HoldsManifest(q)
    BY <1>0, <1>5 DEF AppendRow, Leave, Others, SignalTypeOK, ManifestFree
  <2>2. QED
    BY <1>2, <1>5, <2>1 DEF AppendRow
<1>6. CASE AppendArchive(p)
  <2>1. /\ stage'[p] = "read" /\ UNCHANGED <<task, manifest>> /\ Others(p)
        /\ resolved' = resolved \cup {Id(p)}
    BY <1>0, <1>3, <1>6 DEF AppendArchive, Goto, Others, SignalTypeOK
  <2>2. Doing(p, "resolve") /\ Shape(p)' /\ Replaces(p)'
    BY <1>0, <1>6, <2>1 DEF AppendArchive, Shape, Replaces, Doing, Id, NoTask
  <2>3. QED
    BY <1>1, <2>1, <2>2, CoreKept
<1>7. CASE ReadManifest(p)
  <2>1. /\ UNCHANGED <<manifest, resolved>> /\ Others(p)
        /\ pending'[p] = [manifest EXCEPT ![Id(p)] = <<>>]
    BY <1>0, <1>7 DEF ReadManifest, Goto, Leave, Others, SignalTypeOK, surfaces
  <2>2. CASE Leave(p)
    BY <1>2, <2>1, <2>2
  <2>3. CASE Goto(p, "write")
    <3>1. stage'[p] = "write" /\ task' = task
      BY <1>3, <2>3
    <3>2. Doing(p, "resolve")
      BY <1>7, Busy DEF ReadManifest
    <3>3. Shape(p)' /\ Replaces(p)'
      BY <1>0, <1>7, <2>1, <3>1, <3>2 DEF ReadManifest, Shape, Replaces, Doing, Id, NoTask
    <3>4. \A q \in Process \ {p} : stage[q] # "write"
      BY <1>1, <1>7, Busy DEF ReadManifest, ManifestFree, HoldsManifest
    <3>5. QED
      BY <1>1, <2>1, <3>1, <3>3, <3>4, CoreKept
  <2>4. QED
    BY <1>7, <2>2, <2>3 DEF ReadManifest
<1>8. CASE WriteManifest(p)
  <2>1. Others(p) /\ \A q \in Process \ {p} : ~HoldsManifest(q)
    BY <1>0, <1>8 DEF WriteManifest, Leave, Others, SignalTypeOK, HoldsManifest, Core, OneWriter
  <2>2. QED
    BY <1>2, <1>8, <2>1 DEF WriteManifest
<1>9. QED
  BY <1>4, <1>5, <1>6, <1>7, <1>8 DEF Work

LEMMA CoreStep == ASSUME Alone PROVE Core /\ [SignalNext]_signalVars => Core'
<1> SUFFICES ASSUME Alone, Core, [SignalNext]_signalVars PROVE Core'
  OBVIOUS
<1>0. SignalTypeOK /\ SignalTypeOK'
  BY SignalStepTypes DEF Core
<1>1. ASSUME UNCHANGED <<manifest, resolved, task, stage, pending>>
      PROVE  Core'
  BY <1>0, <1>1 DEF Core, Shape, Replaces, OneWriter, OneAudit, Doing, Id, Free
<1>2. NextDay \/ UNCHANGED signalVars => Core'
  BY <1>1 DEF NextDay, signalVars
<1>3. ASSUME NEW p \in Process, PruneManifest(p)
      PROVE  Core'
  <2>1. /\ task'[p] = [task[p] EXCEPT !.do = "prune"] /\ stage'[p] = "write"
        /\ pending'[p] = Kept(manifest) /\ resolved' = resolved \cup ClosedIn(manifest)
        /\ UNCHANGED manifest /\ Others(p)
    BY <1>0, <1>3 DEF PruneManifest, Others, SignalTypeOK
  <2>2. task'[p].do = "prune" /\ \A q \in Process : Free(q) /\ stage[q] = "start"
    BY <1>0, <1>3, <2>1, Busy DEF PruneManifest, SignalTypeOK
  <2>3. Shape(p)' /\ Replaces(p)'
    BY <2>1, <2>2 DEF Shape, Replaces, Doing, Others, Free
  <2>4. \A q \in Process \ {p} : ~Doing(q, "prune") /\ stage[q] # "write"
    <3>1. NoTask.do = "none"
      BY DEF NoTask
    <3>2. QED
      BY <2>2, <3>1 DEF Free, Doing
  <2>5. QED
    BY <1>0, <2>1, <2>2, <2>3, <2>4, CoreKept
<1>4. ASSUME NEW p \in Process, Crash(p)
      PROVE  Core'
  <2>1. /\ task'[p] = NoTask /\ stage'[p] = "start" /\ Others(p)
        /\ UNCHANGED <<manifest, resolved>> /\ ~Free(p)
    BY <1>0, <1>4 DEF Crash, Leave, Others, SignalTypeOK, surfaces
  <2>2. Shape(p)' /\ Replaces(p)'
    BY <2>1 DEF Shape, Replaces, Doing, NoTask
  <2>3. QED
    BY <1>0, <2>1, <2>2, PruneAlone, CoreKept
<1>5. QED
  BY <1>0, <1>2, <1>3, <1>4, CoreStart, CoreWork DEF SignalNext

LEMMA CoreAlways == ASSUME Alone PROVE SignalSpec => []Core
BY CoreInit, CoreStep, PTL DEF SignalSpec

\* Only a rewrite shortens the manifest.
LEMMA RowsLeave ==
    ASSUME Core, [SignalNext]_signalVars, NEW s \in Ids(manifest) \ Ids(manifest')
    PROVE  s \in resolved
<1>0. SignalTypeOK /\ manifest \in Manifest
  BY SignalTypes DEF Core
<1>1. s \in Signal /\ s \in Ids(manifest)
  BY DEF Ids
<1>2. PICK p \in Process : AppendRow(p) \/ WriteManifest(p)
  BY DEF SignalNext, NextDay, Emit, Audit, Resolve, Reaffirm, Settle, Start, surfaces,
         PruneManifest, Work, AppendDaily, AppendArchive, ReadManifest, Crash, signalVars
<1>3. Id(p) \in Signal /\ StatusOf(task[p].do) \in {"active", "resolved"}
  BY <1>0 DEF SignalTypeOK, Id, StatusOf
<1>4. CASE AppendRow(p)
  <2>1. Ids(manifest) \subseteq Ids(manifest')
    BY <1>0, <1>3, <1>4, Appended DEF AppendRow
  <2>2. QED
    BY <2>1
<1>5. CASE WriteManifest(p)
  <2>1. manifest' = pending[p] /\ Replaces(p) /\ stage[p] = "write"
    BY <1>5 DEF WriteManifest, Core
  <2>2. CASE Doing(p, "resolve")
    <3>1. Id(p) \in resolved /\ manifest' = [manifest EXCEPT ![Id(p)] = <<>>]
      BY <2>1, <2>2 DEF Replaces
    <3>2. Ids(manifest') = Ids(manifest) \ {Id(p)}
      BY <1>0, <1>3, <3>1, Dropped
    <3>3. QED
      BY <3>1, <3>2
  <2>3. CASE Doing(p, "prune")
    <3>1. manifest' = Kept(manifest) /\ ClosedIn(manifest) \subseteq resolved
      BY <2>1, <2>3 DEF Replaces
    <3>2. Ids(manifest') = ActiveIn(manifest)
      BY <1>0, <3>1, KeptActive
    <3>3. QED
      BY <3>1, <3>2 DEF ClosedIn
  <2>4. QED
    BY <2>1, <2>2, <2>3, Busy
<1>6. QED
  BY <1>2, <1>4, <1>5

\* No signal goes dark: what a heal or a prune takes out of the active manifest
\* was archived before, wherever a process is killed.
THEOREM NothingGoesDark == ASSUME Alone PROVE SignalSpec => NothingDark
<1>1. Core /\ [SignalNext]_signalVars =>
         [\A s \in Ids(manifest) \ Ids(manifest') : s \in resolved]_signalVars
  BY RowsLeave
<1>2. QED
  BY <1>1, CoreAlways, PTL DEF SignalSpec, NothingDark
-----------------------------------------------------------------------------
(* The two surfaces agree *)

LEMMA Untouched ==
    ASSUME NEW s \in Signal, NEW p \in Process, Others(p), ~On(p, s), ~On(p, s)',
           lineage'[s] = lineage[s],
           s \in Ids(manifest') <=> s \in Ids(manifest),
           s \in ActiveIn(manifest') <=> s \in ActiveIn(manifest)
    PROVE  (Tracks(s) => Tracks(s)') /\ (Follows(s) => Follows(s)')
<1>1. \A q \in Process : On(q, s)' <=> On(q, s)
  BY DEF Others, On, Free, Doing, Id
<1>2. \A q \in Process : stage'[q] = stage[q] \/ ~On(q, s)
  BY DEF Others
<1>3. \A q \in Process, name \in {"emit", "settle"}, place \in {"daily", "row"} :
         Amid(q, name, s, place)' <=> Amid(q, name, s, place)
  BY NothingToDo DEF Amid, On, Others, Free, Doing, Id
<1>4. \A q \in Process : Doing(q, "settle")' /\ Id(q)' = s => Doing(q, "settle") /\ Id(q) = s
  BY NothingToDo DEF On, Others, Free, Doing, Id
<1>5. s \in ClosedIn(manifest') <=> s \in ClosedIn(manifest)
  BY DEF ClosedIn
<1>6. Tracks(s) => Tracks(s)'
  BY <1>3, <1>4, <1>5 DEF Tracks
<1>7. Follows(s) => Follows(s)'
  BY <1>1, <1>2, <1>5 DEF Follows
<1>8. QED
  BY <1>6, <1>7

LEMMA AgreeInit == SignalInit => Agree
<1> SUFFICES ASSUME SignalInit PROVE Agree
  OBVIOUS
<1>1. /\ \A p \in Process : Free(p) /\ task[p].do = "none"
      /\ Ids(manifest) = {} /\ ActiveIn(manifest) = {} /\ ClosedIn(manifest) = {}
  BY SignalNulls, NothingToDo DEF SignalInit, Free, ClosedIn
<1>2. \A s \in Signal : lineage[s] = "none"
  BY DEF SignalInit
<1>3. \A s \in Signal : Tracks(s)
  BY <1>1, <1>2 DEF Tracks, Amid, Doing
<1>4. \A s \in Signal : Follows(s)
  BY <1>1, <1>2 DEF Follows, On
<1>5. QED
  BY <1>3, <1>4, SignalAssumption DEF Agree

\* A step of p on one signal, and what it does to that one.
LEMMA AgreeKept ==
    ASSUME Agree, NEW p \in Process, Others(p), NEW s \in Signal,
           \A t \in Signal \ {s} :
               /\ ~On(p, t) /\ ~On(p, t)' /\ lineage'[t] = lineage[t]
               /\ t \in Ids(manifest') <=> t \in Ids(manifest)
               /\ t \in ActiveIn(manifest') <=> t \in ActiveIn(manifest),
           s \in Signal \ Audited => Tracks(s)',
           s \in Audited => Follows(s)'
    PROVE  Agree'
<1>1. \A t \in Signal \ {s} : (Tracks(t) => Tracks(t)') /\ (Follows(t) => Follows(t)')
  BY Untouched
<1>2. QED
  BY <1>1, SignalAssumption DEF Agree

LEMMA AgreeStart ==
    ASSUME Alone, Core, Agree, NEW p \in Process, NEW s \in Signal,
           Emit(p, s) \/ Audit(p, s) \/ Resolve(p, s) \/ Reaffirm(p, s) \/ Settle(p, s)
    PROVE  Agree'
<1>1. PICK name \in {"emit", "audit", "resolve", "reaffirm", "settle"} :
          /\ Start(p, name, s, "daily")
          /\ name = "emit" => s \notin Ids(manifest)
          /\ name = "settle" => s \in Ids(manifest)
          /\ name \in {"emit", "settle"} => s \in Signal \ Audited
          /\ name \in {"audit", "resolve", "reaffirm"} => s \in Audited
  BY SignalAssumption DEF Emit, Audit, Resolve, Reaffirm, Settle, ActiveIn, Ids, Known
<1>2. /\ task'[p] = [do |-> name, id |-> s] /\ stage'[p] = "daily" /\ Others(p)
      /\ UNCHANGED <<manifest, lineage>> /\ Free(p)
  BY <1>1 DEF Start, Core, SignalTypeOK, Others, surfaces
<1>3. \A t \in Signal \ {s} : ~On(p, t) /\ ~On(p, t)'
  BY <1>2 DEF On, Id
<1>4. ASSUME s \in Signal \ Audited
      PROVE  Tracks(s)'
  <2>1. name \in {"emit", "settle"} /\ Tracks(s)
    BY <1>1, <1>4 DEF Agree
  <2>2. \A q \in Process, nm \in {"emit", "settle"} :
            Amid(q, nm, s, "row")' <=> Amid(q, nm, s, "row")
    BY <1>2, NothingToDo DEF Amid, Others, Doing, Id, Free
  <2>3. \A q \in Process : Amid(q, "emit", s, "daily")' =>
            Amid(q, "emit", s, "daily") \/ name = "emit"
    BY <1>2 DEF Amid, Others, Doing, Id
  <2>4. \A q \in Process : Doing(q, "settle")' /\ Id(q)' = s =>
            (Doing(q, "settle") /\ Id(q) = s) \/ name = "settle"
    BY <1>2 DEF Others, Doing, Id
  <2>5. name = "emit" => \A q \in Process : ~Amid(q, "settle", s, "row")
    BY <1>1, <2>1 DEF Tracks, Amid
  <2>6. QED
    BY <1>1, <1>2, <2>1, <2>2, <2>3, <2>4, <2>5 DEF Tracks, ClosedIn
<1>5. ASSUME s \in Audited
      PROVE  Follows(s)'
  <2>1. Follows(s)
    BY <1>5 DEF Agree
  <2>2. \A q \in Process \ {p} : On(q, s)' <=> On(q, s)
    BY <1>2 DEF On, Others, Free, Doing, Id
  <2>3. ~On(p, s)
    BY <1>2 DEF On
  <2>4. \A q \in Process \ {p} : stage'[q] = stage[q]
    BY <1>2 DEF Others
  <2>5. QED
    BY <1>2, <2>1, <2>2, <2>3, <2>4 DEF Follows
<1>6. QED
  BY <1>2, <1>3, <1>4, <1>5, AgreeKept

LEMMA AgreeDaily ==
    ASSUME Core, Agree, NEW p \in Process, AppendDaily(p)
    PROVE  Agree'
<1>0. SignalTypeOK /\ Shape(p) /\ stage[p] = "daily" /\ Id(p) \in Signal
  BY DEF Core, AppendDaily, SignalTypeOK, Id
<1>s. PICK s \in Signal : s = Id(p)
  BY <1>0
<1>1. ~Free(p) /\ ~Doing(p, "prune") /\ ~Doing(p, "none")
  BY <1>s, <1>0, NothingToDo DEF Shape, Free, Doing
<1>2. /\ lineage' = [lineage EXCEPT ![s] = StatusOf(task[p].do)]
      /\ stage'[p] = Then(task[p].do) /\ UNCHANGED <<task, manifest>> /\ Others(p)
      /\ \A q \in Process \ {p} : ~HoldsDaily(q)
  BY <1>s, <1>0 DEF AppendDaily, Goto, Others, SignalTypeOK, DailyFree
<1>3. \A t \in Signal \ {s} : ~On(p, t) /\ ~On(p, t)' /\ lineage'[t] = lineage[t]
  BY <1>s, <1>0, <1>2 DEF On, Id, SignalTypeOK
<1>4. lineage'[s] = StatusOf(task[p].do)
  BY <1>s, <1>0, <1>2 DEF SignalTypeOK
<1>a. \A q \in Process \ {p} : ~Amid(q, "emit", s, "daily")
  BY <1>s, <1>2 DEF Amid, HoldsDaily
<1>5. ASSUME s \in Signal \ Audited
      PROVE  Tracks(s)'
  <2>1. Tracks(s)
    BY <1>s, <1>5 DEF Agree
  <2>2. Doing(p, "emit") \/ Doing(p, "settle")
    BY <1>s, <1>0, <1>1, <1>5 DEF Shape, Free
  <2>3. stage'[p] = "row" /\ \A q \in Process : ~Amid(q, "emit", s, "daily")'
    BY <1>s, <1>2, <1>a, <2>2 DEF Then, Others, Amid, Doing, Id
  <2>4. \A q \in Process : Doing(q, "settle")' /\ Id(q)' = s => Doing(q, "settle") /\ Id(q) = s
    BY <1>s, <1>2 DEF Doing, Id
  <2>5. CASE Doing(p, "emit")
    <3>1. lineage'[s] = "active" /\ Amid(p, "emit", s, "row")' /\ Amid(p, "emit", s, "daily")
      BY <1>s, <1>0, <1>2, <1>4, <2>3, <2>5 DEF StatusOf, Amid, Doing, Id
    <3>2. \A q \in Process : ~Amid(q, "settle", s, "row")'
      BY <1>s, <1>2, <2>1, <2>5, <3>1 DEF Tracks, Amid, Doing, Id, Others
    <3>3. s \notin ClosedIn(manifest)
      BY <1>s, <2>1, <3>1 DEF Tracks
    <3>4. QED
      BY <1>s, <1>2, <2>1, <2>3, <2>4, <3>1, <3>2, <3>3 DEF Tracks
  <2>6. CASE Doing(p, "settle")
    <3>1. /\ lineage'[s] = "resolved" /\ Amid(p, "settle", s, "row")'
          /\ s \in Ids(manifest)
      BY <1>s, <1>2, <1>4, <2>1, <2>3, <2>6 DEF StatusOf, Amid, Doing, Id, Tracks
    <3>2. QED
      BY <1>s, <1>2, <2>1, <2>3, <2>4, <3>1 DEF Tracks
  <2>7. QED
    BY <1>s, <2>2, <2>5, <2>6
<1>6. ASSUME s \in Audited
      PROVE  Follows(s)'
  <2>1. Follows(s)
    BY <1>s, <1>6 DEF Agree
  <2>2. Doing(p, "audit") \/ Doing(p, "reaffirm") \/ Doing(p, "resolve")
    BY <1>s, <1>0, <1>1, <1>6 DEF Shape, Free
  <2>3. On(p, s)' /\ \A q \in Process \ {p} : ~On(q, s)'
    BY <1>s, <1>1, <1>2, <1>6 DEF On, Core, OneAudit, Free, Doing, Id
  <2>4. /\ stage'[p] \in {"row", "archive"}
        /\ lineage'[s] = IF stage'[p] = "row" THEN "active" ELSE "resolved"
    BY <1>s, <1>2, <1>4, <2>2 DEF Then, StatusOf, Doing
  <2>5. QED
    BY <1>s, <1>2, <2>1, <2>3, <2>4 DEF Follows
<1>7. QED
  BY <1>s, <1>0, <1>2, <1>3, <1>5, <1>6, AgreeKept

LEMMA AgreeRow ==
    ASSUME Core, Agree, NEW p \in Process, AppendRow(p)
    PROVE  Agree'
<1>0. /\ SignalTypeOK /\ Shape(p) /\ stage[p] = "row" /\ Id(p) \in Signal
      /\ manifest \in Manifest
  BY SignalTypes DEF Core, AppendRow, SignalTypeOK, Id
<1>s. PICK s \in Signal, name \in Task : s = Id(p) /\ name = task[p].do
  BY <1>0 DEF SignalTypeOK
<1>1. ~Free(p) /\ name \in {"emit", "settle", "audit", "reaffirm"}
  BY <1>s, <1>0, NothingToDo DEF Shape, Free, Doing
<1>2. /\ task'[p] = NoTask /\ stage'[p] = "start" /\ UNCHANGED lineage /\ Others(p)
      /\ manifest' = IF Appends(name, s)
                        THEN [manifest EXCEPT ![s] = Append(@, StatusOf(name))] ELSE manifest
  BY <1>s, <1>0 DEF AppendRow, Leave, Others, SignalTypeOK
<1>3. \A t \in Signal : ~On(p, t)' /\ (t # s => ~On(p, t))
  BY <1>s, <1>2 DEF On, Free
<1>4. StatusOf(name) = IF name = "settle" THEN "resolved" ELSE "active"
  BY <1>s, <1>1 DEF StatusOf
<1>5. \A t \in Signal \ {s} :
         /\ t \in Ids(manifest') <=> t \in Ids(manifest)
         /\ t \in ActiveIn(manifest') <=> t \in ActiveIn(manifest)
  BY <1>s, <1>0, <1>2, <1>4, Appended
<1>6. s \in Ids(manifest')
  BY <1>s, <1>0, <1>2, <1>4, Appended DEF Appends
<1>7. \/ s \in Ids(manifest) /\ UNCHANGED manifest /\ name \in {"emit", "audit"}
      \/ s \in ActiveIn(manifest') <=> name # "settle"
  BY <1>s, <1>0, <1>1, <1>2, <1>4, Appended DEF Appends
<1>a. \A q \in Process, nm \in {"emit", "settle"}, place \in {"daily", "row"} :
         Amid(q, nm, s, place)' <=> Amid(q, nm, s, place) /\ q # p
  BY <1>s, <1>2, NothingToDo DEF Amid, Others, Doing, Id
<1>8. ASSUME s \in Signal \ Audited
      PROVE  Tracks(s)'
  <2>1. Tracks(s) /\ name \in {"emit", "settle"}
    BY <1>s, <1>0, <1>1, <1>8 DEF Agree, Shape, Free, Doing
  <2>2. CASE name = "settle"
    <3>1. /\ s \in ClosedIn(manifest') /\ s \notin ActiveIn(manifest')
          /\ Amid(p, "settle", s, "row")
      BY <1>s, <1>0, <1>6, <1>7, <2>2 DEF ClosedIn, Amid, Doing
    <3>2. lineage'[s] = "resolved" /\ \A q \in Process : ~Amid(q, "emit", s, "daily")'
      BY <1>s, <1>2, <1>a, <2>1, <3>1 DEF Tracks
    <3>3. QED
      BY <1>s, <1>6, <1>a, <3>1, <3>2 DEF Tracks
  <2>3. CASE name = "emit" /\ s \in Ids(manifest) /\ UNCHANGED manifest
    <3>1. \A q \in Process : Amid(q, "settle", s, "row")' <=> Amid(q, "settle", s, "row")
      BY <1>s, <1>a, <2>3 DEF Amid, Doing
    <3>2. QED
      BY <1>2, <1>6, <1>a, <2>1, <2>3, <3>1 DEF Tracks
  <2>4. CASE name = "emit" /\ s \notin Ids(manifest)
    <3>1. Amid(p, "emit", s, "row") /\ s \in ActiveIn(manifest')
      BY <1>s, <1>0, <1>7, <2>4 DEF Amid, Doing
    <3>2. lineage'[s] = "active" /\ s \notin ClosedIn(manifest')
      BY <1>s, <1>2, <2>1, <2>4, <3>1 DEF Tracks, ClosedIn
    <3>3. \A q \in Process : ~Amid(q, "settle", s, "row")'
      BY <1>s, <1>a, <2>1, <2>4 DEF Tracks, Amid
    <3>4. QED
      BY <1>s, <1>6, <3>1, <3>2, <3>3 DEF Tracks
  <2>5. QED
    BY <1>s, <1>2, <2>1, <2>2, <2>3, <2>4 DEF Appends
<1>9. ASSUME s \in Audited
      PROVE  Follows(s)'
  <2>1. Follows(s) /\ name \in {"audit", "reaffirm"}
    BY <1>s, <1>0, <1>1, <1>9 DEF Agree, Shape, Free, Doing
  <2>2. On(p, s) /\ \A q \in Process : ~On(q, s)'
    BY <1>s, <1>1, <1>2, <1>9, <2>1 DEF On, Core, OneAudit, Others, Free, Doing, Id
  <2>3. lineage'[s] = "active"
    BY <1>s, <1>0, <1>2, <2>1, <2>2 DEF Follows
  <2>4. s \notin ClosedIn(manifest')
    BY <1>s, <1>7, <2>1 DEF Follows, ClosedIn
  <2>5. QED
    BY <1>s, <1>6, <2>2, <2>3, <2>4 DEF Follows
<1>10. QED
  <2>1. \A t \in Signal \ {s} :
            /\ ~On(p, t) /\ ~On(p, t)' /\ lineage'[t] = lineage[t]
            /\ t \in Ids(manifest') <=> t \in Ids(manifest)
            /\ t \in ActiveIn(manifest') <=> t \in ActiveIn(manifest)
    <3>1. lineage' = lineage
      BY <1>2
    <3>2. \A t \in Signal \ {s} : ~On(p, t) /\ ~On(p, t)'
      BY <1>3
    <3>3. QED
      BY <1>5, <3>1, <3>2
  <2>2. Others(p) /\ (s \in Signal \ Audited => Tracks(s)') /\ (s \in Audited => Follows(s)')
    BY <1>2, <1>8, <1>9
  <2>3. QED
    BY <2>1, <2>2, AgreeKept

LEMMA AgreeHeal ==
    ASSUME Core, Agree, NEW p \in Process, AppendArchive(p) \/ ReadManifest(p)
    PROVE  Agree'
<1>0. SignalTypeOK /\ Shape(p) /\ Id(p) \in Signal /\ stage[p] \in {"archive", "read"}
  BY DEF Core, AppendArchive, ReadManifest, SignalTypeOK, Id
<1>s. PICK s \in Signal : s = Id(p)
  BY <1>0
<1>1. Doing(p, "resolve") /\ s \in Audited /\ On(p, s)
  BY <1>s, <1>0, NothingToDo DEF Shape, Doing, On, Free
<1>2. Follows(s) /\ lineage[s] = "resolved" /\ \A q \in Process \ {p} : ~On(q, s)
  BY <1>s, <1>0, <1>1 DEF Agree, Follows, Core, OneAudit, On
<1>3. UNCHANGED <<lineage, manifest>> /\ Others(p)
  BY <1>s, <1>0 DEF AppendArchive, ReadManifest, Goto, Leave, Others, SignalTypeOK, surfaces
<1>4. \/ UNCHANGED task /\ stage'[p] \in {"read", "write"}
      \/ task'[p] = NoTask /\ s \notin Ids(manifest)
  BY <1>s, <1>0 DEF AppendArchive, ReadManifest, Goto, Leave, SignalTypeOK
<1>5. \A t \in Signal \ {s} : ~On(p, t) /\ ~On(p, t)'
  BY <1>s, <1>4 DEF On, Free, Id
<1>6. \A q \in Process \ {p} : ~On(q, s)'
  BY <1>s, <1>2, <1>3 DEF Others, On, Free, Doing, Id
<1>7. Follows(s)'
  <2>1. CASE UNCHANGED task /\ stage'[p] \in {"read", "write"}
    <3>1. On(p, s)'
      BY <1>s, <1>1, <2>1 DEF On, Free, Doing, Id
    <3>2. QED
      BY <1>s, <1>2, <1>3, <1>6, <2>1, <3>1 DEF Follows
  <2>2. CASE task'[p] = NoTask /\ s \notin Ids(manifest)
    <3>1. ~On(p, s)'
      BY <1>s, <2>2 DEF On, Free
    <3>2. QED
      BY <1>s, <1>2, <1>3, <1>6, <2>2, <3>1 DEF Follows
  <2>3. QED
    BY <1>s, <1>4, <2>1, <2>2
<1>8. QED
  BY <1>s, <1>0, <1>1, <1>3, <1>5, <1>7, AgreeKept

LEMMA AgreeWrite ==
    ASSUME Core, Agree, NEW p \in Process, WriteManifest(p)
    PROVE  Agree'
<1>0. /\ SignalTypeOK /\ manifest \in Manifest /\ Shape(p) /\ Replaces(p)
      /\ stage[p] = "write" /\ Id(p) \in Signal
  BY SignalTypes DEF Core, WriteManifest, SignalTypeOK, Id
<1>1. /\ manifest' = pending[p] /\ UNCHANGED lineage /\ task'[p] = NoTask /\ Others(p)
  BY <1>0 DEF WriteManifest, Leave, Others, SignalTypeOK
<1>2. \A t \in Signal : ~On(p, t)'
  BY <1>1 DEF On, Free
<1>3. CASE Doing(p, "resolve")
  <2>s. PICK s \in Signal : s = Id(p)
    BY <1>0
  <2>1. manifest' = [manifest EXCEPT ![s] = <<>>] /\ s \in Audited /\ On(p, s)
    BY <2>s, <1>0, <1>1, <1>3, NothingToDo DEF Replaces, Shape, Doing, On, Free
  <2>2. Follows(s) /\ lineage[s] = "resolved" /\ \A q \in Process \ {p} : ~On(q, s)
    BY <2>s, <1>0, <2>1 DEF Agree, Follows, Core, OneAudit, On
  <2>3. \A q \in Process : ~On(q, s)'
    BY <2>s, <1>1, <1>2, <2>1, <2>2 DEF Others, On, Free, Doing, Id
  <2>4. Ids(manifest') = Ids(manifest) \ {s} /\ ActiveIn(manifest') = ActiveIn(manifest) \ {s}
    BY <2>s, <1>0, <2>1, Dropped
  <2>5. Follows(s)'
    <3>1. s \notin Ids(manifest') /\ s \notin ClosedIn(manifest')
      BY <2>4 DEF ClosedIn
    <3>2. lineage'[s] # "active"
      BY <1>1, <2>2
    <3>3. QED
      BY <2>3, <3>1, <3>2 DEF Follows
  <2>6. \A t \in Signal \ {s} : ~On(p, t)
    BY <2>s DEF On
  <2>7. QED
    BY <2>s, <1>0, <1>1, <1>2, <2>1, <2>4, <2>5, <2>6, AgreeKept
<1>4. CASE Doing(p, "prune")
  <2>1. manifest' = Kept(manifest) /\ \A q \in Process \ {p} : Free(q)
    BY <1>0, <1>1, <1>4 DEF Replaces, Shape, Doing, NoTask
  <2>2. \A q \in Process : ~On(q, Id(p))' /\ task'[q].do = "none"
    BY <1>1, <2>1, NothingToDo DEF On, Others, Free
  <2>3. Ids(manifest') = ActiveIn(manifest) /\ ActiveIn(manifest') = ActiveIn(manifest)
    BY <1>0, <2>1, KeptActive
  <2>4. \A q \in Process, t \in Signal : ~On(q, t) /\ ~On(q, t)'
    BY <1>1, <1>2, <1>4, <2>1 DEF On, Others, Free
  <2>5. ASSUME NEW t \in Signal \ Audited
        PROVE  Tracks(t)'
    <3>1. Tracks(t) /\ \A q \in Process, nm \in {"emit", "settle"}, place \in {"daily", "row"} :
             ~Amid(q, nm, t, place)
      BY <1>4, <2>1, NothingToDo DEF Agree, Amid, Free, Doing
    <3>2. lineage[t] = "active" <=> t \in ActiveIn(manifest)
      BY <3>1 DEF Tracks, ClosedIn
    <3>3. QED
      BY <1>1, <2>2, <2>3, <3>2 DEF Tracks, Amid, Doing, ClosedIn
  <2>6. ASSUME NEW t \in Audited
        PROVE  Follows(t)'
    <3>1. Follows(t) /\ t \in Signal
      BY SignalAssumption DEF Agree
    <3>2. t \in Ids(manifest') <=> t \in Ids(manifest)
      BY <2>3, <3>1 DEF Follows, ClosedIn, ActiveIn
    <3>3. QED
      BY <1>1, <2>3, <2>4, <3>1, <3>2, Untouched
  <2>7. QED
    BY <2>5, <2>6 DEF Agree
<1>5. QED
  BY <1>0, <1>3, <1>4, Busy

LEMMA SignalInvStep == ASSUME Alone PROVE SignalInv /\ [SignalNext]_signalVars => SignalInv'
<1> SUFFICES ASSUME Alone, SignalInv, [SignalNext]_signalVars PROVE SignalInv'
  OBVIOUS
<1>0. Core /\ Core' /\ SignalTypeOK
  BY CoreStep DEF SignalInv, Core
<1> SUFFICES ASSUME crashes' = 0 PROVE Agree'
  BY <1>0 DEF SignalInv
<1>1. ASSUME NEW p \in Process, Crash(p)
      PROVE  FALSE
  BY <1>0, <1>1, SignalAssumption DEF Crash, SignalTypeOK
<1>2. crashes = 0 => Agree
  BY DEF SignalInv
<1>3. CASE NextDay \/ UNCHANGED signalVars
  <2>1. UNCHANGED <<lineage, manifest, task, stage, crashes>>
    BY <1>3 DEF NextDay, signalVars
  <2>2. QED
    BY <1>2, <2>1 DEF Agree, Tracks, Follows, On, Amid, Free, Doing, Id
<1>4. ASSUME NEW p \in Process, NEW s \in Signal,
             Emit(p, s) \/ Audit(p, s) \/ Resolve(p, s) \/ Reaffirm(p, s) \/ Settle(p, s)
      PROVE  Agree'
  <2>1. crashes' = crashes
    BY <1>4 DEF Emit, Audit, Resolve, Reaffirm, Settle, Start
  <2>2. QED
    BY <1>0, <1>2, <1>4, <2>1, AgreeStart
<1>5. ASSUME NEW p \in Process, PruneManifest(p)
      PROVE  Agree'
  <2>1. UNCHANGED <<lineage, manifest, crashes>> /\ Others(p)
    BY <1>0, <1>5 DEF PruneManifest, Others, SignalTypeOK
  <2>2. \A s \in Signal : ~On(p, s) /\ ~On(p, s)'
    BY <1>0, <1>5 DEF PruneManifest, On, Doing, SignalTypeOK
  <2>3. \A s \in Signal : (Tracks(s) => Tracks(s)') /\ (Follows(s) => Follows(s)')
    BY <2>1, <2>2, Untouched
  <2>4. QED
    BY <1>2, <2>1, <2>3, SignalAssumption DEF Agree
<1>6. ASSUME NEW p \in Process, Work(p)
      PROVE  Agree'
  <2>1. crashes' = crashes
    BY <1>6 DEF Work, AppendDaily, AppendRow, AppendArchive, ReadManifest, WriteManifest
  <2>2. QED
    BY <1>0, <1>2, <1>6, <2>1, AgreeDaily, AgreeRow, AgreeHeal, AgreeWrite DEF Work
<1>7. QED
  BY <1>1, <1>3, <1>4, <1>5, <1>6 DEF SignalNext

\* Without kills, and with the emitters, heals and prunes in the order their
\* schedule gives them, the manifest readers trust and the daily lineage say the
\* same of every signal whenever no operation is under way.
THEOREM SurfacesAgree == ASSUME Alone PROVE SignalSpec => []DualSurface
<1>1. SignalInit => SignalInv
  BY CoreInit, AgreeInit DEF SignalInv
<1>2. SignalInv => DualSurface
  <2> SUFFICES ASSUME SignalInv, crashes = 0,
                      \A p \in Process : Free(p) \/ Doing(p, "prune"), NEW s \in Signal
               PROVE  s \in ActiveIn(manifest) <=> lineage[s] = "active"
    BY DEF DualSurface, ActiveIn, Ids
  <2>1. \A q \in Process, t \in Signal : ~On(q, t)
    BY DEF On
  <2>2. \A q \in Process, nm \in {"emit", "settle"}, place \in {"daily", "row"} :
           ~Amid(q, nm, s, place)
    BY NothingToDo DEF Amid, Free, Doing
  <2>3. CASE s \in Audited
    BY <2>1, <2>3 DEF SignalInv, Agree, Follows, ClosedIn, ActiveIn
  <2>4. CASE s \notin Audited
    BY <2>2, <2>4 DEF SignalInv, Agree, Tracks, ClosedIn
  <2>5. QED
    BY <2>3, <2>4
<1>3. QED
  BY <1>1, <1>2, SignalInvStep, PTL DEF SignalSpec
=============================================================================
