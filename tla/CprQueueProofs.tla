---------------------------- MODULE CprQueueProofs ----------------------------
(***************************************************************************)
(* TLAPS proofs about CprQueue, for every set of candidates and processes  *)
(* and every bound.                                                        *)
(***************************************************************************)
EXTENDS CprQueue, TLAPS

-----------------------------------------------------------------------------
(* The plans a process goes through *)

Append1 == <<"append">>
Gather2 == <<"gather", "append">>
Scan3 == <<"scan", "gather", "append">>
Holding4 == <<"holding", "scan", "gather", "append">>
Write5 == <<"write", "holding", "scan", "gather", "append">>
Lock6 == <<"lock", "write", "holding", "scan", "gather", "append">>
Gate7 == <<"gate", "lock", "write", "holding", "scan", "gather", "append">>
Birth8 == <<"birth", "gate", "lock", "write", "holding", "scan", "gather", "append">>
Boot9 == <<"extract", "birth", "gate", "lock", "write", "holding",
           "scan", "gather", "append">>
Mint1 == <<"birth">>
ReadPut == <<"read", "put">>
Put1 == <<"put">>
PutFlip == <<"put", "flip">>
Flip1 == <<"flip">>

Plan == {<<>>, Append1, Gather2, Scan3, Holding4, Write5, Lock6, Gate7, Birth8, Boot9,
         Mint1, ReadPut, Put1, Landing, PutFlip, Flip1}

LEMMA PlanHeads ==
    /\ Append1 # <<>> /\ Head(Append1) = "append"
    /\ Gather2 # <<>> /\ Head(Gather2) = "gather"
    /\ Scan3 # <<>> /\ Head(Scan3) = "scan"
    /\ Holding4 # <<>> /\ Head(Holding4) = "holding"
    /\ Write5 # <<>> /\ Head(Write5) = "write"
    /\ Lock6 # <<>> /\ Head(Lock6) = "lock"
    /\ Gate7 # <<>> /\ Head(Gate7) = "gate"
    /\ Birth8 # <<>> /\ Head(Birth8) = "birth"
    /\ Boot9 # <<>> /\ Head(Boot9) = "extract"
    /\ Mint1 # <<>> /\ Head(Mint1) = "birth"
    /\ ReadPut # <<>> /\ Head(ReadPut) = "read"
    /\ Put1 # <<>> /\ Head(Put1) = "put"
    /\ Landing # <<>> /\ Head(Landing) = "read"
    /\ PutFlip # <<>> /\ Head(PutFlip) = "put"
    /\ Flip1 # <<>> /\ Head(Flip1) = "flip"
BY DEF Append1, Gather2, Scan3, Holding4, Write5, Lock6, Gate7, Birth8, Boot9,
       Mint1, ReadPut, Put1, Landing, PutFlip, Flip1

LEMMA PlanTails ==
    /\ Tail(Append1) = <<>> /\ Tail(Gather2) = Append1 /\ Tail(Scan3) = Gather2
    /\ Tail(Holding4) = Scan3 /\ Tail(Write5) = Holding4 /\ Tail(Lock6) = Write5
    /\ Tail(Gate7) = Lock6 /\ Tail(Birth8) = Gate7 /\ Tail(Boot9) = Birth8
    /\ Tail(Mint1) = <<>> /\ Tail(ReadPut) = Put1 /\ Tail(Put1) = <<>>
    /\ Tail(Landing) = PutFlip /\ Tail(PutFlip) = Flip1 /\ Tail(Flip1) = <<>>
    /\ Len(PutFlip) = 2
BY DEF Append1, Gather2, Scan3, Holding4, Write5, Lock6, Gate7, Birth8, Boot9,
       Mint1, ReadPut, Put1, Landing, PutFlip, Flip1

\* What a process at a step is still to do.
LEMMA PlanSteps ==
    ASSUME NEW s \in Plan, s # <<>>
    PROVE  /\ Tail(s) \in Plan
           /\ Head(s) = "append" => s = Append1
           /\ Head(s) = "gather" => s = Gather2
           /\ Head(s) = "scan" => s = Scan3
           /\ Head(s) = "holding" => s = Holding4
           /\ Head(s) = "write" => s = Write5
           /\ Head(s) = "lock" => s = Lock6
           /\ Head(s) = "gate" => s = Gate7
           /\ Head(s) = "birth" => s \in {Birth8, Mint1}
           /\ Head(s) = "extract" => s = Boot9
           /\ Head(s) = "read" => s \in {ReadPut, Landing}
           /\ Head(s) = "put" => s \in {Put1, PutFlip}
           /\ Head(s) = "flip" => s = Flip1
BY PlanHeads, PlanTails DEF Plan

-----------------------------------------------------------------------------
(* Types *)

LEMMA Nulls ==
    /\ NoRow \in Row /\ Thin \in Row /\ NoTask \in Task
    /\ \A s \in Status : Born(s) \in Row
<1>1. 0 \in 0..MaxText /\ 1 \in 0..MaxText
  BY QueueAssumption
<1>2. Task # {}
  <2>1. PICK i \in Id : TRUE
    BY QueueAssumption
  <2>2. [id |-> i, to |-> "promoted", text |-> 0, typed |-> FALSE] \in Task
    BY <1>1 DEF Task, Status, HardTerminal
  <2>3. QED
    BY <2>2
<1>3. NoTask \in Task
  BY <1>2 DEF NoTask
<1>4. QED
  BY <1>1, <1>3 DEF NoRow, Thin, Born, Row, Status, Holding, HardTerminal

LEMMA RowUpdates ==
    ASSUME NEW r \in Row
    PROVE  /\ \A s \in Status : [r EXCEPT !.status = s] \in Row
           /\ [r EXCEPT !.enriched = TRUE] \in Row
BY DEF Row

LEMMA AppendType ==
    ASSUME TypeOK, NEW i \in Id, NEW r \in Row, Append_(i, r)
    PROVE  row' \in [Id -> Row] /\ body' \in [Id -> 0..MaxText]
BY DEF TypeOK, Append_, Row

LEMMA ComposedType ==
    ASSUME TypeOK, NEW t \in Task
    PROVE  Composed(t) \in Row
<1>1. t.id \in Id /\ t.to \in Status /\ t.text \in 0..MaxText
  BY DEF Task
<1>2. CASE t.typed
  <2>1. EventText(t, body[t.id]) \in 0..MaxText
    BY <1>1 DEF TypeOK, EventText, Text
  <2>2. QED
    BY <1>1, <1>2, <2>1 DEF Composed, Row
<1>3. CASE ~t.typed
  BY <1>1, <1>3, RowUpdates DEF TypeOK, Composed
<1>4. QED
  BY <1>2, <1>3

LEMMA LetGoType ==
    ASSUME TypeOK, NEW p \in Process, LetGo(p)
    PROVE  seen' \in [Process -> [Id -> Row]] /\ task' \in [Process -> Task]
BY Nulls DEF TypeOK, LetGo

LEMMA HistoryType ==
    ASSUME TypeOK, NEW p \in Process,
           \/ UNCHANGED history \/ Looks(p)
           \/ \E ids \in SUBSET Id : Overtakes(p, ids)
    PROVE  behind' \in [Process -> SUBSET Id] /\ promoted' \subseteq Id
<1>1. CASE UNCHANGED history
  BY <1>1 DEF TypeOK, history
<1>2. CASE Looks(p)
  BY <1>2 DEF TypeOK, Looks
<1>3. ASSUME NEW ids \in SUBSET Id, Overtakes(p, ids)
      PROVE  behind' \in [Process -> SUBSET Id] /\ promoted' \subseteq Id
  BY <1>3 DEF TypeOK, Overtakes
<1>4. QED
  BY <1>1, <1>2, <1>3

LEMMA StepHistory ==
    ASSUME TypeOK, NEW p \in Process,
           \/ Work(p) \/ Crash(p) \/ Boot(p) \/ Enrich(p)
           \/ \E i \in Id : Ingest(p, i)
           \/ \E i \in Id, to \in Status : Step(p, i, to)
           \/ \E i \in Id, to \in Status, text \in 0..MaxText, typed \in BOOLEAN :
                 Verdict(p, i, to, text, typed)
    PROVE  /\ flock' = flock
           /\ behind' \in [Process -> SUBSET Id] /\ promoted' \subseteq Id
<1> USE DEF fixed
<1>1. CASE \/ Boot(p) \/ Enrich(p)
           \/ \E i \in Id : Ingest(p, i)
           \/ \E i \in Id, to \in Status : Step(p, i, to)
           \/ \E i \in Id, to \in Status, text \in 0..MaxText, typed \in BOOLEAN :
                 Verdict(p, i, to, text, typed)
  BY <1>1, HistoryType DEF Boot, Enrich, Ingest, Step, Verdict, Begin
<1>2. CASE Extract(p) \/ GateRead(p) \/ GateLock(p) \/ CountHolding(p) \/ ScanRead(p)
  BY <1>2, HistoryType DEF Extract, GateRead, GateLock, CountHolding, ScanRead
<1>3. CASE Gather(p) \/ Flip(p) \/ Crash(p) \/ Read(p)
  BY <1>3, HistoryType DEF Gather, Flip, Crash, Read
<1>4. CASE Birth(p)
  <2>1. \A i \in left[p] : {i} \in SUBSET Id
    BY DEF TypeOK
  <2>2. UNCHANGED history \/ \E i \in left[p] : Overtakes(p, {i})
    BY <1>4 DEF Birth
  <2>3. QED
    BY <1>4, <2>1, <2>2, HistoryType DEF Birth
<1>5. CASE GateWrite(p)
  <2>1. left[p] \in SUBSET Id
    BY DEF TypeOK
  <2>2. QED
    BY <1>5, <2>1, HistoryType DEF GateWrite
<1>6. CASE ScanAppend(p)
  <2>1. \A i \in left[p] : {i} \in SUBSET Id
    BY DEF TypeOK
  <2>2. Looks(p) \/ \E i \in left[p] : Overtakes(p, {i})
    BY <1>6 DEF ScanAppend
  <2>3. QED
    BY <1>6, <2>1, <2>2, HistoryType DEF ScanAppend
<1>7. CASE Put(p)
  <2>1. {task[p].id} \in SUBSET Id
    BY DEF TypeOK, Task
  <2>2. QED
    BY <1>7, <2>1, HistoryType DEF Put
<1>8. QED
  BY <1>1, <1>2, <1>3, <1>4, <1>5, <1>6, <1>7 DEF Work

LEMMA InitTypes == Init => TypeOK
<1> SUFFICES ASSUME Init PROVE TypeOK
  OBVIOUS
<1>1. row \in [Id -> Row] /\ task \in [Process -> Task] /\ seen \in [Process -> [Id -> Row]]
  BY Nulls DEF Init
<1>2. body \in [Id -> 0..MaxText] /\ births \in [Id -> 0..2]
  BY QueueAssumption DEF Init
<1>3. QED
  BY <1>1, <1>2, QueueAssumption DEF Init, TypeOK

LEMMA StepTypes == TypeOK /\ [Next]_vars => TypeOK'
<1> SUFFICES ASSUME TypeOK, [Next]_vars PROVE TypeOK'
  OBVIOUS
<1>0. /\ flock' = flock
      /\ behind' \in [Process -> SUBSET Id] /\ promoted' \subseteq Id
  <2>1. CASE UNCHANGED vars
    BY <2>1 DEF vars, fixed, history, TypeOK
  <2>2. CASE Next
    BY <2>2, StepHistory DEF Next
  <2>3. QED
    BY <2>1, <2>2
<1> USE <1>0 DEF fixed
<1>1. ASSUME NEW p \in Process, Boot(p) \/ Enrich(p)
      PROVE  TypeOK'
  BY <1>1 DEF Boot, Enrich, Begin, TypeOK
<1>2. ASSUME NEW p \in Process, NEW i \in Id, Ingest(p, i)
      PROVE  TypeOK'
  BY <1>2 DEF Ingest, Begin, TypeOK
<1>3. ASSUME NEW p \in Process, NEW i \in Id, NEW to \in Status, Step(p, i, to)
      PROVE  TypeOK'
  <2>1. [id |-> i, to |-> to, text |-> 0, typed |-> FALSE] \in Task
    BY QueueAssumption DEF Task
  <2>2. QED
    BY <1>3, <2>1 DEF Step, Begin, TypeOK
<1>4. ASSUME NEW p \in Process, NEW i \in Id, NEW to \in Status, NEW text \in 0..MaxText,
             NEW typed \in BOOLEAN, Verdict(p, i, to, text, typed)
      PROVE  TypeOK'
  <2>1. [id |-> i, to |-> to, text |-> text, typed |-> typed] \in Task
    BY DEF Task
  <2>2. QED
    BY <1>4, <2>1 DEF Verdict, Begin, TypeOK
<1>5. ASSUME NEW p \in Process, Extract(p)
      PROVE  TypeOK'
  BY <1>5 DEF Extract, TypeOK
<1>6. ASSUME NEW p \in Process, Birth(p)
      PROVE  TypeOK'
  <2>1. CASE \E i \in left[p], s \in {"extracted", "enrichment_needed"} :
               /\ IF MayBeBorn(i)
                  THEN /\ Append_(i, Born(s))
                       /\ births' = [births EXCEPT ![i] = IF @ < 2 THEN @ + 1 ELSE @]
                  ELSE UNCHANGED <<row, body, births>>
               /\ left' = [left EXCEPT ![p] = @ \ {i}]
    <3>1. PICK i \in left[p], s \in {"extracted", "enrichment_needed"} :
               /\ IF MayBeBorn(i)
                  THEN /\ Append_(i, Born(s))
                       /\ births' = [births EXCEPT ![i] = IF @ < 2 THEN @ + 1 ELSE @]
                  ELSE UNCHANGED <<row, body, births>>
               /\ left' = [left EXCEPT ![p] = @ \ {i}]
      BY <2>1
    <3>2. i \in Id /\ Born(s) \in Row
      BY Nulls DEF TypeOK, Status, Holding
    <3>3. row' \in [Id -> Row] /\ body' \in [Id -> 0..MaxText]
      BY <3>1, <3>2, AppendType DEF TypeOK
    <3>4. births' \in [Id -> 0..2]
      BY <3>1, <3>2 DEF TypeOK
    <3>5. QED
      BY <1>6, <3>1, <3>3, <3>4 DEF Birth, TypeOK
  <2>2. CASE left[p] = {} /\ UNCHANGED <<row, body, births, left>>
    BY <1>6, <2>2 DEF Birth, TypeOK
  <2>3. QED
    BY <1>6, <2>1, <2>2 DEF Birth
<1>7. ASSUME NEW p \in Process, GateRead(p)
      PROVE  TypeOK'
  <2>1. Advanceable \subseteq Id
    BY DEF Advanceable
  <2>2. QED
    BY <1>7, <2>1 DEF GateRead, TypeOK
<1>8. ASSUME NEW p \in Process, GateLock(p)
      PROVE  TypeOK'
  BY <1>8 DEF GateLock, StillGated, Writable, TypeOK
<1>9. ASSUME NEW p \in Process, GateWrite(p)
      PROVE  TypeOK'
  <2>1. row' \in [Id -> Row]
    <3>1. \A i \in Id : [seen[p][i] EXCEPT !.status = "enrichment_needed"] \in Row
      <4>1. "enrichment_needed" \in Status
        BY DEF Status, Holding
      <4>2. \A i \in Id : seen[p][i] \in Row
        BY DEF TypeOK
      <4>3. QED
        BY <4>1, <4>2, RowUpdates
    <3>2. QED
      BY <1>9, <3>1 DEF GateWrite, TypeOK
  <2>2. body' \in [Id -> 0..MaxText]
    BY <1>9, <2>1 DEF GateWrite, TypeOK, Row
  <2>3. QED
    BY <1>9, <2>1, <2>2, LetGoType DEF GateWrite, TypeOK
<1>10. ASSUME NEW p \in Process, CountHolding(p)
       PROVE  TypeOK'
  BY <1>10 DEF CountHolding, TypeOK
<1>11. ASSUME NEW p \in Process, ScanRead(p)
       PROVE  TypeOK'
  BY <1>11 DEF ScanRead, TypeOK
<1>12. ASSUME NEW p \in Process, Gather(p)
       PROVE  TypeOK'
  BY <1>12 DEF Gather, TypeOK
<1>13. ASSUME NEW p \in Process, ScanAppend(p)
       PROVE  TypeOK'
  <2>1. ASSUME NEW i \in left[p],
               Append_(i, [seen[p][i] EXCEPT !.enriched = TRUE]),
               left' = [left EXCEPT ![p] = @ \ {i}], UNCHANGED <<todo, seen, task>>
        PROVE  TypeOK'
    <3>1. i \in Id /\ [seen[p][i] EXCEPT !.enriched = TRUE] \in Row
      BY RowUpdates DEF TypeOK
    <3>2. row' \in [Id -> Row] /\ body' \in [Id -> 0..MaxText]
      BY <2>1, <3>1, AppendType
    <3>3. QED
      BY <1>13, <2>1, <3>2 DEF ScanAppend, TypeOK
  <2>2. CASE left[p] = {} /\ LetGo(p) /\ UNCHANGED <<row, body, left>>
    BY <1>13, <2>2, LetGoType DEF ScanAppend, TypeOK
  <2>3. QED
    BY <1>13, <2>1, <2>2 DEF ScanAppend
<1>14. ASSUME NEW p \in Process, Read(p)
       PROVE  TypeOK'
  <2>1. task[p] \in Task /\ task[p].id \in Id /\ Composed(task[p]) \in Row
    BY ComposedType DEF TypeOK, Task
  <2>2. QED
    <3>1. CASE Refused(task[p])
      BY <1>14, <3>1, Nulls DEF Read, TypeOK
    <3>2. CASE ~Refused(task[p])
      <4>1. seen' = [seen EXCEPT ![p] = [seen[p] EXCEPT ![task[p].id] = Composed(task[p])]]
        BY <1>14, <3>2 DEF Read
      <4>2. seen' \in [Process -> [Id -> Row]]
        BY <2>1, <4>1 DEF TypeOK
      <4>3. QED
        BY <1>14, <3>2, <4>2 DEF Read, TypeOK
    <3>3. QED
      BY <3>1, <3>2
<1>15. ASSUME NEW p \in Process, Put(p)
       PROVE  TypeOK'
  <2>1. task[p].id \in Id /\ seen[p][task[p].id] \in Row
    BY DEF TypeOK, Task
  <2>2. row' \in [Id -> Row] /\ body' \in [Id -> 0..MaxText]
    BY <1>15, <2>1, AppendType DEF Put
  <2>3. QED
    BY <1>15, <2>2, LetGoType DEF Put, TypeOK
<1>16. ASSUME NEW p \in Process, Flip(p)
       PROVE  TypeOK'
  BY <1>16, Nulls DEF Flip, TypeOK, Task
<1>17. ASSUME NEW p \in Process, Crash(p)
       PROVE  TypeOK'
  <2>1. crashes' \in 0..MaxCrash
    BY <1>17, QueueAssumption DEF Crash, TypeOK
  <2>2. seen' \in [Process -> [Id -> Row]] /\ task' \in [Process -> Task]
    BY <1>17, Nulls DEF Crash, TypeOK
  <2>3. QED
    BY <1>17, <2>1, <2>2 DEF Crash, TypeOK
<1>18. CASE UNCHANGED vars
  BY <1>18 DEF vars, history, TypeOK
<1>19. QED
  BY <1>1, <1>2, <1>3, <1>4, <1>5, <1>6, <1>7, <1>8, <1>9, <1>10, <1>11, <1>12, <1>13,
     <1>14, <1>15, <1>16, <1>17, <1>18 DEF Next, Work

\* Every variable of the queue's model holds what its declaration says.
THEOREM QueueTypes == Spec => []TypeOK
BY InitTypes, StepTypes, PTL DEF Spec
-----------------------------------------------------------------------------
(* Where each step leads *)

PlanOK == todo \in [Process -> Plan]

LEMMA Moves ==
    ASSUME PlanOK, NEW p \in Process
    PROVE  /\ Boot(p) => todo[p] = <<>> /\ todo' = [todo EXCEPT ![p] = Boot9]
           /\ Enrich(p) => todo[p] = <<>> /\ todo' = [todo EXCEPT ![p] = Scan3]
           /\ \A i \in Id : Ingest(p, i) =>
                 todo[p] = <<>> /\ todo' = [todo EXCEPT ![p] = Mint1]
           /\ \A i \in Id, to \in Status : Step(p, i, to) =>
                 todo[p] = <<>> /\ todo' = [todo EXCEPT ![p] = ReadPut]
           /\ \A i \in Id, to \in Status, text \in 0..MaxText, typed \in BOOLEAN :
                 Verdict(p, i, to, text, typed) =>
                    /\ todo[p] = <<>>
                    /\ todo' = [todo EXCEPT ![p] =
                                   IF to = "promoted" THEN Landing ELSE ReadPut]
           /\ Extract(p) => todo[p] = Boot9 /\ todo' = [todo EXCEPT ![p] = Birth8]
           /\ Birth(p) =>
                 \/ UNCHANGED todo
                 \/ todo[p] = Birth8 /\ todo' = [todo EXCEPT ![p] = Gate7]
                 \/ todo[p] = Mint1 /\ todo' = [todo EXCEPT ![p] = <<>>]
           /\ GateRead(p) =>
                 /\ todo[p] = Gate7
                 /\ todo' = [todo EXCEPT ![p] = IF Advanceable = {} THEN Holding4 ELSE Lock6]
           /\ GateLock(p) => todo[p] = Lock6 /\ todo' = [todo EXCEPT ![p] = Write5]
           /\ GateWrite(p) => todo[p] = Write5 /\ todo' = [todo EXCEPT ![p] = Holding4]
           /\ CountHolding(p) =>
                 /\ todo[p] = Holding4
                 /\ \E s \in {Scan3, <<>>} : todo' = [todo EXCEPT ![p] = s]
           /\ ScanRead(p) => todo[p] = Scan3 /\ todo' = [todo EXCEPT ![p] = Gather2]
           /\ Gather(p) => todo[p] = Gather2 /\ todo' = [todo EXCEPT ![p] = Append1]
           /\ ScanAppend(p) =>
                 /\ todo[p] = Append1
                 /\ \/ UNCHANGED todo /\ left[p] # {}
                    \/ todo' = [todo EXCEPT ![p] = <<>>] /\ left[p] = {}
           /\ Read(p) =>
                 /\ todo[p] \in {ReadPut, Landing}
                 /\ todo' = [todo EXCEPT ![p] = IF Refused(task[p]) THEN <<>>
                                                ELSE IF todo[p] = Landing THEN PutFlip ELSE Put1]
           /\ Put(p) =>
                 /\ todo[p] \in {Put1, PutFlip}
                 /\ todo' = [todo EXCEPT ![p] = IF todo[p] = PutFlip THEN Flip1 ELSE <<>>]
           /\ Flip(p) => todo[p] = Flip1 /\ todo' = [todo EXCEPT ![p] = <<>>]
           /\ Crash(p) => todo' = [todo EXCEPT ![p] = <<>>]
<1>1. todo[p] \in Plan
  BY DEF PlanOK
<1>2. /\ Boot(p) => todo[p] = <<>> /\ todo' = [todo EXCEPT ![p] = Boot9]
      /\ Enrich(p) => todo[p] = <<>> /\ todo' = [todo EXCEPT ![p] = Scan3]
      /\ \A i \in Id : Ingest(p, i) =>
            todo[p] = <<>> /\ todo' = [todo EXCEPT ![p] = Mint1]
  BY DEF Boot, Enrich, Ingest, Begin, Idle, Go, Boot9, Scan3, Mint1
<1>3. /\ \A i \in Id, to \in Status : Step(p, i, to) =>
            todo[p] = <<>> /\ todo' = [todo EXCEPT ![p] = ReadPut]
      /\ \A i \in Id, to \in Status, text \in 0..MaxText, typed \in BOOLEAN :
            Verdict(p, i, to, text, typed) =>
               /\ todo[p] = <<>>
               /\ todo' = [todo EXCEPT ![p] = IF to = "promoted" THEN Landing ELSE ReadPut]
  BY DEF Step, Verdict, Begin, Idle, Go, ReadPut
<1>4. /\ Extract(p) => todo[p] = Boot9 /\ todo' = [todo EXCEPT ![p] = Birth8]
      /\ GateLock(p) => todo[p] = Lock6 /\ todo' = [todo EXCEPT ![p] = Write5]
      /\ GateWrite(p) => todo[p] = Write5 /\ todo' = [todo EXCEPT ![p] = Holding4]
      /\ ScanRead(p) => todo[p] = Scan3 /\ todo' = [todo EXCEPT ![p] = Gather2]
      /\ Gather(p) => todo[p] = Gather2 /\ todo' = [todo EXCEPT ![p] = Append1]
      /\ Flip(p) => todo[p] = Flip1 /\ todo' = [todo EXCEPT ![p] = <<>>]
      /\ Crash(p) => todo' = [todo EXCEPT ![p] = <<>>]
  BY <1>1, PlanSteps, PlanTails
     DEF Extract, GateLock, GateWrite, ScanRead, Gather, Flip, Crash, Is, On, Go
<1>5. Birth(p) =>
         \/ UNCHANGED todo
         \/ todo[p] = Birth8 /\ todo' = [todo EXCEPT ![p] = Gate7]
         \/ todo[p] = Mint1 /\ todo' = [todo EXCEPT ![p] = <<>>]
  BY <1>1, PlanSteps, PlanTails DEF Birth, Is, On, Go
<1>6. GateRead(p) =>
         /\ todo[p] = Gate7
         /\ todo' = [todo EXCEPT ![p] = IF Advanceable = {} THEN Holding4 ELSE Lock6]
  BY <1>1, PlanSteps, PlanTails DEF GateRead, Is, On, Go
<1>7. CountHolding(p) =>
         /\ todo[p] = Holding4
         /\ \E s \in {Scan3, <<>>} : todo' = [todo EXCEPT ![p] = s]
  BY <1>1, PlanSteps, PlanTails DEF CountHolding, Is, On, Go
<1>8. ScanAppend(p) =>
         /\ todo[p] = Append1
         /\ \/ UNCHANGED todo /\ left[p] # {}
            \/ todo' = [todo EXCEPT ![p] = <<>>] /\ left[p] = {}
  BY <1>1, PlanSteps, PlanTails DEF ScanAppend, Is, On, Go
<1>9. Read(p) =>
         /\ todo[p] \in {ReadPut, Landing}
         /\ todo' = [todo EXCEPT ![p] = IF Refused(task[p]) THEN <<>>
                                        ELSE IF todo[p] = Landing THEN PutFlip ELSE Put1]
  BY <1>1, PlanSteps, PlanTails DEF Read, Is, On, Go
<1>10. Put(p) =>
          /\ todo[p] \in {Put1, PutFlip}
          /\ todo' = [todo EXCEPT ![p] = IF todo[p] = PutFlip THEN Flip1 ELSE <<>>]
  BY <1>1, PlanSteps, PlanTails DEF Put, Is, On, Go
<1>11. QED
  BY <1>2, <1>3, <1>4, <1>5, <1>6, <1>7, <1>8, <1>9, <1>10
-----------------------------------------------------------------------------
(* What holds however the processes overlap *)

\* A born candidate has a row, and keeps one.
BirthsHaveRows == \A i \in Id : births[i] <= 1 /\ (births[i] = 1 => Status_(i) # "none")

\* The text of a row is blank or the latest that is not.
TextsKnown == \A i \in Id : row[i].text \in {0, body[i]}

\* The scanner copies forward only what it read as held.
CopiesHeld ==
    \A p \in Process : todo[p] = Append1 =>
        \A i \in left[p] : seen[p][i].status \in Holding

\* What is about to land has the status that was asked for.
PutsAsked ==
    \A p \in Process : todo[p] \in {Put1, PutFlip} =>
        seen[p][task[p].id].status = task[p].to

Basic == TypeOK /\ PlanOK /\ BirthsHaveRows /\ TextsKnown /\ CopiesHeld /\ PutsAsked

\* A step of p leaves alone what the other processes hold.
Elsewhere(p) ==
    \A q \in Process \ {p} : left'[q] = left[q] /\ seen'[q] = seen[q] /\ task'[q] = task[q]

LEMMA ActsAlone ==
    ASSUME TypeOK, NEW p \in Process
    PROVE  /\ Boot(p) \/ Enrich(p) => Elsewhere(p)
           /\ \A i \in Id : Ingest(p, i) => Elsewhere(p)
           /\ \A i \in Id, to \in Status : Step(p, i, to) => Elsewhere(p)
           /\ \A i \in Id, to \in Status, text \in 0..MaxText, typed \in BOOLEAN :
                 Verdict(p, i, to, text, typed) => Elsewhere(p)
           /\ Work(p) \/ Crash(p) => Elsewhere(p)
<1> USE DEF TypeOK, Elsewhere
<1>1. Boot(p) \/ Enrich(p) => Elsewhere(p)
  BY DEF Boot, Enrich, Begin
<1>2. \A i \in Id : Ingest(p, i) => Elsewhere(p)
  BY DEF Ingest, Begin
<1>3. \A i \in Id, to \in Status : Step(p, i, to) => Elsewhere(p)
  BY DEF Step, Begin
<1>4. \A i \in Id, to \in Status, text \in 0..MaxText, typed \in BOOLEAN :
        Verdict(p, i, to, text, typed) => Elsewhere(p)
  BY DEF Verdict, Begin
<1>5. Extract(p) \/ GateRead(p) \/ GateLock(p) \/ CountHolding(p) \/ ScanRead(p) => Elsewhere(p)
  BY DEF Extract, GateRead, GateLock, CountHolding, ScanRead
<1>6. Birth(p) => Elsewhere(p)
  <2>1. Birth(p) => UNCHANGED <<task, seen>> /\ (left' = left \/ \E set : left' = [left EXCEPT ![p] = set])
    BY DEF Birth
  <2>2. QED
    BY <2>1
<1>7. Gather(p) => Elsewhere(p)
  <2>1. Gather(p) => UNCHANGED <<task, seen>> /\ \E set : left' = [left EXCEPT ![p] = set]
    BY DEF Gather
  <2>2. QED
    BY <2>1
<1>8. LetGo(p) => \A q \in Process \ {p} : seen'[q] = seen[q] /\ task'[q] = task[q]
  BY DEF LetGo
<1>9. GateWrite(p) \/ Put(p) => Elsewhere(p)
  BY <1>8 DEF GateWrite, Put
<1>10. ScanAppend(p) => Elsewhere(p)
  <2>1. ScanAppend(p) => /\ UNCHANGED <<task, seen>> \/ LetGo(p)
                         /\ left' = left \/ \E set : left' = [left EXCEPT ![p] = set]
    BY DEF ScanAppend
  <2>2. QED
    BY <1>8, <2>1
<1>11. Read(p) => Elsewhere(p)
  <2>1. Read(p) => /\ UNCHANGED left
                   /\ task' = task \/ \E t : task' = [task EXCEPT ![p] = t]
                   /\ seen' = seen \/ \E f : seen' = [seen EXCEPT ![p] = f]
    BY DEF Read
  <2>2. QED
    BY <2>1
<1>12. Flip(p) \/ Crash(p) => Elsewhere(p)
  BY DEF Flip, Crash
<1>13. QED
  BY <1>1, <1>2, <1>3, <1>4, <1>5, <1>6, <1>7, <1>9, <1>10, <1>11, <1>12 DEF Work

LEMMA PlanKept ==
    ASSUME PlanOK, NEW p \in Process, NEW s \in Plan, todo' = [todo EXCEPT ![p] = s]
    PROVE  PlanOK' /\ todo'[p] = s /\ \A q \in Process \ {p} : todo'[q] = todo[q]
BY DEF PlanOK

\* A process that goes on to a step that writes no copy needs no care.
LEMMA NoCopy ==
    ASSUME Basic, NEW p \in Process, Elsewhere(p),
           NEW s \in Plan, s \notin {Append1, Put1, PutFlip}, todo' = [todo EXCEPT ![p] = s]
    PROVE  PlanOK' /\ CopiesHeld' /\ PutsAsked'
<1>1. PlanOK' /\ todo'[p] = s /\ \A q \in Process \ {p} : todo'[q] = todo[q]
  BY PlanKept DEF Basic
<1>2. QED
  BY <1>1 DEF Basic, CopiesHeld, PutsAsked, Elsewhere

LEMMA RowsKept ==
    ASSUME Basic, UNCHANGED <<row, body, births>>
    PROVE  BirthsHaveRows' /\ TextsKnown'
BY DEF Basic, BirthsHaveRows, TextsKnown, Status_

LEMMA BasicInit == Init => Basic
<1> SUFFICES ASSUME Init PROVE Basic
  OBVIOUS
<1>1. TypeOK /\ PlanOK
  BY InitTypes DEF Init, PlanOK, Plan
<1>2. BirthsHaveRows /\ TextsKnown
  BY DEF Init, BirthsHaveRows, TextsKnown, Status_, NoRow, Thin
<1>3. CopiesHeld /\ PutsAsked
  BY PlanHeads DEF Init, CopiesHeld, PutsAsked
<1>4. QED
  BY <1>1, <1>2, <1>3 DEF Basic

\* A row written with its status keeps the candidate's births and texts in order.
LEMMA AppendKeeps ==
    ASSUME Basic, NEW i \in Id, NEW r \in Row, r.status # "none", Append_(i, r),
           UNCHANGED births
    PROVE  BirthsHaveRows' /\ TextsKnown'
BY DEF Basic, TypeOK, BirthsHaveRows, TextsKnown, Append_, Status_

LEMMA BasicStep == Basic /\ [Next]_vars => Basic'
<1> SUFFICES ASSUME Basic, [Next]_vars PROVE Basic'
  OBVIOUS
<1>0. TypeOK /\ TypeOK' /\ PlanOK
  BY StepTypes DEF Basic
<1>a. ASSUME NEW p \in Process, Elsewhere(p), UNCHANGED <<row, body, births>>,
             NEW s \in Plan, s \notin {Append1, Put1, PutFlip}, todo' = [todo EXCEPT ![p] = s]
      PROVE  Basic'
  BY <1>0, <1>a, NoCopy, RowsKept DEF Basic
<1>b. /\ {<<>>, Gather2, Scan3, Holding4, Write5, Lock6, Gate7, Birth8, Boot9, Mint1, ReadPut,
           Landing, Flip1} \subseteq Plan \ {Append1, Put1, PutFlip}
      /\ {Append1, Put1, PutFlip} \subseteq Plan
      /\ Append1 \notin {Put1, PutFlip} /\ <<>> \notin {Append1, Put1, PutFlip}
  BY PlanHeads DEF Plan
<1>1. ASSUME NEW p \in Process, Boot(p) \/ Enrich(p)
      PROVE  Basic'
  <2>1. UNCHANGED <<row, body, births>> /\ Elsewhere(p)
    BY <1>0, <1>1, ActsAlone DEF Boot, Enrich, Begin
  <2>2. PICK s \in {Boot9, Scan3} : todo' = [todo EXCEPT ![p] = s]
    BY <1>0, <1>1, Moves
  <2>3. QED
    BY <1>a, <1>b, <2>1, <2>2
<1>2. ASSUME NEW p \in Process, NEW i \in Id, Ingest(p, i)
      PROVE  Basic'
  <2>1. UNCHANGED <<row, body, births>> /\ Elsewhere(p)
    BY <1>0, <1>2, ActsAlone DEF Ingest, Begin
  <2>2. todo' = [todo EXCEPT ![p] = Mint1]
    BY <1>0, <1>2, Moves
  <2>3. QED
    BY <1>a, <1>b, <2>1, <2>2
<1>3. ASSUME NEW p \in Process, NEW i \in Id, NEW to \in Status, Step(p, i, to)
      PROVE  Basic'
  <2>1. UNCHANGED <<row, body, births>> /\ Elsewhere(p)
    BY <1>0, <1>3, ActsAlone DEF Step, Begin
  <2>2. todo' = [todo EXCEPT ![p] = ReadPut]
    BY <1>0, <1>3, Moves
  <2>3. QED
    BY <1>a, <1>b, <2>1, <2>2
<1>4. ASSUME NEW p \in Process, NEW i \in Id, NEW to \in Status, NEW text \in 0..MaxText,
             NEW typed \in BOOLEAN, Verdict(p, i, to, text, typed)
      PROVE  Basic'
  <2>1. UNCHANGED <<row, body, births>> /\ Elsewhere(p)
    BY <1>0, <1>4, ActsAlone DEF Verdict, Begin
  <2>2. PICK s \in {Landing, ReadPut} : todo' = [todo EXCEPT ![p] = s]
    BY <1>0, <1>4, Moves
  <2>3. QED
    BY <1>a, <1>b, <2>1, <2>2
<1>5. ASSUME NEW p \in Process, Extract(p) \/ GateRead(p) \/ GateLock(p) \/ CountHolding(p)
                                 \/ ScanRead(p) \/ Flip(p) \/ Crash(p)
      PROVE  Basic'
  <2>1. UNCHANGED <<row, body, births>> /\ Elsewhere(p)
    BY <1>0, <1>5, ActsAlone
       DEF Work, Extract, GateRead, GateLock, CountHolding, ScanRead, Flip, Crash
  <2>2. PICK s \in {Birth8, Holding4, Lock6, Write5, Scan3, Gather2, <<>>} :
            todo' = [todo EXCEPT ![p] = s]
    BY <1>0, <1>5, Moves
  <2>3. QED
    BY <1>a, <1>b, <2>1, <2>2
<1>6. ASSUME NEW p \in Process, Birth(p)
      PROVE  Basic'
  <2>1. Elsewhere(p) /\ UNCHANGED <<seen, task>>
    BY <1>0, <1>6, ActsAlone DEF Birth, Work
  <2>2. todo[p] \in {Birth8, Mint1}
    BY <1>0, <1>6, PlanSteps DEF PlanOK, Birth, Is
  <2>3. PICK s \in {Birth8, Mint1, Gate7, <<>>} : todo' = [todo EXCEPT ![p] = s]
    <3>1. CASE UNCHANGED todo
      BY <1>0, <2>2, <3>1 DEF PlanOK
    <3>2. CASE ~UNCHANGED todo
      BY <1>0, <1>6, <3>2, Moves
    <3>3. QED
      BY <3>1, <3>2
  <2>4. PlanOK' /\ CopiesHeld' /\ PutsAsked'
    BY <1>b, <2>1, <2>3, NoCopy
  <2>5. CASE UNCHANGED <<row, body, births>>
    BY <1>0, <2>4, <2>5, RowsKept DEF Basic
  <2>6. ASSUME NEW i \in left[p], NEW status \in {"extracted", "enrichment_needed"},
               MayBeBorn(i), Append_(i, Born(status)),
               births' = [births EXCEPT ![i] = IF @ < 2 THEN @ + 1 ELSE @]
        PROVE  Basic'
    <3>1. i \in Id /\ row[i] = NoRow /\ Status_(i) = "none"
      BY <1>0, <2>6 DEF TypeOK, MayBeBorn, Absent, Status_, NoRow
    <3>2. births[i] = 0
      BY <1>0, <3>1 DEF Basic, TypeOK, BirthsHaveRows
    <3>3. row' = [row EXCEPT ![i] = Born(status)] /\ Born(status).status = status /\ Born(status).text = 1
      BY <2>6 DEF Append_, Born
    <3>4. body' = [body EXCEPT ![i] = 1]
      BY <2>6, <3>3 DEF Append_
    <3>5. BirthsHaveRows' /\ TextsKnown'
      BY <1>0, <2>6, <3>1, <3>2, <3>3, <3>4
         DEF Basic, TypeOK, BirthsHaveRows, TextsKnown, Status_
    <3>6. QED
      BY <1>0, <2>4, <3>5 DEF Basic
  <2>7. QED
    BY <1>6, <2>5, <2>6 DEF Birth
<1>7. ASSUME NEW p \in Process, GateWrite(p)
      PROVE  Basic'
  <2>1. PlanOK' /\ CopiesHeld' /\ PutsAsked'
    BY <1>0, <1>7, <1>b, ActsAlone, Moves, NoCopy DEF Work
  <2>2. \A i \in Id : /\ row'[i].status = "enrichment_needed" \/ row'[i] = row[i]
                     /\ body'[i] = IF row'[i].text = 0 THEN body[i] ELSE row'[i].text
    BY <1>0, <1>7 DEF GateWrite, TypeOK, Row
  <2>3. BirthsHaveRows' /\ TextsKnown'
    BY <1>7, <2>2 DEF GateWrite, Basic, BirthsHaveRows, TextsKnown, Status_
  <2>4. QED
    BY <1>0, <2>1, <2>3 DEF Basic
<1>8. ASSUME NEW p \in Process, Gather(p)
      PROVE  Basic'
  <2>1. PlanOK' /\ todo'[p] = Append1 /\ \A q \in Process \ {p} : todo'[q] = todo[q]
    BY <1>0, <1>8, <1>b, Moves, PlanKept
  <2>2. Elsewhere(p) /\ UNCHANGED <<seen, row, body, births>>
    BY <1>0, <1>8, ActsAlone DEF Work, Gather
  <2>3. \A i \in left'[p] : seen'[p][i].status \in Holding
    BY <1>0, <1>8 DEF Gather, TypeOK
  <2>4. CopiesHeld' /\ PutsAsked'
    BY <1>b, <2>1, <2>2, <2>3 DEF Basic, CopiesHeld, PutsAsked, Elsewhere
  <2>5. QED
    BY <1>0, <2>1, <2>2, <2>4, RowsKept DEF Basic
<1>9. ASSUME NEW p \in Process, ScanAppend(p)
      PROVE  Basic'
  <2>1. Elsewhere(p) /\ UNCHANGED births
    BY <1>0, <1>9, ActsAlone DEF ScanAppend, Work
  <2>2. todo[p] = Append1
    BY <1>0, <1>9, Moves
  <2>3. ASSUME NEW i \in left[p],
               Append_(i, [seen[p][i] EXCEPT !.enriched = TRUE]),
               left' = [left EXCEPT ![p] = @ \ {i}], UNCHANGED <<todo, seen, task>>
        PROVE  Basic'
    <3>1. /\ i \in Id /\ [seen[p][i] EXCEPT !.enriched = TRUE] \in Row
          /\ [seen[p][i] EXCEPT !.enriched = TRUE].status = seen[p][i].status
      <4>1. i \in Id /\ seen[p][i] \in Row
        BY <1>0 DEF TypeOK
      <4>2. QED
        BY <4>1, RowUpdates DEF Row
    <3>2. seen[p][i].status # "none"
      BY <2>2 DEF Basic, CopiesHeld, Holding
    <3>3. BirthsHaveRows' /\ TextsKnown'
      BY <2>1, <2>3, <3>1, <3>2, AppendKeeps
    <3>4. CopiesHeld' /\ PutsAsked' /\ PlanOK'
      BY <1>0, <2>2, <2>3 DEF Basic, TypeOK, PlanOK, CopiesHeld, PutsAsked
    <3>5. QED
      BY <1>0, <3>3, <3>4 DEF Basic
  <2>4. CASE left[p] = {} /\ LetGo(p) /\ On(p) /\ UNCHANGED <<row, body, left>>
    <3>1. todo' = [todo EXCEPT ![p] = <<>>]
      BY <2>2, <2>4, PlanTails DEF On, Go
    <3>2. QED
      BY <1>a, <1>b, <2>1, <2>4, <3>1
  <2>5. QED
    BY <1>9, <2>3, <2>4 DEF ScanAppend
<1>10. ASSUME NEW p \in Process, Read(p)
       PROVE  Basic'
  <2>1. Elsewhere(p) /\ UNCHANGED <<row, body, births, left>>
    BY <1>0, <1>10, ActsAlone DEF Read, Work
  <2>2. CASE Refused(task[p])
    <3>1. todo' = [todo EXCEPT ![p] = <<>>]
      BY <1>0, <1>10, <2>2, Moves
    <3>2. QED
      BY <1>a, <1>b, <2>1, <3>1
  <2>3. CASE ~Refused(task[p])
    <3>1. PICK s \in {Put1, PutFlip} : todo' = [todo EXCEPT ![p] = s]
      BY <1>0, <1>10, <2>3, Moves
    <3>2. PlanOK' /\ todo'[p] = s /\ \A q \in Process \ {p} : todo'[q] = todo[q]
      BY <1>0, <1>b, <3>1, PlanKept
    <3>3. task[p] \in Task /\ task[p].id \in Id /\ task'[p] = task[p]
      BY <1>0, <1>10, <2>3 DEF TypeOK, Task, Read
    <3>4. Composed(task[p]).status = task[p].to
      BY <1>0, <3>3 DEF Composed, TypeOK, Row
    <3>5. seen'[p][task[p].id] = Composed(task[p])
      BY <1>0, <1>10, <2>3, <3>3 DEF TypeOK, Read
    <3>6. CopiesHeld' /\ PutsAsked'
      BY <1>b, <2>1, <3>2, <3>3, <3>4, <3>5 DEF Basic, CopiesHeld, PutsAsked, Elsewhere
    <3>7. QED
      BY <1>0, <2>1, <3>2, <3>6, RowsKept DEF Basic
  <2>4. QED
    BY <2>2, <2>3
<1>11. ASSUME NEW p \in Process, Put(p)
       PROVE  Basic'
  <2>1. Elsewhere(p) /\ todo[p] \in {Put1, PutFlip}
    BY <1>0, <1>11, ActsAlone, Moves DEF Work
  <2>2. PICK s \in {Flip1, <<>>} : todo' = [todo EXCEPT ![p] = s]
    BY <1>0, <1>11, Moves
  <2>3. PlanOK' /\ CopiesHeld' /\ PutsAsked'
    BY <1>b, <2>1, <2>2, NoCopy
  <2>4. /\ task[p].id \in Id /\ task[p].to \in Status
        /\ seen[p][task[p].id] \in Row /\ seen[p][task[p].id].status = task[p].to
    BY <1>0, <2>1 DEF Basic, TypeOK, Task, PutsAsked
  <2>5. BirthsHaveRows' /\ TextsKnown'
    BY <1>11, <2>4, AppendKeeps DEF Put, Status, Holding, HardTerminal
  <2>6. QED
    BY <1>0, <2>3, <2>5 DEF Basic
<1>12. CASE UNCHANGED vars
  BY <1>0, <1>12 DEF vars, Basic, PlanOK, BirthsHaveRows, TextsKnown, CopiesHeld, PutsAsked, Status_
<1>13. QED
  BY <1>1, <1>2, <1>3, <1>4, <1>5, <1>6, <1>7, <1>8, <1>9, <1>10, <1>11, <1>12 DEF Next, Work

LEMMA BasicAlways == Spec => []Basic
BY BasicInit, BasicStep, PTL DEF Spec

\* A candidate is born once, however the sessions and runners that extract and
\* ingest it overlap: dedup_queue_append looks again under the lock.
THEOREM CandidatesBornOnce == Spec => []BornOnce
<1>1. Basic => BornOnce
  BY DEF Basic, BirthsHaveRows, BornOnce
<1>2. QED
  BY <1>1, BasicAlways, PTL
-----------------------------------------------------------------------------
(* What a writer knows of the rows nobody overtook it on *)

\* The gate writes rows it read as gated; under flock(1) they are gated still.
GateKnows(p) ==
    /\ todo[p] \in {Lock6, Write5} => \A i \in left[p] :
          seen[p][i].status = "tic_gated" /\ (i \in behind[p] \/ seen[p][i] = row[i])
    /\ todo[p] = Write5 =>
          lock = p /\ (flock => \A i \in left[p] : row[i].status = "tic_gated")

ScanKnows(p) ==
    /\ todo[p] = Gather2 => \A i \in Id : i \in behind[p] \/ seen[p][i] = row[i]
    /\ todo[p] = Append1 => \A i \in left[p] : i \in behind[p] \/ seen[p][i] = row[i]

\* What is landed neither unsettles a candidate nor takes its text back.
LandKnows(p) ==
    LET t == task[p] IN
    /\ todo[p] \in {ReadPut, Landing} /\ t.typed /\ t.id \notin behind[p] =>
          ~Terminal(t.id) /\ (t.text # 0 => body[t.id] <= t.text)
    /\ todo[p] \in {Put1, PutFlip} /\ t.id \notin behind[p] =>
          /\ Terminal(t.id) => t.to \in HardTerminal
          /\ row[t.id].text <= seen[p][t.id].text
    /\ todo[p] \in {Landing, PutFlip} => t.to = "promoted"
    /\ todo[p] = Flip1 => t.id \in promoted

Knows(p) == GateKnows(p) /\ ScanKnows(p) /\ LandKnows(p)

Informed == Basic /\ (\A p \in Process : Knows(p)) /\ BlockAfterRow

\* A process before its first read and after its last write knows nothing.
Knowing == {Lock6, Write5, Gather2, Append1, ReadPut, Landing, Put1, PutFlip, Flip1}

LEMMA KnowsNothing ==
    ASSUME NEW p \in Process, todo'[p] \notin Knowing
    PROVE  Knows(p)'
BY DEF Knowing, Knows, GateKnows, ScanKnows, LandKnows

\* Who is landing something knows only about that.
LEMMA KnowsTask ==
    ASSUME NEW p \in Process, todo'[p] \in {ReadPut, Landing, Put1, PutFlip, Flip1},
           LandKnows(p)'
    PROVE  Knows(p)'
BY PlanHeads DEF Knows, GateKnows, ScanKnows

LEMMA LandingPlans == ReadPut # Landing /\ Put1 # PutFlip
BY PlanHeads, PlanTails

LEMMA KnowingHolds ==
    ASSUME NEW p \in Process,
           todo[p] \in {Lock6, Write5, Gather2, Append1, ReadPut, Landing, Put1, PutFlip}
    PROVE  Holds(p)
BY PlanHeads DEF Holds, Idle, Stale

\* A step of p writes rows of W, and whoever else holds copies of them is told.
Writes(p, W) ==
    /\ \A i \in Id \ W : row'[i] = row[i] /\ body'[i] = body[i]
    /\ W = {} \/ ~flock \/ lock \in {Free, p}
    /\ \A q \in Process \ {p} : Holds(q) => behind[q] \cup W \subseteq behind'[q]
    /\ promoted \subseteq promoted' /\ flock' = flock
    /\ lock' = lock \/ lock \in {Free, p}
    /\ \A q \in Process \ {p} : todo'[q] = todo[q]
    /\ Elsewhere(p)

\* A step of p leaves true what the other processes know.
LEMMA OthersKnow ==
    ASSUME Informed, NEW p \in Process, NEW q \in Process \ {p},
           NEW W \in SUBSET Id, Writes(p, W)
    PROVE  Knows(q)'
<1>0. /\ TypeOK /\ Knows(q) /\ todo'[q] = todo[q] /\ flock' = flock
      /\ left'[q] = left[q] /\ seen'[q] = seen[q] /\ task'[q] = task[q]
  BY DEF Informed, Basic, Writes, Elsewhere
<1>1. Holds(q) => \A i \in Id : i \in behind'[q] \/ (i \notin behind[q] /\ i \notin W)
  BY DEF Writes
<1>2. \A i \in Id : i \in W \/ (row'[i] = row[i] /\ body'[i] = body[i])
  BY DEF Writes
<1>3. left[q] \subseteq Id /\ task[q].id \in Id
  BY <1>0 DEF TypeOK, Task
<1>4. GateKnows(q)'
  <2>1. ASSUME todo[q] \in {Lock6, Write5}, NEW i \in left[q]
        PROVE  seen[q][i].status = "tic_gated" /\ (i \in behind'[q] \/ seen[q][i] = row'[i])
    BY <1>0, <1>1, <1>2, <1>3, <2>1, KnowingHolds DEF Knows, GateKnows
  <2>2. ASSUME todo[q] = Write5
        PROVE  lock' = q /\ (flock => \A i \in left[q] : row'[i].status = "tic_gated")
    <3>1. lock = q /\ (flock => \A i \in left[q] : row[i].status = "tic_gated")
      BY <1>0, <2>2 DEF Knows, GateKnows
    <3>2. lock \notin {Free, p} /\ lock' = lock
      BY <3>1, QueueAssumption DEF Writes
    <3>3. flock => W = {}
      BY <3>2 DEF Writes
    <3>4. QED
      BY <1>2, <1>3, <3>1, <3>2, <3>3
  <2>3. QED
    BY <1>0, <2>1, <2>2 DEF GateKnows
<1>5. ScanKnows(q)'
  BY <1>0, <1>1, <1>2, <1>3, KnowingHolds DEF Knows, ScanKnows
<1>6. LandKnows(q)'
  <2>1. todo[q] \in {ReadPut, Landing, Put1, PutFlip} =>
          \/ task[q].id \in behind'[q]
          \/ /\ task[q].id \notin behind[q] /\ row'[task[q].id] = row[task[q].id]
             /\ body'[task[q].id] = body[task[q].id]
    BY <1>1, <1>2, <1>3, KnowingHolds
  <2>2. promoted \subseteq promoted'
    BY DEF Writes
  <2>3. QED
    BY <1>0, <2>1, <2>2 DEF Knows, LandKnows, Terminal, Status_
<1>7. QED
  BY <1>4, <1>5, <1>6 DEF Knows

\* What is left to show of a step of p.
LEMMA InformedKept ==
    ASSUME Informed, Basic', NEW p \in Process, NEW W \in SUBSET Id, Writes(p, W),
           \A i \in Id : block'[i] = "settled" => block[i] = "settled" \/ i \in promoted,
           Knows(p)'
    PROVE  Informed'
<1>1. \A q \in Process : Knows(q)'
  BY OthersKnow
<1>2. BlockAfterRow'
  BY DEF Informed, BlockAfterRow, Writes
<1>3. QED
  BY <1>1, <1>2 DEF Informed

\* A step that appends nothing.
LEMMA Quiet ==
    ASSUME TypeOK, PlanOK, NEW p \in Process, Elsewhere(p), UNCHANGED <<row, body, flock>>,
           UNCHANGED history \/ Looks(p), lock' = lock \/ lock \in {Free, p},
           NEW s \in Plan, todo' = [todo EXCEPT ![p] = s]
    PROVE  Writes(p, {}) /\ todo'[p] = s
<1>1. \A q \in Process \ {p} : behind'[q] = behind[q]
  BY DEF TypeOK, Looks, history
<1>2. promoted' = promoted
  BY DEF Looks, history
<1>3. QED
  BY <1>1, <1>2, PlanKept DEF Writes

\* Overtaking tells every other process that holds copies.
LEMMA OvertakesTells ==
    ASSUME TypeOK, NEW p \in Process, NEW W \in SUBSET Id, Overtakes(p, W),
           \A q \in Process \ {p} : todo'[q] = todo[q]
    PROVE  /\ \A q \in Process \ {p} : Holds(q) => behind[q] \cup W \subseteq behind'[q]
           /\ promoted \subseteq promoted'
BY DEF Overtakes, Holds, Idle, TypeOK

LEMMA InformedInit == Init => Informed
<1> SUFFICES ASSUME Init PROVE Informed
  OBVIOUS
<1>1. Basic
  BY BasicInit
<1>2. ASSUME NEW p \in Process
      PROVE  Knows(p)
  BY PlanHeads DEF Init, Knows, GateKnows, ScanKnows, LandKnows
<1>3. BlockAfterRow
  BY DEF Init, BlockAfterRow
<1>4. QED
  BY <1>1, <1>2, <1>3 DEF Informed

\* Steps that begin an operation.
LEMMA InformedBegin ==
    ASSUME Informed, Basic', NEW p \in Process,
           \/ Boot(p) \/ Enrich(p)
           \/ \E i \in Id : Ingest(p, i)
           \/ \E i \in Id, to \in Status : Step(p, i, to)
           \/ \E i \in Id, to \in Status, text \in 0..MaxText, typed \in BOOLEAN :
                 Verdict(p, i, to, text, typed)
    PROVE  Informed'
<1>0. TypeOK /\ PlanOK
  BY DEF Informed, Basic
<1>1. UNCHANGED <<row, body, block, flock, lock>> /\ Looks(p) /\ Elsewhere(p)
  BY <1>0, ActsAlone DEF Boot, Enrich, Ingest, Step, Verdict, Begin, fixed
<1>2. ASSUME NEW s \in {Boot9, Scan3, Mint1, ReadPut, Landing}, todo' = [todo EXCEPT ![p] = s],
             todo'[p] = s => Knows(p)'
      PROVE  Informed'
  <2>1. Writes(p, {}) /\ todo'[p] = s
    BY <1>0, <1>1, <1>2, Quiet DEF Plan
  <2>2. QED
    BY <1>1, <1>2, <2>1, InformedKept
<1>3. CASE Boot(p) \/ Enrich(p) \/ \E i \in Id : Ingest(p, i)
  <2>1. PICK s \in {Boot9, Scan3, Mint1} : todo' = [todo EXCEPT ![p] = s]
    BY <1>0, <1>3, Moves
  <2>2. s \notin Knowing
    BY PlanHeads DEF Knowing
  <2>3. QED
    BY <1>2, <2>1, <2>2, KnowsNothing
<1>4. ASSUME NEW i \in Id, NEW to \in Status, Step(p, i, to)
      PROVE  Informed'
  <2>1. todo' = [todo EXCEPT ![p] = ReadPut]
    BY <1>0, <1>4, Moves
  <2>2. ~task'[p].typed
    BY <1>0, <1>4 DEF Step, TypeOK
  <2>3. todo'[p] = ReadPut => LandKnows(p)'
    BY <2>2, PlanHeads, LandingPlans DEF LandKnows
  <2>4. QED
    BY <1>2, <2>1, <2>3, KnowsTask
<1>5. ASSUME NEW i \in Id, NEW to \in Status, NEW text \in 0..MaxText, NEW typed \in BOOLEAN,
             Verdict(p, i, to, text, typed)
      PROVE  Informed'
  <2>1. PICK s \in {ReadPut, Landing} :
            todo' = [todo EXCEPT ![p] = s] /\ (s = Landing => to = "promoted")
    <3>1. todo' = [todo EXCEPT ![p] = IF to = "promoted" THEN Landing ELSE ReadPut]
      BY <1>0, <1>5, Moves
    <3>2. QED
      BY <3>1, LandingPlans
  <2>2. /\ task'[p] = [id |-> i, to |-> to, text |-> text, typed |-> typed]
        /\ ~Terminal(i) /\ text \in {0, body[i] + 1} /\ body[i] \in Nat
    BY <1>0, <1>5, QueueAssumption DEF Verdict, TypeOK
  <2>3. todo'[p] = s => LandKnows(p)'
    BY <1>1, <2>1, <2>2, PlanHeads DEF LandKnows, Terminal, Status_
  <2>4. QED
    BY <1>2, <2>1, <2>3, KnowsTask
<1>6. QED
  BY <1>3, <1>4, <1>5

\* Extraction, the count of held rows, and the steps after which nothing is known.
LEMMA InformedBirth ==
    ASSUME Informed, Basic', NEW p \in Process, Birth(p)
    PROVE  Informed'
<1>0. TypeOK /\ PlanOK
  BY DEF Informed, Basic
<1>1. Elsewhere(p) /\ UNCHANGED <<block, flock, lock>>
  BY <1>0, ActsAlone DEF Work, Birth, fixed
<1>2. PICK s \in {Birth8, Mint1, Gate7, <<>>} : todo' = [todo EXCEPT ![p] = s]
  <2>1. todo[p] \in {Birth8, Mint1}
    BY <1>0, PlanSteps DEF PlanOK, Birth, Is
  <2>2. CASE UNCHANGED todo
    BY <1>0, <2>1, <2>2 DEF PlanOK
  <2>3. CASE ~UNCHANGED todo
    BY <1>0, <2>3, Moves
  <2>4. QED
    BY <2>2, <2>3
<1>3. s \in Plan /\ s \notin Knowing
  BY PlanHeads DEF Plan, Knowing
<1>4. todo'[p] = s /\ \A q \in Process \ {p} : todo'[q] = todo[q]
  BY <1>0, <1>2, <1>3, PlanKept
<1>5. Knows(p)'
  BY <1>3, <1>4, KnowsNothing
<1>6. CASE UNCHANGED <<row, body, history>>
  <2>1. Writes(p, {})
    BY <1>0, <1>1, <1>2, <1>3, <1>6, Quiet
  <2>2. QED
    BY <1>1, <1>5, <2>1, InformedKept
<1>7. ASSUME NEW i \in left[p], NEW status \in {"extracted", "enrichment_needed"},
             lock = Free, Append_(i, Born(status)), Overtakes(p, {i})
      PROVE  Informed'
  <2>1. i \in Id
    BY <1>0 DEF TypeOK
  <2>2. \A j \in Id \ {i} : row'[j] = row[j] /\ body'[j] = body[j]
    BY <1>0, <1>7, <2>1 DEF Append_, TypeOK
  <2>3. Writes(p, {i})
    BY <1>0, <1>1, <1>4, <1>7, <2>1, <2>2, OvertakesTells DEF Writes
  <2>4. QED
    BY <1>1, <1>5, <2>1, <2>3, InformedKept
<1>8. QED
  BY <1>6, <1>7 DEF Birth, history

\* The gate: its read, its second look, its write.
LEMMA InformedGate ==
    ASSUME Informed, Basic', NEW p \in Process,
           GateRead(p) \/ GateLock(p) \/ GateWrite(p)
    PROVE  Informed'
<1>0. TypeOK /\ PlanOK /\ Knows(p) /\ Elsewhere(p)
  BY ActsAlone DEF Informed, Basic, Work
<1> USE PlanHeads
<1>1. CASE GateRead(p)
  <2>1. UNCHANGED <<row, body, block, flock, lock>> /\ Looks(p)
    BY <1>1 DEF GateRead, fixed
  <2>2. PICK s \in {Holding4, Lock6} : todo' = [todo EXCEPT ![p] = s]
    BY <1>0, <1>1, Moves
  <2>3. Writes(p, {}) /\ todo'[p] = s
    BY <1>0, <2>1, <2>2, Quiet DEF Plan
  <2>4. seen'[p] = row /\ left'[p] = Advanceable
    BY <1>0, <1>1 DEF GateRead, TypeOK
  <2>5. GateKnows(p)'
    BY <2>1, <2>3, <2>4 DEF GateKnows, Advanceable, Status_
  <2>6. Knows(p)'
    BY <2>3, <2>5 DEF Knows, ScanKnows, LandKnows
  <2>7. QED
    BY <2>1, <2>3, <2>6, InformedKept
<1>2. CASE GateLock(p)
  <2>1. UNCHANGED <<row, body, block, seen, flock, history>> /\ lock = Free /\ lock' = p
    BY <1>2 DEF GateLock
  <2>2. todo[p] = Lock6 /\ todo' = [todo EXCEPT ![p] = Write5]
    BY <1>0, <1>2, Moves
  <2>3. Writes(p, {}) /\ todo'[p] = Write5
    BY <1>0, <2>1, <2>2, Quiet DEF Plan
  <2>4. left'[p] = {i \in left[p] : row[i].status = seen[p][i].status}
    BY <1>0, <1>2 DEF GateLock, StillGated, Writable, Status_, TypeOK
  <2>5. behind' = behind
    BY <2>1 DEF history
  <2>6. GateKnows(p)'
    BY <1>0, <2>1, <2>2, <2>3, <2>4, <2>5 DEF Knows, GateKnows
  <2>7. Knows(p)'
    BY <2>3, <2>6 DEF Knows, ScanKnows, LandKnows
  <2>8. QED
    BY <2>1, <2>3, <2>7, InformedKept
<1>3. CASE GateWrite(p)
  <2>1. todo[p] = Write5 /\ todo' = [todo EXCEPT ![p] = Holding4]
    BY <1>0, <1>3, Moves
  <2>2. todo'[p] = Holding4 /\ \A q \in Process \ {p} : todo'[q] = todo[q]
    BY <1>0, <2>1, PlanKept DEF Plan
  <2>3. Knows(p)'
    BY <2>2, KnowsNothing DEF Knowing
  <2>4. lock = p /\ lock' = Free /\ UNCHANGED <<block, flock>>
    BY <1>0, <1>3, <2>1 DEF Knows, GateKnows, GateWrite
  <2>5. left[p] \in SUBSET Id /\ Overtakes(p, left[p])
    BY <1>0, <1>3 DEF TypeOK, GateWrite
  <2>6. \A i \in Id \ left[p] : row'[i] = row[i] /\ body'[i] = body[i]
    BY <1>3 DEF GateWrite, Informed, Basic, TextsKnown
  <2>7. Writes(p, left[p])
    BY <1>0, <2>2, <2>4, <2>5, <2>6, OvertakesTells DEF Writes
  <2>8. QED
    BY <2>3, <2>4, <2>5, <2>7, InformedKept
<1>4. QED
  BY <1>1, <1>2, <1>3

\* The scanner, from its read to its last append.
LEMMA InformedScan ==
    ASSUME Informed, Basic', NEW p \in Process,
           ScanRead(p) \/ Gather(p) \/ ScanAppend(p)
    PROVE  Informed'
<1>0. TypeOK /\ PlanOK /\ Knows(p) /\ Elsewhere(p)
  BY ActsAlone DEF Informed, Basic, Work
<1> USE PlanHeads
<1>1. CASE ScanRead(p)
  <2>1. UNCHANGED <<row, body, block, flock, lock>> /\ Looks(p)
    BY <1>1 DEF ScanRead, fixed
  <2>2. Writes(p, {}) /\ todo'[p] = Gather2
    BY <1>0, <1>1, <2>1, Moves, Quiet DEF Plan
  <2>3. seen'[p] = row
    BY <1>0, <1>1 DEF ScanRead, TypeOK
  <2>4. Knows(p)'
    BY <2>1, <2>2, <2>3 DEF Knows, GateKnows, ScanKnows, LandKnows
  <2>5. QED
    BY <2>1, <2>2, <2>4, InformedKept
<1>2. CASE Gather(p)
  <2>1. UNCHANGED <<row, body, block, seen, flock, lock, history>> /\ todo[p] = Gather2
    BY <1>0, <1>2, Moves DEF Gather
  <2>2. Writes(p, {}) /\ todo'[p] = Append1
    BY <1>0, <1>2, <2>1, Moves, Quiet DEF Plan
  <2>3. left'[p] \subseteq Id
    <3>1. left' \in [Process -> SUBSET Id]
      BY DEF Basic, TypeOK
    <3>2. QED
      BY <3>1
  <2>4. Knows(p)'
    BY <1>0, <2>1, <2>2, <2>3 DEF Knows, GateKnows, ScanKnows, LandKnows, history
  <2>5. QED
    BY <2>1, <2>2, <2>4, InformedKept
<1>3. CASE ScanAppend(p)
  <2>1. todo[p] = Append1 /\ UNCHANGED <<block, flock, lock>>
    BY <1>0, <1>3, Moves DEF ScanAppend, fixed
  <2>2. ASSUME NEW i \in left[p], ShellMayAppend,
               Append_(i, [seen[p][i] EXCEPT !.enriched = TRUE]),
               left' = [left EXCEPT ![p] = @ \ {i}], UNCHANGED <<todo, seen, task>>,
               Overtakes(p, {i})
        PROVE  Informed'
    <3>1. i \in Id
      BY <1>0 DEF TypeOK
    <3>2. \A j \in Id \ {i} : row'[j] = row[j] /\ body'[j] = body[j]
      BY <1>0, <2>2, <3>1 DEF Append_, TypeOK
    <3>3. Writes(p, {i})
      BY <1>0, <2>1, <2>2, <3>1, <3>2, OvertakesTells DEF Writes, ShellMayAppend
    <3>4. behind'[p] = behind[p] /\ todo'[p] = Append1
      <4>1. Holds(p)'
        BY <2>1, <2>2 DEF Holds, Idle, Stale
      <4>2. QED
        BY <2>1, <2>2, <4>1 DEF Overtakes
    <3>5. \A j \in left'[p] : j \in left[p] /\ j # i /\ j \in Id
      BY <1>0, <2>2 DEF TypeOK
    <3>6. ScanKnows(p)'
      BY <1>0, <2>1, <2>2, <3>2, <3>4, <3>5 DEF Knows, ScanKnows
    <3>7. Knows(p)'
      BY <3>4, <3>6 DEF Knows, GateKnows, LandKnows
    <3>8. QED
      BY <2>1, <3>1, <3>3, <3>7, InformedKept
  <2>3. CASE left[p] = {} /\ Looks(p) /\ On(p) /\ UNCHANGED <<row, body>>
    <3>1. todo' = [todo EXCEPT ![p] = <<>>]
      BY <2>1, <2>3, PlanTails DEF On, Go
    <3>2. Writes(p, {}) /\ todo'[p] = <<>>
      BY <1>0, <2>1, <2>3, <3>1, Quiet DEF Plan
    <3>3. Knows(p)'
      BY <3>2, KnowsNothing DEF Knowing
    <3>4. QED
      BY <2>1, <3>2, <3>3, InformedKept
  <2>4. QED
    BY <1>3, <2>2, <2>3 DEF ScanAppend
<1>4. QED
  BY <1>1, <1>2, <1>3

\* Landing a hop or a verdict.
LEMMA InformedLanding ==
    ASSUME Informed, Basic', NEW p \in Process, Read(p) \/ Put(p) \/ Flip(p)
    PROVE  Informed'
<1>0. TypeOK /\ PlanOK /\ Knows(p) /\ Elsewhere(p)
  BY ActsAlone DEF Informed, Basic, Work
<1>1. task[p] \in Task /\ task[p].id \in Id
  BY <1>0 DEF TypeOK, Task
<1> USE PlanHeads, LandingPlans
<1>2. CASE Read(p)
  <2>1. /\ UNCHANGED <<row, body, block, flock, lock>> /\ todo[p] \in {ReadPut, Landing}
        /\ UNCHANGED history \/ Looks(p)
    BY <1>0, <1>2, Moves DEF Read, fixed
  <2>2. CASE Refused(task[p])
    <3>1. Writes(p, {}) /\ todo'[p] = <<>>
      BY <1>0, <1>2, <2>1, <2>2, Moves, Quiet DEF Plan
    <3>2. Knows(p)'
      BY <3>1, KnowsNothing DEF Knowing
    <3>3. QED
      BY <2>1, <3>1, <3>2, InformedKept
  <2>3. CASE ~Refused(task[p])
    <3>1. PICK s \in {Put1, PutFlip} :
              todo' = [todo EXCEPT ![p] = s] /\ (s = PutFlip => todo[p] = Landing)
      BY <1>0, <1>2, <2>3, Moves
    <3>2. Writes(p, {}) /\ todo'[p] = s
      BY <1>0, <2>1, <3>1, Quiet DEF Plan
    <3>3. task'[p] = task[p] /\ seen'[p][task[p].id] = Composed(task[p])
      BY <1>0, <1>1, <1>2, <2>3 DEF Read, TypeOK
    <3>4. task[p].typed => behind' = behind
      BY <1>2 DEF Read, history
    <3>5. task[p].id \notin behind'[p] /\ Terminal(task[p].id) => task[p].to \in HardTerminal
      BY <1>0, <2>1, <2>3, <3>4 DEF Knows, LandKnows, Refused
    <3>6. task[p].id \notin behind'[p] => row[task[p].id].text <= Composed(task[p]).text
      <4>1. /\ row[task[p].id].text \in Nat /\ body[task[p].id] \in Nat
            /\ row[task[p].id].text \in {0, body[task[p].id]}
        BY <1>0, <1>1, QueueAssumption DEF TypeOK, Row, Informed, Basic, TextsKnown
      <4>2. CASE task[p].typed
        <5>1. Composed(task[p]).text = EventText(task[p], body[task[p].id])
          BY <4>2 DEF Composed
        <5>2. task[p].id \notin behind'[p] /\ task[p].text # 0 =>
                body[task[p].id] <= task[p].text
          BY <1>0, <2>1, <3>4, <4>2 DEF Knows, LandKnows
        <5>3. task[p].text \in Nat
          BY <1>1, QueueAssumption DEF Task
        <5>4. QED
          BY <4>1, <5>1, <5>2, <5>3 DEF EventText, Text
      <4>3. CASE ~task[p].typed
        <5>1. row[task[p].id] \in Row
          BY <1>0, <1>1 DEF TypeOK
        <5>2. Composed(task[p]).text = row[task[p].id].text
          BY <4>3, <5>1 DEF Composed, Row
        <5>3. QED
          BY <4>1, <5>2
      <4>4. QED
        BY <4>2, <4>3
    <3>7. s = PutFlip => task[p].to = "promoted"
      BY <1>0, <3>1 DEF Knows, LandKnows
    <3>8. LandKnows(p)'
      BY <2>1, <3>1, <3>2, <3>3, <3>5, <3>6, <3>7 DEF LandKnows, Terminal, Status_
    <3>9. Knows(p)'
      BY <3>1, <3>2, <3>8, KnowsTask
    <3>10. QED
      BY <2>1, <3>2, <3>9, InformedKept
  <2>4. QED
    BY <2>2, <2>3
<1>3. CASE Put(p)
  <2>1. PICK s \in {Flip1, <<>>} : /\ todo' = [todo EXCEPT ![p] = s]
                                   /\ s = Flip1 => todo[p] = PutFlip
    BY <1>0, <1>3, Moves
  <2>2. todo'[p] = s /\ \A q \in Process \ {p} : todo'[q] = todo[q]
    BY <1>0, <2>1, PlanKept DEF Plan
  <2>3. UNCHANGED <<block, flock, lock>> /\ Overtakes(p, {task[p].id}) /\ ShellMayAppend
    BY <1>3 DEF Put, fixed
  <2>4. \A i \in Id \ {task[p].id} : row'[i] = row[i] /\ body'[i] = body[i]
    BY <1>0, <1>1, <1>3 DEF Put, Append_, TypeOK
  <2>5. Writes(p, {task[p].id})
    BY <1>0, <1>1, <2>2, <2>3, <2>4, OvertakesTells DEF Writes, ShellMayAppend
  <2>6. Knows(p)'
    <3>1. CASE s = <<>>
      BY <2>2, <3>1, KnowsNothing DEF Knowing
    <3>2. CASE s = Flip1
      <4>1. task'[p] = task[p]
        <5>1. Len(todo[p]) = 2
          BY <2>1, <3>2, PlanTails
        <5>2. QED
          BY <1>3, <5>1 DEF Put, LetGo
      <4>2. row'[task[p].id] = seen[p][task[p].id]
        BY <1>0, <1>1, <1>3 DEF Put, Append_, TypeOK
      <4>3. row'[task[p].id].status = "promoted"
        BY <1>0, <2>1, <3>2, <4>2 DEF Knows, LandKnows, Informed, Basic, PutsAsked
      <4>4. task[p].id \in promoted'
        BY <1>1, <2>3, <4>3 DEF Overtakes
      <4>5. LandKnows(p)'
        BY <2>2, <3>2, <4>1, <4>4 DEF LandKnows
      <4>6. QED
        BY <2>2, <3>2, <4>5, KnowsTask
    <3>3. QED
      BY <3>1, <3>2
  <2>7. QED
    BY <1>1, <2>3, <2>5, <2>6, InformedKept
<1>4. CASE Flip(p)
  <2>1. todo[p] = Flip1 /\ UNCHANGED <<row, body, flock, lock, history>>
    BY <1>0, <1>4, Moves DEF Flip, fixed
  <2>2. Writes(p, {}) /\ todo'[p] = <<>>
    BY <1>0, <1>4, <2>1, Moves, Quiet DEF Plan
  <2>3. Knows(p)'
    BY <2>2, KnowsNothing DEF Knowing
  <2>4. \A i \in Id : block'[i] = "settled" => block[i] = "settled" \/ i \in promoted
    BY <1>0, <1>4, <2>1 DEF Flip, TypeOK, Knows, LandKnows
  <2>5. QED
    BY <2>2, <2>3, <2>4, InformedKept
<1>5. QED
  BY <1>2, <1>3, <1>4

LEMMA InformedStep == Informed /\ [Next]_vars => Informed'
<1> SUFFICES ASSUME Informed, [Next]_vars PROVE Informed'
  OBVIOUS
<1>0. Basic' /\ TypeOK /\ PlanOK
  BY BasicStep DEF Informed, Basic
<1>1. ASSUME NEW p \in Process, Extract(p) \/ CountHolding(p) \/ Crash(p)
      PROVE  Informed'
  <2>1. PICK s \in {Birth8, Scan3, <<>>} : todo' = [todo EXCEPT ![p] = s]
    BY <1>0, <1>1, Moves
  <2>2. Elsewhere(p)
    BY <1>0, <1>1, ActsAlone DEF Work
  <2>3. /\ UNCHANGED <<row, body, block, flock>> /\ (UNCHANGED history \/ Looks(p))
        /\ lock' = lock \/ lock \in {Free, p}
    BY <1>1 DEF Extract, CountHolding, Crash, fixed
  <2>4. Writes(p, {}) /\ todo'[p] = s
    BY <1>0, <2>1, <2>2, <2>3, Quiet DEF Plan
  <2>5. Knows(p)'
    BY <2>1, <2>4, KnowsNothing, PlanHeads DEF Knowing
  <2>6. QED
    BY <1>0, <2>3, <2>4, <2>5, InformedKept
<1>2. CASE UNCHANGED vars
  <2>1. UNCHANGED <<row, body, block, flock, lock, todo, task, seen, left, behind, promoted>>
    BY <1>2 DEF vars, fixed, history
  <2>2. \A p \in Process : Knows(p)'
    BY <2>1 DEF Informed, Knows, GateKnows, ScanKnows, LandKnows, Terminal, Status_
  <2>3. QED
    BY <1>0, <2>1, <2>2 DEF Informed, BlockAfterRow
<1>3. QED
  BY <1>0, <1>1, <1>2, InformedBegin, InformedBirth, InformedGate, InformedScan,
     InformedLanding DEF Next, Work

LEMMA InformedAlways == Spec => []Informed
BY InformedInit, InformedStep, PTL DEF Spec

-----------------------------------------------------------------------------
(* What a step does to a settled candidate and to its text *)

\* Whoever unsettles a candidate was overtaken, and is no gate under flock(1).
Undoing(i) ==
    \E p \in Process : Acts(p) /\ i \in behind[p] /\ ~(flock /\ Is(p, "write"))
Overtaken(i) == \E p \in Process : Acts(p) /\ i \in behind[p]

StepKeeps(i) ==
    /\ Terminal(i) /\ ~Terminal(i)' => Undoing(i)
    /\ row'[i].text < row[i].text => Overtaken(i)

LEMMA SameKeeps ==
    ASSUME TypeOK, NEW i \in Id, row'[i].status = row[i].status, row'[i].text = row[i].text
    PROVE  StepKeeps(i)
<1>1. row[i].text \in Nat
  BY QueueAssumption DEF TypeOK, Row
<1>2. QED
  BY <1>1 DEF StepKeeps, Terminal, Status_

LEMMA BirthKeeps ==
    ASSUME Informed, NEW p \in Process, Birth(p), NEW i \in Id
    PROVE  StepKeeps(i)
<1>0. TypeOK
  BY DEF Informed, Basic
<1>1. CASE row' = row
  BY <1>0, <1>1, SameKeeps
<1>2. ASSUME NEW j \in left[p], NEW s \in {"extracted", "enrichment_needed"},
             MayBeBorn(j), Append_(j, Born(s))
      PROVE  StepKeeps(i)
  <2>1. j \in Id /\ row[j] = NoRow
    BY <1>0, <1>2 DEF TypeOK, MayBeBorn, Absent
  <2>2. CASE i = j
    <3>1. row'[i].text = 1 /\ row[i].text = 0 /\ row[i].status = "none"
      BY <1>0, <1>2, <2>1, <2>2 DEF Append_, Born, NoRow, TypeOK
    <3>2. QED
      BY <3>1 DEF StepKeeps, Terminal, Status_, HardTerminal
  <2>3. CASE i # j
    BY <1>0, <1>2, <2>1, <2>3, SameKeeps DEF Append_, TypeOK
  <2>4. QED
    BY <2>2, <2>3
<1>3. QED
  BY <1>1, <1>2 DEF Birth

LEMMA GateKeeps ==
    ASSUME Informed, NEW p \in Process, GateWrite(p), NEW i \in Id
    PROVE  StepKeeps(i)
<1>0. TypeOK /\ PlanOK /\ Knows(p)
  BY DEF Informed, Basic
<1>1. todo[p] = Write5 /\ todo'[p] = Holding4
  BY <1>0, Moves DEF PlanOK
<1>2. Acts(p)
  BY <1>1, PlanHeads DEF Acts
<1>3. CASE i \notin left[p]
  BY <1>0, <1>3, SameKeeps DEF GateWrite
<1>4. CASE i \in left[p]
  <2>1. /\ seen[p][i] \in Row /\ seen[p][i].status = "tic_gated"
        /\ i \in behind[p] \/ seen[p][i] = row[i]
        /\ flock => row[i].status = "tic_gated"
    BY <1>0, <1>1, <1>4 DEF Knows, GateKnows, TypeOK
  <2>2. row'[i].text = seen[p][i].text
    BY <1>4, <2>1 DEF GateWrite, Row
  <2>3. seen[p][i].text \in Nat
    BY <2>1, QueueAssumption DEF Row
  <2>4. QED
    BY <1>2, <2>1, <2>2, <2>3
       DEF StepKeeps, Undoing, Overtaken, Terminal, Status_, HardTerminal
<1>5. QED
  BY <1>3, <1>4

LEMMA ScanKeeps ==
    ASSUME Informed, NEW p \in Process, ScanAppend(p), NEW i \in Id
    PROVE  StepKeeps(i)
<1>0. TypeOK /\ PlanOK /\ Knows(p)
  BY DEF Informed, Basic
<1>1. todo[p] = Append1
  BY <1>0, Moves
<1>2. CASE row' = row
  BY <1>0, <1>2, SameKeeps
<1>3. ASSUME NEW j \in left[p], Append_(j, [seen[p][j] EXCEPT !.enriched = TRUE]),
             left' = [left EXCEPT ![p] = @ \ {j}]
      PROVE  StepKeeps(i)
  <2>1. j \in Id /\ seen[p][j] \in Row /\ (j \in behind[p] \/ seen[p][j] = row[j])
    BY <1>0, <1>1 DEF Knows, ScanKnows, TypeOK
  <2>2. Acts(p) /\ ~Is(p, "write")
    BY <1>0, <1>1, <1>3, PlanHeads DEF Acts, Is, TypeOK
  <2>3. CASE i # j
    BY <1>0, <1>3, <2>1, <2>3, SameKeeps DEF Append_, TypeOK
  <2>4. CASE i = j
    <3>1. row'[i] = [seen[p][i] EXCEPT !.enriched = TRUE]
      BY <1>0, <1>3, <2>1, <2>4 DEF Append_, TypeOK
    <3>2. row'[i].status = seen[p][i].status /\ row'[i].text = seen[p][i].text
      BY <2>1, <2>4, <3>1 DEF Row
    <3>3. CASE i \in behind[p]
      BY <2>2, <3>3 DEF StepKeeps, Undoing, Overtaken
    <3>4. CASE seen[p][i] = row[i]
      BY <1>0, <3>2, <3>4, SameKeeps
    <3>5. QED
      BY <2>1, <2>4, <3>3, <3>4
  <2>5. QED
    BY <2>3, <2>4
<1>4. QED
  BY <1>2, <1>3 DEF ScanAppend

LEMMA PutKeeps ==
    ASSUME Informed, Informed', NEW p \in Process, Put(p), NEW i \in Id
    PROVE  StepKeeps(i)
<1>0. TypeOK /\ TypeOK' /\ PlanOK /\ Knows(p)
  BY DEF Informed, Basic
<1>1. /\ todo[p] \in {Put1, PutFlip} /\ task[p].id \in Id
      /\ seen[p][task[p].id].status = task[p].to
  BY <1>0, Moves DEF TypeOK, Task, Informed, Basic, PutsAsked
<1>2. todo'[p] \in {Flip1, <<>>}
  BY <1>0, Moves DEF PlanOK
<1>3. Acts(p) /\ ~Is(p, "write")
  BY <1>1, <1>2, PlanHeads DEF Acts, Is
<1>4. CASE i # task[p].id
  BY <1>0, <1>1, <1>4, SameKeeps DEF Put, Append_, TypeOK
<1>5. CASE i = task[p].id
  <2>1. row'[i] = seen[p][i]
    BY <1>0, <1>1, <1>5 DEF Put, Append_, TypeOK
  <2>2. i \notin behind[p] =>
          (Terminal(i) => task[p].to \in HardTerminal) /\ row[i].text <= seen[p][i].text
    BY <1>0, <1>1, <1>5 DEF Knows, LandKnows
  <2>3. row[i].text \in Nat /\ row'[i].text \in Nat
    BY <1>0, QueueAssumption DEF TypeOK, Row
  <2>4. QED
    BY <1>1, <1>3, <1>5, <2>1, <2>2, <2>3
       DEF StepKeeps, Undoing, Overtaken, Terminal, Status_
<1>6. QED
  BY <1>4, <1>5

LEMMA InformedStepKeeps ==
    ASSUME Informed, Informed', [Next]_vars, NEW i \in Id
    PROVE  StepKeeps(i)
<1>0. TypeOK
  BY DEF Informed, Basic
<1>1. CASE row' = row
  BY <1>0, <1>1, SameKeeps
<1>2. ASSUME NEW p \in Process, Extract(p) \/ GateRead(p) \/ GateLock(p) \/ CountHolding(p)
      PROVE  row' = row
  BY <1>2 DEF Extract, GateRead, GateLock, CountHolding
<1>3. ASSUME NEW p \in Process, ScanRead(p) \/ Gather(p) \/ Read(p) \/ Flip(p) \/ Crash(p)
      PROVE  row' = row
  BY <1>3 DEF ScanRead, Gather, Read, Flip, Crash
<1>4. ASSUME NEW p \in Process,
             \/ Boot(p) \/ Enrich(p)
             \/ \E j \in Id : Ingest(p, j)
             \/ \E j \in Id, to \in Status : Step(p, j, to)
             \/ \E j \in Id, to \in Status, text \in 0..MaxText, typed \in BOOLEAN :
                   Verdict(p, j, to, text, typed)
      PROVE  row' = row
  BY <1>4 DEF Boot, Enrich, Ingest, Step, Verdict, Begin
<1>5. UNCHANGED vars => row' = row
  BY DEF vars
<1>6. QED
  BY <1>1, <1>2, <1>3, <1>4, <1>5, BirthKeeps, GateKeeps, ScanKeeps, PutKeeps
     DEF Next, Work

\* review-promote-writeback.py closes an author's block only behind a promotion of
\* its candidate, wherever the reviewer is killed and whoever else writes.
THEOREM BlocksAfterRows == Spec => []BlockAfterRow
<1>1. Informed => BlockAfterRow
  BY DEF Informed
<1>2. QED
  BY <1>1, InformedAlways, PTL

\* Whatever overlaps, with flock(1) or without: a promotion or a skip that has landed
\* is undone only by a writer that another append overtook after its own look at
\* the candidate, and where flock(1) excludes the shell never by the gate.
THEOREM VerdictsHold == Spec => VerdictHolds
<1>1. Informed /\ Informed' /\ [Next]_vars =>
        [\A i \in Id : Terminal(i) /\ ~Terminal(i)' =>
            \E p \in Process : Acts(p) /\ i \in behind[p] /\ ~(flock /\ Is(p, "write"))]_vars
  BY InformedStepKeeps DEF StepKeeps, Undoing
<1>2. QED
  BY <1>1, InformedAlways, PTL DEF Spec, VerdictHolds

\* The latest text of a candidate goes blank or falls back only with a writer that
\* was overtaken: none that holds the latest row loses a formulation.
THEOREM TextsKept == Spec => TextKept
<1>1. Informed /\ Informed' /\ [Next]_vars =>
        [\A i \in Id : row'[i].text < row[i].text =>
            \E p \in Process : Acts(p) /\ i \in behind[p]]_vars
  BY InformedStepKeeps DEF StepKeeps, Overtaken
<1>2. QED
  BY <1>1, InformedAlways, PTL DEF Spec, TextKept
=============================================================================
