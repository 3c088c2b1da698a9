-------------------------- MODULE InboxEnvelopeProofs --------------------------
(***************************************************************************)
(* TLAPS proofs about InboxEnvelope, for every set of processes and keys.  *)
(***************************************************************************)
EXTENDS InboxEnvelope, FiniteSetTheorems, TLAPS

-----------------------------------------------------------------------------
(* The shape of the work in progress *)

Steps == {"start", "write", "remove", "load", "save", "receipt"}
Delivering(x) == x.do \in {"check", "deliver"}
Moving(x) == x.do \in {"transition", "supersede"}

\* A process is in the middle of a task only if that task has such a step.
Stage(p) ==
    /\ step[p] # "start" => ~Idle(p)
    /\ step[p] \in {"write", "remove", "receipt"} => Moves(p)
    /\ step[p] = "receipt" => Task_(p).to \in Terminal
    /\ step[p] = "load" => Moves(p) \/ Doing(p, "deliver")
    /\ step[p] = "save" => Moves(p) \/ Doing(p, "deliver") \/ Doing(p, "reconcile")

\* A delivery ends an invocation; what is moved exists; only an envelope
\* whose policy says so is superseded.
Apt(x) ==
    /\ Moving(x) => x.id <= Len(made)
    /\ x.do = "supersede" => Policy[made[x.id]] = "latest_wins"
    /\ x.do = "each" => \A m \in x.ids : m <= Len(made)
    /\ x.do = "each" => x.to \in {"NACK", "WAIT"}
AptWork(p) ==
    \A i \in DOMAIN todo[p] :
        Apt(todo[p][i]) /\ (Delivering(todo[p][i]) => i = Len(todo[p]))

\* The registry names envelopes by the key they were built for.
Known(r) == \A k \in Key : r[k].id # 0 => r[k].id <= Len(made) /\ made[r[k].id] = k

\* What a process holds is what its task is about.
Grip(p) ==
    /\ Moves(p) /\ step[p] \in {"write", "remove"} =>
          held[p].id = Task_(p).id /\ Legal(Task_(p), held[p])
    /\ Moves(p) /\ step[p] \in {"load", "save"} => held[p].id = Task_(p).id
    /\ Doing(p, "deliver") /\ step[p] # "start" =>
          held[p].id <= Len(made) /\ made[held[p].id] = Task_(p).key

Local(p) == Stage(p) /\ AptWork(p) /\ Known(copy[p]) /\ Grip(p)

\* Envelopes still to be built.
Pending(p) == Delivers(p) /\ ~(Doing(p, "deliver") /\ step[p] # "start")
Pendings == {p \in Process : Pending(p)}
Fits == Len(made) + Cardinality(Pendings) <= MaxId

Built == \A f \in files : f.id <= Len(made)

Core == TypeOK /\ (\A p \in Process : Local(p)) /\ Known(index) /\ Built /\ Fits

LEMMA Replacing ==
    ASSUME NEW t \in Seq(Task), t # <<>>, NEW tasks \in Seq(Task), NEW u, u = tasks \o Tail(t)
    PROVE  /\ u \in Seq(Task) /\ Len(u) = Len(tasks) + Len(t) - 1
           /\ \A i \in DOMAIN u :
                 \/ i \in DOMAIN tasks /\ i <= Len(tasks) /\ u[i] = tasks[i]
                 \/ /\ i > Len(tasks) /\ i - Len(tasks) + 1 \in DOMAIN t
                    /\ i - Len(tasks) + 1 >= 2 /\ u[i] = t[i - Len(tasks) + 1]
<1>1. /\ Len(t) \in Nat \ {0} /\ DOMAIN t = 1..Len(t) /\ Tail(t) \in Seq(Task)
      /\ Len(Tail(t)) = Len(t) - 1 /\ \A j \in 1..Len(t) - 1 : Tail(t)[j] = t[j + 1]
  OBVIOUS
<1>2. /\ Len(tasks) \in Nat /\ DOMAIN tasks = 1..Len(tasks)
      /\ u \in Seq(Task) /\ Len(u) = Len(tasks) + Len(t) - 1 /\ DOMAIN u = 1..Len(u)
  BY <1>1
<1>3. \A i \in 1..Len(tasks) : u[i] = tasks[i]
  BY <1>1, <1>2
<1>4. \A i \in 1..Len(u) : i > Len(tasks) => u[i] = t[i - Len(tasks) + 1]
  BY <1>1, <1>2
<1>5. QED
  BY <1>1, <1>2, <1>3, <1>4

LEMMA TaskForms ==
    /\ \A x \in Task : Moving(x) => x.id \in Id /\ x.to \in State /\ x.due \in 0..MaxTic
    /\ \A x \in Task : x.do = "supersede" => x.to = "NACK"
    /\ \A x \in Task : Delivering(x) => x.key \in Key
    /\ \A x \in Task : x.do = "each" => x.to \in State /\ x.ids \subseteq Id
    /\ \A m \in Id, to \in State, due \in 0..MaxTic : Transition(m, to, due) \in Task
    /\ \A m \in Id : Supersede(m) \in Task
    /\ \A k \in Key : Check(k) \in Task /\ Deliver(k) \in Task
    /\ Reconcile \in Task /\ List("resurface") \in Task /\ List("close") \in Task
    /\ \A to \in State, ids \in SUBSET Id : Each(to, ids) \in Task
<1>1. /\ \A x \in Task : Moving(x) => x.id \in Id /\ x.to \in State /\ x.due \in 0..MaxTic
      /\ \A x \in Task : x.do = "supersede" => x.to = "NACK"
  BY InboxAssumption DEF Task, Moving, State
<1>2. \A x \in Task : Delivering(x) => x.key \in Key
  BY DEF Task, Delivering
<1>3. \A x \in Task : x.do = "each" => x.to \in State /\ x.ids \subseteq Id
  BY DEF Task
<1>4. \A m \in Id, to \in State, due \in 0..MaxTic : Transition(m, to, due) \in Task
  BY DEF Task, Transition
<1>5. /\ \A m \in Id : Supersede(m) \in Task
      /\ \A k \in Key : Check(k) \in Task /\ Deliver(k) \in Task
  BY DEF Task, Supersede, Check, Deliver
<1>6. Reconcile \in Task /\ List("resurface") \in Task /\ List("close") \in Task
  BY DEF Task, Reconcile, List
<1>7. \A to \in State, ids \in SUBSET Id : Each(to, ids) \in Task
  BY DEF Task, Each
<1>8. QED
  BY <1>1, <1>2, <1>3, <1>4, <1>5, <1>6, <1>7

LEMMA Lists ==
    /\ <<>> \in Seq(Task) /\ DOMAIN <<>> = {}
    /\ \A a \in Task : /\ <<a>> \in Seq(Task) /\ DOMAIN <<a>> = {1} /\ Len(<<a>>) = 1
                       /\ <<a>>[1] = a
    /\ \A a, b \in Task : /\ <<a, b>> \in Seq(Task) /\ DOMAIN <<a, b>> = {1, 2}
                          /\ <<a, b>>[1] = a /\ <<a, b>>[2] = b /\ Len(<<a, b>>) = 2
    /\ \A a, b, c, d \in Task :
          /\ <<a, b, c, d>> \in Seq(Task) /\ DOMAIN <<a, b, c, d>> = {1, 2, 3, 4}
          /\ <<a, b, c, d>>[1] = a /\ <<a, b, c, d>>[2] = b
          /\ <<a, b, c, d>>[3] = c /\ <<a, b, c, d>>[4] = d /\ Len(<<a, b, c, d>>) = 4
<1>1. <<>> \in Seq(Task) /\ DOMAIN <<>> = {}
  OBVIOUS
<1>2. \A a \in Task : <<a>> \in Seq(Task) /\ DOMAIN <<a>> = {1} /\ Len(<<a>>) = 1 /\ <<a>>[1] = a
  OBVIOUS
<1>3. \A a, b \in Task : /\ <<a, b>> \in Seq(Task) /\ DOMAIN <<a, b>> = {1, 2}
                         /\ <<a, b>>[1] = a /\ <<a, b>>[2] = b /\ Len(<<a, b>>) = 2
  OBVIOUS
<1>4. \A a, b, c, d \in Task :
         /\ <<a, b, c, d>> \in Seq(Task) /\ DOMAIN <<a, b, c, d>> = {1, 2, 3, 4}
         /\ <<a, b, c, d>>[1] = a /\ <<a, b, c, d>>[2] = b
         /\ <<a, b, c, d>>[3] = c /\ <<a, b, c, d>>[4] = d /\ Len(<<a, b, c, d>>) = 4
  OBVIOUS
<1>5. QED
  BY <1>1, <1>2, <1>3, <1>4

LEMMA FirstTask ==
    ASSUME TypeOK, NEW p \in Process, ~Idle(p)
    PROVE  /\ todo[p] \in Seq(Task) /\ todo[p] # <<>> /\ 1 \in DOMAIN todo[p]
           /\ Task_(p) = todo[p][1] /\ Task_(p) \in Task
BY DEF TypeOK, Idle, Task_

LEMMA InitCore == Init => Core
<1> SUFFICES ASSUME Init PROVE Core
  OBVIOUS
<1>0. NoFile.id = 1 /\ NoFile.state = "WAIT" /\ NoFile.due = 0 /\ NoIndex \in Index
  BY InboxAssumption DEF NoFile, NoIndex, Index, State
<1>1. \A p \in Process : todo[p] = <<>> /\ step[p] = "start" /\ held[p] = NoFile /\ copy[p] = NoIndex
  BY DEF Init
<1>2. \A p \in Process : Idle(p) /\ DOMAIN todo[p] = {} /\ ~Delivers(p) /\ ~Moves(p) /\ ~Doing(p, "deliver")
  BY <1>1 DEF Idle, Delivers, Moves, Doing
<1>3. TypeOK
  <2>1. NoFile \in File
    BY <1>0, InboxAssumption DEF NoFile, File, Id, State
  <2>2. todo \in [Process -> Seq(Task)] /\ step \in [Process -> Steps]
    BY <1>1 DEF Init, Steps
  <2>3. held \in [Process -> File] /\ copy \in [Process -> Index] /\ index \in Index
    BY <1>0, <2>1 DEF Init
  <2>4. tic \in 0..MaxTic /\ crashes \in 0..MaxCrash /\ made \in Seq(Key) /\ Len(made) <= MaxId
    BY InboxAssumption DEF Init
  <2>5. files \subseteq File /\ receipts \subseteq (Id \X Terminal) /\ raced \in BOOLEAN
    BY DEF Init
  <2>6. QED
    BY <2>2, <2>3, <2>4, <2>5 DEF TypeOK, Steps
<1>4. Known(NoIndex)
  BY DEF Known, NoIndex
<1>5. \A p \in Process : Local(p)
  BY <1>1, <1>2, <1>4 DEF Local, Stage, AptWork, Grip
<1>6. Known(index) /\ Built
  BY <1>4 DEF Init, Built
<1>7. Fits
  <2>1. Pendings = {}
    BY <1>2 DEF Pendings, Pending
  <2>2. Len(made) = 0 /\ Cardinality(Pendings) = 0
    BY <2>1, FS_EmptySet DEF Init
  <2>3. QED
    BY <2>2, InboxAssumption DEF Fits
<1>8. QED
  BY <1>3, <1>5, <1>6, <1>7 DEF Core

-----------------------------------------------------------------------------
(* What a step changes *)

\* A step of p, as the others see it.
Aside(p) ==
    \A q \in Process \ {p} :
        /\ todo'[q] = todo[q] /\ step'[q] = step[q]
        /\ held'[q] = held[q] /\ copy'[q] = copy[q]

Grown ==
    /\ made' \in Seq(Key) /\ Len(made) <= Len(made')
    /\ \A m \in 1..Len(made) : made'[m] = made[m]

LEMMA KeptLocal ==
    ASSUME Core, Grown, NEW q \in Process, todo'[q] = todo[q], step'[q] = step[q],
           held'[q] = held[q], copy'[q] = copy[q]
    PROVE  Local(q)' /\ (Pending(q)' <=> Pending(q))
<1>1. /\ made \in Seq(Key) /\ todo[q] \in Seq(Task) /\ copy[q] \in Index /\ held[q] \in File
      /\ Local(q) /\ Len(made) \in Nat /\ Len(made') \in Nat
  BY DEF Core, TypeOK, Grown
<1>2. Stage(q)'
  BY <1>1 DEF Local, Stage, Idle, Moves, Doing, Task_
<1>3. AptWork(q)'
  <2>1. SUFFICES ASSUME NEW i \in DOMAIN todo[q]
                 PROVE  /\ Apt(todo[q][i])'
                        /\ Delivering(todo[q][i]) => i = Len(todo[q])
    BY DEF AptWork
  <2>2. /\ Apt(todo[q][i]) /\ (Delivering(todo[q][i]) => i = Len(todo[q]))
        /\ todo[q][i] \in Task
    BY <1>1 DEF Local, AptWork
  <2>3. Moving(todo[q][i]) => todo[q][i].id \in 1..Len(made)
    BY <2>2, <1>1, TaskForms DEF Apt, Id
  <2>4. todo[q][i].do = "each" => \A m \in todo[q][i].ids : m \in Nat /\ m <= Len(made)
    BY <2>2, <1>1, TaskForms DEF Apt, Id
  <2>5. Apt(todo[q][i])'
    BY <1>1, <2>2, <2>3, <2>4 DEF Apt, Grown, Moving
  <2>6. QED
    BY <2>2, <2>5
<1>4. Known(copy[q])'
  <2>1. SUFFICES ASSUME NEW k \in Key, copy[q][k].id # 0
                 PROVE  copy[q][k].id <= Len(made') /\ made'[copy[q][k].id] = k
    BY DEF Known
  <2>2. copy[q][k].id \in 1..Len(made) /\ made[copy[q][k].id] = k
    BY <1>1, <2>1, InboxAssumption DEF Local, Known, Index
  <2>3. QED
    BY <1>1, <2>2 DEF Grown
<1>5. Grip(q)'
  <2>1. held[q].id \in Nat /\ held[q].id >= 1
    BY <1>1 DEF File, Id
  <2>2. Doing(q, "deliver") /\ step[q] # "start" =>
           held[q].id <= Len(made') /\ made'[held[q].id] = Task_(q).key
    BY <1>1, <2>1 DEF Local, Grip, Grown
  <2>3. QED
    BY <1>1, <2>2 DEF Local, Grip, Doing, Moves, Idle, Task_, Legal
<1>6. Pending(q)' <=> Pending(q)
  BY DEF Pending, Delivers, Doing, Idle
<1>7. QED
  BY <1>2, <1>3, <1>4, <1>5, <1>6 DEF Local

\* A step of p that builds no envelope.
LEMMA StepCore ==
    ASSUME Core, NEW p \in Process, Aside(p), made' = made,
           TypeOK', Local(p)', Known(index)', Built', Pending(p)' => Pending(p)
    PROVE  Core'
<1>1. Grown
  BY DEF Core, TypeOK, Grown
<1>2. \A q \in Process \ {p} : Local(q)' /\ (Pending(q)' <=> Pending(q))
  BY <1>1, KeptLocal DEF Aside
<1>3. Pendings' \subseteq Pendings
  BY <1>2 DEF Pendings
<1>4. IsFiniteSet(Pendings) /\ IsFiniteSet(Pendings')
  BY <1>3, InboxAssumption, FS_Subset DEF Pendings
<1>5. /\ Cardinality(Pendings') <= Cardinality(Pendings)
      /\ Cardinality(Pendings) \in Nat /\ Cardinality(Pendings') \in Nat
  BY <1>3, <1>4, FS_Subset, FS_CardinalityType
<1>6. Fits'
  <2>1. Len(made) \in Nat
    BY DEF Core, TypeOK
  <2>2. QED
    BY <1>5, <2>1, InboxAssumption DEF Core, Fits
<1>7. QED
  BY <1>2, <1>6 DEF Core

\* Going on with the same task.
LEMMA Going ==
    ASSUME Core, NEW p \in Process, ~Idle(p), NEW s \in Steps \ {"start"}, Goto(p, s), made' = made
    PROVE  /\ todo' = todo /\ step' \in [Process -> Steps] /\ step'[p] = s
           /\ \A q \in Process \ {p} : step'[q] = step[q]
           /\ AptWork(p)' /\ ~Idle(p)' /\ Task_(p)' = Task_(p) /\ (Moves(p)' <=> Moves(p))
           /\ \A name : Doing(p, name)' <=> Doing(p, name)
           /\ Pending(p)' => Pending(p)
<1>1. todo' = todo /\ step \in [Process -> Steps] /\ step' = [step EXCEPT ![p] = s]
  BY DEF Goto, Core, TypeOK, Steps
<1>2. AptWork(p)'
  BY <1>1 DEF Core, Local, AptWork, Apt, Moving, Delivering
<1>3. QED
  BY <1>1, <1>2 DEF Idle, Task_, Moves, Doing, Pending, Delivers

\* Going on to further tasks.
LEMMA Replaced ==
    ASSUME Core, NEW p \in Process, ~Idle(p), NEW tasks \in Seq(Task), Replace(p, tasks),
           made' = made,
           \A i \in DOMAIN tasks :
              /\ Apt(tasks[i])
              /\ Delivering(tasks[i]) =>
                    i = Len(tasks) /\ Delivering(Task_(p)) /\ step[p] = "start"
    PROVE  /\ todo' \in [Process -> Seq(Task)] /\ step' \in [Process -> Steps]
           /\ step'[p] = "start" /\ todo'[p] = tasks \o Tail(todo[p])
           /\ \A q \in Process \ {p} : step'[q] = step[q] /\ todo'[q] = todo[q]
           /\ AptWork(p)' /\ (Pending(p)' => Pending(p))
<1>1. /\ todo \in [Process -> Seq(Task)] /\ step \in [Process -> Steps]
      /\ todo' = [todo EXCEPT ![p] = tasks \o Tail(@)]
      /\ step' = [step EXCEPT ![p] = "start"]
  BY DEF Replace, Core, TypeOK, Steps
<1>2. todo[p] \in Seq(Task) /\ todo[p] # <<>> /\ AptWork(p) /\ Task_(p) = todo[p][1] /\ 1 \in DOMAIN todo[p]
  BY FirstTask DEF Core, Local
<1>3. PICK u : u = tasks \o Tail(todo[p])
  OBVIOUS
<1>4. /\ u \in Seq(Task) /\ Len(u) = Len(tasks) + Len(todo[p]) - 1
      /\ \A i \in DOMAIN u :
            \/ i \in DOMAIN tasks /\ i <= Len(tasks) /\ u[i] = tasks[i]
            \/ /\ i > Len(tasks) /\ i - Len(tasks) + 1 \in DOMAIN todo[p]
               /\ i - Len(tasks) + 1 >= 2 /\ u[i] = todo[p][i - Len(tasks) + 1]
  BY <1>2, <1>3, Replacing
<1>5. todo'[p] = u /\ todo' \in [Process -> Seq(Task)] /\ step' \in [Process -> Steps]
      /\ step'[p] = "start" /\ \A q \in Process \ {p} : step'[q] = step[q] /\ todo'[q] = todo[q]
  BY <1>1, <1>3, <1>4 DEF Steps
<1>6. Delivering(Task_(p)) => Len(todo[p]) = 1
  BY <1>2 DEF AptWork
<1>7. \A i \in DOMAIN u : Apt(u[i]) /\ (Delivering(u[i]) => i = Len(u))
  <2>1. SUFFICES ASSUME NEW i \in DOMAIN u
                 PROVE  Apt(u[i]) /\ (Delivering(u[i]) => i = Len(u))
    OBVIOUS
  <2>2. Len(tasks) \in Nat /\ Len(todo[p]) \in Nat /\ i \in Nat /\ Len(u) \in Nat
    BY <1>2, <1>4
  <2>3. CASE i \in DOMAIN tasks /\ i <= Len(tasks) /\ u[i] = tasks[i]
    BY <1>4, <1>6, <2>2, <2>3
  <2>4. CASE /\ i > Len(tasks) /\ i - Len(tasks) + 1 \in DOMAIN todo[p]
             /\ i - Len(tasks) + 1 >= 2 /\ u[i] = todo[p][i - Len(tasks) + 1]
    BY <1>2, <1>4, <2>2, <2>4 DEF AptWork
  <2>5. QED
    BY <1>4, <2>3, <2>4
<1>8. AptWork(p)'
  BY <1>5, <1>7 DEF AptWork, Apt, Moving, Delivering
<1>9. ASSUME Pending(p)' PROVE Pending(p)
  <2>1. PICK i \in DOMAIN u : Delivering(u[i])
    BY <1>5, <1>9 DEF Pending, Delivers, Delivering
  <2>2. CASE i \in DOMAIN tasks /\ u[i] = tasks[i]
    <3>1. Delivering(Task_(p)) /\ step[p] = "start"
      BY <2>1, <2>2
    <3>2. QED
      BY <1>2, <3>1 DEF Pending, Delivers, Delivering
  <2>3. CASE /\ i - Len(tasks) + 1 \in DOMAIN todo[p] /\ i - Len(tasks) + 1 >= 2
             /\ u[i] = todo[p][i - Len(tasks) + 1]
    <3>1. PICK j \in DOMAIN todo[p] : j >= 2 /\ Delivering(todo[p][j])
      BY <2>1, <2>3
    <3>2. Len(todo[p]) \in Nat /\ j = Len(todo[p])
      BY <1>2, <3>1 DEF AptWork
    <3>3. ~Delivering(Task_(p))
      BY <1>6, <3>1, <3>2
    <3>4. QED
      BY <3>1, <3>3 DEF Pending, Delivers, Delivering, Doing, Task_
  <2>4. QED
    BY <1>4, <2>2, <2>3
<1>10. QED
  BY <1>3, <1>5, <1>8, <1>9

\* Going on to further tasks keeps the rest of them.
LEMMA Shifted ==
    ASSUME Core, NEW p \in Process, ~Idle(p), NEW tasks \in Seq(Task), Replace(p, tasks)
    PROVE  /\ step'[p] = "start"
           /\ \A i \in DOMAIN tasks : i \in DOMAIN todo'[p] /\ todo'[p][i] = tasks[i]
           /\ \A j \in DOMAIN todo[p] : j >= 2 => \E i \in DOMAIN todo'[p] : todo'[p][i] = todo[p][j]
           /\ \A i \in DOMAIN todo'[p] :
                 \/ i \in DOMAIN tasks /\ todo'[p][i] = tasks[i]
                 \/ \E j \in DOMAIN todo[p] : j >= 2 /\ todo'[p][i] = todo[p][j]
<1>1. /\ todo[p] \in Seq(Task) /\ todo[p] # <<>> /\ todo'[p] = tasks \o Tail(todo[p])
      /\ step'[p] = "start"
  BY FirstTask DEF Core, TypeOK, Replace
<1>2. PICK u : u = tasks \o Tail(todo[p])
  OBVIOUS
<1>3. /\ u \in Seq(Task) /\ Len(u) = Len(tasks) + Len(todo[p]) - 1
      /\ \A i \in DOMAIN u :
            \/ i \in DOMAIN tasks /\ i <= Len(tasks) /\ u[i] = tasks[i]
            \/ /\ i > Len(tasks) /\ i - Len(tasks) + 1 \in DOMAIN todo[p]
               /\ i - Len(tasks) + 1 >= 2 /\ u[i] = todo[p][i - Len(tasks) + 1]
  BY <1>1, <1>2, Replacing
<1>4. Len(tasks) \in Nat /\ Len(todo[p]) \in Nat \ {0} /\ Len(u) \in Nat
      /\ DOMAIN u = 1..Len(u) /\ DOMAIN tasks = 1..Len(tasks) /\ DOMAIN todo[p] = 1..Len(todo[p])
  BY <1>1, <1>3
<1>5. \A i \in DOMAIN tasks : i \in DOMAIN u /\ u[i] = tasks[i]
  BY <1>3, <1>4
<1>6. ASSUME NEW j \in DOMAIN todo[p], j >= 2 PROVE \E i \in DOMAIN u : u[i] = todo[p][j]
  <2>1. PICK i : i = j + Len(tasks) - 1
    OBVIOUS
  <2>2. i \in DOMAIN u /\ i > Len(tasks) /\ i - Len(tasks) + 1 = j
    BY <1>3, <1>4, <1>6, <2>1
  <2>3. u[i] = todo[p][j]
    BY <1>3, <1>4, <2>2
  <2>4. QED
    BY <2>2, <2>3
<1>7. \A i \in DOMAIN u :
         \/ i \in DOMAIN tasks /\ u[i] = tasks[i]
         \/ \E j \in DOMAIN todo[p] : j >= 2 /\ u[i] = todo[p][j]
  BY <1>3
<1>8. todo'[p] = u /\ step'[p] = "start"
  BY <1>1, <1>2
<1>9. QED
  BY <1>5, <1>6, <1>7, <1>8, Zenon

-----------------------------------------------------------------------------
(* Core is inductive *)

LEMMA BeginCore ==
    ASSUME Core, NEW p \in Process, NEW tasks \in Seq(Task), Begin(p, tasks), tic' \in 0..MaxTic,
           \A i \in DOMAIN tasks : Apt(tasks[i]) /\ (Delivering(tasks[i]) => i = Len(tasks)),
           (\E i \in DOMAIN tasks : Delivering(tasks[i])) => Room
    PROVE  Core'
<1>1. /\ todo \in [Process -> Seq(Task)] /\ todo' = [todo EXCEPT ![p] = tasks]
      /\ UNCHANGED <<made, files, index, receipts, step, held, copy, crashes, raced>>
      /\ made \in Seq(Key) /\ Len(made) \in Nat
  BY DEF Begin, Core, TypeOK, disk
<1>2. TypeOK'
  BY <1>1 DEF Core, TypeOK
<1>3. Grown
  BY <1>1 DEF Grown
<1>4. \A q \in Process \ {p} : Local(q)' /\ (Pending(q)' <=> Pending(q))
  BY <1>1, <1>3, KeptLocal
<1>5. Local(p) /\ Idle(p) /\ step[p] = "start"
  BY DEF Core, Local, Stage, Begin
<1>6. Local(p)'
  <2>1. AptWork(p)'
    BY <1>1 DEF AptWork, Apt, Moving, Delivering
  <2>2. Known(copy[p])'
    BY <1>1, <1>5 DEF Local, Known
  <2>3. Stage(p)' /\ Grip(p)'
    BY <1>1, <1>5 DEF Stage, Grip
  <2>4. QED
    BY <2>1, <2>2, <2>3 DEF Local
<1>7. Known(index)' /\ Built'
  BY <1>1 DEF Core, Known, Built
<1>8. Fits'
  <2>1. Pendings' \subseteq Pendings \cup {p}
    BY <1>4 DEF Pendings
  <2>2. IsFiniteSet(Pendings) /\ IsFiniteSet(Pendings \cup {p})
    BY InboxAssumption, FS_Subset, FS_AddElement DEF Pendings
  <2>3. /\ Cardinality(Pendings) \in Nat /\ Cardinality(Pendings') \in Nat
        /\ Cardinality(Pendings') <= Cardinality(Pendings) + 1
    <3>1. PICK P, Q : P = Pendings /\ Q = Pendings'
      OBVIOUS
    <3>2. Q \subseteq P \cup {p} /\ IsFiniteSet(P) /\ IsFiniteSet(P \cup {p})
      BY <2>1, <2>2, <3>1
    <3>3. Cardinality(P \cup {p}) = Cardinality(P) \/ Cardinality(P \cup {p}) = Cardinality(P) + 1
      BY <3>2, FS_AddElement
    <3>4. IsFiniteSet(Q) /\ Cardinality(Q) <= Cardinality(P \cup {p})
      BY <3>2, FS_Subset
    <3>5. Cardinality(P) \in Nat /\ Cardinality(Q) \in Nat /\ Cardinality(P \cup {p}) \in Nat
      BY <3>2, <3>4, FS_CardinalityType
    <3>6. QED
      BY <3>1, <3>3, <3>4, <3>5
  <2>4. CASE \E i \in DOMAIN tasks : Delivering(tasks[i])
    <3>1. PICK D : D = {q \in Process : Delivers(q)}
      OBVIOUS
    <3>2. Pendings \subseteq D /\ IsFiniteSet(D)
      BY <3>1, InboxAssumption, FS_Subset DEF Pendings, Pending
    <3>3. Cardinality(Pendings) <= Cardinality(D) /\ Cardinality(D) \in Nat
      BY <3>2, FS_Subset, FS_CardinalityType
    <3>4. Len(made) + Cardinality(D) < MaxId
      BY <2>4, <3>1 DEF Room
    <3>5. QED
      BY <1>1, <2>3, <3>3, <3>4, InboxAssumption DEF Fits
  <2>5. CASE ~(\E i \in DOMAIN tasks : Delivering(tasks[i]))
    <3>1. ~Pending(p)'
      BY <1>1, <2>5 DEF Pending, Delivers, Delivering
    <3>2. Pendings' \subseteq Pendings
      BY <1>4, <3>1 DEF Pendings
    <3>3. Cardinality(Pendings') <= Cardinality(Pendings)
      BY <2>2, <3>2, FS_Subset
    <3>4. QED
      BY <1>1, <2>3, <3>3, InboxAssumption DEF Core, Fits
  <2>6. QED
    BY <2>4, <2>5
<1>9. QED
  BY <1>2, <1>4, <1>6, <1>7, <1>8 DEF Core

LEMMA BeginsCore ==
    ASSUME Core, NEW p \in Process,
           \/ \E k \in Key : Route(p, k)
           \/ \E m \in Id, to \in State, due \in 0..MaxTic : Verb(p, m, to, due)
           \/ Sweep(p) \/ Cadence(p)
    PROVE  Core'
<1>0. tic \in 0..MaxTic /\ MaxTic \in Nat
  BY InboxAssumption DEF Core, TypeOK
<1>1. ASSUME NEW k \in Key, Route(p, k) PROVE Core'
  <2>0. Check(k) \in Task
    BY TaskForms
  <2>1. PICK tasks \in Seq(Task) : tasks = <<Check(k)>> /\ DOMAIN tasks = {1} /\ Len(tasks) = 1 /\ tasks[1] = Check(k)
    BY <2>0, Lists
  <2>2. \A i \in DOMAIN tasks : Apt(tasks[i]) /\ i = Len(tasks)
    BY <2>1 DEF Apt, Check, Moving
  <2>3. QED
    BY <1>0, <1>1, <2>1, <2>2, BeginCore DEF Route
<1>2. ASSUME NEW m \in Id, NEW to \in State, NEW due \in 0..MaxTic, Verb(p, m, to, due)
      PROVE  Core'
  <2>0. Transition(m, to, due) \in Task
    BY TaskForms
  <2>a. PICK a \in Task : a = Transition(m, to, due)
    BY <2>0
  <2>1. PICK tasks \in Seq(Task) : tasks = <<a>> /\ DOMAIN tasks = {1} /\ tasks[1] = a
    BY Lists
  <2>2. \A i \in DOMAIN tasks : Apt(tasks[i]) /\ ~Delivering(tasks[i])
    BY <1>2, <2>a, <2>1 DEF Apt, Transition, Moving, Delivering, Verb
  <2>3. QED
    BY <1>0, <1>2, <2>a, <2>1, <2>2, BeginCore DEF Verb
<1>3. CASE Sweep(p)
  <2>0. Reconcile \in Task /\ List("resurface") \in Task
    BY TaskForms
  <2>a. PICK a \in Task, b \in Task : a = Reconcile /\ b = List("resurface")
    BY <2>0
  <2>c. /\ <<a, b>> \in Seq(Task) /\ DOMAIN <<a, b>> = {1, 2}
        /\ <<a, b>>[1] = a /\ <<a, b>>[2] = b
    BY Lists
  <2>1. PICK tasks \in Seq(Task) :
           tasks = <<a, b>> /\ DOMAIN tasks = {1, 2} /\ tasks[1] = a /\ tasks[2] = b
    BY <2>c, Zenon
  <2>2. \A i \in DOMAIN tasks : Apt(tasks[i]) /\ ~Delivering(tasks[i])
    BY <2>a, <2>1 DEF Apt, Reconcile, List, Moving, Delivering
  <2>3. QED
    BY <1>0, <1>3, <2>a, <2>1, <2>2, BeginCore DEF Sweep
<1>4. CASE Cadence(p)
  <2>0. ObligationKey[tic + 1] \in Key /\ tic + 1 \in 0..MaxTic
    BY <1>0, <1>4, InboxAssumption DEF Cadence
  <2>a. /\ List("close") \in Task /\ Reconcile \in Task /\ List("resurface") \in Task
        /\ Check(ObligationKey[tic + 1]) \in Task
    BY <2>0, TaskForms
  <2>b. PICK a \in Task, b \in Task, c \in Task, d \in Task :
           /\ a = List("close") /\ b = Reconcile /\ c = List("resurface")
           /\ d = Check(ObligationKey[tic + 1])
    BY <2>a
  <2>c. /\ <<a, b, c, d>> \in Seq(Task) /\ DOMAIN <<a, b, c, d>> = {1, 2, 3, 4}
        /\ Len(<<a, b, c, d>>) = 4 /\ <<a, b, c, d>>[1] = a /\ <<a, b, c, d>>[2] = b
        /\ <<a, b, c, d>>[3] = c /\ <<a, b, c, d>>[4] = d
    BY Lists
  <2>1. PICK tasks \in Seq(Task) :
           /\ tasks = <<a, b, c, d>> /\ DOMAIN tasks = {1, 2, 3, 4} /\ Len(tasks) = 4
           /\ tasks[1] = a /\ tasks[2] = b /\ tasks[3] = c /\ tasks[4] = d
    BY <2>c, Zenon
  <2>2. \A i \in DOMAIN tasks : Apt(tasks[i]) /\ (Delivering(tasks[i]) => i = Len(tasks))
    BY <2>b, <2>1 DEF Apt, Reconcile, List, Check, Moving, Delivering
  <2>3. QED
    BY <1>4, <2>0, <2>b, <2>1, <2>2, BeginCore DEF Cadence
<1>5. QED
  BY <1>1, <1>2, <1>3, <1>4

LEMMA DoingTask ==
    ASSUME TypeOK, NEW p \in Process
    PROVE  /\ \A name : Doing(p, name) => ~Idle(p) /\ Task_(p).do = name /\ Task_(p) \in Task
           /\ Moves(p) => /\ ~Idle(p) /\ Moving(Task_(p)) /\ Task_(p).id \in Id /\ Task_(p).to \in State
                          /\ Task_(p).due \in 0..MaxTic /\ Task_(p) \in Task
<1>1. \A name : Doing(p, name) => ~Idle(p) /\ Task_(p).do = name /\ Task_(p) \in Task
  BY FirstTask DEF Doing, Task_
<1>2. QED
  BY <1>1, TaskForms DEF Moves, Moving

LEMMA RacedTyped ==
    ASSUME Core, NEW p \in Process, Progress(p)
    PROVE  raced' \in BOOLEAN
BY DEF Core, TypeOK, Progress, CheckKey, DeliverFile, Find, Miss, WriteFile, RemoveFile,
       LoadRegistry, SaveRegistry, LogReceipt, ListIds, NextId

\* Steps that go from one task to the next without touching a file.
LEMMA TurnCore ==
    ASSUME Core, NEW p \in Process, ~Idle(p), NEW tasks \in Seq(Task), Replace(p, tasks),
           \A i \in DOMAIN tasks :
              /\ Apt(tasks[i])
              /\ Delivering(tasks[i]) =>
                    i = Len(tasks) /\ Delivering(Task_(p)) /\ step[p] = "start",
           UNCHANGED <<tic, made, files, crashes>>,
           held' \in [Process -> File], copy' \in [Process -> Index],
           \A q \in Process \ {p} : held'[q] = held[q] /\ copy'[q] = copy[q],
           index' \in Index, receipts' \subseteq (Id \X Terminal),
           Known(index)', Known(copy[p])',
           raced' \in BOOLEAN
    PROVE  Core'
<1>1. /\ todo' \in [Process -> Seq(Task)] /\ step' \in [Process -> Steps]
      /\ step'[p] = "start" /\ todo'[p] = tasks \o Tail(todo[p])
      /\ \A q \in Process \ {p} : step'[q] = step[q] /\ todo'[q] = todo[q]
      /\ AptWork(p)' /\ (Pending(p)' => Pending(p))
  BY Replaced
<1>2. TypeOK'
  BY <1>1 DEF Core, TypeOK, Steps
<1>3. Stage(p)' /\ Grip(p)'
  BY <1>1 DEF Stage, Grip
<1>4. Aside(p)
  BY <1>1 DEF Aside
<1>5. Built'
  BY DEF Core, Built
<1>6. QED
  BY <1>1, <1>2, <1>3, <1>4, <1>5, StepCore DEF Local

LEMMA DoneCore ==
    ASSUME Core, NEW p \in Process, ~Idle(p), Done(p),
           UNCHANGED <<tic, made, files, crashes>>,
           held' \in [Process -> File], copy' \in [Process -> Index],
           \A q \in Process \ {p} : held'[q] = held[q] /\ copy'[q] = copy[q],
           index' \in Index, receipts' \subseteq (Id \X Terminal),
           Known(index)', Known(copy[p])',
           raced' \in BOOLEAN
    PROVE  Core'
<1>1. PICK tasks \in Seq(Task) : tasks = <<>> /\ DOMAIN tasks = {}
  BY Lists
<1>2. QED
  BY <1>1, TurnCore DEF Done

\* The rest, for steps that do not change what is known.
LEMMA KnownKept ==
    ASSUME Core, UNCHANGED <<made, index, receipts, held, copy>>, NEW p \in Process
    PROVE  /\ held' \in [Process -> File] /\ copy' \in [Process -> Index]
           /\ \A q \in Process \ {p} : held'[q] = held[q] /\ copy'[q] = copy[q]
           /\ index' \in Index /\ receipts' \subseteq (Id \X Terminal)
           /\ Known(index)' /\ Known(copy[p])'
<1>1. Known(index) /\ Known(copy[p])
  BY DEF Core, Local
<1>2. QED
  BY <1>1 DEF Core, TypeOK, Known

LEMMA CheckCore ==
    ASSUME Core, NEW p \in Process, CheckKey(p)
    PROVE  Core'
<1>r. raced' \in BOOLEAN
  BY RacedTyped DEF Progress
<1>0. /\ ~Idle(p) /\ Task_(p).do = "check" /\ Task_(p).key \in Key
      /\ Delivering(Task_(p)) /\ ~Moves(p)
  BY DoingTask, TaskForms DEF CheckKey, Core, Delivering, Moves, Doing, Task_
<1>1. step[p] = "start"
  BY <1>0 DEF Core, TypeOK, Local, Stage, Doing, Task_
<1>2. PICK k \in Key : k = Task_(p).key
  BY <1>0
<1>3. PICK a \in Task : a = Deliver(k)
  BY TaskForms
<1>4. Apt(a)
  BY <1>3 DEF Apt, Deliver, Moving
<1>5. PICK tasks \in Seq(Task) :
         /\ Replace(p, tasks)
         /\ \A i \in DOMAIN tasks : Apt(tasks[i]) /\ (Delivering(tasks[i]) => i = Len(tasks))
  <2>1. CASE index[k].id = 0 \/ index[k].state \in Terminal
    <3>1. <<a>> \in Seq(Task) /\ DOMAIN <<a>> = {1} /\ Len(<<a>>) = 1 /\ <<a>>[1] = a
      BY Lists
    <3>2. Replace(p, <<a>>)
      BY <1>2, <1>3, <2>1 DEF CheckKey
    <3>3. \A i \in DOMAIN <<a>> : Apt(<<a>>[i]) /\ (Delivering(<<a>>[i]) => i = Len(<<a>>))
      BY <1>4, <3>1
    <3>4. QED
      BY <3>1, <3>2, <3>3
  <2>2. CASE ~(index[k].id = 0 \/ index[k].state \in Terminal) /\ Policy[k] = "latest_wins"
    <3>1. index[k].id \in Id /\ index[k].id <= Len(made) /\ made[index[k].id] = k
      BY <2>2, InboxAssumption DEF Core, TypeOK, Index, Known, Id
    <3>2. PICK b \in Task : b = Supersede(index[k].id)
      BY <3>1, TaskForms
    <3>3. Apt(b) /\ ~Delivering(b)
      BY <2>2, <3>1, <3>2 DEF Apt, Supersede, Moving, Delivering
    <3>4. /\ <<b, a>> \in Seq(Task) /\ DOMAIN <<b, a>> = {1, 2} /\ Len(<<b, a>>) = 2
          /\ <<b, a>>[1] = b /\ <<b, a>>[2] = a
      BY Lists
    <3>5. Replace(p, <<b, a>>)
      BY <1>2, <1>3, <2>2, <3>2 DEF CheckKey
    <3>6. \A i \in DOMAIN <<b, a>> :
             Apt(<<b, a>>[i]) /\ (Delivering(<<b, a>>[i]) => i = Len(<<b, a>>))
      BY <1>4, <3>3, <3>4
    <3>7. QED
      BY <3>4, <3>5, <3>6
  <2>3. CASE ~(index[k].id = 0 \/ index[k].state \in Terminal) /\ Policy[k] # "latest_wins"
    <3>1. Replace(p, <<>>)
      BY <1>2, <2>3 DEF CheckKey
    <3>2. QED
      BY <3>1, Lists
  <2>4. QED
    BY <2>1, <2>2, <2>3
<1>6. UNCHANGED <<tic, made, files, index, receipts, held, copy, crashes>>
  BY DEF CheckKey, disk
<1>7. QED
  BY <1>0, <1>1, <1>5, <1>6, <1>r, KnownKept, TurnCore

LEMMA DeliverCore ==
    ASSUME Core, NEW p \in Process, DeliverFile(p)
    PROVE  Core'
<1>0. /\ ~Idle(p) /\ Doing(p, "deliver") /\ Task_(p) \in Task /\ Task_(p).do = "deliver"
      /\ ~Moves(p) /\ step[p] = "start"
  BY DoingTask DEF DeliverFile, Core, Moves, Doing, Task_
<1>1. PICK k \in Key : k = Task_(p).key
  BY <1>0, TaskForms DEF Delivering
<1>2. /\ TypeOK /\ made \in Seq(Key) /\ Len(made) \in Nat /\ Local(p)
  BY DEF Core, TypeOK
<1>3. /\ made' = Append(made, k) /\ Grown /\ Len(made') = Len(made) + 1 /\ made'[Len(made) + 1] = k
      /\ made' \in Seq(Key)
  BY <1>1, <1>2 DEF DeliverFile, Grown
<1>4. /\ todo' = todo /\ step' = [step EXCEPT ![p] = "load"]
      /\ UNCHANGED <<tic, index, receipts, copy, crashes, raced>>
  BY DEF DeliverFile, Goto
<1>5. Pending(p) /\ ~Pending(p)'
  <2>1. 1 \in DOMAIN todo[p] /\ todo[p][1].do = "deliver"
    BY <1>0, <1>2, FirstTask
  <2>2. step'[p] = "load"
    BY <1>2, <1>4 DEF TypeOK
  <2>3. QED
    BY <1>0, <1>4, <2>1, <2>2 DEF Pending, Delivers, Doing, Idle
<1>6. \A q \in Process \ {p} : Local(q)' /\ (Pending(q)' <=> Pending(q))
  BY <1>2, <1>3, <1>4, KeptLocal DEF DeliverFile, TypeOK
<1>7. Pendings' \subseteq Pendings \ {p} /\ p \in Pendings /\ IsFiniteSet(Pendings)
  BY <1>5, <1>6, InboxAssumption, FS_Subset DEF Pendings
<1>8. /\ Cardinality(Pendings) \in Nat /\ Cardinality(Pendings') \in Nat
      /\ Cardinality(Pendings') <= Cardinality(Pendings) - 1
  BY <1>7, FS_RemoveElement, FS_Subset, FS_CardinalityType
<1>9. Fits' /\ Len(made') <= MaxId
  BY <1>2, <1>3, <1>8, InboxAssumption DEF Core, Fits
<1>10. PICK f \in File : f = [id |-> Len(made) + 1, state |-> "WAIT", due |-> 0]
  <2>1. Len(made) + 1 \in Id
    BY <1>2, <1>3, <1>9, InboxAssumption DEF Id
  <2>2. [id |-> Len(made) + 1, state |-> "WAIT", due |-> 0] \in File
    BY <2>1, InboxAssumption DEF File, State
  <2>3. QED
    BY <2>2, Zenon
<1>11. files' = files \cup {f} /\ held' = [held EXCEPT ![p] = f]
  BY <1>10 DEF DeliverFile
<1>12. TypeOK'
  BY <1>2, <1>3, <1>4, <1>9, <1>11 DEF TypeOK
<1>13. Built'
  <2>1. \A g \in files : g.id \in Nat /\ g.id <= Len(made)
    BY <1>2 DEF Core, Built, TypeOK, File, Id
  <2>2. QED
    BY <1>2, <1>3, <1>10, <1>11, <2>1 DEF Built
<1>14. Known(index)'
  <2>1. SUFFICES ASSUME NEW n \in Key, index[n].id # 0
                 PROVE  index[n].id <= Len(made') /\ made'[index[n].id] = n
    BY <1>4 DEF Known
  <2>2. index[n].id \in 1..Len(made) /\ made[index[n].id] = n
    BY <1>2, <2>1, InboxAssumption DEF Core, Known, TypeOK, Index
  <2>3. QED
    BY <1>2, <1>3, <2>2 DEF Grown
<1>15. Local(p)'
  <2>1. held'[p] = f /\ step'[p] = "load" /\ todo'[p] = todo[p] /\ copy'[p] = copy[p]
    BY <1>2, <1>4, <1>11 DEF TypeOK
  <2>2. Stage(p)'
    BY <1>0, <2>1 DEF Stage, Idle, Moves, Doing, Task_
  <2>3. Grip(p)'
    BY <1>0, <1>1, <1>2, <1>3, <1>10, <2>1 DEF Grip, Moves, Doing, Idle, Task_
  <2>4. AptWork(p)'
    <3>1. SUFFICES ASSUME NEW i \in DOMAIN todo[p]
                   PROVE  /\ Apt(todo[p][i])' /\ (Delivering(todo[p][i]) => i = Len(todo[p]))
      BY <2>1 DEF AptWork, Apt, Moving, Delivering
    <3>2. Apt(todo[p][i]) /\ (Delivering(todo[p][i]) => i = Len(todo[p])) /\ todo[p][i] \in Task
      BY <1>2 DEF Local, AptWork, TypeOK
    <3>3. Moving(todo[p][i]) => todo[p][i].id \in 1..Len(made)
      BY <3>2, <1>2, TaskForms DEF Apt, Id
    <3>4. todo[p][i].do = "each" => \A m \in todo[p][i].ids : m \in Nat /\ m <= Len(made)
      BY <3>2, <1>2, TaskForms DEF Apt, Id
    <3>5. Apt(todo[p][i])'
      BY <1>2, <1>3, <1>4, <3>2, <3>3, <3>4 DEF Apt, Grown, Moving
    <3>6. QED
      BY <3>2, <3>5
  <2>5. Known(copy[p])'
    <3>1. SUFFICES ASSUME NEW n \in Key, copy[p][n].id # 0
                   PROVE  copy[p][n].id <= Len(made') /\ made'[copy[p][n].id] = n
      BY <2>1 DEF Known
    <3>2. copy[p][n].id \in 1..Len(made) /\ made[copy[p][n].id] = n
      BY <1>2, <3>1, InboxAssumption DEF Local, Known, TypeOK, Index
    <3>3. QED
      BY <1>2, <1>3, <3>2 DEF Grown
  <2>6. QED
    BY <2>2, <2>3, <2>4, <2>5 DEF Local
<1>16. QED
  BY <1>6, <1>9, <1>12, <1>13, <1>14, <1>15 DEF Core

\* Steps within a task.
LEMMA GoCore ==
    ASSUME Core, NEW p \in Process, ~Idle(p), NEW s \in Steps \ {"start"}, Goto(p, s),
           UNCHANGED <<tic, made, receipts, crashes>>,
           held' \in [Process -> File], copy' \in [Process -> Index],
           \A q \in Process \ {p} : held'[q] = held[q] /\ copy'[q] = copy[q],
           files' \subseteq File, Built', index' \in Index, Known(index)', Known(copy[p])',
           Stage(p)', Grip(p)',
           raced' \in BOOLEAN
    PROVE  Core'
<1>1. /\ todo' = todo /\ step' \in [Process -> Steps] /\ step'[p] = s
      /\ \A q \in Process \ {p} : step'[q] = step[q]
      /\ AptWork(p)' /\ (Pending(p)' => Pending(p))
  BY Going
<1>2. TypeOK'
  BY <1>1 DEF Core, TypeOK, Steps
<1>3. Aside(p)
  BY <1>1 DEF Aside
<1>4. QED
  BY <1>1, <1>2, <1>3, StepCore DEF Local

LEMMA FindCore ==
    ASSUME Core, NEW p \in Process, Find(p)
    PROVE  Core'
<1>r. raced' \in BOOLEAN
  BY RacedTyped DEF Progress
<1>0. ~Idle(p) /\ Moves(p) /\ TypeOK /\ Task_(p).id \in Id
  BY DoingTask DEF Find, Core
<1>1. PICK f \in files : f.id = Task_(p).id /\ Legal(Task_(p), f) /\ held' = [held EXCEPT ![p] = f]
  BY DEF Find, Found
<1>2. f \in File /\ held' \in [Process -> File] /\ held'[p] = f
      /\ \A q \in Process \ {p} : held'[q] = held[q]
  BY <1>0, <1>1 DEF TypeOK
<1>3. Goto(p, "write") /\ UNCHANGED <<tic, made, files, index, receipts, copy, crashes>>
  BY DEF Find, disk
<1>4. "write" \in Steps \ {"start"}
  BY DEF Steps
<1>5. /\ step'[p] = "write" /\ ~Idle(p)' /\ Task_(p)' = Task_(p) /\ Moves(p)'
      /\ \A name : Doing(p, name)' <=> Doing(p, name)
  BY <1>0, <1>3, <1>4, Going
<1>6. ~Doing(p, "deliver")
  BY <1>0 DEF Moves, Doing
<1>7. Stage(p)'
  BY <1>5 DEF Stage
<1>8. Grip(p)'
  <2>1. Legal(Task_(p), f)'
    BY <1>1, <1>5 DEF Legal
  <2>2. QED
    BY <1>1, <1>2, <1>5, <1>6 DEF Grip, Legal
<1>9. Built' /\ Known(index)' /\ Known(copy[p])' /\ files' \subseteq File /\ index' \in Index
      /\ copy' \in [Process -> Index]
  BY <1>0, <1>3 DEF Core, Local, Built, Known, TypeOK
<1>10. \A q \in Process \ {p} : held'[q] = held[q] /\ copy'[q] = copy[q]
  BY <1>2, <1>3
<1>11. QED
  BY <1>0, <1>2, <1>3, <1>4, <1>7, <1>8, <1>9, <1>10, <1>r, GoCore

LEMMA WriteCore ==
    ASSUME Core, NEW p \in Process, WriteFile(p)
    PROVE  Core'
<1>r. raced' \in BOOLEAN
  BY RacedTyped DEF Progress
<1>0. /\ ~Idle(p) /\ Moves(p) /\ TypeOK /\ Task_(p).id \in Id /\ Task_(p).to \in State
      /\ Task_(p).due \in 0..MaxTic /\ step[p] = "write" /\ Local(p)
  BY DoingTask DEF WriteFile, Core
<1>1. held[p] \in File /\ held[p].due \in 0..MaxTic /\ held[p].id = Task_(p).id /\ Legal(Task_(p), held[p])
  BY <1>0 DEF TypeOK, File, Local, Grip
<1>2. Goto(p, "remove") /\ UNCHANGED <<tic, made, index, receipts, held, copy, crashes>>
  BY DEF WriteFile
<1>3. "remove" \in Steps \ {"start"}
  BY DEF Steps
<1>4. /\ step'[p] = "remove" /\ ~Idle(p)' /\ Task_(p)' = Task_(p) /\ Moves(p)'
      /\ \A name : Doing(p, name)' <=> Doing(p, name)
  BY <1>0, <1>2, <1>3, Going
<1>5. ~Doing(p, "deliver")
  BY <1>0 DEF Moves, Doing
<1>6. Task_(p).id <= Len(made)
  BY <1>0, FirstTask, DoingTask DEF Local, AptWork, Apt
<1>7. Reminder(Task_(p), held[p]) \in 0..MaxTic
  BY <1>0, <1>1 DEF Reminder
<1>8. PICK g \in File : g.id = Task_(p).id /\ files' = Without(Task_(p).id, Task_(p).to) \cup {g}
  <2>1. PICK g : g = [id |-> Task_(p).id, state |-> Task_(p).to,
                      due |-> Reminder(Task_(p), held[p])]
    OBVIOUS
  <2>2. g \in File /\ g.id = Task_(p).id
    BY <1>0, <1>7, <2>1 DEF File
  <2>3. QED
    BY <2>1, <2>2 DEF WriteFile
<1>9. files' \subseteq File /\ Built'
  BY <1>0, <1>2, <1>6, <1>8 DEF Core, TypeOK, Without, Built
<1>10. Stage(p)' /\ Grip(p)'
  BY <1>1, <1>2, <1>4, <1>5 DEF Stage, Grip, Legal
<1>11. Known(index)' /\ Known(copy[p])' /\ index' \in Index
      /\ copy' \in [Process -> Index] /\ held' \in [Process -> File]
  BY <1>0, <1>2 DEF Core, Local, Known, TypeOK
<1>12. QED
  BY <1>0, <1>2, <1>3, <1>9, <1>10, <1>11, <1>r, GoCore

LEMMA RemoveCore ==
    ASSUME Core, NEW p \in Process, RemoveFile(p)
    PROVE  Core'
<1>r. raced' \in BOOLEAN
  BY RacedTyped DEF Progress
<1>0. /\ ~Idle(p) /\ Moves(p) /\ TypeOK /\ step[p] = "remove" /\ Local(p)
  BY DoingTask DEF RemoveFile, Core
<1>2. Goto(p, "load") /\ UNCHANGED <<tic, made, index, receipts, held, copy, crashes>>
  BY DEF RemoveFile
<1>3. "load" \in Steps \ {"start"}
  BY DEF Steps
<1>4. /\ step'[p] = "load" /\ ~Idle(p)' /\ Task_(p)' = Task_(p) /\ Moves(p)'
      /\ \A name : Doing(p, name)' <=> Doing(p, name)
  BY <1>0, <1>2, <1>3, Going
<1>5. ~Doing(p, "deliver")
  BY <1>0 DEF Moves, Doing
<1>6. files' \subseteq File /\ Built'
  BY <1>0, <1>2 DEF RemoveFile, Core, TypeOK, Without, Built
<1>7. Stage(p)' /\ Grip(p)'
  BY <1>0, <1>2, <1>4, <1>5 DEF Stage, Grip, Local
<1>8. Known(index)' /\ Known(copy[p])' /\ index' \in Index
      /\ copy' \in [Process -> Index] /\ held' \in [Process -> File]
  BY <1>0, <1>2 DEF Core, Local, Known, TypeOK
<1>9. QED
  BY <1>0, <1>2, <1>3, <1>6, <1>7, <1>8, <1>r, GoCore

LEMMA LoadCore ==
    ASSUME Core, NEW p \in Process, LoadRegistry(p)
    PROVE  Core'
<1>r. raced' \in BOOLEAN
  BY RacedTyped DEF Progress
<1>0. /\ ~Idle(p) /\ TypeOK /\ Local(p)
      /\ \/ step[p] = "load" /\ (Moves(p) \/ Doing(p, "deliver"))
         \/ step[p] = "start" /\ Doing(p, "reconcile")
  BY DoingTask DEF LoadRegistry, Core, Local, Stage
<1>2. /\ Goto(p, "save") /\ UNCHANGED <<tic, made, files, index, receipts, held, crashes>>
      /\ copy' = [copy EXCEPT ![p] = index]
  BY DEF LoadRegistry, disk
<1>3. "save" \in Steps \ {"start"}
  BY DEF Steps
<1>4. /\ step'[p] = "save" /\ ~Idle(p)' /\ Task_(p)' = Task_(p) /\ (Moves(p)' <=> Moves(p))
      /\ \A name : Doing(p, name)' <=> Doing(p, name)
  BY <1>0, <1>2, <1>3, Going
<1>5. /\ copy'[p] = index /\ copy' \in [Process -> Index] /\ index' \in Index
      /\ \A q \in Process \ {p} : copy'[q] = copy[q]
  BY <1>0, <1>2 DEF TypeOK
<1>6. files' \subseteq File /\ Built' /\ held' \in [Process -> File] /\ Known(index)' /\ Known(copy[p])'
  BY <1>0, <1>2, <1>5 DEF Core, TypeOK, Built, Known
<1>7. Stage(p)'
  BY <1>0, <1>4 DEF Stage
<1>8. ~(Doing(p, "reconcile") /\ (Moves(p) \/ Doing(p, "deliver")))
  BY DEF Doing, Moves
<1>9. Grip(p)'
  BY <1>0, <1>2, <1>4, <1>8 DEF Grip, Local
<1>10. QED
  BY <1>0, <1>2, <1>3, <1>5, <1>6, <1>7, <1>9, <1>r, GoCore

\* What a task does to the registry a process loaded.
LEMMA UpdatedKnown ==
    ASSUME Core, NEW p \in Process, step[p] = "save"
    PROVE  /\ Updated(Task_(p), copy[p], held[p].id) \in Index
           /\ Known(Updated(Task_(p), copy[p], held[p].id))
<1>0. /\ TypeOK /\ Local(p) /\ copy[p] \in Index /\ Known(copy[p]) /\ held[p].id \in Id
      /\ Moves(p) \/ Doing(p, "deliver") \/ Doing(p, "reconcile")
  BY DEF Core, TypeOK, Local, Stage, File
<1>1. Id \subseteq 0..MaxId /\ "WAIT" \in State
  BY InboxAssumption DEF Id, State
<1>2. CASE Doing(p, "deliver")
  <2>1. Task_(p).do = "deliver" /\ Task_(p).key \in Key
    BY <1>0, <1>2, DoingTask, TaskForms DEF Delivering
  <2>2. Updated(Task_(p), copy[p], held[p].id)
           = [copy[p] EXCEPT ![Task_(p).key] = [id |-> held[p].id, state |-> "WAIT"]]
    BY <2>1 DEF Updated
  <2>3. [id |-> held[p].id, state |-> "WAIT"] \in [id : 0..MaxId, state : State]
    BY <1>0, <1>1
  <2>4. held[p].id <= Len(made) /\ made[held[p].id] = Task_(p).key
    BY <1>0, <1>2 DEF Local, Grip
  <2>5. QED
    BY <1>0, <2>1, <2>2, <2>3, <2>4 DEF Index, Known
<1>3. CASE Doing(p, "transition")
  <2>1. Task_(p).do = "transition" /\ Task_(p).to \in State
    BY <1>0, <1>3, DoingTask DEF Moves
  <2>2. PICK r : r = WithState(copy[p], held[p].id, Task_(p).to)
    OBVIOUS
  <2>3. \A k \in Key : /\ r[k] \in [id : 0..MaxId, state : State]
                       /\ r[k].id = copy[p][k].id
    BY <1>0, <2>1, <2>2 DEF WithState, Index
  <2>4. r \in Index
    BY <2>2, <2>3 DEF WithState, Index
  <2>5. Known(r)
    BY <1>0, <2>3 DEF Known
  <2>6. Updated(Task_(p), copy[p], held[p].id) = r
    BY <2>1, <2>2 DEF Updated
  <2>7. QED
    BY <2>4, <2>5, <2>6
<1>4. CASE Doing(p, "supersede") \/ Doing(p, "reconcile")
  <2>1. Task_(p).do \in {"supersede", "reconcile"}
    BY <1>0, <1>4, DoingTask
  <2>2. Updated(Task_(p), copy[p], held[p].id) = copy[p]
    BY <2>1 DEF Updated
  <2>3. QED
    BY <1>0, <2>2
<1>5. QED
  BY <1>0, <1>2, <1>3, <1>4 DEF Moves

LEMMA SaveCore ==
    ASSUME Core, NEW p \in Process, SaveRegistry(p)
    PROVE  Core'
<1>r. raced' \in BOOLEAN
  BY RacedTyped DEF Progress
<1>0. /\ ~Idle(p) /\ TypeOK /\ Local(p) /\ step[p] = "save" /\ NoFile \in File /\ NoIndex \in Index
  BY InboxAssumption DEF SaveRegistry, Core, Local, Stage, NoFile, NoIndex, File, Index, Id, State
<1>1. /\ index' = Updated(Task_(p), copy[p], held[p].id) /\ index' \in Index
      /\ held' = [held EXCEPT ![p] = NoFile] /\ copy' = [copy EXCEPT ![p] = NoIndex]
      /\ UNCHANGED <<tic, made, files, receipts, crashes>>
  BY <1>0, UpdatedKnown DEF SaveRegistry, Forget
<1>2. /\ held' \in [Process -> File] /\ copy' \in [Process -> Index]
      /\ copy'[p] = NoIndex
      /\ \A q \in Process \ {p} : held'[q] = held[q] /\ copy'[q] = copy[q]
  BY <1>0, <1>1 DEF TypeOK
<1>3. Known(index)'
  <2>1. PICK r : r = Updated(Task_(p), copy[p], held[p].id)
    OBVIOUS
  <2>2. Known(r) /\ index' = r
    BY <1>0, <1>1, <2>1, UpdatedKnown
  <2>3. QED
    BY <1>1, <2>2 DEF Known
<1>4. Known(copy[p])' /\ files' \subseteq File /\ Built' /\ receipts' \subseteq (Id \X Terminal)
  BY <1>0, <1>1, <1>2 DEF Known, NoIndex, Core, Built, TypeOK
<1>5. CASE Moves(p) /\ Task_(p).to \in Terminal
  <2>1. Goto(p, "receipt") /\ "receipt" \in Steps \ {"start"}
    BY <1>5 DEF SaveRegistry, Steps
  <2>2. /\ step'[p] = "receipt" /\ ~Idle(p)' /\ Task_(p)' = Task_(p) /\ Moves(p)'
        /\ \A name : Doing(p, name)' <=> Doing(p, name)
    BY <1>0, <1>1, <1>5, <2>1, Going
  <2>3. Stage(p)' /\ Grip(p)'
    BY <1>5, <2>2 DEF Stage, Grip, Moves, Doing
  <2>4. QED
    BY <1>0, <1>1, <1>2, <1>3, <1>4, <2>1, <2>3, <1>r, GoCore
<1>6. CASE ~(Moves(p) /\ Task_(p).to \in Terminal)
  <2>1. Done(p)
    BY <1>6 DEF SaveRegistry
  <2>2. QED
    BY <1>0, <1>1, <1>2, <1>3, <1>4, <2>1, <1>r, DoneCore
<1>7. QED
  BY <1>5, <1>6

LEMMA LogCore ==
    ASSUME Core, NEW p \in Process, LogReceipt(p)
    PROVE  Core'
<1>r. raced' \in BOOLEAN
  BY RacedTyped DEF Progress
<1>0. /\ ~Idle(p) /\ TypeOK /\ Task_(p).to \in Terminal /\ Task_(p).id \in Id
  BY DoingTask DEF LogReceipt, Core, Local, Stage
<1>1. /\ Done(p) /\ UNCHANGED <<tic, made, files, index, held, copy, crashes>>
      /\ receipts' = receipts \cup {<<Task_(p).id, Task_(p).to>>}
  BY DEF LogReceipt
<1>2. /\ receipts' \subseteq (Id \X Terminal)
      /\ held' \in [Process -> File] /\ copy' \in [Process -> Index] /\ index' \in Index
  BY <1>0, <1>1 DEF TypeOK
<1>3. Known(index)' /\ Known(copy[p])'
  BY <1>1 DEF Core, Local, Known
<1>4. QED
  BY <1>0, <1>1, <1>2, <1>3, <1>r, DoneCore

LEMMA ListCore ==
    ASSUME Core, NEW p \in Process, ListIds(p)
    PROVE  Core'
<1>r. raced' \in BOOLEAN
  BY RacedTyped DEF Progress
<1>0. /\ ~Idle(p) /\ TypeOK /\ ~Delivering(Task_(p))
      /\ UNCHANGED <<tic, made, files, index, receipts, held, copy, crashes>>
  BY DoingTask DEF ListIds, Core, Delivering, disk
<1>1. PICK to \in {"NACK", "WAIT"}, ids \in {StaleObligations, DueIds} : Replace(p, <<Each(to, ids)>>)
  BY DEF ListIds
<1>2. ids \subseteq Id /\ \A m \in ids : m <= Len(made)
  BY <1>0 DEF StaleObligations, Listed, Waiting, DueIds, Core, TypeOK, Built, File
<1>3. Each(to, ids) \in Task
  BY <1>2, TaskForms DEF State
<1>4. PICK a \in Task : a = Each(to, ids)
  BY <1>3
<1>5. Apt(a) /\ ~Delivering(a)
  BY <1>2, <1>4 DEF Apt, Each, Delivering, Moving
<1>6. <<a>> \in Seq(Task) /\ DOMAIN <<a>> = {1} /\ <<a>>[1] = a
  BY Lists
<1>7. \A i \in DOMAIN <<a>> : Apt(<<a>>[i]) /\ ~Delivering(<<a>>[i])
  BY <1>5, <1>6
<1>8. Replace(p, <<a>>)
  BY <1>1, <1>4
<1>9. QED
  BY <1>0, <1>6, <1>7, <1>8, <1>r, KnownKept, TurnCore

LEMMA NextCore ==
    ASSUME Core, NEW p \in Process, NextId(p)
    PROVE  Core'
<1>r. raced' \in BOOLEAN
  BY RacedTyped DEF Progress
<1>0. /\ ~Idle(p) /\ TypeOK /\ Task_(p) \in Task /\ Task_(p).do = "each"
      /\ UNCHANGED <<tic, made, files, index, receipts, held, copy, crashes>>
  BY DoingTask DEF NextId, Core, disk
<1>1. PICK ids, to : ids = Task_(p).ids /\ to = Task_(p).to
  OBVIOUS
<1>2. ids \subseteq Id /\ to \in {"NACK", "WAIT"} /\ to \in State /\ \A m \in ids : m <= Len(made)
  <2>1. Apt(Task_(p))
    BY <1>0, FirstTask DEF Core, Local, AptWork
  <2>2. QED
    BY <1>0, <1>1, <2>1, TaskForms DEF Apt
<1>3. CASE Done(p)
  BY <1>0, <1>3, <1>r, KnownKept, DoneCore
<1>4. ASSUME NEW m \in ids, Replace(p, <<Transition(m, to, 0), Each(to, ids \ {m})>>)
      PROVE  Core'
  <2>1. Transition(m, to, 0) \in Task /\ Each(to, ids \ {m}) \in Task
    BY <1>2, TaskForms, InboxAssumption
  <2>2. PICK a \in Task, b \in Task : a = Transition(m, to, 0) /\ b = Each(to, ids \ {m})
    BY <2>1
  <2>3. Apt(a) /\ ~Delivering(a) /\ Apt(b) /\ ~Delivering(b)
    BY <1>2, <2>2 DEF Apt, Transition, Each, Delivering, Moving
  <2>4. <<a, b>> \in Seq(Task) /\ DOMAIN <<a, b>> = {1, 2} /\ <<a, b>>[1] = a /\ <<a, b>>[2] = b
    BY Lists
  <2>5. \A i \in DOMAIN <<a, b>> : Apt(<<a, b>>[i]) /\ ~Delivering(<<a, b>>[i])
    BY <2>3, <2>4
  <2>6. Replace(p, <<a, b>>)
    BY <1>4, <2>2
  <2>7. QED
    BY <1>0, <2>4, <2>5, <2>6, <1>r, KnownKept, TurnCore
<1>5. QED
  BY <1>1, <1>3, <1>4 DEF NextId

LEMMA CrashCore ==
    ASSUME Core, NEW p \in Process, Crash(p)
    PROVE  Core'
<1>0. /\ TypeOK /\ NoFile \in File /\ NoIndex \in Index /\ MaxCrash \in Nat
      /\ <<>> \in Seq(Task)
  BY InboxAssumption DEF Core, NoFile, NoIndex, File, Index, Id, State
<1>1. /\ todo' = [todo EXCEPT ![p] = <<>>] /\ step' = [step EXCEPT ![p] = "start"]
      /\ held' = [held EXCEPT ![p] = NoFile] /\ copy' = [copy EXCEPT ![p] = NoIndex]
      /\ UNCHANGED <<tic, made, index, receipts, raced>> /\ files' \subseteq files
      /\ crashes' = crashes + 1 /\ crashes < MaxCrash
  BY DEF Crash, Forget, Without
<1>2. TypeOK'
  <2>1. todo' \in [Process -> Seq(Task)] /\ step' \in [Process -> Steps]
    BY <1>0, <1>1 DEF TypeOK, Steps
  <2>2. held' \in [Process -> File] /\ copy' \in [Process -> Index] /\ crashes' \in 0..MaxCrash
    BY <1>0, <1>1 DEF TypeOK
  <2>3. QED
    BY <1>0, <1>1, <2>1, <2>2 DEF TypeOK, Steps
<1>3. Aside(p) /\ todo'[p] = <<>> /\ step'[p] = "start" /\ copy'[p] = NoIndex
  BY <1>0, <1>1 DEF Aside, TypeOK
<1>4. Local(p)'
  <2>1. DOMAIN todo'[p] = {} /\ Idle(p)'
    BY <1>3 DEF Idle
  <2>2. Known(copy[p])'
    BY <1>3 DEF Known, NoIndex
  <2>3. QED
    BY <1>3, <2>1, <2>2 DEF Local, Stage, AptWork, Grip, Doing, Moves
<1>5. ~Pending(p)'
  BY <1>3 DEF Pending, Delivers
<1>6. Known(index)' /\ Built'
  BY <1>1 DEF Core, Known, Built
<1>7. QED
  BY <1>1, <1>2, <1>3, <1>4, <1>5, <1>6, StepCore

LEMMA NextKeepsCore == Core /\ [Next]_vars => Core'
<1> SUFFICES ASSUME Core, [Next]_vars PROVE Core'
  OBVIOUS
<1>1. CASE UNCHANGED vars
  <2>1. UNCHANGED <<tic, made, files, index, receipts, todo, step, held, copy, crashes, raced>>
    BY <1>1 DEF vars
  <2>2. TypeOK' /\ Grown
    BY <2>1 DEF Core, TypeOK, Grown
  <2>3. \A p \in Process : Local(p)' /\ (Pending(p)' <=> Pending(p))
    BY <2>1, <2>2, KeptLocal
  <2>4. Pendings' = Pendings
    BY <2>3 DEF Pendings
  <2>5. QED
    BY <2>1, <2>2, <2>3, <2>4 DEF Core, Known, Built, Fits
<1>2. ASSUME NEW p \in Process, Progress(p) PROVE Core'
  <2>1. Miss(p) => Core'
    <3>1. SUFFICES ASSUME Miss(p) PROVE Core'
      OBVIOUS
    <3>2. ~Idle(p) /\ Done(p) /\ UNCHANGED <<tic, made, files, index, receipts, held, copy, crashes>>
      BY <3>1, DoingTask DEF Miss, Core, disk
    <3>r. raced' \in BOOLEAN
      BY <3>1, RacedTyped DEF Progress
    <3>3. QED
      BY <3>2, <3>r, KnownKept, DoneCore
  <2>2. QED
    BY <1>2, <2>1, CheckCore, DeliverCore, FindCore, WriteCore, RemoveCore, LoadCore, SaveCore,
       LogCore, ListCore, NextCore DEF Progress
<1>3. QED
  BY <1>1, <1>2, BeginsCore, CrashCore DEF Next

LEMMA CoreAlways == Spec => []Core
BY InitCore, NextKeepsCore, PTL DEF Spec

-----------------------------------------------------------------------------
(* The type invariant *)

\* No order of deliveries, moves, registry writes and kills makes a mailbox,
\* registry or process anything but what the declarations say; no envelope is
\* built beyond the bound.
THEOREM InboxTypes == Spec => []TypeOK
BY CoreAlways, PTL DEF Core

-----------------------------------------------------------------------------
(* One process at a time holds an envelope *)

\* The files of an envelope; more than one while it moves, or after a kill.
Of(m) == {f \in files : f.id = m}
Has(m, s) == \E f \in Of(m) : f.state = s

\* What closing leaves behind for good: the terminal file, and none from which
\* the same close could start again.
Closed(m, to) ==
    /\ Has(m, to)
    /\ to = "NACK" => ~Has(m, "WAIT")
    /\ to = "DONE" => ~Has(m, "WAIT") /\ ~Has(m, "ACTIVE")

Alone == \A p, q \in Process : p # q => \A m \in Id : ~(Handles(p, m) /\ Handles(q, m))

\* How far the move of p has come, on disk.
Seated(p) ==
    Moves(p) =>
       /\ step[p] = "write" => held[p] \in Found(Task_(p).id)
       /\ step[p] = "remove" =>
             /\ Has(Task_(p).id, Task_(p).to)
             /\ \A f \in Of(Task_(p).id) :
                   f.state = Task_(p).to \/ Rank(held[p].state) <= Rank(f.state)
       /\ step[p] \in {"load", "save", "receipt"} =>
             (Task_(p).do = "transition" /\ Task_(p).to \in Terminal =>
                 Closed(Task_(p).id, Task_(p).to))

Receipted ==
    \A r \in receipts :
        /\ r[1] <= Len(made)
        /\ Policy[made[r[1]]] # "latest_wins" => Closed(r[1], r[2])

Excl == Alone /\ (\A p \in Process : Seated(p)) /\ Receipted

LEMMA LegalMoves ==
    ASSUME NEW x \in Task, Moving(x), NEW f \in File, Legal(x, f)
    PROVE  /\ x.do = "transition" =>
                 /\ f.state \notin Terminal /\ f.state # x.to
                 /\ x.to = "NACK" => f.state = "WAIT"
                 /\ x.to = "DONE" => f.state = "ACTIVE"
                 /\ x.to = "WAIT" => f.state = "DEFER"
                 /\ x.to = "ACTIVE" => f.state = "WAIT"
                 /\ x.to = "DEFER" => f.state \in {"WAIT", "ACTIVE"}
           /\ x.do = "supersede" => x.to = "NACK"
           /\ f.state \in State /\ x.to \in State
<1>1. f.state \in State /\ x.to \in State /\ (x.do = "supersede" => x.to = "NACK")
  BY TaskForms DEF File
<1>2. CASE x.do = "supersede"
  BY <1>1, <1>2
<1>3. CASE x.do = "transition"
  <2>1. x.to \in Transitions[StateOf(f)]
    BY <1>3 DEF Legal
  <2>2. /\ Transitions["WAIT"] = {"ACTIVE", "DEFER", "NACK"}
        /\ Transitions["ACTIVE"] = {"DONE", "DEFER"} /\ Transitions["DEFER"] = {"WAIT"}
        /\ Transitions["DONE"] = {}
    BY DEF Transitions, State
  <2>3. f.state \in {"WAIT", "ACTIVE", "DEFER"} /\ StateOf(f) = f.state
    BY <1>1, <2>1, <2>2 DEF StateOf, State, Terminal
  <2>4. QED
    BY <1>1, <1>3, <2>1, <2>2, <2>3 DEF Terminal
<1>4. QED
  BY <1>2, <1>3 DEF Moving

LEMMA Ranks ==
    /\ Rank("WAIT") = 1 /\ Rank("ACTIVE") = 2 /\ Rank("DEFER") = 4
    /\ Rank("DONE") = 3 /\ Rank("NACK") = 3
BY DEF Rank, Terminal

\* Any step of p.
PStep(p) ==
    \/ \E k \in Key : Route(p, k)
    \/ \E m \in Id, to \in State, due \in 0..MaxTic : Verb(p, m, to, due)
    \/ Sweep(p) \/ Cadence(p) \/ Progress(p) \/ Crash(p)

LEMMA StepFrame ==
    ASSUME Core, NEW p \in Process, PStep(p)
    PROVE  /\ Aside(p) /\ Grown /\ (made' = made \/ DeliverFile(p))
           /\ \/ step'[p] = "start"
              \/ /\ todo' = todo /\ step'[p] # "start" /\ Task_(p)' = Task_(p)
                 /\ (Moves(p)' <=> Moves(p)) /\ ~Idle(p)
           /\ crashes' = crashes \/ (Crash(p) /\ crashes' = crashes + 1)
<1>0. TypeOK /\ Core'
  BY NextKeepsCore DEF PStep, Next, Core
<1>1. CASE \/ \E k \in Key : Route(p, k)
           \/ \E m \in Id, to \in State, due \in 0..MaxTic : Verb(p, m, to, due)
           \/ Sweep(p) \/ Cadence(p)
  <2>1. PICK tasks : Begin(p, tasks)
    BY <1>1 DEF Route, Verb, Sweep, Cadence
  <2>2. /\ todo' = [todo EXCEPT ![p] = tasks] /\ Idle(p)
        /\ UNCHANGED <<made, files, index, receipts, step, held, copy, crashes>>
    BY <2>1 DEF Begin, disk
  <2>3. step[p] = "start"
    BY <2>2 DEF Core, Local, Stage
  <2>4. QED
    BY <1>0, <2>2, <2>3 DEF TypeOK, Aside, Grown
<1>2. CASE Crash(p)
  BY <1>0, <1>2 DEF Crash, Forget, TypeOK, Aside, Grown
<1>3. ASSUME NEW tasks, Replace(p, tasks), UNCHANGED <<made, held, copy, crashes>>
      PROVE  /\ Aside(p) /\ Grown /\ made' = made /\ step'[p] = "start" /\ crashes' = crashes
  BY <1>0, <1>3 DEF Replace, TypeOK, Aside, Grown
<1>4. CASE CheckKey(p) \/ Miss(p) \/ ListIds(p) \/ NextId(p) \/ LogReceipt(p)
  <2>1. (\E tasks : Replace(p, tasks)) /\ UNCHANGED <<made, held, copy, crashes>>
    BY <1>4 DEF CheckKey, Miss, ListIds, NextId, LogReceipt, Done, disk
  <2>2. QED
    BY <1>3, <2>1
<1>5. CASE SaveRegistry(p)
  <2>1. held' = [held EXCEPT ![p] = NoFile] /\ copy' = [copy EXCEPT ![p] = NoIndex]
        /\ made' = made /\ crashes' = crashes
    BY <1>5 DEF SaveRegistry, Forget
  <2>2. Goto(p, "receipt") \/ \E tasks : Replace(p, tasks)
    BY <1>5 DEF SaveRegistry, Done
  <2>3. ~Idle(p)
    BY <1>5 DEF SaveRegistry, Core, Local, Stage
  <2>4. CASE Goto(p, "receipt")
    BY <1>0, <2>1, <2>3, <2>4 DEF Goto, TypeOK, Aside, Grown, Task_, Moves, Doing, Idle
  <2>5. CASE \E tasks : Replace(p, tasks)
    BY <1>0, <2>1, <2>5 DEF Replace, TypeOK, Aside, Grown
  <2>6. QED
    BY <2>2, <2>4, <2>5
<1>6. CASE Find(p) \/ WriteFile(p) \/ RemoveFile(p) \/ LoadRegistry(p) \/ DeliverFile(p)
  <2>1. PICK s \in Steps \ {"start"} : Goto(p, s)
    BY <1>6 DEF Find, WriteFile, RemoveFile, LoadRegistry, DeliverFile, Steps
  <2>2. ~Idle(p)
    BY <1>6, DoingTask DEF Find, WriteFile, RemoveFile, LoadRegistry, DeliverFile, Core, Local, Stage
  <2>3. /\ todo' = todo /\ step'[p] # "start" /\ Task_(p)' = Task_(p)
        /\ (Moves(p)' <=> Moves(p)) /\ \A q \in Process \ {p} : step'[q] = step[q]
    BY <1>0, <2>1 DEF Goto, TypeOK, Task_, Moves, Doing, Idle
  <2>4. /\ \A q \in Process \ {p} : held'[q] = held[q] /\ copy'[q] = copy[q]
        /\ crashes' = crashes /\ (made' = made \/ DeliverFile(p))
    BY <1>0, <1>6 DEF Find, WriteFile, RemoveFile, LoadRegistry, DeliverFile, TypeOK, disk
  <2>5. Grown
    <3>1. CASE made' = made
      BY <1>0, <3>1 DEF Grown, TypeOK
    <3>2. CASE DeliverFile(p)
      BY <1>0, <3>2 DEF DeliverFile, Grown, TypeOK, Core
    <3>3. QED
      BY <2>4, <3>1, <3>2
  <2>6. QED
    BY <2>2, <2>3, <2>4, <2>5 DEF Aside
<1>7. QED
  BY <1>1, <1>2, <1>4, <1>5, <1>6 DEF PStep, Progress

\* p changes no files but those of the envelope it is moving, or a new one.
LEMMA FilesKept ==
    ASSUME Core, NEW p \in Process, PStep(p), NEW m, m <= Len(made), ~Handles(p, m)
    PROVE  Of(m)' = Of(m)
<1>0. TypeOK /\ Len(made) \in Nat
  BY DEF Core, TypeOK
<1>1. CASE DeliverFile(p)
  <2>1. PICK f : f.id = Len(made) + 1 /\ files' = files \cup {f}
    BY <1>1 DEF DeliverFile
  <2>2. f.id # m
    BY <1>0, <2>1
  <2>3. QED
    BY <2>1, <2>2 DEF Of
<1>2. CASE WriteFile(p)
  <2>1. Task_(p).id # m
    BY <1>2 DEF WriteFile, Handles
  <2>2. PICK f : f.id = Task_(p).id /\ files' = Without(Task_(p).id, Task_(p).to) \cup {f}
    BY <1>2 DEF WriteFile
  <2>3. QED
    BY <2>1, <2>2 DEF Of, Without
<1>3. CASE RemoveFile(p)
  <2>1. Task_(p).id # m /\ held[p].id = Task_(p).id
    BY <1>3 DEF RemoveFile, Handles, Core, Local, Grip
  <2>2. QED
    BY <1>3, <2>1 DEF RemoveFile, Of, Without
<1>4. CASE Crash(p) /\ Moves(p) /\ step[p] = "write" /\ files' = Without(Task_(p).id, Task_(p).to)
  <2>1. Task_(p).id # m
    BY <1>4 DEF Handles
  <2>2. QED
    BY <1>4, <2>1 DEF Of, Without
<1>5. CASE files' = files
  BY <1>5 DEF Of
<1>6. QED
  BY <1>1, <1>2, <1>3, <1>4, <1>5 DEF PStep, Progress, Route, Verb, Sweep, Cadence, Begin, Crash,
     CheckKey, Find, Miss, LoadRegistry, SaveRegistry, LogReceipt, ListIds, NextId, disk

LEMMA OfKept ==
    ASSUME NEW m, Of(m)' = Of(m)
    PROVE  /\ \A s : Has(m, s)' <=> Has(m, s)
           /\ \A s : Closed(m, s)' <=> Closed(m, s)
           /\ Found(m)' = Found(m)
BY DEF Has, Closed, Found, Of

LEMMA HandlesKept ==
    ASSUME Core, NEW p \in Process, PStep(p)
    PROVE  /\ \A q \in Process \ {p} : \A m : Handles(q, m)' <=> Handles(q, m)
           /\ \A m : Handles(p, m)' => Handles(p, m) \/ (Find(p) /\ Task_(p).id = m)
<1>1. \A q \in Process \ {p} : todo'[q] = todo[q] /\ step'[q] = step[q]
  BY StepFrame DEF Aside
<1>2. \A q \in Process \ {p} : \A m : Handles(q, m)' <=> Handles(q, m)
  BY <1>1 DEF Handles, Moves, Doing, Idle, Task_
<1>3. ASSUME NEW m, Handles(p, m)', ~Handles(p, m)
      PROVE  Find(p) /\ Task_(p).id = m
  <2>1. /\ todo' = todo /\ step'[p] # "start" /\ Task_(p)' = Task_(p) /\ Moves(p)' /\ Moves(p) /\ ~Idle(p)
    BY <1>3, StepFrame DEF Handles
  <2>2. step[p] = "start" /\ Task_(p).id = m
    BY <1>3, <2>1 DEF Handles
  <2>3. \A name : name \notin {"transition", "supersede"} => ~Doing(p, name)
    BY <2>1 DEF Moves, Doing
  <2>4. step'[p] # step[p]
    BY <2>1, <2>2
  <2>5. step' # [step EXCEPT ![p] = "start"]
    <3>1. step \in [Process -> Steps]
      BY DEF Core, TypeOK, Steps
    <3>2. QED
      BY <2>1, <3>1
  <2>6. ~Crash(p) /\ ~Miss(p)
    BY <2>5 DEF Crash, Miss, Done, Replace
  <2>7. ~DeliverFile(p) /\ ~CheckKey(p) /\ ~ListIds(p) /\ ~NextId(p)
    BY <2>3 DEF DeliverFile, CheckKey, ListIds, NextId
  <2>8. ~WriteFile(p) /\ ~RemoveFile(p) /\ ~LoadRegistry(p) /\ ~SaveRegistry(p) /\ ~LogReceipt(p)
    BY <2>2, <2>3 DEF WriteFile, RemoveFile, LoadRegistry, SaveRegistry, LogReceipt
  <2>9. ~(\E tasks : Begin(p, tasks))
    BY <2>1 DEF Begin
  <2>10. Find(p)
    BY <2>6, <2>7, <2>8, <2>9 DEF PStep, Progress, Route, Verb, Sweep, Cadence
  <2>11. QED
    BY <2>2, <2>10
<1>4. QED
  BY <1>2, <1>3

LEMMA AloneKept ==
    ASSUME Core, Exclusive, Alone, NEW p \in Process, PStep(p)
    PROVE  Alone'
<1>1. SUFFICES ASSUME NEW q \in Process, NEW r \in Process, q # r, NEW m \in Id,
                      Handles(q, m)', Handles(r, m)'
               PROVE  FALSE
  BY DEF Alone
<1>2. ASSUME NEW o \in Process \ {p}, Handles(o, m)', Handles(p, m)'
      PROVE  FALSE
  <2>1. Handles(o, m)
    BY <1>2, HandlesKept
  <2>2. CASE Handles(p, m)
    BY <2>1, <2>2 DEF Alone
  <2>3. CASE Find(p) /\ Task_(p).id = m
    BY <2>1, <2>3 DEF Find
  <2>4. QED
    BY <1>2, <2>2, <2>3, HandlesKept
<1>3. CASE q = p \/ r = p
  BY <1>1, <1>2, <1>3
<1>4. CASE q # p /\ r # p
  BY <1>1, <1>4, HandlesKept DEF Alone
<1>5. QED
  BY <1>3, <1>4

\* What p handles, the others do not.
LEMMA OthersSeated ==
    ASSUME Core, Alone, NEW p \in Process, PStep(p), NEW q \in Process \ {p}, Seated(q)
    PROVE  Seated(q)'
<1>1. todo'[q] = todo[q] /\ step'[q] = step[q] /\ held'[q] = held[q]
  BY StepFrame DEF Aside
<1>2. (Moves(q)' <=> Moves(q)) /\ Task_(q)' = Task_(q)
  BY <1>1 DEF Moves, Doing, Idle, Task_
<1>3. CASE Moves(q) /\ step[q] # "start"
  <2>1. Handles(q, Task_(q).id) /\ Task_(q).id \in Id /\ ~Idle(q) /\ Task_(q) \in Task
    BY <1>3, DoingTask DEF Handles, Core
  <2>2. Task_(q).id <= Len(made)
    BY <1>3, <2>1, FirstTask, DoingTask DEF Core, Local, AptWork, Apt
  <2>3. ~Handles(p, Task_(q).id)
    BY <2>1 DEF Alone
  <2>4. PICK m : m = Task_(q).id
    OBVIOUS
  <2>5. Of(m)' = Of(m)
    BY <2>2, <2>3, <2>4, FilesKept
  <2>6. /\ \A s : Has(m, s)' <=> Has(m, s)
        /\ \A s : Closed(m, s)' <=> Closed(m, s)
        /\ Found(m)' = Found(m)
    BY <2>5, OfKept
  <2>7. Found(Task_(q).id)' = Found(m) /\ Of(Task_(q).id)' = Of(m)
        /\ (Has(Task_(q).id, Task_(q).to)' <=> Has(m, Task_(q).to))
        /\ (Closed(Task_(q).id, Task_(q).to)' <=> Closed(m, Task_(q).to))
    BY <1>2, <2>4, <2>5, <2>6 DEF Found, Of, Has, Closed
  <2>8. QED
    BY <1>1, <1>2, <2>4, <2>7 DEF Seated
<1>4. CASE ~(Moves(q) /\ step[q] # "start")
  BY <1>1, <1>2, <1>4 DEF Seated
<1>5. QED
  BY <1>3, <1>4

\* The steps of a move, in their order.
LEMMA MoveSteps ==
    ASSUME Core, NEW p \in Process, PStep(p), Moves(p), step'[p] # "start"
    PROVE  \/ Find(p) /\ step'[p] = "write"
           \/ WriteFile(p) /\ step'[p] = "remove"
           \/ RemoveFile(p) /\ step'[p] = "load"
           \/ LoadRegistry(p) /\ step[p] = "load" /\ step'[p] = "save"
           \/ SaveRegistry(p) /\ step'[p] = "receipt"
<1>1. step \in [Process -> Steps] /\ ~Idle(p)
  BY DoingTask DEF Core, TypeOK, Steps
<1>2. step' # [step EXCEPT ![p] = "start"]
  BY <1>1
<1>3. ~Crash(p) /\ ~Miss(p) /\ ~LogReceipt(p)
  BY <1>2 DEF Crash, Miss, LogReceipt, Done, Replace
<1>4. ~DeliverFile(p) /\ ~CheckKey(p) /\ ~ListIds(p) /\ ~NextId(p) /\ ~Doing(p, "reconcile")
  BY DEF DeliverFile, CheckKey, ListIds, NextId, Moves, Doing
<1>5. ~(\E tasks : Begin(p, tasks))
  BY <1>1 DEF Begin
<1>6. Find(p) \/ WriteFile(p) \/ RemoveFile(p) \/ LoadRegistry(p) \/ SaveRegistry(p)
  BY <1>3, <1>4, <1>5 DEF PStep, Progress, Route, Verb, Sweep, Cadence
<1>7. ASSUME NEW t, Goto(p, t) PROVE step'[p] = t
  BY <1>1, <1>7 DEF Goto
<1>8. CASE SaveRegistry(p)
  <2>1. ~Done(p)
    BY <1>2 DEF Done, Replace
  <2>2. Goto(p, "receipt")
    BY <1>8, <2>1 DEF SaveRegistry
  <2>3. QED
    BY <1>7, <1>8, <2>2
<1>9. CASE Find(p) \/ WriteFile(p) \/ RemoveFile(p) \/ LoadRegistry(p)
  BY <1>4, <1>7, <1>9 DEF Find, WriteFile, RemoveFile, LoadRegistry
<1>10. QED
  BY <1>6, <1>8, <1>9

\* The file operations of a move.
LEMMA WriteEffect ==
    ASSUME Core, NEW p \in Process, WriteFile(p), NEW m, m = Task_(p).id
    PROVE  /\ \A f \in Of(m)' : f.state = Task_(p).to \/ (f \in Of(m) /\ f.state # Task_(p).to)
           /\ \A f \in Of(m) : f.state # Task_(p).to => f \in Of(m)'
           /\ Has(m, Task_(p).to)'
<1>1. PICK g : /\ g.id = m /\ g.state = Task_(p).to
               /\ files' = Without(m, Task_(p).to) \cup {g}
  BY DEF WriteFile
<1>2. \A f \in Of(m)' : f.state = Task_(p).to \/ (f \in Of(m) /\ f.state # Task_(p).to)
  BY <1>1 DEF Of, Without
<1>3. \A f \in Of(m) : f.state # Task_(p).to => f \in Of(m)'
  BY <1>1 DEF Of, Without
<1>4. g \in Of(m)'
  BY <1>1 DEF Of
<1>5. PICK to : to = Task_(p).to
  OBVIOUS
<1>6. Has(m, to)'
  BY <1>1, <1>4, <1>5 DEF Has
<1>7. Task_(p)' = Task_(p)
  BY DEF WriteFile, Goto, Task_
<1>8. QED
  BY <1>2, <1>3, <1>5, <1>6, <1>7 DEF Has

LEMMA RemoveEffect ==
    ASSUME Core, NEW p \in Process, RemoveFile(p), NEW m, m = Task_(p).id
    PROVE  /\ \A f \in Of(m)' : f \in Of(m) /\ f.state # held[p].state
           /\ \A f \in Of(m) : f.state # held[p].state => f \in Of(m)'
<1>1. held[p].id = m
  BY DEF RemoveFile, Core, Local, Grip
<1>2. QED
  BY <1>1 DEF RemoveFile, Of, Without

LEMMA OwnSeated ==
    ASSUME Core, NEW p \in Process, PStep(p), Seated(p)
    PROVE  Seated(p)'
<1>1. CASE step'[p] = "start" \/ ~Moves(p)'
  BY <1>1 DEF Seated
<1>2. CASE step'[p] # "start" /\ Moves(p)'
  <2>1. /\ Task_(p)' = Task_(p) /\ Moves(p) /\ ~Idle(p) /\ TypeOK /\ Local(p)
    BY <1>2, StepFrame DEF Core
  <2>2. PICK m, to : m = Task_(p).id /\ to = Task_(p).to
    OBVIOUS
  <2>3. /\ Task_(p) \in Task /\ Moving(Task_(p)) /\ m \in Id /\ to \in State
    BY <2>1, <2>2, DoingTask
  <2>4. CASE Find(p) /\ step'[p] = "write"
    <3>1. PICK f \in Found(m) : held' = [held EXCEPT ![p] = f]
      BY <2>2, <2>4 DEF Find
    <3>2. held'[p] = f
      BY <2>1, <3>1 DEF TypeOK
    <3>3. Found(m)' = Found(m)
      BY <2>4 DEF Find, Found, disk
    <3>4. QED
      BY <2>1, <2>2, <2>4, <3>1, <3>2, <3>3 DEF Seated
  <2>5. CASE WriteFile(p) /\ step'[p] = "remove"
    <3>1. held[p] \in Found(m) /\ held'[p] = held[p]
      BY <2>1, <2>2, <2>5 DEF WriteFile, Seated
    <3>2. /\ \A f \in Of(m)' : f.state = to \/ f \in Of(m)
          /\ Has(m, to)'
      <4>1. Has(m, Task_(p).to)'
        BY <2>2, <2>5, WriteEffect
      <4>2. QED
        BY <2>1, <2>2, <2>5, <4>1, WriteEffect DEF Has
    <3>3. \A f \in Of(m)' : f.state = to \/ Rank(held[p].state) <= Rank(f.state)
      BY <3>1, <3>2 DEF Found, Of
    <3>4. QED
      BY <2>1, <2>2, <2>5, <3>1, <3>2, <3>3 DEF Seated, Has, Of, Rank
  <2>6. CASE RemoveFile(p) /\ step'[p] = "load"
    <3>0. /\ Has(m, to) /\ held[p] \in File /\ Legal(Task_(p), held[p])
          /\ \A f \in Of(m) : f.state = to \/ Rank(held[p].state) <= Rank(f.state)
      BY <2>1, <2>2, <2>6 DEF RemoveFile, Seated, Local, Grip, TypeOK
    <3>1. /\ \A f \in Of(m)' : f \in Of(m) /\ f.state # held[p].state
          /\ \A f \in Of(m) : f.state # held[p].state => f \in Of(m)'
      BY <2>2, <2>6, RemoveEffect
    <3>2. ASSUME Task_(p).do = "transition", to \in Terminal
          PROVE  Closed(m, to)'
      <4>1. /\ held[p].state # to /\ (to = "NACK" => held[p].state = "WAIT")
            /\ (to = "DONE" => held[p].state = "ACTIVE")
        BY <2>2, <2>3, <3>0, <3>2, LegalMoves
      <4>2. Has(m, to)'
        BY <3>0, <3>1, <4>1 DEF Has
      <4>3. to = "NACK" => ~Has(m, "WAIT")'
        BY <3>1, <4>1 DEF Has
      <4>4. to = "DONE" => ~Has(m, "ACTIVE")'
        BY <3>1, <4>1 DEF Has
      <4>5. to = "DONE" => ~Has(m, "WAIT")'
        <5>1. SUFFICES ASSUME to = "DONE", NEW f \in Of(m)', f.state = "WAIT" PROVE FALSE
          BY DEF Has
        <5>2. Rank("ACTIVE") <= Rank("WAIT")
          BY <3>0, <3>1, <4>1, <5>1
        <5>3. QED
          BY <5>2, Ranks
      <4>6. QED
        BY <4>2, <4>3, <4>4, <4>5 DEF Closed
    <3>3. Closed(Task_(p).id, Task_(p).to)' <=> Closed(m, to)'
      BY <2>1, <2>2 DEF Closed, Has, Of
    <3>4. QED
      BY <2>1, <2>2, <2>6, <3>2, <3>3 DEF Seated
  <2>7. CASE \/ LoadRegistry(p) /\ step[p] = "load" /\ step'[p] = "save"
             \/ SaveRegistry(p) /\ step'[p] = "receipt"
    <3>1. Of(m)' = Of(m) /\ step[p] \in {"load", "save"}
      BY <2>7 DEF LoadRegistry, SaveRegistry, Of, disk
    <3>2. Closed(m, to)' <=> Closed(m, to)
      BY <3>1, OfKept
    <3>3. Closed(Task_(p).id, Task_(p).to)' <=> Closed(m, to)
      BY <2>1, <2>2, <3>2 DEF Closed, Has, Of
    <3>4. step'[p] \in {"save", "receipt"}
      BY <2>7
    <3>5. QED
      BY <2>1, <2>2, <3>1, <3>3, <3>4 DEF Seated
  <2>8. QED
    BY <1>2, <2>1, <2>4, <2>5, <2>6, <2>7, MoveSteps
<1>3. QED
  BY <1>1, <1>2

LEMMA ReceiptedKept ==
    ASSUME Core, Excl, NEW p \in Process, PStep(p)
    PROVE  Receipted'
<1>0. TypeOK /\ Grown /\ Len(made) \in Nat /\ Len(made') \in Nat /\ Seated(p)
  BY StepFrame DEF Core, TypeOK, Excl, Grown
<1>a. Core'
  BY NextKeepsCore DEF PStep, Next
<1>1. SUFFICES ASSUME NEW r \in receipts'
               PROVE  /\ r[1] <= Len(made')
                      /\ Policy[made'[r[1]]] # "latest_wins" => Closed(r[1], r[2])'
  BY DEF Receipted
<1>2. CASE r \in receipts
  <2>1. PICK m, s : m = r[1] /\ s = r[2]
    OBVIOUS
  <2>2. m \in Id /\ s \in Terminal /\ m <= Len(made) /\ made'[m] = made[m] /\ m <= Len(made')
    BY <1>0, <1>2, <2>1 DEF Excl, Receipted, TypeOK, Grown, Id
  <2>3. SUFFICES ASSUME Policy[made[m]] # "latest_wins" PROVE Closed(m, s)'
    BY <2>1, <2>2 DEF Closed, Has, Of
  <2>4. Closed(m, s)
    BY <1>2, <2>1, <2>3 DEF Excl, Receipted
  <2>5. CASE ~Handles(p, m)
    BY <2>2, <2>4, <2>5, FilesKept, OfKept
  <2>6. CASE Handles(p, m)
    <3>1. /\ Moves(p) /\ step[p] # "start" /\ Task_(p).id = m /\ Task_(p) \in Task
          /\ Moving(Task_(p)) /\ ~Idle(p) /\ Local(p)
      BY <2>6, DoingTask DEF Handles, Core
    <3>2. Task_(p).do = "transition"
      <4>1. Apt(Task_(p))
        BY <3>1, FirstTask, <1>0 DEF Local, AptWork
      <4>2. QED
        BY <2>3, <3>1, <4>1 DEF Apt, Moving
    <3>3. PICK to : to = Task_(p).to
      OBVIOUS
    <3>4. held[p] \in File /\ (step[p] \in {"write", "remove"} => Legal(Task_(p), held[p]))
      BY <1>0, <3>1 DEF TypeOK, Local, Grip
    \* Nothing but a second claimant's completion or deferral can still be moving.
    <3>5. step[p] = "write" => held[p].state = "ACTIVE" /\ s = "NACK" /\ to \in {"DONE", "DEFER"}
      <4>1. SUFFICES ASSUME step[p] = "write"
                     PROVE  held[p].state = "ACTIVE" /\ s = "NACK" /\ to \in {"DONE", "DEFER"}
        OBVIOUS
      <4>2. held[p] \in Of(m) /\ \A f \in Of(m) : Rank(held[p].state) <= Rank(f.state)
        BY <1>0, <3>1, <4>1 DEF Seated, Found, Of
      <4>3. PICK f \in Of(m) : f.state = s
        BY <2>4 DEF Closed, Has
      <4>4. Rank(s) = 3
        BY <2>2, Ranks DEF Terminal
      <4>5. held[p].state # "DEFER"
        BY <4>2, <4>3, <4>4, Ranks
      <4>6. /\ held[p].state \in State /\ held[p].state \notin Terminal /\ to \in State
            /\ held[p].state # to
            /\ (to = "NACK" => held[p].state = "WAIT") /\ (to = "WAIT" => held[p].state = "DEFER")
            /\ (to = "ACTIVE" => held[p].state = "WAIT")
        BY <3>1, <3>2, <3>3, <3>4, <4>1, LegalMoves
      <4>7. held[p].state = "ACTIVE" /\ s = "NACK"
        BY <2>2, <2>4, <4>2, <4>5, <4>6 DEF Closed, Has, State, Terminal
      <4>8. QED
        BY <4>6, <4>7 DEF State
    <3>6. CASE WriteFile(p)
      <4>1. /\ \A f \in Of(m)' : f.state = to \/ f \in Of(m)
            /\ \A f \in Of(m) : f.state # to => f \in Of(m)'
        BY <3>1, <3>3, <3>6, WriteEffect
      <4>2. to \in {"DONE", "DEFER"} /\ s = "NACK"
        BY <3>5, <3>6 DEF WriteFile
      <4>3. Has(m, s)'
        BY <2>4, <4>1, <4>2 DEF Closed, Has
      <4>4. ~Has(m, "WAIT")'
        BY <2>4, <4>1, <4>2 DEF Closed, Has
      <4>5. QED
        BY <4>2, <4>3, <4>4 DEF Closed
    <3>7. CASE RemoveFile(p)
      <4>1. /\ \A f \in Of(m)' : f \in Of(m)
            /\ \A f \in Of(m) : f.state # held[p].state => f \in Of(m)'
        BY <3>1, <3>7, RemoveEffect
      <4>2. held[p].state \notin Terminal
        BY <3>1, <3>2, <3>4, <3>7, LegalMoves DEF RemoveFile
      <4>3. Has(m, s)'
        BY <2>2, <2>4, <4>1, <4>2 DEF Closed, Has
      <4>4. QED
        BY <2>4, <4>1, <4>3 DEF Closed, Has
    <3>8. CASE Crash(p) /\ step[p] = "write" /\ files' = Without(m, to)
      <4>1. to \in {"DONE", "DEFER"} /\ s = "NACK"
        BY <3>5, <3>8
      <4>2. \A f : f \in Of(m)' <=> f \in Of(m) /\ f.state # to
        BY <3>8 DEF Of, Without
      <4>3. QED
        BY <2>4, <4>1, <4>2 DEF Closed, Has
    <3>9. CASE files' = files
      <4>1. Of(m)' = Of(m)
        BY <3>9 DEF Of
      <4>2. QED
        BY <2>4, <4>1, OfKept
    <3>10. ~DeliverFile(p)
      BY <3>1 DEF DeliverFile, Moves, Doing
    <3>11. QED
      BY <3>1, <3>3, <3>6, <3>7, <3>8, <3>9, <3>10
         DEF PStep, Progress, Route, Verb, Sweep, Cadence, Begin, Crash,
             CheckKey, Find, Miss, LoadRegistry, SaveRegistry, LogReceipt, ListIds, NextId, disk
  <2>7. QED
    BY <2>5, <2>6
<1>3. CASE r \notin receipts
  <2>1. LogReceipt(p) /\ r = <<Task_(p).id, Task_(p).to>>
    BY <1>1, <1>3 DEF PStep, Progress, Route, Verb, Sweep, Cadence, Begin, Crash, CheckKey, DeliverFile,
       Find, Miss, WriteFile, RemoveFile, LoadRegistry, SaveRegistry, LogReceipt, ListIds, NextId, disk
  <2>2. /\ Moves(p) /\ Moving(Task_(p)) /\ Task_(p).id \in Id /\ Task_(p).to \in Terminal
        /\ Task_(p) \in Task /\ ~Idle(p) /\ step[p] = "receipt" /\ Apt(Task_(p))
    BY <2>1, DoingTask, FirstTask DEF LogReceipt, Core, Local, Stage, AptWork
  <2>3. PICK m, to : m = Task_(p).id /\ to = Task_(p).to
    OBVIOUS
  <2>4. r[1] = m /\ r[2] = to /\ m <= Len(made) /\ made' = made /\ files' = files
    BY <2>1, <2>2, <2>3 DEF LogReceipt, Apt
  <2>5. Policy[made[m]] # "latest_wins" => Closed(m, to)
    BY <1>0, <2>2, <2>3 DEF Apt, Moving, Seated
  <2>6. Closed(m, to)' <=> Closed(m, to)
    BY <2>4 DEF Closed, Has, Of
  <2>7. Closed(r[1], r[2])' <=> Closed(m, to)'
    BY <2>4 DEF Closed, Has, Of
  <2>8. QED
    BY <2>4, <2>5, <2>6, <2>7
<1>4. QED
  BY <1>2, <1>3

LEMMA InitExcl == Init => Excl
<1> SUFFICES ASSUME Init PROVE Excl
  OBVIOUS
<1>1. \A p \in Process : ~Moves(p) /\ \A m : ~Handles(p, m)
  BY DEF Init, Moves, Doing, Idle, Handles
<1>2. QED
  BY <1>1 DEF Init, Excl, Alone, Seated, Receipted

LEMMA NextKeepsExcl ==
    ASSUME Exclusive
    PROVE  Core /\ Excl /\ [Next]_vars => Excl'
<1> SUFFICES ASSUME Core, Excl, [Next]_vars PROVE Excl'
  OBVIOUS
<1>1. CASE UNCHANGED vars
  BY <1>1 DEF vars, Excl, Alone, Seated, Receipted, Closed, Has, Of, Handles, Moves, Doing, Idle,
              Task_, Found
<1>2. ASSUME NEW p \in Process, PStep(p) PROVE Excl'
  <2>1. Alone' /\ Receipted'
    BY <1>2, AloneKept, ReceiptedKept DEF Excl
  <2>2. \A q \in Process : Seated(q)'
    BY <1>2, OthersSeated, OwnSeated DEF Excl
  <2>3. QED
    BY <2>1, <2>2 DEF Excl
<1>3. QED
  BY <1>1, <1>2 DEF Next, PStep

LEMMA ExclAlways ==
    ASSUME Exclusive
    PROVE  Spec => []Excl
<1>1. Core /\ Excl /\ [Next]_vars => Excl'
  BY NextKeepsExcl
<1>2. QED
  BY <1>1, InitExcl, CoreAlways, PTL DEF Spec

\* Where no two processes hold one envelope, a receipt that was logged for an
\* envelope no newer one may supersede stays true: whatever is killed or moved
\* later, the archive keeps the file the receipt speaks of.
THEOREM ReceiptsTruthful ==
    ASSUME Exclusive
    PROVE  Spec => []ReceiptTruthful
<1>1. Core /\ Excl => ReceiptTruthful
  <2>1. SUFFICES ASSUME Core, Excl, NEW r \in receipts, Policy[made[r[1]]] # "latest_wins"
                 PROVE  r[1] \in Archived
    BY DEF ReceiptTruthful
  <2>2. r[2] \in Terminal /\ Has(r[1], r[2])
    BY <2>1 DEF Core, TypeOK, Excl, Receipted, Closed
  <2>3. QED
    BY <2>2 DEF Has, Of, Archived
<1>2. QED
  BY <1>1, CoreAlways, ExclAlways, PTL

-----------------------------------------------------------------------------
(* Without kills *)

\* An envelope no process is in the middle of removing is in one channel.
Removing(m) == \E p \in Process : Handles(p, m) /\ step[p] = "remove"
Lone(m) == \A f, g \in Of(m) : f.state = g.state
Swept(p) ==
    Moves(p) =>
       /\ step[p] = "remove" => \A f \in Of(Task_(p).id) : f.state \in {Task_(p).to, held[p].state}
       /\ step[p] \in {"load", "save", "receipt"} =>
             \A f \in Of(Task_(p).id) : f.state = Task_(p).to

Settled ==
    /\ \A m \in Id : ~Removing(m) => Lone(m)
    /\ \A p \in Process : Swept(p)
Calm == crashes = 0 => Settled

\* No step but a delivery makes an envelope live that was not.
LEMMA StaysClosed ==
    ASSUME Core, Excl, NEW p \in Process, PStep(p), NEW m \in 0..Len(made), m \notin Live
    PROVE  m \notin Live'
<1>0. TypeOK /\ Len(made) \in Nat
  BY DEF Core, TypeOK
<1>1. \A f \in Of(m) : f.state \in Terminal
  BY DEF Live, Of
<1>2. CASE ~Handles(p, m)
  <2>1. Of(m)' = Of(m)
    BY <1>0, <1>2, FilesKept
  <2>2. \A f \in files' : f.id = m => f.state \in Terminal
    BY <1>1, <2>1 DEF Of
  <2>3. QED
    BY <2>2 DEF Live
<1>3. CASE Handles(p, m)
  <2>1. /\ Moves(p) /\ step[p] # "start" /\ Task_(p).id = m /\ Task_(p) \in Task
        /\ Moving(Task_(p)) /\ Local(p) /\ Seated(p)
    BY <1>0, <1>3, DoingTask DEF Handles, Core, Excl
  <2>2. CASE WriteFile(p)
    <3>1. /\ held[p] \in Of(m) /\ held[p] \in File /\ Legal(Task_(p), held[p])
      BY <1>0, <2>1, <2>2 DEF WriteFile, Seated, Found, Of, Local, Grip, TypeOK
    <3>2. held[p].state \in Terminal
      BY <1>1, <3>1
    <3>3. Task_(p).to \in Terminal
      BY <2>1, <3>1, <3>2, LegalMoves DEF Moving, Terminal
    <3>4. \A f \in Of(m)' : f.state \in Terminal
      BY <1>1, <2>1, <2>2, <3>3, WriteEffect
    <3>5. QED
      BY <3>4 DEF Live, Of
  <2>3. CASE files' \subseteq files
    BY <2>3 DEF Live
  <2>4. ~DeliverFile(p)
    BY <2>1 DEF DeliverFile, Moves, Doing
  <2>5. QED
    BY <2>2, <2>3, <2>4
       DEF PStep, Progress, Route, Verb, Sweep, Cadence, Begin, Crash, Without, RemoveFile,
           CheckKey, Find, Miss, LoadRegistry, SaveRegistry, LogReceipt, ListIds, NextId, disk
<1>4. QED
  BY <1>2, <1>3

LEMMA SweptKept ==
    ASSUME Core, Excl, Settled, NEW p \in Process, PStep(p), ~Crash(p), NEW q \in Process
    PROVE  Swept(q)'
<1>0. TypeOK
  BY DEF Core
<1>1. CASE q # p
  <2>1. todo'[q] = todo[q] /\ step'[q] = step[q] /\ held'[q] = held[q]
    BY <1>1, StepFrame DEF Aside
  <2>2. (Moves(q)' <=> Moves(q)) /\ Task_(q)' = Task_(q)
    BY <2>1 DEF Moves, Doing, Idle, Task_
  <2>3. CASE Moves(q) /\ step[q] # "start"
    <3>1. Handles(q, Task_(q).id) /\ Task_(q).id \in Id /\ ~Idle(q) /\ Task_(q) \in Task
      BY <1>0, <2>3, DoingTask DEF Handles
    <3>2. Task_(q).id <= Len(made)
      BY <1>0, <2>3, <3>1, FirstTask, DoingTask DEF Core, Local, AptWork, Apt
    <3>3. PICK m : m = Task_(q).id
      OBVIOUS
    <3>4. Of(m)' = Of(m)
      BY <1>1, <3>1, <3>2, <3>3, FilesKept DEF Excl, Alone
    <3>5. Of(Task_(q).id)' = Of(m)'
      BY <2>2, <3>3 DEF Of
    <3>6. QED
      BY <2>1, <2>2, <3>3, <3>4, <3>5 DEF Swept, Settled
  <2>4. QED
    BY <2>1, <2>2, <2>3 DEF Swept
<1>2. CASE q = p
  <2>1. CASE step'[p] = "start" \/ ~Moves(p)'
    BY <1>2, <2>1 DEF Swept
  <2>2. CASE step'[p] # "start" /\ Moves(p)'
    <3>1. /\ Task_(p)' = Task_(p) /\ Moves(p) /\ ~Idle(p) /\ Swept(p) /\ Seated(p)
      BY <2>2, StepFrame DEF Settled, Excl
    <3>2. PICK m, to : m = Task_(p).id /\ to = Task_(p).to
      OBVIOUS
    <3>3. Task_(p) \in Task /\ Moving(Task_(p)) /\ m \in Id /\ Of(Task_(p).id)' = Of(m)'
      BY <1>0, <3>1, <3>2, DoingTask DEF Of
    <3>4. CASE Find(p) /\ step'[p] = "write"
      BY <1>2, <3>4 DEF Swept
    <3>5. CASE WriteFile(p) /\ step'[p] = "remove"
      <4>1. held[p] \in Of(m) /\ held'[p] = held[p] /\ Handles(p, m) /\ step[p] = "write"
        BY <3>1, <3>2, <3>5 DEF WriteFile, Seated, Found, Of, Handles
      <4>2. ~Removing(m)
        BY <3>3, <4>1 DEF Removing, Excl, Alone
      <4>3. \A f \in Of(m) : f.state = held[p].state
        BY <3>3, <4>1, <4>2 DEF Settled, Lone
      <4>4. \A f \in Of(m)' : f.state \in {to, held[p].state}
        BY <3>2, <3>5, <4>3, WriteEffect
      <4>5. QED
        BY <1>2, <3>1, <3>2, <3>3, <3>5, <4>1, <4>4 DEF Swept
    <3>6. CASE RemoveFile(p) /\ step'[p] = "load"
      <4>1. \A f \in Of(m)' : f \in Of(m) /\ f.state # held[p].state
        BY <3>2, <3>6, RemoveEffect
      <4>2. \A f \in Of(m)' : f.state = to
        BY <3>1, <3>2, <3>6, <4>1 DEF Swept, RemoveFile
      <4>3. QED
        BY <1>2, <3>1, <3>2, <3>3, <3>6, <4>2 DEF Swept
    <3>7. CASE \/ LoadRegistry(p) /\ step[p] = "load" /\ step'[p] = "save"
               \/ SaveRegistry(p) /\ step'[p] = "receipt"
      <4>1. Of(m)' = Of(m) /\ step[p] \in {"load", "save"} /\ step'[p] \in {"save", "receipt"}
        BY <3>7 DEF LoadRegistry, SaveRegistry, Of, disk
      <4>2. QED
        BY <1>2, <3>1, <3>2, <3>3, <4>1 DEF Swept
    <3>8. QED
      BY <2>2, <3>1, <3>4, <3>5, <3>6, <3>7, MoveSteps
  <2>3. QED
    BY <2>1, <2>2
<1>3. QED
  BY <1>1, <1>2

LEMMA LoneKept ==
    ASSUME Core, Excl, Settled, NEW p \in Process, PStep(p), ~Crash(p), NEW m \in Id, ~Removing(m)'
    PROVE  Lone(m)'
<1>0. TypeOK /\ Len(made) \in Nat /\ m \in Nat
  BY DEF Core, TypeOK, Id
<1>1. CASE Handles(p, m) /\ step[p] = "remove"
  <2>1. Moves(p) /\ Task_(p).id = m /\ ~Idle(p) /\ RemoveFile(p)
    <3>1. Moves(p) /\ Task_(p).id = m /\ ~Idle(p)
      BY <1>0, <1>1, DoingTask DEF Handles
    <3>2. CASE step'[p] = "start"
      <4>1. RemoveFile(p)
        BY <1>1, <3>1 DEF PStep, Progress, Route, Verb, Sweep, Cadence, Begin, CheckKey, DeliverFile,
           Find, Miss, WriteFile, LoadRegistry, SaveRegistry, LogReceipt, ListIds, NextId, Moves, Doing
      <4>2. QED
        BY <3>1, <4>1
    <3>3. CASE step'[p] # "start"
      <4>1. RemoveFile(p)
        BY <1>1, <3>1, <3>3, MoveSteps DEF Find, WriteFile, SaveRegistry
      <4>2. QED
        BY <3>1, <4>1
    <3>4. QED
      BY <3>2, <3>3
  <2>2. \A f \in Of(m)' : f \in Of(m) /\ f.state # held[p].state
    BY <2>1, RemoveEffect
  <2>3. \A f \in Of(m) : f.state \in {Task_(p).to, held[p].state}
    BY <1>1, <2>1 DEF Settled, Swept
  <2>4. QED
    BY <2>2, <2>3 DEF Lone
<1>2. CASE ~(Handles(p, m) /\ step[p] = "remove")
  <2>1. ~Removing(m)
    <3>1. ASSUME NEW q \in Process \ {p}, Handles(q, m), step[q] = "remove" PROVE FALSE
      <4>1. step'[q] = "remove" /\ Handles(q, m)'
        BY <3>1, StepFrame, HandlesKept DEF Aside
      <4>2. QED
        BY <4>1 DEF Removing
    <3>2. QED
      BY <1>2, <3>1 DEF Removing
  <2>2. Lone(m)
    BY <2>1 DEF Settled
  <2>3. CASE Handles(p, m)
    <3>1. Moves(p) /\ Task_(p).id = m /\ step[p] # "start" /\ step[p] # "remove"
      BY <1>2, <2>3 DEF Handles
    <3>2. ~WriteFile(p)
      <4>1. SUFFICES ASSUME WriteFile(p) PROVE FALSE
        OBVIOUS
      <4>2. step'[p] = "remove" /\ Handles(p, m)'
        <5>1. step' = [step EXCEPT ![p] = "remove"] /\ todo' = todo
          BY <4>1 DEF WriteFile, Goto
        <5>2. step'[p] = "remove"
          BY <1>0, <5>1 DEF TypeOK
        <5>3. QED
          BY <3>1, <5>1, <5>2 DEF Handles, Moves, Doing, Idle, Task_
      <4>3. QED
        BY <4>2 DEF Removing
    <3>3. files' = files
      BY <3>1, <3>2 DEF PStep, Progress, Route, Verb, Sweep, Cadence, Begin, CheckKey, DeliverFile,
         Find, Miss, RemoveFile, LoadRegistry, SaveRegistry, LogReceipt, ListIds, NextId, disk,
         Moves, Doing
    <3>4. QED
      BY <2>2, <3>3 DEF Lone, Of
  <2>4. CASE ~Handles(p, m) /\ m <= Len(made)
    <3>1. Of(m)' = Of(m)
      BY <2>4, FilesKept
    <3>2. QED
      BY <2>2, <3>1 DEF Lone
  <2>5. CASE m > Len(made)
    <3>1. \A f \in files : f.id # m
      BY <1>0, <2>5 DEF Core, Built
    <3>2. CASE DeliverFile(p)
      <4>1. PICK f : files' = files \cup {f}
        BY <3>2 DEF DeliverFile
      <4>2. QED
        BY <3>1, <4>1 DEF Lone, Of
    <3>3. CASE WriteFile(p)
      <4>1. Task_(p).id # m
        BY <1>0, <2>5, <3>3, DoingTask, FirstTask DEF WriteFile, Core, Local, AptWork, Apt
      <4>2. PICK f : f.id = Task_(p).id /\ files' = Without(Task_(p).id, Task_(p).to) \cup {f}
        BY <3>3 DEF WriteFile
      <4>3. QED
        BY <3>1, <4>1, <4>2 DEF Lone, Of, Without
    <3>4. CASE files' \subseteq files
      BY <3>1, <3>4 DEF Lone, Of
    <3>5. QED
      BY <3>2, <3>3, <3>4 DEF PStep, Progress, Route, Verb, Sweep, Cadence, Begin, Without, RemoveFile,
         CheckKey, Find, Miss, LoadRegistry, SaveRegistry, LogReceipt, ListIds, NextId, disk
  <2>6. QED
    BY <1>0, <2>3, <2>4, <2>5
<1>3. QED
  BY <1>1, <1>2

LEMMA NextKeepsCalm ==
    ASSUME Exclusive
    PROVE  Core /\ Excl /\ Calm /\ [Next]_vars => Calm'
<1> SUFFICES ASSUME Core, Excl, Calm, [Next]_vars, crashes' = 0
             PROVE  Settled'
  BY DEF Calm
<1>0. TypeOK
  BY DEF Core
<1>1. CASE UNCHANGED vars
  <2>1. UNCHANGED <<tic, made, files, index, receipts, todo, step, held, copy, crashes>>
    BY <1>1 DEF vars
  <2>2. Settled
    BY <2>1 DEF Calm
  <2>3. \A m : Of(m)' = Of(m)
    BY <2>1 DEF Of
  <2>4. \A p \in Process : Moves(p)' <=> Moves(p)
    BY <2>1 DEF Moves, Doing, Idle
  <2>5. \A m : (Removing(m)' <=> Removing(m)) /\ (Lone(m)' <=> Lone(m))
    BY <2>1, <2>3, <2>4 DEF Removing, Handles, Lone, Task_
  <2>6. \A p \in Process : Swept(p)'
    BY <2>1, <2>2, <2>3, <2>4 DEF Settled, Swept, Task_, Of
  <2>7. QED
    BY <2>2, <2>5, <2>6 DEF Settled
<1>2. ASSUME NEW p \in Process, PStep(p)
      PROVE  Settled'
  <2>1. ~Crash(p) /\ crashes = 0
    <3>1. crashes \in Nat
      BY <1>0, InboxAssumption DEF TypeOK
    <3>2. QED
      BY <1>2, <3>1, StepFrame DEF Crash
  <2>2. Settled
    BY <2>1 DEF Calm
  <2>3. QED
    BY <1>2, <2>1, <2>2, SweptKept, LoneKept DEF Settled
<1>3. QED
  BY <1>1, <1>2 DEF Next, PStep

LEMMA InitCalm == Init => Calm
<1> SUFFICES ASSUME Init PROVE Calm
  OBVIOUS
<1>1. \A p \in Process : ~Moves(p)
  BY DEF Init, Moves, Doing, Idle
<1>2. (\A m : Lone(m)) /\ \A p \in Process : Swept(p)
  BY <1>1 DEF Init, Lone, Of, Swept
<1>3. QED
  BY <1>1, <1>2 DEF Calm, Settled

LEMMA CalmAlways ==
    ASSUME Exclusive
    PROVE  Spec => [](Core /\ Excl /\ Calm)
<1>1. Core /\ Excl /\ Calm /\ [Next]_vars => Calm'
  BY NextKeepsCalm
<1>2. QED
  BY <1>1, InitCalm, CoreAlways, ExclAlways, PTL DEF Spec

-----------------------------------------------------------------------------
(* The index and what is live, as long as nothing raced *)

\* Who routes a key has nobody beside it.
Once == \A p, q \in Process : \A k \in Key : Routes(p, k) /\ Routes(q, k) => p = q

\* Of the key a process is about to deliver nothing else is live, but the
\* envelope it is superseding.
Cleared(p) ==
    \A i \in DOMAIN todo[p] : todo[p][i].do = "deliver" =>
        \A n \in Live : made[n] = todo[p][i].key =>
            \/ i = 1 /\ step[p] # "start" /\ n = held[p].id
            \/ i = 2 /\ Doing(p, "supersede") /\ n = Task_(p).id

Tracked == \A m \in Live : Entered(m) \/ BeingEntered(m)
Single == \A m, n \in Live : made[m] = made[n] => m = n
Neat == Once /\ (\A p \in Process : Cleared(p)) /\ Tracked /\ Single

LEMMA LiveKnown ==
    ASSUME Core
    PROVE  \A m \in Live : m \in 1..Len(made) /\ m \in Id /\ made[m] \in Key
BY DEF Core, TypeOK, Live, Built, File, Id

\* What is live was live, unless it is delivered just now.
LEMMA LiveBefore ==
    ASSUME Core, Excl, NEW p \in Process, PStep(p), NEW n \in Live'
    PROVE  \/ n \in Live /\ made'[n] = made[n]
           \/ DeliverFile(p) /\ n = Len(made) + 1
<1>0. Core' /\ made \in Seq(Key) /\ Len(made) \in Nat /\ Grown
  BY NextKeepsCore, StepFrame DEF PStep, Next, Core, TypeOK
<1>1. n \in 1..Len(made')
  BY <1>0 DEF Core, TypeOK, Live, Built, File, Id
<1>2. CASE n <= Len(made)
  BY <1>0, <1>1, <1>2, StaysClosed DEF Grown
<1>3. CASE n > Len(made)
  <2>1. DeliverFile(p)
    BY <1>0, <1>1, <1>3, StepFrame
  <2>2. Len(made') = Len(made) + 1
    BY <1>0, <2>1 DEF DeliverFile
  <2>3. QED
    BY <1>0, <1>1, <1>3, <2>1, <2>2
<1>4. QED
  BY <1>0, <1>1, <1>2, <1>3

\* Where the deliveries a process has before it come from.
LEMMA DeliveriesFrom ==
    ASSUME Core, NEW p \in Process, PStep(p),
           NEW i \in DOMAIN todo'[p], todo'[p][i].do = "deliver"
    PROVE  \/ todo' = todo
           \/ /\ CheckKey(p) /\ i \in {1, 2} /\ todo'[p][i] = Deliver(Task_(p).key)
              /\ i = 1 =>
                    LET e == index[Task_(p).key] IN e.id = 0 \/ e.state \in Terminal
              /\ i = 2 => /\ todo'[p][1] = Supersede(index[Task_(p).key].id)
                          /\ index[Task_(p).key].state \notin Terminal
           \/ /\ Miss(p) \/ (SaveRegistry(p) /\ Done(p)) \/ LogReceipt(p) \/ Doing(p, "each")
                 \/ Doing(p, "close") \/ Doing(p, "resurface")
              /\ \E j \in DOMAIN todo[p] : j >= 2 /\ todo'[p][i] = todo[p][j]
<1>0. TypeOK /\ todo \in [Process -> Seq(Task)]
  BY DEF Core, TypeOK
<1>1. ASSUME NEW tasks \in Seq(Task), Replace(p, tasks), ~Idle(p),
             \A l \in DOMAIN tasks : tasks[l].do # "deliver"
      PROVE  \E j \in DOMAIN todo[p] : j >= 2 /\ todo'[p][i] = todo[p][j]
  BY <1>1, Shifted
<1>2. ASSUME ~Idle(p), Done(p)
      PROVE  \E j \in DOMAIN todo[p] : j >= 2 /\ todo'[p][i] = todo[p][j]
  <2>1. <<>> \in Seq(Task) /\ DOMAIN <<>> = {}
    BY Lists
  <2>2. QED
    BY <1>1, <1>2, <2>1 DEF Done
<1>3. CASE Miss(p) \/ (SaveRegistry(p) /\ Done(p)) \/ LogReceipt(p)
  <2>1. ~Idle(p) /\ Done(p)
    BY <1>0, <1>3, DoingTask DEF Miss, SaveRegistry, LogReceipt, Core, Local, Stage
  <2>2. QED
    BY <1>2, <1>3, <2>1
<1>4. CASE ListIds(p)
  <2>0. ~Idle(p) /\ (Doing(p, "close") \/ Doing(p, "resurface"))
    BY <1>0, <1>4, DoingTask DEF ListIds
  <2>1. PICK to \in {"NACK", "WAIT"}, ids \in {StaleObligations, DueIds} : Replace(p, <<Each(to, ids)>>)
    BY <1>4 DEF ListIds
  <2>2. ids \subseteq Id
    BY <1>0 DEF StaleObligations, Listed, Waiting, DueIds, TypeOK, File
  <2>3. PICK a \in Task : a = Each(to, ids)
    BY <2>2, TaskForms DEF State
  <2>4. a.do # "deliver"
    BY <2>3 DEF Each
  <2>5. <<a>> \in Seq(Task) /\ DOMAIN <<a>> = {1} /\ <<a>>[1] = a
    BY Lists
  <2>6. QED
    BY <1>1, <2>0, <2>1, <2>3, <2>4, <2>5
<1>5. CASE NextId(p)
  <2>0. ~Idle(p) /\ Doing(p, "each") /\ Task_(p) \in Task /\ Task_(p).do = "each"
    BY <1>0, <1>5, DoingTask DEF NextId
  <2>1. Task_(p).ids \subseteq Id /\ Task_(p).to \in State
    BY <2>0, TaskForms
  <2>2. CASE Done(p)
    BY <1>2, <2>0, <2>2
  <2>3. ASSUME NEW m \in Task_(p).ids,
               Replace(p, <<Transition(m, Task_(p).to, 0), Each(Task_(p).to, Task_(p).ids \ {m})>>)
        PROVE  \E j \in DOMAIN todo[p] : j >= 2 /\ todo'[p][i] = todo[p][j]
    <3>1. PICK a \in Task, b \in Task :
             a = Transition(m, Task_(p).to, 0) /\ b = Each(Task_(p).to, Task_(p).ids \ {m})
      BY <2>1, TaskForms, InboxAssumption
    <3>2. a.do # "deliver" /\ b.do # "deliver"
      BY <3>1 DEF Transition, Each
    <3>3. <<a, b>> \in Seq(Task) /\ DOMAIN <<a, b>> = {1, 2} /\ <<a, b>>[1] = a /\ <<a, b>>[2] = b
      BY Lists
    <3>4. QED
      BY <1>1, <2>0, <2>3, <3>1, <3>2, <3>3
  <2>4. QED
    BY <1>5, <2>0, <2>2, <2>3 DEF NextId
<1>6. CASE CheckKey(p)
  <2>0. ~Idle(p) /\ Task_(p).do = "check" /\ Task_(p).key \in Key /\ Delivering(Task_(p))
    BY <1>0, <1>6, DoingTask, TaskForms DEF CheckKey, Delivering
  <2>1. PICK k \in Key : k = Task_(p).key
    BY <2>0
  <2>2. PICK a \in Task : a = Deliver(k)
    BY TaskForms
  <2>3. todo[p] \in Seq(Task) /\ todo[p] # <<>> /\ Task_(p) = todo[p][1] /\ Len(todo[p]) = 1
    BY <1>0, <2>0, FirstTask DEF Core, Local, AptWork
  <2>4. ASSUME NEW tasks \in Seq(Task), Replace(p, tasks)
        PROVE  /\ i \in DOMAIN tasks /\ todo'[p][i] = tasks[i]
               /\ \A l \in DOMAIN tasks : todo'[p][l] = tasks[l]
    <3>1. ~(\E j \in DOMAIN todo[p] : j >= 2)
      BY <2>3
    <3>2. QED
      BY <2>0, <2>4, <3>1, Shifted
  <2>5. CASE index[k].id = 0 \/ index[k].state \in Terminal
    <3>1. <<a>> \in Seq(Task) /\ DOMAIN <<a>> = {1} /\ <<a>>[1] = a
      BY Lists
    <3>2. i = 1 /\ todo'[p][i] = a
      BY <1>6, <2>1, <2>2, <2>4, <2>5, <3>1 DEF CheckKey
    <3>3. QED
      BY <1>6, <2>1, <2>2, <2>5, <3>1, <3>2
  <2>6. CASE ~(index[k].id = 0 \/ index[k].state \in Terminal) /\ Policy[k] = "latest_wins"
    <3>1. index[k].id \in Id
      BY <1>0, <2>6 DEF TypeOK, Index, Id
    <3>2. PICK b \in Task : b = Supersede(index[k].id)
      BY <3>1, TaskForms
    <3>3. /\ <<b, a>> \in Seq(Task) /\ DOMAIN <<b, a>> = {1, 2}
          /\ <<b, a>>[1] = b /\ <<b, a>>[2] = a
      BY Lists
    <3>4. /\ i \in {1, 2} /\ todo'[p][i] = <<b, a>>[i] /\ todo'[p][1] = b
      BY <1>6, <2>1, <2>2, <2>4, <2>6, <3>2, <3>3 DEF CheckKey
    <3>5. b.do # "deliver"
      BY <3>2 DEF Supersede
    <3>6. i = 2 /\ todo'[p][i] = a /\ todo'[p][1] = b
      BY <3>3, <3>4, <3>5
    <3>7. QED
      BY <1>6, <2>1, <2>2, <2>6, <3>2, <3>6
  <2>7. CASE ~(index[k].id = 0 \/ index[k].state \in Terminal) /\ Policy[k] # "latest_wins"
    <3>1. <<>> \in Seq(Task) /\ DOMAIN <<>> = {}
      BY Lists
    <3>2. Replace(p, <<>>)
      BY <1>6, <2>1, <2>7 DEF CheckKey
    <3>3. QED
      BY <2>4, <3>1, <3>2
  <2>8. QED
    BY <2>5, <2>6, <2>7
<1>7. CASE Crash(p)
  <2>1. todo'[p] = <<>>
    BY <1>0, <1>7 DEF Crash
  <2>2. QED
    BY <2>1
<1>8. CASE \/ \E k \in Key : Route(p, k)
           \/ \E m \in Id, to \in State, due \in 0..MaxTic : Verb(p, m, to, due)
           \/ Sweep(p) \/ Cadence(p)
  <2>1. ASSUME NEW tasks, Begin(p, tasks) PROVE todo'[p] = tasks
    BY <1>0, <2>1 DEF Begin
  <2>2. todo'[p][i].do # "deliver"
    <3>1. CASE \E k \in Key : Route(p, k)
      BY <2>1, <3>1 DEF Route, Check
    <3>2. CASE \E m \in Id, to \in State, due \in 0..MaxTic : Verb(p, m, to, due)
      BY <2>1, <3>2 DEF Verb, Transition
    <3>3. CASE Sweep(p)
      BY <2>1, <3>3 DEF Sweep, Reconcile, List
    <3>4. CASE Cadence(p)
      <4>1. todo'[p] = <<List("close"), Reconcile, List("resurface"), Check(ObligationKey[tic + 1])>>
        BY <2>1, <3>4 DEF Cadence
      <4>2. i \in {1, 2, 3, 4}
        BY <4>1
      <4>3. QED
        BY <4>1, <4>2 DEF List, Reconcile, Check
    <3>5. QED
      BY <1>8, <3>1, <3>2, <3>3, <3>4
  <2>3. QED
    BY <2>2
<1>9. CASE todo' = todo
  BY <1>9
<1>10. DeliverFile(p) \/ Find(p) \/ WriteFile(p) \/ RemoveFile(p) \/ LoadRegistry(p) => todo' = todo
  BY DEF DeliverFile, Find, WriteFile, RemoveFile, LoadRegistry, Goto
<1>11. SaveRegistry(p) => todo' = todo \/ Done(p)
  BY DEF SaveRegistry, Goto
<1>12. QED
  BY <1>3, <1>4, <1>5, <1>6, <1>7, <1>8, <1>9, <1>10, <1>11 DEF PStep, Progress


LEMMA DeliverForm ==
    \A x \in Task : x.do = "deliver" => x = Deliver(x.key) /\ x.key \in Key
BY DEF Task, Deliver

LEMMA FoundSome ==
    ASSUME TypeOK, NEW m, Of(m) # {}
    PROVE  Found(m) # {}
<1>1. \A f \in Of(m) : f \in files /\ f.id = m /\ f.state \in State
  BY DEF TypeOK, Of, File
<1>2. \A s \in State : Rank(s) \in {1, 2, 3, 4}
  BY Ranks DEF State
<1>3. \A f \in Of(m) : Rank(f.state) \in {1, 2, 3, 4}
  BY <1>1, <1>2
<1>4. PICK f \in Of(m) : \A g \in Of(m) : Rank(f.state) <= Rank(g.state)
  <2>1. CASE \E f \in Of(m) : Rank(f.state) = 1
    BY <1>3, <2>1
  <2>2. CASE ~(\E f \in Of(m) : Rank(f.state) = 1) /\ \E f \in Of(m) : Rank(f.state) = 2
    BY <1>3, <2>2
  <2>3. CASE ~(\E f \in Of(m) : Rank(f.state) \in {1, 2}) /\ \E f \in Of(m) : Rank(f.state) = 3
    BY <1>3, <2>3
  <2>4. CASE ~(\E f \in Of(m) : Rank(f.state) \in {1, 2, 3})
    BY <1>3, <2>4
  <2>5. QED
    BY <2>1, <2>2, <2>3, <2>4
<1>5. f \in Found(m)
  BY <1>4 DEF Found, Of
<1>6. QED
  BY <1>5

\* When a supersession is over, what it superseded is closed.
LEMMA Superseded ==
    ASSUME Core, Excl, Settled, NEW p \in Process, Doing(p, "supersede"),
           Miss(p) \/ (SaveRegistry(p) /\ Done(p)) \/ LogReceipt(p)
    PROVE  Task_(p).id \notin Live
<1>0. /\ TypeOK /\ Moves(p) /\ Task_(p) \in Task /\ Task_(p).do = "supersede" /\ Task_(p).to = "NACK"
      /\ step \in [Process -> Steps]
  BY DoingTask, TaskForms DEF Core, Moves, TypeOK, Steps
<1>1. CASE Miss(p)
  <2>1. \A f : Legal(Task_(p), f)
    BY <1>0 DEF Legal
  <2>2. Found(Task_(p).id) = {}
    BY <1>1, <2>1 DEF Miss
  <2>3. Of(Task_(p).id) = {}
    BY <1>0, <2>2, FoundSome
  <2>4. QED
    BY <2>3 DEF Live, Of
<1>2. CASE SaveRegistry(p) /\ Done(p)
  <2>1. Goto(p, "receipt")
    BY <1>0, <1>2 DEF SaveRegistry, Terminal
  <2>2. step'[p] = "receipt" /\ step'[p] = "start"
    BY <1>0, <1>2, <2>1 DEF Goto, Done, Replace
  <2>3. QED
    BY <2>2
<1>3. CASE LogReceipt(p)
  <2>1. \A f \in Of(Task_(p).id) : f.state = "NACK"
    BY <1>0, <1>3 DEF LogReceipt, Settled, Swept
  <2>2. QED
    BY <2>1 DEF Live, Of, Terminal
<1>4. QED
  BY <1>1, <1>2, <1>3

LEMMA OnceKept ==
    ASSUME Core, Once, NEW p \in Process, PStep(p), ~raced'
    PROVE  Once'
<1>0. Core' /\ TypeOK
  BY NextKeepsCore DEF PStep, Next, Core
<1>1. ASSUME NEW q \in Process \ {p}, NEW k \in Key, Routes(q, k)' PROVE Routes(q, k)
  BY <1>1, StepFrame DEF Aside, Routes
<1>2. ASSUME NEW k \in Key, Routes(p, k)'
      PROVE  Routes(p, k) \/ (CheckKey(p) /\ k = Task_(p).key)
  <2>1. PICK i \in DOMAIN todo'[p] : todo'[p][i] = Deliver(k)
    BY <1>2 DEF Routes
  <2>2. todo'[p][i].do = "deliver"
    BY <2>1 DEF Deliver
  <2>3. CASE todo' = todo
    BY <2>1, <2>3 DEF Routes
  <2>4. CASE CheckKey(p) /\ todo'[p][i] = Deliver(Task_(p).key)
    BY <2>1, <2>4 DEF Deliver
  <2>5. CASE \E j \in DOMAIN todo[p] : j >= 2 /\ todo'[p][i] = todo[p][j]
    BY <2>1, <2>5 DEF Routes
  <2>6. QED
    BY <2>2, <2>3, <2>4, <2>5, DeliveriesFrom
<1>3. ASSUME NEW q \in Process \ {p}, NEW k \in Key, Routes(p, k)', Routes(q, k)' PROVE FALSE
  <2>1. Routes(q, k)
    BY <1>1, <1>3
  <2>2. ~Routes(p, k)
    BY <1>3, <2>1 DEF Once
  <2>3. CheckKey(p) /\ k = Task_(p).key
    BY <1>2, <1>3, <2>2
  <2>4. QED
    BY <2>1, <2>3 DEF CheckKey
<1>4. SUFFICES ASSUME NEW q \in Process, NEW r \in Process, NEW k \in Key,
                      Routes(q, k)', Routes(r, k)'
               PROVE  q = r
  BY DEF Once
<1>5. CASE q # p /\ r # p
  BY <1>1, <1>4, <1>5 DEF Once
<1>6. CASE q = p \/ r = p
  BY <1>3, <1>4, <1>6
<1>7. QED
  BY <1>5, <1>6

LEMMA ClearedKept ==
    ASSUME Core, Excl, Settled, Neat, NEW p \in Process, PStep(p), ~Crash(p), ~raced',
           NEW q \in Process
    PROVE  Cleared(q)'
<1>0. /\ TypeOK /\ Core' /\ made \in Seq(Key) /\ Len(made) \in Nat /\ Cleared(q) /\ Cleared(p)
      /\ step \in [Process -> Steps] /\ held \in [Process -> File]
  BY NextKeepsCore DEF PStep, Next, Core, TypeOK, Neat, Steps
<1>1. SUFFICES ASSUME NEW i \in DOMAIN todo'[q], todo'[q][i].do = "deliver",
                      NEW n \in Live', made'[n] = todo'[q][i].key
               PROVE  \/ i = 1 /\ step'[q] # "start" /\ n = held'[q].id
                      \/ i = 2 /\ Doing(q, "supersede")' /\ n = Task_(q)'.id
  BY DEF Cleared
<1>2. \/ n \in Live /\ made'[n] = made[n]
      \/ DeliverFile(p) /\ n = Len(made) + 1
  BY LiveBefore
<1>3. CASE q # p
  <2>1. todo'[q] = todo[q] /\ step'[q] = step[q] /\ held'[q] = held[q]
    BY <1>3, StepFrame DEF Aside
  <2>2. CASE n \in Live /\ made'[n] = made[n]
    BY <1>0, <1>1, <2>1, <2>2 DEF Cleared, Doing, Idle, Task_
  <2>3. CASE DeliverFile(p) /\ n = Len(made) + 1
    <3>1. /\ ~Idle(p) /\ Task_(p).do = "deliver" /\ Task_(p) \in Task /\ Task_(p) = todo[p][1]
          /\ 1 \in DOMAIN todo[p]
      BY <1>0, <2>3, DoingTask, FirstTask DEF DeliverFile
    <3>2. made'[n] = Task_(p).key /\ Task_(p).key \in Key
      BY <1>0, <2>3, <3>1, DeliverForm DEF DeliverFile
    <3>3. Routes(p, Task_(p).key)
      BY <3>1, DeliverForm DEF Routes
    <3>4. todo[q][i] \in Task /\ todo[q][i].do = "deliver" /\ i \in DOMAIN todo[q]
      BY <1>0, <1>1, <2>1 DEF TypeOK
    <3>5. Routes(q, Task_(p).key)
      BY <1>1, <2>1, <3>2, <3>4, DeliverForm DEF Routes
    <3>6. QED
      BY <1>3, <3>2, <3>3, <3>5 DEF Neat, Once
  <2>4. QED
    BY <1>2, <2>2, <2>3
<1>4. CASE q = p /\ todo' = todo
  <2>0. i \in DOMAIN todo[p] /\ todo[p][i].do = "deliver" /\ made'[n] = todo[p][i].key
    BY <1>1, <1>4
  <2>1. CASE DeliverFile(p)
    <3>1. /\ ~Idle(p) /\ Task_(p) = todo[p][1] /\ 1 \in DOMAIN todo[p] /\ Task_(p).do = "deliver"
          /\ step[p] = "start" /\ AptWork(p) /\ todo[p] \in Seq(Task)
      BY <1>0, <2>1, DoingTask, FirstTask DEF DeliverFile, Core, Local
    <3>2. i = Len(todo[p]) /\ 1 = Len(todo[p])
      BY <2>0, <3>1 DEF AptWork, Delivering
    <3>3. ~(n \in Live /\ made'[n] = made[n])
      BY <1>0, <2>0, <3>1, <3>2 DEF Cleared
    <3>4. step'[p] = "load" /\ held'[p].id = Len(made) + 1
      BY <1>0, <2>1 DEF DeliverFile, Goto
    <3>5. QED
      BY <1>2, <1>4, <3>2, <3>3, <3>4
  <2>2. CASE ~DeliverFile(p)
    <3>1. n \in Live /\ made'[n] = made[n]
      BY <1>2, <2>2
    <3>2. \/ i = 1 /\ step[p] # "start" /\ n = held[p].id
          \/ i = 2 /\ Doing(p, "supersede") /\ n = Task_(p).id
      BY <1>0, <2>0, <3>1 DEF Cleared
    <3>3. CASE i = 2 /\ Doing(p, "supersede") /\ n = Task_(p).id
      BY <1>4, <3>3 DEF Doing, Idle, Task_
    <3>4. CASE i = 1 /\ step[p] # "start" /\ n = held[p].id
      <4>1. ~Idle(p) /\ Task_(p).do = "deliver"
        BY <1>0, <2>0, <3>4, FirstTask DEF Core, Local, Stage
      <4>2. Doing(p, "deliver")
        BY <4>1 DEF Doing, Task_
      <4>3. ~SaveRegistry(p)
        <5>1. SUFFICES ASSUME SaveRegistry(p) PROVE FALSE
          OBVIOUS
        <5>2. Done(p)
          BY <4>2, <5>1 DEF SaveRegistry, Moves, Doing
        <5>3. <<>> \in Seq(Task) /\ Len(<<>>) = 0 /\ todo[p] \in Seq(Task) /\ todo[p] # <<>>
          BY <1>0, <4>1, FirstTask
        <5>4. PICK u : u = <<>> \o Tail(todo[p])
          OBVIOUS
        <5>5. Len(u) = 0 + Len(todo[p]) - 1 /\ Len(todo[p]) \in Nat
          BY <5>3, <5>4, Replacing
        <5>6. todo'[p] = u
          BY <1>0, <5>2, <5>4 DEF Done, Replace, TypeOK
        <5>7. QED
          BY <1>4, <5>5, <5>6
      <4>4. step'[p] # "start" /\ held'[p] = held[p]
        BY <1>0, <2>2, <3>4, <4>1, <4>2, <4>3
           DEF PStep, Progress, Route, Verb, Sweep, Cadence, Begin, CheckKey, DeliverFile, Find, Miss,
               WriteFile, RemoveFile, LoadRegistry, LogReceipt, ListIds, NextId, Moves, Doing, Goto,
               Core, Local, Stage
      <4>5. QED
        BY <1>4, <3>4, <4>4
    <3>5. QED
      BY <3>2, <3>3, <3>4
  <2>3. QED
    BY <2>1, <2>2
<1>5. CASE /\ q = p /\ CheckKey(p) /\ i \in {1, 2} /\ todo'[p][i] = Deliver(Task_(p).key)
           /\ i = 1 =>
                 LET e == index[Task_(p).key] IN e.id = 0 \/ e.state \in Terminal
           /\ i = 2 => /\ todo'[p][1] = Supersede(index[Task_(p).key].id)
                       /\ index[Task_(p).key].state \notin Terminal
  <2>0. /\ ~DeliverFile(p) /\ Doing(p, "check") /\ Task_(p).key \in Key
    BY <1>0, <1>5, DoingTask, TaskForms DEF DeliverFile, CheckKey, Doing, Delivering
  <2>1. n \in Live /\ made[n] = Task_(p).key /\ n \in 1..Len(made)
    BY <1>0, <1>1, <1>2, <1>5, <2>0, LiveKnown DEF Deliver
  <2>2. ~BeingEntered(n)
    <3>1. SUFFICES ASSUME NEW r \in Process, Doing(r, "deliver"), step[r] # "start", held[r].id = n
                   PROVE  FALSE
      BY DEF BeingEntered
    <3>2. /\ Task_(r).key = made[n] /\ ~Idle(r) /\ Task_(r).do = "deliver" /\ Task_(r) \in Task
          /\ Task_(r) = todo[r][1] /\ 1 \in DOMAIN todo[r]
      BY <1>0, <3>1, DoingTask, FirstTask DEF Core, Local, Grip
    <3>3. Routes(r, Task_(p).key)
      BY <2>1, <3>2, DeliverForm DEF Routes
    <3>4. r # p
      BY <2>0, <3>1 DEF Doing
    <3>5. QED
      BY <1>5, <3>3, <3>4 DEF CheckKey
  <2>3. index[Task_(p).key].id = n /\ index[Task_(p).key].state \notin Terminal
    BY <2>1, <2>2 DEF Neat, Tracked, Entered
  <2>4. i = 2 /\ todo'[p][1] = Supersede(n)
    BY <1>0, <1>5, <2>1, <2>3
  <2>5. todo'[p] \in Seq(Task) /\ todo'[p] # <<>>
    BY <1>0, <1>1, <1>5 DEF Core, TypeOK
  <2>6. Task_(p)' = Supersede(n) /\ Doing(p, "supersede")'
    BY <2>4, <2>5 DEF Task_, Doing, Idle, Supersede
  <2>7. QED
    BY <1>5, <2>4, <2>6 DEF Supersede
<1>6. CASE /\ q = p
           /\ Miss(p) \/ (SaveRegistry(p) /\ Done(p)) \/ LogReceipt(p) \/ Doing(p, "each")
              \/ Doing(p, "close") \/ Doing(p, "resurface")
           /\ \E j \in DOMAIN todo[p] : j >= 2 /\ todo'[p][i] = todo[p][j]
  <2>1. ~DeliverFile(p)
    BY <1>6 DEF DeliverFile, Doing, Miss, Moves, SaveRegistry, LogReceipt
  <2>2. n \in Live /\ made'[n] = made[n]
    BY <1>2, <2>1
  <2>3. PICK j \in DOMAIN todo[p] : j >= 2 /\ todo'[p][i] = todo[p][j]
    BY <1>6
  <2>4. Doing(p, "supersede") /\ n = Task_(p).id
    BY <1>0, <1>1, <1>6, <2>2, <2>3 DEF Cleared
  <2>5. n \notin Live
    BY <1>6, <2>4, Superseded DEF Doing
  <2>6. QED
    BY <2>2, <2>5
<1>7. QED
  <2>1. CASE q = p
    BY <1>1, <1>4, <1>5, <1>6, <2>1, DeliveriesFrom
  <2>2. QED
    BY <1>3, <2>1

\* A save that overwrites nothing keeps in the index what is live.
LEMMA SaveTracks ==
    ASSUME Core, Settled, Neat, NEW p \in Process, SaveRegistry(p), ~raced', NEW m \in Live,
           Entered(m) \/ (Doing(p, "deliver") /\ held[p].id = m)
    PROVE  Entered(m)'
<1>0. /\ TypeOK /\ Local(p) /\ step[p] = "save" /\ Swept(p) /\ index \in Index /\ made' = made
      /\ index' = Updated(Task_(p), index, held[p].id)
      /\ made[m] \in Key /\ m \in 1..Len(made) /\ Cleared(p)
  BY LiveKnown DEF Core, TypeOK, Settled, SaveRegistry, Neat
<1>1. Moves(p) \/ Doing(p, "deliver") \/ Doing(p, "reconcile")
  BY <1>0 DEF Local, Stage
<1>2. CASE Doing(p, "deliver")
  <2>1. /\ Task_(p).do = "deliver" /\ Task_(p).key \in Key /\ Task_(p) = todo[p][1]
        /\ 1 \in DOMAIN todo[p]
    BY <1>0, <1>2, DoingTask, TaskForms, FirstTask DEF Delivering
  <2>2. index' = [index EXCEPT ![Task_(p).key] = [id |-> held[p].id, state |-> "WAIT"]]
    BY <1>0, <2>1 DEF Updated
  <2>3. CASE made[m] = Task_(p).key
    <3>1. m = held[p].id
      BY <1>0, <2>1, <2>3 DEF Cleared
    <3>2. QED
      BY <1>0, <2>1, <2>2, <2>3, <3>1 DEF Entered, Index, Terminal
  <2>4. CASE made[m] # Task_(p).key
    <3>1. held[p].id # m
      BY <1>0, <1>2, <2>4 DEF Local, Grip
    <3>2. index'[made[m]] = index[made[m]] /\ Entered(m)
      BY <1>0, <2>2, <2>4, <3>1 DEF Index
    <3>3. QED
      BY <1>0, <3>2 DEF Entered
  <2>5. QED
    BY <2>3, <2>4
<1>3. CASE Doing(p, "transition")
  <2>1. /\ Task_(p).do = "transition" /\ Moves(p) /\ held[p].id = Task_(p).id
        /\ \A f \in Of(Task_(p).id) : f.state = Task_(p).to
    BY <1>0, <1>3, DoingTask DEF Moves, Local, Grip, Swept
  <2>2. index' = WithState(index, held[p].id, Task_(p).to) /\ Entered(m)
    BY <1>0, <1>3, <2>1 DEF Updated, Doing
  <2>3. CASE m = held[p].id
    <3>1. Task_(p).to \notin Terminal
      BY <2>1, <2>3 DEF Live, Of
    <3>2. index'[made[m]].id = m /\ index'[made[m]].state = Task_(p).to
      BY <1>0, <2>2, <2>3 DEF WithState, Index, Entered
    <3>3. QED
      BY <1>0, <3>1, <3>2 DEF Entered
  <2>4. CASE m # held[p].id
    <3>1. index'[made[m]] = index[made[m]]
      BY <1>0, <2>2, <2>4 DEF WithState, Entered
    <3>2. QED
      BY <1>0, <2>2, <3>1 DEF Entered
  <2>5. QED
    BY <2>3, <2>4
<1>4. CASE Doing(p, "supersede") \/ Doing(p, "reconcile")
  <2>1. Task_(p).do \in {"supersede", "reconcile"}
    BY <1>0, <1>4, DoingTask
  <2>2. index' = index /\ Entered(m)
    BY <1>0, <1>4, <2>1 DEF Updated, Doing
  <2>3. QED
    BY <1>0, <2>2 DEF Entered
<1>5. QED
  BY <1>1, <1>2, <1>3, <1>4 DEF Moves

LEMMA TrackedKept ==
    ASSUME Core, Excl, Settled, Neat, NEW p \in Process, PStep(p), ~Crash(p), ~raced'
    PROVE  Tracked'
<1>0. /\ TypeOK /\ made \in Seq(Key) /\ Len(made) \in Nat
      /\ step \in [Process -> Steps] /\ held \in [Process -> File]
  BY DEF Core, TypeOK, Steps
<1>1. SUFFICES ASSUME NEW m \in Live' PROVE Entered(m)' \/ BeingEntered(m)'
  BY DEF Tracked
<1>2. CASE DeliverFile(p) /\ m = Len(made) + 1
  <2>1. step'[p] = "load" /\ held'[p].id = m /\ todo' = todo /\ Doing(p, "deliver")
    BY <1>0, <1>2 DEF DeliverFile, Goto
  <2>2. Doing(p, "deliver")'
    BY <2>1 DEF Doing, Idle
  <2>3. QED
    BY <2>1, <2>2 DEF BeingEntered
<1>3. CASE m \in Live /\ made'[m] = made[m]
  <2>1. CASE SaveRegistry(p) /\ (Entered(m) \/ (Doing(p, "deliver") /\ held[p].id = m))
    BY <1>3, <2>1, SaveTracks
  <2>2. CASE ~SaveRegistry(p) /\ Entered(m)
    <3>1. index' = index
      BY <2>2 DEF PStep, Progress, Route, Verb, Sweep, Cadence, Begin, Crash, CheckKey, DeliverFile,
         Find, Miss, WriteFile, RemoveFile, LoadRegistry, LogReceipt, ListIds, NextId, disk
    <3>2. QED
      BY <1>3, <2>2, <3>1 DEF Entered
  <2>3. ASSUME NEW q \in Process \ {p}, Doing(q, "deliver"), step[q] # "start", held[q].id = m
        PROVE  BeingEntered(m)'
    <3>1. todo'[q] = todo[q] /\ step'[q] = step[q] /\ held'[q] = held[q]
      BY StepFrame DEF Aside
    <3>2. Doing(q, "deliver")'
      BY <2>3, <3>1 DEF Doing, Idle
    <3>3. QED
      BY <2>3, <3>1, <3>2 DEF BeingEntered
  <2>4. CASE Doing(p, "deliver") /\ step[p] # "start" /\ held[p].id = m /\ ~SaveRegistry(p)
    <3>1. ~Idle(p) /\ Stage(p)
      BY <2>4 DEF Doing, Core, Local
    <3>2. LoadRegistry(p)
      BY <2>4, <3>1
         DEF PStep, Progress, Route, Verb, Sweep, Cadence, Begin, CheckKey, DeliverFile, Find, Miss,
             WriteFile, RemoveFile, LogReceipt, ListIds, NextId, Moves, Doing, Stage
    <3>3. todo' = todo /\ step'[p] = "save" /\ held' = held
      BY <1>0, <3>2 DEF LoadRegistry, Goto
    <3>4. Doing(p, "deliver")'
      BY <2>4, <3>3 DEF Doing, Idle
    <3>5. QED
      BY <2>4, <3>3, <3>4 DEF BeingEntered
  <2>5. QED
    BY <1>3, <2>1, <2>2, <2>3, <2>4 DEF Neat, Tracked, BeingEntered
<1>4. QED
  BY <1>2, <1>3, LiveBefore

LEMMA SingleKept ==
    ASSUME Core, Excl, Neat, NEW p \in Process, PStep(p)
    PROVE  Single'
<1>0. TypeOK /\ made \in Seq(Key) /\ Len(made) \in Nat /\ Cleared(p)
  BY DEF Core, TypeOK, Neat
<1>1. ASSUME NEW n \in Live, DeliverFile(p), made[n] = made'[Len(made) + 1] PROVE FALSE
  <2>1. /\ Task_(p) = todo[p][1] /\ 1 \in DOMAIN todo[p] /\ Task_(p).do = "deliver"
        /\ step[p] = "start"
    BY <1>0, <1>1, DoingTask, FirstTask DEF DeliverFile
  <2>2. Task_(p).key \in Key
    BY <1>0, <1>1, <2>1, DoingTask, DeliverForm DEF DeliverFile
  <2>3. made[n] = Task_(p).key
    BY <1>0, <1>1, <2>2 DEF DeliverFile
  <2>4. QED
    BY <1>0, <1>1, <2>1, <2>3 DEF Cleared
<1>2. SUFFICES ASSUME NEW m \in Live', NEW n \in Live', made'[m] = made'[n] PROVE m = n
  BY DEF Single
<1>3. /\ (m \in Live /\ made'[m] = made[m]) \/ (DeliverFile(p) /\ m = Len(made) + 1)
      /\ (n \in Live /\ made'[n] = made[n]) \/ (DeliverFile(p) /\ n = Len(made) + 1)
  BY LiveBefore
<1>4. QED
  BY <1>1, <1>2, <1>3 DEF Neat, Single

LEMMA NextKeepsNeat ==
    ASSUME Core, Excl, Calm, crashes = 0 /\ ~raced => Neat, [Next]_vars, crashes' = 0, ~raced'
    PROVE  Neat'
<1>0. TypeOK
  BY DEF Core
<1>1. CASE UNCHANGED vars
  <2>1. UNCHANGED <<tic, made, files, index, receipts, todo, step, held, copy, crashes, raced>>
    BY <1>1 DEF vars
  <2>2. Neat
    BY <2>1
  <2>3. QED
    BY <2>1, <2>2 DEF Neat, Once, Routes, Cleared, Tracked, Single, Entered, BeingEntered, Live, Doing,
       Idle, Task_
<1>2. ASSUME NEW p \in Process, PStep(p) PROVE Neat'
  <2>1. ~Crash(p) /\ crashes = 0
    <3>1. crashes \in Nat
      BY <1>0, InboxAssumption DEF TypeOK
    <3>2. QED
      BY <1>2, <3>1, StepFrame DEF Crash
  <2>2. ~raced
    BY <1>0, <1>2, <2>1 DEF TypeOK, PStep, Progress, Route, Verb, Sweep, Cadence, Begin, CheckKey,
       DeliverFile, Find, Miss, WriteFile, RemoveFile, LoadRegistry, SaveRegistry, LogReceipt, ListIds, NextId
  <2>3. Neat /\ Settled /\ Once
    BY <2>1, <2>2 DEF Calm, Neat
  <2>4. QED
    BY <1>2, <2>1, <2>3, OnceKept, ClearedKept, TrackedKept, SingleKept DEF Neat
<1>3. QED
  BY <1>1, <1>2 DEF Next, PStep

LEMMA InitNeat == Init => Neat
<1> SUFFICES ASSUME Init PROVE Neat
  OBVIOUS
<1>1. Live = {} /\ \A p \in Process : DOMAIN todo[p] = {}
  BY DEF Init, Live
<1>2. QED
  BY <1>1 DEF Neat, Once, Routes, Cleared, Tracked, Single

\* No verb locks the registry. As long as no process is killed, no two hold one
\* envelope, no save writes over an update it has not seen and no two routes of a key
\* overlap, a key has one live envelope at most and the index calls it open: the
\* verbs, the sweeps and the supersessions in between cannot make
\* check_idempotency let a second one through.
THEOREM IndexKnowsLive ==
    ASSUME Exclusive
    PROVE  Spec => []IndexTruthful
<1> DEFINE Kept == Core /\ Excl /\ Calm
           Inv == crashes = 0 /\ ~raced => Neat
<1>1. Kept /\ Inv /\ [Next]_vars => Inv'
  BY NextKeepsNeat DEF Inv
<1>2. Init => Inv
  BY InitNeat
<1>3. Inv => IndexTruthful
  BY DEF Neat, Tracked, Single, IndexTruthful
<1>4. Spec => []Kept
  BY CalmAlways
<1>5. QED
  BY <1>1, <1>2, <1>3, <1>4, PTL DEF Spec

-----------------------------------------------------------------------------
(* The mailbox follows its state machine *)

\* The view of an envelope, by the states of its files.
ViewBy(W, A, C, D) ==
    IF W THEN "WAIT" ELSE IF A THEN "ACTIVE" ELSE IF C THEN "CLOSED" ELSE IF D THEN "DEFER" ELSE "absent"
Least(F) == {f \in F : \A g \in F : Rank(f.state) <= Rank(g.state)}
Shows(F) ==
    CASE F = {} -> "absent"
      [] \E f \in F : f.state \in Terminal -> "CLOSED"
      [] OTHER -> (CHOOSE f \in F : TRUE).state
Some(F, s) == \E f \in F : f.state = s

LEMMA ShowsBy ==
    ASSUME NEW F, \A f \in F : f.state \in {"WAIT", "ACTIVE", "DONE", "NACK", "DEFER"}
    PROVE  Shows(Least(F)) =
              ViewBy(Some(F, "WAIT"), Some(F, "ACTIVE"), Some(F, "DONE") \/ Some(F, "NACK"), Some(F, "DEFER"))
<1>1. PICK L : L = Least(F)
  OBVIOUS
<1>2. L = {f \in F : \A g \in F : Rank(f.state) <= Rank(g.state)}
  BY <1>1 DEF Least
<1>3. CASE Some(F, "WAIT")
  <2>1. L # {} /\ \A f \in L : f.state = "WAIT"
    BY <1>2, <1>3, Ranks DEF Some
  <2>2. QED
    BY <1>1, <1>3, <2>1 DEF Shows, ViewBy, Terminal
<1>4. CASE ~Some(F, "WAIT") /\ Some(F, "ACTIVE")
  <2>1. L # {} /\ \A f \in L : f.state = "ACTIVE"
    BY <1>2, <1>4, Ranks DEF Some
  <2>2. QED
    BY <1>1, <1>4, <2>1 DEF Shows, ViewBy, Terminal
<1>5. CASE ~Some(F, "WAIT") /\ ~Some(F, "ACTIVE") /\ (Some(F, "DONE") \/ Some(F, "NACK"))
  <2>1. L # {} /\ \A f \in L : f.state \in Terminal
    BY <1>2, <1>5, Ranks DEF Some, Terminal
  <2>2. QED
    BY <1>1, <1>5, <2>1 DEF Shows, ViewBy
<1>6. CASE /\ ~Some(F, "WAIT") /\ ~Some(F, "ACTIVE") /\ ~Some(F, "DONE") /\ ~Some(F, "NACK")
           /\ Some(F, "DEFER")
  <2>1. L # {} /\ \A f \in L : f.state = "DEFER"
    BY <1>2, <1>6, Ranks DEF Some
  <2>2. QED
    BY <1>1, <1>6, <2>1 DEF Shows, ViewBy, Terminal
<1>7. CASE /\ ~Some(F, "WAIT") /\ ~Some(F, "ACTIVE") /\ ~Some(F, "DONE") /\ ~Some(F, "NACK")
           /\ ~Some(F, "DEFER")
  <2>1. L = {}
    BY <1>2, <1>7 DEF Some
  <2>2. QED
    BY <1>1, <1>7, <2>1 DEF Shows, ViewBy
<1>8. QED
  BY <1>3, <1>4, <1>5, <1>6, <1>7

LEMMA ViewMoves ==
    ASSUME NEW m \in Id, \A n \in Id \ {m} : Of(n)' = Of(n)
    PROVE  View' = [View EXCEPT ![m] = View'[m]]
<1>1. ASSUME NEW n \in Id \ {m} PROVE View'[n] = View[n]
  <2>1. Found(n)' = Found(n)
    BY OfKept
  <2>2. PICK F : F = Found(n)
    OBVIOUS
  <2>3. View[n] = CASE F = {} -> "absent"
                    [] \E f \in F : f.state \in Terminal -> "CLOSED"
                    [] OTHER -> (CHOOSE f \in F : TRUE).state
    BY <2>2 DEF View
  <2>4. View'[n] = CASE F = {} -> "absent"
                     [] \E f \in F : f.state \in Terminal -> "CLOSED"
                     [] OTHER -> (CHOOSE f \in F : TRUE).state
    BY <2>1, <2>2 DEF View
  <2>5. QED
    BY <2>3, <2>4
<1>2. PICK V, W : V = View /\ W = View'
  OBVIOUS
<1>3. V = [n \in Id |-> V[n]] /\ W = [n \in Id |-> W[n]]
  BY <1>2 DEF View
<1>4. \A n \in Id \ {m} : W[n] = V[n]
  BY <1>1, <1>2
<1>5. W = [V EXCEPT ![m] = W[m]]
  BY <1>3, <1>4
<1>6. QED
  BY <1>2, <1>5

LEMMA BoxStep ==
    ASSUME NEW m \in Id, View' = [View EXCEPT ![m] = View'[m]], crashes' = crashes,
           \/ View'[m] = View[m]
           \/ View[m] = "absent" /\ View'[m] = "WAIT"
           \/ View[m] = "WAIT" /\ View'[m] \in {"ACTIVE", "DEFER", "CLOSED"}
           \/ View[m] = "ACTIVE" /\ View'[m] \in {"DEFER", "CLOSED"}
           \/ View[m] = "DEFER" /\ View'[m] \in {"WAIT", "CLOSED"}
           \/ View[m] = "CLOSED" /\ View'[m] = "absent"
           \/ View[m] = "CLOSED" /\ View'[m] = "DEFER" /\ crashes > 0
    PROVE  [Box!Next]_<<View, crashes > 0>>
<1>1. PICK v, w : v = View[m] /\ w = View'[m]
  OBVIOUS
<1>2. View' = [View EXCEPT ![m] = w] /\ m \in 1..MaxId
  BY <1>1 DEF Id
<1>3. \A from : v \in from => Box!Turn(from, w)
  BY <1>1, <1>2 DEF Box!Turn
<1>4. \A from : v \in from => Box!Move(from, w)
  BY <1>3 DEF Box!Move
<1>5. CASE w = v
  <2>1. View' = View
    BY <1>1, <1>2, <1>5 DEF View
  <2>2. QED
    BY <2>1
<1>6. CASE v = "absent" /\ w = "WAIT"
  BY <1>4, <1>6 DEF Box!Next, Box!Deliver
<1>7. CASE v = "WAIT" /\ w \in {"ACTIVE", "DEFER", "CLOSED"}
  BY <1>4, <1>7 DEF Box!Next, Box!Claim, Box!Defer, Box!Close
<1>8. CASE v = "ACTIVE" /\ w \in {"DEFER", "CLOSED"}
  BY <1>4, <1>8 DEF Box!Next, Box!Defer, Box!Close
<1>9. CASE v = "DEFER" /\ w \in {"WAIT", "CLOSED"}
  BY <1>4, <1>9 DEF Box!Next, Box!Resurface, Box!Close
<1>10. CASE v = "CLOSED" /\ w = "absent"
  BY <1>4, <1>10 DEF Box!Next, Box!Purge
<1>11. CASE v = "CLOSED" /\ w = "DEFER" /\ crashes > 0
  BY <1>4, <1>11 DEF Box!Next, Box!Return
<1>12. QED
  BY <1>1, <1>5, <1>6, <1>7, <1>8, <1>9, <1>10, <1>11

\* What a process that is moving m knows of it.
LEMMA MovingFacts ==
    ASSUME Core, Excl, NEW p \in Process, PStep(p), Moves(p), step[p] \in {"write", "remove"}
    PROVE  /\ Task_(p).id \in Id /\ Task_(p) \in Task /\ Moving(Task_(p)) /\ Task_(p).to \in State
           /\ held[p] \in File /\ Legal(Task_(p), held[p]) /\ Seated(p) /\ ~Idle(p)
           /\ \A n \in Id \ {Task_(p).id} : Of(n)' = Of(n)
<1>0. TypeOK /\ Local(p) /\ Seated(p) /\ Core'
  BY NextKeepsCore DEF Core, Excl, PStep, Next
<1>1. /\ Task_(p).id \in Id /\ Task_(p) \in Task /\ Moving(Task_(p)) /\ Task_(p).to \in State
      /\ held[p] \in File /\ Legal(Task_(p), held[p]) /\ ~Idle(p)
  BY <1>0, DoingTask DEF TypeOK, Local, Grip
<1>2. ~DeliverFile(p)
  BY DEF DeliverFile, Moves, Doing
<1>3. held[p].id = Task_(p).id
  BY <1>0 DEF Local, Grip
<1>4. ASSUME NEW n \in Id \ {Task_(p).id} PROVE Of(n)' = Of(n)
  <2>1. CASE WriteFile(p)
    <3>1. PICK f : f.id = Task_(p).id /\ files' = Without(Task_(p).id, Task_(p).to) \cup {f}
      BY <2>1 DEF WriteFile
    <3>2. QED
      BY <3>1 DEF Of, Without
  <2>2. CASE files' = files \/ files' = Without(held[p].id, held[p].state)
             \/ files' = Without(Task_(p).id, Task_(p).to)
    BY <1>3, <2>2 DEF Of, Without
  <2>3. QED
    BY <1>2, <2>1, <2>2
       DEF PStep, Progress, Route, Verb, Sweep, Cadence, Begin, Crash, RemoveFile,
           CheckKey, Find, Miss, LoadRegistry, SaveRegistry, LogReceipt, ListIds, NextId, disk
<1>5. QED
  BY <1>0, <1>1, <1>4

LEMMA ViewsOf ==
    ASSUME TypeOK, TypeOK', NEW m \in Id
    PROVE  /\ View[m] = ViewBy(Has(m, "WAIT"), Has(m, "ACTIVE"), Has(m, "DONE") \/ Has(m, "NACK"),
                               Has(m, "DEFER"))
           /\ View'[m] = ViewBy(Has(m, "WAIT")', Has(m, "ACTIVE")', Has(m, "DONE")' \/ Has(m, "NACK")',
                                Has(m, "DEFER")')
<1>1. PICK F, G : F = Of(m) /\ G = Of(m)'
  OBVIOUS
<1>2. \A f \in F \cup G : f.state \in {"WAIT", "ACTIVE", "DONE", "NACK", "DEFER"}
  BY <1>1 DEF Of, TypeOK, File, State
<1>3. Found(m) = Least(F) /\ Found(m)' = Least(G)
  BY <1>1 DEF Found, Of, Least
<1>4. View[m] = Shows(Least(F)) /\ View'[m] = Shows(Least(G))
  BY <1>3 DEF View, Shows
<1>5. /\ \A s : Some(F, s) <=> Has(m, s)
      /\ \A s : Some(G, s) <=> Has(m, s)'
  BY <1>1 DEF Some, Has
<1>6. /\ Shows(Least(F)) = ViewBy(Some(F, "WAIT"), Some(F, "ACTIVE"), Some(F, "DONE") \/ Some(F, "NACK"),
                                  Some(F, "DEFER"))
      /\ Shows(Least(G)) = ViewBy(Some(G, "WAIT"), Some(G, "ACTIVE"), Some(G, "DONE") \/ Some(G, "NACK"),
                                  Some(G, "DEFER"))
  BY <1>2, ShowsBy
<1>7. QED
  BY <1>4, <1>5, <1>6 DEF ViewBy

\* From where to where a move goes.
LEMMA MoveKinds ==
    ASSUME NEW x \in Task, Moving(x), NEW f \in File, Legal(x, f)
    PROVE  /\ f.state \in State
           /\ \/ x.to = "NACK" /\ (f.state = "WAIT" \/ x.do = "supersede")
              \/ x.to = "DONE" /\ f.state = "ACTIVE"
              \/ x.to = "WAIT" /\ f.state = "DEFER"
              \/ x.to = "ACTIVE" /\ f.state = "WAIT"
              \/ x.to = "DEFER" /\ f.state \in {"WAIT", "ACTIVE"}
<1>1. CASE x.do = "supersede"
  BY <1>1, LegalMoves
<1>2. CASE x.do = "transition"
  <2>1. x.to \in {"WAIT", "ACTIVE", "DONE", "DEFER", "NACK"} /\ f.state \in State
    BY LegalMoves DEF State
  <2>2. QED
    BY <1>2, <2>1, LegalMoves
<1>3. QED
  BY <1>1, <1>2 DEF Moving

LEMMA BoxWrite ==
    ASSUME Core, Excl, NEW p \in Process, WriteFile(p)
    PROVE  [Box!Next]_<<View, crashes > 0>>
<1>0. PStep(p) /\ Moves(p) /\ step[p] = "write" /\ crashes' = crashes
  BY DEF PStep, Progress, WriteFile
<1>1. TypeOK /\ TypeOK'
  BY <1>0, NextKeepsCore DEF PStep, Next, Core
<1>2. PICK m, to, s : m = Task_(p).id /\ to = Task_(p).to /\ s = held[p].state
  OBVIOUS
<1>3. /\ m \in Id /\ Task_(p) \in Task /\ Moving(Task_(p)) /\ to \in State
      /\ held[p] \in File /\ Legal(Task_(p), held[p]) /\ Seated(p)
      /\ \A n \in Id \ {m} : Of(n)' = Of(n)
  BY <1>0, <1>2, MovingFacts
<1>4. /\ \A f \in Of(m)' : f.state = to \/ (f \in Of(m) /\ f.state # to)
      /\ \A f \in Of(m) : f.state # to => f \in Of(m)'
      /\ Has(m, to)'
  <2>1. Has(m, Task_(p).to)'
    BY <1>2, WriteEffect
  <2>2. Task_(p)' = Task_(p)
    BY DEF WriteFile, Goto, Task_
  <2>3. QED
    BY <1>2, <2>1, <2>2, WriteEffect DEF Has
<1>5. \A x : Has(m, x)' <=> (x = to \/ Has(m, x))
  BY <1>4 DEF Has
<1>6. held[p] \in Of(m) /\ \A f \in Of(m) : Rank(s) <= Rank(f.state)
  BY <1>0, <1>2, <1>3 DEF Seated, Found, Of
<1>7. Has(m, s) /\ \A x : Has(m, x) => Rank(s) <= Rank(x)
  BY <1>2, <1>6 DEF Has
<1>8. /\ s \in State
      /\ \/ to = "NACK" /\ (s = "WAIT" \/ Task_(p).do = "supersede")
         \/ to = "DONE" /\ s = "ACTIVE"
         \/ to = "WAIT" /\ s = "DEFER"
         \/ to = "ACTIVE" /\ s = "WAIT"
         \/ to = "DEFER" /\ s \in {"WAIT", "ACTIVE"}
  BY <1>2, <1>3, MoveKinds
<1>9. \/ View'[m] = View[m]
      \/ View[m] = "DEFER" /\ View'[m] \in {"WAIT", "CLOSED"}
  <2>1. CASE s = "WAIT"
    BY <1>1, <1>3, <1>5, <1>7, <2>1, ViewsOf DEF ViewBy
  <2>2. CASE s = "ACTIVE"
    <3>1. ~Has(m, "WAIT") /\ to # "WAIT"
      BY <1>7, <1>8, <2>2, Ranks
    <3>2. QED
      BY <1>1, <1>3, <1>5, <1>7, <2>2, <3>1, ViewsOf DEF ViewBy
  <2>3. CASE s \in {"DONE", "NACK"}
    <3>1. ~Has(m, "WAIT") /\ ~Has(m, "ACTIVE") /\ to = "NACK"
      BY <1>7, <1>8, <2>3, Ranks
    <3>2. QED
      BY <1>1, <1>3, <1>5, <1>7, <2>3, <3>1, ViewsOf DEF ViewBy
  <2>4. CASE s = "DEFER"
    <3>1. /\ ~Has(m, "WAIT") /\ ~Has(m, "ACTIVE") /\ ~Has(m, "DONE") /\ ~Has(m, "NACK")
          /\ to \in {"WAIT", "NACK"}
      BY <1>7, <1>8, <2>4, Ranks
    <3>2. QED
      BY <1>1, <1>3, <1>5, <1>7, <2>4, <3>1, ViewsOf DEF ViewBy
  <2>5. QED
    BY <1>8, <2>1, <2>2, <2>3, <2>4 DEF State
<1>10. View' = [View EXCEPT ![m] = View'[m]]
  BY <1>3, ViewMoves
<1>11. QED
  BY <1>0, <1>3, <1>9, <1>10, BoxStep

LEMMA BoxRemove ==
    ASSUME Core, Excl, Calm, NEW p \in Process, RemoveFile(p)
    PROVE  [Box!Next]_<<View, crashes > 0>>
<1>0. PStep(p) /\ Moves(p) /\ step[p] = "remove" /\ crashes' = crashes
  BY DEF PStep, Progress, RemoveFile
<1>1. TypeOK /\ TypeOK'
  BY <1>0, NextKeepsCore DEF PStep, Next, Core
<1>2. PICK m, to, s : m = Task_(p).id /\ to = Task_(p).to /\ s = held[p].state
  OBVIOUS
<1>3. /\ m \in Id /\ Task_(p) \in Task /\ Moving(Task_(p)) /\ to \in State
      /\ held[p] \in File /\ Legal(Task_(p), held[p]) /\ Seated(p)
      /\ \A n \in Id \ {m} : Of(n)' = Of(n)
  BY <1>0, <1>2, MovingFacts
<1>4. /\ \A f \in Of(m)' : f \in Of(m) /\ f.state # s
      /\ \A f \in Of(m) : f.state # s => f \in Of(m)'
  BY <1>2, RemoveEffect
<1>5. \A x : Has(m, x)' <=> (Has(m, x) /\ x # s)
  BY <1>4 DEF Has
<1>6. Has(m, to) /\ \A x : Has(m, x) => x = to \/ Rank(s) <= Rank(x)
  BY <1>0, <1>2, <1>3 DEF Seated, Has
<1>7. /\ s \in State
      /\ \/ to = "NACK" /\ (s = "WAIT" \/ Task_(p).do = "supersede")
         \/ to = "DONE" /\ s = "ACTIVE"
         \/ to = "WAIT" /\ s = "DEFER"
         \/ to = "ACTIVE" /\ s = "WAIT"
         \/ to = "DEFER" /\ s \in {"WAIT", "ACTIVE"}
  BY <1>2, <1>3, MoveKinds
<1>8. crashes = 0 => \A x : Has(m, x) => x \in {to, s}
  BY <1>0, <1>2 DEF Calm, Settled, Swept, Has
<1>9. \/ View'[m] = View[m]
      \/ View[m] = "WAIT" /\ View'[m] \in {"ACTIVE", "DEFER", "CLOSED"}
      \/ View[m] = "ACTIVE" /\ View'[m] \in {"DEFER", "CLOSED"}
      \/ View[m] = "CLOSED" /\ View'[m] = "absent"
      \/ View[m] = "CLOSED" /\ View'[m] = "DEFER" /\ crashes > 0
  <2>0. CASE ~Has(m, s)
    BY <1>1, <1>3, <1>5, <2>0, ViewsOf DEF ViewBy
  <2>1. CASE Has(m, s) /\ s = "WAIT"
    <3>1. View[m] = "WAIT" /\ ~Has(m, "WAIT")' /\ Has(m, to)' /\ to \in {"ACTIVE", "DEFER", "NACK"}
      BY <1>1, <1>3, <1>5, <1>6, <1>7, <2>1, ViewsOf DEF ViewBy
    <3>2. View'[m] \in {"ACTIVE", "DEFER", "CLOSED"}
      BY <1>1, <1>3, <3>1, ViewsOf DEF ViewBy
    <3>3. QED
      BY <3>1, <3>2
  <2>2. CASE Has(m, s) /\ s = "ACTIVE"
    <3>1. ~Has(m, "WAIT") /\ to \in {"DONE", "DEFER", "NACK"}
      BY <1>6, <1>7, <2>2, Ranks
    <3>2. View[m] = "ACTIVE" /\ ~Has(m, "WAIT")' /\ ~Has(m, "ACTIVE")' /\ Has(m, to)'
      BY <1>1, <1>3, <1>5, <1>6, <2>2, <3>1, ViewsOf DEF ViewBy
    <3>3. View'[m] \in {"DEFER", "CLOSED"}
      BY <1>1, <1>3, <3>1, <3>2, ViewsOf DEF ViewBy
    <3>4. QED
      BY <3>2, <3>3
  <2>3. CASE Has(m, s) /\ s \in {"DONE", "NACK"}
    <3>1. ~Has(m, "WAIT") /\ ~Has(m, "ACTIVE") /\ to = "NACK"
      BY <1>6, <1>7, <2>3, Ranks
    <3>2. View[m] = "CLOSED" /\ ~Has(m, "WAIT")' /\ ~Has(m, "ACTIVE")'
      BY <1>1, <1>3, <1>5, <2>3, <3>1, ViewsOf DEF ViewBy
    <3>3. View'[m] \in {"CLOSED", "DEFER", "absent"} /\ (View'[m] = "DEFER" => Has(m, "DEFER")')
      BY <1>1, <1>3, <3>2, ViewsOf DEF ViewBy
    <3>4. Has(m, "DEFER")' => crashes > 0
      BY <1>1, <1>5, <1>8, <2>3, <3>1, InboxAssumption DEF TypeOK
    <3>5. QED
      BY <3>2, <3>3, <3>4
  <2>4. CASE Has(m, s) /\ s = "DEFER"
    <3>1. to \in {"WAIT", "NACK"} /\ (to = "NACK" => ~Has(m, "WAIT") /\ ~Has(m, "ACTIVE"))
      BY <1>6, <1>7, <2>4, Ranks
    <3>2. QED
      BY <1>1, <1>3, <1>5, <1>6, <2>4, <3>1, ViewsOf DEF ViewBy
  <2>5. QED
    BY <1>7, <2>0, <2>1, <2>2, <2>3, <2>4 DEF State
<1>10. View' = [View EXCEPT ![m] = View'[m]]
  BY <1>3, ViewMoves
<1>11. QED
  BY <1>0, <1>3, <1>9, <1>10, BoxStep

\* The move that is killed may be the one that deletes a closed envelope.
LEMMA BoxCrash ==
    ASSUME Core, Excl, NEW p \in Process, Crash(p)
    PROVE  [Box!Next]_<<View, crashes > 0>>
<1>0. PStep(p) /\ TypeOK /\ TypeOK' /\ (crashes > 0)' = TRUE
  <2>1. PStep(p)
    BY DEF PStep
  <2>2. TypeOK /\ TypeOK'
    BY <2>1, NextKeepsCore DEF PStep, Next, Core
  <2>3. crashes \in Nat /\ crashes' = crashes + 1
    BY <2>2, InboxAssumption DEF TypeOK, Crash
  <2>4. QED
    BY <2>1, <2>2, <2>3
<1>1. CASE files' = files
  <2>1. View' = View
    BY <1>1 DEF View, Found
  <2>2. QED
    BY <1>0, <2>1 DEF Box!Next, Box!Kill
<1>2. CASE Moves(p) /\ step[p] = "write" /\ files' = Without(Task_(p).id, Task_(p).to)
  <2>1. PICK m, to, s : m = Task_(p).id /\ to = Task_(p).to /\ s = held[p].state
    OBVIOUS
  <2>2. /\ m \in Id /\ Task_(p) \in Task /\ Moving(Task_(p))
        /\ held[p] \in File /\ Legal(Task_(p), held[p]) /\ Seated(p)
        /\ \A n \in Id \ {m} : Of(n)' = Of(n)
    BY <1>0, <1>2, <2>1, MovingFacts
  <2>3. \A x : Has(m, x)' <=> (Has(m, x) /\ x # to)
    BY <1>2, <2>1 DEF Has, Of, Without
  <2>4. held[p] \in Of(m) /\ \A f \in Of(m) : Rank(s) <= Rank(f.state)
    BY <1>2, <2>1, <2>2 DEF Seated, Found, Of
  <2>5. Has(m, s) /\ \A x : Has(m, x) => Rank(s) <= Rank(x)
    BY <2>1, <2>4 DEF Has
  <2>6. /\ s \in State
        /\ \/ to = "NACK" /\ (s = "WAIT" \/ Task_(p).do = "supersede")
           \/ to = "DONE" /\ s = "ACTIVE"
           \/ to = "WAIT" /\ s = "DEFER"
           \/ to = "ACTIVE" /\ s = "WAIT"
           \/ to = "DEFER" /\ s \in {"WAIT", "ACTIVE"}
    BY <2>1, <2>2, MoveKinds
  <2>7. View'[m] = View[m] \/ (View[m] = "CLOSED" /\ View'[m] \in {"absent", "DEFER"})
    <3>1. CASE s = "WAIT"
      BY <1>0, <2>2, <2>3, <2>5, <2>6, <3>1, ViewsOf DEF ViewBy
    <3>2. CASE s = "ACTIVE"
      <4>1. ~Has(m, "WAIT") /\ to # "ACTIVE"
        BY <2>5, <2>6, <3>2, Ranks
      <4>2. QED
        BY <1>0, <2>2, <2>3, <2>5, <3>2, <4>1, ViewsOf DEF ViewBy
    <3>3. CASE s \in {"DONE", "NACK"}
      <4>1. ~Has(m, "WAIT") /\ ~Has(m, "ACTIVE")
        BY <2>5, <3>3, Ranks
      <4>2. View[m] = "CLOSED"
        BY <1>0, <2>2, <2>5, <3>3, <4>1, ViewsOf DEF ViewBy
      <4>3. View'[m] \in {"CLOSED", "DEFER", "absent"}
        BY <1>0, <2>2, <2>3, <4>1, ViewsOf DEF ViewBy
      <4>4. QED
        BY <4>2, <4>3
    <3>4. CASE s = "DEFER"
      <4>1. /\ ~Has(m, "WAIT") /\ ~Has(m, "ACTIVE") /\ ~Has(m, "DONE") /\ ~Has(m, "NACK") /\ to # "DEFER"
        BY <2>5, <2>6, <3>4, Ranks
      <4>2. QED
        BY <1>0, <2>2, <2>3, <2>5, <3>4, <4>1, ViewsOf DEF ViewBy
    <3>5. QED
      BY <2>6, <3>1, <3>2, <3>3, <3>4 DEF State
  <2>8. PICK w : w = View'[m]
    OBVIOUS
  <2>9. View' = [View EXCEPT ![m] = w]
    BY <2>2, <2>8, ViewMoves
  <2>10. UNCHANGED View \/ (w \in {"absent", "DEFER"} /\ View[m] = "CLOSED")
    <3>1. CASE w = View[m]
      BY <2>2, <2>9, <3>1 DEF View
    <3>2. QED
      BY <2>7, <2>8, <3>1
  <2>11. CASE UNCHANGED View
    BY <1>0, <2>11 DEF Box!Next, Box!Kill
  <2>12. CASE w \in {"absent", "DEFER"} /\ View[m] = "CLOSED"
    <3>1. Box!Turn({"CLOSED"}, w)
      BY <2>2, <2>9, <2>12 DEF Box!Turn, Id
    <3>2. QED
      BY <1>0, <2>12, <3>1 DEF Box!Next, Box!Kill
  <2>13. QED
    BY <2>10, <2>11, <2>12
<1>3. QED
  BY <1>1, <1>2 DEF Crash

LEMMA BoxDeliver ==
    ASSUME Core, NEW p \in Process, DeliverFile(p)
    PROVE  [Box!Next]_<<View, crashes > 0>>
<1>0. TypeOK /\ TypeOK' /\ Built /\ Len(made) \in Nat /\ crashes' = crashes
  <2>1. Next
    BY DEF Next, Progress
  <2>2. Core'
    BY <2>1, NextKeepsCore
  <2>3. QED
    BY <2>2 DEF Core, TypeOK, DeliverFile
<1>1. PICK m : m = Len(made) + 1
  OBVIOUS
<1>2. PICK f : f.id = m /\ f.state = "WAIT" /\ files' = files \cup {f} /\ made' = Append(made, Task_(p).key)
  BY <1>1 DEF DeliverFile
<1>3. m \in Id
  BY <1>0, <1>1, <1>2, InboxAssumption DEF TypeOK, Id
<1>4. Of(m) = {} /\ Of(m)' = {f} /\ \A n \in Id \ {m} : Of(n)' = Of(n)
  BY <1>0, <1>1, <1>2 DEF Built, Of
<1>5. View[m] = "absent" /\ View'[m] = "WAIT"
  <2>1. (\A s : ~Has(m, s)) /\ Has(m, "WAIT")'
    BY <1>2, <1>4 DEF Has
  <2>2. QED
    BY <1>0, <1>3, <2>1, ViewsOf DEF ViewBy
<1>6. View' = [View EXCEPT ![m] = View'[m]]
  BY <1>3, <1>4, ViewMoves
<1>7. QED
  BY <1>0, <1>3, <1>5, <1>6, BoxStep

LEMMA NextIsBox ==
    ASSUME Exclusive
    PROVE  Core /\ Excl /\ Calm /\ [Next]_vars => [Box!Next]_<<View, crashes > 0>>
<1> SUFFICES ASSUME Core, Excl, Calm, [Next]_vars PROVE [Box!Next]_<<View, crashes > 0>>
  OBVIOUS
<1>1. CASE files' = files /\ crashes' = crashes
  <2>1. View' = View
    BY <1>1 DEF View, Found
  <2>2. QED
    BY <1>1, <2>1
<1>2. CASE UNCHANGED vars
  BY <1>1, <1>2 DEF vars
<1>3. ASSUME NEW p \in Process, PStep(p) PROVE [Box!Next]_<<View, crashes > 0>>
  <2>1. CASE Crash(p)
    BY <2>1, BoxCrash
  <2>2. CASE DeliverFile(p)
    BY <2>2, BoxDeliver
  <2>3. CASE WriteFile(p)
    BY <2>3, BoxWrite
  <2>4. CASE RemoveFile(p)
    BY <2>4, BoxRemove
  <2>5. QED
    BY <1>1, <1>3, <2>1, <2>2, <2>3, <2>4
       DEF PStep, Progress, Route, Verb, Sweep, Cadence, Begin, CheckKey, Find, Miss, LoadRegistry,
           SaveRegistry, LogReceipt, ListIds, NextId, disk
<1>4. QED
  BY <1>2, <1>3 DEF Next, PStep

LEMMA InitIsBox == Init => Box!Init
<1> SUFFICES ASSUME Init PROVE Box!Init
  OBVIOUS
<1>1. \A m : Found(m) = {}
  BY DEF Init, Found
<1>2. View = [m \in 1..MaxId |-> "absent"]
  BY <1>1 DEF View, Id
<1>3. QED
  BY <1>2 DEF Init, Box!Init

\* What the verbs, the sweeps and the cadences do to the files of one entity is
\* what the mailbox promises: through kills and half-finished moves, every
\* envelope's status moves along the state machine.
THEOREM MailboxFollows ==
    ASSUME Exclusive
    PROVE  Spec => MailboxSpec
<1>1. Core /\ Excl /\ Calm /\ [Next]_vars => [Box!Next]_<<View, crashes > 0>>
  BY NextIsBox
<1>2. QED
  BY <1>1, InitIsBox, CalmAlways, PTL DEF Spec, MailboxSpec, Box!Spec

-----------------------------------------------------------------------------
(* One obligation of /cadence *)

\* What an agent may have to do: nothing to an obligation.
AgentTask(x) ==
    /\ Moving(x) => ~Obligation(x.id)
    /\ x.do = "each" => \A m \in x.ids : ~Obligation(m)
    /\ Delivering(x) => \A t \in 1..MaxTic : x.key # ObligationKey[t]
    /\ x.do # "close"

\* What /cadence may have to do: to obligations, nothing but to close them.
CadencerTask(x) ==
    /\ x.do # "supersede"
    /\ x.do = "transition" /\ Obligation(x.id) => x.to = "NACK"
    /\ x.do = "each" /\ x.to # "NACK" => \A m \in x.ids : ~Obligation(m)
    /\ Delivering(x) => tic > 0 /\ x.key = ObligationKey[tic]
Minds(p) ==
    \A i \in DOMAIN todo[p] : IF p \in Agent THEN AgentTask(todo[p][i]) ELSE CadencerTask(todo[p][i])

\* Obligations wait or are closed.
Waits == \A f \in files : Obligation(f.id) => f.state \in {"WAIT", "NACK"}

\* Those there are belong to tics there have been; while /cadence has still to
\* deliver this tic's, there is none of it.
Fresh ==
    \A m \in 1..Len(made), t \in 1..MaxTic :
        made[m] = ObligationKey[t] => t <= tic /\ (t = tic => \A c \in Cadencer : ~Pending(c))

\* Whatever is open when /cadence has still to deliver, it will close first.
Open == {m \in Live : Obligation(m)}
Closes(x, m) ==
    \/ x.do = "close"
    \/ x.do = "each" /\ x.to = "NACK" /\ m \in x.ids
    \/ x.do = "transition" /\ x.to = "NACK" /\ x.id = m
Covers(c, m) ==
    \E i \in DOMAIN todo[c] :
        Closes(todo[c][i], m) /\ (i = 1 => step[c] \in {"start", "write", "remove"})
Covered == \A c \in Cadencer : Pending(c) => \A m \in Open : Covers(c, m)

OneOpen == \A m, n \in Open : m = n

Obl == (\A p \in Process : Minds(p)) /\ Waits /\ Fresh /\ Covered /\ OneOpen

LEMMA OpenIs ==
    /\ \A m : m \in Open <=> Obligation(m) /\ \E f \in Of(m) : f.state \notin Terminal
    /\ \A m : m \in Open' <=> Obligation(m)' /\ \E f \in Of(m)' : f.state \notin Terminal
BY DEF Open, Live, Of

LEMMA ObligationKept ==
    ASSUME Core, Grown
    PROVE  \A m \in 1..Len(made) : Obligation(m)' <=> Obligation(m)
BY DEF Obligation, Grown

\* As long as the tasks are the same.
LEMMA MindsKept ==
    ASSUME Core, Grown, NEW q \in Process, todo'[q] = todo[q], Minds(q), q \in Agent \/ tic' = tic
    PROVE  Minds(q)'
<1>1. made \in Seq(Key) /\ Len(made) \in Nat
  BY DEF Core, TypeOK
<1>2. SUFFICES ASSUME NEW i \in DOMAIN todo[q]
               PROVE  IF q \in Agent THEN AgentTask(todo[q][i])' ELSE CadencerTask(todo[q][i])'
  BY <1>1 DEF Minds
<1>3. PICK x : x = todo[q][i]
  OBVIOUS
<1>4. x \in Task /\ Apt(x) /\ IF q \in Agent THEN AgentTask(x) ELSE CadencerTask(x)
  BY <1>3 DEF Minds, Core, Local, AptWork, TypeOK
<1>5. /\ Moving(x) => x.id \in 1..Len(made)
      /\ x.do = "each" => x.ids \subseteq 1..Len(made)
  BY <1>1, <1>4, TaskForms DEF Apt, Id
<1>6. \A m \in 1..Len(made) : Obligation(m)' <=> Obligation(m)
  BY <1>1, ObligationKept
<1>7. CASE q \in Agent
  <2>1. AgentTask(x)'
    BY <1>4, <1>5, <1>6, <1>7 DEF AgentTask, Moving, Delivering
  <2>2. QED
    BY <1>1, <1>3, <1>7, <2>1
<1>8. CASE q \notin Agent
  <2>1. CadencerTask(x)'
    BY <1>4, <1>5, <1>6, <1>8 DEF CadencerTask, Moving, Delivering
  <2>2. QED
    BY <1>1, <1>3, <1>8, <2>1
<1>9. QED
  BY <1>7, <1>8

LEMMA MindsNext ==
    ASSUME Core, NEW p \in Process, ~Idle(p), NEW tasks \in Seq(Task), Replace(p, tasks),
           Minds(p), tic' = tic, made' = made,
           \A i \in DOMAIN tasks : IF p \in Agent THEN AgentTask(tasks[i]) ELSE CadencerTask(tasks[i])
    PROVE  Minds(p)'
<1>1. SUFFICES ASSUME NEW i \in DOMAIN todo'[p]
               PROVE  IF p \in Agent THEN AgentTask(todo'[p][i]) ELSE CadencerTask(todo'[p][i])
  BY DEF Minds, AgentTask, CadencerTask, Obligation, Moving, Delivering
<1>2. CASE i \in DOMAIN tasks /\ todo'[p][i] = tasks[i]
  BY <1>2
<1>3. CASE \E j \in DOMAIN todo[p] : j >= 2 /\ todo'[p][i] = todo[p][j]
  BY <1>3 DEF Minds
<1>4. QED
  BY <1>2, <1>3, Shifted

LEMMA CoversNext ==
    ASSUME Core, NEW p \in Process, ~Idle(p), NEW tasks \in Seq(Task), Replace(p, tasks),
           NEW m, Covers(p, m),
           (Closes(Task_(p), m) /\ step[p] \in {"start", "write", "remove"}) =>
              \E i \in DOMAIN tasks : Closes(tasks[i], m)
    PROVE  Covers(p, m)'
<1>0. TypeOK /\ todo[p] \in Seq(Task) /\ Task_(p) = todo[p][1]
  BY FirstTask DEF Core
<1>1. PICK i \in DOMAIN todo[p] : Closes(todo[p][i], m) /\ (i = 1 => step[p] \in {"start", "write", "remove"})
  BY DEF Covers
<1>2. \E j \in DOMAIN todo'[p] : Closes(todo'[p][j], m)
  <2>1. CASE i = 1
    BY <1>0, <1>1, <2>1, Shifted
  <2>2. CASE i # 1
    <3>1. i \in Nat /\ i >= 2
      BY <1>0, <2>2
    <3>2. QED
      BY <1>1, <3>1, Shifted
  <2>3. QED
    BY <2>1, <2>2
<1>3. step'[p] = "start"
  BY Shifted
<1>4. QED
  BY <1>2, <1>3 DEF Covers, Closes

LEMMA FilesGain ==
    ASSUME NEW p \in Process, PStep(p), NEW f \in files'
    PROVE  \/ f \in files
           \/ WriteFile(p) /\ f.id = Task_(p).id /\ f.state = Task_(p).to
           \/ DeliverFile(p) /\ f.id = Len(made) + 1 /\ f.state = "WAIT"
<1>1. CASE WriteFile(p)
  <2>1. PICK g : /\ g.id = Task_(p).id /\ g.state = Task_(p).to
                 /\ files' = Without(Task_(p).id, Task_(p).to) \cup {g}
    BY <1>1 DEF WriteFile
  <2>2. QED
    BY <1>1, <2>1 DEF Without
<1>2. CASE DeliverFile(p)
  <2>1. PICK g : g.id = Len(made) + 1 /\ g.state = "WAIT" /\ files' = files \cup {g}
    BY <1>2 DEF DeliverFile
  <2>2. QED
    BY <1>2, <2>1
<1>3. CASE files' \subseteq files
  BY <1>3
<1>4. QED
  BY <1>1, <1>2, <1>3
     DEF PStep, Progress, Route, Verb, Sweep, Cadence, Begin, Crash, RemoveFile, Without,
         CheckKey, Find, Miss, LoadRegistry, SaveRegistry, LogReceipt, ListIds, NextId, disk

\* No step opens an obligation but the delivery of one by /cadence.
LEMMA OpenKept ==
    ASSUME Core, Obl, NEW p \in Process, PStep(p)
    PROVE  /\ Waits'
           /\ \A m \in Open' : m \in Open \/ (DeliverFile(p) /\ p \in Cadencer /\ m = Len(made) + 1)
<1>0. /\ TypeOK /\ Built /\ Grown /\ Minds(p) /\ made \in Seq(Key) /\ Len(made) \in Nat
      /\ made' = made \/ DeliverFile(p)
  BY StepFrame DEF Core, TypeOK, Obl
<1>1. \A m \in 1..Len(made) : Obligation(m)' <=> Obligation(m)
  BY <1>0, ObligationKept
<1>2. ASSUME NEW f \in files', Obligation(f.id)'
      PROVE  /\ f.state \in {"WAIT", "NACK"}
             /\ \/ f \in files /\ Obligation(f.id)
                \/ f.state = "NACK"
                \/ DeliverFile(p) /\ p \in Cadencer /\ f.id = Len(made) + 1
  <2>1. CASE f \in files
    <3>1. f.id \in 1..Len(made)
      BY <1>0, <2>1 DEF Built, TypeOK, File, Id
    <3>2. QED
      BY <1>1, <1>2, <2>1, <3>1 DEF Obl, Waits
  <2>2. CASE WriteFile(p) /\ f.id = Task_(p).id /\ f.state = Task_(p).to
    <3>1. ~Idle(p) /\ Task_(p) \in Task /\ Moving(Task_(p)) /\ made' = made
      BY <1>0, <2>2, DoingTask DEF WriteFile
    <3>2. Task_(p) = todo[p][1] /\ 1 \in DOMAIN todo[p]
      BY <1>0, <3>1, FirstTask
    <3>3. Obligation(Task_(p).id)
      BY <1>2, <2>2, <3>1 DEF Obligation
    <3>4. p \notin Agent /\ CadencerTask(Task_(p))
      BY <1>0, <3>1, <3>2, <3>3 DEF Minds, AgentTask
    <3>5. Task_(p).to = "NACK"
      BY <3>1, <3>3, <3>4 DEF CadencerTask, Moving
    <3>6. QED
      BY <2>2, <3>5
  <2>3. CASE DeliverFile(p) /\ f.id = Len(made) + 1 /\ f.state = "WAIT"
    <3>1. ~Idle(p) /\ Task_(p) \in Task /\ Task_(p).do = "deliver" /\ made' = Append(made, Task_(p).key)
      BY <1>0, <2>3, DoingTask DEF DeliverFile
    <3>2. Task_(p) = todo[p][1] /\ 1 \in DOMAIN todo[p] /\ Task_(p).key \in Key
      BY <1>0, <3>1, FirstTask, TaskForms DEF Delivering
    <3>3. made'[f.id] = Task_(p).key
      BY <1>0, <2>3, <3>1, <3>2
    <3>4. p \notin Agent
      BY <1>0, <1>2, <3>1, <3>2, <3>3 DEF Obligation, Minds, AgentTask, Delivering
    <3>5. QED
      BY <2>3, <3>4 DEF Process
  <2>4. QED
    BY <2>1, <2>2, <2>3, FilesGain
<1>3. Waits'
  BY <1>2 DEF Waits
<1>4. ASSUME NEW m \in Open'
      PROVE  m \in Open \/ (DeliverFile(p) /\ p \in Cadencer /\ m = Len(made) + 1)
  <2>1. PICK f \in files' : f.id = m /\ f.state \notin Terminal /\ Obligation(f.id)'
    BY <1>4, OpenIs DEF Of
  <2>2. CASE f \in files /\ Obligation(f.id)
    BY <2>1, <2>2, OpenIs DEF Of
  <2>3. QED
    BY <1>2, <2>1, <2>2 DEF Terminal
<1>5. QED
  BY <1>3, <1>4

\* An invocation begins.
LEMMA OblBegin ==
    ASSUME Core, Obl, \A a, b \in Cadencer : a = b, NEW p \in Process,
           \/ \E k \in Key : Route(p, k)
           \/ \E m \in Id, to \in State, due \in 0..MaxTic : Verb(p, m, to, due)
           \/ Sweep(p) \/ Cadence(p)
    PROVE  /\ Minds(p)'
           /\ tic' = tic \/ (p \in Cadencer /\ tic' = tic + 1)
           /\ p \in Cadencer /\ Pending(p)' => \A m : Covers(p, m)'
           /\ made' = made
<1>0. TypeOK /\ tic \in 0..MaxTic /\ MaxTic \in Nat /\ Agent \cap Cadencer = {}
  BY InboxAssumption DEF Core, TypeOK
<1>1. ASSUME NEW tasks, Begin(p, tasks)
      PROVE  todo'[p] = tasks /\ step'[p] = "start" /\ made' = made
  BY <1>0, <1>1 DEF Begin, TypeOK, Core, Local, Stage, disk
<1>2. ASSUME NEW k \in Key, Route(p, k) PROVE Minds(p)' /\ p \notin Cadencer /\ tic' = tic /\ made' = made
  <2>1. PICK a \in Task : a = Check(k)
    BY TaskForms
  <2>2. todo'[p] = <<a>> /\ made' = made
    BY <1>1, <1>2, <2>1 DEF Route
  <2>3. AgentTask(a)'
    BY <1>2, <2>1 DEF Route, AgentTask, Check, Moving, Delivering
  <2>4. QED
    BY <1>0, <1>2, <2>2, <2>3 DEF Route, Minds
<1>3. ASSUME NEW m \in Id, NEW to \in State, NEW due \in 0..MaxTic, Verb(p, m, to, due)
      PROVE  Minds(p)' /\ p \notin Cadencer /\ tic' = tic /\ made' = made
  <2>1. PICK a \in Task : a = Transition(m, to, due)
    BY TaskForms
  <2>2. todo'[p] = <<a>> /\ made' = made
    BY <1>1, <1>3, <2>1 DEF Verb
  <2>3. AgentTask(a)'
    BY <1>3, <2>1, <2>2 DEF Verb, AgentTask, Transition, Moving, Delivering, Obligation
  <2>4. QED
    BY <1>0, <1>3, <2>2, <2>3 DEF Verb, Minds
<1>4. CASE Sweep(p)
  <2>1. PICK a \in Task, b \in Task : a = Reconcile /\ b = List("resurface")
    BY TaskForms
  <2>2. todo'[p] = <<a, b>> /\ made' = made
    BY <1>1, <1>4, <2>1 DEF Sweep
  <2>3. AgentTask(a)' /\ AgentTask(b)'
    BY <2>1 DEF AgentTask, Reconcile, List, Moving, Delivering
  <2>4. QED
    BY <1>0, <1>4, <2>2, <2>3 DEF Sweep, Minds
<1>5. CASE Cadence(p)
  <2>0. ObligationKey[tic + 1] \in Key
    BY <1>0, <1>5, InboxAssumption DEF Cadence
  <2>1. PICK a \in Task, b \in Task, c \in Task, d \in Task :
           /\ a = List("close") /\ b = Reconcile /\ c = List("resurface")
           /\ d = Check(ObligationKey[tic + 1])
    BY <2>0, TaskForms
  <2>2. todo'[p] = <<a, b, c, d>> /\ made' = made /\ step'[p] = "start" /\ tic' = tic + 1
    BY <1>1, <1>5, <2>1 DEF Cadence
  <2>3. CadencerTask(a)' /\ CadencerTask(b)' /\ CadencerTask(c)' /\ CadencerTask(d)'
    BY <1>0, <2>1, <2>2 DEF CadencerTask, Reconcile, List, Check, Moving, Delivering
  <2>4. Minds(p)' /\ p \in Cadencer
    BY <1>0, <1>5, <2>2, <2>3 DEF Cadence, Minds
  <2>5. ASSUME NEW m PROVE Covers(p, m)'
    BY <2>1, <2>2 DEF Covers, Closes, List
  <2>6. QED
    BY <2>2, <2>4, <2>5
<1>6. QED
  BY <1>2, <1>3, <1>4, <1>5

\* Steps that go from one task to the next.
LEMMA OblTurn ==
    ASSUME Core, NEW p \in Process, ~Idle(p), NEW tasks \in Seq(Task), Replace(p, tasks),
           Minds(p), tic' = tic, made' = made, files' = files,
           \A i \in DOMAIN tasks : IF p \in Agent THEN AgentTask(tasks[i]) ELSE CadencerTask(tasks[i]),
           \A i \in DOMAIN tasks : Delivering(tasks[i]) => Delivering(Task_(p)) /\ step[p] = "start",
           Covered,
           p \in Cadencer /\ Pending(p) =>
              \A m \in Open :
                 Closes(Task_(p), m) /\ step[p] \in {"start", "write", "remove"} =>
                    \E i \in DOMAIN tasks : Closes(tasks[i], m)
    PROVE  /\ Minds(p)' /\ (Pending(p)' => Pending(p))
           /\ p \in Cadencer /\ Pending(p)' => \A m \in Open' : Covers(p, m)'
<1>0. /\ TypeOK /\ todo[p] \in Seq(Task) /\ Task_(p) = todo[p][1] /\ 1 \in DOMAIN todo[p] /\ AptWork(p)
  BY FirstTask DEF Core, Local
<1>1. Minds(p)'
  BY MindsNext
<1>2. ASSUME Pending(p)' PROVE Pending(p)
  <2>1. PICK i \in DOMAIN todo'[p] : Delivering(todo'[p][i])
    BY <1>2 DEF Pending, Delivers, Delivering
  <2>2. CASE i \in DOMAIN tasks /\ todo'[p][i] = tasks[i]
    <3>1. Delivering(Task_(p)) /\ step[p] = "start"
      BY <2>1, <2>2
    <3>2. QED
      BY <1>0, <3>1 DEF Pending, Delivers, Delivering
  <2>3. CASE \E j \in DOMAIN todo[p] : j >= 2 /\ todo'[p][i] = todo[p][j]
    <3>1. PICK j \in DOMAIN todo[p] : j >= 2 /\ Delivering(todo[p][j])
      BY <2>1, <2>3
    <3>2. j \in Nat /\ Len(todo[p]) \in Nat /\ j = Len(todo[p])
      BY <1>0, <3>1 DEF AptWork
    <3>3. ~Delivering(Task_(p))
      BY <1>0, <3>1, <3>2 DEF AptWork
    <3>4. QED
      BY <3>1, <3>3 DEF Pending, Delivers, Delivering, Doing, Task_
  <2>4. QED
    BY <2>2, <2>3, Shifted
<1>3. Open' = Open
  BY DEF Open, Live, Obligation
<1>4. ASSUME p \in Cadencer, Pending(p)', NEW m \in Open PROVE Covers(p, m)'
  <2>1. Pending(p) /\ Covers(p, m)
    BY <1>2, <1>4 DEF Covered
  <2>2. QED
    BY <1>4, <2>1, CoversNext
<1>5. QED
  BY <1>1, <1>2, <1>3, <1>4

LEMMA OblDone ==
    ASSUME Core, NEW p \in Process, ~Idle(p), Done(p),
           Minds(p), tic' = tic, made' = made, files' = files, Covered,
           \A m \in Open : ~(Closes(Task_(p), m) /\ step[p] \in {"start", "write", "remove"})
    PROVE  /\ Minds(p)' /\ (Pending(p)' => Pending(p))
           /\ p \in Cadencer /\ Pending(p)' => \A m \in Open' : Covers(p, m)'
<1>1. PICK tasks \in Seq(Task) : tasks = <<>> /\ DOMAIN tasks = {}
  BY Lists
<1>2. QED
  BY <1>1, OblTurn DEF Done

LEMMA OblCheck ==
    ASSUME Core, Obl, NEW p \in Process, CheckKey(p)
    PROVE  /\ Minds(p)' /\ (Pending(p)' => Pending(p))
           /\ p \in Cadencer /\ Pending(p)' => \A m \in Open' : Covers(p, m)'
<1>0. /\ ~Idle(p) /\ Task_(p) \in Task /\ Task_(p).do = "check" /\ Task_(p).key \in Key
      /\ Delivering(Task_(p)) /\ ~Moves(p) /\ ~Doing(p, "deliver")
  BY DoingTask, TaskForms DEF CheckKey, Core, Delivering, Moves, Doing, Task_
<1>1. /\ step[p] = "start" /\ TypeOK /\ Known(index) /\ index \in Index /\ Minds(p) /\ Covered /\ Fresh
      /\ UNCHANGED <<tic, made, files>>
  BY <1>0 DEF Core, TypeOK, Local, Stage, Doing, Task_, Obl, CheckKey, disk
<1>2. PICK k \in Key : k = Task_(p).key
  BY <1>0
<1>3. Task_(p) = todo[p][1] /\ 1 \in DOMAIN todo[p]
  BY <1>0, <1>1, FirstTask
<1>4. IF p \in Agent THEN \A t \in 1..MaxTic : k # ObligationKey[t]
      ELSE tic > 0 /\ k = ObligationKey[tic]
  BY <1>0, <1>1, <1>2, <1>3 DEF Minds, AgentTask, CadencerTask
<1>5. PICK a \in Task : a = Deliver(k)
  BY TaskForms
<1>6. IF p \in Agent THEN AgentTask(a) ELSE CadencerTask(a)
  BY <1>4, <1>5 DEF AgentTask, CadencerTask, Deliver, Moving, Delivering
<1>7. index[k].id # 0 => index[k].id \in 1..Len(made) /\ made[index[k].id] = k
  BY <1>1, InboxAssumption DEF Known, Index
<1>8. p \notin Agent => index[k].id = 0
  <2>1. SUFFICES ASSUME p \notin Agent, index[k].id # 0 PROVE FALSE
    OBVIOUS
  <2>2. tic \in 1..MaxTic /\ p \in Cadencer
    BY <1>1, <1>4, <2>1, InboxAssumption DEF TypeOK, Process
  <2>3. Pending(p)
    BY <1>0, <1>3 DEF Pending, Delivers, Delivering
  <2>4. QED
    BY <1>1, <1>4, <1>7, <2>1, <2>2, <2>3 DEF Fresh
<1>9. \A m : ~Closes(Task_(p), m)
  BY <1>0 DEF Closes
<1>10. PICK tasks \in Seq(Task) :
          /\ Replace(p, tasks)
          /\ \A i \in DOMAIN tasks : IF p \in Agent THEN AgentTask(tasks[i]) ELSE CadencerTask(tasks[i])
  <2>1. CASE index[k].id = 0 \/ index[k].state \in Terminal
    <3>1. Replace(p, <<a>>)
      BY <1>2, <1>5, <2>1 DEF CheckKey
    <3>2. <<a>> \in Seq(Task) /\ DOMAIN <<a>> = {1} /\ <<a>>[1] = a
      BY Lists
    <3>3. QED
      BY <1>6, <3>1, <3>2
  <2>2. CASE ~(index[k].id = 0 \/ index[k].state \in Terminal) /\ Policy[k] = "latest_wins"
    <3>1. index[k].id \in Id /\ p \in Agent
      BY <1>7, <1>8, <2>2, <1>1 DEF Index, Id, TypeOK
    <3>2. PICK b \in Task : b = Supersede(index[k].id)
      BY <3>1, TaskForms
    <3>3. AgentTask(b)
      BY <1>4, <1>7, <2>2, <3>1, <3>2 DEF AgentTask, Supersede, Moving, Delivering, Obligation
    <3>4. Replace(p, <<b, a>>)
      BY <1>2, <1>5, <2>2, <3>2 DEF CheckKey
    <3>5. /\ <<b, a>> \in Seq(Task) /\ DOMAIN <<b, a>> = {1, 2}
          /\ <<b, a>>[1] = b /\ <<b, a>>[2] = a
      BY Lists
    <3>6. \A i \in DOMAIN <<b, a>> : AgentTask(<<b, a>>[i])
      BY <1>6, <3>1, <3>3, <3>5
    <3>7. QED
      BY <3>1, <3>4, <3>5, <3>6
  <2>3. CASE ~(index[k].id = 0 \/ index[k].state \in Terminal) /\ Policy[k] # "latest_wins"
    <3>1. Replace(p, <<>>)
      BY <1>2, <2>3 DEF CheckKey
    <3>2. QED
      BY <3>1, Lists
  <2>4. QED
    BY <2>1, <2>2, <2>3
<1>11. QED
  BY <1>0, <1>1, <1>9, <1>10, OblTurn

LEMMA OblList ==
    ASSUME Core, Obl, NEW p \in Process, ListIds(p)
    PROVE  /\ Minds(p)' /\ (Pending(p)' => Pending(p))
           /\ p \in Cadencer /\ Pending(p)' => \A m \in Open' : Covers(p, m)'
<1>0. /\ ~Idle(p) /\ TypeOK /\ Built /\ Minds(p) /\ Covered /\ Fresh /\ Waits
      /\ UNCHANGED <<tic, made, files>> /\ Task_(p) = todo[p][1] /\ 1 \in DOMAIN todo[p]
  BY DoingTask, FirstTask DEF ListIds, Core, disk, Obl
<1>1. CASE Doing(p, "close") /\ Replace(p, <<Each("NACK", StaleObligations)>>)
  <2>1. Task_(p).do = "close" /\ p \notin Agent
    BY <1>0, <1>1, DoingTask DEF Minds, AgentTask
  <2>2. StaleObligations \subseteq Id
    BY <1>0 DEF StaleObligations, Listed, Waiting, TypeOK, File
  <2>3. PICK a \in Task : a = Each("NACK", StaleObligations)
    BY <2>2, TaskForms DEF State
  <2>4. CadencerTask(a) /\ ~Delivering(a)
    BY <2>3 DEF CadencerTask, Each, Moving, Delivering
  <2>5. <<a>> \in Seq(Task) /\ DOMAIN <<a>> = {1} /\ <<a>>[1] = a
    BY Lists
  <2>6. ASSUME p \in Cadencer, Pending(p), NEW m \in Open PROVE m \in StaleObligations
    <3>1. PICK f \in files : f.id = m /\ f.state \notin Terminal /\ Obligation(m)
      BY <2>6, OpenIs DEF Of
    <3>2. f.state = "WAIT" /\ m \in 1..Len(made)
      BY <1>0, <3>1 DEF Waits, Terminal, Built, TypeOK, File, Id
    <3>3. PICK t \in 1..MaxTic : made[m] = ObligationKey[t]
      BY <3>1 DEF Obligation
    <3>4. t <= tic /\ t # tic
      BY <1>0, <2>6, <3>2, <3>3 DEF Fresh
    <3>5. tic \in 1..MaxTic
      BY <1>0, <3>4, InboxAssumption DEF TypeOK
    <3>6. made[m] # ObligationKey[tic]
      BY <3>3, <3>4, <3>5, InboxAssumption
    <3>7. QED
      BY <3>1, <3>2, <3>6 DEF StaleObligations, Listed, Waiting
  <2>7. p \in Cadencer /\ Pending(p) => \A m \in Open : Closes(a, m)
    BY <2>3, <2>6 DEF Closes, Each
  <2>8. Replace(p, <<a>>)
    BY <1>1, <2>3
  <2>9. QED
    BY <1>0, <2>1, <2>4, <2>5, <2>7, <2>8, OblTurn
<1>2. CASE Doing(p, "resurface") /\ Replace(p, <<Each("WAIT", DueIds)>>)
  <2>1. Task_(p).do = "resurface" /\ \A m : ~Closes(Task_(p), m)
    BY <1>0, <1>2, DoingTask DEF Closes
  <2>2. DueIds \subseteq Id /\ \A m \in DueIds : ~Obligation(m)
    BY <1>0 DEF DueIds, TypeOK, File, Waits
  <2>3. PICK a \in Task : a = Each("WAIT", DueIds)
    BY <2>2, TaskForms DEF State
  <2>4. CadencerTask(a) /\ AgentTask(a) /\ ~Delivering(a)
    BY <2>2, <2>3 DEF CadencerTask, AgentTask, Each, Moving, Delivering
  <2>5. <<a>> \in Seq(Task) /\ DOMAIN <<a>> = {1} /\ <<a>>[1] = a
    BY Lists
  <2>6. Replace(p, <<a>>)
    BY <1>2, <2>3
  <2>7. QED
    BY <1>0, <2>1, <2>4, <2>5, <2>6, OblTurn
<1>3. QED
  BY <1>1, <1>2 DEF ListIds

LEMMA OblNext ==
    ASSUME Core, Obl, NEW p \in Process, NextId(p)
    PROVE  /\ Minds(p)' /\ (Pending(p)' => Pending(p))
           /\ p \in Cadencer /\ Pending(p)' => \A m \in Open' : Covers(p, m)'
<1>0. /\ ~Idle(p) /\ TypeOK /\ Task_(p) \in Task /\ Task_(p).do = "each" /\ Minds(p) /\ Covered
      /\ UNCHANGED <<tic, made, files>> /\ Task_(p) = todo[p][1] /\ 1 \in DOMAIN todo[p]
  BY DoingTask, FirstTask DEF NextId, Core, disk, Obl
<1>1. PICK ids, to : ids = Task_(p).ids /\ to = Task_(p).to
  OBVIOUS
<1>2. ids \subseteq Id /\ to \in State
  BY <1>0, <1>1, TaskForms
<1>3. \A m : Closes(Task_(p), m) <=> to = "NACK" /\ m \in ids
  BY <1>0, <1>1 DEF Closes
<1>4. CASE ids = {} /\ Done(p)
  BY <1>0, <1>3, <1>4, OblDone
<1>5. ASSUME NEW m \in ids, Replace(p, <<Transition(m, to, 0), Each(to, ids \ {m})>>)
      PROVE  /\ Minds(p)' /\ (Pending(p)' => Pending(p))
             /\ p \in Cadencer /\ Pending(p)' => \A n \in Open' : Covers(p, n)'
  <2>1. Transition(m, to, 0) \in Task /\ Each(to, ids \ {m}) \in Task
    BY <1>2, TaskForms, InboxAssumption
  <2>2. PICK a \in Task, b \in Task : a = Transition(m, to, 0) /\ b = Each(to, ids \ {m})
    BY <2>1
  <2>3. ~Delivering(a) /\ ~Delivering(b)
    BY <2>2 DEF Transition, Each, Delivering
  <2>4. IF p \in Agent THEN AgentTask(a) /\ AgentTask(b) ELSE CadencerTask(a) /\ CadencerTask(b)
    <3>1. IF p \in Agent THEN \A n \in ids : ~Obligation(n)
          ELSE to # "NACK" => \A n \in ids : ~Obligation(n)
      BY <1>0, <1>1 DEF Minds, AgentTask, CadencerTask
    <3>2. QED
      BY <2>2, <2>3, <3>1 DEF AgentTask, CadencerTask, Transition, Each, Moving
  <2>5. /\ <<a, b>> \in Seq(Task) /\ DOMAIN <<a, b>> = {1, 2} /\ <<a, b>>[1] = a /\ <<a, b>>[2] = b
    BY Lists
  <2>6. \A n : to = "NACK" /\ n \in ids => Closes(a, n) \/ Closes(b, n)
    BY <2>2 DEF Closes, Transition, Each
  <2>7. PICK tasks \in Seq(Task) :
           tasks = <<a, b>> /\ DOMAIN tasks = {1, 2} /\ tasks[1] = a /\ tasks[2] = b
    BY <2>5, Zenon
  <2>8. Replace(p, tasks)
    BY <1>5, <2>2, <2>7
  <2>9. \A n : Closes(Task_(p), n) => \E i \in DOMAIN tasks : Closes(tasks[i], n)
    BY <1>3, <2>6, <2>7
  <2>10. /\ \A i \in DOMAIN tasks : IF p \in Agent THEN AgentTask(tasks[i]) ELSE CadencerTask(tasks[i])
         /\ \A i \in DOMAIN tasks : ~Delivering(tasks[i])
    BY <2>3, <2>4, <2>7
  <2>11. QED
    BY <1>0, <2>8, <2>9, <2>10, OblTurn
<1>6. QED
  BY <1>1, <1>4, <1>5 DEF NextId

LEMMA OblMiss ==
    ASSUME Core, Obl, NEW p \in Process, Miss(p)
    PROVE  /\ Minds(p)' /\ (Pending(p)' => Pending(p))
           /\ p \in Cadencer /\ Pending(p)' => \A m \in Open' : Covers(p, m)'
<1>0. /\ ~Idle(p) /\ TypeOK /\ Task_(p) \in Task /\ Moving(Task_(p)) /\ Minds(p) /\ Covered /\ Waits
      /\ UNCHANGED <<tic, made, files>> /\ Done(p)
  BY DoingTask DEF Miss, Core, disk, Obl
<1>1. ASSUME NEW m \in Open, Closes(Task_(p), m) PROVE FALSE
  <2>1. Task_(p).do = "transition" /\ Task_(p).to = "NACK" /\ Task_(p).id = m
    BY <1>0, <1>1 DEF Closes, Moving
  <2>2. Obligation(m) /\ \E f \in Of(m) : f.state \notin Terminal
    BY <1>1, OpenIs
  <2>3. \A f \in Of(m) : f.state \in {"WAIT", "NACK"}
    BY <1>0, <2>2 DEF Waits, Of
  <2>4. Found(m) = {f \in Of(m) : \A g \in Of(m) : Rank(f.state) <= Rank(g.state)}
    BY DEF Found, Of
  <2>5. Found(m) # {} /\ \A f \in Found(m) : f.state = "WAIT"
    BY <2>2, <2>3, <2>4, Ranks DEF Terminal
  <2>6. PICK f \in Found(m) : ~Legal(Task_(p), f)
    BY <2>1, <2>5 DEF Miss
  <2>7. Task_(p).to \in Transitions[StateOf(f)]
    BY <2>1, <2>5 DEF Transitions, StateOf, State, Terminal
  <2>8. QED
    BY <2>6, <2>7 DEF Legal
<1>2. QED
  BY <1>0, <1>1, OblDone

\* Steps within a task.
LEMMA OblGo ==
    ASSUME Core, Obl, NEW p \in Process, PStep(p), ~DeliverFile(p), tic' = tic,
           ~Idle(p), NEW s \in Steps \ {"start"}, Goto(p, s), made' = made,
           \A m \in Open' : Closes(Task_(p), m) /\ step[p] \in {"start", "write", "remove"} =>
              s \in {"write", "remove"}
    PROVE  /\ Minds(p)' /\ (Pending(p)' => Pending(p))
           /\ p \in Cadencer /\ Pending(p)' => \A m \in Open' : Covers(p, m)'
<1>0. /\ todo' = todo /\ step'[p] = s /\ (Pending(p)' => Pending(p)) /\ Grown
      /\ TypeOK /\ Task_(p) = todo[p][1] /\ 1 \in DOMAIN todo[p]
  BY Going, FirstTask, StepFrame DEF Core
<1>1. Minds(p)'
  BY <1>0, MindsKept DEF Obl
<1>2. ASSUME p \in Cadencer, Pending(p)', NEW m \in Open' PROVE Covers(p, m)'
  <2>1. m \in Open
    BY <1>2, OpenKept
  <2>2. PICK i \in DOMAIN todo[p] : Closes(todo[p][i], m) /\ (i = 1 => step[p] \in {"start", "write", "remove"})
    BY <1>0, <1>2, <2>1 DEF Obl, Covered, Covers
  <2>3. i = 1 => step'[p] \in {"start", "write", "remove"}
    BY <1>0, <1>2, <2>2
  <2>4. Closes(todo'[p][i], m) /\ i \in DOMAIN todo'[p]
    BY <1>0, <2>2
  <2>5. QED
    BY <2>3, <2>4 DEF Covers, Closes
<1>3. QED
  BY <1>0, <1>1, <1>2

LEMMA OblMove ==
    ASSUME Core, Obl, NEW p \in Process, Find(p) \/ WriteFile(p) \/ RemoveFile(p)
    PROVE  /\ Minds(p)' /\ (Pending(p)' => Pending(p))
           /\ p \in Cadencer /\ Pending(p)' => \A m \in Open' : Covers(p, m)'
<1>0. /\ TypeOK /\ Moves(p) /\ PStep(p) /\ ~DeliverFile(p) /\ tic' = tic /\ made' = made
      /\ ~Idle(p) /\ Task_(p) \in Task /\ Moving(Task_(p)) /\ Local(p) /\ held[p] \in File
  BY DoingTask DEF Core, TypeOK, PStep, Progress, Find, WriteFile, RemoveFile, DeliverFile, disk, Moves, Doing
<1>1. CASE Find(p) \/ WriteFile(p)
  <2>1. PICK s \in {"write", "remove"} : Goto(p, s)
    BY <1>1 DEF Find, WriteFile
  <2>2. s \in Steps \ {"start"}
    BY DEF Steps
  <2>3. QED
    BY <1>0, <2>1, <2>2, OblGo
<1>2. CASE RemoveFile(p)
  <2>1. ASSUME NEW m \in Open', Closes(Task_(p), m) PROVE FALSE
    <3>1. Task_(p).do = "transition" /\ Task_(p).to = "NACK" /\ Task_(p).id = m
      BY <1>0, <2>1 DEF Closes, Moving
    <3>2. held[p].id = m /\ Legal(Task_(p), held[p])
      BY <1>0, <1>2, <3>1 DEF RemoveFile, Local, Grip
    <3>3. held[p].state = "WAIT"
      BY <1>0, <3>1, <3>2, LegalMoves
    <3>4. PICK f \in files' : f.id = m /\ f.state \notin Terminal /\ Obligation(m)'
      BY <2>1, OpenIs DEF Of
    <3>5. f.state = "WAIT"
      BY <1>0, <3>4, OpenKept DEF Waits, Terminal
    <3>6. QED
      BY <1>2, <3>2, <3>3, <3>4, <3>5 DEF RemoveFile, Without
  <2>2. "load" \in Steps \ {"start"} /\ Goto(p, "load")
    BY <1>2 DEF Steps, RemoveFile
  <2>3. QED
    BY <1>0, <2>1, <2>2, OblGo
<1>3. QED
  BY <1>1, <1>2

LEMMA OblRegistry ==
    ASSUME Core, Obl, NEW p \in Process, LoadRegistry(p) \/ SaveRegistry(p) \/ LogReceipt(p)
    PROVE  /\ Minds(p)' /\ (Pending(p)' => Pending(p))
           /\ p \in Cadencer /\ Pending(p)' => \A m \in Open' : Covers(p, m)'
<1>0. /\ TypeOK /\ PStep(p) /\ tic' = tic /\ made' = made /\ files' = files /\ Local(p)
      /\ Minds(p) /\ Covered
  BY DEF Core, PStep, Progress, LoadRegistry, SaveRegistry, LogReceipt, disk, Obl
<1>1. ~DeliverFile(p)
  <2>1. CASE step[p] = "start"
    <3>1. Doing(p, "reconcile")
      BY <2>1 DEF LoadRegistry, SaveRegistry, LogReceipt
    <3>2. QED
      BY <1>0, <3>1, DoingTask DEF DeliverFile
  <2>2. QED
    BY <2>1 DEF DeliverFile
<1>2. ~Idle(p)
  BY <1>0, DoingTask DEF Local, Stage, LoadRegistry, SaveRegistry, LogReceipt
<1>3. \A m : ~(Closes(Task_(p), m) /\ step[p] \in {"start", "write", "remove"})
  <2>1. CASE step[p] = "start"
    <3>1. Doing(p, "reconcile")
      BY <2>1 DEF LoadRegistry, SaveRegistry, LogReceipt
    <3>2. Task_(p).do = "reconcile"
      BY <1>0, <3>1, DoingTask
    <3>3. QED
      BY <3>2 DEF Closes
  <2>2. CASE step[p] # "start"
    BY <2>2 DEF LoadRegistry, SaveRegistry, LogReceipt
  <2>3. QED
    BY <2>1, <2>2
<1>4. ASSUME NEW s \in {"save", "receipt"}, Goto(p, s)
      PROVE  /\ Minds(p)' /\ (Pending(p)' => Pending(p))
             /\ p \in Cadencer /\ Pending(p)' => \A m \in Open' : Covers(p, m)'
  <2>1. s \in Steps \ {"start"}
    BY DEF Steps
  <2>2. QED
    BY <1>0, <1>1, <1>2, <1>3, <1>4, <2>1, OblGo
<1>5. CASE Done(p)
  BY <1>0, <1>2, <1>3, <1>5, OblDone
<1>6. Done(p) \/ Goto(p, "save") \/ Goto(p, "receipt")
  BY DEF LoadRegistry, SaveRegistry, LogReceipt
<1>7. QED
  BY <1>4, <1>5, <1>6

\* /cadence delivers this tic's obligation only when nothing of an earlier one is open.
LEMMA OblDeliver ==
    ASSUME Core, Obl, NEW p \in Process, DeliverFile(p)
    PROVE  /\ Minds(p)' /\ ~Pending(p)' /\ tic' = tic
           /\ p \in Cadencer => Open = {} /\ Pending(p) /\ tic > 0 /\ Task_(p).key = ObligationKey[tic]
           /\ p \notin Cadencer => \A t \in 1..MaxTic : Task_(p).key # ObligationKey[t]
<1>0. /\ TypeOK /\ PStep(p) /\ tic' = tic /\ todo' = todo /\ Doing(p, "deliver") /\ step[p] = "start"
      /\ step' = [step EXCEPT ![p] = "load"] /\ Minds(p) /\ Local(p) /\ Agent \cap Cadencer = {}
  BY InboxAssumption DEF Core, PStep, Progress, DeliverFile, Goto, Obl
<1>1. /\ ~Idle(p) /\ Task_(p) \in Task /\ Task_(p).do = "deliver"
      /\ todo[p] \in Seq(Task) /\ Task_(p) = todo[p][1] /\ 1 \in DOMAIN todo[p]
  BY <1>0, DoingTask, FirstTask
<1>2. Minds(p)'
  BY <1>0, StepFrame, MindsKept
<1>3. ~Pending(p)'
  BY <1>0 DEF Pending, Doing, Idle, TypeOK
<1>4. Pending(p)
  BY <1>0, <1>1 DEF Pending, Delivers
<1>5. Len(todo[p]) = 1
  BY <1>0, <1>1 DEF Local, AptWork, Delivering
<1>6. \A m : ~Covers(p, m)
  <2>1. \A i \in DOMAIN todo[p] : todo[p][i] = Task_(p)
    BY <1>1, <1>5
  <2>2. QED
    BY <1>1, <2>1 DEF Covers, Closes
<1>7. p \in Cadencer => Open = {}
  BY <1>4, <1>6 DEF Obl, Covered
<1>8. p \in Cadencer => tic > 0 /\ Task_(p).key = ObligationKey[tic]
  BY <1>0, <1>1 DEF Minds, CadencerTask, Delivering
<1>9. p \notin Cadencer => \A t \in 1..MaxTic : Task_(p).key # ObligationKey[t]
  BY <1>0, <1>1 DEF Minds, AgentTask, Delivering, Process
<1>10. QED
  BY <1>0, <1>2, <1>3, <1>4, <1>7, <1>8, <1>9

\* What a step of p does to what p has to do.
LEMMA OblOwn ==
    ASSUME Core, Obl, \A a, b \in Cadencer : a = b, NEW p \in Process, PStep(p)
    PROVE  /\ Minds(p)'
           /\ p \in Cadencer /\ Pending(p)' => \A m \in Open' : Covers(p, m)'
           /\ \/ tic' = tic /\ (Pending(p)' => Pending(p) \/ p \notin Cadencer)
              \/ p \in Cadencer /\ tic' = tic + 1 /\ made' = made
<1>1. CASE \/ \E k \in Key : Route(p, k)
           \/ \E m \in Id, to \in State, due \in 0..MaxTic : Verb(p, m, to, due)
           \/ Sweep(p) \/ Cadence(p)
  <2>1. Cadence(p) \/ p \notin Cadencer
    BY <1>1, InboxAssumption DEF Route, Verb, Sweep
  <2>2. CASE Cadence(p)
    BY <1>1, <2>2, OblBegin DEF Cadence
  <2>3. CASE p \notin Cadencer
    BY <1>1, <2>3, OblBegin
  <2>4. QED
    BY <2>1, <2>2, <2>3
<1>2. CASE Crash(p)
  <2>1. todo'[p] = <<>> /\ tic' = tic
    BY <1>2 DEF Crash, Core, TypeOK
  <2>2. Minds(p)' /\ ~Pending(p)'
    BY <2>1 DEF Minds, Pending, Delivers
  <2>3. QED
    BY <2>1, <2>2
<1>3. CASE DeliverFile(p)
  BY <1>3, OblDeliver
<1>4. CASE \/ CheckKey(p) \/ Find(p) \/ Miss(p) \/ WriteFile(p) \/ RemoveFile(p)
           \/ LoadRegistry(p) \/ SaveRegistry(p) \/ LogReceipt(p) \/ ListIds(p) \/ NextId(p)
  <2>1. tic' = tic
    BY <1>4 DEF CheckKey, Find, Miss, WriteFile, RemoveFile, LoadRegistry, SaveRegistry, LogReceipt,
       ListIds, NextId
  <2>2. /\ Minds(p)' /\ (Pending(p)' => Pending(p))
        /\ p \in Cadencer /\ Pending(p)' => \A m \in Open' : Covers(p, m)'
    BY <1>4, OblCheck, OblMove, OblMiss, OblRegistry, OblList, OblNext
  <2>3. QED
    BY <2>1, <2>2
<1>5. QED
  BY <1>1, <1>2, <1>3, <1>4 DEF PStep, Progress

LEMMA FreshKept ==
    ASSUME Core, Obl, \A a, b \in Cadencer : a = b, NEW p \in Process, PStep(p)
    PROVE  Fresh'
<1>0. /\ TypeOK /\ Aside(p) /\ Grown /\ (made' = made \/ DeliverFile(p)) /\ tic \in Nat
      /\ made \in Seq(Key) /\ Len(made) \in Nat /\ Fresh
  BY StepFrame, InboxAssumption DEF Core, TypeOK, Obl
<1>1. \A c \in Cadencer \ {p} : Pending(c)' => Pending(c)
  BY <1>0 DEF Process, Aside, Pending, Delivers, Doing, Idle
<1>2. SUFFICES ASSUME NEW m \in 1..Len(made'), NEW t \in 1..MaxTic, made'[m] = ObligationKey[t]
               PROVE  t <= tic' /\ (t = tic' => \A c \in Cadencer : ~Pending(c)')
  BY DEF Fresh
<1>3. CASE m \in 1..Len(made)
  <2>1. made[m] = ObligationKey[t] /\ t <= tic /\ (t = tic => \A c \in Cadencer : ~Pending(c))
    BY <1>0, <1>2, <1>3 DEF Grown, Fresh
  <2>2. CASE tic' = tic /\ (Pending(p)' => Pending(p) \/ p \notin Cadencer)
    BY <1>1, <2>1, <2>2
  <2>3. CASE tic' = tic + 1
    <3>1. t <= tic' /\ t # tic'
      BY <1>0, <2>1, <2>3
    <3>2. QED
      BY <3>1
  <2>4. QED
    BY <2>2, <2>3, OblOwn
<1>4. CASE m \notin 1..Len(made)
  <2>1. DeliverFile(p)
    BY <1>0, <1>2, <1>4
  <2>2. made' = Append(made, Task_(p).key) /\ Task_(p).key \in Key
    <3>1. Delivering(Task_(p)) /\ Task_(p) \in Task
      BY <1>0, <2>1, DoingTask DEF DeliverFile, Delivering
    <3>2. QED
      BY <2>1, <3>1, TaskForms DEF DeliverFile
  <2>3. made'[m] = Task_(p).key
    BY <1>0, <1>2, <1>4, <2>2
  <2>4. p \in Cadencer /\ tic > 0 /\ ObligationKey[t] = ObligationKey[tic] /\ tic' = tic /\ ~Pending(p)'
    BY <1>2, <2>1, <2>3, OblDeliver
  <2>5. t = tic
    BY <1>0, <2>4, InboxAssumption DEF TypeOK
  <2>6. \A c \in Cadencer : c = p
    BY <2>4
  <2>7. QED
    BY <2>4, <2>5, <2>6
<1>5. QED
  BY <1>3, <1>4

LEMMA NextKeepsObl ==
    ASSUME \A a, b \in Cadencer : a = b
    PROVE  Core /\ Obl /\ [Next]_vars => Obl'
<1> SUFFICES ASSUME Core, Obl, [Next]_vars PROVE Obl'
  OBVIOUS
<1>1. CASE UNCHANGED vars
  <2>1. UNCHANGED <<tic, made, files, index, receipts, todo, step, held, copy, crashes>>
    BY <1>1 DEF vars
  <2>2. \A p \in Process : Minds(p)'
    BY <2>1 DEF Obl, Minds, AgentTask, CadencerTask, Obligation, Moving, Delivering
  <2>3. Open' = Open /\ Waits'
    BY <2>1 DEF Obl, Waits, Open, Live, Obligation
  <2>4. (\A c : Pending(c)' <=> Pending(c)) /\ \A c, m : Covers(c, m)' <=> Covers(c, m)
    BY <2>1 DEF Pending, Delivers, Doing, Idle, Covers, Closes
  <2>5. Fresh' /\ Covered' /\ OneOpen'
    BY <2>1, <2>3, <2>4 DEF Obl, Fresh, Covered, OneOpen
  <2>6. QED
    BY <2>2, <2>3, <2>5 DEF Obl
<1>2. ASSUME NEW p \in Process, PStep(p) PROVE Obl'
  <2>1. /\ TypeOK /\ Aside(p) /\ Grown /\ Waits' /\ Fresh'
    BY <1>2, StepFrame, OpenKept, FreshKept DEF Core
  <2>2. ASSUME NEW q \in Process PROVE Minds(q)'
    <3>1. CASE q = p
      BY <1>2, <3>1, OblOwn
    <3>2. CASE q # p
      <4>1. q \in Agent \/ tic' = tic
        BY <1>2, <3>2, OblOwn DEF Process
      <4>2. Minds(q) /\ todo'[q] = todo[q]
        BY <2>1, <3>2 DEF Obl, Aside
      <4>3. QED
        BY <2>1, <4>1, <4>2, MindsKept
    <3>3. QED
      BY <3>1, <3>2
  <2>3. ASSUME NEW c \in Cadencer, Pending(c)', NEW m \in Open' PROVE Covers(c, m)'
    <3>1. CASE c = p
      BY <1>2, <2>3, <3>1, OblOwn
    <3>2. CASE c # p
      <4>1. p \notin Cadencer
        BY <3>2
      <4>2. m \in Open
        BY <1>2, <2>3, <4>1, OpenKept
      <4>3. todo'[c] = todo[c] /\ step'[c] = step[c]
        BY <2>1, <3>2 DEF Aside, Process
      <4>4. Pending(c)
        BY <2>3, <4>3 DEF Pending, Delivers, Doing, Idle
      <4>5. Covers(c, m)
        BY <4>2, <4>4 DEF Obl, Covered
      <4>6. QED
        BY <4>3, <4>5 DEF Covers, Closes
    <3>3. QED
      BY <3>1, <3>2
  <2>4. OneOpen'
    <3>1. CASE DeliverFile(p) /\ p \in Cadencer
      <4>1. Open = {}
        BY <3>1, OblDeliver
      <4>2. QED
        BY <1>2, <4>1, OpenKept DEF OneOpen
    <3>2. CASE ~(DeliverFile(p) /\ p \in Cadencer)
      <4>1. Open' \subseteq Open
        BY <1>2, <3>2, OpenKept
      <4>2. QED
        BY <4>1 DEF Obl, OneOpen
    <3>3. QED
      BY <3>1, <3>2
  <2>5. QED
    BY <2>1, <2>2, <2>3, <2>4 DEF Obl, Covered
<1>3. QED
  BY <1>1, <1>2 DEF Next, PStep

LEMMA InitObl == Init => Obl
<1> SUFFICES ASSUME Init PROVE Obl
  OBVIOUS
<1>1. \A p \in Process : DOMAIN todo[p] = {}
  BY DEF Init
<1>2. files = {} /\ made = <<>>
  BY DEF Init
<1>3. Open = {} /\ Waits
  BY <1>2 DEF Open, Live, Waits
<1>4. Fresh
  BY <1>2 DEF Fresh
<1>5. \A p \in Process : ~Pending(p) /\ Minds(p)
  BY <1>1 DEF Pending, Delivers, Minds
<1>6. QED
  BY <1>3, <1>4, <1>5 DEF Obl, Covered, OneOpen, Process

LEMMA OneOpenCounts == OneOpen => ObligationOnce
<1> SUFFICES ASSUME OneOpen PROVE Cardinality(Open) <= 1
  BY DEF ObligationOnce, Open
<1>1. CASE Open = {}
  BY <1>1, FS_EmptySet
<1>2. CASE Open # {}
  <2>1. PICK m : Open = {m}
    BY <1>2 DEF OneOpen
  <2>2. QED
    BY <2>1, FS_Singleton
<1>3. QED
  BY <1>1, <1>2

\* One /cadence at a time never leaves two of its obligations live, whatever any
\* number of agents do to the registry meanwhile and wherever it is killed: before
\* it delivers, it closes what it finds in the channels, and no agent touches an
\* obligation.
THEOREM ObligationsOnce ==
    ASSUME \A a, b \in Cadencer : a = b
    PROVE  Spec => []ObligationOnce
<1>1. Core /\ Obl /\ [Next]_vars => Obl'
  BY NextKeepsObl
<1>2. Obl => ObligationOnce
  BY OneOpenCounts DEF Obl
<1>3. QED
  BY <1>1, <1>2, InitObl, CoreAlways, PTL DEF Spec
=============================================================================
