---------------------------- MODULE InboxEnvelope ----------------------------
(* One entity's mailbox as inbox-envelope.py keeps it: a file per envelope,    *)
(* whose directory and name carry its state, and indexes/inbox-registry.json.  *)
(* No verb locks anything. A process works through a list of tasks; each task  *)
(* is the sequence of file operations the code makes, one per step.            *)
EXTENDS Naturals, Sequences, FiniteSets

CONSTANTS
    Agent,          \* processes that run a verb, a route or a sweep
    Cadencer,       \* processes that run cadence-ops.py
    Crasher,        \* those of them that may be killed
    Key,            \* idempotency keys
    Policy,         \* dedupe policy of each key, from the trigger manifest
    ObligationKey,  \* the key of cadence.obligation at each tic
    Exclusive,      \* no two processes hold the same envelope at once
    MaxId, MaxTic, MaxCrash  \* bounds: envelopes, tics, kills

Process == Agent \cup Cadencer
State == {"WAIT", "ACTIVE", "DONE", "DEFER", "NACK"}
Terminal == {"DONE", "NACK"}
Id == 1..MaxId

ASSUME InboxAssumption ==
    /\ MaxId \in Nat \ {0} /\ MaxTic \in Nat /\ MaxCrash \in Nat
    /\ Exclusive \in BOOLEAN
    /\ IsFiniteSet(Process) /\ Agent \cap Cadencer = {} /\ Crasher \subseteq Process
    /\ Policy \in [Key -> {"latest_wins", "first_wins", "reject_duplicate"}]
    /\ ObligationKey \in [1..MaxTic -> Key]
    /\ \A s, t \in 1..MaxTic : ObligationKey[s] = ObligationKey[t] => s = t

VARIABLES
    tic,       \* the current tic
    made,      \* the key of each envelope ever built; its position is its id
    files,     \* the envelope files: [id, state, due]
    index,     \* the registry's idempotency index: id and state of each key
    receipts,  \* terminal receipts: <<id, state>>
    todo,      \* what each process still has to do
    step,      \* where it is in the first of these tasks
    held,      \* the file it found
    copy,      \* the registry it loaded
    crashes,   \* kills so far
    raced      \* history: a save lost an update, or two routes of one key overlapped

vars == <<tic, made, files, index, receipts, todo, step, held, copy, crashes, raced>>
disk == <<made, files, index, receipts>>

File == [id : Id, state : State, due : 0..MaxTic]
Index == [Key -> [id : 0..MaxId, state : State]]
NoFile == [id |-> 1, state |-> "WAIT", due |-> 0]
NoIndex == [k \in Key |-> [id |-> 0, state |-> "WAIT"]]

\* The state machine of the verbs.
Transitions ==
    [s \in State |-> CASE s = "WAIT" -> {"ACTIVE", "DEFER", "NACK"}
                       [] s = "ACTIVE" -> {"DONE", "DEFER"}
                       [] s = "DEFER" -> {"WAIT"}
                       [] OTHER -> {}]

(***************************************************************************)
(* Tasks                                                                   *)
(***************************************************************************)
Transition(m, to, due) == [do |-> "transition", id |-> m, to |-> to, due |-> due]
Supersede(m) == [do |-> "supersede", id |-> m, to |-> "NACK", due |-> 0]
Check(k) == [do |-> "check", key |-> k]
Deliver(k) == [do |-> "deliver", key |-> k]
Reconcile == [do |-> "reconcile"]
List(name) == [do |-> name]               \* list the envelopes to act on
Each(to, ids) == [do |-> "each", to |-> to, ids |-> ids]

Task ==
    [do : {"transition"}, id : Id, to : State, due : 0..MaxTic]
    \cup [do : {"supersede"}, id : Id, to : {"NACK"}, due : {0}]
    \cup [do : {"check", "deliver"}, key : Key]
    \cup [do : {"reconcile", "resurface", "close"}]
    \cup [do : {"each"}, to : State, ids : SUBSET Id]

Idle(p) == todo[p] = <<>>
Doing(p, name) == ~Idle(p) /\ Head(todo[p]).do = name
Task_(p) == Head(todo[p])
Moves(p) == Doing(p, "transition") \/ Doing(p, "supersede")
Handles(p, m) == Moves(p) /\ step[p] # "start" /\ Task_(p).id = m

Goto(p, s) == step' = [step EXCEPT ![p] = s] /\ UNCHANGED todo
Replace(p, tasks) ==
    /\ todo' = [todo EXCEPT ![p] = tasks \o Tail(@)]
    /\ step' = [step EXCEPT ![p] = "start"]
Done(p) == Replace(p, <<>>)
Forget(p) == held' = [held EXCEPT ![p] = NoFile] /\ copy' = [copy EXCEPT ![p] = NoIndex]

(***************************************************************************)
(* Reading the channels                                                    *)
(***************************************************************************)
\* The order in which find_envelope_file looks: inbound, processing, archive,
\* deferred. What lies in the archive it reports as DONE.
Rank(s) == CASE s = "WAIT" -> 1 [] s = "ACTIVE" -> 2 [] s \in Terminal -> 3 [] OTHER -> 4
Found(m) ==
    {f \in files : f.id = m /\ \A g \in files : g.id = m => Rank(f.state) <= Rank(g.state)}
StateOf(f) == IF f.state \in Terminal THEN "DONE" ELSE f.state

\* Due reminders in deferred/.
\* Bug: a reminder is due the tic after its own.
DueIdsLate == {f.id : f \in {g \in files : g.state = "DEFER" /\ g.due # 0 /\ g.due < tic}}
DueIds == {f.id : f \in {g \in files : g.state = "DEFER" /\ g.due # 0 /\ g.due <= tic}}

Obligation(m) == \E t \in 1..MaxTic : made[m] = ObligationKey[t]

\* scan_inbox walks the channels.
Waiting == {f.id : f \in {g \in files : g.state = "WAIT"}}
\* Bug: trust the registry, which may have lost an entry.
WaitingByRegistry == {index[k].id : k \in {l \in Key : index[l].id # 0 /\ index[l].state = "WAIT"}}
Listed == Waiting

\* _close_prior_cadence_obligations: all but the obligation of this tic.
StaleObligations == {m \in Listed : Obligation(m) /\ made[m] # ObligationKey[tic]}

(***************************************************************************)
(* Beginning an invocation                                                 *)
(***************************************************************************)
Init ==
    /\ tic = 0
    /\ made = <<>>
    /\ files = {}
    /\ index = NoIndex
    /\ receipts = {}
    /\ todo = [p \in Process |-> <<>>]
    /\ step = [p \in Process |-> "start"]
    /\ held = [p \in Process |-> NoFile]
    /\ copy = [p \in Process |-> NoIndex]
    /\ crashes = 0 /\ raced = FALSE

Begin(p, tasks) ==
    /\ Idle(p)
    /\ todo' = [todo EXCEPT ![p] = tasks]
    /\ UNCHANGED <<disk, step, held, copy, crashes, raced>>

Delivers(p) == \E i \in DOMAIN todo[p] : todo[p][i].do \in {"check", "deliver"}
Room == Len(made) + Cardinality({p \in Process : Delivers(p)}) < MaxId

\* trigger-router.py route: unless the trigger, its target or the target's
\* standing is refused, in which case nothing is written.
Route(p, k) ==
    /\ p \in Agent /\ Room
    /\ \A t \in 1..MaxTic : k # ObligationKey[t]
    /\ Begin(p, <<Check(k)>>)
    /\ UNCHANGED tic

\* claim, complete, defer (with or without a reminder) and nack. Agents leave
\* the markers of /cadence alone.
Verb(p, m, to, due) ==
    /\ p \in Agent
    /\ m \in 1..Len(made) /\ ~Obligation(m)
    /\ to \in {"ACTIVE", "DONE", "DEFER", "NACK"}
    /\ due = 0 \/ (to = "DEFER" /\ due > tic)
    /\ Begin(p, <<Transition(m, to, due)>>)
    /\ UNCHANGED tic

Sweep(p) ==
    /\ p \in Agent
    /\ Begin(p, <<Reconcile, List("resurface")>>)
    /\ UNCHANGED tic

\* cadence-ops.py after the mandate is written: close the earlier obligations,
\* sweep, route the new obligation.
Cadence(p) ==
    /\ p \in Cadencer /\ tic < MaxTic /\ Room
    /\ Begin(p, <<List("close"), Reconcile, List("resurface"), Check(ObligationKey[tic + 1])>>)
    /\ tic' = tic + 1

(***************************************************************************)
(* write_envelope                                                          *)
(***************************************************************************)
\* Between its look at the index and the save of its delivery.
Routes(p, k) == \E i \in DOMAIN todo[p] : todo[p][i] = Deliver(k)

\* check_idempotency.
CheckKey(p) ==
    /\ Doing(p, "check")
    /\ LET k == Task_(p).key
           entry == index[k]
       IN  Replace(p, IF entry.id = 0 \/ entry.state \in Terminal THEN <<Deliver(k)>>
                      ELSE IF Policy[k] = "latest_wins" THEN <<Supersede(entry.id), Deliver(k)>>
                      ELSE <<>>)
    /\ raced' = (raced \/ \E q \in Process \ {p} : Routes(q, Task_(p).key))
    /\ UNCHANGED <<tic, disk, held, copy, crashes>>

DeliverFile(p) ==
    /\ Doing(p, "deliver") /\ step[p] = "start"
    /\ LET f == [id |-> Len(made) + 1, state |-> "WAIT", due |-> 0]
       IN  /\ made' = Append(made, Task_(p).key)
           /\ files' = files \cup {f}
           /\ held' = [held EXCEPT ![p] = f]
    /\ Goto(p, "load")
    /\ UNCHANGED <<tic, index, receipts, copy, crashes, raced>>

(***************************************************************************)
(* _transition and _nack_existing                                          *)
(***************************************************************************)
\* Bug: any verb moves an envelope from any state.
LegalAlways(task, f) == TRUE
Legal(task, f) == task.do = "supersede" \/ task.to \in Transitions[StateOf(f)]

Find(p) ==
    /\ Moves(p) /\ step[p] = "start"
    /\ Exclusive => \A q \in Process \ {p} : ~Handles(q, Task_(p).id)
    /\ \E f \in Found(Task_(p).id) :
          /\ Legal(Task_(p), f)
          /\ held' = [held EXCEPT ![p] = f]
    /\ Goto(p, "write")
    /\ UNCHANGED <<tic, disk, copy, crashes, raced>>

\* Not found, or not a legal move: the verb reports an error.
Miss(p) ==
    /\ Moves(p) /\ step[p] = "start"
    /\ Found(Task_(p).id) = {} \/ \E f \in Found(Task_(p).id) : ~Legal(Task_(p), f)
    /\ Done(p)
    /\ UNCHANGED <<tic, disk, held, copy, crashes, raced>>

Without(m, s) == {f \in files : ~(f.id = m /\ f.state = s)}
\* Bug: a reminder counted from the tic of the deferral.
ReminderRelative(task, f) == IF task.due # 0 THEN tic + task.due ELSE f.due
Reminder(task, f) == IF task.due # 0 THEN task.due ELSE f.due

WriteFile(p) ==
    /\ Moves(p) /\ step[p] = "write"
    /\ LET task == Task_(p)
       IN  files' = Without(task.id, task.to)
                    \cup {[id |-> task.id, state |-> task.to, due |-> Reminder(task, held[p])]}
    /\ Goto(p, "remove")
    /\ UNCHANGED <<tic, made, index, receipts, held, copy, crashes, raced>>

RemoveFile(p) ==
    /\ Moves(p) /\ step[p] = "remove"
    /\ files' = Without(held[p].id, held[p].state)
    /\ Goto(p, "load")
    /\ UNCHANGED <<tic, made, index, receipts, held, copy, crashes, raced>>

(***************************************************************************)
(* The registry                                                            *)
(***************************************************************************)
LoadRegistry(p) ==
    /\ step[p] = "load" \/ (Doing(p, "reconcile") /\ step[p] = "start")
    /\ copy' = [copy EXCEPT ![p] = index]
    /\ Goto(p, "save")
    /\ UNCHANGED <<tic, disk, held, crashes, raced>>

\* reconcile_registry brings the rows in line with the channels; it never
\* touches the idempotency index, so that all it saves is what it loaded.
\* No verb reads a row: they are not modelled.
WithState(r, m, s) ==
    [k \in Key |-> IF r[k].id = m THEN [r[k] EXCEPT !.state = s] ELSE r[k]]

\* Bug: the row of a superseding envelope keeps the state of the one it closes.
UpdatedKeeping(task, r, m) ==
    CASE task.do = "deliver" ->
            [r EXCEPT ![task.key] = [id |-> m, state |-> IF @.id = 0 THEN "WAIT" ELSE @.state]]
      [] task.do = "transition" -> WithState(r, m, task.to)
      [] OTHER -> r

Updated(task, r, m) ==
    CASE task.do = "deliver" -> [r EXCEPT ![task.key] = [id |-> m, state |-> "WAIT"]]
      [] task.do = "transition" -> WithState(r, m, task.to)
      [] OTHER -> r                       \* _nack_existing updates only the row

SaveRegistry(p) ==
    /\ step[p] = "save"
    /\ index' = Updated(Task_(p), copy[p], held[p].id)
    /\ Forget(p)
    /\ IF Moves(p) /\ Task_(p).to \in Terminal THEN Goto(p, "receipt") ELSE Done(p)
    /\ raced' = (raced \/ index # copy[p])
    /\ UNCHANGED <<tic, made, files, receipts, crashes>>

LogReceipt(p) ==
    /\ step[p] = "receipt"
    /\ receipts' = receipts \cup {<<Task_(p).id, Task_(p).to>>}
    /\ Done(p)
    /\ UNCHANGED <<tic, made, files, index, held, copy, crashes, raced>>

(***************************************************************************)
(* Loops over listed envelopes                                             *)
(***************************************************************************)
ListIds(p) ==
    /\ \/ Doing(p, "close") /\ Replace(p, <<Each("NACK", StaleObligations)>>)
       \/ Doing(p, "resurface") /\ Replace(p, <<Each("WAIT", DueIds)>>)
    /\ UNCHANGED <<tic, disk, held, copy, crashes, raced>>

NextId(p) ==
    /\ Doing(p, "each")
    /\ LET ids == Task_(p).ids
           to == Task_(p).to
       IN  \/ ids = {} /\ Done(p)
           \/ \E m \in ids : Replace(p, <<Transition(m, to, 0), Each(to, ids \ {m})>>)
    /\ UNCHANGED <<tic, disk, held, copy, crashes, raced>>

\* A kill. One in the middle of writing a file leaves it unreadable, which all
\* readers skip.
Crash(p) ==
    /\ p \in Crasher /\ ~Idle(p) /\ crashes < MaxCrash
    /\ crashes' = crashes + 1
    /\ todo' = [todo EXCEPT ![p] = <<>>]
    /\ step' = [step EXCEPT ![p] = "start"]
    /\ Forget(p)
    /\ \/ UNCHANGED files
       \/ Moves(p) /\ step[p] = "write" /\ files' = Without(Task_(p).id, Task_(p).to)
    /\ UNCHANGED <<tic, made, index, receipts, raced>>

Progress(p) ==
    \/ CheckKey(p) \/ DeliverFile(p)
    \/ Find(p) \/ Miss(p) \/ WriteFile(p) \/ RemoveFile(p)
    \/ LoadRegistry(p) \/ SaveRegistry(p) \/ LogReceipt(p)
    \/ ListIds(p) \/ NextId(p)

Next ==
    \E p \in Process :
        \/ \E k \in Key : Route(p, k)
        \/ \E m \in Id, to \in State, due \in 0..MaxTic : Verb(p, m, to, due)
        \/ Sweep(p) \/ Cadence(p)
        \/ Progress(p)
        \/ Crash(p)

Spec == Init /\ [][Next]_vars

\* Nothing a process does waits for another; every session start sweeps.
FairSpec ==
    /\ Spec
    /\ \A p \in Process : WF_vars(Progress(p))
    /\ \A p \in Agent : SF_vars(Sweep(p))

(***************************************************************************)
(* Properties                                                              *)
(***************************************************************************)
\* Every variable holds what the comment at its declaration says.
TypeOK ==
    /\ tic \in 0..MaxTic
    /\ made \in Seq(Key) /\ Len(made) <= MaxId
    /\ files \subseteq File
    /\ index \in Index
    /\ receipts \subseteq (Id \X Terminal)
    /\ todo \in [Process -> Seq(Task)]
    /\ step \in [Process -> {"start", "write", "remove", "load", "save", "receipt"}]
    /\ held \in [Process -> File]
    /\ copy \in [Process -> Index]
    /\ crashes \in 0..MaxCrash /\ raced \in BOOLEAN

Live == {f.id : f \in {g \in files : g.state \notin Terminal}}
Archived == {f.id : f \in {g \in files : g.state \in Terminal}}

\* At most one obligation of /cadence is live, whatever the agents do to the
\* registry meanwhile and wherever /cadence is killed: it closes what it finds
\* in the channels before it routes the next.
ObligationOnce == Cardinality({m \in Live : Obligation(m)}) <= 1

\* A receipt is the last thing written: whoever reads one finds the envelope in
\* the archive, unless it has been superseded a second time.
ReceiptTruthful ==
    \A r \in receipts : Policy[made[r[1]]] # "latest_wins" => r[1] \in Archived

\* Without kills, and as long as no registry update was lost and no two routes of
\* one key overlapped, an idempotency key has one live envelope at most, and the
\* index calls it open: whatever the verbs and the sweeps do meanwhile, the next
\* check_idempotency decides on the envelope that is there.
Entered(m) == index[made[m]].id = m /\ index[made[m]].state \notin Terminal
BeingEntered(m) == \E p \in Process : /\ Doing(p, "deliver") /\ step[p] # "start"
                                     /\ held[p].id = m
IndexTruthful ==
    crashes = 0 /\ ~raced =>
        /\ \A m \in Live : Entered(m) \/ BeingEntered(m)
        /\ \A m, n \in Live : made[m] = made[n] => m = n

\* The status of an envelope, as the verbs resolve it.
View ==
    [m \in Id |->
        CASE Found(m) = {} -> "absent"
          [] \E f \in Found(m) : f.state \in Terminal -> "CLOSED"
          [] OTHER -> (CHOOSE f \in Found(m) : TRUE).state]
Box == INSTANCE Mailbox WITH status <- View, killed <- crashes > 0

\* As long as no two processes hold one envelope, its status follows the state
\* machine, through kills and half-finished moves.
MailboxSpec == Box!Spec

\* A due reminder brings its envelope back.
DueAt(m) == \E f \in files : f.id = m /\ f.due \in 1..tic
DeferredReturns ==
    \A m \in Id : (DueAt(m) /\ View[m] = "DEFER") ~> (View[m] # "DEFER")
=============================================================================
