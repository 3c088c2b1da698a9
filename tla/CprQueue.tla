------------------------------- MODULE CprQueue -------------------------------
(* The queue of promotion candidates, audit-logs/cprs/queue.jsonl: rows are    *)
(* appended, the latest row of an id is its state. Of the file the model keeps *)
(* what its readers can tell: the latest row of each id, its latest non-blank  *)
(* text, and how often it was born. Writers that copy a row forward read it    *)
(* long before they append; each file operation is a step of its own.          *)
EXTENDS Naturals, Sequences

CONSTANTS
    Id,        \* candidates
    Session,   \* session starts
    Runner,    \* mandate runners
    Stepper,   \* cpr-stepper agents
    Reviewer,  \* review-execute agents
    Crasher,   \* processes that may be killed
    MaxText, MaxCrash  \* bounds: formulations of a candidate, kills

Process == Session \cup Runner \cup Stepper \cup Reviewer

Holding == {"enrichment_needed", "enrichment_eligible"}
HardTerminal == {"promoted", "skipped"}
Status == {"extracted", "tic_gated", "promotable"} \cup Holding \cup HardTerminal

\* The lock of queue.jsonl when no process holds it.
Free == "free"

ASSUME QueueAssumption ==
    /\ Id # {} /\ Free \notin Process
    /\ MaxText \in Nat \ {0} /\ MaxCrash \in Nat
    /\ Crasher \subseteq Process

VARIABLES
    row,       \* the latest row of each id: status, text (0: blank), enriched
    body,      \* the latest text of each id that is not blank
    births,    \* rows that are births
    block,     \* the candidate block in a governance file
    baseline,  \* ids with a consolidated.json
    flock,     \* flock(1) is installed, so shell appends take the Python lock
    lock,      \* who holds queue.jsonl.lock across steps
    todo,      \* the steps each process still takes
    task,      \* what an agent was asked to land
    seen,      \* the rows it read
    left,      \* the ids it still has to append
    crashes,   \* kills so far
    behind,    \* history: ids appended by others since a process read what it writes
    promoted   \* history: ids that ever had a promoted row

history == <<behind, promoted>>
fixed == <<flock, baseline, lock>>
vars == <<row, body, births, block, fixed, todo, task, seen, left, crashes, history>>

Row == [status : Status \cup {"none"}, text : 0..MaxText, enriched : BOOLEAN]
NoRow == [status |-> "none", text |-> 0, enriched |-> FALSE]
Born(status) == [status |-> status, text |-> 1, enriched |-> FALSE]
Thin == [status |-> "extracted", text |-> 0, enriched |-> FALSE]

\* A verdict names the lane it lands through.
Task == [id : Id, to : Status, text : 0..MaxText, typed : BOOLEAN]
NoTask == CHOOSE t \in Task : TRUE

Is(p, s) == todo[p] # <<>> /\ Head(todo[p]) = s
Idle(p) == todo[p] = <<>>
Go(p, steps) == todo' = [todo EXCEPT ![p] = steps]
On(p) == Go(p, Tail(todo[p]))

\* At these steps a process holds what it read of the queue, or decided on it.
Stale == {"lock", "write", "gather", "append", "read", "put"}
Holds(p) == ~Idle(p) /\ Head(todo[p]) \in Stale

LetGo(p) == /\ seen' = [seen EXCEPT ![p] = [i \in Id |-> NoRow]]
            /\ task' = IF Len(todo[p]) = 1 THEN [task EXCEPT ![p] = NoTask] ELSE task

Append_(i, r) ==
    /\ row' = [row EXCEPT ![i] = r]
    /\ body' = [body EXCEPT ![i] = IF r.text = 0 THEN @ ELSE r.text]

\* Whoever else holds a copy of one of these rows holds an old one from now on.
Overtakes(p, ids) ==
    /\ behind' = [q \in Process |-> IF ~Holds(q)' THEN {}
                                    ELSE IF q = p THEN behind[q] ELSE behind[q] \cup ids]
    /\ promoted' = promoted \cup {i \in ids : row'[i].status = "promoted"}
Looks(p) == behind' = [behind EXCEPT ![p] = {}] /\ UNCHANGED promoted
Status_(i) == row[i].status
Terminal(i) == Status_(i) \in HardTerminal

\* atomic-append.sh: under flock when flock(1) exists, else under a lock
\* directory that no Python writer looks at.
ShellMayAppend == flock => lock = Free

(***************************************************************************)
(* Beginning                                                               *)
(***************************************************************************)
\* Candidates are authored, reported by the runner, or left by an older writer
\* as a bodyless row.
Init ==
    /\ block \in [Id -> {"none", "pending"}]
    /\ row \in [Id -> {NoRow, Thin}]
    /\ body = [i \in Id |-> IF row[i] = NoRow THEN 0 ELSE 1]
    /\ births = [i \in Id |-> IF row[i] = NoRow THEN 0 ELSE 1]
    /\ baseline \in SUBSET {i \in Id : row[i] # NoRow}
    /\ flock \in BOOLEAN /\ lock = Free
    /\ todo = [p \in Process |-> <<>>]
    /\ task = [p \in Process |-> NoTask]
    /\ seen = [p \in Process |-> [i \in Id |-> NoRow]]
    /\ left = [p \in Process |-> {}]
    /\ crashes = 0
    /\ behind = [p \in Process |-> {}] /\ promoted = {}

Begin(p, steps) ==
    /\ Idle(p)
    /\ Go(p, steps) /\ Looks(p)
    /\ UNCHANGED <<row, body, births, block, fixed, seen, crashes>>

\* A session start: extraction, gate advance, then the scanner in background.
Boot(p) ==
    /\ p \in Session
    /\ Begin(p, <<"extract", "birth", "gate", "lock", "write", "holding",
                  "scan", "gather", "append">>)
    /\ UNCHANGED <<task, left>>

\* The runner's enrichment_scan cycle.
Enrich(p) ==
    /\ p \in Runner
    /\ Begin(p, <<"scan", "gather", "append">>)
    /\ UNCHANGED <<task, left>>

\* cogpr-ingest.py mints the candidate of a report unless the id is present.
Ingest(p, i) ==
    /\ p \in Runner
    /\ row[i] = NoRow
    /\ Begin(p, <<"birth">>)
    /\ left' = [left EXCEPT ![p] = {i}]
    /\ UNCHANGED task

\* The hops the stepper owns.
Hops == {<<"extracted", "tic_gated">>, <<"enrichment_needed", "enrichment_eligible">>,
         <<"enrichment_eligible", "promotable">>}
Step(p, i, to) ==
    /\ p \in Stepper
    /\ <<Status_(i), to>> \in Hops
    /\ Begin(p, <<"read", "put">>)
    /\ task' = [task EXCEPT ![p] = [id |-> i, to |-> to, text |-> 0, typed |-> FALSE]]
    /\ UNCHANGED left

\* Bug: the block is flipped before the row is durable.
LandingFlipFirst == <<"read", "flip", "put">>
\* The row first, the author's block after it.
Landing == <<"read", "put", "flip">>

\* A verdict on a candidate of the docket, through queue-lifecycle-writeback.py
\* or as a typed event; only the latter rewords or defers.
Verdict(p, i, to, text, typed) ==
    /\ p \in Reviewer
    /\ Status_(i) # "none" /\ ~Terminal(i)
    /\ to \in IF typed THEN HardTerminal \cup {"enrichment_eligible"} ELSE HardTerminal
    /\ text \in IF typed /\ to = "promoted" THEN {0, body[i] + 1} ELSE {0}
    /\ text <= MaxText
    /\ Begin(p, IF to = "promoted" THEN Landing ELSE <<"read", "put">>)
    /\ task' = [task EXCEPT ![p] = [id |-> i, to |-> to, text |-> text, typed |-> typed]]
    /\ UNCHANGED left

(***************************************************************************)
(* Extraction and ingestion                                                *)
(***************************************************************************)
\* cpr-extract.py: the pending blocks whose hash and id the queue lacks.
Extract(p) ==
    /\ Is(p, "extract")
    /\ left' = [left EXCEPT ![p] = {i \in Id : row[i] = NoRow /\ block[i] = "pending"}]
    /\ On(p)
    /\ UNCHANGED <<row, body, births, block, fixed, task, seen, crashes, history>>

\* dedup_queue_append looks for the id again under the lock.
Absent(i) == row[i] = NoRow
\* Bug: the snapshot is trusted.
AbsentBySnapshot(i) == TRUE
MayBeBorn(i) == Absent(i)

Birth(p) ==
    /\ Is(p, "birth")
    /\ \/ \E i \in left[p], s \in {"extracted", "enrichment_needed"} :
            /\ lock = Free
            /\ IF MayBeBorn(i)
               THEN /\ Append_(i, Born(s))
                    /\ births' = [births EXCEPT ![i] = IF @ < 2 THEN @ + 1 ELSE @]
               ELSE UNCHANGED <<row, body, births>>
            /\ left' = [left EXCEPT ![p] = @ \ {i}]
            /\ UNCHANGED todo
            /\ IF MayBeBorn(i) THEN Overtakes(p, {i}) ELSE UNCHANGED history
       \/ /\ left[p] = {} /\ On(p)
          /\ UNCHANGED <<row, body, births, left, history>>
    /\ UNCHANGED <<block, fixed, task, seen, crashes>>

(***************************************************************************)
(* cpr-gate-advance.py                                                     *)
(***************************************************************************)
\* Bug: the evidence is asked for that only a held row is given.
AdvanceableEnriched == {i \in Id : Status_(i) = "tic_gated" /\ row[i].enriched}
Advanceable == {i \in Id : Status_(i) = "tic_gated" /\ i \in baseline}
GateRead(p) ==
    /\ Is(p, "gate")
    /\ seen' = [seen EXCEPT ![p] = row]
    /\ left' = [left EXCEPT ![p] = Advanceable]
    /\ IF Advanceable = {} THEN Go(p, Tail(Tail(Tail(todo[p])))) ELSE On(p)
    /\ Looks(p)
    /\ UNCHANGED <<row, body, births, block, fixed, task, crashes>>

\* Under the lock, only ids whose status is still the one that was read.
Writable(p) == {i \in left[p] : Status_(i) = seen[p][i].status}
\* Bug: no look under the lock.
WritableStale(p) == left[p]
StillGated(p) == Writable(p)

GateLock(p) ==
    /\ Is(p, "lock") /\ lock = Free
    /\ lock' = p
    /\ left' = [left EXCEPT ![p] = StillGated(p)]
    /\ On(p)
    /\ UNCHANGED <<row, body, births, block, flock, baseline, task, seen, crashes, history>>

GateWrite(p) ==
    /\ Is(p, "write")
    /\ row' = [i \in Id |-> IF i \in left[p]
                            THEN [seen[p][i] EXCEPT !.status = "enrichment_needed"]
                            ELSE row[i]]
    /\ body' = [i \in Id |-> IF row'[i].text = 0 THEN body[i] ELSE row'[i].text]
    /\ left' = [left EXCEPT ![p] = {}]
    /\ lock' = Free
    /\ LetGo(p) /\ On(p) /\ Overtakes(p, left[p])
    /\ UNCHANGED <<births, block, flock, baseline, crashes>>

\* session-restore.sh starts the scanner only when some row is held.
CountHolding(p) ==
    /\ Is(p, "holding")
    /\ IF \E i \in Id : Status_(i) \in Holding THEN On(p) ELSE Go(p, <<>>)
    /\ UNCHANGED <<row, body, births, block, fixed, task, seen, left, crashes, history>>

(***************************************************************************)
(* cpr-enrichment-scanner.py                                               *)
(***************************************************************************)
ScanRead(p) ==
    /\ Is(p, "scan")
    /\ seen' = [seen EXCEPT ![p] = row]
    /\ On(p) /\ Looks(p)
    /\ UNCHANGED <<row, body, births, block, fixed, task, left, crashes>>

\* A baseline for every row it classifies; a new row for a held one whose
\* evidence, or lack of it, is news.
Gather(p) ==
    LET held == {i \in Id : seen[p][i].status \in Holding}
        classified == held \cup {i \in Id : seen[p][i].status = "extracted"}
    IN  /\ Is(p, "gather")
        /\ baseline' = baseline \cup classified
        /\ \E news \in SUBSET held :
              /\ {i \in held : ~seen[p][i].enriched} \subseteq news
              /\ left' = [left EXCEPT ![p] = news]
        /\ On(p)
        /\ UNCHANGED <<row, body, births, block, flock, lock, task, seen, crashes, history>>

\* Rows copied forward from the scan's first read.
ScanAppend(p) ==
    /\ Is(p, "append")
    /\ \/ \E i \in left[p] :
            /\ ShellMayAppend
            /\ Append_(i, [seen[p][i] EXCEPT !.enriched = TRUE])
            /\ left' = [left EXCEPT ![p] = @ \ {i}]
            /\ UNCHANGED <<todo, seen, task>>
            /\ Overtakes(p, {i})
       \/ left[p] = {} /\ LetGo(p) /\ On(p) /\ Looks(p) /\ UNCHANGED <<row, body, left>>
    /\ UNCHANGED <<births, block, fixed, crashes>>

(***************************************************************************)
(* Landing a hop or a verdict                                              *)
(***************************************************************************)
\* A lifecycle row is the row read, its status changed. A typed event is written
\* from scratch around the latest text that is not blank.
Text(t, b) == IF t.text # 0 THEN t.text ELSE b
\* Bug: an event that names no new text carries none.
TextAsGiven(t, b) == t.text
EventText(t, b) == Text(t, b)
\* Bug: a lifecycle row of only the fields that change.
ComposedThin(t) == [status |-> t.to]
Composed(t) ==
    IF t.typed THEN [status |-> t.to, text |-> EventText(t, body[t.id]), enriched |-> FALSE]
    ELSE [row[t.id] EXCEPT !.status = t.to]

\* Bringing a settled id back through the lifecycle writer is refused.
Refused(t) == ~t.typed /\ Terminal(t.id) /\ t.to \notin HardTerminal

Read(p) ==
    LET t == task[p]
    IN  /\ Is(p, "read")
        /\ IF Refused(t)
           THEN Go(p, <<>>) /\ task' = [task EXCEPT ![p] = NoTask] /\ UNCHANGED seen
           ELSE On(p) /\ seen' = [seen EXCEPT ![p][t.id] = Composed(t)] /\ UNCHANGED task
        /\ IF t.typed THEN UNCHANGED history ELSE Looks(p)
        /\ UNCHANGED <<row, body, births, block, fixed, left, crashes>>

Put(p) ==
    /\ Is(p, "put") /\ ShellMayAppend
    /\ Append_(task[p].id, seen[p][task[p].id])
    /\ LetGo(p) /\ On(p) /\ Overtakes(p, {task[p].id})
    /\ UNCHANGED <<births, block, fixed, left, crashes>>

\* review-promote-writeback.py, fired by the append.
Flip(p) ==
    /\ Is(p, "flip")
    /\ block' = [block EXCEPT ![task[p].id] = IF @ = "pending" THEN "settled" ELSE @]
    /\ task' = IF Len(todo[p]) = 1 THEN [task EXCEPT ![p] = NoTask] ELSE task
    /\ On(p)
    /\ UNCHANGED <<row, body, births, fixed, seen, left, crashes, history>>

\* The kernel releases a dead process's flock.
Crash(p) ==
    /\ p \in Crasher /\ ~Idle(p) /\ crashes < MaxCrash
    /\ crashes' = crashes + 1
    /\ lock' = IF lock = p THEN Free ELSE lock
    /\ left' = [left EXCEPT ![p] = {}]
    /\ Go(p, <<>>)
    /\ task' = [task EXCEPT ![p] = NoTask]
    /\ seen' = [seen EXCEPT ![p] = [i \in Id |-> NoRow]]
    /\ Looks(p)
    /\ UNCHANGED <<row, body, births, block, flock, baseline>>

Work(p) ==
    \/ Extract(p) \/ Birth(p) \/ GateRead(p) \/ GateLock(p) \/ GateWrite(p)
    \/ CountHolding(p) \/ ScanRead(p) \/ Gather(p) \/ ScanAppend(p)
    \/ Read(p) \/ Put(p) \/ Flip(p)

Next ==
    \E p \in Process :
        \/ Work(p) \/ Crash(p) \/ Boot(p) \/ Enrich(p)
        \/ \E i \in Id : Ingest(p, i)
        \/ \E i \in Id, to \in Status : Step(p, i, to)
        \/ \E i \in Id, to \in Status, text \in 0..MaxText, typed \in BOOLEAN :
              Verdict(p, i, to, text, typed)

Spec == Init /\ [][Next]_vars

\* What has begun goes on; sessions keep starting.
FairSpec ==
    /\ Spec
    /\ \A p \in Process : SF_vars(Work(p))
    /\ \A p \in Session : SF_vars(Boot(p))

(***************************************************************************)
(* Properties                                                              *)
(***************************************************************************)
\* Type correctness.
TypeOK ==
    /\ row \in [Id -> Row] /\ body \in [Id -> 0..MaxText]
    /\ births \in [Id -> 0..2]
    /\ block \in [Id -> {"none", "pending", "settled"}]
    /\ baseline \subseteq Id
    /\ flock \in BOOLEAN /\ lock \in Process \cup {Free}
    /\ task \in [Process -> Task] /\ seen \in [Process -> [Id -> Row]]
    /\ left \in [Process -> SUBSET Id] /\ crashes \in 0..MaxCrash
    /\ behind \in [Process -> SUBSET Id] /\ promoted \subseteq Id

\* However many sessions extract and however often a report is replayed, a
\* candidate is born once, also when two of them looked before either wrote.
BornOnce == \A i \in Id : births[i] <= 1

\* An author's block is closed only behind a promotion of its candidate: a reviewer
\* killed while landing one leaves a block that still asks, not one that was lost.
BlockAfterRow == \A i \in Id : block[i] = "settled" => i \in promoted

\* The process whose step appends.
Acts(p) == todo'[p] # todo[p] \/ left'[p] # left[p]

\* A verdict, once landed, is undone only by a writer another one overtook between
\* its look at the candidate and its append; and where flock(1) makes the shell take
\* the Python lock, never by the gate, which looks again under that lock.
VerdictHolds ==
    [][\A i \in Id : Terminal(i) /\ ~Terminal(i)' =>
          \E p \in Process : Acts(p) /\ i \in behind[p] /\ ~(flock /\ Is(p, "write"))]_vars

\* The text readers see goes blank or falls back to an older formulation only with a
\* writer that was overtaken, also where an older writer left a bodyless row.
TextKept ==
    [][\A i \in Id : row'[i].text < row[i].text =>
          \E p \in Process : Acts(p) /\ i \in behind[p]]_vars

\* "The scanner consolidates evidence artifacts only -- it does NOT rename queue
\* status" (session-restore.sh:707): its append leaves the statuses of readers alone.
StatusNotRenamed ==
    [][\A p \in Process : Is(p, "append") /\ Acts(p) =>
          \A i \in Id : Status_(i)' = Status_(i)]_vars

\* A gated candidate whose baseline exists is taken on by a later session start.
BaselineOpens ==
    \A i \in Id : (Status_(i) = "tic_gated" /\ i \in baseline) ~> Status_(i) # "tic_gated"
=============================================================================
