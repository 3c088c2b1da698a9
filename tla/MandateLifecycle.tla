--------------------------- MODULE MandateLifecycle ---------------------------
(***************************************************************************)
(* The Mogul mandate lifecycle of the CGG runtime.                         *)
(*                                                                         *)
(* One JSON file, audit-logs/mogul/mandates/current.json, holds the live   *)
(* mandate: the cycles Mogul owes.  Four kinds of process read and rewrite *)
(* it without a lock: /cadence (cadence-ops.py write_cadence_mandate), the *)
(* session and /review writers (mandate-write.py main), the runner         *)
(* (mogul-runner.sh) and the prompt gate (cgg-gate.sh Branch A).  Every    *)
(* one of them opens the file with mode "w", which truncates it before the *)
(* new text arrives, so a write is two steps here (Truncate, Fill) and a   *)
(* reader between them sees a file that does not parse.  The history       *)
(* ledger mandates/history/<date>.jsonl is append-only and locked.         *)
(***************************************************************************)
EXTENDS Naturals, FiniteSets

CONSTANTS
    Cycle,        \* names of governance cycles
    Lightweight,  \* those the gate runs inline (queue_refresh, signal_scan)
    Wants,        \* Wants[kind][t]: cycle sets a writer may request at tic t
    Writer,       \* processes that write mandates
    Runner,       \* mogul-runner.sh processes
    Gate,         \* cgg-gate.sh invocations (one per user prompt)
    Crasher,      \* the processes that may be killed
    MaxId,        \* bound: mandates begun
    MaxTic,       \* bound: counted tics
    MaxCrash,     \* bound: kills
    SameSecond    \* may two mandates be built within one second of one tic?

Kind == {"cadence", "session", "review"}
Proc == Writer \cup Runner \cup Gate

ASSUME LightweightAssumption == Lightweight \subseteq Cycle
ASSUME WantsAssumption ==
    Wants \in [Kind -> [0..MaxTic -> SUBSET ((SUBSET Cycle) \ {{}})]]
ASSUME ProcAssumption ==
    /\ Writer \cap Runner = {} /\ Writer \cap Gate = {} /\ Runner \cap Gate = {}
    /\ Crasher \subseteq Proc
ASSUME BoundAssumption == MaxId \in Nat /\ MaxTic \in Nat /\ MaxCrash \in Nat
ASSUME SameSecondAssumption == SameSecond \in BOOLEAN

VARIABLES
    cur,      \* content of current.json
    ledger,   \* the rows of the history ledger
    tic,      \* counted tics emitted so far
    stamp,    \* identifier of the last mandate built
    pc,       \* where each process is
    job,      \* what each process holds in its variables
    crashes,  \* processes killed so far
    ran,      \* history: mandates whose cycles some process has executed
    lost,     \* history: cycles some live mandate owed and a write dropped
    raced     \* history: a write or read met a file it did not expect

vars == <<cur, ledger, tic, stamp, pc, job, crashes, ran, lost, raced>>
history == <<ran, lost, raced>>

-----------------------------------------------------------------------------
(* Records *)

Live == {"pending", "running"}
Terminal == {"consumed", "failed"}

Mandate == [id : Nat, tic : Nat, em : Nat, kind : Kind,
            status : Live \cup Terminal \cup {"absent", "torn"},
            cycles : SUBSET Cycle, mergedFrom : SUBSET Nat]

NoMandate == [id |-> 0, tic |-> 0, em |-> 0, kind |-> "session",
              status |-> "absent", cycles |-> {}, mergedFrom |-> {}]
TornFile == [NoMandate EXCEPT !.status = "torn"]

Readable(m) == m.status \in Live \cup Terminal
IsLive(m) == m.status \in Live

Heavy(m) == m.cycles \ Lightweight

Transition == {"pending_to_merged", "pending_to_running", "running_to_consumed",
               "running_to_consumed_detached", "running_to_failed"}
Row == [t : Transition \cup {"mandate"}, id : Nat, into : Nat, em : Nat,
        tic : Nat, kind : Kind, cycles : SUBSET Cycle]

TransitionRow(t, id, into) ==
    [t |-> t, id |-> id, into |-> into, em |-> 0, tic |-> 0,
     kind |-> "session", cycles |-> {}]
MandateRow(m) ==
    [t |-> "mandate", id |-> m.id, into |-> 0, em |-> m.em, tic |-> m.tic,
     kind |-> m.kind, cycles |-> m.cycles]

Step == {"idle",
         "idempotency", "quiesce", "read", "boundary", "terminalize", "row",
         "check", "details", "start", "startrow", "execute", "writeback", "final",
         "recheck", "inline", "consume",
         "truncate", "fill"}

\* Where a process goes on after it has rewritten current.json.
Resumption == {"terminalize", "startrow", "final", "idle"}

Job == [kind : Kind, tic : Nat, em : Nat, want : SUBSET Cycle,
        seen : Mandate, out : Mandate, absorbed : Mandate,
        id : Nat, cycles : SUBSET Cycle,
        verdict : Terminal, logged : BOOLEAN, detached : BOOLEAN, by : Nat,
        after : Resumption]

NoJob == [kind |-> "session", tic |-> 0, em |-> 0, want |-> {},
          seen |-> NoMandate, out |-> NoMandate, absorbed |-> NoMandate,
          id |-> 0, cycles |-> {}, verdict |-> "failed", logged |-> FALSE,
          detached |-> FALSE, by |-> 0, after |-> "idle"]

TypeOK ==
    /\ cur \in Mandate
    /\ ledger \subseteq Row
    /\ tic \in 0..MaxTic /\ stamp \in Nat /\ crashes \in Nat
    /\ pc \in [Proc -> Step]
    /\ job \in [Proc -> Job]
    /\ ran \subseteq Nat /\ lost \subseteq Cycle /\ raced \in BOOLEAN

Init ==
    /\ cur = NoMandate
    /\ ledger = {}
    /\ tic = 0 /\ stamp = 0 /\ crashes = 0
    /\ pc = [p \in Proc |-> "idle"]
    /\ job = [p \in Proc |-> NoJob]
    /\ ran = {} /\ lost = {} /\ raced = FALSE

-----------------------------------------------------------------------------
(* Process control *)

At(p, step) == pc[p] = step
Goto(p, step) == pc' = [pc EXCEPT ![p] = step]
Exit(p) == /\ pc' = [pc EXCEPT ![p] = "idle"]
           /\ job' = [job EXCEPT ![p] = NoJob]
\* Leave a rewrite: a process whose last step it was forgets its variables.
Resume(p, step) == IF step = "idle" THEN Exit(p)
                   ELSE Goto(p, step) /\ UNCHANGED job

\* A read-modify-write of current.json: m is what was read, out what will be
\* written, after where the process continues.
Rewrite(p, j, m, out, after) ==
    /\ job' = [job EXCEPT ![p] = [j EXCEPT !.seen = m, !.out = out, !.after = after]]
    /\ Goto(p, "truncate")

-----------------------------------------------------------------------------
(* Writing current.json *)

\* Cycles owed by the live mandate old that writing new over it drops.
Dropped(old, new) ==
    IF ~IsLive(old) THEN {}
    ELSE IF new.id # old.id /\ ~IsLive(new) THEN old.cycles
    ELSE old.cycles \ new.cycles

\* The file no longer holds the mandate m that was read, or holds it revived: a
\* second runner of the same mandate can stamp a finished one running again.
Stale(m) == cur.id # m.id \/ (IsLive(cur) /\ ~IsLive(m))

\* open(current.json, "w"): the old text is gone.
Truncate(p) ==
    /\ At(p, "truncate")
    /\ cur' = TornFile
    /\ lost' = lost \cup Dropped(cur, job[p].out)
    /\ raced' = (raced \/ Stale(job[p].seen))
    /\ Goto(p, "fill")
    /\ UNCHANGED <<ledger, tic, stamp, job, crashes, ran>>

\* The new text arrives.  When another process has filled the file since this
\* one truncated it, the shorter text may leave the tail of the longer behind.
Fill(p) ==
    /\ At(p, "fill")
    /\ LET out == job[p].out IN
       \/ /\ cur' = out
          /\ lost' = lost \cup Dropped(cur, out)
       \/ /\ cur.status # "torn"
          /\ cur' = TornFile
          /\ lost' = lost \cup Dropped(cur, NoMandate) \cup Dropped(out, NoMandate)
    /\ raced' = (raced \/ cur.status # "torn")
    /\ Resume(p, job[p].after)
    /\ UNCHANGED <<ledger, tic, stamp, crashes, ran>>

-----------------------------------------------------------------------------
(* Writers: cadence-ops.py, session-restore.sh and /review *)

Begin(w, kind, t, em, want, step) ==
    /\ job' = [job EXCEPT ![w] = [NoJob EXCEPT !.kind = kind, !.tic = t,
                                               !.em = em, !.want = want]]
    /\ Goto(w, step)

\* Bound: every writer that has begun can still build its mandate.
Unbuilt == {w \in Writer : pc[w] \in {"idempotency", "quiesce", "read"}}
Room == stamp + Cardinality(Unbuilt) < MaxId

\* A counted downbeat: emit_tic, then write_cadence_mandate for that boundary.
Cadence(w) ==
    /\ At(w, "idle") /\ Room
    /\ tic < MaxTic
    /\ tic' = tic + 1
    /\ \E want \in Wants["cadence"][tic + 1] :
          Begin(w, "cadence", tic + 1, tic + 1, want, "idempotency")
    /\ UNCHANGED <<cur, ledger, stamp, crashes, history>>

\* --replay-emission-id of the active boundary, once nobody is writing it.
Replay(w) ==
    /\ At(w, "idle") /\ Room
    /\ tic > 0
    /\ \A v \in Writer : job[v].em # tic
    /\ \E want \in Wants["cadence"][tic] :
          Begin(w, "cadence", tic, tic, want, "idempotency")
    /\ UNCHANGED <<cur, ledger, tic, stamp, crashes, history>>

\* SessionStart: nothing to do when current.json already carries this tic.
SessionStart(w) ==
    /\ At(w, "idle") /\ Room
    /\ tic > 0
    /\ cur.tic # tic
    /\ \E want \in Wants["session"][tic] : Begin(w, "session", tic, 0, want, "read")
    /\ UNCHANGED <<cur, ledger, tic, stamp, crashes, history>>

Review(w) ==
    /\ At(w, "idle") /\ Room
    /\ \E want \in Wants["review"][tic] : Begin(w, "review", tic, 0, want, "read")
    /\ UNCHANGED <<cur, ledger, tic, stamp, crashes, history>>

\* Mutant: the replay check is dropped.
IdempotentDropped(w) ==
    /\ At(w, "idempotency")
    /\ Goto(w, "quiesce")
    /\ UNCHANGED <<cur, ledger, tic, stamp, job, crashes, history>>

\* The boundary already has its mandate: skip.
Idempotent(w) ==
    /\ At(w, "idempotency")
    /\ IF Readable(cur) /\ cur.em = job[w].em
       THEN Exit(w)
       ELSE Goto(w, "quiesce") /\ UNCHANGED job
    /\ raced' = (raced \/ cur.status = "torn")
    /\ UNCHANGED <<cur, ledger, tic, stamp, crashes, ran, lost>>

\* wait_for_runner_quiescence: go on when no runner is in flight ...
Quiescent(w) ==
    /\ At(w, "quiesce")
    /\ cur.status # "running"
    /\ Goto(w, "read")
    /\ UNCHANGED <<cur, ledger, tic, stamp, job, crashes, history>>

\* Mutant: wait for as long as it takes.
QuiesceForever(w) == FALSE /\ UNCHANGED vars

\* ... or when the 30 s are over.
QuiesceTimeout(w) ==
    /\ At(w, "quiesce")
    /\ cur.status = "running"
    /\ Goto(w, "read")
    /\ UNCHANGED <<cur, ledger, tic, stamp, job, crashes, history>>

Existing(m) == IF m.status = "torn" THEN NoMandate ELSE m

\* Mutant: a running mandate counts as done (keying on anything but "not
\* explicitly terminal" is what dropped cycles at tic 530).
SupersedeRunning(existing, want) ==
    IF existing.status = "pending"
    THEN [cycles |-> want \cup existing.cycles, mergedFrom |-> {existing.id}]
    ELSE [cycles |-> want, mergedFrom |-> {}]

\* Cycles the new mandate asks for, and the mandates it absorbs.
MergeOrSupersede(existing, want) ==
    IF IsLive(existing)
    THEN [cycles |-> want \cup existing.cycles, mergedFrom |-> {existing.id}]
    ELSE [cycles |-> want, mergedFrom |-> {}]

\* The identifier is the tic and the wall clock in seconds.
NewId == {stamp + 1} \cup (IF SameSecond /\ stamp > 0 THEN {stamp} ELSE {})

BuildMandate(j, id, merge) ==
    [id |-> id, tic |-> j.tic, em |-> j.em, kind |-> j.kind, status |-> "pending",
     cycles |-> merge.cycles, mergedFrom |-> merge.mergedFrom]

\* read_existing_mandate, merge_or_supersede and build_mandate.
ReadExisting(w) ==
    /\ At(w, "read")
    /\ \E id \in NewId :
         LET existing == Existing(cur)
             out == BuildMandate(job[w], id, MergeOrSupersede(existing, job[w].want))
         IN  /\ job' = [job EXCEPT ![w].seen = existing, ![w].out = out]
             /\ stamp' = id
    /\ raced' = (raced \/ cur.status = "torn")
    /\ Goto(w, "boundary")
    /\ UNCHANGED <<cur, ledger, tic, crashes, ran, lost>>

\* write_mandate reads the record it is about to clobber.
ReadBoundary(w) ==
    /\ At(w, "boundary")
    /\ job' = [job EXCEPT ![w].absorbed = Existing(cur), ![w].after = "terminalize"]
    /\ Goto(w, "truncate")
    /\ UNCHANGED <<cur, ledger, tic, stamp, crashes, history>>

\* Mutant: any pending record found on disk is taken for the one merged.
AbsorbsAnyPending(j) == j.absorbed.id # j.out.id /\ j.absorbed.status = "pending"

Absorbs(j) == /\ j.absorbed.id # j.out.id
              /\ j.absorbed.id \in j.out.mergedFrom
              /\ j.absorbed.status = "pending"

\* _terminalize_absorbed_pending; an append that fails is only warned about.
Terminalize(w) ==
    /\ At(w, "terminalize")
    /\ \/ /\ Absorbs(job[w])
          /\ ledger' = ledger \cup
                {TransitionRow("pending_to_merged", job[w].absorbed.id, job[w].out.id)}
       \/ ledger' = ledger
    /\ Goto(w, "row")
    /\ UNCHANGED <<cur, tic, stamp, job, crashes, history>>

AppendMandateRow(w) ==
    /\ At(w, "row")
    /\ ledger' = ledger \cup {MandateRow(job[w].out)}
    /\ Exit(w)
    /\ UNCHANGED <<cur, tic, stamp, crashes, history>>

-----------------------------------------------------------------------------
(* Runner: mogul-runner.sh *)

\* Validate that the mandate is pending.
Check(r) ==
    /\ At(r, "check")
    /\ IF cur.status = "pending" THEN Goto(r, "details") /\ UNCHANGED job
                                 ELSE Exit(r)
    /\ UNCHANGED <<cur, ledger, tic, stamp, crashes, history>>

\* A second read fixes MANDATE_ID and CYCLES for the rest of the run.
Details(r) ==
    /\ At(r, "details")
    /\ IF Readable(cur)
       THEN /\ job' = [job EXCEPT ![r].id = cur.id, ![r].cycles = cur.cycles]
            /\ Goto(r, "start")
       ELSE Exit(r)
    /\ UNCHANGED <<cur, ledger, tic, stamp, crashes, history>>

\* pending -> running: whatever the file holds by now is stamped running.
Start(r) ==
    /\ At(r, "start")
    /\ IF Readable(cur)
       THEN Rewrite(r, job[r], cur, [cur EXCEPT !.status = "running"], "startrow")
       ELSE Exit(r)
    /\ UNCHANGED <<cur, ledger, tic, stamp, crashes, history>>

\* The transition row names the mandate the file holds now.
StartRow(r) ==
    /\ At(r, "startrow")
    /\ IF Readable(cur)
       THEN /\ ledger' = ledger \cup {TransitionRow("pending_to_running", cur.id, 0)}
            /\ Goto(r, "execute") /\ UNCHANGED job
       ELSE Exit(r) /\ UNCHANGED ledger
    /\ UNCHANGED <<cur, tic, stamp, crashes, history>>

\* The backend runs the cycles, the artifacts are verified and the receipt is
\* emitted.  A missing CLI and a receipt that cannot be built log no row.  The
\* prompt quotes the file as it is by now, but asks for the cycles and the id of
\* Details, which is what the artifacts are checked against.
Execute(r) ==
    /\ At(r, "execute")
    /\ \/ /\ job' = [job EXCEPT ![r].verdict = "consumed", ![r].logged = TRUE]
          /\ ran' = ran \cup {job[r].id}
       \/ /\ \E logged \in BOOLEAN :
               job' = [job EXCEPT ![r].verdict = "failed", ![r].logged = logged]
          /\ ran' = ran
    /\ Goto(r, "writeback")
    /\ UNCHANGED <<cur, ledger, tic, stamp, crashes, lost, raced>>

\* Mutant: the write-back before its cross-mandate guard.
WriteBackUnguarded(r) ==
    LET next == IF job[r].logged THEN "final" ELSE "idle" IN
    /\ At(r, "writeback")
    /\ IF Readable(cur)
       THEN Rewrite(r, job[r], cur, [cur EXCEPT !.status = job[r].verdict], next)
       ELSE Exit(r)
    /\ UNCHANGED <<cur, ledger, tic, stamp, crashes, history>>

\* write_current_mandate_status: detach when the file holds another mandate.
WriteBack(r) ==
    LET next == IF job[r].logged THEN "final" ELSE "idle" IN
    /\ At(r, "writeback")
    /\ IF Readable(cur) /\ cur.id = job[r].id
       THEN Rewrite(r, job[r], cur, [cur EXCEPT !.status = job[r].verdict], next)
       ELSE IF next = "idle" THEN Exit(r)
       ELSE /\ job' = [job EXCEPT ![r].detached = TRUE, ![r].by = cur.id]
            /\ Goto(r, next)
    /\ UNCHANGED <<cur, ledger, tic, stamp, crashes, history>>

\* Mutant: a transition named after the verdict alone.
FinalTransitionUnnamed(j) ==
    IF j.detached THEN "detached" ELSE "running_to_failed"

FinalTransition(j) ==
    IF j.verdict = "failed" THEN "running_to_failed"
    ELSE IF j.detached THEN "running_to_consumed_detached"
    ELSE "running_to_consumed"

FinalRow(r) ==
    /\ At(r, "final")
    /\ ledger' = ledger \cup
          {TransitionRow(FinalTransition(job[r]), job[r].id, job[r].by)}
    /\ Exit(r)
    /\ UNCHANGED <<cur, tic, stamp, crashes, history>>

-----------------------------------------------------------------------------
(* Gate: cgg-gate.sh Branch A *)

\* A prompt that finds a pending mandate with heavy cycles spawns a runner.
Spawn(g) ==
    /\ At(g, "idle")
    /\ cur.status = "pending" /\ Heavy(cur) # {}
    /\ \E r \in Runner : At(r, "idle") /\ Goto(r, "check")
    /\ UNCHANGED <<cur, ledger, tic, stamp, job, crashes, history>>

\* With lightweight cycles only, the gate runs them itself.
Take(g) ==
    /\ At(g, "idle")
    /\ cur.status = "pending" /\ Heavy(cur) = {} /\ cur.cycles # {}
    /\ job' = [job EXCEPT ![g].id = cur.id, ![g].cycles = cur.cycles]
    /\ Goto(g, "recheck")
    /\ UNCHANGED <<cur, ledger, tic, stamp, crashes, history>>

Recheck(g) ==
    /\ At(g, "recheck")
    /\ IF cur.status = "pending" THEN Goto(g, "inline") /\ UNCHANGED job
                                 ELSE Exit(g)
    /\ UNCHANGED <<cur, ledger, tic, stamp, crashes, history>>

Inline(g) ==
    /\ At(g, "inline")
    /\ ran' = ran \cup {job[g].id}
    /\ Goto(g, "consume")
    /\ UNCHANGED <<cur, ledger, tic, stamp, job, crashes, lost, raced>>

\* Whatever the file holds now is stamped consumed; the ledger gets no row.
Consume(g) ==
    /\ At(g, "consume")
    /\ IF Readable(cur)
       THEN Rewrite(g, job[g], cur, [cur EXCEPT !.status = "consumed"], "idle")
       ELSE Exit(g)
    /\ UNCHANGED <<cur, ledger, tic, stamp, crashes, history>>

-----------------------------------------------------------------------------

\* The process is killed; one that was writing leaves the truncated file.
Crash(p) ==
    /\ ~At(p, "idle")
    /\ crashes < MaxCrash
    /\ crashes' = crashes + 1
    /\ Exit(p)
    /\ LET torn == At(p, "fill") IN
       /\ raced' = (raced \/ torn)
       /\ lost' = IF torn THEN lost \cup Dropped(job[p].out, NoMandate) ELSE lost
    /\ UNCHANGED <<cur, ledger, tic, stamp, ran>>

WriterProgress(w) ==
    \/ Idempotent(w) \/ Quiescent(w) \/ QuiesceTimeout(w)
    \/ ReadExisting(w) \/ ReadBoundary(w) \/ Truncate(w) \/ Fill(w)
    \/ Terminalize(w) \/ AppendMandateRow(w)

WriterStep(w) ==
    \/ Cadence(w) \/ Replay(w) \/ SessionStart(w) \/ Review(w)
    \/ WriterProgress(w)

RunnerStep(r) ==
    \/ Check(r) \/ Details(r) \/ Start(r) \/ StartRow(r) \/ Execute(r)
    \/ WriteBack(r) \/ FinalRow(r) \/ Truncate(r) \/ Fill(r)

GateStep(g) ==
    \/ Spawn(g) \/ Take(g) \/ Recheck(g) \/ Inline(g) \/ Consume(g)
    \/ Truncate(g) \/ Fill(g)

Next ==
    \/ \E w \in Writer : WriterStep(w)
    \/ \E r \in Runner : RunnerStep(r)
    \/ \E g \in Gate : GateStep(g)
    \/ \E p \in Crasher : Crash(p)

Spec == Init /\ [][Next]_vars

\* A writer that is not killed runs on: nothing it does blocks, the wait for
\* the runner has a deadline.
FairSpec == Spec /\ \A w \in Writer : WF_vars(WriterProgress(w))

-----------------------------------------------------------------------------
(* Properties *)

MandateRows == {row \in ledger : row.t = "mandate"}

\* An owed cycle is dropped from current.json only by a race or a crash inside
\* a write: merge_or_supersede by itself never drops one (mandate-write.py
\* INVARIANT), and neither do the status rewrites of the runner and the gate.
ObligationConserved == lost # {} => raced

\* The ledger closes a pending mandate X as merged into Y only when Y carries
\* all of X's cycles (mandate-write.py _terminalize_absorbed_pending).
MergedLaneCarried ==
    \A merge \in {row \in ledger : row.t = "pending_to_merged"} :
        \A x, y \in MandateRows :
            x.id = merge.id /\ y.id = merge.into => x.cycles \subseteq y.cycles

\* A mandate reads "consumed" only after some process executed it: the
\* write-back guard keeps an un-run successor from being stamped.
ConsumedMeansRan == cur.status = "consumed" => cur.id \in ran

\* A tic boundary gets one mandate, however often its emission is replayed
\* and wherever an earlier attempt was killed, unless a read or a write raced.
BoundaryOnce ==
    ~raced => \A x, y \in MandateRows : x.em > 0 /\ x.em = y.em => x = y

\* Every counted tic gets its cadence mandate, even if the runner it waits for
\* never finishes.
CadenceLands ==
    \A e \in 1..MaxTic : tic >= e ~> \E row \in MandateRows : row.em = e

-----------------------------------------------------------------------------
(* What makes the first two inductive when identifiers are not reused *)

\* What a record or a ledger row says of a mandate for good.
Tag(m) == <<m.id, m.cycles>>
Tags == {Tag(NoMandate), Tag(cur)}
        \cup {Tag(job[p].seen) : p \in Proc} \cup {Tag(job[p].out) : p \in Proc}
        \cup {Tag(job[p].absorbed) : p \in Proc} \cup {Tag(row) : row \in MandateRows}

OneTagPerId == \A x, y \in Tags : x[1] <= stamp /\ (x[1] = y[1] => x[2] = y[2])

\* A process about to write carries what it read.
CoversAt(p) ==
    LET seen == job[p].seen  out == job[p].out IN
    pc[p] \in {"boundary", "truncate"} /\ IsLive(seen) =>
        seen.cycles \subseteq out.cycles /\ (out.id = seen.id \/ IsLive(out))

\* A writer's mergedFrom names the mandate it read and merged.
MergesAt(w) ==
    LET seen == job[w].seen  out == job[w].out IN
    pc[w] \in {"boundary", "truncate", "fill", "terminalize"} =>
        \A id \in out.mergedFrom : id = seen.id /\ seen.cycles \subseteq out.cycles

MergeRows == {row \in ledger : row.t = "pending_to_merged"}
RowsCover ==
    \A merge \in MergeRows :
        /\ merge.id <= stamp /\ merge.into <= stamp
        /\ \A x, y \in Tags :
              x[1] = merge.id /\ y[1] = merge.into => x[2] \subseteq y[2]

Inductive ==
    /\ TypeOK
    /\ OneTagPerId
    /\ RowsCover
    /\ \A p \in Proc : CoversAt(p)
    /\ \A w \in Writer : MergesAt(w)
    /\ ObligationConserved
=============================================================================
