---------------------------- MODULE SignalManifold ----------------------------
(* The signal manifold: the daily files (append-only lineage), the active      *)
(* manifest that readers trust, and the archive of what has been resolved.     *)
(* lib/atomic_append.py locks a file while it appends to it; manifest-prune.py *)
(* reads the manifest and replaces it without that lock.                       *)
EXTENDS Naturals, Sequences, FiniteSets

CONSTANTS
    Signal,     \* signal ids
    Ingested,   \* emitted with ingest_manifest=True (biome, visitor economy)
    Docked,     \* emitted by docks-signal-emitter.py: the row follows unlocked
    Audited,    \* ladder-audit.py: deduplicated against the manifest
    Process,    \* processes
    Alone,      \* manifest-prune.py runs while nobody writes, and the
                \* operations on one audited finding follow one another
    MaxOp, MaxCrash  \* bounds: operations, kills

ASSUME SignalAssumption ==
    /\ Signal # {} /\ Ingested \cup Docked \cup Audited \subseteq Signal
    /\ Ingested \cap Docked = {} /\ (Ingested \cup Docked) \cap Audited = {}
    /\ Alone \in BOOLEAN
    /\ MaxOp \in Nat /\ MaxCrash \in Nat

VARIABLES
    lineage,   \* status in the latest daily row of each signal
    today,     \* the signals with a row in today's file
    manifest,  \* the statuses of each signal's manifest rows, in file order
    resolved,  \* the signals with a row in resolved-archive.jsonl
    task,      \* what each process is doing, and to which signal
    stage,     \* its next file operation
    pending,   \* the manifest it is about to write back
    ops, crashes

signalVars == <<lineage, today, manifest, resolved, task, stage, pending, ops, crashes>>
surfaces == <<lineage, today, manifest, resolved>>

Task == {"none", "emit", "audit", "resolve", "reaffirm", "settle", "prune"}
Empty == [s \in Signal |-> <<>>]
Ids(m) == {s \in Signal : m[s] # <<>>}
Latest(m, s) == m[s][Len(m[s])]

\* is_active_ray on the latest row of each id.
ActiveIn(m) == {s \in Ids(m) : Latest(m, s) = "active"}
ClosedIn(m) == Ids(m) \ ActiveIn(m)

NoTask == [do |-> "none", id |-> CHOOSE s \in Signal : TRUE]
Free(p) == task[p] = NoTask
Doing(p, name) == task[p].do = name
Id(p) == task[p].id

(***************************************************************************)
(* flock on <daily>.lock and on <manifest>.lock                            *)
(***************************************************************************)
HoldsDaily(p) == Doing(p, "emit") /\ (stage[p] = "daily" \/ Id(p) \in Ingested)
HoldsManifest(p) == stage[p] = "write" /\ Doing(p, "resolve")
DailyFree(p) == \A q \in Process \ {p} : ~HoldsDaily(q)
ManifestFree(p) == \A q \in Process \ {p} : ~HoldsManifest(q)

SignalInit ==
    /\ lineage = [s \in Signal |-> "none"]
    /\ today = {}
    /\ manifest = Empty
    /\ resolved = {}
    /\ task = [p \in Process |-> NoTask]
    /\ stage = [p \in Process |-> "start"]
    /\ pending = [p \in Process |-> Empty]
    /\ ops = 0
    /\ crashes = 0

Start(p, name, s, first) ==
    /\ Free(p) /\ ops < MaxOp
    /\ Alone => \A q \in Process :
                    ~Doing(q, "prune") /\ (s \in Audited => Free(q) \/ Id(q) # s)
    /\ ops' = ops + 1
    /\ task' = [task EXCEPT ![p] = [do |-> name, id |-> s]]
    /\ stage' = [stage EXCEPT ![p] = first]
    /\ UNCHANGED <<surfaces, pending, crashes>>

Goto(p, next) == stage' = [stage EXCEPT ![p] = next] /\ UNCHANGED task
Leave(p) ==
    /\ task' = [task EXCEPT ![p] = NoTask]
    /\ stage' = [stage EXCEPT ![p] = "start"]

(***************************************************************************)
(* The operations                                                          *)
(***************************************************************************)
\* dedup_signal_append: under the lock of the daily file, unless the id is in
\* today's file or in the manifest.
Known(s) == s \in today \/ s \in Ids(manifest)
Emit(p, s) ==
    /\ s \in Ingested \cup Docked
    /\ DailyFree(p) /\ ~Known(s)
    /\ Start(p, "emit", s, "daily")

\* emit_downaudit_finding and its siblings: unless the id is active in the
\* manifest.
Audit(p, s) ==
    /\ s \in Audited
    /\ s \notin ActiveIn(manifest)
    /\ Start(p, "audit", s, "daily")

\* resolve_downaudit_finding, reaffirm_downaudit_finding: the finding as the
\* daily files have it must be active.
Resolve(p, s) == s \in Audited /\ lineage[s] = "active" /\ Start(p, "resolve", s, "daily")
Reaffirm(p, s) == s \in Audited /\ lineage[s] = "active" /\ Start(p, "reaffirm", s, "daily")

\* An actor's resolution writeback: a resolved row appended to both surfaces.
Settle(p, s) ==
    /\ s \in ActiveIn(manifest) \ Audited
    /\ Start(p, "settle", s, "daily")

StatusOf(name) == IF name \in {"resolve", "settle"} THEN "resolved" ELSE "active"

\* Bug: the line is removed and never archived.
ThenRemove(name) == IF name = "resolve" THEN "read" ELSE "row"
Then(name) == IF name = "resolve" THEN "archive" ELSE "row"
AppendDaily(p) ==
    /\ stage[p] = "daily" /\ DailyFree(p)
    /\ lineage' = [lineage EXCEPT ![Id(p)] = StatusOf(task[p].do)]
    /\ today' = today \cup {Id(p)}
    /\ Goto(p, Then(task[p].do))
    /\ UNCHANGED <<manifest, resolved, pending, ops, crashes>>

Appends(name, s) == name \in {"reaffirm", "settle"} \/ s \notin Ids(manifest)
AppendRow(p) ==
    /\ stage[p] = "row" /\ ManifestFree(p)
    /\ manifest' = IF Appends(task[p].do, Id(p))
                     THEN [manifest EXCEPT ![Id(p)] = Append(@, StatusOf(task[p].do))]
                     ELSE manifest
    /\ Leave(p)
    /\ UNCHANGED <<lineage, today, resolved, pending, ops, crashes>>

\* Remove-on-heal: the archive first, then the manifest line.
AppendArchive(p) ==
    /\ stage[p] = "archive"
    /\ resolved' = resolved \cup {Id(p)}
    /\ Goto(p, "read")
    /\ UNCHANGED <<lineage, today, manifest, pending, ops, crashes>>

ReadManifest(p) ==
    /\ stage[p] = "read" /\ ManifestFree(p)
    /\ pending' = [pending EXCEPT ![p] = [manifest EXCEPT ![Id(p)] = <<>>]]
    /\ IF Id(p) \in Ids(manifest) THEN Goto(p, "write") ELSE Leave(p)
    /\ UNCHANGED <<surfaces, ops, crashes>>

(***************************************************************************)
(* manifest-prune.py                                                       *)
(***************************************************************************)
\* The latest row of every id that is not closed. Bug: no collapse, only resolved rows leave.
KeptRows(m) == [s \in Signal |-> SelectSeq(m[s], LAMBDA status : status = "active")]
\* Bug: what is closed stays.
KeptClosed(m) == [s \in Signal |-> IF s \in Ids(m) THEN <<Latest(m, s)>> ELSE <<>>]
Kept(m) == [s \in Signal |-> IF s \in ActiveIn(m) THEN <<Latest(m, s)>> ELSE <<>>]

PruneManifest(p) ==
    /\ Free(p) /\ Ids(manifest) # {}
    /\ Alone => \A q \in Process : Free(q)
    /\ task' = [task EXCEPT ![p].do = "prune"]
    /\ pending' = [pending EXCEPT ![p] = Kept(manifest)]
    /\ resolved' = resolved \cup ClosedIn(manifest)
    /\ stage' = [stage EXCEPT ![p] = "write"]
    /\ UNCHANGED <<lineage, today, manifest, ops, crashes>>

WriteManifest(p) ==
    /\ stage[p] = "write"
    /\ manifest' = pending[p]
    /\ pending' = [pending EXCEPT ![p] = Empty]
    /\ Leave(p)
    /\ UNCHANGED <<lineage, today, resolved, ops, crashes>>

NextDay ==
    /\ today' = {}
    /\ UNCHANGED <<lineage, manifest, resolved, task, stage, pending, ops, crashes>>

\* A kill releases the locks.
Crash(p) ==
    /\ ~Free(p) /\ crashes < MaxCrash
    /\ crashes' = crashes + 1
    /\ pending' = [pending EXCEPT ![p] = Empty]
    /\ Leave(p)
    /\ UNCHANGED <<surfaces, ops>>

Work(p) ==
    AppendDaily(p) \/ AppendRow(p) \/ AppendArchive(p) \/ ReadManifest(p) \/ WriteManifest(p)

SignalNext ==
    \/ NextDay
    \/ \E p \in Process :
          \/ \E s \in Signal : Emit(p, s) \/ Audit(p, s) \/ Resolve(p, s) \/ Reaffirm(p, s)
                               \/ Settle(p, s)
          \/ PruneManifest(p) \/ Work(p) \/ Crash(p)

SignalSpec == SignalInit /\ [][SignalNext]_signalVars

\* A process goes on with what it began; mogul-runner.sh prunes before every
\* mandate.
SignalFairSpec ==
    /\ SignalSpec
    /\ \A p \in Process : WF_signalVars(Work(p)) /\ SF_signalVars(PruneManifest(p))

(***************************************************************************)
(* Properties                                                              *)
(***************************************************************************)
\* Every variable holds what the comment at its declaration says.
SignalTypeOK ==
    /\ lineage \in [Signal -> {"none", "active", "resolved"}]
    /\ today \subseteq Signal
    /\ manifest \in [Signal -> Seq({"active", "resolved"})]
    /\ resolved \subseteq Signal
    /\ task \in [Process -> [do : Task, id : Signal]]
    /\ stage \in [Process -> {"start", "daily", "row", "archive", "read", "write"}]
    /\ pending \in [Process -> [Signal -> Seq({"active", "resolved"})]]
    /\ ops \in 0..MaxOp /\ crashes \in 0..MaxCrash

\* "Dual-surface": without kills, the signals that are active in the manifest
\* are, between operations, those whose latest daily row is active.
DualSurface ==
    crashes = 0 /\ (\A p \in Process : Free(p) \/ Doing(p, "prune")) =>
        ActiveIn(manifest) = {s \in Signal : lineage[s] = "active"}

\* No signal goes dark: what leaves the manifest has a row in the archive.
NothingDark == [][\A s \in Ids(manifest) \ Ids(manifest') : s \in resolved]_signalVars

\* Again and again no closed row is left in the manifest: what was closed on both
\* surfaces, or only there, is swept by a prune (manifest-prune.py main).
Swept == []<>(ClosedIn(manifest) = {})
=============================================================================
