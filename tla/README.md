# A verification of the CGG runtime

Context Grapple Gun keeps the state of a governed project in plain files under
`audit-logs/` and `~/.claude/`: JSON snapshots, append-only JSONL ledgers and a
few sidecars. Hooks, skills and scripts are short-lived processes that read and
rewrite those files, several of them at once, usually without a lock. There is no
server and no database, so every guarantee of the runtime is a property of the
order in which independent processes touch a handful of files. That is what is
modelled here.

Eleven modules model the core, from the emission of a tic to the execution of the work
it owes, and the ledgers, mailboxes and gates around it:

| module | models | source (`cgg-runtime/`) |
| --- | --- | --- |
| `TicEmission` | the counted emission, its guard, marker and snapshot | `scripts/cadence-ops.py` |
| `HandoffSeal` (extends `TicEmission`) | the handoff seal and the pause gate | `hooks/cadence-handoff-seal.py`, `cgg-gate.sh` |
| `MandateLifecycle` | the live mandate, its writers, runner and gate | `cadence-ops.py`, `mandate-write.py`, `session-restore.sh`, `mogul-runner.sh`, `cgg-gate.sh` |
| `Mailbox` | what a mailbox promises: one status per envelope (abstract) | `scripts/inbox-envelope.py` |
| `InboxEnvelope` (implements `Mailbox`) | envelope files, registry, receipts, obligations | `inbox-envelope.py`, `trigger-router.py`, `cadence-ops.py` |
| `CprQueue` | the queue of promotion candidates and its five kinds of writer | `cpr-extract.py`, `cogpr-ingest.py`, `cpr-gate-advance.py`, `cpr-enrichment-scanner.py`, `queue-lifecycle-writeback.py`, `queue_event_writer.py`, `review-promote-writeback.py`, `lib/atomic-append.sh` |
| `SignalManifold` | daily files, active manifest and archive of signals | `lib/atomic_append.py`, `manifest-prune.py`, `ladder-audit.py`, `docks-signal-emitter.py`, `biome-engine.py` |
| `SignalRay` | one manifest row as it is projected tic after tic | `manifest-prune.py`, `lib/signal_active.py` |
| `BootGate` | citizen boot, boot receipts and the boot-read gate | `boot-receipt.py`, `hooks/subagent-citizen-boot.py`, `hooks/boot-read-gate.py` |
| `RuntimeSync` | installed copies, the post-commit hook, drift signals | `runtime-sync.py`, `hooks/post-commit-sync.sh` |
| `PenPalCache` | cache entries: refresh, quarantine, archive, cascade | `cache-ops.py`, `contamination-handler.py` |

`MCMandate`, `MCBoundary`, `MCInbox`, `MCQueue` and `MCCivic` instantiate them for TLC;
`TicEmissionProofs`, `HandoffSealProofs`, `MandateLifecycleProofs`, `InboxEnvelopeProofs`,
`CprQueueProofs`, `SignalManifoldProofs`, `BootGateProofs` and `CivicProofs` hold the TLAPS
proofs, one module per component (the last one holds ray, sync, cache, and the five
components of `MCCivic` together). Paths below are relative to the source repository.

Contents: [inventory](#inventory), [plan](#plan),
[tic emission](#tic-emission), [handoff seal](#handoff-seal),
[mandate lifecycle](#mandate-lifecycle), [mailbox](#mailbox), [queue](#queue),
[signals](#signals), [boot gate](#boot-gate), [runtime sync](#runtime-sync),
[cache](#cache), [runs](#runs), [proofs](#proofs),
[disagreements](#where-code-and-text-disagree), [what is not modelled](#what-is-not-modelled).

## Inventory

Components with control logic of their own. `PROJECT.json` lists the remaining
ones (reports, scoring engines, one-shot text hooks, teaching material) with the
reason they are left out, and every hazard at its line.

**Tic boundary** (`cadence-ops.py --fire`). State: the tic log
`audit-logs/tics/<date>.jsonl`, the mirror `~/.claude/cgg-tic-counter.json`, the
guard sidecar `.emission-guard.json`, the marker `.interstitial-marker.json`, one
snapshot `conformations/tic-<t>.json` per tic. Operations: emit, refuse, replay,
snapshot. Hard: two invocations at once; killed between any two of five files;
replay after that; a session that emits again to see its output. Correct when tics
are numbered without gap or repetition, a phantom second emission is refused, the
sidecars name the last boundary, each snapshot belongs to its tic.

**Handoff seal** (`cadence-handoff-seal.py`). State: staged seal, current seal, seal
journal, pause-next override, active pause, and the marker it shares with the
emitter. Operations: stage (before ExitPlanMode), promote (after), reconcile or
recover (every SessionStart), pause and continue. Hard: nothing is locked; the
reconciler decides on files it read at its start and writes them back at its end; a
hook may be killed after any write. Correct when a boundary is activated only by
consuming its own seal, a seal is consumed once, a pause holds for its boundary only.

**Mandate lifecycle**. State: `audit-logs/mogul/mandates/current.json` (one live
mandate) and the ledger `mandates/history/<date>.jsonl`. Four kinds of process
rewrite the file: `/cadence`, the SessionStart and `/review` writers, the runner,
the prompt gate. Hard: read-modify-write without a lock, truncating writes, a
30-second wait with a deadline, identifiers from the wall clock, kills. Correct when
a cycle owed by a live mandate is never dropped, the ledger closes a mandate as
merged only into one that carries its cycles, "consumed" means executed, and every
boundary gets exactly one mandate.

**Inbox envelopes** (`inbox-envelope.py`) and **trigger router**
(`trigger-router.py`). State: one file per envelope in the directory of its status, the
registry with its idempotency index, the receipts. A move is find, write, remove, load
registry, save registry, receipt, with no lock anywhere. Hard: a kill between any two;
two holders of one envelope; a lost update of the registry; duplicates after a retry.
Correct when an envelope has one status that follows the state machine, the obligation
of `/cadence` is live at most once, a deferred envelope comes back.

**Signal manifold** (`lib/atomic_append.py`, `manifest-prune.py`, `lib/signal_active.py`
and the emitters). State: daily files, which are lineage; the active manifest, which
readers trust; the archive. Hard: every change is made on two surfaces in two steps;
emitters deduplicate by different rules; the prune replaces a file others append to;
the quiet clock of a ray is read from a row each projection rewrites. Correct when both
surfaces agree, nothing goes dark, what is closed is swept, silence ends.

**CPR queue** (`cpr-extract.py`, `cogpr-ingest.py`, `cpr-gate-advance.py`,
`cpr-enrichment-scanner.py`, `queue-lifecycle-writeback.py`, `queue_event_writer.py`,
`review-promote-writeback.py`). State: `queue.jsonl`, of which the latest row of an id
is its state; the author's block; baseline artifacts; a flock and, on the shell side
without `flock(1)`, a lock directory. Hard: writers copy a row forward that they read
long before; two lock disciplines; bodyless rows of older writers. Correct when a
candidate is born once, a verdict or a text goes back only with a writer that another
one overtook, a block is closed only behind a promotion, a gated candidate with a
baseline is opened.

**Boot receipts and boot-read gate** (`boot-receipt.py`, `subagent-citizen-boot.py`,
`boot-read-gate.py`). State: the sink of receipts, the actor map, the seen-store, and
two clocks (the counted tic, the tic of the mandate). Hard: a wave of spawns of one
office rewrites map and store without a lock; receipts are deduplicated by a
fingerprint; the gate and the boot read different clocks. Correct when nobody passes on
another's receipt and everybody who reads and attests is admitted.

**Runtime sync** (`runtime-sync.py`, `post-commit-sync.sh`) and **installer**
(`lib/*.mjs`). State: the source tree, its branches, the installed copies, the active
drift signals. Hard: hooks, commands and checks overlap and are killed between two
files; HEAD moves between two reads. Correct when an undisturbed hook installs what was
committed, and what still differs has a drift signal and what agrees has none.

**Pen-pal cache and contamination handler** (`cache-ops.py`,
`contamination-handler.py`). State: entry files, archive, retrieval and quarantine
logs. Hard: every operation writes back a whole entry it loaded earlier; the refresh
holds the copies of all entries through four phases. Correct when a quarantine is not
lifted by who saw it, and a cascade makes out a notice for everyone who read the entry
before.

**Due schedule** (`compute_due_cycles`, `compute_due_markers` and the map of
`session-restore.sh`): pure functions of the tic, written twice.

**Temporal adapter** (`crates/cgg-temporal-adapter`): a request protocol in Rust.

How they interact: `/cadence` emits a tic (tic boundary), then writes the snapshot,
then the mandate of that boundary (mandate lifecycle), then routes triggers (inbox).
The plan that closes the boundary is sealed by the ExitPlanMode hooks and consumed by
the next SessionStart, which flips the marker the emitter wrote. A prompt then goes
through the gate: pause first, then Branch A, which runs or dispatches the pending
mandate. The emission identifier is what ties log row, guard, marker, seal, snapshot
and mandate together; there is no other coupling between the files.

## Plan

Done, in this order: `MandateLifecycle` (the obligations are what the runtime is for
and have the most writers), `TicEmission`, `HandoffSeal` and the proofs of each; then
`Mailbox` with `InboxEnvelope`, `CprQueue`, `SignalManifold`, `SignalRay`, `BootGate`,
`RuntimeSync`, `PenPalCache`.

The safety properties of all of them are proved (see [proofs](#proofs)).

Next: the session hook's inline mandate writer, directory envelopes, the
installer's partial copies and their repair, the two due schedules as functions compared
over bounded tics, the trust-progression cycle, the temporal adapter's protocol.

## Tic emission

`TicEmission.tla`. Processes in `Cadence` run `cadence-ops.py --fire` with an
argument record from `Invocation` (session, counted or not, armed with
`--allow-second-emission`, downbeat or syncopate, with snapshot or not, a replay id).
Emission identifiers (random in the code) are positions in the log.

| variable | file |
| --- | --- |
| `log` | rows of `tics/*.jsonl`; each remembers the session and the arming of its process |
| `mirror` | `cgg-tic-counter.json` |
| `guard` | `.emission-guard.json`; `fresh` stands for "less than 120 s ago" |
| `marker` | `.interstitial-marker.json` |
| `conf` | pairs tic, emission: which snapshot a conformation file is |
| `lock` | holder of the flock on `.emission.lock` |
| `at`, `call` | program counter and local variables of each process |
| `kills`, `guarded` | history: kills so far; emissions that reached the guard |

`Fire` parses arguments; `Lock` takes the flock; `Replay`, `Refuse` and `Count` are
the three outcomes of `_emit_tic_locked` before its first write; `Append_`,
`Mirror`, `RecordGuard`, `DeclareInterstitial` its four writes, one step each, since
a kill may fall between them; `Conformation` is `write_conformation`, outside the
lock. `WindowPasses` lets the 120 s end at any time (also early: the wall clock may
be set). `Kill` may strike at every step; the kernel releases the flock, and a
truncating snapshot write may leave an unreadable file.

## Handoff seal

`HandoffSeal.tla` extends `TicEmission`: both write the marker, so they are one
state machine. Processes in `Hook` are invocations of `cadence-handoff-seal.py`.

| action | code |
| --- | --- |
| `Pre`, `UnlinkPause`, `Stage` | `handle_pre`: read marker and override, remove the override, write the staged seal |
| `Post`, `Promote`, `Unstage` | `handle_post`: read the staged seal, make it current, remove it |
| `Reconcile` | a primary SessionStart takes the current seal if it is unconsumed and of the live boundary |
| `Recover` | ... or the staged one, when the approval left evidence but PostToolUse never ran |
| `Consume`, `Journal`, `UnlinkStaged`, `ArmPause`, `Flip` | its writes, in code order |
| `ArmPauseNext`, `Continue` | the Architect: `/cadence pause-next`; a prompt starting with "continue" (`cgg-gate.sh`) |
| `KillHook` | a hook is killed between two writes |

`held` is what the hook has read and will write back. `Flip` writes the *old* marker
with state `active`; that it may be stale by then is in the model (`stale`). The
content of plans, hashes and the pointer mode are abstracted to a choice: recovery may
be refused in any state. A subagent or headless SessionStart changes nothing that is
modelled, so it is no action.

`uses`, `overlap`, `stale`, `asked` are history variables: consumptions of each seal,
whether two hooks ever ran at once, whether an old marker was written back, which
seals took the override at which boundary.

## Mandate lifecycle

`MandateLifecycle.tla`. `cur` is the content of `current.json`, with the values
*absent* and *torn* (truncated, or two overlapping writes). Every rewrite is two
steps, `Truncate` and `Fill`, as `open(path, "w")` makes it, and a reader in between
sees *torn*, which the code treats as absent. `ledger` is the set of history rows.

| action | code |
| --- | --- |
| `Cadence`, `Replay` | `cadence-ops.py` after `emit_tic`, for a new boundary or a replayed one |
| `SessionStart`, `Review` | `mandate-write.py main` for the other two kinds |
| `Idempotent` | the boundary already has its mandate |
| `Quiescent`, `QuiesceTimeout` | `wait_for_runner_quiescence`: no runner in flight, or 30 s over |
| `ReadExisting` | read, `merge_or_supersede`, `build_mandate` |
| `ReadBoundary` | the second read of `write_mandate` |
| `Terminalize`, `AppendMandateRow` | the ledger rows after the write |
| `Check`, `Details`, `Start`, `StartRow` | runner: three separate reads, then `pending_to_running` |
| `Execute`, `WriteBack`, `FinalRow` | runner: run, write the verdict back if the file still holds its mandate, log |
| `Spawn` | gate: heavy cycles, start a runner |
| `Take`, `Recheck`, `Inline`, `Consume` | gate: lightweight cycles only, run them, stamp *consumed* |
| `Crash` | a kill; inside a write it leaves the torn file |

A step that reads the file twice in the code reads it in two actions. `ran`, `lost`
and `raced` are history: executed mandates, cycles dropped from a live mandate, and
whether any write met a file other than the one it was computed from.

`Wants` gives the cycles each kind of writer asks for. TLC uses one lightweight and
two heavy cycles, which tell apart everything the code distinguishes: the gate's
branch, the union of a merge, and who asked.

## Mailbox

`Mailbox.tla` is the abstract specification: a status per envelope and the moves of the
state machine. `InboxEnvelope.tla` is the code: `files` is what lies in the channels,
`index` the idempotency index of the registry, `receipts` the receipt log. A process
works through `todo`, a list of tasks; each task is the sequence of file operations the
code makes.

| action | code |
| --- | --- |
| `Route`, `Verb`, `Sweep`, `Cadence` | a process begins: `route_trigger`, `cmd_claim` and its like, `cmd_sweep`, `write_cadence_mandate` after the mandate |
| `CheckKey`, `DeliverFile` | `write_envelope`: the policy of the key, then the WAIT file |
| `Find`, `Miss` | `_transition`, `_nack_existing`: look for the file, check the state machine |
| `WriteFile`, `RemoveFile`, `LoadRegistry`, `SaveRegistry`, `LogReceipt` | the writes of a move, one step each |
| `ListIds`, `NextId` | the loops that close old obligations and resurface reminders |
| `Crash` | a kill; in the middle of a write it leaves an unreadable file, which all readers skip |

The refinement maps an envelope's status to what `find_envelope_file` would report
(`View`): the first channel that holds the file. `Purge` and `Return` in the abstract
module are the two moves nobody wants and the code makes: an envelope superseded a second
time is deleted, and what a killed move left behind shows again once it is. They come
into `Mailbox` from the code; every other move is the state machine's. `Kill` may itself
delete or reveal: the process that is killed may have removed the file that hid what an
earlier kill left behind, or the last one. Two agents and two kills are needed for it, more
than the run has; the attempt to prove the refinement found the case.

`Exclusive` says that no two processes hold the same envelope between find and receipt.
The code does not enforce it. Without it TLC breaks the refinement in a few steps: two
agents claim one envelope, one completes it, the other moves it again.

## Queue

`CprQueue.tla` keeps of `queue.jsonl` the latest row of each id, its latest text that is
not blank and the number of its births. `todo` is what a process still does: a session
start extracts, bears, advances the gate and starts the scanner; the runner ingests
reports and scans; the stepper makes its hops; a reviewer lands verdicts through
`queue-lifecycle-writeback.py` or as typed events.

| action | code |
| --- | --- |
| `Extract`, `Birth` | `extract_cprs` and `cogpr-ingest.py`; `dedup_queue_append` looks again under the lock |
| `GateRead`, `GateLock`, `GateWrite` | `cpr-gate-advance.py`, with its compare-and-swap |
| `ScanRead`, `Gather`, `ScanAppend` | the scanner: read, evidence and baselines, append without comparing |
| `Read`, `Put`, `Flip` | compose from the latest row, append, flip the author's block |

Any of these may overlap any other. `flock`, chosen at the start, says whether `flock(1)`
is installed; without it the shell's lock directory excludes no Python writer, and the
scanner's own comment (`cpr-enrichment-scanner.py:1074-1080`) says that the primary machine
lacks it; both settings are explored. `behind` is history: for each process that holds a
copy of a row, or decided on one, the candidates somebody else has appended to since.
`VerdictHolds` and `TextKept` name such a process for every verdict undone and every text
gone back, and where `flock(1)` is there `VerdictHolds` clears the gate, which looks again
under the lock. `promoted` is history too: candidates that ever had a *promoted* row.

## Signals

`SignalManifold.tla`: `lineage` is the latest daily row of each signal, `today` the ids
in today's file, `manifest` the statuses of each signal's rows in file order, `resolved`
the archive. `Emit` (biome, visitor economy, docks), `Audit`, `Resolve`, `Reaffirm`
(ladder audit) and `Settle` (an actor's writeback, known from how
`manifest-prune.py:362-369` speaks of it) begin an operation; `AppendDaily`,
`AppendRow`, `AppendArchive`, `ReadManifest`, `WriteManifest` are its file operations;
`PruneManifest` reads, archives and later replaces. `Alone` says that the prune runs while
nobody writes and that the operations on one audited finding follow one another.

`SignalRay.tla` is `project_signal` for one row. Ages are counted from now and stop where
the code stops telling them apart (decay ends after ten tics), so time is unbounded and
the state space finite. Volumes are kept in twentieths, which is exact for the decay.

## Boot gate

`BootGate.tla`: several citizens of one office beside the lead. `Fire`, `Record`, `Brief`
are `subagent-citizen-boot.py` (read the map, replace it, brief or suppress); a
replacement that overlaps another's may be lost or leave an empty store, since both go
through one temporary name. `Attest*` and `Override` append to the sink under its lock,
`Govern` is one call of the gate, `CountTic`, `Mandate`, `LeadBoots` move the two clocks.
`governed` records whose receipt let the last call through.

## Runtime sync

`RuntimeSync.tla`: branches, worktree, reflog, installed files, runs and drift signals.
`HookStart`, `HookHead`, `SyncStart`, `CheckStart`, `Compare`, `Install` (one file),
`ReadBack` (its hash), `Finish`, `Kill` are the code; `Edit`, `Commit`, `Merge`, `Checkout`
are git, modelled as the hook sees it. A merge is a commit of its own or a fast-forward; the
latter is judged by its tip commit alone (`post-commit-sync.sh:283-298`), so the hook may
find that the runtime was not touched and do nothing. A hook run is `undisturbed` while
nobody commits, checks out or installs. `drift` holds the active *detected_drift* signals,
`escalated` the *unresolved_drift* ones, which nothing here closes.
`Deletes = FALSE` keeps files of the source from being deleted.

## Cache

`PenPalCache.tla`: entries and archive, both logs, and the work each process has in hand
(`snap` is what a refresh loaded at its start, `copy` the entry an operation writes back).
Trust is an integer; the property depends on its side of the floor only, and each score
draws its decay from a small set. Retrieval rows are a set: each is logged once. The end of
a cascade is four steps, as in the code: the entry is written back, `TraceEntry` reads its
own log, `TraceLog` the retrieval log, `Notify` makes out and logs the notices for those
found. `owed` is history: who had a row in the retrieval log when the entry was first in
quarantine.

## Runs

`CHECK_DEADLOCK FALSE` everywhere: a behaviour ends when the bounded identifiers,
emissions or operations are used up and every process is idle.

| run | shows | distinct states |
| --- | --- | --- |
| `mandate_writers` | two writers of all kinds, a runner, a gate: a cycle is dropped only in a race; merge rows tell the truth | 254,577 |
| `mandate_crash` | kills at any step and replays: one mandate per boundary | 3.2 million |
| `mandate_runners` | two runners of one mandate: the guarded write-back never marks an un-run successor *consumed* | 3.9 million |
| `mandate_liveness` | every counted tic gets its mandate though its runner may die | 27,676 |
| `boundary_emission` | two emitters with all arguments, two kills | 276,348 |
| `boundary_seal` | one emitter, two boundaries, two hooks, two seals, one kill, one pause | 6.3 million |
| `inbox` | an agent and `/cadence`, two envelopes, two tics, one kill: refinement of `Mailbox`, one obligation, an index that knows what is live, reminders return | 312,182 |
| `queue` | one candidate, a session or stepper against a runner, stepper or reviewer that may be killed, with flock(1) and without | 853,064 |
| `ledgers` | signals, a ray, the installed runtime: surfaces agree, silence ends, hooks deliver, drift settles | 278,095 |
| `sessions` | boot gate and cache: no sibling's proof, everybody is admitted, quarantines and notices | 308,860 |

Two more runs are expected to fail; see [below](#where-code-and-text-disagree).

`MCCivic` checks five components that share no state in two runs. A behaviour picks one
of them (`part`) and follows it while the others keep their initial state, so the states
are the sum of the components' states, every step and every interleaving *within* a
component is explored, and the properties of the others hold of their initial states. The
initial choices of the ray and of the installed files are fixed where they are not the
part followed, which only removes copies.

*Bounds.* `MaxId` bounds mandates or envelopes built, `MaxTic` tics, `MaxCrash` and
`MaxKill` kills, `MaxEmission` log rows, `MaxSeal` seals staged, `MaxPause` uses of
pause-next, `MaxText` formulations of a candidate, `MaxOp` signal operations, `MaxFire`,
`MaxOverride` and their sum `MaxEvent` what happens at the boot gate, `MaxUsed` edits,
checkouts, runs and kills of a sync, `MaxSpent` cache operations and kills, `MapCap` the
actor map. They stand in guards of the actions that begin something and nowhere else, so
what has begun runs to its end. Two of everything lets each pair of processes interleave
at every step; a second mandate, seal or envelope makes the first one stale; a third
emission (`boundary_emission`) gives the sequence emit, ignore, emit again; a third mandate
in `mandate_crash` is the one a replay would add. One queue candidate is enough, since
rows of different ids never meet in one condition, and two processes that take all the
roles between them (one is session or stepper, the other runner, stepper or reviewer in turn) let every kind of
copy be overtaken by every kind of append but two: a scan of the runner's by a verdict, and
one verdict by another, which the theorems cover; five signal operations are an emission,
its resolution, its recurrence and two of another signal around them; two citizens and one
map slot make every second record evict the first. Writers and runners, emitters and hooks
are interchangeable, which the symmetry sets state; no run with a temporal property under
fairness uses symmetry.

*What the conditions mean.* Several properties excuse a race. They are not excused
more than the code excuses itself: `ObligationConserved` says that merging,
superseding, status rewrites and waiting are right by themselves and that overlap on
the unlocked file is the only way to lose a cycle (TLC readily finds such a loss);
`BoundaryAgreed` excuses kills and a stale write-back of the marker; `ConsumedOnce`
overlapping or killed hooks. `DualSurface` excuses kills, `IndexTruthful` kills, lost
updates of the registry and two routes of one key at once, `HookDelivers` a run something
overlapped, `QuarantineSeen` an operation whose copy predates the quarantine,
`VerdictHolds` and `TextKept` a writer that was overtaken; `AllNoticed` asks for the
retrievals logged before the quarantine only. Each excuse is needed: without it TLC refutes
the property. The constants `Exclusive`, `Alone` and `Deletes` state what the code leaves to
luck or to its operators, one condition each; with any of them relaxed TLC refutes the
property that needs it. `CountersConsecutive`, `PhantomRefused`,
`ActivatedBySeal`, `PausedByChoice`, `MergedLaneCarried`, `ObligationOnce`, `BornOnce`,
`BlockAfterRow`, `NothingDark`, `NoSiblingProof` and `ColdMeansBriefed` excuse nothing of
their own; `NothingDark` and `MailboxSpec` need `Alone` and `Exclusive`.

*Fairness.* In every module only of what has begun or recurs by itself.

- `MandateLifecycle`: weak fairness of `WriterProgress`. Nothing a writer does blocks: the
  wait for the runner ends after 30 s, the ledger append takes a lock held for one row.
  Runner and gate get none: they may be killed or never started, and `CadenceLands` holds.
- `InboxEnvelope`: weak fairness of each process's steps, which wait for nothing, and
  strong fairness of `Sweep`: every session start sweeps, though an agent may be busy at
  any given moment. Kills are not fair, and bounded.
- `CprQueue`: strong fairness of each process's steps (they wait for locks that come and
  go) and of `Boot`: sessions keep starting.
- `ledgers`: signal operations go on; the prune, which `mogul-runner.sh` runs before every
  mandate, recurs; tics recur and each is projected; a sync run that is not killed goes on
  and checks recur, as every review ends with one.
- `sessions`: mandates follow tics, the lead boots, a spawn's hook runs to its end; an
  actor that was told to read or refused attests, and tries its governed call again and
  again. Attesting is the actor's part of the bargain; `Admitted` says what the code owes
  in return.

## Proofs

Every invariant and every action property of the passing runs is the conclusion of a
theorem, and so is the refinement of `Mailbox`. TLAPS checks them for every set of
processes, sessions, cycles, keys, candidates, signals, files and readers and every value
of the bounds. Assumptions on constants are the named `ASSUME`s of the modules: process
sets are disjoint, argument records have their type, "free" is no process, no tic's
obligation has the key of another's; `InboxEnvelope` and `PenPalCache` take finitely many
processes and readers, because they count or list them. Each strengthening below was
model-checked on the instances of the runs before it was proved.

A theorem that holds only in a setting says so in its `ASSUME`: `SameSecond = FALSE`,
`AlwaysHeavy` and `OneCadence` (mandates), `Exclusive` and one `/cadence` (mailbox),
`Alone` (signals). The theorems about queue, boundary, boot gate, sync and cache assume
nothing of the kind. Each is the setting of a passing run, and each is
needed: with any part of it dropped TLC refutes a property that is proved from it.

**Boundary and handoff** (`TicEmissionProofs`, `HandoffSealProofs`). Every invariant of
`boundary_emission` and `boundary_seal` is proved for `Spec`:
`CountersConsecutive`, `PhantomRefused`, `TicHasConformation`, `BoundaryAgreed`,
`ActivatedBySeal`, `ConsumedOnce`, `PausedByChoice`, and the types. The invariant
`EmissionInv` adds:

- `LockHeld`: a process between the guard check and the marker holds the lock. So what
  it computed still fits the log when it appends; this makes the numbering inductive,
  with two lemmas on counting (`CountedSame`, `CountedOneMore`).
- `CallAgrees`: what each process knows at each step. Before the append, the guard names
  no emission of its own session unless it is armed, because `Refused` was false and the
  guard cannot have changed since.
- `GuardAgrees`: the guard is the newest emission that reached it. Together they give
  `PhantomRefused`: if the last counted row reached the guard, it *is* the guard.
- `DownbeatsPending`: a downbeat row has its snapshot or a process that owes it.
- `GuardLast`: with no counted emission under way and no kill the guard is the last one.

`SealInv` adds that the marker follows the guard while not `stale`, that the journal
entry precedes pause and flip (`Journaled`), that a seal asking for a pause is on record
as having taken the override (`PausesAsked`), and `OneUse`: while hooks run one at a time
and none is killed, a seal is staged, or current and awaiting, or consumed once. The
emitter's steps and the hooks' steps meet only in the marker: `EmissionFrame` and
`SealFrame` carry the rest over.

**Mandates** (`MandateLifecycleProofs`). `TypeCorrect` holds without conditions.
`ObligationsConserved` and `MergedLanesCarried` assume `SameSecond = FALSE`: no two
mandates get the same identifier, which the code builds from tic and wall-clock second.
The invariant `Inductive` rests on tags: a tag is an identifier with its cycles, and
`OneTagPerId` says that no identifier has two, anywhere in file, variables or ledger.
Then a writer that finds the identifier it read finds the cycles it read; a pending write
carries what its process read (`CoversAt`), a merge names what it read (`MergesAt`), and
merge rows compare tags that never change (`RowsCover`).

`ConsumedOnlyIfRan` assumes `AlwaysHeavy`: every requested mandate has a cycle that is not
lightweight. Otherwise a prompt runs a mandate inline and stamps whatever the file holds by
then, which is the disagreement `mandate_gate_race` shows. The invariant `Verdicts` carries
"consumed only if run" to what each process is about to write: the runner's write-back
stamps the mandate it finds only if that is the one it executed, and a status a process
copies was already honest. No assumption on races, kills or identifiers is needed.

`BoundariesOnce` assumes `OneCadence`: one `/cadence` at a time is the only writer, and no
two mandates are built in one second. With `/review` or a session start writing too the
active-boundary check [is not enough](#where-code-and-text-disagree). The invariant
`Boundaries` says what holds until something races (`Unraced`): the file is torn exactly
while one process is between its two steps (`OneFiller`), an identifier fixes its boundary
in file and variables (`OneEmPerId`), and once the last boundary has its row the file, or
what is about to fill it, is of that boundary (`Settled`), so the replay stops there.

**Mailbox** (`InboxEnvelopeProofs`), in four layers, each resting on those before it:

- `Core`: types; at each step of a move the variables a process carries are those of its
  first task; a task that delivers is the last of its list; with every delivery still owed
  there is an identifier left (`Fits`, by counting).
- `Excl`, from `Exclusive`: a process between find and remove holds the highest-ranking
  file of its envelope, and behind a terminal receipt the archive holds the envelope.
  `ReceiptsTruthful` and, move by move, the refinement `MailboxFollows`: the rename becomes
  visible at the write or at the removal, whichever the ranks of the channels decide.
- `Calm` and `Neat`, while nobody has been killed: outside of a removal an envelope is in
  one channel; and while no update of the registry was lost and no two routes of one key
  overlapped, whatever waits is the one envelope its key's entry names, or about to be
  entered by the process that wrote it, in the registry as in every copy that will be saved
  (`IndexKnowsLive`).
- `Obl`, which does without `Exclusive`: obligations wait or are closed (`Waits`), none is
  of a tic to come (`Fresh`), and whatever is open while `/cadence` has still to deliver is
  on the list it works through first (`Covered`). `ObligationsOnce` needs one `/cadence` at
  a time; agents and kills are arbitrary.

**Queue** (`CprQueueProofs`). Nothing is assumed of who overlaps whom, nor of `flock(1)`.
`Basic`: a born candidate keeps a row, and the text of a row is blank or the latest; it gives
`CandidatesBornOnce`, because `dedup_queue_append` looks again once it holds the lock.
`Informed` says what a process knows of the candidates it is not `behind` in: the copy it
will append is the latest row still (`ScanKnows`), or differs from it as the gate and the
landing mean it to (`GateKnows`, `LandKnows`); between the gate's second look and its
append nobody but a shell without `flock(1)` can put it behind. So an append that undoes a
verdict or takes a text back is one of a process that was overtaken (`VerdictsHold`,
`TextsKept`), and the block is flipped only by a reviewer whose promotion has landed
(`BlocksAfterRows`).

**Signals** (`SignalManifoldProofs`). `Core`: nobody else is at work while the prune is, at
most one process is about to replace the manifest, and what its replacement leaves out is
in the archive already (`NothingGoesDark`). `Agree` relates manifest and daily rows signal
by signal (`Tracks`, `Follows`), excusing a difference only while a process that will mend
it is under way; it lasts until the first kill (`SurfacesAgree`).

**Boot gate** (`BootGateProofs`). `BootInv`: map and snapshots hold no citizen twice and
stay within the cap, and no spawn is taken for briefed without having been (`BriefsKnown`).

**Ray, sync, cache, all five together** (`CivicProofs`). `SyncInv` says what a hook that
nothing overlapped knows: its archive is of main's head, and no file of it is forgotten or
overwritten, also one whose hash is still to be read back (`HooksDeliver`). `CacheInv` says
what an operation holds in hand: a copy it really read, and no quarantined one in the
commands that refuse those (`QuarantineWasUnseen`); and what a cascade owes (`OwingWork`):
until its trace has read the log its debt is in the log, which only grows, and from then on
it is among those found (`ReadersAreNoticed`). `EachPartRuns` shows that every behaviour of `MCCivic`, where the five
components take turns, is a behaviour of each of them, so the component theorems hold of
what `ledgers` and `sessions` explore; `CivicTypes` puts the types together.

*Only model-checked*: the liveness properties `CadenceLands`, `DeferredReturns`,
`BaselineOpens`, `Swept`, `SilenceEnds`, `DriftSettles` and `Admitted`. They need fairness
and ENABLED, which the provers do not handle.

## Where code and text disagree

Two of these are runs TLC refutes, with the sentence quoted in `PROJECT.json`:

- `mandate_gate_race`: after its inline cycles the gate stamps whatever mandate the file
  holds by then as *consumed*.
- `queue_verdict`: the enrichment scanner appends rows it composed from an earlier read; a
  verdict that landed in between is undone under latest-per-id, which the gate advance
  guards against and the scanner's comments rule out. `StatusNotRenamed` is the sentence of
  `session-restore.sh:707`.

Met while modelling or proving, with no run of their own; each is a hazard in `PROJECT.json`:

- "Idempotent PER BOUNDARY" (`cadence-ops.py:128`): `/cadence`, then `/review`, then a
  replay of the same emission, one strictly after the other, give the boundary a second
  mandate. The replay check (`cadence-ops.py:1292`) looks for the emission in the newest
  mandate, and the one `/review` writes names none. `mandate_crash` with `MCWants` in place
  of `MCCadenceWants` shows it; the assumption `OneCadence` of the theorem rules it out.
- The runner's *pending to running* rewrite (`mogul-runner.sh:306`) lacks the guard its
  write-back has: a successor written between the runner's reads is stamped *running* with
  nobody to run it.
- *failed* counts as terminal (`mandate-write.py:168`): the cycles of a run that executed
  nothing are superseded, not carried.
- A `/cadence` killed after the log row and before the guard cannot be replayed
  (`cadence-ops.py:382`), and killed before the marker is replayed without repairing it.
- The first ExitPlanMode uses up pause-next (`cadence-handoff-seal.py:448`): when the plan
  is revised before approval, the seal that is consumed does not ask for the pause.
- A raced entry of the gate advance "is SKIPPED LOUDLY" and the stale transition "never
  written" (`cpr-gate-advance.py:158-164`). That rests on the lock, and
  `cpr-enrichment-scanner.py:1074-1080` says that on the primary machine `flock(1)` is absent,
  so that the shell locks a directory, an `fcntl` writer a file, and the two have "zero mutual
  exclusion". That fallback of the scanner was cured; the gate locks with `fcntl` still, and a
  verdict the shell appends between its re-check and its append is undone. TLC finds it at once when
  `VerdictHolds` is asked to clear the gate without `flock(1)` too. With it, the re-check
  compares statuses only, so a newer text of a row whose status is the same is lost.
- The stepper's and the reviewers' rows are composed from a read that nothing checks again
  (`queue-lifecycle-writeback.py:879`), so a verdict landing in between is undone, although
  the terminal valve (557-574) is there to keep decided ids decided.
- An idempotency key is to have one live envelope (*first_wins*, `inbox-envelope.py:586-597`).
  No verb locks the registry: a save from an older copy drops or reverts the key's entry,
  and the next route delivers a second envelope with nobody killed. A delivery saved after
  its envelope was closed leaves the entry open for good, and the key refuses every later
  route; `IndexTruthful` does not speak of that direction.
- "Closes active drift signals whose surfaces are now in parity" (`runtime-sync.py:1316`,
  step 5 of `cmd_auto_sync`): the *unresolved_drift* signals of `cmd_sync` (1156-1159) are
  passed over (1250), so they stay active after parity. A *detected_drift* signal goes when
  all its files agree, not before.
- A notice of the cascade goes to "ALL entities in the retrieval log"
  (`contamination-handler.py:521-522`) as `trace` finds it: a retrieval logged after line 447
  has read the log gets none. And the notices are returned and logged; nothing here
  delivers them.
- "Items are archived, never deleted" (`skills/inbox/SKILL.md:240`): an archived envelope
  that a stale index makes `latest_wins` supersede again is written to and removed from
  the same path (`inbox-envelope.py:655-660`).
- "One atomic half-pair" (`lib/atomic_append.py:255`): a kill between the daily row and the
  manifest row leaves a signal that is invisible and deduplicated for the day.
- A drift signal of a surface that is deleted at the source is never closed
  (`runtime-sync.py:463-484` compares what the source has).
- `boot-receipt.py:852`: the id of an override leaves out its scope, so that a second
  override with the same reason and another scope is dropped while *override_recorded* is
  printed.
- `contamination-handler.py:668`: the cascade saves the copy it loaded before its own
  quarantine, and so lifts it.

## What is not modelled

In the modelled components:

- the session hook's inline writer, used only when `mandate-write.py` cannot be found,
  which does not merge (`session-restore.sh:1129-1188`);
- schema refusals of `mandate-write.py`, which exit before any write;
- that the runner's prompt quotes `current.json` as it is when the prompt is composed
  (`mogul-runner.sh:450`): a successor written since the second read is quoted beside the id
  and the cycles of the mandate at hand, and which of the two the agent follows is not the
  runner's to decide; status, guard and artifacts go by the latter;
- the gate when no runner is installed, and its refusal of boot actors: neither changes
  the mandate;
- a guard sidecar that is unreadable (the code then lets the emission pass): it is replaced
  atomically, so only damage from outside produces it;
- the temporary names two writers of one seal file share (`.tmp`);
- contents of snapshots, plans and reports;
- an append to a ledger that is itself torn: rows are written with one `write`;
- mailbox: directory envelopes and hand-dropped files, stale detection and its
  attention-debt signals, the event log, and registry rows, which no verb reads;
- queue: the text of blocks, enum contracts, the effective-state projection compiled from
  the queue, reinforce landings, the lock directory's ten-try timeout (it is the case
  `flock = FALSE`);
- signals: summaries and payloads, volume histories, the projection's fields that only
  readers print; `/siren`, which writes the daily file only and is a skill text;
- boot gate: task-scoped workers, which act on the lead's receipt, compaction of the sink,
  the prose of briefs and greetings;
- sync: the hooks that only weigh and report, the sync log, plugin discovery; a hook that
  outlives its window is one that never ran;
- cache: permissions, search, the rollback drill, repeated feedback rows (the refresh
  counts each again every time), more than one item per retrieval.

Of the other components, the installer, the due schedules and the temporal adapter are
in the plan. Left out for good: the scoring engines (biome, standing, economy, harmony,
contagion), whose properties are about floating-point weights; audits and reports, which
only read; hooks that only inform or refuse and share no state; docks, media and visitor
tools around external services; skills, agents, evaluation material and documentation.
