------------------------------ MODULE RuntimeSync ------------------------------
(* The installed runtime against its source: post-commit-sync.sh, which after  *)
(* a tool call installs the tree of the commit that just landed, and           *)
(* runtime-sync.py's auto-sync, sync and check, with the drift signals they    *)
(* open and close. Runs take no lock and are killed at any step.               *)
EXTENDS Naturals, FiniteSets

CONSTANTS
    Surface,    \* files of the runtime
    Runner,     \* hook invocations and operator commands under way
    Deletes,    \* whether a source file may be deleted
    MaxVersion, \* bound: different contents of a file
    MaxUsed     \* bound: edits, checkouts, hooks, syncs and kills together

ASSUME SyncAssumption ==
    /\ Surface # {} /\ Deletes \in BOOLEAN
    /\ MaxVersion \in Nat \ {0} /\ MaxUsed \in Nat

Lane == {"main", "side"}    \* sole_writer_branch and another branch
Tree == [Surface -> 0..MaxVersion]  \* the bytes of each file; 0 is no file

VARIABLES
    resident,   \* branch checked out
    heads,      \* per branch, the tree of its head
    worktree,   \* files on disk
    landed,     \* last entry of the reflog
    installed,  \* ~/.claude
    run,        \* per runner
    drift,      \* sets of surfaces whose detected_drift signal is active
    escalated,  \* the same for unresolved_drift
    used        \* edits, checkouts, hooks, syncs and kills so far

git == <<resident, heads, worktree, landed>>
syncVars == <<resident, heads, worktree, landed, installed, run, drift, escalated, used>>

\* A run's files: still to install, installed but not read back, in parity.
Idle == [at |-> "idle", job |-> "none", src |-> [s \in Surface |-> 0], todo |-> {},
         fresh |-> {}, done |-> {}, undisturbed |-> TRUE]

\* Every variable holds what its comment says; what a run has
\* installed or found in parity is not installed again.
SyncTypeOK ==
    /\ resident \in Lane /\ heads \in [Lane -> Tree] /\ worktree \in Tree
    /\ landed \in [act : {"commit", "move"}, tree : Tree, touched : BOOLEAN]
    /\ installed \in Tree /\ drift \subseteq SUBSET Surface /\ escalated \subseteq SUBSET Surface
    /\ used \in 0..MaxUsed
    /\ \A r \in Runner :
        /\ run[r].at \in {"idle", "head", "compare", "install", "close"}
        /\ run[r].job \in {"none", "hook", "sync", "check"} /\ run[r].src \in Tree
        /\ run[r].todo \cup run[r].fresh \cup run[r].done \subseteq Surface
        /\ run[r].todo \cap (run[r].fresh \cup run[r].done) = {}

(***************************************************************************)
(* compare_surface over the files the source has, discover_surfaces.        *)
(***************************************************************************)
Present(src) == {s \in Surface : src[s] # 0}
Missing(src) == {s \in Present(src) : installed[s] = 0}
Drifted(src) == {s \in Present(src) : installed[s] \notin {0, src[s]}}
Synced(src) == {s \in Present(src) : installed[s] = src[s]}
Need(src) == Drifted(src) \cup Missing(src)

\* What a hook read of the repository or of ~/.claude is no longer so.
Disturbed(those) ==
    [r \in Runner |-> IF r \in those THEN [run[r] EXCEPT !.undisturbed = (@ /\ run[r].job # "hook")]
                      ELSE run[r]]

(***************************************************************************)
(* git, by operators and sessions.                                          *)
(***************************************************************************)
Spend == used < MaxUsed /\ used' = used + 1

Edit(s) ==
    /\ Spend
    /\ \E v \in (IF Deletes THEN 0 ELSE 1)..MaxVersion :
        v # worktree[s] /\ worktree' = [worktree EXCEPT ![s] = v]
    /\ UNCHANGED <<resident, heads, landed, installed, run, drift, escalated>>

\* The tip and what its diff against its first parent says of the runtime.
Land(tree, touched) ==
    /\ landed' = [act |-> "commit", tree |-> tree, touched |-> touched]
    /\ heads' = [heads EXCEPT ![resident] = tree]
    /\ run' = Disturbed(Runner)

Commit ==
    /\ worktree # heads[resident] \/ landed.touched  \* else a commit of other files
    /\ Land(worktree, worktree # heads[resident])
    /\ UNCHANGED <<resident, worktree, installed, drift, escalated, used>>

\* A merge of the branch, itself up to date with main: a commit of its own, or a
\* fast-forward, whose tip is compared with the commit before it on the branch.
Merge ==
    /\ resident = "main" /\ worktree = heads["main"] /\ heads["side"] # worktree
    /\ worktree' = heads["side"]
    /\ \E touched \in BOOLEAN : Land(heads["side"], touched)
    /\ UNCHANGED <<resident, installed, drift, escalated, used>>

Checkout(b) ==
    /\ b # resident /\ worktree = heads[resident]
    /\ resident' = b /\ worktree' = heads[b]
    /\ landed' = [landed EXCEPT !.act = "move"]
    /\ run' = Disturbed(Runner) /\ Spend
    /\ UNCHANGED <<heads, installed, drift, escalated>>

(***************************************************************************)
(* A run. The hook reads the reflog, then the branch of HEAD, and installs  *)
(* from an archive of the commit; the commands read the files on disk. A    *)
(* hook that finds the commit older than its window is one that never runs. *)
(***************************************************************************)
Set(r, f) == run' = [run EXCEPT ![r] = f]
Begin(job, at, src) == [Idle EXCEPT !.job = job, !.at = at, !.src = src]

HookStart(r) ==
    /\ run[r].at = "idle"
    /\ landed.act = "commit" /\ landed.touched
    /\ Set(r, Begin("hook", "head", landed.tree)) /\ Spend
    /\ UNCHANGED <<git, installed, drift, escalated>>

\* branch_residence_guard; allow is --allow-non-main, which the hook never has.
\* Bug: a snapshot without the identity of HEAD counts as no repository.
AllowedAnywhere(lane, allow) == lane \in Lane
Allowed(lane, allow) == lane = "main" \/ allow

HookHead(r) ==
    /\ run[r].at = "head"
    /\ IF Allowed(resident, FALSE) THEN Set(r, [run[r] EXCEPT !.at = "compare"])
       ELSE Set(r, Idle)
    /\ UNCHANGED <<git, installed, drift, escalated, used>>

SyncStart(r, allow) ==
    /\ run[r].at = "idle"
    /\ Allowed(resident, allow)
    /\ Set(r, Begin("sync", "compare", worktree)) /\ Spend
    /\ UNCHANGED <<git, installed, drift, escalated>>

CheckStart(r) ==
    /\ run[r].at = "idle"
    /\ Set(r, Begin("check", "compare", worktree))
    /\ UNCHANGED <<git, installed, drift, escalated, used>>

\* emit_drift_signal: the id is made of the severity and the surfaces.
Open(set) == IF set = {} THEN drift ELSE drift \cup {set}

Compare(r) ==
    /\ run[r].at = "compare"
    /\ LET src == run[r].src
           job == run[r].job
       IN /\ drift' = CASE job = "hook" -> drift [] job = "sync" -> Open(Need(src))
                        [] job = "check" -> Open(Drifted(src))
          /\ Set(r, IF job = "sync" /\ Need(src) = {} THEN Idle
                    ELSE [run[r] EXCEPT !.at = IF job = "check" THEN "close" ELSE "install",
                                        !.todo = IF job = "check" THEN {} ELSE Need(src),
                                        !.done = IF job = "sync" THEN {} ELSE Synced(src)])
    /\ UNCHANGED <<git, installed, escalated, used>>

\* _atomic_install of one file. The command copies what the file has become, skips
\* a deleted one, and reads back for its log alone.
Install(r, s) ==
    /\ run[r].at = "install" /\ run[r].fresh = {} /\ s \in run[r].todo
    /\ LET now == IF run[r].job = "hook" THEN run[r].src[s] ELSE worktree[s]
           after == [run[r] EXCEPT !.todo = @ \ {s},
                                   !.fresh = IF run[r].job = "hook" THEN {s} ELSE {}]
       IN /\ installed' = IF now = 0 THEN installed ELSE [installed EXCEPT ![s] = now]
          /\ run' = [Disturbed(Runner \ {r}) EXCEPT ![r] = after]
    /\ UNCHANGED <<git, drift, escalated, used>>

\* The hash read back from ~/.claude, which another run may have changed since.
ReadBack(r) ==
    /\ run[r].fresh # {}
    /\ Set(r, [run[r] EXCEPT !.fresh = {},
                             !.done = @ \cup {s \in run[r].fresh : installed[s] = run[r].src[s]}])
    /\ UNCHANGED <<git, installed, drift, escalated, used>>

\* resolve_drift_signals_on_sync: what the run saw in parity, against what is active.
\* Bug: the surfaces of an older signal are not found, so it stays.
LeftUnread(parity) == drift
Left(parity) == {set \in drift : ~(set \subseteq parity)}

\* After the last file: the hook and the check close signals; the command
\* compares again and escalates what still differs.
Finish(r) ==
    /\ run[r].at \in {"install", "close"} /\ run[r].todo \cup run[r].fresh = {}
    /\ Set(r, Idle)
    /\ IF run[r].job = "sync"
       THEN /\ escalated' = IF Drifted(worktree) = {} THEN escalated
                            ELSE escalated \cup {Drifted(worktree)}
            /\ UNCHANGED drift
       ELSE drift' = Left(run[r].done) /\ UNCHANGED escalated
    /\ UNCHANGED <<git, installed, used>>

Kill(r) ==
    /\ run[r].at # "idle"
    /\ Set(r, Idle) /\ Spend
    /\ UNCHANGED <<git, installed, drift, escalated>>

(***************************************************************************)
SyncInit ==
    /\ resident = "main"
    /\ worktree = [s \in Surface |-> 1] /\ heads = [b \in Lane |-> worktree]
    /\ landed = [act |-> "move", tree |-> worktree, touched |-> FALSE]
    /\ installed \in {[s \in Surface |-> 0], worktree}
    /\ run = [r \in Runner |-> Idle] /\ drift = {} /\ escalated = {}
    /\ used = 0

Step(r) ==
    HookHead(r) \/ Compare(r) \/ (\E s \in Surface : Install(r, s)) \/ ReadBack(r) \/ Finish(r)

SyncNext ==
    \/ \E s \in Surface : Edit(s)
    \/ Commit \/ Merge
    \/ \E b \in Lane : Checkout(b)
    \/ \E r \in Runner :
        \/ HookStart(r) \/ CheckStart(r) \/ Step(r) \/ Kill(r)
        \/ \E allow \in BOOLEAN : SyncStart(r, allow)

SyncSpec == SyncInit /\ [][SyncNext]_syncVars

(***************************************************************************)
\* A hook run that comes to its end, while no commit, checkout or other run's
\* install overlapped it, leaves every file of main's head installed as
\* committed, whatever edits, kills, syncs and branches came before or are
\* uncommitted on disk (post-commit-sync.sh, cmd_auto_sync).
HookDelivers ==
    [][\A r \in Runner :
         (run[r].job = "hook" /\ run[r].undisturbed /\ Finish(r))
            => \A s \in Present(heads["main"]) : installed[s] = heads["main"][s]]_syncVars

\* Once the repository and the installed files rest, every detected_drift signal
\* left active names a file that differs, and the files that differ have an
\* active signal of exactly their own, as long as checks recur (cmd_check). It
\* speaks of no unresolved_drift signal: resolve_drift_signals_on_sync passes
\* over that severity, so nothing here ever closes one.
DriftSettles ==
    <>[](/\ \A set \in drift : set \cap Need(worktree) # {}
         /\ Drifted(worktree) # {} => Drifted(worktree) \in drift)

\* The steps of a run that is not killed, and the check a review ends with.
SyncFair == \A r \in Runner : WF_syncVars(Step(r)) /\ WF_syncVars(CheckStart(r))
SyncFairSpec == SyncSpec /\ SyncFair
=============================================================================
