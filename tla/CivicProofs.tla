------------------------------ MODULE CivicProofs ------------------------------
(***************************************************************************)
(* TLAPS proofs about SignalRay, RuntimeSync and PenPalCache, and the type *)
(* correctness of the five components of MCCivic together.                 *)
(***************************************************************************)
EXTENDS MCCivic, SignalManifoldProofs, BootGateProofs, FiniteSetTheorems, TLAPS

-----------------------------------------------------------------------------
(* A ray *)

LEMMA RayInitTypes == RayInit => RayTypeOK
<1> SUFFICES ASSUME RayInit PROVE RayTypeOK
  OBVIOUS
<1>1. hot \in BOOLEAN
  BY Zenon DEF RayInit, Hot
<1>2. /\ status = "active" /\ volume \in Volume /\ owned \in BOOLEAN /\ age \in {0, Unknown}
      /\ quiet = Unknown /\ structural = "live" /\ reminder = FALSE /\ current = FALSE
  BY DEF RayInit
<1>3. age \in 0..AgeCap \cup {Unknown}
  BY <1>2 DEF AgeCap
<1>4. QED
  BY <1>1, <1>2, <1>3 DEF RayTypeOK

LEMMA RowTypes ==
    ASSUME RayTypeOK, NEW s \in {"active", "acknowledged", "resolved", "dismissed", "superseded"},
           NEW v \in Volume \cup {ReheatVolume}, NEW o \in BOOLEAN,
           NEW q \in 0..QuietTics \cup {Unknown}, Row(s, v, o, q)
    PROVE  RayTypeOK'
<1>1. hot' \in BOOLEAN /\ owned' \in BOOLEAN
  BY Zenon DEF Row
<1>2. structural' \in {"live", "carried", "resolved"}
  BY DEF Row
<1>3. QED
  BY <1>1, <1>2 DEF Row, RayTypeOK

LEMMA RayStepTypes == RayTypeOK /\ [RayNext]_rayVars => RayTypeOK'
<1> SUFFICES ASSUME RayTypeOK, [RayNext]_rayVars PROVE RayTypeOK'
  OBVIOUS
<1>0. QuietTics \in 1..10 /\ AgeCap = 10 /\ Unknown = 99
  BY RayAssumption DEF AgeCap, Unknown
<1>1. CASE Tick
  <2>1. age' \in 0..AgeCap \cup {Unknown} /\ quiet' \in 0..QuietTics \cup {Unknown}
    BY <1>0, <1>1 DEF Tick, Older, RayTypeOK
  <2>2. QED
    BY <1>1, <2>1 DEF Tick, RayTypeOK
<1>2. CASE Project
  <2>1. CASE Escalates
    <3>1. hot' \in BOOLEAN
      BY <1>2, <2>1 DEF Project
    <3>2. /\ volume' = ReheatVolume /\ structural' = "carried" /\ quiet' = 0 /\ reminder' = TRUE
          /\ current' = TRUE /\ UNCHANGED <<status, owned, age>>
      BY <1>2, <2>1 DEF Project
    <3>3. QED
      BY <1>0, <3>1, <3>2 DEF RayTypeOK
  <2>2. CASE ~Escalates
    <3>1. hot' \in BOOLEAN
      BY <1>2, <2>2, Zenon DEF Project, Hot
    <3>2. structural' \in {"live", "carried", "dimmed", "resolved", "superseded"}
      <4>1. structural' = Structure(status, volume, age, owned)
        BY <1>2, <2>2 DEF Project
      <4>2. QED
        BY <4>1 DEF Structure
    <3>3. current' = TRUE /\ UNCHANGED <<volume, quiet, reminder, status, owned, age>>
      BY <1>2, <2>2 DEF Project
    <3>4. QED
      BY <3>1, <3>2, <3>3 DEF RayTypeOK
  <2>3. QED
    BY <2>1, <2>2
<1>3. ASSUME NEW v \in Volume, Acknowledge(v) \/ AcknowledgeUndated(v) PROVE RayTypeOK'
  <2>1. PICK q \in {0, quiet, Unknown} : Row("acknowledged", v, owned, q)
    BY <1>3 DEF Acknowledge, AcknowledgeUndated
  <2>2. q \in 0..QuietTics \cup {Unknown} /\ owned \in BOOLEAN
    BY <1>0 DEF RayTypeOK
  <2>3. QED
    BY <2>1, <2>2, RowTypes
<1>4. CASE Own
  BY <1>4, RowTypes DEF Own, RayTypeOK
<1>5. ASSUME NEW s \in {"resolved", "dismissed", "superseded"}, Close(s) PROVE RayTypeOK'
  BY <1>5, RowTypes DEF Close, RayTypeOK
<1>6. CASE UNCHANGED rayVars
  BY <1>6 DEF rayVars, RayTypeOK
<1>7. QED
  BY <1>1, <1>2, <1>3, <1>4, <1>5, <1>6 DEF RayNext

-----------------------------------------------------------------------------
(* Syncing the runtime *)

RunState ==
    [at : {"idle", "head", "compare", "install", "close"}, job : {"none", "hook", "sync", "check"},
     src : Tree, todo : SUBSET Surface, fresh : SUBSET Surface, done : SUBSET Surface,
     undisturbed : BOOLEAN]

\* A hook that nothing has overlapped installs main's head: once it has looked at
\* the branch, that is what its archive is of, and no file of it is forgotten or,
\* once done, anything but what was committed.
Knows(x) ==
    /\ x.at # "idle" => x.job # "none"
    /\ x.fresh # {} => x.job = "hook" /\ x.at = "install"
    /\ x.job = "hook" =>
          /\ x.at \in {"head", "compare", "install"}
          /\ x.undisturbed /\ x.at = "head" => heads[resident] = x.src
          /\ x.undisturbed /\ x.at # "head" => heads["main"] = x.src
          /\ x.at = "install" =>
                /\ x.todo \subseteq Present(x.src)
                /\ x.undisturbed => /\ Present(x.src) \subseteq x.todo \cup x.fresh \cup x.done
                                    /\ \A s \in x.fresh \cup x.done : installed[s] = x.src[s]

\* What a commit leaves is the head of the branch checked out.
Tip == landed.act = "commit" => heads[resident] = landed.tree

Tidy(x) == x.todo \cap (x.fresh \cup x.done) = {}
SyncInv ==
    /\ SyncTypeOK /\ run \in [Runner -> RunState] /\ Tip
    /\ \A r \in Runner : Knows(run[r])

LEMMA TreeNull == [s \in Surface |-> 0] \in Tree /\ [s \in Surface |-> 1] \in Tree
BY SyncAssumption DEF Tree

LEMMA IdleRun ==
    Idle \in RunState /\ Tidy(Idle) /\ Idle.job = "none" /\ Idle.at = "idle" /\ Idle.fresh = {}
BY TreeNull DEF Idle, RunState, Tidy

LEMMA SyncInitInv == SyncInit => SyncInv
<1> SUFFICES ASSUME SyncInit PROVE SyncInv
  OBVIOUS
<1>1. \A r \in Runner : run[r] = Idle
  BY DEF SyncInit
<1>2. run \in [Runner -> RunState]
  BY <1>1, IdleRun DEF SyncInit
<1>3. /\ worktree \in Tree /\ heads \in [Lane -> Tree] /\ installed \in Tree
      /\ landed \in [act : {"commit", "move"}, tree : Tree, touched : BOOLEAN] /\ landed.act = "move"
  BY TreeNull DEF SyncInit
<1>4. \A r \in Runner : Tidy(run[r]) /\ Knows(run[r])
  BY <1>1, IdleRun DEF Knows
<1>5. SyncTypeOK
  BY <1>2, <1>3, <1>4, SyncAssumption DEF SyncTypeOK, SyncInit, Lane, RunState, Tidy
<1>6. QED
  BY <1>2, <1>3, <1>4, <1>5 DEF SyncInv, Tip

\* What overlaps is known not to be undisturbed.
LEMMA Disturbing ==
    ASSUME SyncInv, NEW those, NEW r \in those, r \in Runner
    PROVE  /\ Disturbed(those)[r] \in RunState /\ Tidy(Disturbed(those)[r])
           /\ Disturbed(those)[r].job = run[r].job /\ Disturbed(those)[r].at = run[r].at
           /\ Disturbed(those)[r].src = run[r].src /\ Disturbed(those)[r].todo = run[r].todo
           /\ Disturbed(those)[r].fresh = run[r].fresh
           /\ Disturbed(those)[r].job = "hook" =>
                 /\ ~Disturbed(those)[r].undisturbed /\ run[r].at \in {"head", "compare", "install"}
                 /\ run[r].at = "install" => run[r].todo \subseteq Present(run[r].src)
<1>1. run \in [Runner -> RunState] /\ Knows(run[r]) /\ Tidy(run[r])
  BY DEF SyncInv, SyncTypeOK, Tidy
<1>2. PICK x, y : x = run[r] /\ y = Disturbed(those)[r]
  OBVIOUS
<1>3. x \in RunState /\ y = [x EXCEPT !.undisturbed = (@ /\ x.job # "hook")]
  BY <1>1, <1>2 DEF Disturbed
<1>4. PICK u \in BOOLEAN : y = [x EXCEPT !.undisturbed = u] /\ (u => x.job # "hook")
  <2>1. x.undisturbed \in BOOLEAN
    BY <1>3 DEF RunState
  <2>2. CASE x.job = "hook"
    BY <1>3, <2>1, <2>2
  <2>3. CASE x.job # "hook"
    BY <1>3, <2>1, <2>3
  <2>4. QED
    BY <2>2, <2>3
<1>5. /\ y \in RunState /\ y.job = x.job /\ y.at = x.at /\ y.src = x.src /\ y.todo = x.todo
      /\ y.fresh = x.fresh /\ y.done = x.done /\ y.undisturbed = u
  BY <1>3, <1>4 DEF RunState
<1>6. y.job = "hook" =>
         /\ ~y.undisturbed /\ x.at \in {"head", "compare", "install"}
         /\ x.at = "install" => x.todo \subseteq Present(x.src)
  BY <1>1, <1>2, <1>4, <1>5 DEF Knows
<1>7. QED
  BY <1>1, <1>2, <1>5, <1>6 DEF Tidy

LEMMA AllDisturbed ==
    ASSUME SyncInv, run' = Disturbed(Runner)
    PROVE  /\ run' \in [Runner -> RunState]
           /\ \A r \in Runner : Tidy(run[r])' /\ Knows(run[r])'
<1>1. run' \in [Runner -> RunState]
  BY Disturbing DEF Disturbed
<1>2. ASSUME NEW r \in Runner PROVE Tidy(run[r])' /\ Knows(run[r])'
  <2>1. PICK x, y : x = run[r] /\ y = run'[r]
    OBVIOUS
  <2>2. /\ Tidy(y) /\ y.at = x.at /\ y.src = x.src /\ y.todo = x.todo /\ y.fresh = x.fresh
        /\ y.job = "hook" => /\ ~y.undisturbed /\ x.at \in {"head", "compare", "install"}
                             /\ x.at = "install" => x.todo \subseteq Present(x.src)
    BY <2>1, Disturbing
  <2>3. /\ y.job = x.job /\ (x.at # "idle" => x.job # "none")
        /\ x.fresh # {} => x.job = "hook" /\ x.at = "install"
    BY <2>1, Disturbing DEF SyncInv, Knows
  <2>4. QED
    BY <2>1, <2>2, <2>3 DEF Knows, Tidy
<1>3. QED
  BY <1>1, <1>2

LEMMA RunTypes ==
    ASSUME run \in [Runner -> RunState]
    PROVE  SyncTypeOK <=>
              /\ resident \in Lane /\ heads \in [Lane -> Tree] /\ worktree \in Tree
              /\ landed \in [act : {"commit", "move"}, tree : Tree, touched : BOOLEAN]
              /\ installed \in Tree /\ drift \subseteq SUBSET Surface /\ escalated \subseteq SUBSET Surface
              /\ used \in 0..MaxUsed
              /\ \A r \in Runner : Tidy(run[r])
BY DEF SyncTypeOK, RunState, Tidy

LEMMA RunTypesNext ==
    ASSUME run' \in [Runner -> RunState], resident' \in Lane, heads' \in [Lane -> Tree], worktree' \in Tree,
           landed' \in [act : {"commit", "move"}, tree : Tree, touched : BOOLEAN],
           installed' \in Tree, drift' \subseteq SUBSET Surface, escalated' \subseteq SUBSET Surface,
           used' \in 0..MaxUsed, \A r \in Runner : Tidy(run[r])'
    PROVE  SyncTypeOK'
BY DEF SyncTypeOK, RunState, Tidy

\* git.
LEMMA EditSync ==
    ASSUME SyncInv, NEW s \in Surface, Edit(s)
    PROVE  SyncInv'
<1>0. SyncTypeOK /\ MaxUsed \in Nat /\ MaxVersion \in Nat \ {0}
  BY SyncAssumption DEF SyncInv
<1>1. PICK v \in 0..MaxVersion : worktree' = [worktree EXCEPT ![s] = v]
  <2>1. PICK least \in {0, 1} : least = IF Deletes THEN 0 ELSE 1
    OBVIOUS
  <2>2. PICK v \in least..MaxVersion : worktree' = [worktree EXCEPT ![s] = v]
    BY <2>1 DEF Edit
  <2>3. v \in 0..MaxVersion
    BY <1>0, <2>1, <2>2
  <2>4. QED
    BY <2>2, <2>3
<1>2. worktree' \in Tree /\ used' \in 0..MaxUsed
  BY <1>0, <1>1 DEF Edit, Spend, SyncTypeOK, Tree
<1>3. UNCHANGED <<resident, heads, landed, installed, run, drift, escalated>>
  BY DEF Edit
<1>4. SyncTypeOK' /\ Tip'
  BY <1>2, <1>3 DEF SyncInv, SyncTypeOK, Tip
<1>5. QED
  BY <1>3, <1>4 DEF SyncInv, Knows

LEMMA LandSync ==
    ASSUME SyncInv, NEW tree \in Tree, NEW touched \in BOOLEAN, Land(tree, touched),
           resident' = resident, worktree' \in Tree, UNCHANGED <<installed, drift, escalated, used>>
    PROVE  SyncInv'
<1>0. SyncTypeOK /\ run \in [Runner -> RunState]
  BY DEF SyncInv
<1>1. /\ landed' \in [act : {"commit", "move"}, tree : Tree, touched : BOOLEAN] /\ landed'.tree = tree
      /\ heads' \in [Lane -> Tree] /\ heads'[resident] = tree
  BY <1>0 DEF Land, SyncTypeOK
<1>2. run' \in [Runner -> RunState] /\ \A r \in Runner : Tidy(run[r])' /\ Knows(run[r])'
  BY AllDisturbed DEF Land
<1>3. SyncTypeOK'
  BY <1>0, <1>1, <1>2, RunTypes, RunTypesNext
<1>4. QED
  BY <1>1, <1>2, <1>3 DEF SyncInv, Tip

LEMMA CheckoutSync ==
    ASSUME SyncInv, NEW lane \in Lane, Checkout(lane)
    PROVE  SyncInv'
<1>0. SyncTypeOK /\ run \in [Runner -> RunState] /\ MaxUsed \in Nat
  BY SyncAssumption DEF SyncInv
<1>1. /\ landed' \in [act : {"commit", "move"}, tree : Tree, touched : BOOLEAN] /\ landed'.act = "move"
      /\ worktree' \in Tree /\ used' \in 0..MaxUsed
      /\ UNCHANGED <<heads, installed, drift, escalated>> /\ resident' = lane
  BY <1>0 DEF Checkout, SyncTypeOK, Spend
<1>2. run' \in [Runner -> RunState] /\ \A r \in Runner : Tidy(run[r])' /\ Knows(run[r])'
  BY AllDisturbed DEF Checkout
<1>3. SyncTypeOK'
  BY <1>0, <1>1, <1>2, RunTypes, RunTypesNext
<1>4. QED
  BY <1>1, <1>2, <1>3 DEF SyncInv, Tip

\* What a run does between files leaves the others as they are.
LEMMA SetSync ==
    ASSUME SyncInv, NEW r \in Runner, NEW f \in RunState, Set(r, f), Tidy(f), Knows(f),
           UNCHANGED <<git, installed>>, drift' \subseteq SUBSET Surface,
           escalated' \subseteq SUBSET Surface, used' \in 0..MaxUsed
    PROVE  SyncInv'
<1>0. SyncTypeOK /\ run \in [Runner -> RunState]
  BY DEF SyncInv
<1>1. UNCHANGED <<resident, heads, worktree, landed, installed>>
  BY DEF git
<1>2. run' \in [Runner -> RunState] /\ run'[r] = f /\ \A q \in Runner \ {r} : run'[q] = run[q]
  BY <1>0 DEF Set
<1>3. (\A q \in Runner : Tidy(run[q])) /\ \A q \in Runner : Knows(run[q])
  BY DEF SyncInv, SyncTypeOK, Tidy
<1>4. ASSUME NEW q \in Runner PROVE Tidy(run[q])' /\ Knows(run[q])'
  <2>1. PICK x : x = run'[q] /\ Tidy(x) /\ Knows(x)
    BY <1>2, <1>3
  <2>2. QED
    BY <1>1, <2>1 DEF Tidy, Knows
<1>5. SyncTypeOK'
  BY <1>0, <1>1, <1>2, <1>4, RunTypes, RunTypesNext
<1>6. QED
  BY <1>1, <1>2, <1>4, <1>5 DEF SyncInv, Tip

LEMMA StartSync ==
    ASSUME SyncInv, NEW r \in Runner, HookStart(r) \/ CheckStart(r) \/ \E allow \in BOOLEAN : SyncStart(r, allow)
    PROVE  SyncInv'
<1>0. SyncTypeOK /\ Tip /\ MaxUsed \in Nat
  BY SyncAssumption DEF SyncInv
<1>1. PICK job \in {"hook", "sync", "check"}, at \in {"head", "compare"}, src \in Tree :
         /\ Set(r, Begin(job, at, src))
         /\ job = "hook" => at = "head" /\ heads[resident] = src
  <2>1. CASE HookStart(r)
    BY <1>0, <2>1 DEF HookStart, Tip, SyncTypeOK
  <2>2. CASE CheckStart(r)
    BY <1>0, <2>2 DEF CheckStart, SyncTypeOK
  <2>3. CASE \E allow \in BOOLEAN : SyncStart(r, allow)
    BY <1>0, <2>3 DEF SyncStart, SyncTypeOK
  <2>4. QED
    BY <2>1, <2>2, <2>3
<1>2. PICK f : f = Begin(job, at, src)
  OBVIOUS
<1>3. /\ f \in RunState /\ f.job = job /\ f.at = at /\ f.src = src /\ f.fresh = {} /\ Tidy(f)
  BY <1>2, IdleRun DEF Begin, RunState, Tidy, Idle
<1>4. Knows(f)
  BY <1>1, <1>3 DEF Knows
<1>5. used' \in 0..MaxUsed /\ UNCHANGED <<git, installed, drift, escalated>>
  BY <1>0 DEF HookStart, CheckStart, SyncStart, Spend, SyncTypeOK
<1>6. QED
  BY <1>0, <1>1, <1>2, <1>3, <1>4, <1>5, SetSync DEF SyncTypeOK

LEMMA PauseSync ==
    ASSUME SyncInv, NEW r \in Runner, Kill(r) \/ Finish(r) \/ HookHead(r)
    PROVE  SyncInv'
<1>0. SyncTypeOK /\ MaxUsed \in Nat /\ run[r] \in RunState /\ Tidy(run[r]) /\ Knows(run[r])
  BY SyncAssumption DEF SyncInv, SyncTypeOK, Tidy
<1>1. Knows(Idle)
  BY IdleRun DEF Knows
<1>2. CASE Kill(r)
  <2>1. used' \in 0..MaxUsed
    BY <1>0, <1>2 DEF Kill, Spend, SyncTypeOK
  <2>2. QED
    BY <1>0, <1>1, <1>2, <2>1, IdleRun, SetSync DEF Kill, SyncTypeOK
<1>3. CASE Finish(r)
  <2>1. drift' \subseteq SUBSET Surface /\ escalated' \subseteq SUBSET Surface
    BY <1>0, <1>3 DEF Finish, Left, Drifted, Present, SyncTypeOK
  <2>2. QED
    BY <1>0, <1>1, <1>3, <2>1, IdleRun, SetSync DEF Finish, SyncTypeOK
<1>4. CASE HookHead(r)
  <2>1. PICK f : f = [run[r] EXCEPT !.at = "compare"]
    OBVIOUS
  <2>2. /\ f \in RunState /\ f.at = "compare" /\ f.job = run[r].job /\ f.src = run[r].src
        /\ f.undisturbed = run[r].undisturbed /\ f.todo = run[r].todo /\ f.done = run[r].done
        /\ f.fresh = run[r].fresh
    BY <1>0, <2>1 DEF RunState
  <2>3. resident = "main" => Knows(f)
    BY <1>0, <1>4, <2>2 DEF HookHead, Knows
  <2>4. CASE resident = "main"
    <3>1. Set(r, f)
      BY <1>4, <2>1, <2>4 DEF HookHead, Allowed
    <3>2. Tidy(f)
      BY <1>0, <2>2 DEF Tidy
    <3>3. QED
      BY <1>0, <1>4, <2>2, <2>3, <2>4, <3>1, <3>2, SetSync DEF HookHead, SyncTypeOK
  <2>5. CASE resident # "main"
    <3>1. Set(r, Idle)
      BY <1>4, <2>5 DEF HookHead, Allowed
    <3>2. QED
      BY <1>0, <1>1, <1>4, <3>1, IdleRun, SetSync DEF HookHead, SyncTypeOK
  <2>6. QED
    BY <2>4, <2>5
<1>5. QED
  BY <1>2, <1>3, <1>4

LEMMA CompareSync ==
    ASSUME SyncInv, NEW r \in Runner, Compare(r)
    PROVE  SyncInv'
<1>0. SyncTypeOK /\ run[r] \in RunState /\ Knows(run[r]) /\ run[r].at = "compare"
  BY DEF SyncInv, Compare
<1>1. PICK x : x = run[r]
  OBVIOUS
<1>2. x.src \in Tree /\ x.job \in {"none", "hook", "sync", "check"}
  BY <1>0, <1>1 DEF RunState
<1>3. /\ Need(x.src) \subseteq Surface /\ Synced(x.src) \subseteq Surface /\ Drifted(x.src) \subseteq Surface
      /\ Need(x.src) \cap Synced(x.src) = {} /\ Need(x.src) \subseteq Present(x.src)
      /\ Present(x.src) \subseteq Need(x.src) \cup Synced(x.src)
      /\ \A s \in Synced(x.src) : installed[s] = x.src[s]
  BY DEF Need, Synced, Drifted, Missing, Present
<1>4. used' \in 0..MaxUsed /\ UNCHANGED <<git, installed, escalated>> /\ escalated' \subseteq SUBSET Surface
  BY <1>0 DEF Compare, SyncTypeOK
<1>5. drift' \subseteq SUBSET Surface
  <2>1. drift' \in {drift, Open(Need(x.src)), Open(Drifted(x.src))}
    BY <1>0, <1>1, <1>2 DEF Compare, Knows
  <2>2. QED
    BY <1>0, <1>3, <2>1 DEF Open, SyncTypeOK
<1>6. CASE x.job = "sync" /\ Need(x.src) = {}
  BY <1>0, <1>1, <1>4, <1>5, <1>6, IdleRun, SetSync DEF Compare, Knows
<1>7. CASE ~(x.job = "sync" /\ Need(x.src) = {})
  <2>1. PICK f : f = [x EXCEPT !.at = IF x.job = "check" THEN "close" ELSE "install",
                               !.todo = IF x.job = "check" THEN {} ELSE Need(x.src),
                               !.done = IF x.job = "sync" THEN {} ELSE Synced(x.src)]
    OBVIOUS
  <2>2. /\ f.job = x.job /\ f.src = x.src /\ f.undisturbed = x.undisturbed /\ f.fresh = x.fresh
        /\ f.done = IF x.job = "sync" THEN {} ELSE Synced(x.src)
        /\ f.at = IF x.job = "check" THEN "close" ELSE "install"
        /\ f.todo = IF x.job = "check" THEN {} ELSE Need(x.src)
        /\ f \in RunState
    BY <1>0, <1>1, <1>3, <2>1 DEF RunState
  <2>3. Tidy(f)
    BY <1>0, <1>1, <1>3, <2>2 DEF Tidy, Knows
  <2>4. Knows(f)
    BY <1>0, <1>1, <1>3, <2>2 DEF Knows
  <2>5. Set(r, f)
    BY <1>1, <1>7, <2>1 DEF Compare
  <2>6. QED
    BY <1>4, <1>5, <2>2, <2>3, <2>4, <2>5, SetSync
<1>8. QED
  BY <1>6, <1>7

\* A hook's own install does the file; another run's disturbs it.
LEMMA InstallSync ==
    ASSUME SyncInv, NEW r \in Runner, NEW s \in Surface, Install(r, s)
    PROVE  SyncInv'
<1>0. /\ SyncTypeOK /\ run \in [Runner -> RunState] /\ run[r] \in RunState /\ Knows(run[r]) /\ Tidy(run[r])
      /\ run[r].at = "install" /\ run[r].fresh = {} /\ s \in run[r].todo
  BY DEF SyncInv, SyncTypeOK, Tidy, Install
<1>1. PICK x, now : x = run[r] /\ now = IF x.job = "hook" THEN x.src[s] ELSE worktree[s]
  OBVIOUS
<1>2. PICK f : f = [x EXCEPT !.todo = @ \ {s}, !.fresh = IF x.job = "hook" THEN {s} ELSE {}]
  OBVIOUS
<1>3. /\ f.job = x.job /\ f.src = x.src /\ f.at = x.at /\ f.undisturbed = x.undisturbed
      /\ f.todo = x.todo \ {s} /\ f.fresh = (IF x.job = "hook" THEN {s} ELSE {}) /\ f.done = x.done
      /\ f \in RunState
  BY <1>0, <1>1, <1>2 DEF RunState
<1>4. installed' = IF now = 0 THEN installed ELSE [installed EXCEPT ![s] = now]
  BY <1>1 DEF Install
<1>5. installed' \in Tree
  <2>1. now \in 0..MaxVersion
    BY <1>0, <1>1 DEF RunState, SyncTypeOK, Tree
  <2>2. QED
    BY <1>0, <1>4, <2>1 DEF SyncTypeOK, Tree
<1>6. /\ UNCHANGED <<resident, heads, worktree, landed, drift, escalated, used>>
      /\ run' = [Disturbed(Runner \ {r}) EXCEPT ![r] = f]
  BY <1>1, <1>2 DEF Install, git
<1>7. run'[r] = f /\ \A q \in Runner \ {r} : run'[q] = Disturbed(Runner \ {r})[q]
  BY <1>6 DEF Disturbed
<1>8. Tidy(f)
  BY <1>0, <1>1, <1>3 DEF Tidy
<1>9. Knows(f)'
  <2>1. CASE x.job # "hook"
    BY <1>0, <1>1, <1>3, <2>1 DEF Knows
  <2>2. CASE x.job = "hook"
    <3>1. /\ x.undisturbed => heads["main"] = x.src
          /\ x.todo \subseteq Present(x.src)
          /\ x.undisturbed => /\ Present(x.src) \subseteq x.todo \cup x.done
                              /\ \A q \in x.done : installed[q] = x.src[q]
      BY <1>0, <1>1, <2>2 DEF Knows
    <3>2. now = x.src[s] /\ now # 0
      BY <1>0, <1>1, <2>2, <3>1 DEF Present
    <3>3. f.fresh = {s} /\ f.done = x.done /\ x.done \subseteq Surface
      BY <1>0, <1>1, <1>3, <2>2 DEF RunState
    <3>4. x.undisturbed => \A q \in f.fresh \cup f.done : installed'[q] = x.src[q]
      BY <1>0, <1>4, <3>1, <3>2, <3>3 DEF SyncTypeOK, Tree
    <3>5. /\ f.todo \subseteq Present(x.src)
          /\ x.undisturbed => Present(x.src) \subseteq f.todo \cup f.fresh \cup f.done
      BY <1>3, <3>1, <3>3
    <3>6. QED
      BY <1>0, <1>1, <1>3, <1>6, <2>2, <3>1, <3>4, <3>5 DEF Knows
  <2>3. QED
    BY <2>1, <2>2
<1>10. ASSUME NEW q \in Runner \ {r}
       PROVE  run'[q] \in RunState /\ Tidy(run[q])' /\ Knows(run[q])'
  <2>1. PICK y, z : y = run[q] /\ z = run'[q]
    OBVIOUS
  <2>2. /\ z \in RunState /\ Tidy(z) /\ z.job = y.job /\ z.at = y.at /\ z.src = y.src /\ z.todo = y.todo
        /\ z.fresh = y.fresh
        /\ z.job = "hook" => /\ ~z.undisturbed /\ y.at \in {"head", "compare", "install"}
                             /\ y.at = "install" => y.todo \subseteq Present(y.src)
    BY <1>7, <2>1, Disturbing
  <2>3. /\ y.at # "idle" => y.job # "none"
        /\ y.fresh # {} => y.job = "hook" /\ y.at = "install"
    BY <2>1 DEF SyncInv, Knows
  <2>4. QED
    BY <2>1, <2>2, <2>3 DEF Knows, Tidy
<1>11. Tidy(run[r])' /\ Knows(run[r])'
  <2>1. Tidy(run'[r])
    BY <1>7, <1>8
  <2>2. Knows(run[r])'
    BY <1>7, <1>9 DEF Knows
  <2>3. QED
    BY <2>1, <2>2 DEF Tidy
<1>12. run' \in [Runner -> RunState]
  BY <1>3, <1>6, <1>7, <1>10 DEF Disturbed
<1>13. SyncTypeOK'
  BY <1>0, <1>5, <1>6, <1>10, <1>11, <1>12, RunTypes, RunTypesNext
<1>14. QED
  BY <1>6, <1>10, <1>11, <1>12, <1>13 DEF SyncInv, Tip

\* Reading a file back moves no file.
LEMMA ReadSync ==
    ASSUME SyncInv, NEW r \in Runner, ReadBack(r)
    PROVE  SyncInv'
<1>0. SyncTypeOK /\ run[r] \in RunState /\ Knows(run[r]) /\ Tidy(run[r]) /\ run[r].fresh # {}
  BY DEF SyncInv, SyncTypeOK, Tidy, ReadBack
<1>1. PICK x, same : x = run[r] /\ same = {s \in x.fresh : installed[s] = x.src[s]}
  OBVIOUS
<1>2. PICK f : f = [x EXCEPT !.fresh = {}, !.done = @ \cup same]
  OBVIOUS
<1>3. /\ f.job = x.job /\ f.src = x.src /\ f.at = x.at /\ f.undisturbed = x.undisturbed
      /\ f.todo = x.todo /\ f.fresh = {} /\ f.done = x.done \cup same /\ f \in RunState
  BY <1>0, <1>1, <1>2 DEF RunState
<1>4. Tidy(f)
  BY <1>0, <1>1, <1>3 DEF Tidy
<1>5. Knows(f)
  BY <1>0, <1>1, <1>3 DEF Knows
<1>6. Set(r, f)
  BY <1>1, <1>2 DEF ReadBack
<1>7. QED
  BY <1>0, <1>3, <1>4, <1>5, <1>6, SetSync DEF ReadBack, SyncTypeOK

LEMMA SyncStepInv == SyncInv /\ [SyncNext]_syncVars => SyncInv'
<1> SUFFICES ASSUME SyncInv, [SyncNext]_syncVars PROVE SyncInv'
  OBVIOUS
<1>1. CASE UNCHANGED syncVars
  <2>1. UNCHANGED <<resident, heads, worktree, landed, installed, run, drift, escalated, used>>
    BY <1>1 DEF syncVars, git
  <2>2. QED
    BY <2>1 DEF SyncInv, SyncTypeOK, Tip, Knows
<1>2. CASE Commit
  <2>1. PICK touched \in BOOLEAN : touched = (worktree # heads[resident])
    OBVIOUS
  <2>2. Land(worktree, touched)
    BY <1>2, <2>1 DEF Commit
  <2>3. worktree \in Tree
    BY DEF SyncInv, SyncTypeOK
  <2>4. QED
    BY <1>2, <2>2, <2>3, LandSync DEF Commit
<1>3. CASE Merge
  <2>1. heads["side"] \in Tree
    BY DEF SyncInv, SyncTypeOK, Lane
  <2>2. QED
    BY <1>3, <2>1, LandSync DEF Merge
<1>4. QED
  BY <1>1, <1>2, <1>3, EditSync, CheckoutSync, StartSync, PauseSync, CompareSync, InstallSync, ReadSync
     DEF SyncNext, Step

LEMMA SyncAlways == SyncSpec => []SyncInv
BY SyncInitInv, SyncStepInv, PTL DEF SyncSpec

\* A post-commit hook that comes to its end while nothing overlapped it has left
\* ~/.claude as main's head: it installs the commit it read from the reflog, not
\* the files on disk, and only after it has seen main checked out.
THEOREM HooksDeliver == SyncSpec => HookDelivers
<1>1. SyncInv /\ [SyncNext]_syncVars =>
         [\A r \in Runner :
            (run[r].job = "hook" /\ run[r].undisturbed /\ Finish(r))
               => \A s \in Present(heads["main"]) : installed[s] = heads["main"][s]]_syncVars
  <2> SUFFICES ASSUME SyncInv, NEW r \in Runner, run[r].job = "hook", run[r].undisturbed, Finish(r),
                      NEW s \in Present(heads["main"])
               PROVE  installed[s] = heads["main"][s]
    OBVIOUS
  <2>1. run[r].at = "install" /\ run[r].todo = {} /\ Knows(run[r])
    BY DEF SyncInv, Finish, Knows
  <2>2. QED
    BY <2>1 DEF Knows
<1>2. QED
  BY <1>1, SyncAlways, PTL DEF SyncSpec, HookDelivers

-----------------------------------------------------------------------------
(* The pen pal cache *)

Operation ==
    [job : {"none", "create", "retrieve", "deprecate", "quarantine", "archive", "refresh", "detect",
            "cascade"},
     at : {"idle", "write", "reload", "hold", "handler", "held", "row", "prune", "file", "unlink",
           "stale", "score", "suspect", "trace", "tracelog", "notify"},
     e : Entry, copy : Copy \cup {None}, todo : SUBSET Entry, snap : [Entry -> Copy \cup {None}],
     log : SUBSET (Entry \X Reader \X Feedback), found : SUBSET Reader, owed : SUBSET Reader]

\* What an operation is about to write over an entry is a copy it really read, and
\* the commands that refuse a quarantined entry hold no quarantined copy.
InHand(x) ==
    /\ x.at = "idle" => x = Resting
    /\ x.at = "reload" => x.job = "retrieve"
    /\ x.at = "write" =>
          /\ x.job \in {"create", "retrieve", "deprecate"}
          /\ x.job # "create" => x.copy \in Copy
          /\ x.job # "retrieve" => x.copy.status # "quarantined"
    /\ x.at \in {"held", "file"} => x.copy \in Copy
    /\ x.at \in {"file", "unlink"} => x.copy.status # "quarantined"
    /\ x.at \in {"stale", "score"} => x.todo \subseteq Live(x.snap)

CacheInv ==
    /\ CacheTypeOK /\ archive \in [Entry -> Copy \cup {None}] /\ work \in [Worker -> Operation]
    /\ \A w \in Worker : InHand(work[w])

\* Whose retrieval a cascade owes a notice for is in the log it will read, and
\* among those it has found once it has read it.
Owes(x) ==
    /\ x.at \in {"suspect", "trace", "tracelog", "notify"} => x.job = "cascade"
    /\ x.job = "cascade" =>
          /\ x.at \in {"row", "suspect", "trace", "tracelog"} => x.owed \subseteq Logged(x.e)
          /\ x.at = "notify" => x.owed \subseteq x.found

LEMMA NoneApart == None \notin Copy /\ Fresh \in Copy /\ None.status = "none"
<1>1. None.status = "none" /\ "none" \notin Status
  BY DEF None, Status
<1>2. \A c \in Copy : c.status \in Status
  BY DEF Copy
<1>3. None \in [status : {"none"}, trust : Int, readers : SUBSET Reader, suspect : BOOLEAN]
  BY DEF None
<1>4. Fresh \in Copy
  BY <1>3 DEF Fresh, Copy, Status
<1>5. QED
  BY <1>1, <1>2, <1>4

LEMMA RestingWork == Resting \in Operation /\ Resting.at = "idle" /\ Resting.snap \in [Entry -> Copy \cup {None}]
<1>1. (CHOOSE e \in Entry : TRUE) \in Entry
  BY CacheAssumption
<1>2. QED
  BY <1>1 DEF Resting, Operation

LEMMA OwingWork ==
    ASSUME NEW x \in Operation
    PROVE  /\ Owing(x) \in Operation /\ Owing(x).copy = x.copy /\ Owing(x).at = x.at /\ Owing(x).e = x.e
           /\ Owing(x).owed \subseteq Logged(x.e) \/ Owing(x).owed = x.owed
<1>1. Logged(x.e) \subseteq Reader
  BY DEF Logged
<1>2. CASE x.job = "cascade"
  BY <1>1, <1>2 DEF Owing, Operation
<1>3. CASE x.job # "cascade"
  BY <1>3 DEF Owing
<1>4. QED
  BY <1>2, <1>3

LEMMA CacheFound ==
    ASSUME CacheInv, NEW e \in Entry
    PROVE  /\ Found(e) \in Copy \cup {None} /\ entries[e] \in Copy \cup {None}
           /\ entries \in [Entry -> Copy \cup {None}]
BY DEF CacheInv, CacheTypeOK, Found

\* What a step of one operation leaves: its own record, and the files it wrote.
LEMMA GoCache ==
    ASSUME CacheInv, NEW w \in Worker, NEW f \in Operation, Go(w, f), InHand(f),
           entries' \in [Entry -> Copy \cup {None}],
           archive' = archive \/ \E e \in Entry, c \in Copy :
                                    c.status = "archived" /\ archive' = [archive EXCEPT ![e] = c],
           expired' \subseteq Entry, held' \subseteq Entry,
           retrievals' \subseteq Entry \X Reader \X Feedback,
           noticed' \in [Entry -> SUBSET Reader], spent' \in 0..MaxSpent
    PROVE  CacheInv'
<1>1. CacheTypeOK /\ archive \in [Entry -> Copy \cup {None}] /\ work \in [Worker -> Operation]
      /\ \A x \in Worker : InHand(work[x])
  BY DEF CacheInv
<1>2. work' \in [Worker -> Operation] /\ work'[w] = f /\ \A x \in Worker \ {w} : work'[x] = work[x]
  BY <1>1 DEF Go
<1>3. \A x \in Worker : InHand(work[x])'
  <2>1. SUFFICES ASSUME NEW x \in Worker PROVE InHand(work[x])'
    OBVIOUS
  <2>2. PICK y : y = work'[x] /\ InHand(y)
    BY <1>1, <1>2
  <2>3. QED
    BY <2>2 DEF InHand
<1>4. \A x \in Worker : /\ work'[x].copy \in Copy \cup {None} /\ work'[x].e \in Entry
                        /\ work'[x].at = "idle" => work'[x] = Resting
  <2>1. SUFFICES ASSUME NEW x \in Worker
                 PROVE  /\ work'[x].copy \in Copy \cup {None} /\ work'[x].e \in Entry
                        /\ work'[x].at = "idle" => work'[x] = Resting
    OBVIOUS
  <2>2. work'[x] \in Operation /\ InHand(work[x])'
    BY <1>2, <1>3
  <2>3. QED
    BY <2>2 DEF InHand, Operation
<1>5. /\ archive' \in [Entry -> Copy \cup {None}]
      /\ \A e \in Entry : archive'[e] = None \/ (archive'[e] \in Copy /\ archive'[e].status = "archived")
  BY <1>1 DEF CacheTypeOK
<1>6. CacheTypeOK'
  BY <1>4, <1>5 DEF CacheTypeOK
<1>7. QED
  BY <1>2, <1>3, <1>5, <1>6 DEF CacheInv

\* The same for a step that touches no log and no archive.
LEMMA HandCache ==
    ASSUME CacheInv, NEW w \in Worker, NEW f \in Operation, Go(w, f), InHand(f),
           entries' \in [Entry -> Copy \cup {None}], expired' \subseteq Entry,
           UNCHANGED <<archive, logs>>, spent' \in 0..MaxSpent
    PROVE  CacheInv'
<1>1. UNCHANGED <<archive, retrievals, held, noticed>>
  BY DEF logs
<1>2. QED
  BY <1>1, GoCache DEF CacheInv, CacheTypeOK

LEMMA EnterCache ==
    ASSUME CacheInv, NEW w \in Worker, NEW f \in Operation, Enter(w, f), InHand(f),
           UNCHANGED <<entries, archive, expired, logs>>
    PROVE  CacheInv'
<1>1. spent' \in 0..MaxSpent
  BY CacheAssumption DEF CacheInv, CacheTypeOK, Enter, Charge
<1>2. QED
  BY <1>1, HandCache DEF Enter, CacheInv, CacheTypeOK

\* What the actions begin with.
LEMMA BegunWork ==
    ASSUME NEW e \in Entry, NEW c \in Copy \cup {None},
           NEW job \in {"create", "deprecate", "retrieve", "quarantine", "archive", "cascade", "detect", "refresh"},
           NEW at \in {"write", "reload", "hold", "handler", "prune", "stale"},
           NEW todo \in SUBSET Entry, NEW snap \in [Entry -> Copy \cup {None}],
           NEW log \in SUBSET (Entry \X Reader \X Feedback), NEW f,
           f = [Resting EXCEPT !.job = job, !.at = at, !.e = e, !.copy = c,
                               !.todo = todo, !.snap = snap, !.log = log]
    PROVE  /\ f \in Operation /\ f.job = job /\ f.at = at /\ f.copy = c /\ f.todo = todo /\ f.snap = snap
BY RestingWork DEF Operation

LEMMA StartCache ==
    ASSUME CacheInv, NEW w \in Worker, NEW e \in Entry,
           \/ Create(w, e) \/ Deprecate(w, e) \/ Archive(w, e) \/ Cascade(w, e)
           \/ Detect(w) \/ Refresh(w)
           \/ \E handler \in BOOLEAN : Quarantine(w, e, handler)
    PROVE  CacheInv'
<1>0. UNCHANGED <<entries, archive, expired, logs>>
  BY DEF Create, Deprecate, Archive, Cascade, Detect, Refresh, Quarantine
<1>1. /\ None \in Copy \cup {None} /\ Found(e) \in Copy \cup {None} /\ entries[e] \in Copy \cup {None}
      /\ entries \in [Entry -> Copy \cup {None}] /\ Resting \in Operation
  BY CacheFound, RestingWork
<1>2. CASE Create(w, e)
  <2>1. PICK f : f = Begun("create", "write", e, None)
    OBVIOUS
  <2>2. f = [Resting EXCEPT !.job = "create", !.at = "write", !.e = e, !.copy = None]
    BY <2>1 DEF Begun
  <2>3. f \in Operation /\ f.at = "write" /\ f.job = "create" /\ f.copy = None
    BY <1>1, <2>2 DEF Operation
  <2>4. InHand(f)
    BY <2>3, NoneApart DEF InHand
  <2>5. QED
    BY <1>0, <1>2, <2>1, <2>3, <2>4, EnterCache DEF Create
<1>3. CASE Deprecate(w, e)
  <2>1. PICK f : f = Begun("deprecate", "write", e, Found(e))
    OBVIOUS
  <2>2. f = [Resting EXCEPT !.job = "deprecate", !.at = "write", !.e = e, !.copy = Found(e)]
    BY <2>1 DEF Begun
  <2>3. f \in Operation /\ f.at = "write" /\ f.job = "deprecate" /\ f.copy = Found(e)
    BY <1>1, <2>2 DEF Operation
  <2>4. Found(e) \in Copy /\ Found(e).status # "quarantined"
    BY <1>1, <1>3 DEF Deprecate, Deprecatable
  <2>5. InHand(f)
    BY <2>3, <2>4 DEF InHand
  <2>6. QED
    BY <1>0, <1>3, <2>1, <2>3, <2>5, EnterCache DEF Deprecate
<1>4. CASE Archive(w, e)
  <2>1. PICK f : f = [Begun("archive", "prune", e, None) EXCEPT !.todo = {e}]
    OBVIOUS
  <2>2. f \in Operation /\ f.at = "prune"
    BY <1>1, <2>1 DEF Operation, Begun
  <2>3. InHand(f)
    BY <2>2 DEF InHand
  <2>4. QED
    BY <1>0, <1>4, <2>1, <2>2, <2>3, EnterCache DEF Archive
<1>5. CASE Cascade(w, e)
  <2>1. PICK f : f = [Begun("cascade", "handler", e, None) EXCEPT !.snap[e] = entries[e]]
    OBVIOUS
  <2>2. f \in Operation /\ f.at = "handler"
    BY <1>1, <2>1 DEF Operation, Begun
  <2>3. InHand(f)
    BY <2>2 DEF InHand
  <2>4. QED
    BY <1>0, <1>5, <2>1, <2>2, <2>3, EnterCache DEF Cascade
<1>6. CASE Detect(w)
  <2>1. PICK low \in SUBSET Entry : Enter(w, [Resting EXCEPT !.job = "detect", !.at = "hold", !.todo = low])
    <3>1. {x \in Entry : entries[x].status = "active" /\ entries[x].trust < Floor} \in SUBSET Entry
      OBVIOUS
    <3>2. QED
      BY <1>6, <3>1 DEF Detect
  <2>2. PICK f : f = [Resting EXCEPT !.job = "detect", !.at = "hold", !.todo = low]
    OBVIOUS
  <2>3. f \in Operation /\ f.at = "hold"
    BY <1>1, <2>2 DEF Operation
  <2>4. InHand(f)
    BY <2>3 DEF InHand
  <2>5. QED
    BY <1>0, <2>1, <2>2, <2>3, <2>4, EnterCache
<1>7. CASE Refresh(w)
  <2>1. PICK f : f = [Resting EXCEPT !.job = "refresh", !.at = "stale", !.snap = entries,
                                     !.todo = Live(entries) \cap expired]
    OBVIOUS
  <2>2. Live(entries) \subseteq Entry
    BY DEF Live
  <2>3. f \in Operation /\ f.at = "stale" /\ f.snap = entries /\ f.todo = Live(entries) \cap expired
    BY <1>1, <2>1, <2>2 DEF Operation
  <2>4. InHand(f)
    BY <2>3 DEF InHand
  <2>5. QED
    BY <1>0, <1>7, <2>1, <2>3, <2>4, EnterCache DEF Refresh
<1>8. ASSUME NEW handler \in BOOLEAN, Quarantine(w, e, handler) PROVE CacheInv'
  <2>1. PICK f : f = [Begun("quarantine", IF handler THEN "handler" ELSE "hold", e, None)
                        EXCEPT !.todo = IF handler THEN {} ELSE {e}]
    OBVIOUS
  <2>2. f \in Operation /\ f.at \in {"handler", "hold"}
    BY <1>1, <2>1 DEF Operation, Begun
  <2>3. InHand(f)
    BY <2>2 DEF InHand
  <2>4. QED
    BY <1>0, <1>8, <2>1, <2>2, <2>3, EnterCache DEF Quarantine
<1>9. QED
  BY <1>2, <1>3, <1>4, <1>5, <1>6, <1>7, <1>8

LEMMA RetrieveCache ==
    ASSUME CacheInv, NEW w \in Worker, NEW e \in Entry, NEW r \in Reader, NEW f \in Feedback, Retrieve(w, e, r, f)
    PROVE  CacheInv'
<1>1. PICK x : x = [Begun("retrieve", "reload", e, None) EXCEPT !.log = {<<e, r, f>>}]
  OBVIOUS
<1>2. x \in Operation /\ x.at = "reload" /\ x.job = "retrieve"
  <2>1. PICK log \in SUBSET (Entry \X Reader \X Feedback) : log = {<<e, r, f>>}
    <3>1. {<<e, r, f>>} \in SUBSET (Entry \X Reader \X Feedback)
      OBVIOUS
    <3>2. QED
      BY <3>1
  <2>2. x = [Begun("retrieve", "reload", e, None) EXCEPT !.log = log]
    BY <1>1, <2>1
  <2>3. QED
    BY <2>1, <2>2, RestingWork DEF Operation, Begun
<1>3. InHand(x)
  BY <1>2 DEF InHand
<1>4. spent' \in 0..MaxSpent /\ Go(w, x) /\ UNCHANGED <<entries, archive, expired, held, noticed>>
  BY <1>1, CacheAssumption DEF CacheInv, CacheTypeOK, Retrieve, Enter, Charge
<1>5. retrievals' \subseteq Entry \X Reader \X Feedback
  BY DEF Retrieve, CacheInv, CacheTypeOK
<1>6. QED
  BY <1>2, <1>3, <1>4, <1>5, GoCache DEF CacheInv, CacheTypeOK

\* The steps that only read: the record they leave is again one that can be.
LEMMA LoadCache ==
    ASSUME CacheInv, NEW w \in Worker, Reload(w) \/ HoldRead(w) \/ HandlerRead(w) \/ ArchiveRead(w) \/ KillWork(w)
    PROVE  CacheInv'
<1>0. UNCHANGED <<entries, archive, expired, logs>>
  BY DEF Reload, HoldRead, HandlerRead, ArchiveRead, KillWork
<1>1. PICK x : x = work[w]
  OBVIOUS
<1>2. x \in Operation /\ InHand(x) /\ spent \in 0..MaxSpent /\ expired \subseteq Entry
  BY <1>1 DEF CacheInv, CacheTypeOK
<1>3. x.e \in Entry /\ x.todo \subseteq Entry /\ entries \in [Entry -> Copy \cup {None}]
      /\ x.log \subseteq Entry \X Reader \X Feedback
  BY <1>2 DEF Operation, CacheInv, CacheTypeOK
<1>4. ASSUME NEW f \in Operation, Go(w, f), InHand(f), spent' \in 0..MaxSpent PROVE CacheInv'
  BY <1>0, <1>2, <1>3, <1>4, HandCache
<1>5. InHand(Resting)
  BY RestingWork DEF InHand
<1>6. CASE Reload(w)
  <2>1. PICK c : c = Found(x.e)
    OBVIOUS
  <2>2. c \in Copy \cup {None}
    BY <1>3, <2>1, CacheFound
  <2>3. CASE c.status \in {"none", "archived"}
    BY <1>1, <1>2, <1>4, <1>5, <1>6, <2>1, <2>3, RestingWork DEF Reload, Rest
  <2>4. CASE ~(c.status \in {"none", "archived"})
    <3>1. c \in Copy
      BY <2>2, <2>4, NoneApart
    <3>2. {row[2] : row \in x.log} \subseteq Reader
      BY <1>3
    <3>3. PICK d : d = [c EXCEPT !.readers = @ \cup {row[2] : row \in x.log}]
      OBVIOUS
    <3>4. d \in Copy
      BY <3>1, <3>2, <3>3 DEF Copy
    <3>5. PICK f : f = [x EXCEPT !.at = "write", !.copy = d]
      OBVIOUS
    <3>6. f \in Operation /\ f.at = "write" /\ f.copy = d /\ f.job = x.job
      BY <1>2, <3>4, <3>5 DEF Operation
    <3>7. x.at = "reload" /\ Go(w, f)
      BY <1>1, <1>6, <2>1, <2>4, <3>3, <3>5 DEF Reload, At
    <3>8. InHand(f)
      BY <1>2, <3>4, <3>6, <3>7 DEF InHand
    <3>9. QED
      BY <1>2, <1>4, <1>6, <3>6, <3>7, <3>8 DEF Reload
  <2>5. QED
    BY <2>3, <2>4
<1>7. CASE HoldRead(w)
  <2>0. x.at = "hold" /\ spent' = spent
    BY <1>1, <1>7 DEF HoldRead, At
  <2>1. CASE x.todo = {} /\ x.job = "refresh"
    <3>1. PICK due \in SUBSET {y \in Entry : entries[y].status = "stale"} :
            Go(w, [Resting EXCEPT !.job = "refresh", !.at = "prune",
                     !.todo = due \cup {y \in Entry : entries[y].status = "deprecated"}])
      BY <1>1, <1>7, <2>1 DEF HoldRead, PruneOld
    <3>2. PICK f : f = [Resting EXCEPT !.job = "refresh", !.at = "prune",
                     !.todo = due \cup {y \in Entry : entries[y].status = "deprecated"}]
      OBVIOUS
    <3>3. due \cup {y \in Entry : entries[y].status = "deprecated"} \subseteq Entry
      OBVIOUS
    <3>4. f \in Operation /\ f.at = "prune"
      BY <3>2, <3>3, RestingWork DEF Operation
    <3>5. InHand(f)
      BY <3>4 DEF InHand
    <3>6. QED
      BY <1>2, <1>4, <2>0, <3>1, <3>2, <3>4, <3>5
  <2>2. CASE x.todo = {} /\ x.job # "refresh"
    BY <1>1, <1>2, <1>4, <1>5, <1>7, <2>0, <2>2, RestingWork DEF HoldRead, Rest
  <2>3. CASE x.todo # {}
    <3>1. PICK e \in x.todo : Go(w, IF Found(e) = None THEN [x EXCEPT !.todo = @ \ {e}, !.e = e]
                                    ELSE [[x EXCEPT !.todo = @ \ {e}, !.e = e]
                                            EXCEPT !.at = "held", !.copy = Found(e)])
      BY <1>1, <1>7, <2>3 DEF HoldRead
    <3>2. e \in Entry /\ Found(e) \in Copy \cup {None}
      BY <1>3, <3>1, CacheFound
    <3>3. PICK f : f = IF Found(e) = None THEN [x EXCEPT !.todo = @ \ {e}, !.e = e]
                       ELSE [[x EXCEPT !.todo = @ \ {e}, !.e = e] EXCEPT !.at = "held", !.copy = Found(e)]
      OBVIOUS
    <3>4. /\ f \in Operation
          /\ f.at = "hold" \/ (f.at = "held" /\ f.copy = Found(e) /\ Found(e) # None)
      BY <1>2, <1>3, <2>0, <3>2, <3>3 DEF Operation
    <3>5. InHand(f)
      BY <3>2, <3>4 DEF InHand
    <3>6. QED
      BY <1>2, <1>4, <2>0, <3>1, <3>3, <3>4, <3>5
  <2>4. QED
    BY <2>1, <2>2, <2>3
<1>8. CASE HandlerRead(w)
  <2>0. x.at = "handler" /\ spent' = spent
    BY <1>1, <1>8 DEF HandlerRead, At
  <2>1. PICK c : c = entries[x.e]
    OBVIOUS
  <2>2. PICK after \in {"suspect", "hold"} :
           Go(w, IF c.status \in {"none", "quarantined"} THEN [Owing(x) EXCEPT !.at = after]
                 ELSE [x EXCEPT !.at = "held", !.copy = c])
    BY <1>1, <1>8, <2>1 DEF HandlerRead
  <2>3. PICK f : f = IF c.status \in {"none", "quarantined"} THEN [Owing(x) EXCEPT !.at = after]
                     ELSE [x EXCEPT !.at = "held", !.copy = c]
    OBVIOUS
  <2>4. c \in Copy \cup {None} /\ (~(c.status \in {"none", "quarantined"}) => c \in Copy)
    BY <1>3, <2>1, NoneApart
  <2>5. f \in Operation /\ (f.at = after \/ (f.at = "held" /\ f.copy \in Copy))
    BY <1>2, <2>3, <2>4, OwingWork DEF Operation
  <2>6. InHand(f)
    BY <2>5 DEF InHand
  <2>7. QED
    BY <1>2, <1>4, <2>0, <2>2, <2>3, <2>5, <2>6
<1>9. CASE ArchiveRead(w)
  <2>0. x.at = "prune" /\ spent' = spent
    BY <1>1, <1>9 DEF ArchiveRead, At
  <2>1. CASE x.todo = {}
    BY <1>1, <1>2, <1>4, <1>5, <1>9, <2>0, <2>1, RestingWork DEF ArchiveRead, Rest
  <2>2. CASE x.todo # {}
    <3>1. PICK e \in x.todo : Go(w, IF entries[e].status \in {"none", "quarantined"}
                                    THEN [x EXCEPT !.todo = @ \ {e}, !.e = e]
                                    ELSE [[x EXCEPT !.todo = @ \ {e}, !.e = e]
                                            EXCEPT !.at = "file", !.copy = entries[e]])
      BY <1>1, <1>9, <2>2 DEF ArchiveRead
    <3>2. PICK c : c = entries[e]
      OBVIOUS
    <3>3. /\ e \in Entry /\ c \in Copy \cup {None}
          /\ ~(c.status \in {"none", "quarantined"}) => c \in Copy /\ c.status # "quarantined"
      BY <1>3, <3>1, <3>2, NoneApart
    <3>4. PICK f : f = IF c.status \in {"none", "quarantined"} THEN [x EXCEPT !.todo = @ \ {e}, !.e = e]
                       ELSE [[x EXCEPT !.todo = @ \ {e}, !.e = e] EXCEPT !.at = "file", !.copy = c]
      OBVIOUS
    <3>5. /\ f \in Operation
          /\ f.at = "prune" \/ (f.at = "file" /\ f.copy \in Copy /\ f.copy.status # "quarantined")
      BY <1>2, <1>3, <2>0, <3>3, <3>4 DEF Operation
    <3>6. InHand(f)
      BY <3>5 DEF InHand
    <3>7. QED
      BY <1>2, <1>4, <2>0, <3>1, <3>2, <3>4, <3>5, <3>6
  <2>3. QED
    BY <2>1, <2>2
<1>10. CASE KillWork(w)
  <2>1. spent' \in 0..MaxSpent
    BY <1>2, <1>10, CacheAssumption DEF KillWork, Charge
  <2>2. QED
    BY <1>4, <1>5, <1>10, <2>1, RestingWork DEF KillWork, Rest
<1>11. QED
  BY <1>6, <1>7, <1>8, <1>9, <1>10

\* The steps that write one entry's file.
LEMMA PutCache ==
    ASSUME CacheInv, NEW w \in Worker,
           Write(w) \/ HoldWrite(w) \/ HoldRow(w) \/ ArchiveFile(w) \/ ArchiveUnlink(w) \/ Suspect(w)
           \/ TraceEntry(w) \/ TraceLog(w) \/ Notify(w)
    PROVE  CacheInv'
<1>1. PICK x : x = work[w]
  OBVIOUS
<1>2. /\ x \in Operation /\ InHand(x) /\ spent \in 0..MaxSpent /\ expired \subseteq Entry /\ held \subseteq Entry
      /\ retrievals \subseteq Entry \X Reader \X Feedback /\ noticed \in [Entry -> SUBSET Reader]
      /\ spent' = spent
  BY <1>1 DEF CacheInv, CacheTypeOK, Write, HoldWrite, HoldRow, ArchiveFile, ArchiveUnlink, Suspect,
     TraceEntry, TraceLog, Notify
<1>3. x.e \in Entry /\ entries \in [Entry -> Copy \cup {None}] /\ x.copy \in Copy \cup {None}
      /\ x.snap \in [Entry -> Copy \cup {None}] /\ None \in Copy \cup {None}
  BY <1>2 DEF Operation, CacheInv, CacheTypeOK
<1>4. InHand(Resting)
  BY RestingWork DEF InHand
<1>5. ASSUME NEW c \in Copy \cup {None}, Put(x.e, c) PROVE entries' \in [Entry -> Copy \cup {None}]
  BY <1>3, <1>5 DEF Put
<1>6. ASSUME NEW c \in Copy, NEW s \in Status PROVE [c EXCEPT !.status = s] \in Copy
  BY DEF Copy
<1>7. CASE Write(w)
  <2>1. PICK c : c = Changed(x.job, x.copy)
    OBVIOUS
  <2>2. x.at = "write" /\ Put(x.e, c)
    BY <1>1, <1>7, <2>1 DEF Write, At
  <2>3. c \in Copy
    <3>1. CASE x.job = "create"
      BY <2>1, <3>1, NoneApart DEF Changed
    <3>2. CASE x.job = "retrieve"
      BY <1>2, <2>1, <2>2, <3>2 DEF Changed, InHand
    <3>3. CASE x.job = "deprecate"
      <4>1. x.copy \in Copy /\ c = [x.copy EXCEPT !.status = "deprecated"]
        BY <1>2, <2>1, <2>2, <3>3 DEF Changed, InHand
      <4>2. QED
        BY <1>6, <4>1 DEF Status
    <3>4. QED
      BY <1>2, <2>2, <3>1, <3>2, <3>3 DEF InHand
  <2>4. entries' \in [Entry -> Copy \cup {None}]
    BY <1>5, <2>2, <2>3
  <2>5. expired' \subseteq Entry
    BY <1>2, <1>7 DEF Write
  <2>6. QED
    BY <1>2, <1>4, <1>7, <2>4, <2>5, HandCache, RestingWork DEF Write, Rest
<1>8. CASE HoldWrite(w)
  <2>1. x.at = "held" /\ x.copy \in Copy /\ Put(x.e, [x.copy EXCEPT !.status = "quarantined"])
    BY <1>1, <1>2, <1>8 DEF HoldWrite, At, InHand
  <2>2. entries' \in [Entry -> Copy \cup {None}]
    BY <1>5, <1>6, <2>1 DEF Status
  <2>3. PICK f : f = [Owing(x) EXCEPT !.at = "row"]
    OBVIOUS
  <2>4. f \in Operation /\ f.at = "row"
    BY <1>2, <2>3, OwingWork DEF Operation
  <2>5. InHand(f)
    BY <2>4 DEF InHand
  <2>6. QED
    BY <1>1, <1>2, <1>8, <2>2, <2>3, <2>4, <2>5, HandCache DEF HoldWrite
<1>9. CASE HoldRow(w)
  <2>1. PICK next \in {"suspect", "hold"} : next = IF x.job = "cascade" THEN "suspect" ELSE "hold"
    OBVIOUS
  <2>2. PICK f : f = [x EXCEPT !.at = next, !.copy = None]
    OBVIOUS
  <2>3. f \in Operation /\ f.at = next
    BY <1>2, <1>3, <2>2 DEF Operation
  <2>4. InHand(f)
    BY <2>3 DEF InHand
  <2>5. Go(w, f) /\ held' = held \cup {x.e}
    BY <1>1, <1>9, <2>1, <2>2 DEF HoldRow
  <2>6. QED
    BY <1>2, <1>3, <1>9, <2>3, <2>4, <2>5, GoCache DEF HoldRow
<1>10. CASE ArchiveFile(w)
  <2>1. x.at = "file" /\ x.copy \in Copy /\ x.copy.status # "quarantined"
    BY <1>1, <1>2, <1>10 DEF ArchiveFile, At, InHand
  <2>2. PICK c : c = [x.copy EXCEPT !.status = "archived"]
    OBVIOUS
  <2>3. c \in Copy /\ c.status = "archived" /\ archive' = [archive EXCEPT ![x.e] = c]
    <3>1. c \in Copy
      BY <1>6, <2>1, <2>2 DEF Status
    <3>2. c.status = "archived"
      BY <2>1, <2>2 DEF Copy
    <3>3. QED
      BY <1>1, <1>10, <2>2, <3>1, <3>2 DEF ArchiveFile
  <2>4. PICK f : f = [x EXCEPT !.at = "unlink"]
    OBVIOUS
  <2>5. f \in Operation /\ f.at = "unlink" /\ f.copy = x.copy
    BY <1>2, <2>4 DEF Operation
  <2>6. InHand(f)
    BY <2>1, <2>5 DEF InHand
  <2>7. UNCHANGED <<entries, expired, retrievals, held, noticed, spent>> /\ Go(w, f)
    BY <1>1, <1>10, <2>4 DEF ArchiveFile, logs
  <2>8. QED
    BY <1>2, <1>3, <2>3, <2>5, <2>6, <2>7, GoCache
<1>11. CASE ArchiveUnlink(w)
  <2>1. PICK f : f = [x EXCEPT !.at = "prune", !.copy = None]
    OBVIOUS
  <2>2. f \in Operation /\ f.at = "prune"
    BY <1>2, <1>3, <2>1 DEF Operation
  <2>3. InHand(f)
    BY <2>2 DEF InHand
  <2>4. entries' \in [Entry -> Copy \cup {None}] /\ Go(w, f)
    BY <1>1, <1>3, <1>5, <1>11, <2>1 DEF ArchiveUnlink
  <2>5. QED
    BY <1>2, <1>11, <2>2, <2>3, <2>4, HandCache DEF ArchiveUnlink
<1>12. CASE Suspect(w)
  <2>1. PICK loaded : loaded = x.snap[x.e]
    OBVIOUS
  <2>2. entries' \in [Entry -> Copy \cup {None}]
    <3>1. CASE loaded = None
      BY <1>1, <1>3, <1>12, <2>1, <3>1 DEF Suspect
    <3>2. CASE loaded # None
      <4>1. Put(x.e, [loaded EXCEPT !.suspect = TRUE]) /\ loaded \in Copy
        BY <1>1, <1>3, <1>12, <2>1, <3>2 DEF Suspect
      <4>2. [loaded EXCEPT !.suspect = TRUE] \in Copy
        BY <4>1 DEF Copy
      <4>3. QED
        BY <1>5, <4>1, <4>2
    <3>3. QED
      BY <3>1, <3>2
  <2>3. PICK f : f = [x EXCEPT !.at = "trace"]
    OBVIOUS
  <2>4. f \in Operation /\ f.at = "trace"
    BY <1>2, <2>3 DEF Operation
  <2>5. InHand(f)
    BY <2>4 DEF InHand
  <2>6. QED
    BY <1>1, <1>2, <1>12, <2>2, <2>3, <2>4, <2>5, HandCache DEF Suspect
<1>13. CASE TraceEntry(w)
  <2>1. entries[x.e].readers \subseteq Reader
    BY <1>3 DEF Copy, None
  <2>2. PICK f : f = [x EXCEPT !.at = "tracelog", !.found = entries[x.e].readers]
    OBVIOUS
  <2>3. f \in Operation /\ f.at = "tracelog"
    BY <1>2, <2>1, <2>2 DEF Operation
  <2>4. InHand(f)
    BY <2>3 DEF InHand
  <2>5. QED
    BY <1>1, <1>2, <1>3, <1>13, <2>2, <2>3, <2>4, HandCache DEF TraceEntry
<1>14. CASE TraceLog(w)
  <2>1. Traced(x.e, x.found) \subseteq Reader
    BY <1>2 DEF Traced, Logged, Operation
  <2>2. PICK f : f = [x EXCEPT !.at = "notify", !.found = Traced(x.e, x.found)]
    OBVIOUS
  <2>3. f \in Operation /\ f.at = "notify"
    BY <1>2, <2>1, <2>2 DEF Operation
  <2>4. InHand(f)
    BY <2>3 DEF InHand
  <2>5. Go(w, f)
    BY <1>1, <1>2, <1>14, <2>2 DEF TraceLog, Operation
  <2>6. QED
    BY <1>2, <1>3, <1>14, <2>3, <2>4, <2>5, HandCache DEF TraceLog
<1>15. CASE Notify(w)
  <2>1. x.found \subseteq Reader
    BY <1>2 DEF Operation
  <2>2. noticed' \in [Entry -> SUBSET Reader]
    BY <1>1, <1>2, <1>3, <1>15, <2>1 DEF Notify
  <2>3. QED
    BY <1>2, <1>3, <1>4, <1>15, <2>2, GoCache, RestingWork DEF Notify, Rest
<1>16. QED
  BY <1>7, <1>8, <1>9, <1>10, <1>11, <1>12, <1>13, <1>14, <1>15

\* A score changes the trust of a copy and nothing else of it.
LEMMA VotesNat ==
    ASSUME NEW log, NEW e, NEW f
    PROVE  Votes(log, e, f) \in Nat
<1>1. PICK S \in SUBSET Reader : Votes(log, e, f) = Cardinality(S)
  BY DEF Votes
<1>2. IsFiniteSet(S)
  BY CacheAssumption, FS_Subset
<1>3. QED
  BY <1>1, <1>2, FS_CardinalityType

LEMMA ScoredCopy ==
    ASSUME NEW c \in Copy, NEW e, NEW log, NEW decay \in Decay
    PROVE  Scored(c, e, log, decay) \in Copy /\ Scored(c, e, log, decay).status = c.status
<1>1. PICK up, down : up = Votes(log, e, "positive") /\ down = Votes(log, e, "negative")
  OBVIOUS
<1>2. up \in Nat /\ down \in Nat /\ Inc \in Nat /\ Dec \in Nat /\ decay \in Nat
  BY <1>1, VotesNat, CacheAssumption
<1>3. PICK plus, minus : plus = Inc * up /\ minus = Dec * down
  OBVIOUS
<1>4. plus \in Int /\ minus \in Int
  BY <1>2, <1>3
<1>5. Scored(c, e, log, decay) = [c EXCEPT !.trust = @ + plus - minus - decay]
  BY <1>1, <1>3 DEF Scored
<1>6. QED
  BY <1>2, <1>4, <1>5 DEF Copy

\* A refresh writes over an entry the copy it loaded, staled or scored.
LEMMA RefreshCache ==
    ASSUME CacheInv, NEW w \in Worker, Stale(w) \/ Score(w)
    PROVE  /\ CacheInv'
           /\ \/ UNCHANGED entries
              \/ \E e \in Entry, c \in Copy : work[w].snap[e].status = "active" /\ Put(e, c)
<1>1. PICK x : x = work[w]
  OBVIOUS
<1>2. /\ x \in Operation /\ InHand(x) /\ spent \in 0..MaxSpent /\ expired \subseteq Entry
      /\ UNCHANGED <<archive, expired, logs, spent>>
  BY <1>1 DEF CacheInv, CacheTypeOK, Stale, Score
<1>3. /\ entries \in [Entry -> Copy \cup {None}] /\ x.snap \in [Entry -> Copy \cup {None}]
      /\ retrievals \subseteq Entry \X Reader \X Feedback /\ x.todo \subseteq Entry
  BY <1>2 DEF Operation, CacheInv, CacheTypeOK
<1>4. x.at \in {"stale", "score"} /\ x.todo \subseteq Live(x.snap)
  BY <1>1, <1>2 DEF Stale, Score, At, InHand
<1>5. CASE x.todo = {}
  <2>1. PICK next \in {"score", "hold"}, todo \in SUBSET Live(x.snap), log \in {{}, retrievals} :
           Go(w, [x EXCEPT !.at = next, !.todo = todo, !.log = log]) /\ UNCHANGED entries
    <3>1. CASE Stale(w)
      <4>1. Go(w, [x EXCEPT !.at = "score", !.todo = Live(x.snap), !.log = retrievals]) /\ UNCHANGED entries
        BY <1>1, <1>5, <3>1 DEF Stale
      <4>2. QED
        BY <4>1
    <3>2. CASE Score(w)
      <4>1. PICK todo \in SUBSET Live(x.snap) : todo = {e \in Live(x.snap) : x.snap[e].trust < Floor}
        <5>1. {e \in Live(x.snap) : x.snap[e].trust < Floor} \in SUBSET Live(x.snap)
          OBVIOUS
        <5>2. QED
          BY <5>1
      <4>2. Go(w, [x EXCEPT !.at = "hold", !.log = {}, !.todo = todo]) /\ UNCHANGED entries
        BY <1>1, <1>5, <3>2, <4>1 DEF Score
      <4>3. Go(w, [x EXCEPT !.at = "hold", !.todo = todo, !.log = {}])
        BY <1>2, <4>2 DEF Operation
      <4>4. QED
        BY <4>1, <4>2, <4>3
    <3>3. QED
      BY <3>1, <3>2
  <2>2. PICK f : f = [x EXCEPT !.at = next, !.todo = todo, !.log = log]
    OBVIOUS
  <2>3. todo \subseteq Entry
    BY <2>1 DEF Live
  <2>4. f \in Operation /\ f.at = next /\ f.todo = todo /\ f.snap = x.snap
    BY <1>2, <1>3, <2>1, <2>2, <2>3 DEF Operation
  <2>5. InHand(f)
    BY <2>1, <2>4 DEF InHand
  <2>6. QED
    BY <1>2, <1>3, <2>1, <2>2, <2>4, <2>5, HandCache
<1>6. CASE x.todo # {}
  <2>1. PICK e \in x.todo, c \in Copy :
           Put(e, c) /\ Go(w, [x EXCEPT !.todo = @ \ {e}, !.snap[e] = c])
    <3>1. ASSUME NEW e \in x.todo PROVE x.snap[e] \in Copy
      BY <1>3, <1>4, NoneApart DEF Live
    <3>2. CASE Stale(w)
      <4>1. PICK e \in x.todo : /\ Put(e, [x.snap[e] EXCEPT !.status = "stale"])
                                /\ Go(w, [x EXCEPT !.todo = @ \ {e}, !.snap[e] = [x.snap[e] EXCEPT !.status = "stale"]])
        BY <1>1, <1>6, <3>2 DEF Stale
      <4>2. [x.snap[e] EXCEPT !.status = "stale"] \in Copy
        <5>1. PICK d : d = x.snap[e] /\ d \in Copy
          BY <3>1
        <5>2. QED
          BY <5>1 DEF Copy, Status
      <4>3. QED
        BY <4>1, <4>2
    <3>3. CASE Score(w)
      <4>1. PICK e \in x.todo, decay \in Decay :
               /\ Put(e, Scored(x.snap[e], e, x.log, decay))
               /\ Go(w, [x EXCEPT !.todo = @ \ {e}, !.snap[e] = Scored(x.snap[e], e, x.log, decay)])
        BY <1>1, <1>6, <3>3 DEF Score
      <4>2. Scored(x.snap[e], e, x.log, decay) \in Copy
        BY <3>1, ScoredCopy
      <4>3. QED
        BY <4>1, <4>2
    <3>4. QED
      BY <3>2, <3>3
  <2>2. PICK f : f = [x EXCEPT !.todo = @ \ {e}, !.snap[e] = c]
    OBVIOUS
  <2>3. e \in Entry
    BY <1>3
  <2>4. /\ f \in Operation /\ f.at = x.at /\ f.todo = x.todo \ {e}
        /\ f.snap = [x.snap EXCEPT ![e] = c]
    BY <1>2, <1>3, <2>2, <2>3 DEF Operation
  <2>5. f.todo \subseteq Live(f.snap)
    BY <1>3, <1>4, <2>3, <2>4 DEF Live
  <2>6. InHand(f)
    BY <1>4, <2>4, <2>5 DEF InHand
  <2>7. entries' \in [Entry -> Copy \cup {None}]
    BY <1>3, <2>1, <2>3 DEF Put
  <2>8. x.snap[e].status = "active"
    BY <1>4, <2>1 DEF Live
  <2>9. QED
    BY <1>1, <1>2, <2>1, <2>2, <2>3, <2>4, <2>6, <2>7, <2>8, HandCache
<1>7. QED
  BY <1>5, <1>6

LEMMA CacheInitInv == CacheInit => CacheInv
<1> SUFFICES ASSUME CacheInit PROVE CacheInv
  OBVIOUS
<1>1. \A w \in Worker : work[w] = Resting
  BY DEF CacheInit
<1>2. work \in [Worker -> Operation]
  BY <1>1, RestingWork DEF CacheInit
<1>3. \A w \in Worker : InHand(work[w])
  BY <1>1, RestingWork DEF InHand
<1>4. \A w \in Worker : work[w].copy \in Copy \cup {None} /\ work[w].e \in Entry
  BY <1>2 DEF Operation
<1>5. CacheTypeOK
  BY <1>1, <1>4, CacheAssumption DEF CacheTypeOK, CacheInit
<1>6. QED
  BY <1>2, <1>3, <1>5 DEF CacheInv, CacheInit

LEMMA CacheStepInv == CacheInv /\ [CacheNext]_cacheVars => CacheInv'
<1> SUFFICES ASSUME CacheInv, [CacheNext]_cacheVars PROVE CacheInv'
  OBVIOUS
<1>1. CASE UNCHANGED cacheVars
  <2>1. UNCHANGED <<entries, archive, expired, retrievals, held, noticed, work, spent>>
    BY <1>1 DEF cacheVars, logs
  <2>2. QED
    BY <2>1 DEF CacheInv, CacheTypeOK, InHand
<1>2. ASSUME NEW e \in Entry, Expire(e) PROVE CacheInv'
  <2>1. UNCHANGED <<entries, archive, retrievals, held, noticed, work, spent>> /\ expired' = expired \cup {e}
    BY <1>2 DEF Expire, logs
  <2>2. QED
    BY <2>1 DEF CacheInv, CacheTypeOK, InHand
<1>3. ASSUME NEW w \in Worker, Detect(w) \/ Refresh(w) PROVE CacheInv'
  <2>1. PICK e : e \in Entry
    BY CacheAssumption
  <2>2. QED
    BY <1>3, <2>1, StartCache
<1>4. QED
  BY <1>1, <1>2, <1>3, StartCache, RetrieveCache, LoadCache, PutCache, RefreshCache DEF CacheNext, CacheStep

LEMMA CacheAlways == CacheSpec => []CacheInv
BY CacheInitInv, CacheStepInv, PTL DEF CacheSpec

\* Only six steps touch an entry's file, each of them the one operation whose it is.
LEMMA WhoseCache ==
    ASSUME CacheInv, NEW w \in Worker, NEW v \in Worker, NEW f, Go(v, f), work'[w] # work[w]
    PROVE  w = v
BY DEF Go, CacheInv

LEMMA WriterCache ==
    ASSUME CacheInv, CacheNext, NEW e \in Entry, entries'[e] # entries[e], NEW w \in Worker, work'[w] # work[w]
    PROVE  Write(w) \/ HoldWrite(w) \/ ArchiveUnlink(w) \/ Stale(w) \/ Score(w) \/ Suspect(w)
<1>1. PICK v \in Worker : Write(v) \/ HoldWrite(v) \/ ArchiveUnlink(v) \/ Stale(v) \/ Score(v) \/ Suspect(v)
  BY DEF CacheNext, CacheStep, Expire, Reload, HoldRead, HandlerRead, HoldRow, ArchiveRead, ArchiveFile,
         TraceEntry, TraceLog, Notify, KillWork, Detect, Refresh, Create, Deprecate, Archive, Cascade, Quarantine, Retrieve
<1>2. PICK f : Go(v, f)
  BY <1>1 DEF Write, Rest, HoldWrite, ArchiveUnlink, Stale, Score, Suspect
<1>3. QED
  BY <1>1, <1>2, WhoseCache

\* Whatever overlaps or is killed, an operation that undoes a quarantine holds a
\* copy of the entry from before it: no command that refuses quarantined entries
\* writes or unlinks one it has seen quarantined.
THEOREM QuarantineWasUnseen == CacheSpec => QuarantineSeen
<1>1. CacheInv /\ [CacheNext]_cacheVars =>
        [\A e \in Entry, w \in Worker :
           /\ entries[e].status = "quarantined" /\ entries'[e].status # "quarantined"
           /\ work'[w] # work[w]
           => Saw(w, e) # "quarantined"]_cacheVars
  <2> SUFFICES ASSUME CacheInv, CacheNext, NEW e \in Entry, NEW w \in Worker,
                      entries[e].status = "quarantined", entries'[e].status # "quarantined",
                      work'[w] # work[w]
               PROVE  Saw(w, e) # "quarantined"
    OBVIOUS
  <2>1. Write(w) \/ HoldWrite(w) \/ ArchiveUnlink(w) \/ Stale(w) \/ Score(w) \/ Suspect(w)
    BY WriterCache
  <2>2. PICK x : x = work[w]
    OBVIOUS
  <2>3. x \in Operation /\ InHand(x) /\ x.copy \in Copy \cup {None} /\ entries \in [Entry -> Copy \cup {None}]
    BY <2>2 DEF CacheInv, CacheTypeOK
  <2>4. ASSUME NEW y, NEW c, Put(y, c) PROVE y = e /\ entries'[e] = c
    BY <2>3, <2>4 DEF Put
  <2>5. CASE Write(w)
    <3>1. x.at = "write" /\ x.e = e /\ entries'[e] = Changed(x.job, x.copy)
      BY <2>2, <2>4, <2>5 DEF Write, At
    <3>2. x.copy.status # "quarantined"
      <4>1. CASE x.job = "retrieve"
        BY <3>1, <4>1 DEF Changed
      <4>2. CASE x.job = "deprecate"
        BY <2>3, <3>1, <4>2 DEF InHand
      <4>3. CASE x.job = "create"
        BY <2>3, <3>1, <4>3 DEF InHand
      <4>4. QED
        BY <2>3, <3>1, <4>1, <4>2, <4>3 DEF InHand
    <3>3. QED
      BY <2>2, <3>1, <3>2 DEF Saw
  <2>6. CASE HoldWrite(w)
    <3>1. x.at = "held" /\ x.copy \in Copy /\ entries'[e] = [x.copy EXCEPT !.status = "quarantined"]
      BY <2>2, <2>3, <2>4, <2>6 DEF HoldWrite, At, InHand
    <3>2. QED
      BY <3>1 DEF Copy
  <2>7. CASE ArchiveUnlink(w)
    BY <2>2, <2>3, <2>7 DEF ArchiveUnlink, At, InHand, Saw
  <2>8. CASE Stale(w) \/ Score(w)
    <3>1. PICK y \in Entry, c \in Copy : x.snap[y].status = "active" /\ Put(y, c)
      BY <2>2, <2>8, RefreshCache
    <3>2. x.at \in {"stale", "score"}
      BY <2>2, <2>8 DEF Stale, Score, At
    <3>. y = e
      BY <2>4, <3>1
    <3>3. QED
      BY <2>2, <3>1, <3>2 DEF Saw
  <2>9. CASE Suspect(w)
    <3>1. PICK loaded : loaded = x.snap[x.e]
      OBVIOUS
    <3>2. x.at = "suspect" /\ x.e = e /\ entries'[e] = [loaded EXCEPT !.suspect = TRUE] /\ loaded # None
      BY <2>2, <2>4, <2>9, <3>1 DEF Suspect, At
    <3>3. loaded \in Copy
      BY <2>3, <3>1, <3>2 DEF Operation
    <3>4. entries'[e].status = loaded.status
      BY <3>2, <3>3 DEF Copy
    <3>5. QED
      BY <2>2, <3>1, <3>2, <3>4 DEF Saw
  <2>10. QED
    BY <2>1, <2>5, <2>6, <2>7, <2>8, <2>9
<1>2. QED
  BY <1>1, CacheAlways, PTL DEF CacheSpec, QuarantineSeen

\* What a cascade owes, step by step.
Early == {"idle", "write", "reload", "hold", "handler", "held", "prune", "file", "unlink", "stale", "score"}

LEMMA EarlySteps ==
    ASSUME CacheInv, NEW w \in Worker,
           \/ Reload(w) \/ Write(w) \/ HoldRead(w) \/ ArchiveRead(w) \/ ArchiveFile(w)
           \/ ArchiveUnlink(w) \/ Stale(w) \/ Score(w) \/ Notify(w) \/ KillWork(w)
           \/ Detect(w) \/ Refresh(w)
           \/ \E e \in Entry :
                \/ Create(w, e) \/ Deprecate(w, e) \/ Archive(w, e) \/ Cascade(w, e)
                \/ \E handler \in BOOLEAN : Quarantine(w, e, handler)
                \/ \E r \in Reader, f \in Feedback : Retrieve(w, e, r, f)
    PROVE  work'[w].at \in Early
<1>0. work \in [Worker -> Operation] /\ work[w] \in Operation /\ Resting \in Operation /\ Resting.at = "idle"
  BY RestingWork DEF CacheInv
<1>1. ASSUME NEW f, Go(w, f) PROVE work'[w] = f
  BY <1>0, <1>1 DEF Go
<1>2. CASE Write(w) \/ Notify(w) \/ KillWork(w)
  BY <1>0, <1>1, <1>2 DEF Write, Notify, KillWork, Rest, Early
<1>3. CASE Reload(w)
  <2>1. PICK f : Go(w, f) /\ (f = Resting \/ f.at = "write")
    <3>1. CASE Rest(w)
      BY <3>1 DEF Rest
    <3>2. ASSUME NEW c, Go(w, [work[w] EXCEPT !.at = "write", !.copy = c])
          PROVE  \E f : Go(w, f) /\ (f = Resting \/ f.at = "write")
      <4>1. [work[w] EXCEPT !.at = "write", !.copy = c].at = "write"
        BY <1>0 DEF Operation
      <4>2. QED
        BY <3>2, <4>1
    <3>3. QED
      BY <1>3, <3>1, <3>2 DEF Reload
  <2>2. QED
    BY <1>0, <1>1, <2>1 DEF Early
<1>4. CASE HoldRead(w)
  <2>1. CASE work[w].todo = {}
    <3>1. CASE PruneOld(w)
      BY <1>0, <1>1, <3>1 DEF PruneOld, Operation, Early
    <3>2. CASE Rest(w)
      BY <1>0, <1>1, <3>2 DEF Rest, Early
    <3>3. QED
      BY <1>4, <2>1, <3>1, <3>2 DEF HoldRead
  <2>2. CASE work[w].todo # {}
    BY <1>0, <1>1, <1>4, <2>2 DEF HoldRead, Operation, Early, At
  <2>3. QED
    BY <2>1, <2>2
<1>5. CASE ArchiveRead(w)
  BY <1>0, <1>1, <1>5 DEF ArchiveRead, Operation, Early, At, Rest
<1>6. CASE ArchiveFile(w) \/ ArchiveUnlink(w)
  BY <1>0, <1>1, <1>6 DEF ArchiveFile, ArchiveUnlink, Operation, Early
<1>7. CASE Stale(w)
  BY <1>0, <1>1, <1>7 DEF Stale, Operation, Early, At
<1>8. CASE Score(w)
  <2>1. ASSUME NEW e, NEW c, Go(w, [work[w] EXCEPT !.todo = @ \ {e}, !.snap[e] = c]), At(w, "score")
        PROVE  work'[w].at \in Early
    BY <1>0, <1>1, <2>1 DEF Operation, Early, At
  <2>2. CASE work[w].todo = {}
    BY <1>0, <1>1, <1>8, <2>2 DEF Score, Operation, Early
  <2>3. QED
    BY <1>8, <2>1, <2>2 DEF Score
<1>9. CASE Detect(w) \/ Refresh(w)
  BY <1>0, <1>1, <1>9 DEF Detect, Refresh, Enter, Operation, Early
<1>10. ASSUME NEW e \in Entry,
              \/ Create(w, e) \/ Deprecate(w, e) \/ Archive(w, e) \/ Cascade(w, e)
              \/ \E handler \in BOOLEAN : Quarantine(w, e, handler)
              \/ \E r \in Reader, f \in Feedback : Retrieve(w, e, r, f)
       PROVE  work'[w].at \in Early
  <2>1. ASSUME NEW job, NEW at \in Early, NEW c PROVE Begun(job, at, e, c).at = at
    BY <1>0 DEF Begun, Operation
  <2>2. CASE Create(w, e) \/ Deprecate(w, e)
    BY <1>1, <2>1, <2>2 DEF Create, Deprecate, Enter, Early
  <2>3. CASE Archive(w, e) \/ Cascade(w, e)
    BY <1>0, <1>1, <2>3 DEF Archive, Cascade, Enter, Begun, Operation, Early
  <2>4. CASE \E handler \in BOOLEAN : Quarantine(w, e, handler)
    BY <1>0, <1>1, <2>4 DEF Quarantine, Enter, Begun, Operation, Early
  <2>5. CASE \E r \in Reader, f \in Feedback : Retrieve(w, e, r, f)
    BY <1>0, <1>1, <2>5 DEF Retrieve, Enter, Begun, Operation, Early
  <2>6. QED
    BY <1>10, <2>2, <2>3, <2>4, <2>5
<1>11. QED
  BY <1>2, <1>3, <1>4, <1>5, <1>6, <1>7, <1>8, <1>9, <1>10

LEMMA OwesStep ==
    ASSUME CacheInv, \A w \in Worker : Owes(work[w]), [CacheNext]_cacheVars
    PROVE  \A w \in Worker : Owes(work[w])'
<1>1. \A e : Logged(e) \subseteq Logged(e)'
  <2>1. retrievals \subseteq retrievals'
    BY DEF CacheNext, CacheStep, Expire, Reload, Write, HoldRead, HandlerRead, HoldWrite, HoldRow,
           ArchiveRead, ArchiveFile, ArchiveUnlink, Stale, Score, Suspect, TraceEntry, TraceLog, Notify,
           KillWork, Detect, Refresh, Create, Deprecate, Archive, Cascade, Quarantine, Retrieve, logs,
           cacheVars
  <2>2. QED
    BY <2>1 DEF Logged
<1>2. SUFFICES ASSUME NEW v \in Worker PROVE Owes(work[v])'
  OBVIOUS
<1>3. PICK x : x = work[v]
  OBVIOUS
<1>4. x \in Operation /\ Owes(x) /\ work \in [Worker -> Operation]
  BY <1>3 DEF CacheInv
<1>5. ASSUME work'[v] = x PROVE Owes(work[v])'
  BY <1>1, <1>4, <1>5 DEF Owes
<1>6. ASSUME work'[v].at \in Early PROVE Owes(work[v])'
  BY <1>6 DEF Owes, Early
<1>7. ASSUME NEW f, Go(v, f), retrievals' = retrievals, Owes(f) PROVE Owes(work[v])'
  <2>1. work'[v] = f
    BY <1>4, <1>7 DEF Go
  <2>2. QED
    BY <1>7, <2>1 DEF Owes, Logged
<1>8. CASE HandlerRead(v)
  <2>1. PICK after \in {"suspect", "hold"} : after = IF x.job = "cascade" THEN "suspect" ELSE "hold"
    OBVIOUS
  <2>2. CASE Go(v, [Owing(x) EXCEPT !.at = after])
    <3>1. PICK f : f = [Owing(x) EXCEPT !.at = after]
      OBVIOUS
    <3>2. Owing(x) \in Operation /\ (x.job = "cascade" => Owing(x).owed = Logged(x.e)) /\ Owing(x).e = x.e
          /\ Owing(x).job = x.job
      BY <1>4, OwingWork DEF Owing, Operation
    <3>3. f.at = after /\ f.owed = Owing(x).owed /\ f.e = x.e /\ f.job = x.job
      BY <3>1, <3>2 DEF Operation
    <3>4. Owes(f)
      BY <2>1, <3>2, <3>3 DEF Owes
    <3>5. QED
      BY <1>7, <1>8, <2>2, <3>1, <3>4 DEF HandlerRead, logs
  <2>3. ASSUME NEW c, Go(v, [x EXCEPT !.at = "held", !.copy = c]) PROVE Owes(work[v])'
    BY <1>4, <1>6, <2>3 DEF Go, Operation, Early
  <2>4. QED
    BY <1>3, <1>8, <2>1, <2>2, <2>3 DEF HandlerRead
<1>9. CASE HoldWrite(v)
  <2>1. PICK f : f = [Owing(x) EXCEPT !.at = "row"]
    OBVIOUS
  <2>2. Owing(x) \in Operation /\ (x.job = "cascade" => Owing(x).owed = Logged(x.e)) /\ Owing(x).e = x.e
        /\ Owing(x).job = x.job
    BY <1>4, OwingWork DEF Owing, Operation
  <2>3. f.at = "row" /\ f.owed = Owing(x).owed /\ f.e = x.e /\ f.job = x.job
    BY <2>1, <2>2 DEF Operation
  <2>4. Owes(f)
    BY <2>2, <2>3 DEF Owes
  <2>5. QED
    BY <1>3, <1>7, <1>9, <2>1, <2>4 DEF HoldWrite, logs
<1>10. CASE HoldRow(v)
  <2>1. PICK f : f = [x EXCEPT !.at = IF x.job = "cascade" THEN "suspect" ELSE "hold", !.copy = None]
    OBVIOUS
  <2>2. /\ f.at = (IF x.job = "cascade" THEN "suspect" ELSE "hold")
        /\ f.owed = x.owed /\ f.e = x.e /\ f.job = x.job /\ x.at = "row"
    BY <1>3, <1>4, <1>10, <2>1 DEF Operation, HoldRow, At
  <2>3. Owes(f)
    BY <1>4, <2>2 DEF Owes
  <2>4. QED
    BY <1>3, <1>7, <1>10, <2>1, <2>3 DEF HoldRow
<1>11. CASE Suspect(v)
  <2>1. PICK f : f = [x EXCEPT !.at = "trace"]
    OBVIOUS
  <2>2. f.at = "trace" /\ f.owed = x.owed /\ f.e = x.e /\ f.job = x.job /\ x.at = "suspect"
    BY <1>3, <1>4, <1>11, <2>1 DEF Operation, Suspect, At
  <2>3. Owes(f)
    BY <1>4, <2>2 DEF Owes
  <2>4. QED
    BY <1>3, <1>7, <1>11, <2>1, <2>3 DEF Suspect, logs
<1>12. CASE TraceEntry(v)
  <2>1. PICK f : f = [x EXCEPT !.at = "tracelog", !.found = entries[x.e].readers]
    OBVIOUS
  <2>2. f.at = "tracelog" /\ f.owed = x.owed /\ f.e = x.e /\ f.job = x.job /\ x.at = "trace"
    BY <1>3, <1>4, <1>12, <2>1 DEF Operation, TraceEntry, At
  <2>3. Owes(f)
    BY <1>4, <2>2 DEF Owes
  <2>4. QED
    BY <1>3, <1>7, <1>12, <2>1, <2>3 DEF TraceEntry, logs
<1>13. CASE TraceLog(v)
  <2>1. PICK f : f = [x EXCEPT !.at = "notify", !.found = Traced(x.e, x.found)]
    OBVIOUS
  <2>2. /\ f.at = "notify" /\ f.owed = x.owed /\ f.e = x.e /\ f.job = x.job /\ x.at = "tracelog"
        /\ f.found = x.found \cup Logged(x.e)
    BY <1>3, <1>4, <1>13, <2>1 DEF Operation, TraceLog, At, Traced
  <2>3. Owes(f)
    BY <1>4, <2>2 DEF Owes
  <2>4. Go(v, f)
    BY <1>3, <1>4, <1>13, <2>1 DEF TraceLog, Operation
  <2>5. QED
    BY <1>7, <1>13, <2>3, <2>4 DEF TraceLog, logs
<1>14. ASSUME NEW w \in Worker, w # v, NEW f, Go(w, f) PROVE Owes(work[v])'
  BY <1>3, <1>4, <1>5, <1>14 DEF Go
<1>15. CASE UNCHANGED work
  BY <1>3, <1>5, <1>15
<1>16. ASSUME NEW w \in Worker, w # v,
              \/ CacheStep(w) \/ KillWork(w) \/ Detect(w) \/ Refresh(w)
              \/ \E e \in Entry :
                  \/ Create(w, e) \/ Deprecate(w, e) \/ Archive(w, e) \/ Cascade(w, e)
                  \/ \E handler \in BOOLEAN : Quarantine(w, e, handler)
                  \/ \E r \in Reader, f \in Feedback : Retrieve(w, e, r, f)
       PROVE  Owes(work[v])'
  <2>1. \E f : Go(w, f)
    BY <1>16 DEF CacheStep, Reload, Write, HoldRead, PruneOld, HandlerRead, HoldWrite, HoldRow,
           ArchiveRead, ArchiveFile, ArchiveUnlink, Stale, Score, Suspect, TraceEntry, TraceLog, Notify,
           KillWork, Detect, Refresh, Create, Deprecate, Archive, Cascade, Quarantine, Retrieve, Enter, Rest
  <2>2. QED
    BY <1>14, <1>16, <2>1
<1>17. QED
  BY <1>6, <1>8, <1>9, <1>10, <1>11, <1>12, <1>13, <1>15, <1>16, EarlySteps
     DEF CacheNext, CacheStep, Expire, cacheVars

LEMMA OwesAlways == CacheSpec => [](CacheInv /\ \A w \in Worker : Owes(work[w]))
<1> DEFINE Owed == \A w \in Worker : Owes(work[w])
<1>1. CacheInit => Owed
  BY RestingWork DEF CacheInit, Owes
<1>2. CacheInv /\ Owed /\ [CacheNext]_cacheVars => Owed'
  BY OwesStep DEF Owed
<1>3. QED
  BY <1>1, <1>2, CacheAlways, PTL DEF CacheSpec

\* A cascade that comes to its end has made out a notice for everyone whose retrieval
\* was logged before the entry was in quarantine: that row stays in the log until the
\* trace reads it, whatever becomes of the entry's own log meanwhile.
THEOREM ReadersAreNoticed == CacheSpec => AllNoticed
<1>1. CacheInv /\ (\A w \in Worker : Owes(work[w])) /\ [CacheNext]_cacheVars =>
        [\A w \in Worker : Notify(w) => work[w].owed \subseteq noticed'[work[w].e]]_cacheVars
  <2> SUFFICES ASSUME CacheInv, NEW w \in Worker, Owes(work[w]), Notify(w)
               PROVE  work[w].owed \subseteq noticed'[work[w].e]
    OBVIOUS
  <2>1. noticed \in [Entry -> SUBSET Reader] /\ work[w].e \in Entry
    BY DEF CacheInv, CacheTypeOK
  <2>2. work[w].owed \subseteq work[w].found
    BY DEF Notify, At, Owes
  <2>3. CASE work[w].found = {}
    BY <2>2, <2>3
  <2>4. CASE work[w].found # {}
    BY <2>1, <2>2, <2>4 DEF Notify
  <2>5. QED
    BY <2>3, <2>4
<1>2. QED
  BY <1>1, OwesAlways, PTL DEF CacheSpec, AllNoticed

-----------------------------------------------------------------------------
(* The components together *)

\* A part that does not move takes a step of its own specification, a stutter.
LEMMA CivicSteps ==
    ASSUME [CivicNext]_civicVars
    PROVE  /\ [SignalNext]_signalVars /\ [RayNext]_rayVars /\ [BootNext]_bootVars
           /\ [SyncNext]_syncVars /\ [CacheNext]_cacheVars
BY DEF CivicNext, civicVars, RestSignal, RestRay, RestBoot, RestSync, RestCache

\* Every behaviour of the components together is one of each component: what is
\* proved of a component holds of what the runs explore.
THEOREM EachPartRuns == CivicSpec => SignalSpec /\ RaySpec /\ BootSpec /\ SyncSpec /\ CacheSpec
<1>1. CivicInit => SignalInit /\ RayInit /\ BootInit /\ SyncInit /\ CacheInit
  BY DEF CivicInit
<1>2. [CivicNext]_civicVars =>
        /\ [SignalNext]_signalVars /\ [RayNext]_rayVars /\ [BootNext]_bootVars
        /\ [SyncNext]_syncVars /\ [CacheNext]_cacheVars
  BY CivicSteps
<1>3. QED
  BY <1>1, <1>2, PTL DEF CivicSpec, SignalSpec, RaySpec, BootSpec, SyncSpec, CacheSpec

LEMMA RayAlways == RaySpec => []RayTypeOK
BY RayInitTypes, RayStepTypes, PTL DEF RaySpec

\* In the components together, every variable holds what its declaration says.
THEOREM CivicTypes == CivicSpec => []CivicTypeOK
<1>1. SyncInv => SyncTypeOK
  BY DEF SyncInv
<1>2. CacheInv => CacheTypeOK
  BY DEF CacheInv
<1>3. SignalTypeOK /\ RayTypeOK /\ BootTypeOK /\ SyncTypeOK /\ CacheTypeOK => CivicTypeOK
  BY DEF CivicTypeOK
<1>4. QED
  BY <1>1, <1>2, <1>3, EachPartRuns, ManifoldTypes, RayAlways, BootTypes, SyncAlways, CacheAlways, PTL
=============================================================================
