------------------------------ MODULE PenPalCache ------------------------------
(* The pen pal cache: cache-ops.py's entries, retrieval log, refresh cycle and *)
(* anomaly scan, and contamination-handler.py's quarantine and purge cascade.  *)
(* Every operation reads a whole entry, changes the copy and writes it back;   *)
(* only the logs are appended under a lock. Operations overlap and are killed  *)
(* between two steps.                                                          *)
EXTENDS Integers, FiniteSets

CONSTANTS
    Entry,          \* content-addressed ids
    Reader, Author, \* entities that retrieve; those of them who wrote the entries
    Worker,         \* operations under way
    Floor,          \* trust_floor; in the same unit:
    Inc, Dec, Decay,  \* trust_increment, trust_decrement, the decays of one cycle
    MaxSpent        \* bound: operations and kills together

ASSUME CacheAssumption ==
    /\ Entry # {} /\ IsFiniteSet(Reader) /\ Author \subseteq Reader /\ Floor \in Int
    /\ {Inc, Dec, MaxSpent} \subseteq Nat /\ Decay \subseteq Nat

Status == {"active", "stale", "quarantined", "deprecated", "archived"}
Feedback == {"none", "positive", "negative"}
Copy == [status : Status, trust : Int, readers : SUBSET Reader, suspect : BOOLEAN]
None == [status |-> "none", trust |-> 0, readers |-> {}, suspect |-> FALSE]
Fresh == [None EXCEPT !.status = "active"]

VARIABLES
    entries,    \* entries/<id>.json, None where there is no file
    archive,    \* archive/<id>.json
    expired,    \* entries past their ttl
    retrievals, \* retrieval.jsonl
    held,       \* entries with a row in quarantine.jsonl
    work,       \* per worker
    noticed,    \* per entry: whom the last cascade wrote notices for
    spent       \* operations and kills so far

logs == <<retrievals, held, noticed>>
cacheVars == <<entries, archive, expired, logs, work, spent>>

\* An operation's step, the copy in hand of the entry it is at, the entries left
\* in this phase, the entries and log rows it loaded or wrote, and the readers its
\* trace has found. History: whose retrieval was logged when a cascade's entry was
\* first in quarantine.
Resting == [job |-> "none", at |-> "idle", e |-> CHOOSE e \in Entry : TRUE, copy |-> None,
            todo |-> {}, snap |-> [e \in Entry |-> None], log |-> {}, found |-> {}, owed |-> {}]

\* Every variable holds what its comment says; an archive file says archived.
CacheTypeOK ==
    /\ entries \in [Entry -> Copy \cup {None}]
    /\ \A e \in Entry : archive[e] = None \/ (archive[e] \in Copy /\ archive[e].status = "archived")
    /\ expired \subseteq Entry /\ held \subseteq Entry
    /\ retrievals \subseteq Entry \X Reader \X Feedback
    /\ \A w \in Worker : /\ work[w].copy \in Copy \cup {None} /\ work[w].e \in Entry
                         /\ work[w].at = "idle" => work[w] = Resting
    /\ noticed \in [Entry -> SUBSET Reader] /\ spent \in 0..MaxSpent

Found(e) == IF entries[e] # None THEN entries[e] ELSE archive[e]  \* read_entry
Put(e, c) == entries' = [entries EXCEPT ![e] = c]

Go(w, x) == work' = [work EXCEPT ![w] = x]
At(w, at) == work[w].at = at
Rest(w) == Go(w, Resting)
Charge == spent < MaxSpent /\ spent' = spent + 1
Enter(w, x) == At(w, "idle") /\ Charge /\ Go(w, x)
Logged(e) == {r \in Reader : \E f \in Feedback : <<e, r, f>> \in retrievals}
Owing(x) == IF x.job = "cascade" THEN [x EXCEPT !.owed = Logged(x.e)] ELSE x
Begun(job, at, e, c) == [Resting EXCEPT !.job = job, !.at = at, !.e = e, !.copy = c]

(***************************************************************************)
(* Commands on one entry. Found is read as the operation begins.            *)
(***************************************************************************)
\* An id whose file exists is returned as it is.
Create(w, e) ==
    /\ entries[e] = None
    /\ Enter(w, Begun("create", "write", e, None))
    /\ UNCHANGED <<entries, archive, expired, logs>>

\* Bug: the guard left out.
DeprecatableAlways(c) == c # None
Deprecatable(c) == c # None /\ c.status # "quarantined"
Deprecate(w, e) ==
    /\ Deprecatable(Found(e))
    /\ Enter(w, Begun("deprecate", "write", e, Found(e)))
    /\ UNCHANGED <<entries, archive, expired, logs>>

\* log_retrieval: the log row, then the entry's own log.
Retrieve(w, e, r, f) ==
    /\ Found(e) # None /\ <<e, r, f>> \notin retrievals  \* bound: each row once
    /\ Enter(w, [Begun("retrieve", "reload", e, None) EXCEPT !.log = {<<e, r, f>>}])
    /\ retrievals' = retrievals \cup {<<e, r, f>>}
    /\ UNCHANGED <<entries, archive, expired, held, noticed>>

Reload(w) ==
    /\ At(w, "reload")
    /\ LET c == Found(work[w].e)
       IN IF c.status \in {"none", "archived"} THEN Rest(w)
          ELSE Go(w, [work[w] EXCEPT !.at = "write",
                                     !.copy = [c EXCEPT !.readers = @ \cup {row[2] : row \in work[w].log}]])
    /\ UNCHANGED <<entries, archive, expired, logs, spent>>

\* _write_entry. A created file has a ttl of its own.
Changed(job, c) ==
    CASE job = "create" -> Fresh [] job = "retrieve" -> c
      [] job = "deprecate" -> [c EXCEPT !.status = "deprecated"]
Write(w) ==
    /\ At(w, "write")
    /\ Put(work[w].e, Changed(work[w].job, work[w].copy)) /\ Rest(w)
    /\ expired' = IF work[w].job = "create" THEN expired \ {work[w].e} ELSE expired
    /\ UNCHANGED <<archive, logs, spent>>

Expire(e) ==
    /\ entries[e] # None /\ e \notin expired
    /\ expired' = expired \cup {e}
    /\ UNCHANGED <<entries, archive, logs, work, spent>>

(***************************************************************************)
(* Quarantine and archiving, of one entry or of the entries a scan chose.   *)
(***************************************************************************)
\* The refresh goes on to archive what is deprecated or has been stale long enough.
PruneOld(w) ==
    \E due \in SUBSET {e \in Entry : entries[e].status = "stale"} :
        Go(w, [Resting EXCEPT !.job = "refresh", !.at = "prune",
                 !.todo = due \cup {e \in Entry : entries[e].status = "deprecated"}])

\* quarantine_entry takes an archived copy too; the handler's quarantine only a
\* file of entries/ not yet quarantined. Then the write, then the log row.
HoldRead(w) ==
    /\ At(w, "hold")
    /\ IF work[w].todo = {} THEN IF work[w].job = "refresh" THEN PruneOld(w) ELSE Rest(w)
       ELSE \E e \in work[w].todo :
            LET next == [work[w] EXCEPT !.todo = @ \ {e}, !.e = e]
            IN Go(w, IF Found(e) = None THEN next
                     ELSE [next EXCEPT !.at = "held", !.copy = Found(e)])
    /\ UNCHANGED <<entries, archive, expired, logs, spent>>

HandlerRead(w) ==
    /\ At(w, "handler")
    /\ LET c == entries[work[w].e]
           after == IF work[w].job = "cascade" THEN "suspect" ELSE "hold"
       IN Go(w, IF c.status \in {"none", "quarantined"} THEN [Owing(work[w]) EXCEPT !.at = after]
                ELSE [work[w] EXCEPT !.at = "held", !.copy = c])
    /\ UNCHANGED <<entries, archive, expired, logs, spent>>

HoldWrite(w) ==
    /\ At(w, "held")
    /\ Put(work[w].e, [work[w].copy EXCEPT !.status = "quarantined"])
    /\ Go(w, [Owing(work[w]) EXCEPT !.at = "row"])
    /\ UNCHANGED <<archive, expired, logs, spent>>

HoldRow(w) ==
    /\ At(w, "row")
    /\ held' = held \cup {work[w].e}
    /\ Go(w, [work[w] EXCEPT !.at = IF work[w].job = "cascade" THEN "suspect" ELSE "hold",
                             !.copy = None])
    /\ UNCHANGED <<entries, archive, expired, retrievals, noticed, spent>>

\* archive_entry: a quarantined entry is refused. Then its two file operations.
ArchiveRead(w) ==
    /\ At(w, "prune")
    /\ IF work[w].todo = {} THEN Rest(w)
       ELSE \E e \in work[w].todo :
            LET next == [work[w] EXCEPT !.todo = @ \ {e}, !.e = e]
            IN Go(w, IF entries[e].status \in {"none", "quarantined"} THEN next
                     ELSE [next EXCEPT !.at = "file", !.copy = entries[e]])
    /\ UNCHANGED <<entries, archive, expired, logs, spent>>

ArchiveFile(w) ==
    /\ At(w, "file")
    /\ archive' = [archive EXCEPT ![work[w].e] = [work[w].copy EXCEPT !.status = "archived"]]
    /\ Go(w, [work[w] EXCEPT !.at = "unlink"])
    /\ UNCHANGED <<entries, expired, logs, spent>>

ArchiveUnlink(w) ==
    /\ At(w, "unlink")
    /\ Put(work[w].e, None)
    /\ Go(w, [work[w] EXCEPT !.at = "prune", !.copy = None])
    /\ UNCHANGED <<archive, expired, logs, spent>>

Quarantine(w, e, handler) ==
    /\ Enter(w, [Begun("quarantine", IF handler THEN "handler" ELSE "hold", e, None)
                   EXCEPT !.todo = IF handler THEN {} ELSE {e}])
    /\ UNCHANGED <<entries, archive, expired, logs>>

Archive(w, e) ==
    /\ Enter(w, [Begun("archive", "prune", e, None) EXCEPT !.todo = {e}])
    /\ UNCHANGED <<entries, archive, expired, logs>>

\* detect_anomalies
Detect(w) ==
    /\ Enter(w, [Resting EXCEPT !.job = "detect", !.at = "hold",
                   !.todo = {e \in Entry : entries[e].status = "active" /\ entries[e].trust < Floor}])
    /\ UNCHANGED <<entries, archive, expired, logs>>

(***************************************************************************)
(* refresh_cycle: it loads every entry once, stales the expired, scores the *)
(* rest from the whole log, quarantines what fell below the floor, loads    *)
(* again and archives.                                                      *)
(***************************************************************************)
Live(snap) == {e \in Entry : snap[e].status = "active"}

Refresh(w) ==
    /\ Enter(w, [Resting EXCEPT !.job = "refresh", !.at = "stale", !.snap = entries,
                                !.todo = Live(entries) \cap expired])
    /\ UNCHANGED <<entries, archive, expired, logs>>

Stale(w) ==
    /\ At(w, "stale")
    /\ LET x == work[w]
       IN IF x.todo = {}
          THEN /\ Go(w, [x EXCEPT !.at = "score", !.todo = Live(x.snap), !.log = retrievals])
               /\ UNCHANGED entries
          ELSE \E e \in x.todo :
                LET c == [x.snap[e] EXCEPT !.status = "stale"]
                IN Put(e, c) /\ Go(w, [x EXCEPT !.todo = @ \ {e}, !.snap[e] = c])
    /\ UNCHANGED <<archive, expired, logs, spent>>

\* An author's own retrieval does not count.
Votes(log, e, f) == Cardinality({r \in Reader \ Author : <<e, r, f>> \in log})
Scored(c, e, log, decay) ==
    [c EXCEPT !.trust = @ + Inc * Votes(log, e, "positive") - Dec * Votes(log, e, "negative") - decay]

Score(w) ==
    /\ At(w, "score")
    /\ LET x == work[w]
       IN IF x.todo = {}
          THEN /\ Go(w, [x EXCEPT !.at = "hold", !.log = {},
                           !.todo = {e \in Live(x.snap) : x.snap[e].trust < Floor}])
               /\ UNCHANGED entries
          ELSE \E e \in x.todo, decay \in Decay :
                LET c == Scored(x.snap[e], e, x.log, decay)
                IN Put(e, c) /\ Go(w, [x EXCEPT !.todo = @ \ {e}, !.snap[e] = c])
    /\ UNCHANGED <<archive, expired, logs, spent>>

(***************************************************************************)
(* cascade: load, the handler's quarantine, the flag on what was loaded,    *)
(* then the trace, and notices for all it has found.                        *)
(***************************************************************************)
Cascade(w, e) ==
    /\ Enter(w, [Begun("cascade", "handler", e, None) EXCEPT !.snap[e] = entries[e]])
    /\ UNCHANGED <<entries, archive, expired, logs>>

Suspect(w) ==
    /\ At(w, "suspect")
    /\ LET e == work[w].e
           loaded == work[w].snap[e]
       IN IF loaded = None THEN UNCHANGED entries
          ELSE Put(e, [loaded EXCEPT !.suspect = TRUE])
    /\ Go(w, [work[w] EXCEPT !.at = "trace"])
    /\ UNCHANGED <<archive, expired, logs, spent>>

\* trace: the entry's own log, then the retrieval log.
TraceEntry(w) ==
    /\ At(w, "trace")
    /\ Go(w, [work[w] EXCEPT !.at = "tracelog", !.found = entries[work[w].e].readers])
    /\ UNCHANGED <<entries, archive, expired, logs, spent>>

\* Bug: the entry's own log only.
TracedInline(e, found) == found
Traced(e, found) == found \cup Logged(e)
TraceLog(w) ==
    /\ At(w, "tracelog")
    /\ Go(w, [work[w] EXCEPT !.at = "notify", !.found = Traced(work[w].e, @)])
    /\ UNCHANGED <<entries, archive, expired, logs, spent>>

\* Notices are made out and logged for those found; with none found it returns.
Notify(w) ==
    /\ At(w, "notify")
    /\ noticed' = IF work[w].found = {} THEN noticed
                  ELSE [noticed EXCEPT ![work[w].e] = work[w].found]
    /\ Rest(w)
    /\ UNCHANGED <<entries, archive, expired, retrievals, held, spent>>

KillWork(w) ==
    /\ ~At(w, "idle") /\ Charge /\ Rest(w)
    /\ UNCHANGED <<entries, archive, expired, logs>>

(***************************************************************************)
CacheInit ==
    /\ entries = [e \in Entry |-> None] /\ archive = [e \in Entry |-> None]
    /\ expired = {} /\ retrievals = {} /\ held = {}
    /\ work = [w \in Worker |-> Resting]
    /\ noticed = [e \in Entry |-> {}] /\ spent = 0

CacheStep(w) ==
    \/ Reload(w) \/ Write(w) \/ HoldRead(w) \/ HandlerRead(w) \/ HoldWrite(w) \/ HoldRow(w)
    \/ ArchiveRead(w) \/ ArchiveFile(w) \/ ArchiveUnlink(w)
    \/ Stale(w) \/ Score(w) \/ Suspect(w)
    \/ TraceEntry(w) \/ TraceLog(w) \/ Notify(w)

CacheNext ==
    \/ \E e \in Entry : Expire(e)
    \/ \E w \in Worker :
        \/ CacheStep(w) \/ KillWork(w) \/ Detect(w) \/ Refresh(w)
        \/ \E e \in Entry :
            \/ Create(w, e) \/ Deprecate(w, e) \/ Archive(w, e) \/ Cascade(w, e)
            \/ \E handler \in BOOLEAN : Quarantine(w, e, handler)
            \/ \E r \in Reader, f \in Feedback : Retrieve(w, e, r, f)

CacheSpec == CacheInit /\ [][CacheNext]_cacheVars

(***************************************************************************)
\* A quarantine is undone, by a write or by archiving, only by an operation
\* whose copy of the entry predates it: none that has seen the quarantine
\* lifts it (deprecate_entry, archive_entry, log_retrieval, refresh_cycle).
Saw(w, e) ==
    (IF work[w].at \in {"stale", "score", "suspect"} THEN work[w].snap[e] ELSE work[w].copy).status
QuarantineSeen ==
    [][\A e \in Entry, w \in Worker :
         /\ entries[e].status = "quarantined" /\ entries'[e].status # "quarantined"
         /\ work'[w] # work[w]
         => Saw(w, e) # "quarantined"]_cacheVars

\* A cascade that comes to its end has made out a notice for everyone whose
\* retrieval was logged before the entry was in quarantine, whatever overlapping
\* writes have since made of the entry and of its own log (quarantine, trace,
\* notify).
AllNoticed ==
    [][\A w \in Worker :
         Notify(w) => work[w].owed \subseteq noticed'[work[w].e]]_cacheVars
=============================================================================
