------------------------------- MODULE BootGate -------------------------------
(* Boot reading before governance writing. subagent-citizen-boot.py boots every *)
(* spawn, boot-receipt.py keeps the receipts of what was read, and             *)
(* boot-read-gate.py stops a governed tool call whose actor has none for the   *)
(* operative tic. One office fans out to several citizens beside the lead, whose *)
(* session boots elsewhere and has no spawn id. Task-scoped workers, which keep *)
(* no receipt and act on the lead's, are left out.                             *)
EXTENDS Naturals, Sequences, FiniteSets

CONSTANTS
    Citizen,          \* spawns, named by their harness agent_id
    Office, Lead,     \* entities: the citizens', the session's
    NoSpawn,
    Typed,            \* whether a tool call's payload may carry agent_type
    MapCap,           \* _ACTOR_MAP_BUCKET_CAP
    MaxTic, MaxFire, MaxOverride,  \* bounds, and one on their sum
    MaxEvent

ASSUME BootAssumption ==
    /\ Office # Lead
    /\ {Lead, Office, NoSpawn} \cap Citizen = {}
    /\ Typed \subseteq BOOLEAN /\ MapCap \in Nat \ {0}
    /\ MaxTic \in Nat \ {0} /\ MaxFire \in Nat /\ MaxOverride \in Nat
    /\ MaxEvent \in Nat

Actor == Citizen \cup {Lead}
Target == {"state", "born"}  \* a governed surface; a born file of the actor's session
Grade == {"full", "override"}  \* a receipt that passes; one with less in it shows nothing

VARIABLES
    counted,   \* highest counted tic of the log
    operative, \* tic_context.current_tic of the mandate
    bootMap,   \* actor-session-map.json, newest first
    bootSeen,  \* citizen-boot-seen.json: tic of the last brief under a key, 0 if none
    hook,      \* per spawn: its SubagentStart hook and the map it read
    told,      \* per actor: the tic of the last brief it was handed, 0 before
    sink,      \* boot-receipts.jsonl
    asked,     \* per citizen: tic an unanswered refusal asks a receipt for, 0 if none
    governed   \* history per citizen: what its last governed call was let through by

bootVars == <<counted, operative, bootMap, bootSeen, hook, told,
              sink, asked, governed>>

Receipt == [entity: {Office, Lead}, tic: 1..MaxTic, spawn: Citizen \cup {NoSpawn},
            grade: Grade, covers: Target \cup {"tic"}]
Distinct(m) == \A i, j \in DOMAIN m : m[i] = m[j] => i = j

\* Every variable holds what its comment says.
BootTypeOK ==
    /\ counted \in 1..MaxTic /\ operative \in 1..counted
    /\ bootMap \in Seq(Citizen) /\ Len(bootMap) <= MapCap /\ Distinct(bootMap)
    /\ bootSeen \in [Actor \cup {Office} -> 0..MaxTic]
    /\ \A s \in Citizen : /\ hook[s].at \in {"off", "record", "brief", "up"}
                        /\ hook[s].snap \in Seq(Citizen) /\ hook[s].fires \in 0..MaxFire
    /\ told \in [Actor -> 0..MaxTic] /\ asked \in [Citizen -> 0..MaxTic]
    /\ sink \subseteq Receipt
    /\ governed \in [Citizen -> {"never", "let", "sibling"}]

\* Bound: counted tics, hook firings and overrides.
Overridden == {r \in sink : r.grade = "override"}
Fires == {f \in Citizen \X (1..MaxFire) : f[2] <= hook[f[1]].fires}
Events == counted + Cardinality(Fires) + Cardinality(Overridden)
Room == Events < MaxEvent

(***************************************************************************)
(* The receipt sink: flock around the id check and the append, one         *)
(* deterministic id per entity, tic and meaning. An override's id leaves    *)
(* out what it covers.                                                     *)
(***************************************************************************)
\* Bugs: the fingerprint without the spawn id; over the civic fields only.
IdentityUnkeyed(r) == <<r.entity, r.tic, r.grade>>
Identity(r) == <<r.entity, r.tic, r.grade, r.spawn>>
Landed(r) == IF \E x \in sink : Identity(x) = Identity(r) THEN sink ELSE sink \cup {r}

EntityOf(a) == IF a \in Citizen THEN Office ELSE Lead
SpawnOf(a) == IF a \in Citizen THEN a ELSE NoSpawn
Signed(a, t) == [entity |-> EntityOf(a), tic |-> t, spawn |-> SpawnOf(a),
                        grade |-> "full", covers |-> "tic"]

\* An actor closes its civic loop, or attests that it read the packet it was
\* handed, for the tic of its frame or the tic a refusal asked for.
Attest(a, t) ==
    /\ t # 0 /\ told[a] # 0
    /\ sink' = Landed(Signed(a, t))
    /\ asked' = [c \in Citizen |-> IF c = a /\ asked[c] = t THEN 0 ELSE asked[c]]
    /\ UNCHANGED <<counted, operative, bootMap, bootSeen, hook, told, governed>>

\* Recorded for a refused office.
Override(covers) ==
    /\ \E c \in Citizen : asked[c] # 0
    /\ Room /\ Cardinality(Overridden) < MaxOverride
    /\ sink' = Landed([entity |-> Office, tic |-> operative, spawn |-> NoSpawn,
                       grade |-> "override", covers |-> covers])
    /\ asked' = [c \in Citizen |-> 0]
    /\ UNCHANGED <<counted, operative, bootMap, bootSeen, hook, told, governed>>

(***************************************************************************)
(* subagent-citizen-boot.py. The map and the dedup store are read, changed  *)
(* and replaced without a lock through one temporary name: a write that     *)
(* overlaps another's can be lost or leave an empty store.                  *)
(***************************************************************************)
Fire(s) ==
    /\ hook[s].at \in {"off", "up"} /\ hook[s].fires < MaxFire /\ Room
    /\ hook' = [hook EXCEPT ![s] = [at |-> "record",
                                    snap |-> bootMap, fires |-> @.fires + 1]]
    /\ UNCHANGED <<counted, operative, bootMap, bootSeen, told, sink, asked, governed>>

Overlapped(s) == \E o \in Citizen \ {s} : hook[o].at \in {"record", "brief"}
\* Bug: the bucket's cap left out.
NewestUncapped(m) == m
Newest(m) == SubSeq(m, 1, IF Len(m) < MapCap THEN Len(m) ELSE MapCap)
PlaceOf(m, s) == CHOOSE i \in DOMAIN m : m[i] = s
Without(m, s) ==
    IF \A i \in DOMAIN m : m[i] # s THEN m
    ELSE [j \in 1..Len(m) - 1 |-> IF j < PlaceOf(m, s) THEN m[j] ELSE m[j + 1]]
Recorded(m, s) == Newest(<<s>> \o Without(m, s))

\* record_actor_session_map
Record(s) ==
    /\ hook[s].at = "record"
    /\ bootMap' \in {Recorded(hook[s].snap, s)}
                    \cup (IF Overlapped(s) THEN {bootMap, <<>>} ELSE {})
    /\ hook' = [hook EXCEPT ![s].at = "brief", ![s].snap = <<>>]
    /\ UNCHANGED <<counted, operative, bootSeen, told, sink, asked, governed>>

\* The brief names the tic; with the same key and the same brief it is
\* suppressed and the spawn is told so. A citizen's frame carries the tic.
\* Bug: the key of the session and the office, shared by a wave.
SeenKeyShared(s) == Office
SeenKey(s) == s
Brief(s) ==
    /\ hook[s].at = "brief"
    /\ hook' = [hook EXCEPT ![s].at = "up", ![s].snap = <<>>]
    /\ IF bootSeen[SeenKey(s)] = counted
       THEN UNCHANGED <<bootSeen, told>>
       ELSE /\ told' = [told EXCEPT ![s] = counted]
            /\ bootSeen' \in {[bootSeen EXCEPT ![SeenKey(s)] = counted]}
                             \cup (IF Overlapped(s) THEN {bootSeen} ELSE {})
    /\ UNCHANGED <<counted, operative, bootMap, sink, asked, governed>>

(***************************************************************************)
(* The clocks: the counted tic of the log, which boots read, and the tic of *)
(* the mandate, which the gate reads. The lead's SessionStart follows the   *)
(* mandate it writes.                                                       *)
(***************************************************************************)
CountTic ==
    /\ counted < MaxTic /\ Room
    /\ counted' = counted + 1
    /\ UNCHANGED <<operative, bootMap, bootSeen, hook, told, sink, asked, governed>>

Mandate ==
    /\ operative < counted
    /\ operative' = counted
    /\ UNCHANGED <<counted, bootMap, bootSeen, hook, told, sink, asked, governed>>

LeadBoots ==
    /\ operative = counted /\ told[Lead] # counted
    /\ told' = [told EXCEPT ![Lead] = counted]
    /\ sink' = Landed(Signed(Lead, counted))
    /\ UNCHANGED <<counted, operative, bootMap, bootSeen, hook, asked, governed>>

(***************************************************************************)
(* boot-read-gate.py around one governed tool call: resolve the actor and   *)
(* the tic, then run gate-check.                                            *)
(***************************************************************************)
InMap(a) == \E i \in DOMAIN bootMap : bootMap[i] = a

\* gate_decision: own full receipt first, then an override of the entity.
\* Bug: the spawn filter left out.
ProofsUnfiltered(c) == {r \in sink : r.entity = c.entity /\ r.tic = c.tic /\ r.grade = "full"}
Proofs(c) ==
    {r \in sink : /\ r.entity = c.entity /\ r.tic = c.tic /\ r.grade = "full"
                  /\ c.spawn # NoSpawn => r.spawn = c.spawn}
Overrides(c) ==
    {r \in sink : /\ r.entity = c.entity /\ r.tic = c.tic /\ r.grade = "override"
                  /\ r.covers \in {"tic", c.target}}

\* Whether r, which let c's call through, was c's to use: its own receipt, an
\* override, or the lead's for a call whose payload has no agent_type.
Proof(c, r, typed) ==
    IF r.grade = "override" \/ r.spawn = c \/ (r.entity = Lead /\ ~typed)
    THEN "let" ELSE "sibling"

\* decide and gate_decision: nothing between the reads can withdraw a receipt,
\* so the hook is one step.
Govern(c, target, typed) ==
    /\ hook[c].at = "up" /\ asked[c] = 0
    /\ target = "born" => told[c] # 0
    /\ LET mine == InMap(c) \/ typed  \* _resolve_actor: else the lead, no spawn declared
           call == [tic |-> IF target = "born" THEN told[c] ELSE operative,
                    target |-> target,
                    entity |-> IF mine THEN Office ELSE Lead,
                    spawn |-> IF mine THEN c ELSE NoSpawn]
           way == IF Proofs(call) # {} THEN Proofs(call) ELSE Overrides(call)
       IN IF way = {}
          THEN asked' = [asked EXCEPT ![c] = call.tic] /\ UNCHANGED governed
          ELSE /\ \E r \in way :
                    governed' = [governed EXCEPT ![c] = Proof(c, r, typed)]
               /\ UNCHANGED asked
    /\ UNCHANGED <<counted, operative, bootMap, bootSeen, hook, told, sink>>

(***************************************************************************)
BootInit ==
    /\ counted = 1 /\ operative = 1
    /\ bootMap = <<>> /\ bootSeen = [k \in Actor \cup {Office} |-> 0]
    /\ hook = [s \in Citizen |-> [at |-> "off", snap |-> <<>>, fires |-> 0]]
    /\ told = [a \in Actor |-> 0] /\ asked = [c \in Citizen |-> 0]
    /\ sink = {} /\ governed = [c \in Citizen |-> "never"]

AttestTold(a) == told[a] # 0 /\ Attest(a, told[a])
AttestAsked(a) == asked[a] # 0 /\ Attest(a, asked[a])
GovernState(c) == \E typed \in Typed : Govern(c, "state", typed)
Hook(s) == Record(s) \/ Brief(s)

BootNext ==
    \/ CountTic \/ Mandate \/ LeadBoots
    \/ \E c \in Citizen :
        \/ Fire(c) \/ Hook(c)
        \/ AttestTold(c) \/ AttestAsked(c)
        \/ GovernState(c)
        \/ \E typed \in Typed : Govern(c, "born", typed)
    \/ \E covers \in {"state", "tic"} : Override(covers)

BootSpec == BootInit /\ [][BootNext]_bootVars

(***************************************************************************)
\* A citizen's governed call is let through by its own receipt or by an
\* override, never by a sibling's proof, however the unlocked map lost or
\* mixed entries; only a call whose payload has no agent_type can fall back to
\* the lead's (boot-read-gate.py _resolve_actor, boot-receipt.py gate_decision).
NoSiblingProof ==
    \A c \in Citizen : governed[c] # "sibling"

\* A spawn is told that its brief was suppressed as a re-fire only if it did
\* receive that brief (already_seen, render_cold_boot_notice).
ColdMeansBriefed ==
    [][\A s \in Citizen :
         hook[s].at = "brief" /\ hook'[s].at = "up" => told'[s] = counted]_bootVars

\* An actor that reads what it is handed and answers each refusal is let
\* through: no receipt of its own, of a sibling or of the office keeps
\* its proof out of the sink (content_fingerprint).
Admitted == \A c \in Citizen : told[c] # 0 ~> governed[c] # "never"

BootFair ==
    /\ WF_bootVars(Mandate) /\ WF_bootVars(LeadBoots)
    /\ \A c \in Citizen : WF_bootVars(Hook(c)) /\ SF_bootVars(GovernState(c))
    /\ \A c \in Citizen : WF_bootVars(AttestTold(c)) /\ WF_bootVars(AttestAsked(c))
BootFairSpec == BootSpec /\ BootFair
=============================================================================
