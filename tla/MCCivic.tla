-------------------------------- MODULE MCCivic --------------------------------
(* Five components that share no state, checked together: a behaviour follows  *)
(* one of them from its initial state while the others rest, so the states are *)
(* the sum of the components' states and not their product.                    *)
EXTENDS SignalManifold, SignalRay, BootGate, RuntimeSync, PenPalCache

CONSTANTS
    Part,                    \* the components to follow
    biome, docks, finding,   \* one signal of each kind of emitter
    c1, c2,                  \* spawns
    a, b, h1, h2,            \* surfaces, sync runs
    e1, w1, w2, r1           \* a cache entry, operations on it, a reader

MCSignals == {biome, docks, finding}
MCIngested == {biome}
MCDocked == {docks}
MCAudited == {finding}
MCFloor == -2

VARIABLE part

civicVars == <<part, signalVars, rayVars, bootVars, syncVars, cacheVars>>

CivicInit ==
    /\ part \in Part
    /\ SignalInit /\ BootInit /\ SyncInit /\ CacheInit
    /\ RayInit
    /\ part # "ray" => volume = 0 /\ ~owned /\ age = 0
    /\ part # "sync" => installed = worktree

RestSignal == UNCHANGED signalVars
RestRay == UNCHANGED rayVars
RestBoot == UNCHANGED bootVars
RestSync == UNCHANGED syncVars
RestCache == UNCHANGED cacheVars

CivicNext ==
    /\ UNCHANGED part
    /\ \/ part = "signal" /\ SignalNext /\ RestRay /\ RestBoot /\ RestSync /\ RestCache
       \/ part = "ray" /\ RayNext /\ RestSignal /\ RestBoot /\ RestSync /\ RestCache
       \/ part = "boot" /\ BootNext /\ RestSignal /\ RestRay /\ RestSync /\ RestCache
       \/ part = "sync" /\ SyncNext /\ RestSignal /\ RestRay /\ RestBoot /\ RestCache
       \/ part = "cache" /\ CacheNext /\ RestSignal /\ RestRay /\ RestBoot /\ RestSync

CivicSpec == CivicInit /\ [][CivicNext]_civicVars

\* The fairness of the components, each while its component is the one that moves.
LedgerFairSpec ==
    /\ CivicSpec
    /\ \A p \in Process : /\ WF_signalVars(part = "signal" /\ Work(p))
                          /\ SF_signalVars(part = "signal" /\ PruneManifest(p))
    /\ SF_rayVars(part = "ray" /\ Tick) /\ WF_rayVars(part = "ray" /\ Project)
    /\ \A r \in Runner : /\ WF_syncVars(part = "sync" /\ Step(r))
                         /\ WF_syncVars(part = "sync" /\ CheckStart(r))

SessionFairSpec ==
    /\ CivicSpec
    /\ WF_bootVars(part = "boot" /\ Mandate) /\ WF_bootVars(part = "boot" /\ LeadBoots)
    /\ \A c \in Citizen : /\ WF_bootVars(part = "boot" /\ Hook(c))
                          /\ SF_bootVars(part = "boot" /\ GovernState(c))
                          /\ WF_bootVars(part = "boot" /\ AttestTold(c))
                          /\ WF_bootVars(part = "boot" /\ AttestAsked(c))

\* The type invariants of the components: every variable holds what the comment
\* at its declaration says.
CivicTypeOK == SignalTypeOK /\ RayTypeOK /\ BootTypeOK /\ SyncTypeOK /\ CacheTypeOK
=============================================================================
