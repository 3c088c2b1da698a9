---------------------------- MODULE BootGateProofs ----------------------------
(***************************************************************************)
(* TLAPS proofs about BootGate, for every set of citizens and every bound. *)
(***************************************************************************)
EXTENDS BootGate, TLAPS

-----------------------------------------------------------------------------
(* The actor-session map *)

\* What a map of spawns is, in the file or in a hook that read it.
IsMap(m) == m \in Seq(Citizen) /\ Len(m) <= MapCap /\ Distinct(m)

LEMMA WithoutOne ==
    ASSUME NEW m \in Seq(Citizen), Distinct(m), NEW s \in Citizen
    PROVE  /\ Without(m, s) \in Seq(Citizen) /\ Distinct(Without(m, s))
           /\ \A i \in DOMAIN Without(m, s) : Without(m, s)[i] # s
<1>1. CASE \A i \in DOMAIN m : m[i] # s
  BY <1>1 DEF Without
<1>2. CASE ~(\A i \in DOMAIN m : m[i] # s)
  <2>1. PICK k \in DOMAIN m : k = PlaceOf(m, s) /\ m[k] = s
    BY <1>2 DEF PlaceOf
  <2>2. Len(m) \in Nat /\ DOMAIN m = 1..Len(m) /\ Len(m) - 1 \in Nat /\ k \in 1..Len(m)
    BY <2>1
  <2>3. PICK n \in Nat : n = Len(m) - 1
    BY <2>2
  <2>4. Without(m, s) = [j \in 1..n |-> IF j < k THEN m[j] ELSE m[j + 1]]
    BY <1>2, <2>1, <2>3 DEF Without
  <2>5. \A j \in 1..n : j \in 1..Len(m) /\ j + 1 \in 1..Len(m)
    BY <2>2, <2>3
  <2>6. \A j \in 1..n : Without(m, s)[j] \in Citizen
    BY <2>2, <2>4, <2>5
  <2>7. Without(m, s) \in Seq(Citizen) /\ DOMAIN Without(m, s) = 1..n
    BY <2>3, <2>4, <2>6
  <2>a. \A x, y \in 1..Len(m) : m[x] = m[y] => x = y
    BY <2>2 DEF Distinct
  <2>b. \A i \in 1..n : \E x \in 1..Len(m) :
           x # k /\ Without(m, s)[i] = m[x] /\ x = IF i < k THEN i ELSE i + 1
    <3>1. SUFFICES ASSUME NEW i \in 1..n
                   PROVE  \E x \in 1..Len(m) :
                             /\ x # k /\ Without(m, s)[i] = m[x]
                             /\ x = IF i < k THEN i ELSE i + 1
      OBVIOUS
    <3>2. CASE i < k
      BY <2>2, <2>4, <2>5, <3>2
    <3>3. CASE ~(i < k)
      BY <2>2, <2>4, <2>5, <3>3
    <3>4. QED
      BY <3>2, <3>3
  <2>8. \A i \in 1..n : Without(m, s)[i] # s
    BY <2>1, <2>2, <2>a, <2>b
  <2>9. \A i, j \in 1..n : Without(m, s)[i] = Without(m, s)[j] => i = j
    <3>1. SUFFICES ASSUME NEW i \in 1..n, NEW j \in 1..n,
                          Without(m, s)[i] = Without(m, s)[j]
                   PROVE  i = j
      OBVIOUS
    <3>2. PICK x \in 1..Len(m) :
             x # k /\ Without(m, s)[i] = m[x] /\ x = IF i < k THEN i ELSE i + 1
      BY <2>b
    <3>3. PICK y \in 1..Len(m) :
             y # k /\ Without(m, s)[j] = m[y] /\ y = IF j < k THEN j ELSE j + 1
      BY <2>b
    <3>4. x = y
      BY <2>a, <3>1, <3>2, <3>3
    <3>5. QED
      BY <2>2, <2>3, <3>2, <3>3, <3>4
  <2>10. QED
    BY <2>7, <2>8, <2>9 DEF Distinct
<1>3. QED
  BY <1>1, <1>2

LEMMA NewestIsMap ==
    ASSUME NEW m \in Seq(Citizen), Distinct(m)
    PROVE  IsMap(Newest(m))
<1>1. PICK n \in Nat : n = IF Len(m) < MapCap THEN Len(m) ELSE MapCap
  BY BootAssumption
<1>2. n <= Len(m) /\ n <= MapCap /\ Newest(m) = SubSeq(m, 1, n)
  BY <1>1, BootAssumption DEF Newest
<1>3. /\ Newest(m) \in Seq(Citizen) /\ Len(Newest(m)) = n
      /\ \A i \in 1..n : Newest(m)[i] = m[i] /\ i \in 1..Len(m)
  BY <1>2
<1>4. QED
  BY <1>2, <1>3 DEF IsMap, Distinct

\* Recording a spawn keeps one entry for each and no more than the cap.
LEMMA RecordedIsMap ==
    ASSUME NEW m, IsMap(m), NEW s \in Citizen
    PROVE  IsMap(Recorded(m, s))
<1>1. PICK w \in Seq(Citizen) :
          w = Without(m, s) /\ Distinct(w) /\ \A i \in DOMAIN w : w[i] # s
  BY WithoutOne DEF IsMap
<1>2. PICK r : r = <<s>> \o w
  OBVIOUS
<1>3. /\ r \in Seq(Citizen) /\ Len(r) = Len(w) + 1 /\ r[1] = s
      /\ \A i \in 2..Len(r) : r[i] = w[i - 1] /\ i - 1 \in 1..Len(w)
  BY <1>1, <1>2
<1>4. Distinct(r)
  BY <1>1, <1>3 DEF Distinct
<1>5. QED
  BY <1>1, <1>2, <1>3, <1>4, NewestIsMap DEF Recorded

-----------------------------------------------------------------------------
(* The inductive invariant *)

HookState == [at : {"off", "record", "brief", "up"}, snap : Seq(Citizen), fires : 0..MaxFire]

\* No spawn has been briefed for a tic that has not been counted, nor is it
\* taken for briefed without having been.
BriefsKnown == \A s \in Citizen : bootSeen[s] <= told[s] /\ told[s] <= counted

BootInv ==
    /\ BootTypeOK /\ hook \in [Citizen -> HookState]
    /\ \A s \in Citizen : IsMap(hook[s].snap)
    /\ BriefsKnown

LEMMA EmptyMap == IsMap(<<>>)
BY BootAssumption DEF IsMap, Distinct

LEMMA BootInitInv == BootInit => BootInv
<1> SUFFICES ASSUME BootInit PROVE BootInv
  OBVIOUS
<1>1. /\ hook \in [Citizen -> HookState]
      /\ \A s \in Citizen : hook[s].snap = <<>> /\ hook[s].at = "off" /\ hook[s].fires = 0
  BY BootAssumption DEF BootInit, HookState
<1>2. BootTypeOK
  <2>1. counted \in 1..MaxTic /\ operative \in 1..counted
    BY BootAssumption DEF BootInit
  <2>2. bootMap \in Seq(Citizen) /\ Len(bootMap) <= MapCap /\ Distinct(bootMap)
    BY EmptyMap DEF BootInit, IsMap
  <2>3. /\ bootSeen \in [Actor \cup {Office} -> 0..MaxTic]
        /\ told \in [Actor -> 0..MaxTic] /\ asked \in [Citizen -> 0..MaxTic]
    BY BootAssumption DEF BootInit
  <2>4. sink \subseteq Receipt /\ governed \in [Citizen -> {"never", "let", "sibling"}]
    BY DEF BootInit
  <2>5. \A s \in Citizen : /\ hook[s].at \in {"off", "record", "brief", "up"}
                          /\ hook[s].snap \in Seq(Citizen) /\ hook[s].fires \in 0..MaxFire
    BY <1>1 DEF HookState
  <2>6. QED
    BY <2>1, <2>2, <2>3, <2>4, <2>5 DEF BootTypeOK
<1>3. BriefsKnown
  BY DEF BootInit, BriefsKnown, Actor
<1>4. QED
  BY <1>1, <1>2, <1>3, EmptyMap DEF BootInv

LEMMA LandedReceipts ==
    ASSUME sink \subseteq Receipt, NEW r \in Receipt
    PROVE  Landed(r) \subseteq Receipt
BY DEF Landed

LEMMA FullReceipts ==
    /\ \A c \in Citizen, t \in 1..MaxTic : Signed(c, t) \in Receipt
    /\ \A t \in 1..MaxTic : Signed(Lead, t) \in Receipt
    /\ \A t \in 1..MaxTic, covers \in {"state", "tic"} :
          [entity |-> Office, tic |-> t, spawn |-> NoSpawn,
           grade |-> "override", covers |-> covers] \in Receipt
BY BootAssumption DEF Receipt, Signed, EntityOf, SpawnOf, Grade, Target

\* The variables the hooks, the clocks and the gate each leave alone.
LEMMA HookKept ==
    ASSUME BootInv, UNCHANGED <<hook, bootSeen, told, counted>>, BootTypeOK'
    PROVE  BootInv'
BY DEF BootInv, BriefsKnown, IsMap, Distinct

LEMMA BootHooks ==
    ASSUME BootInv, NEW s \in Citizen, Fire(s) \/ Record(s) \/ Brief(s)
    PROVE  BootInv'
<1>0. /\ BootTypeOK /\ hook[s] \in HookState /\ IsMap(hook[s].snap) /\ IsMap(bootMap)
      /\ MaxFire \in Nat /\ counted \in Nat /\ counted \in 0..MaxTic
  BY BootAssumption DEF BootInv, BootTypeOK, IsMap
<1>1. \A q \in Citizen : told[q] \in Nat /\ bootSeen[q] \in Nat
  BY <1>0 DEF BootTypeOK, Actor
<1>2. ASSUME NEW h \in HookState, hook' = [hook EXCEPT ![s] = h], IsMap(h.snap),
             IsMap(bootMap'), UNCHANGED <<counted, operative, sink, asked, governed>>,
             bootSeen' \in {bootSeen, [bootSeen EXCEPT ![s] = counted]},
             told' \in {told, [told EXCEPT ![s] = counted]},
             bootSeen' = bootSeen \/ told' # told \/ told[s] = counted
      PROVE  BootInv'
  <2>1. hook' \in [Citizen -> HookState] /\ \A q \in Citizen : IsMap(hook'[q].snap)
    BY <1>2 DEF BootInv
  <2>2. /\ bootSeen' \in [Actor \cup {Office} -> 0..MaxTic] /\ told' \in [Actor -> 0..MaxTic]
    BY <1>0, <1>2 DEF BootTypeOK
  <2>3. BootTypeOK'
    BY <1>0, <1>2, <2>1, <2>2 DEF BootTypeOK, HookState, IsMap
  <2>4. BriefsKnown'
    <3>1. SUFFICES ASSUME NEW q \in Citizen
                   PROVE  bootSeen'[q] <= told'[q] /\ told'[q] <= counted'
      BY DEF BriefsKnown
    <3>2. q \in Actor /\ bootSeen[q] <= told[q] /\ told[q] <= counted
      BY DEF BootInv, BriefsKnown, Actor
    <3>3. told'[q] = (IF told' # told /\ q = s THEN counted ELSE told[q])
      BY <1>0, <1>2, <3>2 DEF BootTypeOK
    <3>4. bootSeen'[q] = (IF bootSeen' # bootSeen /\ q = s THEN counted ELSE bootSeen[q])
      BY <1>0, <1>2, <3>2 DEF BootTypeOK
    <3>5. QED
      BY <1>0, <1>1, <1>2, <3>2, <3>3, <3>4
  <2>5. QED
    BY <2>1, <2>3, <2>4 DEF BootInv
<1>3. CASE Fire(s)
  <2>1. PICK h : h = [at |-> "record", snap |-> bootMap, fires |-> hook[s].fires + 1]
    OBVIOUS
  <2>2. h \in HookState /\ IsMap(h.snap)
    BY <1>0, <1>3, <2>1 DEF Fire, HookState, IsMap
  <2>3. QED
    BY <1>0, <1>2, <1>3, <2>1, <2>2 DEF Fire, IsMap, Distinct
<1>4. CASE Record(s)
  <2>1. PICK h : h = [hook[s] EXCEPT !.at = "brief", !.snap = <<>>]
    OBVIOUS
  <2>a. <<>> \in Seq(Citizen)
    BY EmptyMap DEF IsMap
  <2>b. h \in HookState /\ h.snap = <<>>
    BY <1>0, <2>1, <2>a DEF HookState
  <2>c. hook' = [hook EXCEPT ![s] = h]
    BY <1>0, <1>4, <2>1 DEF Record, HookState, BootInv
  <2>2. h \in HookState /\ h.snap = <<>> /\ hook' = [hook EXCEPT ![s] = h]
    BY <2>b, <2>c
  <2>3. IsMap(bootMap')
    BY <1>0, <1>4, EmptyMap, RecordedIsMap DEF Record
  <2>4. QED
    BY <1>2, <1>4, <2>2, <2>3, EmptyMap DEF Record
<1>5. CASE Brief(s)
  <2>1. PICK h : h = [hook[s] EXCEPT !.at = "up", !.snap = <<>>]
    OBVIOUS
  <2>a. <<>> \in Seq(Citizen)
    BY EmptyMap DEF IsMap
  <2>b. h \in HookState /\ h.snap = <<>>
    BY <1>0, <2>1, <2>a DEF HookState
  <2>c. hook' = [hook EXCEPT ![s] = h]
    BY <1>0, <1>5, <2>1 DEF Brief, HookState, BootInv
  <2>2. h \in HookState /\ h.snap = <<>> /\ hook' = [hook EXCEPT ![s] = h]
    BY <2>b, <2>c
  <2>3. /\ bootSeen' \in {bootSeen, [bootSeen EXCEPT ![s] = counted]}
        /\ told' \in {told, [told EXCEPT ![s] = counted]}
        /\ bootSeen' = bootSeen \/ told'[s] = counted
    BY <1>0, <1>5 DEF Brief, SeenKey, BootTypeOK, Actor
  <2>4. bootSeen' = bootSeen \/ told' # told \/ told[s] = counted
    BY <2>3
  <2>5. IsMap(bootMap')
    BY <1>0, <1>5 DEF Brief, IsMap, Distinct
  <2>6. QED
    BY <1>2, <1>5, <2>2, <2>3, <2>4, <2>5, EmptyMap DEF Brief
<1>6. QED
  BY <1>3, <1>4, <1>5

LEMMA BootStepInv == BootInv /\ [BootNext]_bootVars => BootInv'
<1> SUFFICES ASSUME BootInv, [BootNext]_bootVars PROVE BootInv'
  OBVIOUS
<1>0. BootTypeOK /\ counted \in 1..MaxTic /\ operative \in 1..MaxTic /\ MaxTic \in Nat \ {0}
  BY BootAssumption DEF BootInv, BootTypeOK
<1>1. ASSUME NEW c \in Citizen, NEW t, Attest(c, t), t \in 0..MaxTic
      PROVE  BootInv'
  <2>1. t \in 1..MaxTic
    BY <1>1 DEF Attest
  <2>2. sink' \subseteq Receipt
    BY <1>0, <1>1, <2>1, FullReceipts, LandedReceipts DEF Attest, BootTypeOK
  <2>3. asked' \in [Citizen -> 0..MaxTic]
    BY <1>0, <1>1 DEF Attest, BootTypeOK
  <2>4. BootTypeOK'
    BY <1>0, <1>1, <2>2, <2>3 DEF Attest, BootTypeOK, Distinct
  <2>5. QED
    BY <1>1, <2>4, HookKept DEF Attest
<1>2. ASSUME NEW covers \in {"state", "tic"}, Override(covers)
      PROVE  BootInv'
  <2>1. sink' \subseteq Receipt
    BY <1>0, <1>2, FullReceipts, LandedReceipts DEF Override, BootTypeOK
  <2>2. asked' \in [Citizen -> 0..MaxTic]
    BY <1>0, <1>2 DEF Override
  <2>3. BootTypeOK'
    BY <1>0, <1>2, <2>1, <2>2 DEF Override, BootTypeOK, Distinct
  <2>4. QED
    BY <1>2, <2>3, HookKept DEF Override
<1>3. CASE CountTic
  <2>1. counted' \in 1..MaxTic /\ operative' \in 1..counted' /\ counted <= counted'
    BY <1>0, <1>3 DEF CountTic, BootTypeOK
  <2>2. BootTypeOK'
    BY <1>0, <1>3, <2>1 DEF CountTic, BootTypeOK, Distinct
  <2>3. BriefsKnown'
    <3>1. \A s \in Citizen : told[s] \in Nat /\ told[s] <= counted /\ bootSeen[s] <= told[s]
      BY <1>0 DEF BootInv, BriefsKnown, BootTypeOK, Actor
    <3>2. QED
      BY <1>0, <1>3, <2>1, <3>1 DEF CountTic, BriefsKnown
  <2>4. QED
    BY <1>3, <2>2, <2>3 DEF CountTic, BootInv, IsMap, Distinct
<1>4. CASE Mandate
  <2>1. BootTypeOK'
    BY <1>0, <1>4 DEF Mandate, BootTypeOK, Distinct
  <2>2. QED
    BY <1>4, <2>1, HookKept DEF Mandate
<1>5. CASE LeadBoots
  <2>1. sink' \subseteq Receipt
    BY <1>0, <1>5, FullReceipts, LandedReceipts DEF LeadBoots, BootTypeOK
  <2>2. told' \in [Actor -> 0..MaxTic]
    <3>1. counted \in 0..MaxTic /\ told \in [Actor -> 0..MaxTic]
      BY <1>0 DEF BootTypeOK
    <3>2. QED
      BY <1>5, <3>1 DEF LeadBoots
  <2>3. BootTypeOK'
    BY <1>0, <1>5, <2>1, <2>2 DEF LeadBoots, BootTypeOK, Distinct
  <2>4. \A s \in Citizen : told'[s] = told[s]
    BY <1>0, <1>5, BootAssumption DEF LeadBoots, BootTypeOK, Actor
  <2>5. QED
    BY <1>5, <2>3, <2>4 DEF LeadBoots, BootInv, BriefsKnown, IsMap, Distinct
<1>6. ASSUME NEW s \in Citizen, Fire(s) \/ Hook(s)
      PROVE  BootInv'
  BY <1>6, BootHooks DEF Hook
<1>7. ASSUME NEW c \in Citizen, NEW target \in Target, NEW typed \in Typed,
             Govern(c, target, typed)
      PROVE  BootInv'
  <2>1. governed' = governed \/ \E v \in {"let", "sibling"} : governed' = [governed EXCEPT ![c] = v]
    BY <1>7 DEF Govern, Proof
  <2>2. asked' = asked \/ \E t \in 0..MaxTic : asked' = [asked EXCEPT ![c] = t]
    <3>1. told[c] \in 0..MaxTic /\ operative \in 0..MaxTic
      BY <1>0 DEF BootTypeOK, Actor
    <3>2. QED
      BY <1>7, <3>1 DEF Govern
  <2>3. /\ governed' \in [Citizen -> {"never", "let", "sibling"}]
        /\ asked' \in [Citizen -> 0..MaxTic]
    BY <1>0, <2>1, <2>2 DEF BootTypeOK
  <2>4. BootTypeOK'
    BY <1>0, <1>7, <2>3 DEF Govern, BootTypeOK, Distinct
  <2>5. QED
    BY <1>7, <2>4, HookKept DEF Govern
<1>8. CASE UNCHANGED bootVars
  BY <1>8 DEF bootVars, BootInv, BootTypeOK, BriefsKnown, IsMap, Distinct
<1>9. \A c \in Citizen : told[c] \in 0..MaxTic /\ asked[c] \in 0..MaxTic
  BY <1>0 DEF BootTypeOK, Actor
<1>10. QED
  BY <1>1, <1>2, <1>3, <1>4, <1>5, <1>6, <1>7, <1>8, <1>9
     DEF BootNext, AttestTold, AttestAsked, GovernState, Target

LEMMA BootAlways == BootSpec => []BootInv
BY BootInitInv, BootStepInv, PTL DEF BootSpec

-----------------------------------------------------------------------------
(* The theorems *)

\* No boot, receipt, clock or gate step leaves the sets the variables range over.
THEOREM BootTypes == BootSpec => []BootTypeOK
BY BootAlways, PTL DEF BootInv

\* A spawn that is told its brief was suppressed has been handed that brief:
\* citizen-boot-seen.json, whose overlapping writes may be lost, never runs ahead.
THEOREM ColdMeansWasBriefed == BootSpec => ColdMeansBriefed
<1>1. BootInv /\ [BootNext]_bootVars =>
         [\A s \in Citizen :
            hook[s].at = "brief" /\ hook'[s].at = "up" => told'[s] = counted]_bootVars
  <2> SUFFICES ASSUME BootInv, BootNext, NEW s \in Citizen,
                      hook[s].at = "brief", hook'[s].at = "up"
               PROVE  told'[s] = counted
    OBVIOUS
  <2>0. BootTypeOK /\ hook \in [Citizen -> HookState]
    BY DEF BootInv
  <2>1. hook' # hook
    OBVIOUS
  <2>2. PICK p \in Citizen : Fire(p) \/ Record(p) \/ Brief(p)
    BY <2>1 DEF BootNext, CountTic, Mandate, LeadBoots, AttestTold, AttestAsked, Attest,
                GovernState, Govern, Override, Hook
  <2>3. p = s /\ Brief(s)
    BY <2>0, <2>2 DEF Fire, Record, Brief, HookState
  <2>4. s \in Actor /\ told[s] \in Nat /\ bootSeen[s] <= told[s] /\ told[s] <= counted /\ counted \in Nat
    BY <2>0, BootAssumption DEF BootInv, BriefsKnown, BootTypeOK, Actor
  <2>5. CASE bootSeen[s] = counted
    BY <2>3, <2>4, <2>5 DEF Brief, SeenKey
  <2>6. CASE bootSeen[s] # counted
    BY <2>0, <2>3, <2>4, <2>6 DEF Brief, SeenKey, BootTypeOK
  <2>7. QED
    BY <2>5, <2>6
<1>2. QED
  BY <1>1, BootAlways, PTL DEF BootSpec, ColdMeansBriefed

\* No citizen's governed call is let through by a sibling's receipt, however many
\* spawns share the office and whatever the actor-session map has lost.
THEOREM NoSiblingLetsThrough == BootSpec => []NoSiblingProof
<1>1. BootInit => NoSiblingProof
  BY DEF BootInit, NoSiblingProof
<1>2. BootInv /\ NoSiblingProof /\ [BootNext]_bootVars => NoSiblingProof'
  <2> SUFFICES ASSUME BootInv, NoSiblingProof, [BootNext]_bootVars
               PROVE  NoSiblingProof'
    OBVIOUS
  <2>0. governed \in [Citizen -> {"never", "let", "sibling"}]
    BY DEF BootInv, BootTypeOK
  <2>1. CASE governed' = governed
    BY <2>1 DEF NoSiblingProof
  <2>2. ASSUME NEW c \in Citizen, NEW target \in Target, NEW typed \in Typed,
               Govern(c, target, typed)
        PROVE  NoSiblingProof'
    <3>1. ASSUME NEW call,
                 call.entity = IF InMap(c) \/ typed THEN Office ELSE Lead,
                 call.spawn = IF InMap(c) \/ typed THEN c ELSE NoSpawn,
                 NEW r \in Proofs(call) \cup Overrides(call)
          PROVE  Proof(c, r, typed) = "let"
      BY <3>1, BootAssumption DEF Proofs, Overrides, Proof
    <3>2. governed' = governed \/ governed' = [governed EXCEPT ![c] = "let"]
      BY <2>2, <3>1 DEF Govern
    <3>3. QED
      BY <2>0, <3>2 DEF NoSiblingProof
  <2>3. QED
    BY <2>1, <2>2 DEF BootNext, CountTic, Mandate, LeadBoots, AttestTold, AttestAsked, Attest,
                      GovernState, Override, Hook, Fire, Record, Brief, Target, bootVars
<1>3. QED
  BY <1>1, <1>2, BootAlways, PTL DEF BootSpec
=============================================================================
