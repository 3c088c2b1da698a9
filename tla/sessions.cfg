SPECIFICATION SessionFairSpec
CONSTANTS
  Part = {"boot", "cache"}
  biome = biome
  docks = docks
  finding = finding
  Signal <- MCSignals
  Ingested <- MCIngested
  Docked <- MCDocked
  Audited <- MCAudited
  Process = {p1, p2}
  Alone = TRUE
  MaxOp = 5
  MaxCrash = 1
  Volume = {0, 1, 2, 40}
  QuietTics = 3
  ReheatVolume = 20
  c1 = c1
  c2 = c2
  Citizen = {c1, c2}
  Office = office
  Lead = lead
  NoSpawn = none
  Typed = {TRUE, FALSE}
  MapCap = 1
  MaxTic = 2
  MaxFire = 2
  MaxEvent = 4
  MaxOverride = 1
  a = a
  b = b
  h1 = h1
  h2 = h2
  Surface = {a, b}
  Runner = {h1, h2}
  Deletes = FALSE
  MaxVersion = 2
  MaxUsed = 3
  e1 = e1
  w1 = w1
  w2 = w2
  r1 = r1
  Entry = {e1}
  Reader = {r1}
  Author = {}
  Worker = {w1, w2}
  Floor <- MCFloor
  Inc = 1
  Dec = 2
  Decay = {0, 1}
  MaxSpent = 4
CHECK_DEADLOCK FALSE
INVARIANT CivicTypeOK
INVARIANT NoSiblingProof
PROPERTY ColdMeansBriefed
PROPERTY Admitted
PROPERTY QuarantineSeen
PROPERTY AllNoticed
