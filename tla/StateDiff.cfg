SPECIFICATION Spec
CONSTANTS
  Ann = Ann
  Bob = Bob
  Wound = Wound
  Raider = Raider
  Bear = Bear
  Wolf = Wolf
  A1 = A1
  A2 = A2
  L1 = L1
  L2 = L2
  E1 = E1
  E2 = E2
  Bench = Bench
  Bill = Bill
  Bed = Bed
  Fence = Fence
  Zone = Zone
  Plant = Plant
  Stove = Stove
  Battery = Battery
  Lamp = Lamp
  Quiet = Quiet
  Busy = Busy
  Snapshots <- MCSnapshots
  Sources = {"here", "elsewhere"}
  MaxVersion = 2
  MaxTick = 1
  MaxDetails = 2
  CompactDetails = 1
  MaxDelta = 4
INVARIANTS
  DeltaTellsCurrent
  EachThingIsToldOnce
  CutsAreCounted
