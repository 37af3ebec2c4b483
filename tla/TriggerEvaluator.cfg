SPECIFICATION Spec
CONSTANTS
  sowing = sowing
  room = room
  builder = builder
  home = home
  away = away
  Ann = Ann
  Bob = Bob
  Infection = Infection
  raider = raider
  letter = letter
  project = project
  sow = sow
  build = build
  Texts <- MCTexts
  Meaning <- MCMeaning
  Generic = {}
  NoStream = NoStream
  NoRoom = NoRoom
  NoProject = NoProject
  MaxProgressSignals = 24
  Immediate = Immediate
  MaxTrackedRisks = 2
  RecentCycles = 2
  Snapshots <- MCSnapshots
  Contexts <- MCContexts
  ReviewInterval = 2
  IdlePersistence = 1
  MaxFingerprints = 2
  MaxTick = 4
  MaxPolls = 5
INVARIANTS QueueAndSetAgree
PROPERTIES ReturningThreatIsTold SilenceIsOwed
CHECK_DEADLOCK FALSE
