SPECIFICATION Spec
CONSTANTS
  field = field
  room = room
  sow = sow
  place = place
  wait = wait
  cloth = cloth
  wool = wool
  home = home
  away = away
  k1 = k1
  k2 = k2
  Texts <- MCTexts
  Meaning <- MCMeaning
  Generic = {"wall"}
  NoStream = NoStream
  NoRoom = NoRoom
  NoProject = NoProject
  MaxProgressSignals = 24
  NoId = NoId
  Absent = Absent
  Malformed = Malformed
  Proposals <- MCProposals
  Worlds <- MCWorlds
  Strategies = {s1, s2}
  MaxOpenLoops = 2
  MaxProjects = 1
  MaxProjectTasks = 2
  MaxTaskDependencies = 1
  MaxHandoff = 4
  MaxStrategies = 1
  MaxCycles = 2
  MaxDecisions = 3
INVARIANTS ReplannedIsNotStalled SomeTaskIsReady
PROPERTIES CommitmentsAreAccounted RepeatedFailuresAreKept
CHECK_DEADLOCK FALSE
