CONSTANTS
  user = user
  anon = anon
  NoRun = NoRun
  NoKey = NoKey
  MaxRuns = 2
  Runs <- MCRuns
  Keys <- MCKeys
  AnonKeys <- MCAnonKeys
  TaskKinds <- MCTaskKinds
  MaxCrashes = 1
SPECIFICATION Spec
CHECK_DEADLOCK FALSE
INVARIANT OneActiveRun
