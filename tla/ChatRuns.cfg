CONSTANTS
  user = user
  anon = anon
  NoRun = NoRun
  NoKey = NoKey
  MaxRuns = 2
  Runs <- MCRuns
  Keys <- MCKeys
  AnonKeys <- MCAnonKeys
  TaskKinds <- MCTaskKinds
  MaxCrashes = 1
SPECIFICATION MCSpec
CHECK_DEADLOCK FALSE
INVARIANTS TypeOK CancelWins AnonymousExclusive RegistrySound
PROPERTIES RowNeverReopens RunSettles RunsAreLifecycles
