\* One caller with every way a call can go, one that only commits, fails and reports.
SPECIFICATION MCSpec
CONSTANTS
  Callers = {r1, r2}
  Window = 2
  Threshold = 2
  MinSamples = 2
  HardTrip = 1
  Cooldown = 2
  Keys = 2
INVARIANTS TypeOK OneVoice AttemptsReaped
CHECK_DEADLOCK FALSE
PROPERTY PrimaryComesBack
