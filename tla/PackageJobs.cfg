\* Two turns of one session, both to the same service, one with files.
SPECIFICATION MCSpec
CONSTANTS
  Turns = {t1, t2}
  Uploads = {t1}
  Services = {package_search, log_analysis}
  Packer = package_search
  Sessions = {s1}
  NoJob = NoJob
  Plans = {planA, planB}
  NoPlan = NoPlan
INVARIANTS TypeOK WatchersSeeTheEnd MirrorsSettle ShadowsExclusive PublishedAsConfirmed NoPackageAfterPromise
PROPERTIES JobsAndStreamsEnd
CHECK_DEADLOCK FALSE
