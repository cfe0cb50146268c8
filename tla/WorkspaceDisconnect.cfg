\* Two turns of one project-expert session, which may disconnect at any time.
SPECIFICATION WorkSpec
CONSTANTS
  Turns = {t1, t2}
  Uploads = {}
  Services = {project_expert}
  Packer = package_search
  Sessions = {s1}
  NoJob = NoJob
PROPERTIES JobRunsToCompletion
CHECK_DEADLOCK FALSE
