SPECIFICATION Spec
CONSTANTS
  Inputs = {file1, file2}
  software = software
  firmware = firmware
  documents = documents
  Components <- AllComponents
  Publishable = {software, firmware}
  Matched = {software}
  Extractable = {software}
  Ambiguous = {}
  Files <- FileKinds
  Absent = Absent
  Uploads = {single, batch}
  Batches = {batch}
  Builds = {build}
  Searches = {lookup}
  Name = Name
  Torn = Torn
  None = None
  MaxMishaps = 1
CONSTRAINTS OneTurn OneChange
INVARIANTS TypeOK PlanKeepsItsWord RepositoryIsTrue
PROPERTY RequestsEnd
CHECK_DEADLOCK FALSE
