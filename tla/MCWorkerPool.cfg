SPECIFICATION Spec
CONSTANTS
  j1 = j1
  j2 = j2
  j3 = j3
  Job = {j1, j2, j3}
  Watched = {j2}
  Forking = {j1}
  Mortal = TRUE
  Width = 1
  MaxSpawns = 2
  NoJob = no_job
  NoWorker = no_worker
  Ready = ready_frame
  Eof = eof
INVARIANTS
  SlotsConserved
  LeasesAreExclusive
  AnswersMatch
  NoWorkerOutlivesClose
PROPERTIES
  WatchedJobsComplete
  CloseCompletes
  CloseEndsEveryJob
  OrphansEnd
CHECK_DEADLOCK FALSE
