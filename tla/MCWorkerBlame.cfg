SPECIFICATION Spec
CONSTANTS
  j1 = j1
  j2 = j2
  j3 = j3
  Job = {j1, j2}
  Watched = {j2}
  Forking = {}
  Mortal = FALSE
  Width = 1
  MaxSpawns = 2
  NoJob = no_job
  NoWorker = no_worker
  Ready = ready_frame
  Eof = eof
INVARIANT DeathBlamesTheRunningJob
CHECK_DEADLOCK FALSE
