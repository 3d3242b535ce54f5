SPECIFICATION FairSpec
CONSTANTS
  Keys = {k1}
  Responses = {processed}
  Processed = processed
  Window = 0
  MaxTime = 1
  Second = 1
  Millisecond = 1
  DurationLimit = 8
  DefaultSkewSecs = 1
  Requests = {r1, r2}
  Probes = {p}
  Envs <- MCEnvs
  Seeds <- MCSeeds
  DeploymentFiles <- MCDeploymentFiles
  MaxBoots = 2
  MaxFaults = 1
CHECK_DEADLOCK FALSE
INVARIANTS
  TypeOK
  KeptUnlessInterrupted
  CleanStopsLoseNothing
  ProcessedWasSent
PROPERTIES
  SignalEndsProcess
  WaitingFilesShow
