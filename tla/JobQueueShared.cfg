SPECIFICATION Spec
CONSTANTS
    j1 = j1  j2 = j2  w1 = w1  w2 = w2  k1 = k1
    NoKey = NoKey  NoWorker = NoWorker
    Jobs = {j1, j2}
    Workers = {w1, w2}
    Keys = {k1}
    KeyOf <- MCOneKey
    MaxAttempts <- MCOnceTwice
    Once = {j1}
    Resumable = {j2}
    Resumes = 1
    Concurrency = 2
    MaxRetried = 0
    MaxStops = 1
SYMMETRY WorkerSymmetry
INVARIANTS
  OnceRunsAlone
  OnceNotRunAfterCutOff
  HolderIsLatestClaim
  LimitsKept
