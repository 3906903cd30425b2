SPECIFICATION FairSpec
CONSTANTS
    j1 = j1  j2 = j2  w1 = w1  w2 = w2  k1 = k1
    NoKey = NoKey  NoWorker = NoWorker
    Jobs = {j1}
    Workers = {w1, w2}
    Keys = {k1}
    KeyOf <- MCNoKeys
    MaxAttempts <- MCOneTry
    Once = {}
    Resumable = {j1}
    Resumes = 1
    Concurrency = 1
    MaxRetried = 1
    MaxStops = 1
PROPERTIES
    ImplementsTaskQueue
    EveryJobEnds
