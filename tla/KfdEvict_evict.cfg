SPECIFICATION FairSpec
CONSTANTS
    N = 2
    ResetDevs = {1}
    SuspendDev = 2
    Sources = {"ttm", "suspend", "reset", "svm", "exit"}
    MaxEvents = 3
INVARIANTS TypeOK EvictionsBalanced StoppedWhenSignaled StoppedForSvm
PROPERTIES FenceSignals QueuesComeBack
