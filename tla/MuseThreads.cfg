SPECIFICATION FairSpec
CONSTANTS
    Threads = {main, t1}
    Primary = main
    Worker = worker
    Requests = {r1}
    Retention = 2
    MaxCrashes = 1
INVARIANT NoneForgotten
PROPERTY Reclaimed
