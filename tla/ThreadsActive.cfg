SPECIFICATION Spec
CONSTANTS
    Threads = {main, t1}
    Primary = main
    Worker = worker
    Requests = {r1}
    Retention = 2
    MaxCrashes = 0
PROPERTY ActiveThreadsKept
