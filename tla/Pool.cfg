SPECIFICATION FairSpec
CONSTANTS
    c1 = c1
    c2 = c2
    Clients = {c1, c2}
    worker_count = 2
    MaxTasks = 2
INVARIANTS
    Accounting
    FinishedMeansDrained
PROPERTIES
    AcceptedTasksRun
    ShutdownReturns
