SPECIFICATION DaemonSpec
CONSTANTS
    p = p
    a = a
    b = b
    scheduler = scheduler
    route = route
    task = task
    LoopIds = {p}
    Requests <- EveryMode
    IterateLimit = 2
    MaxStarts = 3
    MaxCrashes = 1
    NoLoop = NoLoop
    Sockets = {a, b}
    Publishers = {scheduler, route}
    Topics = {task}
    MaxEvents = 2
    MaxAsked = 2
    NoSocket = NoSocket
INVARIANTS OneRunAtATime BudgetKept OneStrayAtMost DeliveredOnceInOrder MissedByDeparturesOnly
PROPERTIES LoopMovesOn PublishReturns
CHECK_DEADLOCK FALSE
