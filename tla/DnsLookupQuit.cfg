CONSTANTS
    c1 = c1
    c2 = c2
    t1 = t1
    t2 = t2
    t3 = t3
    r1 = r1
    r2 = r2
    r3 = r3
    Null = Null
    Clients <- OneClient
    Threads <- TwoThreads
    Resolvers <- OneResolver
    MaxRequests = 1
    NoServer = {}
    Belated <- OneResolver
    ClientOps = {"resolve", "cancel"}
    CallbackOps = {}
    CallbackDriven = FALSE
    OpenMayFail = FALSE
    SocketMayFail = FALSE
SPECIFICATION Spec
INVARIANTS
    ActiveRequestsHaveThread
