CONSTANTS
    c1 = c1
    c2 = c2
    t1 = t1
    t2 = t2
    t3 = t3
    r1 = r1
    r2 = r2
    r3 = r3
    Null = Null
    Clients <- OneClient
    Threads <- ThreeThreads
    Resolvers <- TwoResolvers
    MaxRequests = 2
    NoServer = {r2}
    Belated <- TwoResolvers
    ClientOps = {"resolve", "cancel", "clean_up"}
    CallbackOps = {"resolve", "cancel"}
    CallbackDriven = FALSE
    OpenMayFail = TRUE
    SocketMayFail = TRUE
SPECIFICATION Spec
SYMMETRY Symmetry
INVARIANTS
    TypeOK
    MapsAgree
    DrainsOwnQueue
    OneWorker
    TwoObjects
    UnsentIsNoticed
    QuitIsNoticed
PROPERTIES
    CancelStopsCallbacks
    ServesRequests
CHECK_DEADLOCK FALSE
