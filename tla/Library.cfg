CONSTANTS
    h1 = h1
    Null = Null
    Handlers <- OneHandler
    Lookups <- SomeLookups
    Replies <- SomeReplies
SPECIFICATION Spec
INVARIANTS
    TypeOK
    SignalSafe
    DispositionKept
    PeerIsServer
    PortAsSpelled
    EchoIsRecognised
    FirstRecordReported
PROPERTIES
    ServerChosen
CHECK_DEADLOCK FALSE
