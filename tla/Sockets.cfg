CONSTANTS
    t1 = t1
    t2 = t2
    v1 = v1
    v2 = v2
    u1 = u1
    u2 = u2
    f1 = f1
    f2 = f2
    f3 = f3
    Invalid = Invalid
    Tcps <- TwoTcps
    Servers <- TwoServers
    Udps <- OneUdp
    Readiness = {"read"}
    Fds <- TwoFds
SPECIFICATION Spec
SYMMETRY Symmetry
INVARIANTS
    TypeOK
    DescriptorOwned
    ReadyAsPromised
    FailureCloses
    BindsItsFamily
    NaggleAsOpened
PROPERTIES
    QuietWhenOpened
    OwnsDescriptors
