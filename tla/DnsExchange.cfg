CONSTANTS
    r1 = r1
    r2 = r2
    r3 = r3
    six = six
    four = four
    Null = Null
    Resolvers <- ThreeResolvers
    Hosts <- TwoHosts
    Zone <- Records
    MaxId = 2
    MaxAsked = 2
    MaxListed = 3
SPECIFICATION Spec
SYMMETRY Symmetry
INVARIANTS
    TypeOK
    IdsDistinct
    RefusedOnlyIfFull
PROPERTIES
    MeetsService
CHECK_DEADLOCK FALSE
