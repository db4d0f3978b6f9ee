CONSTANTS
    r1 = r1
    r2 = r2
    r3 = r3
    six = six
    four = four
    Null = Null
    Resolvers <- TwoResolvers
    Hosts <- TwoHosts
    Zone <- Records
    MaxId = 1
    MaxAsked = 1
    MaxListed = 2
SPECIFICATION Spec
SYMMETRY Symmetry
INVARIANTS
    ListedOnce
CHECK_DEADLOCK FALSE
