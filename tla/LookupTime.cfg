CONSTANTS
    r1 = r1
    r2 = r2
    Resolvers <- TwoResolvers
    W = 8
    Timeouts = {0, 2, 5, 7}
    Slack = 1
    MaxTime = 15
SPECIFICATION Spec
SYMMETRY Symmetry
INVARIANTS
    TypeOK
    NeverVeryLate
PROPERTIES
    RoundExpiresDue
    EarlyOnlyIfUnnoticed
