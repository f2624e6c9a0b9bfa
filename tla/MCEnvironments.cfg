\* Five adapters, three kinds of source, every failure of a provision.
CONSTANTS
    Caller = {c1, c2}
    Port = {p1, p2}
    MaxServers = 2
    None = None
SPECIFICATION FairSpec
INVARIANTS
    AllOrNothing
    DestroyTakesAll
PROPERTY DestroyEnds
CHECK_DEADLOCK FALSE
