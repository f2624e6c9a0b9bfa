\* Each of the four surfaces from its mount on.
CONSTANTS
    Session = {s1, s2}
    Server = {v1}
    App = {a1, a2}
    Stamp = {t1, t2}
    None = None
    MaxTexts = 3
    MaxNotices = 2
    MaxPolls = 2
    MaxMoves = 2
    MaxReads = 1
SPECIFICATION FairSpec
INVARIANTS
    PaneShowsItsSession
    ReaderShowsTheFile
    InitReachesItsApp
PROPERTIES
    LoadingEnds
    ReadyIsShown
CHECK_DEADLOCK FALSE
