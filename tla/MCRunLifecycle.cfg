\* Two messages on one session, two snapshots, two usage reports each.
SPECIFICATION FairSpec
CONSTANTS
    None = None
    r1 = r1
    r2 = r2
    chat = chat
    Run <- MCRun
    Session <- MCSession
    SessionOf <- MCSessionOf
    Snapshot = {snap1, snap2}
    MaxUsage = 2
PROPERTIES
    EveryRunAnswered
    KeepsContract
    ServesClients
CHECK_DEADLOCK FALSE
