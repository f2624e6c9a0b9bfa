\* Four messages, two owners, two turns kept; two runs of one session, two
\* events of the first.
SPECIFICATION PersistenceSpec
CONSTANTS
    None = None
    m1 = m1
    m2 = m2
    m3 = m3
    other = other
    r1 = r1
    r2 = r2
    alice = alice
    bob = bob
    chat = chat
    Message <- MCMessage
    From <- MCFrom
    MAX_TURNS = 2
    Run <- MCRun
    Session <- MCSession
    SessionOf <- MCSessionOf
    MaxEvents <- MCMaxEvents
INVARIANTS
    ConversationInOrder
    RemembersLatest
    ReplayInOrder
    TallyCountsTranscript
CHECK_DEADLOCK FALSE
