\* Three calls on one session, two owners, two environments, one pool sandbox.
SPECIFICATION FairSpec
CONSTANTS
    None = None
    alice = alice
    bob = bob
    here = here
    there = there
    proj = proj
    Handle = {h1}
    Calls = 3
    Opened <- MCOpened
    Session = {s1}
    Request <- MCRequest
    Identity <- MCIdentity
    Target <- MCTarget
INVARIANTS
    OwnersApart
    NoOrphan
    RunsOnLiveSandbox
PROPERTY
    LockReturns
CHECK_DEADLOCK FALSE
