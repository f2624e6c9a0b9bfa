\* Three handles, pool sizes one and two, three keys.
SPECIFICATION FairSpec
CONSTANTS
    None = None
    alice = alice
    bob = bob
    env = env
    proj = proj
    Handle = {h1, h2, h3}
    Identity <- MCIdentity
    Target <- MCTarget
INVARIANTS
    AdoptedByItsOwn
    AdoptedNeverReaped
    NoOvershoot
    NoPhantomProvision
PROPERTY
    NoneLingers
CHECK_DEADLOCK FALSE
