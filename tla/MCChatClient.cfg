\* Two chats, one with a history, two prompts, two sub-runs.
CONSTANTS
    ChatId = {a, b}
    Archived = {a}
    Kid = {k1, k2}
    MaxPrompts = 2
    None = None
SPECIFICATION ChatSpec
CONSTRAINTS OneFetch FewKids
SYMMETRY KidSymmetry
INVARIANTS
    SaidWhereShown
    QueuedOrSent
    LockedIsBusy
PROPERTIES
    ShownIsKept
    UsesService
CHECK_DEADLOCK FALSE
