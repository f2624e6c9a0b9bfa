\* One chat, two prompts: the run of the first is still under way when the
\* second is sent.
CONSTANTS
    ChatId = {a}
    Archived = {}
    Kid = {}
    MaxPrompts = 2
    None = None
SPECIFICATION ChatSpec
INVARIANTS
    RefusalSettles
CHECK_DEADLOCK FALSE
