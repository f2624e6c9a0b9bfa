\* One chain of two delegate calls, then endSession on the top session.
SPECIFICATION Spec
CONSTANTS
    None = None
    Root = root
    Task = {t1, t2}
    Key = {pi_local, cli_docker}
    RouterKey = {pi_local}
    Cause = {done, error}
    MaxUsage = 0
INVARIANT EndSessionTakesAll
CHECK_DEADLOCK FALSE
