\* Three delegate calls, one pair that delegates further and one that does not.
SPECIFICATION Spec
CONSTANTS
    None = None
    Root = root
    Task = {t1, t2, t3}
    Key = {pi_local, cli_docker}
    RouterKey = {pi_local}
    Cause = {done}
    MaxUsage = 1
SYMMETRY Symmetry
INVARIANTS
    BillRollsUp
    OnlyOwnTerminalSettles
    WorkspacesApart
CHECK_DEADLOCK FALSE
