SPECIFICATION Spec
CONSTANTS
    n1 = n1
    n2 = n2
    Dialer = n2
    Listener = n1
    Validator = n1
    Requests <- Submissions
    Watched = {n2}
    StartHeight <- OneBehind
    LastHeight = 2
    Capacity = 1
INVARIANTS
    StuckOnlyWhenJammed
    StreamIsCurrent
CHECK_DEADLOCK FALSE
