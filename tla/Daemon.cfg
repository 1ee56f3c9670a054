SPECIFICATION Spec
CHECK_DEADLOCK FALSE
CONSTANTS
    None = None
    Http = {http}
    Rpc = {rpc}
    Requests = {r1, r2, r3}
    MaxFaults = 4
INVARIANTS TypeOK NoUseAfterClose
PROPERTIES StopTerminates Comeback
