\* Two commands at a time, four in all, on three keys and two passwords, with a
\* failing write and a kill.  The bound on commands ends the behaviours: no
\* deadlock check.
SPECIFICATION Spec
CHECK_DEADLOCK FALSE
CONSTANTS
    Procs = {p1, p2}
    Keys = {k0, k1, k2}
    Passwords = {w1, w2}
    Shipped = k0
    None = None
    MaxFaults = 1
    MaxKills = 1
    MaxRuns = 4
SYMMETRY Symmetry
INVARIANTS
    TypeOK
    ConfigSurvives
    SelectedIsStored
PROPERTIES
    KeysKept
    AckedCommand
