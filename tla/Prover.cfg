\* A small challenge cycle of 14 seconds, started at every second of a cycle and
\* followed for two whole cycles; Stop is called at any second of the first of
\* them, or never.  The horizon ends the behaviours: no deadlock check.
SPECIFICATION FairSpec
CHECK_DEADLOCK FALSE
CONSTANTS
    Prep = 2
    Prove = 6
    Wait = 6
    Late = 1
    Slow = 1
    Failures = 1
    Horizon = 155
    StopBy = 127
    Start <- AnySecond
INVARIANTS
    TypeOK
    WokenInWindow
    OnePerCycle
    

    
