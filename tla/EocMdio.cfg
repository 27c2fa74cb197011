\* Calls over a link that loses and delays frames: up to three attempts, with
\* three frames under way in each direction.
SPECIFICATION FairSpec
CONSTANTS
    Regs = {"bmcr", "page"}
    Data = {0, 1}
    InitData = 0
    LoopNum = 3
    InFlight = 3
    Refuses = TRUE
CHECK_DEADLOCK FALSE
INVARIANTS LinkInv
PROPERTIES ReturnsTrue NoLateWrite CallsEnd
