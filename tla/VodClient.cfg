\* Any keys, with the clearing thread between any two accesses of a handler.
SPECIFICATION FairSpec
CONSTANT MaxList = 2
CHECK_DEADLOCK FALSE
INVARIANTS TypeOK BarStays AreaTruth
PROPERTIES KeysHandled QueueDrains
