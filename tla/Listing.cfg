SPECIFICATION ListSpec
CONSTANTS MaxId = 4  PageSize = 2  MaxFaults = 1
INVARIANTS ListTypeOK NoRowTwice NoSteadyRowMissed
CHECK_DEADLOCK FALSE
