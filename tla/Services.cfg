SPECIFICATION ServicesSpec
CONSTANTS
    Requests <- SomeRequests
    MaxName = 4
    Local = {3}
    MaxHostChanges = 2
    MaxFaults = 2
    MaxValue = 5
    MaxWrapper = 3
    Key = {1, 2}
INVARIANTS ServicesTypeOK OneName FreedOnce AnswersTheRequest RefsExact TreesAgree
PROPERTIES TakesOver ServiceRegisters
CHECK_DEADLOCK FALSE
