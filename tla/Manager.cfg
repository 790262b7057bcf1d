SPECIFICATION ManagerSpec
CONSTANTS
    Sessions <- SomeSessions
    Ambients <- SomeAmbients
    Vessels <- SomeVessels
    Remaining <- SomeTimes
    Controls = {0}
    KillAt <- SomePlaces
    Query <- TwoQueries
    Columns <- TheirColumns
    Rows <- TheirRows
    Session = {1, 2}
    MaxErrors = 2
    Samples = {0, 5, 12}
    ZeroCelsius = 8
    AvgLen = 3
    RangeMin = 2
    RangeMax = 10
    Days = {2}
INVARIANTS ManagerTypeOK AverageWithinSamples InitRecovers LooksAsDrawnAfresh ColumnIsTheOneNamed NothingLeaks ListedOrError
PROPERTIES Follows
CHECK_DEADLOCK FALSE
