SPECIFICATION FairSpec
CONSTANTS
    Tasks <- MCTasks
    SelfStop <- MCSelfStop
    MaxVersion = 2
    WireCap = 2
    MaxHistory = 1
INVARIANTS
    CurrentUnlessMissed
PROPERTIES
    ConfigNeverGoesBack
    ClientReadsAgain
    ShutdownCompletes
CHECK_DEADLOCK FALSE
