\* All kinds of run; ids 1 and 3 present, 2 becomes visible late.
\* Without active rows no run starts: the system may stop.
CONSTANTS
    Pdf <- ThreePdfs
    Seed <- OneThree
    Modes = {"full", "capped", "pilot", "approved", "serial"}
    Jobs = 2
    PageSize = 2
    MaxFiles = 2
    PilotLimit = 1
    MaxVersion = 2
    MaxChanges = 1
    MaxHalts = 2
SPECIFICATION FairSpec
INVARIANT NoneSkipped
PROPERTIES SweepIsComplete EveryRowAttempted StopEndsRun
CHECK_DEADLOCK FALSE
