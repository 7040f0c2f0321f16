\* Two jobs, one of them perhaps a full run that is stopped; workers crash,
\* and other coordinators hold the batch lock.
CONSTANTS
    j1 = j1  j2 = j2  j3 = j3  a1 = a1  a2 = a2  None = None  Cron = Cron
    Job = {j1, j2}
    Admin = {a1, a2}
    Kinds = {"audit", "compression", "full_compression"}
    Faults = {"crash", "reboot", "cron"}
    MaxCrashes = 2
SPECIFICATION FairSpec
PROPERTY EveryJobEnds
