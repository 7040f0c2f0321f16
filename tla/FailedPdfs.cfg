\* A signed row and one with a polluted DOI; three programs started by hand
\* and any number of resumptions; two crashes, signals or errors; an upload or
\* delete at any time.  When all of it has happened the system rests.
CONSTANTS
    r1 = r1  d1 = d1  d2 = d2  d2x = d2x  None = None
    Pdf = {1, 2, 3}
    Hash = {"bad", "big", "small", "copy"}
    Doi = {d1, d2, d2x}
    SeedSha <- MCSeedSha
    SeedDoi <- MCSeedDoi
    DoiOf <- MCDoiOf
    Registered = {d1, d2}
    Stripped <- MCStripped
    Form <- MCForm
    Cites <- MCCites
    Titled <- MCTitled
    InfoDois <- MCInfoDois
    OwnDoi <- MCOwnDoi
    Smaller <- MCSmaller
    FirstDoi = {2}
    Request = {r1}
    Jobs = 2  PageSize = 2  PilotLimit = 1
    MaxRuns = 3
    MaxChanges = 1
    MaxHalts = 2
SPECIFICATION FairSpec
INVARIANT StoredUnlessPruned
PROPERTIES PrunedAsFailed CleanupEnds
CHECK_DEADLOCK FALSE
