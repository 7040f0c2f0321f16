\* Two PDFs of one name; one replacement or deletion on the server, two
\* faults or runs of another command line.
CONSTANTS
    a = a  b = b  a1 = a1  a2 = a2  b1 = b1  x1 = x1  None = None
    Doi = {a, b}
    Versions <- MCVersions
    Others = {x1}
    Size <- MCSize
    Name <- MCName
    Counters <- MCCounters
    Requests <- MCRequests
    Again <- MCAgain
    Leftovers <- MCLeftovers
    Workers = 2
    MaxChanges = 1
    MaxFaults = 2
SPECIFICATION FairSpec
INVARIANT SavedIsExact
PROPERTIES NeverOverwritten EverySaved
