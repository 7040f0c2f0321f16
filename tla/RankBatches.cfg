\* Two requests at a time, two lists that share a journal, one visitor;
\* two restarts, errors or outages.
CONSTANTS
    u1 = u1  u2 = u2  v1 = v1  n1 = n1  n2 = n2  l1 = l1  l2 = l2  None = None
    User = {u1, u2}
    Visitor = {v1}
    Name = {n1, n2}
    List = {l1, l2}
    Names <- MCNames
    Visits <- MCVisits
    Requests <- MCRequests
    MaxOpen = 1
    MaxBatches = 2
    MaxTime = 2
    MaxFaults = 2
    Faults = {"restart", "dbError", "outage"}
SPECIFICATION FairSpec
INVARIANT ProgressIsServed
PROPERTIES NeverOlder EveryBatchEnds
