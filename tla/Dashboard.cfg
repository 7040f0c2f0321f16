\* One user, two threads, entries that live two ticks, and two changes of the
\* library or of a list; its first version has journals, its second one has
\* none, its third one has some again.
CONSTANTS
    u1 = u1  r1 = r1  r2 = r2
    User = {u1}
    Request = {r1, r2}
    TTL = 2
    Bare = {1}
    MaxEdits = 2
SPECIFICATION FairStatsSpec
INVARIANT BoundedStaleness
 
