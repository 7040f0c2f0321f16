\* Two files, an ordinary command and one with --retry-failed.
CONSTANTS
    p1 = p1  p2 = p2  c1 = c1  c2 = c2  None = None  Torn = Torn  Split = Split
    Path = {p1, p2}
    Scan <- MCScan
    Folder <- MCFolder
    Content = {"copy", "scan", "wrong"}
    Article <- MCArticle
    Kind <- MCKind
    Layouts <- MCLayouts
    Revisions = {"scan"}
    Command = {c1, c2}
    Retrying = {c2}
    Workers = 1
    Attempts = 2
    Cuts = {"torn", "whole", "split"}
SPECIFICATION FairSpec
INVARIANT SentIsQueued
PROPERTIES JournalIsQueue QueueDrains
CHECK_DEADLOCK FALSE
