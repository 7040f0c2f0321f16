\* Two requests on one event loop with one free thread.  The server may stop:
\* a request holds a flock and waits for the thread that waits for its flock.
CONSTANTS
    r1 = r1  r2 = r2  r3 = r3  p1 = p1  p2 = p2  d1 = d1  d2 = d2  None = None
    Request = {r1, r2}
    Threads = 1
    PdfId = {p1, p2}
    Doi = {d1, d2}
    Slot = {1, 2}
    Hash <- MCHash
    Embedded <- MCEmbedded
    Stamped <- StampDoi
    ObjectSlot <- MCObjectSlot
    DoiSlot <- MCDoiSlot
    Inputs <- ServerInputs
    SeedDoi <- SeedD
    SeedSha <- SeedS
    Faults = {"cancel", "softDelete", "correction", "earlyError", "dbError"}
SPECIFICATION FairSpec
INVARIANTS OneWriterPerKey NothingLeftBehind SomebodyMoves
PROPERTY EveryUploadEnds
CHECK_DEADLOCK FALSE
