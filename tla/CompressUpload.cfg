\* Two stamped uploads, forced or not, and two workers.
CONSTANTS
    r1 = r1  r2 = r2  p1 = p1  p2 = p2  d1 = d1  d2 = d2
    w1 = w1  w2 = w2  None = None
    Request = {r1, r2}
    PdfId = {p1, p2}
    Doi = {d1, d2}
    Slot = {1, 2}
    Worker = {w1, w2}
    Hash <- MCHash
    Embedded <- MCEmbedded
    Stamped <- StampDoi
    Optimized <- MCOptimized
    ObjectSlot <- MCObjectSlot
    DoiSlot <- MCDoiSlot
    Inputs <- OwnInputs
    SeedDoi <- SeedD
    SeedSha <- SeedS
    Faults = {"cancel", "softDelete"}
SPECIFICATION CompressorSpec
SYMMETRY Symmetry
INVARIANT StoredUnlessForced
PROPERTIES AtomicCompaction NoLostReplacement
