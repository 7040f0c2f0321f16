\* Two requests, forced or not, with files the stamp leaves alone.
CONSTANTS
    r1 = r1  r2 = r2  r3 = r3  p1 = p1  p2 = p2  d1 = d1  d2 = d2  None = None
    Request = {r1, r2}
    PdfId = {p1, p2}
    Doi = {d1, d2}
    Slot = {1, 2}
    Hash <- MCHash
    Embedded <- MCEmbedded
    Stamped <- StampNothing
    ObjectSlot <- MCObjectSlot
    DoiSlot <- MCDoiSlot
    Inputs <- ForcedInputs
    SeedDoi <- SeedD
    SeedSha <- SeedS
    Faults = {"cancel", "softDelete", "correction", "earlyError"}
SPECIFICATION Spec
SYMMETRY Symmetry
INVARIANT CommitNeverConflicts
PROPERTIES AtomicRegistry BoundToItsDoi
