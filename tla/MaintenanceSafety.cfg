\* Three jobs of every kind, two administrators, worker crashes and reboots.
CONSTANTS
    j1 = j1  j2 = j2  j3 = j3  a1 = a1  a2 = a2  None = None  Cron = Cron
    Job = {j1, j2, j3}
    Admin = {a1, a2}
    Kinds = {"audit", "metadata_preview", "compression", "metadata_apply", "full_compression"}
    Faults = {"crash", "reboot"}
    MaxCrashes = 2
SPECIFICATION Spec
SYMMETRY Symmetry
INVARIANTS CommandHasItsJob HonestOutcome WritesPreviewed
PROPERTY OneBoard
