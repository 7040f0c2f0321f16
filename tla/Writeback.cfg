\* Two commands over ten kinds of files, with an outage, an edit and a crash.
SPECIFICATION Spec
CONSTANTS
  Work = {"w1", "w2", "w3", "w4"}
  NoWork = "none"
  LastDoi = 8
  Registry <- MCRegistry
  Paper <- MCPaper
  Facts <- MCFacts
  MaxTried = 3
  c1 = c1
  c2 = c2
  Cmd = {c1, c2}
  Polite = FALSE
  MaxOutages = 1
  File <- MCFile
  Edited <- MCEdited
  Said <- MCSaid
  Jobs <- MCJobs
  MaxTries = 2
  MaxEdits = 1
  MaxCrashes = 1
INVARIANTS NoFitPassedOver WrittenIsSole OriginalKept WrittenIsBound
PROPERTY EveryCommandEnds
CHECK_DEADLOCK FALSE
