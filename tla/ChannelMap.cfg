SPECIFICATION Spec
CONSTANTS
  Rows = {"inputs", "outputs"}
  Fed <- MCFed
  Channels = 2
  Layouts = {"mono", "linked", "swapped", "bare"}
  Shows <- MCShows
  Files <- MCFiles
  Uploads <- MCUploads
  Example <- MCExample
  Sweeps <- MCSweeps
  None = None
  Torn = Torn
  Mishaps = {"crossed", "behind", "untabled", "wiped", "reused", "unflagged", "halfway", "failed", "torn"}
  MaxOps = 2
INVARIANTS
  FileWhole
  SavedIsKept
  SweepKept
  RestartChangesNothing
  NamesLearned
  AimsRight
  MeasuredIsComplete
CHECK_DEADLOCK FALSE
