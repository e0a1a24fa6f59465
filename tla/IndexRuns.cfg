\* Two files, three contents, two settings; full builds, updates and the
\* server's rebuild, with a crash.
CONSTANTS
  NumFiles = 2
  MaxVersion = 3
  MaxSetting = 2
  Reverts = FALSE
  MaxEdits = 3
  MaxRuns = 3
  MaxDeaths = 1
  Absent = Absent
  Torn = Torn
SPECIFICATION Spec
CHECK_DEADLOCK FALSE
INVARIANTS
  UnchangedIsIndexed
  DenseAligned
PROPERTIES
  ReuseIsSound
  FullBuildRepairs
