\* One file; the chunking settings are changed, a run dies after chunking and the
\* old settings come back: the chunk cache is ahead of the manifest.
CONSTANTS
  NumFiles = 1
  MaxVersion = 1
  MaxSetting = 2
  Reverts = TRUE
  MaxEdits = 2
  MaxRuns = 3
  MaxDeaths = 1
  Absent = Absent
  Torn = Torn
SPECIFICATION Spec
CHECK_DEADLOCK FALSE
PROPERTY ReuseIsSound
