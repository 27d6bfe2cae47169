SPECIFICATION FairSpec
CONSTANTS
  Instance = {i1}
  i1 = i1
  MaxDrops = 1
  MaxTimeouts = 0
  ManualResume = TRUE
  Reaping = TRUE
  Activities = {"idle", "busy"}
  Unknown = FALSE
  ChordKeys = 1
  RowKeys = 1
  SweepTries = 0
  TypingGap = FALSE
  MaxInputs = 1
PROPERTIES PauseSettles PauseEnds QuietAgain
