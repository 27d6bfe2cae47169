SPECIFICATION Spec
CONSTANTS
  Instance = {i1, i2}
  i1 = i1
  i2 = i2
  MaxDrops = 1
  MaxTimeouts = 1
  ManualResume = FALSE
  Reaping = FALSE
  Activities = {"idle", "busy"}
  Unknown = TRUE
  ChordKeys = 1
  RowKeys = 1
  SweepTries = 0
  TypingGap = FALSE
  MaxInputs = 1
SYMMETRY Symmetry
INVARIANT SamePause
PROPERTIES KeepsPromise StepsOnce PromptAfterEsc NeverRepaused
