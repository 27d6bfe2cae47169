SPECIFICATION Spec
CONSTANTS
  Instance = {i1, i2}
  i1 = i1
  i2 = i2
  MaxDrops = 0
  MaxTimeouts = 0
  ManualResume = FALSE
  Reaping = FALSE
  Activities = {"idle", "busy", "background", "waiting"}
  Unknown = TRUE
  ChordKeys = 2
  RowKeys = 2
  SweepTries = 2
  TypingGap = TRUE
  MaxInputs = 2
SYMMETRY Symmetry
INVARIANTS NotStuckPaused NoSilentStop
PROPERTIES DraftSafe NoEscAfterOverride
