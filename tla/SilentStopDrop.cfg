SPECIFICATION Spec
CONSTANTS
  Instance = {i1}
  i1 = i1
  MaxDrops = 1
  MaxTimeouts = 0
  ManualResume = FALSE
  Reaping = FALSE
  Activities = {"idle", "busy"}
  Unknown = FALSE
  ChordKeys = 1
  RowKeys = 1
  SweepTries = 0
  TypingGap = FALSE
  MaxInputs = 0
SYMMETRY Symmetry
INVARIANT NoSilentStop
