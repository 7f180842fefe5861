SPECIFICATION Spec
CONSTANTS
  Keys = {k1}
  valueCount = 1
  NoFile = NoFile
  NoDraft = NoDraft
  NoEntry = NoEntry
  NoEditor = NoEditor
  NoSnapshot = NoSnapshot
  Lengths = {2}
  OpenLimit = 1
  Limits = {1}
  Versions = {1}
  Faults = {}
  Compact = 9
  MaxEdits = 2
  MaxCrashes = 0
  MaxFaults = 0
  MaxLines = 6
  MaxPending = 1
PROPERTY
  LimitRestored
CHECK_DEADLOCK FALSE
