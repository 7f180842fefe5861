SPECIFICATION Spec
CONSTANTS
  Keys = {k1, k2}
  valueCount = 2
  NoFile = NoFile
  NoDraft = NoDraft
  NoEntry = NoEntry
  NoEditor = NoEditor
  NoSnapshot = NoSnapshot
  Lengths = {1}
  OpenLimit = 3
  Limits = {2}
  Versions = {1}
  Faults = {"stream", "create", "delete", "flush", "rename", "rebuild"}
  Compact = 2
  MaxEdits = 2
  MaxCrashes = 1
  MaxFaults = 1
  MaxLines = 3
  MaxPending = 1
INVARIANTS
  TypeOK
  SizeIsSum
  NoFileLeak
  JournalAgrees
  Durable
  OwnSnapshotCurrent

  
CHECK_DEADLOCK FALSE
