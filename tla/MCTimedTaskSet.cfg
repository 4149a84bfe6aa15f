CONSTANTS
  Ids = {a, b, c}
  Crons = {"fields", "nickname", "missing"}
  Versions = {v1, v2}
  NoEntry = NoEntry
  Torn = Torn
  Unknown = Unknown
SPECIFICATION Spec
SYMMETRY EntrySymmetry
INVARIANTS
  IInv
  UniqueIds
  CronReadsWhole
  NoPhantom
  Durable
  FilesUpdated
