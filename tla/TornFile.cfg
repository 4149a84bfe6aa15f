CONSTANTS
  Ids = {a}
  Crons = {"fields"}
  Versions = {1, 2}
  NoEntry = NoEntry
  Torn = Torn
  Unknown = Unknown
SPECIFICATION FairSpec
PROPERTIES Recovers
