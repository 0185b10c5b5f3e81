SPECIFICATION Spec
CONSTANTS
  Runs = {c1, c2}
  claude = claude
  gemini = gemini
  Aliases <- AliasesDef
  Names = {n}
  Fresh = {3}
  OutBody = {1}
  AliasNodes <- AliasNodesDef
  EntryNodes <- EntryNodesDef
  RootNodes <- RootNodesDef
  RootEntries <- RootEntriesDef
  MaxEdits = 1
  MaxFaults = 1
CHECK_DEADLOCK FALSE
PROPERTIES
  NothingLost
  AsBefore
  PlanIsRight
  Recovers
