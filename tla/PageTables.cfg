SPECIFICATION Spec
CONSTANTS
  EntriesPerTable = 2
  BootFrames <- MCBootFrames
  BootTables <- MCBootTables
  PoolFrames <- MCPoolFrames
  Vpages <- MCVpages
  Physicals = {300, 301}
  FlagSets <- MCFlagSets
INVARIANTS
  TypeOK
  TablesFormTree
  TlbCoherent
PROPERTIES
  BootTablesUntouched
  SwitchKeepsTranslations
  UpdatesOnlyItsPage
  CloneFinishes
