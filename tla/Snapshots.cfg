SPECIFICATION Spec
CONSTANTS
  UpdateBackup = 4
  CmdBackup = 4
  CommandRing = 4
  CommandWindow = 256
  EntityRing = 12
  OtherEntities = 1
  Ents <- MCEnts
  Baselines <- MCBaselines
  ClockSteps = {0, 1}
  Scenarios <- MCScenarios
INVARIANTS SnapshotsSound   DemoDecodes
PROPERTIES NewestIsFired
CHECK_DEADLOCK FALSE
