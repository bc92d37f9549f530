CONSTANTS
  Tables <- MCTables
  Upgrades <- MCUpgrades
  MaxStops = 3
  Environments <- MCEnvironments
  MaxEdits = 2

SPECIFICATION DeploymentSpec
INVARIANTS DeploymentTypeOK RecordedHasColumn StartsClean ServesConforming
  OneConfiguration
CHECK_DEADLOCK FALSE
