CONSTANTS
  Clients <- MCClients
  Kinds <- MCKinds
  PowerResults <- MCPowerResults
  MaxConnects = 1
SPECIFICATION Spec
INVARIANT AuraSnapHasOwner
