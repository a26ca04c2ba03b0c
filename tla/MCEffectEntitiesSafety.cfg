CONSTANTS
  Clients <- MCClients
  Kinds <- MCKinds
  PowerResults <- MCPowerResults
  MaxConnects = 2
SPECIFICATION FairSpec
INVARIANTS
  TypeOK
  AtMostOneEffect
  SpawnFlagTracksEffect
PROPERTY
  EffectEventuallyShown
