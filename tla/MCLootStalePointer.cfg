\* Carry and guided loot between two clients, characters rebuilt in their
\* pool slot and the old bytes left in place on delete.
CONSTANTS
  Clients <- MCClients
  DDTeam <- MCOneTeam
  CarryDuration = 2
  CarryWithRace = FALSE
  PoolZeroes = FALSE
  MaxGen = 2
  Pausers = {1}
  LootIds <- MCLootIds
  LootLife = 2
  LootGarbage <- MCLootGarbage

SPECIFICATION WorldSpec

INVARIANT NoStaleCharDeref
