\* Carrying and guided or plain loot between two clients of one DDRace
\* team, with deaths, kills, reconnects and one respawn into the same pool
\* slot per client; the server loop ticks every player and every entity
\* fairly, so every carry and every loot must end.
CONSTANTS
  Clients <- MCClients
  DDTeam <- MCOneTeam
  CarryDuration = 2
  CarryWithRace = FALSE
  PoolZeroes = TRUE
  MaxGen = 1
  Pausers = {1}
  LootIds <- MCLootIds
  LootLife = 2
  LootGarbage <- MCLootGarbage

SPECIFICATION WorldFairSpec

INVARIANT LootTypeOK
INVARIANT CarriedHasCarrier
INVARIANT PausedCharIsSpec

PROPERTY CarryReleased
PROPERTY LootRemoved
