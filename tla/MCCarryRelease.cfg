CONSTANTS
  Clients <- MCClients
  DDTeam <- MCTwoTeams
  CarryDuration = 2
  CarryWithRace = FALSE
  PoolZeroes = FALSE
  MaxGen = 2
  Pausers = {1}

SPECIFICATION Spec

INVARIANT ReleasedInteracts
