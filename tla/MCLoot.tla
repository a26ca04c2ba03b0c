------------------------------- MODULE MCLoot -------------------------------
(* Model values and bounds for checking Loot, with Carry, with TLC.        *)
EXTENDS Loot

\* Two client ids: client 0, whose bit the carry team test reads, and
\* client 1.
MCClients == {0, 1}

\* Both in DDRace team 1.
MCOneTeam == [c \in MCClients |-> 1]

\* One loot: loots never read each other.
MCLootIds == {"l1"}

\* m_TicksActive starting at zero, or below zero so that the loot lives
\* long enough for MoveGuided.
MCLootGarbage == {-1, 0}
=============================================================================
