-------------------------- MODULE MCEffectEntities --------------------------
(* Model values and bounds for checking EffectEntities with TLC.           *)
EXTENDS EffectEntities

\* Two client ids: enough for one player to reconnect into a slot while
\* another one ticks before or after it.
MCClients == {0, 1}

\* A star (kept while the owner lives) and a dotted aura (also needs the
\* freeze), the two kinds of keep test.
MCKinds == {"star", "aura_dot"}

\* PLAYER_INFO results: every power on, and every power owned but switched
\* off, so that a result both grants and withdraws a running effect.
MCPowerResults ==
  { [own |-> MCKinds, on |-> MCKinds],
    [own |-> MCKinds, on |-> {}] }
=============================================================================
