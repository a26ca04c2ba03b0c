-------------------------------- MODULE Loot --------------------------------
(***************************************************************************)
(* The loot a player drops (CPlayer::DropLoot, src/game/server/player.cpp) *)
(* and the CLoot entity (src/game/server/entities/loot.cpp), composed with *)
(* the carry power of module Carry: both hold raw CCharacter* into the     *)
(* same per-client character pool.  A guided loot picks a target character *)
(* once (FindGuided) and dereferences it on every later tick (MoveGuided)  *)
(* without ever dropping it, until the loot is picked up or expires.       *)
(*                                                                         *)
(* Loots live in a small set of entity ids.  Positions, distances, line of *)
(* sight and the solo flag only decide whether a character is found or     *)
(* picks the loot up; they are choices of the tick.                        *)
(***************************************************************************)
EXTENDS Carry

CONSTANTS
  LootIds,      \* ids for the loots that may exist at once
  LootLife,     \* (sv_effect_loot_duration + 1) * TickSpeed, in ticks
  LootGarbage   \* values the never initialised m_TicksActive may start at

\* An id with no loot in it.
NoLoot == [owner |-> -1, guided |-> FALSE, target |-> NULL, ticks |-> 0]

LootRec == [owner : Clients, guided : BOOLEAN, target : Ptr \cup {NULL},
            ticks : LootGarbage \cup (0 .. LootLife)]

VARIABLES
  loot,       \* the CLoot entities by id
  lootStale   \* some MoveGuided dereferenced a target that is gone

lootVars == <<loot, lootStale>>
allVars == <<vars, lootVars>>

LootTypeOK ==
  /\ TypeOK
  /\ loot \in [LootIds -> LootRec \cup {NoLoot}]
  /\ lootStale \in BOOLEAN

LootInit ==
  /\ Init
  /\ loot = [l \in LootIds |-> NoLoot]
  /\ lootStale = FALSE

-----------------------------------------------------------------------------
\* A plausible slip: m_TicksActive is never counted up.
TicksActiveNotCounted(x) == x.ticks

\* m_TicksActive++ at the top of CLoot::Tick.
TicksActive(x) == x.ticks + 1

\* (m_TicksActive / TickSpeed) > sv_effect_loot_duration, with C's integer
\* division: a negative count never expires.
LootExpired(t) == t >= LootLife

(* The characters the loot may interact with (the loops of Tick and        *)
(* FindGuided): in the world, not the owner's, in the loot's DDRace team.  *)
Reachable(x) ==
  {s \in Clients : IsAlive(chars, s) /\ s # x.owner
                   /\ DDTeam[s] = DDTeam[x.owner]}

(* CLoot::FindGuided, loot.cpp 142-172: the loop keeps the last character  *)
(* in range, in the team and in sight; it may find none.                   *)
FindGuided(x) ==
  {NULL} \cup {[slot |-> s, gen |-> chars[s].gen] : s \in Reachable(x)}

(* CLoot::MoveGuided, loot.cpp 174-201, starts with                       *)
(* m_GuidedTarget->IsAlive(): the read is stale when the target character *)
(* was deleted or its pool slot rebuilt.  The move itself is position.     *)
MoveGuidedIsStale(x) == ~Points(x.target)

(* CLoot::Tick, loot.cpp 45-140: count the tick, expire, then follow or    *)
(* look for the target (MoveGuided, 174-201, reads m_GuidedTarget->IsAlive *)
(* through the raw pointer), then a character in reach (pick, or -1 for   *)
(* none) takes the loot, which Resets.                                    *)
LootTick(l, aim, pick) ==
  LET x == loot[l]
      t == TicksActive(x)
      tgt == IF x.guided /\ x.target = NULL THEN aim ELSE x.target
  IN
  /\ x # NoLoot
  /\ IF LootExpired(t)
     THEN aim = NULL /\ pick = -1
          /\ loot' = [loot EXCEPT ![l] = NoLoot]
          /\ UNCHANGED lootStale
     ELSE /\ x.guided /\ x.target = NULL => aim \in FindGuided(x)
          /\ ~(x.guided /\ x.target = NULL) => aim = NULL
          /\ pick \in Reachable(x) \cup {-1}
          /\ lootStale' = (lootStale \/ (x.guided /\ x.target # NULL
                                          /\ MoveGuidedIsStale(x)))
          /\ loot' = [loot EXCEPT ![l] =
                        IF pick # -1 THEN NoLoot
                        ELSE [x EXCEPT !.ticks = t, !.target = tgt]]
  /\ UNCHANGED vars

(* CPlayer::DropLoot, player.cpp 1154-1190, from a loot command of a       *)
(* player with a live character; a solo or obstructed player gets a chat  *)
(* message and no loot.  The CLoot constructor (loot.cpp 11-30) leaves    *)
(* m_TicksActive uninitialised: its first value is any of LootGarbage.     *)
DropLoot(c, l, guided, g) ==
  /\ present[c] /\ IsAlive(chars, c)
  /\ loot[l] = NoLoot
  /\ loot' = [loot EXCEPT ![l] = [owner |-> c, guided |-> guided,
                                  target |-> NULL, ticks |-> g]]
  /\ UNCHANGED <<vars, lootStale>>

(* CPlayer::DropSuperHeartRaw, player.cpp 1317-1366: past the solo check *)
(* on the caller's own character (GetCharacter()->GetCore().m_Solo), the   *)
(* two loops build 43 health CLoots in the shape of a heart, all owned by  *)
(* the caller and in the caller's DDRace team (the Team argument is never  *)
(* used).  The model keeps as many loots as there are ids: the heart fills *)
(* every free one, each with its own uninitialised m_TicksActive g[l].     *)
DropSuperHeartRaw(c, guided, g) ==
  /\ IsAlive(chars, c)
  /\ \E l \in LootIds : loot[l] = NoLoot
  /\ loot' = [l \in LootIds |->
                IF loot[l] = NoLoot
                THEN [owner |-> c, guided |-> guided, target |-> NULL,
                      ticks |-> g[l]]
                ELSE loot[l]]
  /\ UNCHANGED <<vars, lootStale>>

(* CPlayer::DropSuperHeart, player.cpp 1272-1287: the heart above the      *)
(* caller's own live character, refused while CPlayer::IsPaused() (lines   *)
(* 989-992) is non-zero: force-paused, or m_Paused not PAUSE_NONE.         *)
DropSuperHeart(c, guided, g) ==
  /\ present[c] /\ IsAlive(chars, c)
  /\ ~forcePause[c] /\ pauseState[c] = PAUSE_NONE
  /\ DropSuperHeartRaw(c, guided, g)

(* CPlayer::DropSuperHeartName, player.cpp 1289-1315: the heart above the  *)
(* last character in the world whose player has the given name.  Only the *)
(* position comes from it; Raw then reads the caller's own character,     *)
(* which must exist (the guard of Raw: without one it is a null pointer).  *)
DropSuperHeartName(c, d, guided, g) ==
  /\ present[c] /\ IsAlive(chars, d)
  /\ DropSuperHeartRaw(c, guided, g)

WorldNext ==
  \/ Next /\ UNCHANGED lootVars
  \/ \E l \in LootIds :
       \/ \E aim \in Ptr \cup {NULL}, pick \in Clients \cup {-1} :
            LootTick(l, aim, pick)
       \/ \E c \in Clients, guided \in BOOLEAN, g \in LootGarbage :
            DropLoot(c, l, guided, g)
  \/ \E c \in Clients, guided \in BOOLEAN, g \in [LootIds -> LootGarbage] :
       \/ DropSuperHeart(c, guided, g)
       \/ \E d \in Clients : DropSuperHeartName(c, d, guided, g)

WorldSpec == LootInit /\ [][WorldNext]_allVars

\* The world ticks every entity on every server tick, the players as in
\* Carry; drops come from commands and are not fair.
WorldFairness ==
  /\ \A c \in Clients :
       WF_allVars(\E spawn, expired, still \in BOOLEAN :
                    PlayerTick(c, spawn, expired, still) /\ UNCHANGED lootVars)
  /\ \A l \in LootIds :
       WF_allVars(\E aim \in Ptr \cup {NULL}, pick \in Clients \cup {-1} :
                    LootTick(l, aim, pick))

WorldFairSpec == WorldSpec /\ WorldFairness

-----------------------------------------------------------------------------
(* Every dropped loot goes away: while the server ticks, CLoot::Tick       *)
(* counts m_TicksActive up until the duration test Resets it, whatever     *)
(* value the uninitialised counter started from and whether or not anyone *)
(* picks it up.                                                            *)
LootRemoved == \A l \in LootIds : loot[l] # NoLoot ~> loot[l] = NoLoot

(* No raw CCharacter* is dereferenced after its character was deleted or  *)
(* replaced in its pool slot: neither m_CarryCharacter (TickCarrying,      *)
(* StopCarrySomeone, KillCharacter) nor a loot's m_GuidedTarget            *)
(* (MoveGuided).                                                           *)
NoStaleCharDeref == NoStaleCarryDeref /\ ~lootStale
=============================================================================
