------------------------------- MODULE Carry -------------------------------
(***************************************************************************)
(* The carry power of CPlayer (src/game/server/player.cpp): one player     *)
(* holds a raw CCharacter* to another player's character and drags it      *)
(* along every tick until the time runs out or a check cancels it.         *)
(*                                                                         *)
(* Characters live in a pool with one slot per client id (TryRespawn and   *)
(* ForceSpawn construct them with new(m_ClientID)), so a CCharacter* is a  *)
(* slot.  chars[s] is the memory of slot s: whether a character object     *)
(* lives there ("alive", "dead" after CCharacter::Die, "none" once         *)
(* deleted), a generation that counts the objects built in the slot, and   *)
(* the fields the carry code reads and writes.  A pointer remembers the    *)
(* generation it was taken from, so the model knows when it dangles; the   *)
(* code does not.                                                          *)
(*                                                                         *)
(* The pause machine of CPlayer (Pause, ForcePause, ProcessPause) is part  *)
(* of the same Tick: m_Paused, whether m_ForcePauseTime is set, and the    *)
(* paused flag of the character object, which keeps a dead character from *)
(* being deleted.  Server time is not counted: whether the force pause is  *)
(* over, and whether the last pause is too recent, are choices.            *)
(*                                                                         *)
(* Chat commands (/carry, /stopcarry, /kill), connects and disconnects are *)
(* processed between server ticks; CPlayer::Tick is one action per player. *)
(***************************************************************************)
EXTENDS Integers, FiniteSets

CONSTANTS
  Clients,        \* client ids, the slots of m_apPlayers and the pool
  DDTeam,         \* the DDRace team of each client, [Clients -> Teams]
  CarryDuration,  \* TickSpeed * sv_effect_carry_duration, in ticks
  CarryWithRace,  \* g_Config.m_SvEffectCarryWithRace
  PoolZeroes,     \* the pools (MACRO_ALLOC_POOL_ID) clear a slot's memory
  MaxGen,         \* bound on the characters built in one slot
  Pausers         \* the clients that send /pause, /spec or are force-paused

\* m_Team of a player who is in the game (not TEAM_SPECTATORS).
TEAM_GAME == 0

\* CPlayer's pause states, player.h 246-251.
PAUSE_NONE == 0
PAUSE_PAUSED == 1
PAUSE_SPEC == 2
PauseStates == {PAUSE_NONE, PAUSE_PAUSED, PAUSE_SPEC}

\* A null pointer: a record so that it compares with pointers.
NULL == [slot |-> -1, gen |-> -1]

Ptr == [slot : Clients, gen : 0 .. MaxGen]

CharRec == [state : {"none", "alive", "dead"}, gen : 0 .. MaxGen,
            carried : BOOLEAN, collide : BOOLEAN, hit : BOOLEAN,
            racing : BOOLEAN, paused : BOOLEAN]

VARIABLES
  present,     \* m_apPlayers[c] != nullptr
  chars,       \* the character pool, one record per slot
  carry,       \* m_PowersData.m_CarryCharacter
  carryTime,   \* m_PowersData.m_CarryTimeRemaining
  staleDeref,  \* some step dereferenced a pointer whose object is gone
  pauseState,  \* m_Paused
  forcePause   \* m_ForcePauseTime != 0

pauseVars == <<pauseState, forcePause>>
vars == <<present, chars, carry, carryTime, staleDeref, pauseState, forcePause>>

TypeOK ==
  /\ present \in [Clients -> BOOLEAN]
  /\ chars \in [Clients -> CharRec]
  /\ carry \in [Clients -> Ptr \cup {NULL}]
  /\ carryTime \in [Clients -> 0 .. CarryDuration]
  /\ staleDeref \in BOOLEAN
  /\ pauseState \in [Clients -> PauseStates]
  /\ forcePause \in [Clients -> BOOLEAN]

-----------------------------------------------------------------------------
\* The object a pointer was taken from still lives in its slot.
Points(p) == chars[p.slot].state # "none" /\ chars[p.slot].gen = p.gen

\* Dereferencing carry[c] reads freed or reused memory.
DerefIsStale(c) == carry[c] # NULL /\ ~Points(carry[c])

\* A character as CCharacter's constructor and Spawn leave it.
Fresh(g) == [state |-> "alive", gen |-> g, carried |-> FALSE,
             collide |-> TRUE, hit |-> TRUE, racing |-> FALSE,
             paused |-> FALSE]

\* delete m_pCharacter: the object is gone; the pool zeroes the slot's
\* memory or leaves the old bytes, depending on the allocator build.
Freed(ch) ==
  IF PoolZeroes THEN [ch EXCEPT !.state = "none", !.carried = FALSE,
                            !.collide = FALSE, !.hit = FALSE, !.racing = FALSE,
                            !.paused = FALSE]
            ELSE [ch EXCEPT !.state = "none"]

\* CCharacter::IsAlive() through a pointer: a deleted object had m_Alive
\* cleared by Die before the delete, or was zeroed.
IsAlive(w, s) == w[s].state = "alive"

\* CGameTeams::TeamMask(Team): the clients in the asker's DDRace team.
TeamMask(c) == {d \in Clients : present[d] /\ DDTeam[d] = DDTeam[c]}

Init ==
  /\ present = [c \in Clients |-> FALSE]
  /\ chars = [s \in Clients |-> [state |-> "none", gen |-> 0, carried |-> FALSE,
                                 collide |-> FALSE, hit |-> FALSE,
                                 racing |-> FALSE, paused |-> FALSE]]
  /\ carry = [c \in Clients |-> NULL]
  /\ carryTime = [c \in Clients |-> 0]
  /\ staleDeref = FALSE
  /\ pauseState = [c \in Clients |-> PAUSE_NONE]
  /\ forcePause = [c \in Clients |-> FALSE]

-----------------------------------------------------------------------------
(* CPlayer::CancelCarrying, lines 1417-1438, over pool memory w: release   *)
(* the carried character if it is alive, forget it, clear the timer.  It   *)
(* returns the new pool memory; the caller sets carry and carryTime.       *)
CancelCarrying(c, w) ==
  LET p == carry[c] IN
  IF p # NULL /\ IsAlive(w, p.slot)
  THEN [w EXCEPT ![p.slot] = [@ EXCEPT !.collide = TRUE, !.hit = TRUE,
                                       !.carried = FALSE]]
  ELSE w

\* A plausible slip: the countdown is dropped, so a carry never times out.
TickCarryingNoCountdown(c, w) ==
  LET p == carry[c]
      cancel == [chars |-> CancelCarrying(c, w), carry |-> NULL, time |-> 0]
  IN IF p = NULL \/ ~w[p.slot].carried
     THEN cancel
     ELSE [chars |-> w, carry |-> p, time |-> carryTime[c]]

\* A plausible slip: the "time is up" test is dropped and the timer
\* counts below zero.
TickCarryingNoTimeout(c, w) ==
  LET p == carry[c]
      cancel == [chars |-> CancelCarrying(c, w), carry |-> NULL, time |-> 0]
  IN IF p = NULL \/ ~w[p.slot].carried
     THEN cancel
     ELSE [chars |-> w, carry |-> p, time |-> carryTime[c] - 1]

(* CPlayer::TickCarrying, lines 1368-1415, given the pool memory w after   *)
(* the respawn part of the same Tick.  Each check that fails cancels.  The *)
(* team check tests the bit of the carried player's m_Team (GetTeam()),    *)
(* which is TEAM_GAME for every player in the game, in the carrier's team  *)
(* mask.  SetPosition and ResetVelocity change nothing modelled.           *)
TickCarrying(c, w) ==
  LET p == carry[c]
      cancel == [chars |-> CancelCarrying(c, w), carry |-> NULL, time |-> 0]
      hasChar == IsAlive(w, c)
  IN CASE carryTime[c] <= 0 -> cancel
       [] p = NULL \/ ~w[p.slot].carried -> cancel
       [] hasChar /\ ~CarryWithRace /\ w[c].racing -> cancel
       [] hasChar /\ TEAM_GAME \notin TeamMask(c) -> cancel
       [] OTHER -> [chars |-> w, carry |-> p, time |-> carryTime[c] - 1]

\* The dead branch of CPlayer::Tick before the powers (lines 291-313): a
\* dead character is deleted unless it is paused; without one, TryRespawn
\* (lines 829-845) may build one when m_Spawning is set and the
\* controller finds a spawn point.
Respawned(c, spawn) ==
  CASE chars[c].state = "dead" /\ ~chars[c].paused -> [chars EXCEPT ![c] = Freed(@)]
    [] chars[c].state = "none" /\ spawn /\ chars[c].gen < MaxGen
         -> [chars EXCEPT ![c] = Fresh(chars[c].gen + 1)]
    [] OTHER -> chars

\* A plausible slip: leaving the pause does not resume the character.
PauseKeepsCharPaused(c, w, st, force, recent) ==
  LET ps == pauseState[c] IN
  CASE w[c].state = "none" \/ st = ps -> [chars |-> w, state |-> ps]
    [] st # PAUSE_SPEC /\ w[c].paused /\ ~force /\ recent
         -> [chars |-> w, state |-> ps]
    [] OTHER -> [chars |-> w, state |-> st]

(* CPlayer::Pause(State, Force), lines 920-973, over pool memory w: with a *)
(* character and a new state, leaving for PAUSE_NONE or PAUSE_PAUSED       *)
(* resumes a paused character (CCharacter::Pause(false)) unless the last   *)
(* pause was less than sv_spec_frequency ago (recent) and the call is not  *)
(* forced, which keeps everything as it is.  Then m_Paused takes the new   *)
(* state.  Returns the pool memory and the new m_Paused.                   *)
Pause(c, w, st, force, recent) ==
  LET ps == pauseState[c] IN
  CASE w[c].state = "none" \/ st = ps -> [chars |-> w, state |-> ps]
    [] st # PAUSE_SPEC /\ w[c].paused /\ ~force /\ recent
         -> [chars |-> w, state |-> ps]
    [] st # PAUSE_SPEC /\ w[c].paused
         -> [chars |-> [w EXCEPT ![c].paused = FALSE], state |-> st]
    [] OTHER -> [chars |-> w, state |-> st]

(* CPlayer::ProcessPause, lines 903-918, for a live character: a force     *)
(* pause whose time has passed (expired) is cleared and forcibly left for  *)
(* PAUSE_NONE; then a player in PAUSE_SPEC whose character is not paused,  *)
(* stands on the ground and did not move (still) has it paused.           *)
ProcessPause(c, expired, still) ==
  LET ends == forcePause[c] /\ expired
      u == IF ends THEN Pause(c, chars, PAUSE_NONE, TRUE, FALSE)
                   ELSE [chars |-> chars, state |-> pauseState[c]]
      settle == u.state = PAUSE_SPEC /\ ~u.chars[c].paused /\ still
  IN [chars |-> IF settle THEN [u.chars EXCEPT ![c].paused = TRUE] ELSE u.chars,
      state |-> u.state, force |-> forcePause[c] /\ ~ends]

(* CPlayer::Tick, lines 230-408, for what the carry power and the pause    *)
(* machine depend on: ProcessPause for a live character, or the dead       *)
(* branch, then TickCarrying (line 385).                                   *)
PlayerTick(c, spawn, expired, still) ==
  LET pp == IF IsAlive(chars, c) THEN ProcessPause(c, expired, still)
            ELSE [chars |-> Respawned(c, spawn), state |-> pauseState[c],
                  force |-> forcePause[c]]
      r == TickCarrying(c, pp.chars)
  IN
  /\ present[c]
  /\ chars' = r.chars
  /\ carry' = [carry EXCEPT ![c] = r.carry]
  /\ carryTime' = [carryTime EXCEPT ![c] = r.time]
  /\ staleDeref' = (staleDeref \/ DerefIsStale(c))
  /\ pauseState' = [pauseState EXCEPT ![c] = pp.state]
  /\ forcePause' = [forcePause EXCEPT ![c] = pp.force]
  /\ UNCHANGED present

-----------------------------------------------------------------------------
(* CPlayer::CarrySomeone, lines 1199-1257, from the /carry command, which  *)
(* only reaches it with a live character.  The loop keeps the last         *)
(* matching character in the world's list, which may be any of them; the  *)
(* distance test (< 60) is a choice of v.  The team test is the same       *)
(* m_Team bit test as in TickCarrying.                                     *)
CarrySomeone(c, v) ==
  /\ present[c] /\ IsAlive(chars, c)
  /\ ~(~CarryWithRace /\ chars[c].racing)
  /\ carry[c] = NULL
  /\ ~chars[c].carried
  /\ v # c /\ present[v] /\ IsAlive(chars, v)
  /\ TEAM_GAME \in TeamMask(c)
  /\ ~chars[v].carried
  /\ carry' = [carry EXCEPT ![c] = [slot |-> v, gen |-> chars[v].gen]]
  /\ carryTime' = [carryTime EXCEPT ![c] = CarryDuration]
  /\ chars' = [chars EXCEPT ![v] = [@ EXCEPT !.carried = TRUE,
                                             !.collide = FALSE, !.hit = FALSE]]
  /\ UNCHANGED <<present, staleDeref, pauseVars>>

\* CPlayer::StopCarrySomeone, lines 1259-1270.
StopCarrySomeone(c) ==
  /\ present[c] /\ carry[c] # NULL
  /\ chars' = CancelCarrying(c, chars)
  /\ carry' = [carry EXCEPT ![c] = NULL]
  /\ carryTime' = [carryTime EXCEPT ![c] = 0]
  /\ staleDeref' = (staleDeref \/ DerefIsStale(c))
  /\ UNCHANGED <<present, pauseVars>>

\* A plausible slip: the carried player is not released on death.
KillCharacterNoRelease(c) ==
  IF chars[c].state # "none" THEN [chars EXCEPT ![c] = Freed(@)]
                             ELSE chars

(* CPlayer::KillCharacter, lines 718-734: Die and delete the character,    *)
(* then, if the carried character still has m_BeingCarried, give it back  *)
(* its collision and clear the flag.  m_CarryCharacter stays as it is and  *)
(* SetHitOthers(true) is not called.  Returns the new pool memory.         *)
KillCharacter(c) ==
  LET w == IF chars[c].state # "none" THEN [chars EXCEPT ![c] = Freed(@)]
                                      ELSE chars
      p == carry[c]
  IN IF p # NULL /\ w[p.slot].carried
     THEN [w EXCEPT ![p.slot] = [@ EXCEPT !.collide = TRUE, !.carried = FALSE]]
     ELSE w

\* /kill, or SetTeam (lines 754-781), between two ticks.
Kill(c) ==
  /\ present[c]
  /\ chars' = KillCharacter(c)
  /\ staleDeref' = (staleDeref \/ DerefIsStale(c))
  /\ UNCHANGED <<present, carry, carryTime, pauseVars>>

\* CPlayer::OnDisconnect (lines 636-641), after which the server deletes
\* the player object and its carry pointer with it.
Disconnect(c) ==
  /\ present[c]
  /\ chars' = KillCharacter(c)
  /\ staleDeref' = (staleDeref \/ DerefIsStale(c))
  /\ present' = [present EXCEPT ![c] = FALSE]
  /\ carry' = [carry EXCEPT ![c] = NULL]
  /\ carryTime' = [carryTime EXCEPT ![c] = 0]
  /\ UNCHANGED pauseVars

(* A new CPlayer in a free slot; Reset clears the carry (lines 137-139)   *)
(* and m_Paused (line 188).  Neither the constructor nor Reset sets        *)
(* m_ForcePauseTime: it is what the pool leaves in the slot, the last      *)
(* player's value unless the pool clears it.                              *)
Connect(c) ==
  /\ ~present[c]
  /\ present' = [present EXCEPT ![c] = TRUE]
  /\ carry' = [carry EXCEPT ![c] = NULL]
  /\ carryTime' = [carryTime EXCEPT ![c] = 0]
  /\ pauseState' = [pauseState EXCEPT ![c] = PAUSE_NONE]
  /\ forcePause' = IF PoolZeroes THEN [forcePause EXCEPT ![c] = FALSE]
                                 ELSE forcePause
  /\ UNCHANGED <<chars, staleDeref>>

\* CPlayer::ForceSpawn, lines 745-752, called by the game controller.
ForceSpawn(c) ==
  /\ present[c] /\ chars[c].state = "none" /\ chars[c].gen < MaxGen
  /\ chars' = [chars EXCEPT ![c] = Fresh(chars[c].gen + 1)]
  /\ UNCHANGED <<present, carry, carryTime, staleDeref, pauseVars>>

\* The character dies in the world (a kill tile, CCharacter::Die); the
\* player's next Tick deletes it.
Die(c) ==
  /\ IsAlive(chars, c)
  /\ chars' = [chars EXCEPT ![c].state = "dead"]
  /\ UNCHANGED <<present, carry, carryTime, staleDeref, pauseVars>>

\* The character starts the race (m_DDRaceState leaves DDRACE_NONE).
StartRace(c) ==
  /\ IsAlive(chars, c) /\ ~chars[c].racing
  /\ chars' = [chars EXCEPT ![c].racing = TRUE]
  /\ UNCHANGED <<present, carry, carryTime, staleDeref, pauseVars>>

(* /pause or /spec (the console handlers are outside this repository):   *)
(* CPlayer::Pause(State, false) for a player in the game.                  *)
SetPause(c, st, recent) ==
  LET u == Pause(c, chars, st, FALSE, recent) IN
  /\ present[c]
  /\ chars' = u.chars
  /\ pauseState' = [pauseState EXCEPT ![c] = u.state]
  /\ UNCHANGED <<present, carry, carryTime, staleDeref, forcePause>>

(* CPlayer::ForcePause(Time), lines 975-987: m_ForcePauseTime is set to a  *)
(* tick to come, then Pause(PAUSE_SPEC, true).                             *)
ForcePause(c) ==
  LET u == Pause(c, chars, PAUSE_SPEC, TRUE, FALSE) IN
  /\ present[c]
  /\ chars' = u.chars
  /\ pauseState' = [pauseState EXCEPT ![c] = u.state]
  /\ forcePause' = [forcePause EXCEPT ![c] = TRUE]
  /\ UNCHANGED <<present, carry, carryTime, staleDeref>>

Next ==
  \E c \in Clients :
    \/ \E spawn, expired, still \in BOOLEAN : PlayerTick(c, spawn, expired, still)
    \/ \E v \in Clients : CarrySomeone(c, v)
    \/ StopCarrySomeone(c)
    \/ Kill(c)
    \/ Disconnect(c)
    \/ Connect(c)
    \/ ForceSpawn(c)
    \/ Die(c)
    \/ StartRace(c)
    \/ c \in Pausers /\ \E st \in PauseStates, recent \in BOOLEAN :
                          SetPause(c, st, recent)
    \/ c \in Pausers /\ ForcePause(c)

Spec == Init /\ [][Next]_vars

\* The server calls CPlayer::Tick for every connected player on every
\* tick; nothing else is assumed to happen.
Fairness == \A c \in Clients :
              WF_vars(\E spawn, expired, still \in BOOLEAN :
                        PlayerTick(c, spawn, expired, still))

FairSpec == Spec /\ Fairness

-----------------------------------------------------------------------------
\* The character in slot v, if it is alive and flagged as carried.
CarriedNow(v) == IsAlive(chars, v) /\ chars[v].carried

\* Some connected player's m_CarryCharacter is the character in slot v.
HasCarrier(v) ==
  \E c \in Clients : present[c] /\ carry[c] = [slot |-> v, gen |-> chars[v].gen]

(* A live character with m_BeingCarried set is the one some connected      *)
(* player's m_CarryCharacter points to: KillCharacter, OnDisconnect and    *)
(* CancelCarrying never leave a character stuck as carried (unable to move *)
(* or collide) with nobody left to release it.                             *)
CarriedHasCarrier == \A v \in Clients : CarriedNow(v) => HasCarrier(v)

(* A character object that is paused (out of the world) belongs to a      *)
(* player in PAUSE_SPEC: only ProcessPause pauses it, and only in          *)
(* PAUSE_SPEC; every way out of PAUSE_SPEC (Pause to PAUSE_NONE or         *)
(* PAUSE_PAUSED, a force pause running out) resumes it first or refuses    *)
(* the change.  A paused character left behind would never be resumed by  *)
(* the tick, nor deleted if it died.                                       *)
PausedCharIsSpec ==
  \A c \in Clients :
    present[c] /\ chars[c].state # "none" /\ chars[c].paused
      => pauseState[c] = PAUSE_SPEC

(* Every carry ends: while ticks keep coming, a carried character is       *)
(* eventually released (or gone), because TickCarrying counts              *)
(* m_CarryTimeRemaining down and cancels at zero.                          *)
CarryReleased == \A v \in Clients : CarriedNow(v) ~> ~CarriedNow(v)

(* TickCarrying, StopCarrySomeone and KillCharacter never dereference      *)
(* m_CarryCharacter after the character it points to was deleted (or       *)
(* replaced in its pool slot).                                             *)
NoStaleCarryDeref == ~staleDeref

(* A live character that nobody carries and nobody points to can hit and   *)
(* collide with others again: every end of a carry undoes                  *)
(* SetCollideOthers(false) and SetHitOthers(false).                        *)
ReleasedInteracts ==
  \A v \in Clients :
    (IsAlive(chars, v) /\ ~chars[v].carried
       /\ ~\E c \in Clients : present[c] /\ carry[c] # NULL /\ carry[c].slot = v)
      => chars[v].collide /\ chars[v].hit
=============================================================================
