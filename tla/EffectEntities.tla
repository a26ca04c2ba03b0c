--------------------------- MODULE EffectEntities ---------------------------
(***************************************************************************)
(* The cosmetic power entities CStar, CTrail and CAura (src/game/server/   *)
(* entities/) and the part of CPlayer::Tick that spawns them               *)
(* (src/game/server/player.cpp, lines 343-382).  A player spawns an effect *)
(* when it has the power, a live character and its m_HasXSpawned flag is   *)
(* clear; the entity sets the flag in its constructor and clears it again  *)
(* in Reset, reaching the player through m_apPlayers[m_Owner], which may   *)
(* by then hold a different player who connected in the same slot.         *)
(*                                                                         *)
(* One server tick runs in phases, in the order of CGameContext::OnTick:   *)
(* the world ticks its entities by type, the effect entities (projectile   *)
(* type) before the characters; then every player ticks in client id      *)
(* order; then the snapshot is built; then the network is pumped: players  *)
(* connect and disconnect, chat commands run and database results arrive.  *)
(*                                                                         *)
(* Entities are counted per (owner slot, kind, owner generation); the      *)
(* generation is a ghost counting the players that used the slot.          *)
(***************************************************************************)
EXTENDS Integers, FiniteSets

CONSTANTS
  Clients,      \* client ids 0 .. N-1
  Kinds,        \* the effects in the run, a subset of AllKinds
  MaxConnects,  \* bound on the players that use one slot
  PowerResults  \* the powers a PLAYER_INFO result may carry: [own, on]

\* CPlayer::Tick applies a score result only after three snapshots.
MinSentSnaps == 3

AllKinds == {"star", "trail", "aura_dot", "aura_gun", "aura_shotgun"}
\* CAura with Type WEAPON_HAMMER, WEAPON_GUN and WEAPON_SHOTGUN.
AuraKinds == {"aura_dot", "aura_gun", "aura_shotgun"}

Gens == 0 .. MaxConnects
Groups == Clients \X Kinds \X Gens

\* A character's freeze as the two tests read it: "frozen" has
\* m_FreezeTime != 0 and passes CAura's IsFreezed test, "expired" has
\* m_FreezeTime != 0 and fails it, "thawed" has m_FreezeTime == 0.
Freezes == {"thawed", "frozen", "expired"}

\* m_ScoreQueryResult: none, or a completed PLAYER_INFO result.
NoResult == [own |-> {}, on |-> {}, ok |-> FALSE]
Results == {[own |-> r.own, on |-> r.on, ok |-> TRUE] : r \in PowerResults}

VARIABLES
  present,    \* m_apPlayers[c] != nullptr
  pgen,       \* ghost: how many players have used slot c
  chr,        \* the player's character: "none", "alive", "dead" (Die ran)
  freeze,     \* the character's freeze
  owned,      \* the powers m_HasX of the player
  enabled,    \* the powers m_HasXEnabled of the player
  spawned,    \* m_PowersData.m_HasXSpawned
  pending,    \* m_ScoreQueryResult, once the database has completed it
  sentSnaps,  \* m_SentSnaps, counted up to MinSentSnaps
  ents,       \* number of live effect entities per (owner, kind, generation)
  phase,      \* the part of the server loop that runs next
  todo,       \* entity groups that have not ticked yet in this world tick
  nextPlayer  \* the client id whose CPlayer::Tick runs next

vars == <<present, pgen, chr, freeze, owned, enabled, spawned, pending,
          sentSnaps, ents, phase, todo, nextPlayer>>

TypeOK ==
  /\ present \in [Clients -> BOOLEAN]
  /\ pgen \in [Clients -> Gens]
  /\ chr \in [Clients -> {"none", "alive", "dead"}]
  /\ freeze \in [Clients -> Freezes]
  /\ owned \in [Clients -> SUBSET Kinds]
  /\ enabled \in [Clients -> SUBSET Kinds]
  /\ spawned \in [Clients -> SUBSET Kinds]
  /\ pending \in [Clients -> Results \cup {NoResult}]
  /\ sentSnaps \in [Clients -> 0 .. MinSentSnaps]
  /\ ents \in [Groups -> 0 .. 2]
  /\ phase \in {"effects", "chars", "players", "snap", "pump"}
  /\ todo \subseteq Groups
  /\ nextPlayer \in 0 .. Cardinality(Clients)

Init ==
  /\ present = [c \in Clients |-> FALSE]
  /\ pgen = [c \in Clients |-> 0]
  /\ chr = [c \in Clients |-> "none"]
  /\ freeze = [c \in Clients |-> "thawed"]
  /\ owned = [c \in Clients |-> {}]
  /\ enabled = [c \in Clients |-> {}]
  /\ spawned = [c \in Clients |-> {}]
  /\ pending = [c \in Clients |-> NoResult]
  /\ sentSnaps = [c \in Clients |-> 0]
  /\ ents = [x \in Groups |-> 0]
  /\ phase = "pump"
  /\ todo = {}
  /\ nextPlayer = 0

-----------------------------------------------------------------------------
\* m_HasX && m_HasXEnabled.
HasPower(c, k) == k \in owned[c] /\ k \in enabled[c]

\* GameServer()->GetPlayerChar(c) != nullptr: a player with a live character.
HasChar(c) == present[c] /\ chr[c] = "alive"

\* The effects entity counts never exceed 2; a third copy is still "more
\* than one" for every property.
Bump(n) == IF n < 2 THEN n + 1 ELSE 2

\* A plausible slip: the entity's Tick keeps the effect while the owner has
\* the power, without asking for its character.
KeepsEffectNoCharCheck(c, k) ==
  /\ present[c] /\ HasPower(c, k)
  /\ k \in AuraKinds => freeze[c] = "frozen"

\* CStar::Tick, star.cpp 44-56: GetPlayerChar(m_Owner), then the power.
StarKeeps(c) == HasChar(c) /\ HasPower(c, "star")

\* CTrail::Tick, trail.cpp 46-60: m_apPlayers[m_Owner] with GetCharacter(),
\* then the power.
TrailKeeps(c) == HasChar(c) /\ HasPower(c, "trail")

(* What the Tick of the entity checks before it moves the effect; for      *)
(* CAura::Tick (aura.cpp 70-110) the slot's player has a live character,  *)
(* the power of the aura's type, and a character frozen by the IsFreezed  *)
(* test.  Otherwise the entity Resets.                                    *)
KeepsEffect(c, k) ==
  CASE k = "star" -> StarKeeps(c)
    [] k = "trail" -> TrailKeeps(c)
    [] OTHER -> HasChar(c) /\ HasPower(c, k) /\ freeze[c] = "frozen"

\* A plausible slip: Reset forgets to clear the owner's spawned flag.
ResetFlagsKept(c, k) == spawned

\* CStar::Reset, star.cpp 32-42: m_HasStarSpawned of whoever is in slot
\* m_Owner now.
StarReset(c) ==
  IF present[c] THEN [spawned EXCEPT ![c] = @ \ {"star"}] ELSE spawned

\* CTrail::Reset, trail.cpp 35-44: likewise m_HasTrailSpawned.
TrailReset(c) ==
  IF present[c] THEN [spawned EXCEPT ![c] = @ \ {"trail"}] ELSE spawned

(* Reset of the entity, then mark it for destruction; CAura::Reset         *)
(* (aura.cpp 51-68) clears the flag of its m_Type in whatever player is in *)
(* slot m_Owner now.                                                       *)
ResetFlags(c, k) ==
  CASE k = "star" -> StarReset(c)
    [] k = "trail" -> TrailReset(c)
    [] OTHER -> IF present[c] THEN [spawned EXCEPT ![c] = @ \ {k}] ELSE spawned

\* The server starts a tick: CGameWorld::Tick walks the entities.
StartTick ==
  /\ phase = "pump"
  /\ phase' = "effects"
  /\ todo' = {x \in Groups : ents[x] > 0}
  /\ UNCHANGED <<present, pgen, chr, freeze, owned, enabled, spawned,
                 pending, sentSnaps, ents, nextPlayer>>

\* One effect entity (all the identical copies of a group behave alike)
\* runs its Tick; an entity that Resets is removed at the end of the tick.
EffectTick(x) ==
  LET c == x[1]  k == x[2] IN
  /\ phase = "effects" /\ x \in todo
  /\ todo' = todo \ {x}
  /\ IF KeepsEffect(c, k)
     THEN UNCHANGED <<spawned, ents>>
     ELSE /\ spawned' = ResetFlags(c, k)
          /\ ents' = [ents EXCEPT ![x] = 0]
  /\ UNCHANGED <<present, pgen, chr, freeze, owned, enabled, pending, sentSnaps,
                 phase, nextPlayer>>

\* The effect entities are done; the characters tick next.
EndEffects ==
  /\ phase = "effects" /\ todo = {}
  /\ phase' = "chars"
  /\ UNCHANGED <<present, pgen, chr, freeze, owned, enabled, spawned,
                 pending, sentSnaps, ents, todo, nextPlayer>>

\* A character dies in its own tick (CCharacter::Die clears m_Alive).
Die(c) ==
  /\ phase = "chars" /\ HasChar(c)
  /\ chr' = [chr EXCEPT ![c] = "dead"]
  /\ UNCHANGED <<present, pgen, freeze, owned, enabled, spawned, pending,
                 sentSnaps, ents, phase, todo, nextPlayer>>

\* A character's freeze changes in its own tick.
Freeze(c, f) ==
  /\ phase = "chars" /\ HasChar(c) /\ freeze[c] # f
  /\ freeze' = [freeze EXCEPT ![c] = f]
  /\ UNCHANGED <<present, pgen, chr, owned, enabled, spawned, pending,
                 sentSnaps, ents, phase, todo, nextPlayer>>

\* The world tick is over; the players tick in client id order.
EndChars ==
  /\ phase = "chars"
  /\ phase' = "players" /\ nextPlayer' = 0
  /\ UNCHANGED <<present, pgen, chr, freeze, owned, enabled, spawned,
                 pending, sentSnaps, ents, todo>>

\* A plausible slip: the spawn forgets to test m_HasXSpawned.
SpawnsNoFlagTest(o, e, sp, ch, fr) ==
  {k \in Kinds : /\ ch = "alive" /\ k \in o /\ k \in e
                 /\ k \in AuraKinds => fr # "thawed"}

\* A plausible slip: the dotted aura's constructor sets the flag of the gun
\* aura, as a copy of the wrong branch of aura.cpp 34-42 would.
SpawnsMislabelled(o, e, sp, ch, fr) ==
  {IF k = "aura_dot" THEN "aura_gun" ELSE k :
     k \in SpawnsNoFlagTest(o, e, sp, ch, fr) \ sp}

\* A plausible slip: the m_HasXSpawned test is inverted.
SpawnsFlagInverted(o, e, sp, ch, fr) ==
  {k \in Kinds : /\ ch = "alive" /\ k \in o /\ k \in e /\ k \in sp
                 /\ k \in AuraKinds => fr # "thawed"}

(* The effects CPlayer::Tick creates (player.cpp 337-382): each one the   *)
(* player has enabled and has not spawned yet, when it has a character;   *)
(* an aura also needs m_FreezeTime != 0.                                  *)
Spawns(o, e, sp, ch, fr) ==
  {k \in Kinds : /\ ch = "alive" /\ k \in o /\ k \in e /\ k \notin sp
                 /\ k \in AuraKinds => fr # "thawed"}

\* The player after CPlayer::Tick has handled its character (291-314): a
\* dead character is deleted, a missing one may be respawned (TryRespawn
\* may find no spawn point, hence the choice spawn).
Respawned(ch, spawn) ==
  CASE ch = "dead" -> "none"
    [] ch = "none" /\ spawn -> "alive"
    [] OTHER -> ch

\* The client id loop of the server moves on to the next slot.
Advance ==
  IF nextPlayer + 1 = Cardinality(Clients)
  THEN phase' = "snap" /\ nextPlayer' = nextPlayer + 1
  ELSE UNCHANGED phase /\ nextPlayer' = nextPlayer + 1

(* CPlayer::Tick of player c (230-385): a completed score result is        *)
(* applied once three snapshots went out (ProcessScoreResult, PLAYER_INFO, *)
(* 1063-1102), then the character is handled, then the effects spawn and   *)
(* each constructor sets its flag (star.cpp 15-30, trail.cpp 12-28,        *)
(* aura.cpp 12-43).                                                        *)
PlayerTick(c, spawn) ==
  LET apply == pending[c].ok /\ sentSnaps[c] >= MinSentSnaps
      o == IF apply THEN pending[c].own ELSE owned[c]
      e == IF apply THEN pending[c].on ELSE enabled[c]
      ch == Respawned(chr[c], spawn)
      fr == IF chr[c] = "none" THEN "thawed" ELSE freeze[c]
      new == Spawns(o, e, spawned[c], ch, fr)
  IN
  /\ phase = "players" /\ nextPlayer = c /\ present[c]
  /\ owned' = [owned EXCEPT ![c] = o]
  /\ enabled' = [enabled EXCEPT ![c] = e]
  /\ pending' = IF apply THEN [pending EXCEPT ![c] = NoResult] ELSE pending
  /\ chr' = [chr EXCEPT ![c] = ch]
  /\ freeze' = [freeze EXCEPT ![c] = fr]
  /\ spawned' = [spawned EXCEPT ![c] = @ \cup new]
  /\ ents' = [x \in Groups |->
               IF x[1] = c /\ x[2] \in new /\ x[3] = pgen[c]
               THEN Bump(ents[x]) ELSE ents[x]]
  /\ Advance
  /\ UNCHANGED <<present, pgen, sentSnaps, todo>>

\* The server skips an empty slot.
SkipSlot(c) ==
  /\ phase = "players" /\ nextPlayer = c /\ ~present[c]
  /\ Advance
  /\ UNCHANGED <<present, pgen, chr, freeze, owned, enabled, spawned,
                 pending, sentSnaps, ents, todo>>

(* The snapshot: every entity's Snap runs for every ingame client, and     *)
(* CPlayer::FakeSnap (594-596) counts the snapshot for the client.         *)
Snap ==
  /\ phase = "snap"
  /\ phase' = "pump"
  /\ sentSnaps' = [c \in Clients |->
                    IF present[c] /\ sentSnaps[c] < MinSentSnaps
                    THEN sentSnaps[c] + 1 ELSE sentSnaps[c]]
  /\ UNCHANGED <<present, pgen, chr, freeze, owned, enabled, spawned,
                 pending, ents, todo, nextPlayer>>

(* A client enters slot c: a new CPlayer whose constructor runs Reset     *)
(* (30-37, 49-130), clearing the powers and the spawned flags.            *)
Connect(c) ==
  /\ phase = "pump" /\ ~present[c] /\ pgen[c] < MaxConnects
  /\ present' = [present EXCEPT ![c] = TRUE]
  /\ pgen' = [pgen EXCEPT ![c] = @ + 1]
  /\ UNCHANGED <<chr, freeze, owned, enabled, spawned, pending, sentSnaps,
                 ents, phase, todo, nextPlayer>>

(* The client in slot c leaves: OnDisconnect kills the character          *)
(* (636-641, 718-726) and the CPlayer is deleted; the effects it spawned  *)
(* stay in the world.  The fields go back to their initial values, which  *)
(* the next player's Reset gives them anyway.                             *)
Disconnect(c) ==
  /\ phase = "pump" /\ present[c]
  /\ present' = [present EXCEPT ![c] = FALSE]
  /\ chr' = [chr EXCEPT ![c] = "none"]
  /\ freeze' = [freeze EXCEPT ![c] = "thawed"]
  /\ owned' = [owned EXCEPT ![c] = {}]
  /\ enabled' = [enabled EXCEPT ![c] = {}]
  /\ spawned' = [spawned EXCEPT ![c] = {}]
  /\ pending' = [pending EXCEPT ![c] = NoResult]
  /\ sentSnaps' = [sentSnaps EXCEPT ![c] = 0]
  /\ UNCHANGED <<pgen, ents, phase, todo, nextPlayer>>

\* KillCharacter from a command or a team change (718-726).
Kill(c) ==
  /\ phase = "pump" /\ HasChar(c)
  /\ chr' = [chr EXCEPT ![c] = "none"]
  /\ UNCHANGED <<present, pgen, freeze, owned, enabled, spawned, pending,
                 sentSnaps, ents, phase, todo, nextPlayer>>

\* The database thread completes a PLAYER_INFO query of player c; a newer
\* result replaces an unprocessed one.
ScoreArrives(c, r) ==
  /\ phase = "pump" /\ present[c]
  /\ pending' = [pending EXCEPT ![c] = r]
  /\ UNCHANGED <<present, pgen, chr, freeze, owned, enabled, spawned,
                 sentSnaps, ents, phase, todo, nextPlayer>>

Next ==
  \/ StartTick
  \/ \E x \in Groups : EffectTick(x)
  \/ EndEffects
  \/ \E c \in Clients : Die(c) \/ \E f \in Freezes : Freeze(c, f)
  \/ EndChars
  \/ \E c \in Clients, spawn \in BOOLEAN : PlayerTick(c, spawn)
  \/ \E c \in Clients : SkipSlot(c)
  \/ Snap
  \/ \E c \in Clients : Connect(c) \/ Disconnect(c) \/ Kill(c)
  \/ \E c \in Clients, r \in Results : ScoreArrives(c, r)

Spec == Init /\ [][Next]_vars

(* The server loop runs every phase of every tick: weak fairness on the   *)
(* tick's own steps.  Deaths, freezes, connections, commands and database *)
(* results come from outside and are not fair.                            *)
Fairness ==
  /\ WF_vars(StartTick)
  /\ WF_vars(\E x \in Groups : EffectTick(x))
  /\ WF_vars(EndEffects)
  /\ WF_vars(EndChars)
  /\ WF_vars(\E c \in Clients, spawn \in BOOLEAN : PlayerTick(c, spawn))
  /\ WF_vars(\E c \in Clients : SkipSlot(c))
  /\ WF_vars(Snap)

FairSpec == Spec /\ Fairness

-----------------------------------------------------------------------------
\* Slot c's player wants effect k shown: a live character, the power, and
\* for an aura a character that passes the IsFreezed test.
Wants(c, k) == KeepsEffect(c, k)

Shown(c, k) == ents[<<c, k, pgen[c]>>] > 0

(* No player ever has two copies of one effect, across kills, reconnects  *)
(* to the same slot, power changes and the tick order: the m_HasXSpawned  *)
(* flags of player.cpp 343-380 are what prevents it.                      *)
AtMostOneEffect ==
  \A x, y \in Groups :
    x[1] = y[1] /\ x[2] = y[2] /\ ents[x] > 0 /\ ents[y] > 0
      => x = y /\ ents[x] = 1

(* The spawned flag of the player in a slot is set exactly while an       *)
(* effect spawned by that same player exists: Reset of an effect left by  *)
(* the slot's previous player never clears the flag of the new one.       *)
SpawnFlagTracksEffect ==
  \A c \in Clients, k \in Kinds :
    present[c] => (k \in spawned[c] <=> Shown(c, k))

(* A player who keeps a character, the power and (for an aura) the freeze *)
(* eventually has the effect: a flag is never left set without an effect.*)
EffectEventuallyShown ==
  \A c \in Clients, k \in Kinds :
    Wants(c, k) ~> (Shown(c, k) \/ ~Wants(c, k))

(* CAura::Snap (aura.cpp 116-134) calls pOwnerChar->IsGrounded(); when the *)
(* owner has no live character pOwnerChar is null and TeamMask stays -1,   *)
(* so the call dereferences null.  The snapshot must never meet an aura    *)
(* whose owner has no character while some client is ingame.               *)
AuraSnapHasOwner ==
  (phase = "snap" /\ \E s \in Clients : present[s])
    => \A x \in Groups : x[2] \in AuraKinds /\ ents[x] > 0 => HasChar(x[1])

=============================================================================
