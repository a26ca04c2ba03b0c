# TLA+ models of opengores

This directory holds TLA+ models of four parts of opengores: the client
sound engine, the client chat, and two groups of server player powers (the
effect entities, and the raw character pointers of carry and loot). TLC
checks them. The source is under `src/src/`. Line numbers refer to the file
named in each section.

## 1. The system

### 1.1 Sound engine (`engine/client/sound.cpp`)

The sound engine is the largest piece of concurrent logic in the repository.
Two kinds of context use it:

- **The mixer callback.** The SDL backend calls `SdlCallback`, which calls
  `CSound::Mix`, on its own audio thread at a cadence the engine does not
  control.
- **Control contexts.** These are the client's main loop and, through map and
  skin loading, any thread that calls `LoadOpus`/`LoadWV`/`…FromMem`.

Its state and parts:

| Part | State in the code | Operations |
|---|---|---|
| SampleStore | `m_aSamples[NUM_SAMPLES]` with `m_pData`, `m_NumFrames`, `m_Rate`, `m_PausedAt` and `m_NextFreeSampleIndex`; the freelist head `m_FirstFreeSampleIndex` (sentinels USED = -2 and FULL = -1) | `AllocSample`, `LoadOpus`/`LoadWV`(+`FromMem`), `LoadOpusFromMem`, `DecodeOpus`/`DecodeWV`, `UnloadSample`, `Get/SetSampleCurrentTime`, `GetSampleTotalTime` |
| Resampler | `m_pData`, `m_NumFrames` and `m_Rate` of one sample | `RateConvert` |
| VoicePool | `m_aVoices[NUM_VOICES]` with `m_pSample`, `m_Tick`, `m_Flags`, `m_Age`, volume, position, shape and falloff; the round-robin cursor `m_NextVoice` | `Play`/`PlayAt`, `StopVoice`, `Stop`, `Pause`, `StopAll`, `SetVoice*`, `SetVoiceTimeOffset`, `IsPlaying` |
| Mixer | the voice cursors, a scratch `m_pMixBuffer` and master volume | `Mix` |
| SpatialModel | listener position `m_CenterX/Y`, channel volume/pan, each voice's shape, falloff and position | inside `Mix` (lines 63-150) |
| Control surface | channels, listener, master volume `m_SoundVolume` | `SetChannel`, `SetListenerPos`, `UpdateVolume` |
| Device | paused flag | `PauseAudioDevice`/`UnpauseAudioDevice` |

How the parts interact:

- **Under `m_SoundLock`.** `Mix`, every voice operation, `Stop`/`Pause`/`StopAll`,
  `SetSampleCurrentTime` and the first half of `UnloadSample` (its
  `Stop(SampleID)`) each run entirely under the lock.
- **Outside the lock.** `AllocSample`, the decoders, `RateConvert` and the
  second half of `UnloadSample` (free the PCM, push the slot) run without it.
- **Handles.** A `CVoiceHandle` is `(index, age)`. Every handle operation
  compares the age with `m_aVoices[index].m_Age` and ignores a stale handle.

### 1.2 Server player powers (`game/server/player.cpp`, `entities/*`)

One server tick runs in phases (CGameContext::OnTick, in DDNet and not in
this repository):

1. The world ticks its entities by type. Projectile-type entities (star,
   trail, aura) tick before the characters, pickups (loot) before them too.
2. Every player ticks, in client id order.
3. The snapshot is built.
4. The network is pumped: connects, disconnects, chat commands and database
   results are handled.

The parts and how they meet:

- **Effect entities.** `CPlayer::Tick` (player.cpp 337-382) creates `CStar`,
  `CTrail` and `CAura` while the player has the power, a live character and
  a clear `m_HasXSpawned` flag. Each constructor sets the flag. Each
  entity's `Tick` checks its owner and calls `Reset`, which clears the flag of
  whoever is in slot `m_Owner` now. That may be a different player who
  reconnected with the same client id.
- **Powers.** Powers change only when a PLAYER_INFO score result is applied
  (`ProcessScoreResult`, 1063-1102), and only once three snapshots went out.
- **Raw character pointers.** Characters are pooled with one slot per client
  id. Two powers keep a raw `CCharacter*` across ticks:
  - carry's `m_CarryCharacter` (`CarrySomeone`, `TickCarrying`,
    `CancelCarrying`, 1199-1438);
  - guided loot's `m_GuidedTarget` (`CLoot::FindGuided`/`MoveGuided`,
    loot.cpp 142-201).

  Nothing clears either pointer when the character is deleted.
- **Pause machine** (903-992). `/pause` and `/spec` call
  `Pause(State, false)`; `ForcePause(Time)` is called from code outside
  this repository. `ProcessPause`, run by `Tick` for a live character, ends
  an expired force pause and pauses the character of a spectating player
  once it stands still. `Tick` keeps a dead character
  that is paused. `IsPaused` refuses a super heart drop.
- **Loot drops.** `DropLoot` builds one `CLoot`; `DropSuperHeart` and
  `DropSuperHeartName` build 43 (`DropSuperHeartRaw`, 1272-1366).

### 1.3 Client chat (`game/client/components/chat.cpp`)

Received lines:

- `AddLine` (656-853) writes received lines into a ring of 64 slots.
- It merges a line that repeats the newest one into a repeat count.
- `OnRender` reads the ring newest first.

Sending:

- Enter in `OnInput` (238-285) and a pasted line (`SayChat`, 1348-1372) send
  at once when the one-second cooldown (`m_LastChatSend`) is over.
- Otherwise they queue up to three messages in `m_History`.
- The top of `OnRender` (1176-1191) flushes the queue one message per
  second.
- The console commands `say`/`say_team` call `Say` directly.
- The input is open only between `EnableMode` and `DisableMode`.

Tab completion (`OnInput`, 288-473):

- Tab and Shift+Tab on a word that starts with `/` cycle through the
  commands of `m_vCommands` that start with it.
- On any other word they cycle through the players whose name contains the
  word, best match first.
- The cursor is `m_CompletionChosen` with `m_CompletionUsed`. `EnableMode`
  and any key other than Tab and Shift reset it.

### 1.4 The rest

- `engine/server/databases/connection.cpp` only formats SQL `CREATE TABLE`
  strings.
- `game/ddracechat.h` is a static command table.

## 2. Modules

### `SoundPool.tla`: sample store, voice pool and the mixer's effect on voices

Each operation taken under `m_SoundLock` is one atomic action:

- `Mix(request)`: lines 27-184.
- `Play`: 830-887.
- `StopVoice`: 939-952.
- `SetVoiceVolume`, `SetVoiceSpatial` (falloff and location) and
  `SetVoiceShape` (circle and rectangle): 720-828.
- `SetVoiceTimeOffset`: 765-797.
- `Stop`, `Pause` and `StopAll`: 889-937.
- `SetSampleCurrentTime`: 689-706.
- `SetDevicePaused`: 961-969.

The unlocked load and unload paths are split into per-thread steps, with a
program counter `pc[t]` and the slot in hand `cur[t]`:

| Step | Lines | What it does |
|---|---|---|
| `AllocSampleRead` | 289-294 | reads the freelist head |
| `AllocSampleCommit` | 295-304 | pops it, marks the slot USED and asserts `m_pData == nullptr` |
| `Decode` | 342-515 | success (PCM live, native length and rate); clean failure; or `op_read` failure after allocation, which leaves `m_pData` dangling (line 366) |
| `RateConvert` | 306-340 | `m_NumFrames := N*MixingRate / Rate` |
| `UnloadSample` / `UnloadAfterFailedLoad` | 643-648, 517-595 | the locked `Stop(SampleID)` |
| `UnloadFree` | 650-658 | free, reset fields, set `m_NextFreeSampleIndex := head` |
| `UnloadPush` | 659-661 | head := slot |

Data abstraction:

- `pData` is one of `"null"`, `"live"` and `"dangling"`.
- PCM contents, volumes, positions and shapes are not modelled. The voice
  parameters are collapsed into `params[v]`: the id of the `Play` whose handle
  last wrote them. That is exactly what a stale-handle property needs to tell
  apart.
- `m_Tick` and `m_NumFrames` are small integers.
- The unsigned `End` of line 49 is modelled by its effect: a cursor past the
  end makes `End` wrap to a huge value, so the whole request is mixed.
- `RateConvert` uses power-of-two rates (`NativeRates = {1,2}` against
  `MixingRate = 2`), for which the code's float arithmetic is exact.

The ghost variables are `playOf`, `plays` and `handles`. They record which
`Play` created each voice and every handle ever returned.

### `SoundMix.tla`: the mixer's arithmetic

SoundPool leaves out what a voice is mixed with; SoundMix keeps only that.
Its state is the mixing fields of each voice (channel, volume, `FLAG_POS`,
`FLAG_NO_PANNING`, position, falloff, shape and extents), the channels'
volume and pan, the listener and the master volume. The actions are the
calls that write them: `Play` (830-887, on any free voice; the scan is
SoundPool's), `StopVoice` (939-952, also standing for `Mix` freeing a
finished voice), the `SetVoice*` setters (720-828), `SetChannel` (708-712),
`SetListenerPos` (714-718) and `UpdateVolume` (268-274, with the
inactive-window mute).

What one `Mix` call computes from that state is a set of operators:

| Operator | Lines | What it computes |
|---|---|---|
| `Base` | 51-52 | `round_truncate(chanVol * voiceVol / 255)` |
| `InField`, `Dist`, `HalfW`, `HalfH` | 83-84, 105-111 | `(int)length(dx, dy) < Radius`; `abs_dx < w && abs_dy < h` with int `w`, `h` |
| `RangeX` | 78-103 | `(int)Radius`, or `(int)(Width / 2)` |
| `Falloff`, `AxisFalloff` | 88-93, 115-120 | the falloff ratios beyond the int falloff distance |
| `Panned`, `Attenuate` | 131-143 | panning by `(RangeX - abs(dx)) / RangeX`, then `Volume *= FalloffX * FalloffY` |
| `Accum` | 152-160 | one `m_pMixBuffer` entry: the sum over playing voices of PCM times volume |
| `ScaleOverflows` | 177-179 | whether `m_pMixBuffer[i] * MasterVol` leaves the 32-bit range |

Data abstraction:

- Radii and rectangle extents are counted in halves, so that a radius of
  1/2 (which `SetVoiceCircle` accepts) is representable. Negative inputs
  are clamped to 0, as `maximum(0.0f, …)` does.
- The float ratios are computed as exact fractions, then truncated where
  the code assigns them to an int. `MulDiv` splits the products so that
  TLC's own 32-bit integers never overflow.
- The PCM a frame holds is any of `PcmValues`: the property quantifies over
  every assignment of full-scale samples to the playing voices.

### `EffectEntities.tla`: effect powers and their entities

State:

- players per slot: `present`, a ghost generation `pgen`, character state,
  freeze, the owned and enabled powers, the spawned flags, a pending score
  result and `m_SentSnaps`;
- the effect entities counted per (owner slot, kind, owner generation);
- the tick phase, the entity groups still to tick, and the next player id.

Actions follow the tick order:

| Phase | Actions |
|---|---|
| world tick | `StartTick`; `EffectTick(x)`, the entity's keep test `KeepsEffect` or `Reset`; `EndEffects`; `Die` and `Freeze` in the characters' phase; `EndChars` |
| players | `PlayerTick(c, spawn)`: apply a pending result after three snapshots, delete or respawn the character (`Respawned`), then spawn (`Spawns`, the constructors setting the flag); `SkipSlot` for empty slots |
| snapshot | `Snap`: `FakeSnap` counts |
| pump | `Connect` (a new `CPlayer` and `Reset`), `Disconnect`, `Kill`, `ScoreArrives` |

Each entity class has its own keep test and `Reset`, as in the code:
`StarKeeps`/`StarReset`, `TrailKeeps`/`TrailReset`, and the aura branch of
`KeepsEffect`/`ResetFlags`. The trail's are the star's with the trail's
power and flag, so the runs use the star for both.

### `Carry.tla` and `Loot.tla`: raw character pointers

`Carry` models the character pool: one record per slot with a generation
that counts the characters built there. A pointer is a (slot, generation)
pair, so the model knows when a pointer dangles; the code does not.
`PoolZeroes` chooses whether the pools clear a slot's bytes: a freed
character's, and a new `CPlayer`'s (whose `m_ForcePauseTime` neither the
constructor nor `Reset` sets). Actions:

- `PlayerTick`: `ProcessPause` for a live character, or `Respawned` (a dead
  character is deleted unless paused; `TryRespawn` without one), then
  `TickCarrying`;
- `CarrySomeone`, `StopCarrySomeone`, `Kill` (`KillCharacter`), `Disconnect`,
  `Connect`, `ForceSpawn`, `Die` and `StartRace`;
- `SetPause` (`Pause(State, false)` from `/pause` or `/spec`) and
  `ForcePause`, for the clients in `Pausers`.

The pause state is `pauseState` (`m_Paused`), `forcePause`
(`m_ForcePauseTime != 0`) and the `paused` bit of the character object
(`CCharacter::Pause`, outside the repository). Server time is not counted:
whether the force pause has run out (`expired`), whether the last pause is
within `sv_spec_frequency` (`recent`) and whether the character stands still
(`still`) are choices of the step.

`Loot` extends `Carry` with the loot entities over the same pool:

- `DropLoot`: the constructor leaves `m_TicksActive` uninitialised, so it
  starts at any value of `LootGarbage`.
- `DropSuperHeart`, `DropSuperHeartName`: `DropSuperHeartRaw` fills every
  free loot id with a loot of the caller's (the model keeps as many loots as
  it has ids). `DropSuperHeart` is refused while `IsPaused()` is non-zero.
  `DropSuperHeartName` requires only a live destination character, yet
  `Raw` dereferences the caller's own; the model assumes a live caller (see
  the hazards in PROJECT.json).
- `LootTick`: count the tick, expire, `FindGuided` or the `MoveGuided`
  dereference, then pickup by a reachable character.

`WorldNext` interleaves the carry steps with the loot steps. Positions,
distances, line of sight and solo only decide whether a character is found,
so they are choices of the step.

### `Chat.tla` and `ChatLog.tla`: client chat

`Chat` holds:

- the ring (`lines`, `current`), where a line is sender, team, text and
  repeats;
- `m_History` as a sequence of typed entries;
- `pending`, the cooldown flag `cool`, and whether the input is `open`;
- the ghosts `accepted` and `sent`.

Its actions are `AddLine` (the received message folded by the recursive
`AddLines`), `Enter`, `SayChat`, `ConSay`, `EnableMode`, `DisableMode`,
`Flush`, `Wait` (a second passes) and `Reset`. Enter and `SayChat` share
`Submit`.

`ChatLog` is the abstract specification: a newest-first window of at most
`MaxLines` lines in which a repeat of the newest line bumps its count. `Chat`
reads its ring newest first (`View`) and is checked to implement
`ChatLog!Spec` through `Log == INSTANCE ChatLog WITH shown <- View`.

### `ChatCompletion.tla`: tab completion

Tab completion is a pure function of the cursor, the match set and the key,
so it is modelled by operators rather than actions. What a word matches is
an input: the set of command indices whose name starts with it, and for each
player the offset of the match in the name (`NoMatch` when none).

| Operator | Lines | What it computes |
|---|---|---|
| `StepChosen` | 338-341 | the cursor step: Shift steps back only once the cycle is in use |
| `CommandTab` | 332-344 | the cursor wrapped into the doubled list of `2 * NumCommands` |
| `CommandScan` (recursive) | 347-371 | the first matching command, forward or backward, with `SearchType` and the `size_t` `Index` (`USizeMod`: a negative value is `2^64 + x`) |
| `CompletionList` | 306-330 | the matching players in name order, `stable_sort`ed by score |
| `NameTab`, `NameScan` (recursive) | 398-431 | step, wrap into the list, skip players who left |

`RefPicks` is the reference: a cursor over the matches in their order, the
first Tab on the first, the first Shift+Tab on the last, then cyclically.
`CommandPicks` and `NamePicks` fold a run of presses through the code's
operators from the fresh cursor.

The two properties are defined in `MCChat.tla` and say: whenever the chat
input is open (`OnInput` returns at line 240 otherwise), completion cycles
correctly for every input up to the bounds. The quantified part
(`CommandCompletionCorrect`, `NameCompletionCorrect`) holds no variables. It
is a zero-arity definition of the run's root module, which TLC evaluates
once at start-up, so it costs about a second rather than a second in every
state.

## 3. Runs

| Run | Module, cfg | Expect | Shows |
|---|---|---|---|
| `sound_pool` | MCSoundPool, MCSoundPoolSafety.cfg | pass | 2 samples, 2 voices, 2 plays, one thread, all decoder outcomes. The freelist stays an acyclic chain ending at FULL that holds exactly the free slots, each with null PCM (`FreeListSound`). No voice plays a freed sample (`VoicesPlayLiveSamples`). No cursor passes the end (`TickWithinSample`), whatever the order of loads, unloads, Mix, seek, stop, pause and replay. |
| `stale_handle` | MCSoundPool, MCSoundPoolHandles.cfg | violation | `HandleIsolation`: Stop(SampleID) frees a voice without `m_Age++`, so an old handle changes the next sound's volume. |
| `opus_read_error` | MCSoundPool, MCSoundPoolDecodeError.cfg | violation | `NoDoubleFree`: an `op_read` error frees the PCM twice (lines 366 and 652). |
| `two_loaders` | MCSoundPool, MCSoundPoolTwoLoaders.cfg | violation | `FreeListSound`: two loaders pop the same head, because `AllocSample` is unlocked. |
| `mix_undefined` | MCSoundMix, MCSoundMixUndefined.cfg | violation | `MixDefined`: `Play` at the listener's position, then `SetVoiceCircle` with radius 1/2, makes `Mix` divide by `RangeX = 0` at line 137. The same property also catches the overflow at line 179 (see section 5). |
| `carry_safety` | MCLoot, MCLootSafety.cfg | pass | Carry, loot, super hearts and client 1's pause machine between two clients: a carried character always has its carrier (`CarriedHasCarrier`). A paused character always belongs to a player in `PAUSE_SPEC` (`PausedCharIsSpec`): every way out of spectating, including a force pause running out, resumes it or is refused. Under fair ticks every carry ends (`CarryReleased`) and every loot goes away whatever `m_TicksActive` started at (`LootRemoved`). |
| `stale_character_pointer` | MCLoot, MCLootStalePointer.cfg | violation | `NoStaleCharDeref`: a raw `CCharacter*` is read after its character was deleted. TLC reports the carry path in 7 steps: a carry begins, the carried character is killed, and the carrier reads it through the pointer. With the carry conjunct removed, the same cfg reaches the loot path in 8 steps: guided drop, `FindGuided`, kill the target, `MoveGuided`. |
| `carry_release` | MCCarry, MCCarryRelease.cfg | violation | `ReleasedInteracts`: after `KillCharacter`'s release the carried character stays unable to hit others. |
| `effects_safety` | MCEffectEntities, MCEffectEntitiesSafety.cfg | pass | Two slots, star and dotted aura, two reconnects per slot. No player ever has two copies of an effect (`AtMostOneEffect`), and a present player's flag is set exactly while its own effect exists (`SpawnFlagTracksEffect`). Under a fair server loop, a player who keeps wanting an effect gets it (`EffectEventuallyShown`). |
| `aura_snap_null_owner` | MCEffectEntities, MCEffectEntitiesAuraSnap.cfg | violation | `AuraSnapHasOwner`: the snapshot meets an aura whose owner's character died after the aura kept itself in the same tick. |
| `chat` | MCChat, MCChat.cfg | pass | The ring of three slots refines `ChatLog` (`ChatShowsLatest`) through wraps, repeats and resets. For up to four commands, up to four players (some gone) and every run of up to five Tab and Shift+Tab presses, completion inserts the matches in order, cyclically (`CommandCompletionCycles`, `NameCompletionCycles`). |
| `chat_send_order` | MCChat, MCChatSendOrder.cfg | violation | `SentInOrder`: Enter after a second overtakes the queued messages, and the flush sends it again. |

Every property of a passing run has a mutant in `PROJECT.json`: a plausible
slip in one mapped definition that makes TLC find it violated.

## 4. Bounds and fairness

Sound engine bounds:

The sound runs use `MCSoundPool.tla` with these bounds:

- 1 or 2 samples and 1 or 2 voices; the pass run has 2 of each.
- Sample length `NativeFrames = {2}`, with native rates 1 and 2 against a
  mixing rate of 2, so that lengths 2 and 4 both occur.
- `MaxFrames = 2`. The pass run requests 3 frames, so that the clamp
  applies; a request of 1 frame as well takes it to 4m40, too close to the
  five-minute budget.
- A time offset of 3, past the end of a 2-frame sample (the clamp) and
  inside a 4-frame looping one (the modulo). `TimeDen = 1` in the pass run
  takes `SetSampleCurrentTime` to the start and the end.
- `MaxPlays` bounds the number of `Play` calls, and so the number of handles.

These bounds reach every branch of each action:

- loop wrap versus free in `Mix`;
- a full voice pool;
- a seek above and below the threshold, and a looping voice's wrap distance;
- a preview resume;
- a decode failure and a read error;
- freelist pushes onto an empty and a non-empty list.

SoundMix bounds (`MCSoundMixUndefined.cfg`):

- Three voices on one channel. Two full-scale voices never overflow the
  master product (2 * 32767 * 255 * 100 < 2^31); three do at `snd_volume`
  100, but not at the default 70.
- Positions 0 and 1 on each axis. Radii -1 (clamped to 0), 1/2, 1 and 100.
  Rectangle extents 1/2 and 4. Falloffs 0, 1/2 and 1. Volumes 127 and 255.

Server powers bounds:

- **EffectEntities.** Two client slots, two reconnects per slot, the star and
  the dotted aura, and two possible score results: all powers on, or owned
  but off. A reconnect into a slot whose old effect is still in the world,
  a result applied in the middle of a life, and an aura through all three
  freeze states all occur. The trail, whose tests are the star's, is
  left out: a third kind multiplies the states of a run that already takes
  close to three minutes.
- **Carry and Loot.** The pass run has two clients in one team and one
  character per slot (MaxGen = 1). The violation runs use MaxGen = 2, so
  that a slot is rebuilt and an old pointer can alias the new character.
  - The team test reads client 0's bit, so its cancel branch fires when
    client 0 disconnects.
  - Loot gets one id, because loots never read each other; a super heart
    then fills that one id.
  - Only client 1 pauses (`Pausers = {1}`); all three requested states,
    the rate limit and force pauses occur. Letting both clients pause made
    the liveness check take 18 minutes, and the pause machine of one
    player reads no other player.
  - LootLife 2 with start values -1 and 0 lets a guided loot live long
    enough for `MoveGuided`.
- **Chat.** Three ring slots, one repeat, one text from two senders (server
  and player), and five typed messages. That is enough to wrap the ring,
  merge a repeat, fill the three-message queue and drop a fourth. Two texts
  took the run past five minutes once the input mode was added.
- **Tab completion.** Up to `MaxCommands = 4` commands with every subset
  matching, and up to `MaxListed = 4` players with scores 0, 1 or no match
  and every subset still active. Runs of 1 to `MaxPresses = 5` presses.
  - The backward scan takes `m_CompletionChosen - i + NumCommands` below
    zero, so line 355 wraps in `size_t`. It does so only after every index
    has been tested once, and so it never changes a pick. The property
    covers this as well: with 3 commands (`2^64 mod 3 = 1`), the wrapped
    values are computed as the code computes them.
  - Two equal scores exercise the stability of the sort.

Fairness:

- **EffectEntities, Carry and Loot.** Weak fairness is put only on the server
  loop's own steps: the tick phases, the player ticks and the entity ticks.
  The server runs them every tick. Deaths, freezes, commands, connections and
  database results come from outside and are not fair.
- **Sound and chat.** No fairness is assumed; their properties are safety
  properties.

## 5. Findings



Each finding below is shown by a violation run:

1. **Stop/Pause/StopAll keep the voice age** (sound.cpp 899, 917, 935). The
   spec says the age increments on every occupied-to-free transition. A
   handle held across `Stop(SampleID)` therefore controls the next sound in
   that slot.
2. **Double free on an opus read error** (sound.cpp 366 and 652).
3. **Unlocked freelist** (sound.cpp 291-296, 658-659). The spec says load
   and unload take the mixer's lock and may run from several contexts.
4. **Dangling carry and loot pointers** (player.cpp 1376, loot.cpp 176).
   This is a use after free. Once the slot is rebuilt, the pointer reads or
   writes the new character of that client.
5. **Partial release on kill** (player.cpp 731). `KillCharacter` restores
   collision but not hitting.
6. **Null dereference in `CAura::Snap`** (aura.cpp 134).
7. **Chat queue reordering and double send** (chat.cpp 263, 1181).
8. **Undefined arithmetic in `Mix`** (sound.cpp 137 and 179). Two defects
   break the same property (`MixDefined`):
   - **Divide by zero.** `SetVoiceCircle` keeps any radius >= 0, and `Mix`
     truncates it to `RangeX`. With a radius in (0, 1) and the listener on
     the voice, the listener is inside the field and line 137 divides by 0.
     The spec (section 7) says `mix()` cannot fail. The interface takes a
     float radius, and no caller in this repository restricts it.
   - **Overflow.** `m_pMixBuffer[i] * MasterVol` is an `int` product. Three
     full-volume, non-positional voices with full-scale PCM sum to
     25,066,755 per entry. Times 100 that exceeds `INT_MAX` before the
     clamp. The spec (4.5 step 6) gives the clamp of the exact product.
   TLC reports the divide by zero, because it is the shorter trace (3
   states). With the radius 1/2 taken out of `MCRadii` (radii -1, 1 and
   100), the same cfg reports the overflow in 4 states: three `Play`
   calls at `snd_volume` 100.

Observed while modelling, without a run of their own:

- **Team test** (player.cpp 1229, 1391). The test reads bit `m_Team`, which
  is 0 for every player in the game, in a mask indexed by client id. So
  `/carry` across DDRace teams works exactly when client 0 is in the
  carrier's team.
- **Double carry** (player.cpp 729). `KillCharacter` clears
  `m_BeingCarried` but keeps `m_CarryCharacter` and the timer. A `/carry`
  of the released character by another player before the killed carrier's
  next tick makes both carry it.
- **Lost lines after a repeat** (chat.cpp 759). A multi-line message whose
  first line repeats the newest one loses its other lines, because
  `AddLine` returns after counting the repeat.
- **Aura churn** (player.cpp 356 against aura.cpp 80). The aura spawn test
  is `m_FreezeTime != 0`, but the keep test is the `IsFreezed` window. After
  the window an aura is created and reset every tick.
- **Console say** (chat.cpp 155-163). `say` and `say_team` bypass the
  cooldown and the queue. A bound key sends as often as it is pressed. They
  still stamp `m_LastChatSend`, which delays the queue.

## 6. Not modelled

Sound engine:

- The clamp and byte swap of a defined product, and the PCM data itself.
  Only the product's overflow is a hazard, and `MixDefined` checks it.
- Float rounding. The float ratios are exact fractions in `SoundMix`. Float
  rounding can move a truncated volume by one, which no property here
  distinguishes.
- The resampler's PCM copy: it moves sample values that no property tells
  apart.
- The WavPack global read cursor. Its assertion aborts on a second
  concurrent WavPack load. That needs a fourth step in the two-loader model,
  and a run of its own, which the run budget does not allow.

Server:

- **Spectating a player** (`SpectatePlayerName`, `m_SpectatorID`): only
  the view position and `Snap` read it.
- **The pause's effects** (`ProcessPauseEffect`, the team message, chat
  lines): events and messages, no state.
- **`CSoundtrack`.** A timed entity like loot, with the same uninitialised
  counter.
- **Rainbow, latency, AFK and timers.** Bookkeeping no property reads.
- **`Snap` of every entity except the aura's owner test.** It changes no
  state.

Chat:

- demo playback (`EnableMode` returns early);
- the all/team distinction, which only labels a message;
- input editing, and the text that completion inserts: only which
  command or player is inserted is modelled;
- the command list changing during a completion. A `Sv_CommandInfo`
  between two presses changes `NumCommands` under the cursor. The commands
  are sorted only at the next Enter (line 255). No order is specified for
  either to be checked against;
- a new client taking the id of a player who left during a completion. The
  client is suggested whatever its name, because names are inputs here;
- history browsing (Up/Down over `m_History` through `m_pHistoryEntry`) and
  the byte layout of history entries. Three hazards sit there.
  `m_EditingNewLine` is not reset by Enter or Escape, so after Up and Enter
  a new draft is not saved and Down restores an old one. Also, `SayChat` can
  recycle the entry a browsing pointer holds, and it copies a pasted line
  without its terminating NUL (chat.cpp 1368-1370). The browsing pointer
  takes the chat run past its time, and texts are model values;
- highlight and sound timing;
- the rendering.

Other parts:

- SDL device setup and the decoders' bitstream handling: I/O and library
  code.
- The SQL schema strings: formatting only.
- The static command table: no behaviour.
