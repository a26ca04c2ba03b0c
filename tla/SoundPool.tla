----------------------------- MODULE SoundPool -----------------------------
(***************************************************************************)
(* The sample store and the voice pool of CSound (src/engine/client/       *)
(* sound.cpp), driven by the audio callback CSound::Mix and by the control *)
(* surface called from the game's threads.                                 *)
(*                                                                         *)
(* Every operation that holds m_SoundLock (Mix, Play, Stop, Pause,         *)
(* StopAll, StopVoice, the SetVoice* and SetSampleCurrentTime) is one      *)
(* atomic action.  Loading and unloading a sample are not under the lock:  *)
(* AllocSample, the decoder, RateConvert and the second half of            *)
(* UnloadSample are separate steps of a control thread, and the two        *)
(* read-modify-writes of the sample freelist head are split where the code *)
(* splits them.                                                            *)
(*                                                                         *)
(* Data is abstracted to what the properties tell apart: a sample's PCM is *)
(* the state of its m_pData pointer, a voice's volume and spatial settings *)
(* are the play call whose handle wrote them last, and the mixed audio is  *)
(* left to the SoundMix module.                                            *)
(***************************************************************************)
EXTENDS Integers, FiniteSets

CONSTANTS
  Threads,        \* control contexts that call the public interface
  NumSamples,     \* NUM_SAMPLES
  NumVoices,      \* NUM_VOICES
  MaxFrames,      \* m_MaxFrames, the frames one Mix call may produce
  RequestFrames,  \* frame counts the backend asks Mix for
  NativeFrames,   \* frame counts a decoder may return
  NativeRates,    \* sample rates a decoder may return
  MixingRate,     \* m_MixingRate
  DecodeResults,  \* outcomes of DecodeOpus/DecodeWV the run admits
  TickOffsets,    \* (uint64)(m_Rate * TimeOffset) passed to SetVoiceTimeOffset
  RateFifth,      \* 0.2f * m_Rate, in frames
  TimeDen,        \* SetSampleCurrentTime's Time is k / TimeDen, k in 0..TimeDen
  MaxPlays        \* bound on the number of successful Play calls

Slots == 0 .. NumSamples - 1
Voices == 0 .. NumVoices - 1

\* The sentinels of m_NextFreeSampleIndex (sound.cpp lines 24-25).
SAMPLE_INDEX_USED == -2
SAMPLE_INDEX_FULL == -1

\* The state of a sample's m_pData pointer.
Null == "null"
Live == "live"          \* points to PCM owned by the sample
Dangling == "dangling"  \* freed but not reset to nullptr

NoSample == -1          \* a voice's m_pSample == nullptr
DefaultParams == 0      \* m_Vol = 255 and the other defaults Play writes

\* Decoder outcomes: success, a failure before m_pData is allocated
\* (open, channel count, bit depth, unpack), and op_read failing after it.
DecodeOk == "ok"
DecodeFail == "fail"
DecodeReadError == "read_error"

ASSUME /\ NumSamples \in Nat \ {0} /\ NumVoices \in Nat \ {0}
       /\ MaxFrames \in Nat \ {0} /\ RequestFrames \subseteq Nat \ {0}
       /\ NativeFrames \subseteq Nat /\ NativeRates \subseteq Nat \ {0}
       /\ DecodeResults \subseteq {DecodeOk, DecodeFail, DecodeReadError}
       /\ TimeDen \in Nat \ {0} /\ MaxPlays \in Nat

VARIABLES
  pData,              \* m_aSamples[s].m_pData
  numFrames,          \* m_aSamples[s].m_NumFrames
  rate,               \* m_aSamples[s].m_Rate
  pausedAt,           \* m_aSamples[s].m_PausedAt
  nextFree,           \* m_aSamples[s].m_NextFreeSampleIndex
  firstFree,          \* m_FirstFreeSampleIndex
  voiceSample,        \* m_aVoices[v].m_pSample, as a slot index
  tick,               \* m_aVoices[v].m_Tick
  loop,               \* m_aVoices[v].m_Flags & FLAG_LOOP
  params,             \* m_Vol/m_X/m_Y/m_Falloff/m_Shape: the play whose handle set them
  age,                \* m_aVoices[v].m_Age
  nextVoice,          \* m_NextVoice
  devicePaused,       \* SDL_PauseAudioDevice state
  pc,                 \* where each control thread is in LoadX/UnloadSample
  cur,                \* the slot a control thread is loading or unloading
  fault,              \* a double free or a failed dbg_assert, once it happened
  loaded,             \* sample ids returned by a load and not yet unloaded
  playOf,             \* ghost: the Play call whose voice occupies v
  plays,              \* ghost: number of successful Play calls
  handles             \* ghost: every CVoiceHandle Play has returned

sampleVars == <<pData, numFrames, rate, pausedAt, nextFree, firstFree>>
voiceVars == <<voiceSample, tick, loop, params, age, nextVoice, playOf>>
threadVars == <<pc, cur, loaded>>
vars == <<sampleVars, voiceVars, threadVars, devicePaused, fault, plays, handles>>

Plays == 0 .. MaxPlays
Handle == [id : Voices, age : Nat, play : Plays]
NoFault == "none"

TypeOK ==
  /\ pData \in [Slots -> {Null, Live, Dangling}]
  /\ numFrames \in [Slots -> Nat]
  /\ rate \in [Slots -> Nat]
  /\ pausedAt \in [Slots -> Nat]
  /\ nextFree \in [Slots -> Slots \cup {SAMPLE_INDEX_USED, SAMPLE_INDEX_FULL}]
  /\ firstFree \in Slots \cup {SAMPLE_INDEX_FULL}
  /\ voiceSample \in [Voices -> Slots \cup {NoSample}]
  /\ tick \in [Voices -> Nat]
  /\ loop \in [Voices -> BOOLEAN]
  /\ params \in [Voices -> Plays]
  /\ age \in [Voices -> Nat]
  /\ nextVoice \in 0 .. NumVoices
  /\ devicePaused \in BOOLEAN
  /\ pc \in [Threads -> {"idle", "alloc", "decode", "convert",
                         "unload_stop", "unload_free", "unload_push"}]
  /\ cur \in [Threads -> Slots \cup {SAMPLE_INDEX_FULL}]
  /\ fault \in {NoFault, "double_free", "assert_not_unloaded"}
  /\ loaded \subseteq Slots
  /\ playOf \in [Voices -> Plays]
  /\ plays \in Plays
  /\ handles \subseteq Handle

-----------------------------------------------------------------------------
(* Init: the state CSound::Init leaves (lines 246-255): every slot on the  *)
(* freelist in index order, every voice free with age 0.                   *)
Init ==
  /\ pData = [s \in Slots |-> Null]
  /\ numFrames = [s \in Slots |-> 0]
  /\ rate = [s \in Slots |-> 0]
  /\ pausedAt = [s \in Slots |-> 0]
  /\ nextFree = [s \in Slots |-> IF s = NumSamples - 1 THEN SAMPLE_INDEX_FULL
                                                      ELSE s + 1]
  /\ firstFree = 0
  /\ voiceSample = [v \in Voices |-> NoSample]
  /\ tick = [v \in Voices |-> 0]
  /\ loop = [v \in Voices |-> FALSE]
  /\ params = [v \in Voices |-> DefaultParams]
  /\ age = [v \in Voices |-> 0]
  /\ nextVoice = 0
  /\ devicePaused = FALSE
  /\ pc = [t \in Threads |-> "idle"]
  /\ cur = [t \in Threads |-> SAMPLE_INDEX_FULL]
  /\ fault = NoFault
  /\ loaded = {}
  /\ playOf = [v \in Voices |-> 0]
  /\ plays = 0
  /\ handles = {}

\* A failed dbg_assert aborts the client; a double free is undefined
\* behaviour that the model records and lets run on.
Running == fault # "assert_not_unloaded"
Idle(t) == pc[t] = "idle"
Occupied(v) == voiceSample[v] # NoSample
Minimum(a, b) == IF a < b THEN a ELSE b
Maximum(a, b) == IF a > b THEN a ELSE b
Absolute(x) == IF x < 0 THEN -x ELSE x

-----------------------------------------------------------------------------
(***************************************************************************)
(* The audio callback.                                                     *)
(***************************************************************************)

\* Frames Mix copies from voice v: End is unsigned (line 49), so a cursor
\* past the end of the sample wraps to a count of at least 2^31, which the
\* Frames of any call is below.
MixEnd(v, frames) ==
  LET remaining == numFrames[voiceSample[v]] - tick[v]
  IN  IF remaining < 0 THEN frames ELSE Minimum(frames, remaining)

\* The cursor after the copy loop (lines 153-160).
MixTick(v, frames) == tick[v] + MixEnd(v, frames)

\* The voice reached the end of its sample in this callback (line 163).
MixFinished(v, frames) ==
  Occupied(v) /\ MixTick(v, frames) = numFrames[voiceSample[v]]

\* CSound::Mix(pFinalOut, Frames), lines 27-184: under the lock, every
\* occupied voice advances by End frames; one that reaches the end wraps to
\* 0 if it loops and is freed (m_pSample = nullptr, m_Age++) otherwise.
Mix(request) ==
  LET frames == Minimum(request, MaxFrames)
      freed == {v \in Voices : MixFinished(v, frames) /\ ~loop[v]}
  IN
  /\ Running /\ ~devicePaused
  /\ tick' = [v \in Voices |->
               IF ~Occupied(v) THEN tick[v]
               ELSE IF MixFinished(v, frames) /\ loop[v] THEN 0
               ELSE MixTick(v, frames)]
  /\ voiceSample' = [v \in Voices |-> IF v \in freed THEN NoSample
                                                    ELSE voiceSample[v]]
  /\ age' = [v \in Voices |-> IF v \in freed THEN age[v] + 1 ELSE age[v]]
  /\ UNCHANGED <<sampleVars, loop, params, nextVoice, playOf>>
  /\ UNCHANGED <<threadVars, devicePaused, fault, plays, handles>>

-----------------------------------------------------------------------------
(***************************************************************************)
(* Voice operations of the control surface; each holds m_SoundLock.        *)
(***************************************************************************)

\* The voice the round-robin scan of Play tests at step i.
ScanOrder(i) == (nextVoice + i) % NumVoices

\* The free voice the round-robin scan of Play finds first (lines 836-845).
FirstFreeVoice ==
  ScanOrder(CHOOSE i \in 0 .. NumVoices - 1 :
              /\ ~Occupied(ScanOrder(i))
              /\ \A j \in 0 .. i - 1 : Occupied(ScanOrder(j)))

\* CSound::Play(ChannelID, SampleID, Flags, x, y), lines 830-877.  When no
\* voice is free it returns an invalid handle and changes nothing.
Play(t, s, isLoop, isPreview) ==
  /\ Running /\ Idle(t) /\ plays < MaxPlays
  /\ \E v \in Voices : ~Occupied(v)
  /\ LET v == FirstFreeVoice IN
     /\ voiceSample' = [voiceSample EXCEPT ![v] = s]
     /\ tick' = [tick EXCEPT ![v] = IF isLoop \/ isPreview THEN pausedAt[s]
                                                          ELSE 0]
     /\ pausedAt' = IF ~isLoop /\ isPreview
                    THEN [pausedAt EXCEPT ![s] = 0] ELSE pausedAt
     /\ loop' = [loop EXCEPT ![v] = isLoop]
     /\ params' = [params EXCEPT ![v] = DefaultParams]
     /\ nextVoice' = v + 1
     /\ playOf' = [playOf EXCEPT ![v] = plays + 1]
     /\ handles' = handles \cup {[id |-> v, age |-> age[v], play |-> plays + 1]}
  /\ plays' = plays + 1
  /\ UNCHANGED <<pData, numFrames, rate, nextFree, firstFree, age>>
  /\ UNCHANGED <<threadVars, devicePaused, fault>>

\* The check every handle operation starts with: m_Age == Voice.Age().
HandleMatches(h) == age[h.id] = h.age

\* CSound::StopVoice(Voice), lines 939-952.
StopVoice(t, h) ==
  /\ Running /\ Idle(t) /\ HandleMatches(h)
  /\ voiceSample' = [voiceSample EXCEPT ![h.id] = NoSample]
  /\ age' = [age EXCEPT ![h.id] = @ + 1]
  /\ UNCHANGED <<sampleVars, tick, loop, params, nextVoice, playOf>>
  /\ UNCHANGED <<threadVars, devicePaused, fault, plays, handles>>

\* CSound::SetVoiceVolume(Voice, Volume), lines 720-733: the caller of the
\* play that returned h chooses the volume.
SetVoiceVolume(t, h) ==
  /\ Running /\ Idle(t) /\ HandleMatches(h)
  /\ params' = [params EXCEPT ![h.id] = h.play]
  /\ UNCHANGED <<sampleVars, voiceSample, tick, loop, age, nextVoice>>
  /\ UNCHANGED <<playOf, threadVars, devicePaused, fault, plays, handles>>

\* CSound::SetVoiceFalloff and CSound::SetVoiceLocation, lines 735-763:
\* the same guard and, abstracted, the same effect as SetVoiceVolume.
SetVoiceSpatial(t, h) == SetVoiceVolume(t, h)

\* CSound::SetVoiceCircle and CSound::SetVoiceRectangle, lines 799-828:
\* the same guard and, abstracted, the same effect as SetVoiceVolume.
SetVoiceShape(t, h) == SetVoiceVolume(t, h)

\* Mutant: a seek on a voice that does not loop is not clamped to the end.
OffsetTickUnclamped(v, offset) ==
  LET n == numFrames[voiceSample[v]]
  IN  IF n > 0 /\ loop[v] THEN offset % n ELSE offset

\* The cursor SetVoiceTimeOffset wants (lines 779-785): modulo the length
\* for a looping voice, clamped to [0, m_NumFrames] otherwise.
OffsetTick(v, offset) ==
  LET n == numFrames[voiceSample[v]]
  IN  IF n > 0 /\ loop[v] THEN offset % n ELSE Minimum(offset, n)

\* At least 200 ms, else the buffer size (line 788).
Threshold == Maximum(RateFifth, MaxFrames)

\* The seek is applied only if it is far enough in both directions around
\* the loop (lines 789-796).
SeekApplies(v, target) ==
  /\ Absolute(tick[v] - target) > Threshold
  /\ ~(/\ loop[v]
       /\ Minimum(tick[v], target) + numFrames[voiceSample[v]]
            - Maximum(tick[v], target) <= Threshold)

\* CSound::SetVoiceTimeOffset(Voice, TimeOffset), lines 765-797.
SetVoiceTimeOffset(t, h, offset) ==
  LET v == h.id
      target == OffsetTick(v, offset)
  IN
  /\ Running /\ Idle(t) /\ HandleMatches(h) /\ Occupied(v)
  /\ tick' = IF SeekApplies(v, target) THEN [tick EXCEPT ![v] = target]
                                       ELSE tick
  /\ UNCHANGED <<sampleVars, voiceSample, loop, params, age, nextVoice>>
  /\ UNCHANGED <<playOf, threadVars, devicePaused, fault, plays, handles>>

-----------------------------------------------------------------------------
(***************************************************************************)
(* Sample operations of the control surface; each holds m_SoundLock.       *)
(***************************************************************************)

\* The cursor left in m_PausedAt for voice v: Pause always keeps the
\* position (line 897); Stop and StopAll keep it if the voice loops and
\* rewind to the start otherwise (lines 913-916, 930-933).
StopCursor(v, keep) == IF keep \/ loop[v] THEN tick[v] ELSE 0

\* The loops of Stop, Pause and StopAll walk the voices in index order and
\* clear every voice of the samples in S.  Each writes the sample's
\* m_PausedAt, so the voice with the highest index wins; m_Age is not
\* incremented.
StopVoicesOf(S, keep) ==
  LET of(s) == {v \in Voices : voiceSample[v] = s}
      last(s) == CHOOSE v \in of(s) : \A w \in of(s) : w <= v
  IN
  /\ pausedAt' = [s \in Slots |-> IF s \in S /\ of(s) # {}
                                   THEN StopCursor(last(s), keep) ELSE pausedAt[s]]
  /\ voiceSample' = [v \in Voices |-> IF voiceSample[v] \in S THEN NoSample
                                                            ELSE voiceSample[v]]

\* CSound::Stop(SampleID), lines 904-920.
Stop(t, s) ==
  /\ Running /\ Idle(t)
  /\ StopVoicesOf({s}, FALSE)
  /\ UNCHANGED <<pData, numFrames, rate, nextFree, firstFree>>
  /\ UNCHANGED <<tick, loop, params, age, nextVoice, playOf>>
  /\ UNCHANGED <<threadVars, devicePaused, fault, plays, handles>>

\* CSound::Pause(SampleID), lines 889-902: always keeps the position.
Pause(t, s) ==
  /\ Running /\ Idle(t)
  /\ StopVoicesOf({s}, TRUE)
  /\ UNCHANGED <<pData, numFrames, rate, nextFree, firstFree>>
  /\ UNCHANGED <<tick, loop, params, age, nextVoice, playOf>>
  /\ UNCHANGED <<threadVars, devicePaused, fault, plays, handles>>

\* CSound::StopAll(), lines 922-937.
StopAll(t) ==
  /\ Running /\ Idle(t)
  /\ StopVoicesOf(Slots, FALSE)
  /\ UNCHANGED <<pData, numFrames, rate, nextFree, firstFree>>
  /\ UNCHANGED <<tick, loop, params, age, nextVoice, playOf>>
  /\ UNCHANGED <<threadVars, devicePaused, fault, plays, handles>>

\* CSound::SetSampleCurrentTime(SampleID, Time), lines 689-706, with
\* Time = k / TimeDen: the first voice of the sample is moved, or else the
\* resume position is.
SetSampleCurrentTime(t, s, k) ==
  LET target == (numFrames[s] * k) \div TimeDen
      of == {v \in Voices : voiceSample[v] = s}
      first == CHOOSE v \in of : \A w \in of : v <= w
  IN
  /\ Running /\ Idle(t)
  /\ IF of # {}
       THEN /\ tick' = [tick EXCEPT ![first] = target]
            /\ UNCHANGED pausedAt
       ELSE /\ pausedAt' = [pausedAt EXCEPT ![s] = target]
            /\ UNCHANGED tick
  /\ UNCHANGED <<pData, numFrames, rate, nextFree, firstFree>>
  /\ UNCHANGED <<voiceSample, loop, params, age, nextVoice, playOf>>
  /\ UNCHANGED <<threadVars, devicePaused, fault, plays, handles>>

\* CSound::PauseAudioDevice / UnpauseAudioDevice, lines 961-969: the
\* backend stops or resumes calling Mix.
SetDevicePaused(t, paused) ==
  /\ Running /\ Idle(t) /\ devicePaused # paused
  /\ devicePaused' = paused
  /\ UNCHANGED <<sampleVars, voiceVars, threadVars, fault, plays, handles>>

-----------------------------------------------------------------------------
(***************************************************************************)
(* Loading and unloading, outside the lock.  A control thread t runs       *)
(* LoadOpusFromMem/LoadWVFromMem (and LoadOpus/LoadWV, whose ReadFile      *)
(* failure is a DecodeFail) and UnloadSample as a sequence of steps.       *)
(***************************************************************************)

\* AllocSample, lines 291-294: read the freelist head.  A full pool makes
\* the load return -1 without a change.
AllocSampleRead(t) ==
  /\ Running /\ Idle(t) /\ firstFree \in Slots
  /\ cur' = [cur EXCEPT ![t] = firstFree]
  /\ pc' = [pc EXCEPT ![t] = "alloc"]
  /\ UNCHANGED <<sampleVars, voiceVars, loaded, devicePaused, fault>>
  /\ UNCHANGED <<plays, handles>>

\* Mutant: AllocSample marks the slot used before reading its successor.
AllocSampleCommitSwapped(t) ==
  LET s == cur[t] IN
  /\ Running /\ pc[t] = "alloc"
  /\ firstFree' = SAMPLE_INDEX_USED
  /\ nextFree' = [nextFree EXCEPT ![s] = SAMPLE_INDEX_USED]
  /\ fault' = IF pData[s] # Null THEN "assert_not_unloaded" ELSE fault
  /\ pc' = [pc EXCEPT ![t] = "decode"]
  /\ UNCHANGED <<pData, numFrames, rate, pausedAt, voiceVars, cur, loaded>>
  /\ UNCHANGED <<devicePaused, plays, handles>>

\* AllocSample, lines 295-303: unlink the slot read before and mark it used;
\* a slot that still holds data fails the dbg_assert.
AllocSampleCommit(t) ==
  LET s == cur[t] IN
  /\ Running /\ pc[t] = "alloc"
  /\ firstFree' = nextFree[s]
  /\ nextFree' = [nextFree EXCEPT ![s] = SAMPLE_INDEX_USED]
  /\ fault' = IF pData[s] # Null THEN "assert_not_unloaded" ELSE fault
  /\ pc' = [pc EXCEPT ![t] = "decode"]
  /\ UNCHANGED <<pData, numFrames, rate, pausedAt, voiceVars, cur, loaded>>
  /\ UNCHANGED <<devicePaused, plays, handles>>

\* DecodeOpus (lines 342-388) or DecodeWV (lines 435-515) into the slot.
\* Success stores the PCM, its length and rate and resets m_PausedAt;
\* op_read failing frees m_pData without resetting it (line 366); every
\* other failure leaves m_pData alone.  A failure goes on to UnloadSample.
Decode(t, result) ==
  LET s == cur[t] IN
  /\ Running /\ pc[t] = "decode"
  /\ \/ /\ result = DecodeOk
        /\ \E n \in NativeFrames, r \in NativeRates :
             /\ pData' = [pData EXCEPT ![s] = Live]
             /\ numFrames' = [numFrames EXCEPT ![s] = n]
             /\ rate' = [rate EXCEPT ![s] = r]
        /\ pausedAt' = [pausedAt EXCEPT ![s] = 0]
        /\ pc' = [pc EXCEPT ![t] = "convert"]
     \/ /\ result = DecodeFail
        /\ pc' = [pc EXCEPT ![t] = "unload_stop"]
        /\ UNCHANGED <<pData, numFrames, rate, pausedAt>>
     \/ /\ result = DecodeReadError
        /\ pData' = [pData EXCEPT ![s] = Dangling]
        /\ pc' = [pc EXCEPT ![t] = "unload_stop"]
        /\ UNCHANGED <<numFrames, rate, pausedAt>>
  /\ UNCHANGED <<nextFree, firstFree, voiceVars, cur, loaded>>
  /\ UNCHANGED <<devicePaused, fault, plays, handles>>

\* The frame count RateConvert computes, (int)((n / (float)r) * MixingRate)
\* (line 314); exact for the power-of-two rates of the runs.
ConvertedFrames(n, r) == (n * MixingRate) \div r

\* RateConvert (lines 306-340), then the load returns the slot index
\* (lines 553-554, 616-617).
RateConvert(t) ==
  LET s == cur[t] IN
  /\ Running /\ pc[t] = "convert"
  /\ IF rate[s] = MixingRate
       THEN UNCHANGED <<numFrames, rate>>
       ELSE /\ numFrames' = [numFrames EXCEPT ![s] = ConvertedFrames(@, rate[s])]
            /\ rate' = [rate EXCEPT ![s] = MixingRate]
  /\ loaded' = loaded \cup {s}
  /\ pc' = [pc EXCEPT ![t] = "idle"]
  /\ UNCHANGED <<pData, pausedAt, nextFree, firstFree, voiceVars, cur>>
  /\ UNCHANGED <<devicePaused, fault, plays, handles>>

\* CSound::UnloadSample(SampleID), line 648: Stop(SampleID) under the lock.
\* A caller unloads a sample id it got from a load; a failed load enters
\* here from Decode.
\* Mutant: UnloadSample frees the PCM without stopping the sample's voices.
UnloadStopVoicesSkipped(s) ==
  /\ UNCHANGED <<pausedAt, voiceSample>>
  /\ UNCHANGED <<pData, numFrames, rate, nextFree, firstFree>>
  /\ UNCHANGED <<tick, loop, params, age, nextVoice, playOf>>

UnloadStopVoices(s) ==
  /\ StopVoicesOf({s}, FALSE)
  /\ UNCHANGED <<pData, numFrames, rate, nextFree, firstFree>>
  /\ UNCHANGED <<tick, loop, params, age, nextVoice, playOf>>

UnloadSample(t, s) ==
  /\ Running /\ Idle(t)
  /\ UnloadStopVoices(s)
  /\ loaded' = loaded \ {s}
  /\ cur' = [cur EXCEPT ![t] = s]
  /\ pc' = [pc EXCEPT ![t] = "unload_free"]
  /\ UNCHANGED <<devicePaused, fault, plays, handles>>

UnloadAfterFailedLoad(t) ==
  /\ Running /\ pc[t] = "unload_stop"
  /\ UnloadStopVoices(cur[t])
  /\ pc' = [pc EXCEPT ![t] = "unload_free"]
  /\ UNCHANGED <<cur, loaded, devicePaused, fault, plays, handles>>

\* Mutant: UnloadSample frees m_pData but leaves the pointer set.
UnloadFreeNoReset(t) ==
  LET s == cur[t] IN
  /\ Running /\ pc[t] = "unload_free"
  /\ fault' = IF pData[s] = Dangling THEN "double_free" ELSE fault
  /\ pData' = [pData EXCEPT ![s] = Dangling]
  /\ IF nextFree[s] = SAMPLE_INDEX_USED
       THEN /\ nextFree' = [nextFree EXCEPT ![s] = firstFree]
            /\ pc' = [pc EXCEPT ![t] = "unload_push"]
       ELSE /\ UNCHANGED nextFree
            /\ pc' = [pc EXCEPT ![t] = "idle"]
  /\ UNCHANGED <<numFrames, rate, pausedAt, firstFree, voiceVars, cur, loaded>>
  /\ UNCHANGED <<devicePaused, plays, handles>>

\* UnloadSample, lines 651-658: free m_pData (a second free of a dangling
\* pointer is a double free), reset it, and if the slot is in use start
\* pushing it on the freelist by linking it to the current head.
UnloadFree(t) ==
  LET s == cur[t] IN
  /\ Running /\ pc[t] = "unload_free"
  /\ fault' = IF pData[s] = Dangling THEN "double_free" ELSE fault
  /\ pData' = [pData EXCEPT ![s] = Null]
  /\ IF nextFree[s] = SAMPLE_INDEX_USED
       THEN /\ nextFree' = [nextFree EXCEPT ![s] = firstFree]
            /\ pc' = [pc EXCEPT ![t] = "unload_push"]
       ELSE /\ UNCHANGED nextFree
            /\ pc' = [pc EXCEPT ![t] = "idle"]
  /\ UNCHANGED <<numFrames, rate, pausedAt, firstFree, voiceVars, cur, loaded>>
  /\ UNCHANGED <<devicePaused, plays, handles>>

\* UnloadSample, line 659: the slot becomes the freelist head.
UnloadPush(t) ==
  /\ Running /\ pc[t] = "unload_push"
  /\ firstFree' = cur[t]
  /\ pc' = [pc EXCEPT ![t] = "idle"]
  /\ UNCHANGED <<pData, numFrames, rate, pausedAt, nextFree, voiceVars>>
  /\ UNCHANGED <<cur, loaded, devicePaused, fault, plays, handles>>

-----------------------------------------------------------------------------
Next ==
  \/ \E n \in RequestFrames : Mix(n)
  \/ \E t \in Threads :
       \/ \E s \in loaded, l, p \in BOOLEAN : Play(t, s, l, p)
       \/ \E h \in handles : StopVoice(t, h)
       \/ \E h \in handles : SetVoiceVolume(t, h)
       \/ \E h \in handles : SetVoiceSpatial(t, h)
       \/ \E h \in handles : SetVoiceShape(t, h)
       \/ \E h \in handles, o \in TickOffsets : SetVoiceTimeOffset(t, h, o)
       \/ \E s \in loaded : Stop(t, s)
       \/ \E s \in loaded : Pause(t, s)
       \/ StopAll(t)
       \/ \E s \in loaded, k \in 0 .. TimeDen : SetSampleCurrentTime(t, s, k)
       \/ \E b \in BOOLEAN : SetDevicePaused(t, b)
       \/ AllocSampleRead(t)
       \/ AllocSampleCommit(t)
       \/ \E r \in DecodeResults : Decode(t, r)
       \/ RateConvert(t)
       \/ \E s \in loaded : UnloadSample(t, s)
       \/ UnloadAfterFailedLoad(t)
       \/ UnloadFree(t)
       \/ UnloadPush(t)

Spec == Init /\ [][Next]_vars

-----------------------------------------------------------------------------
(***************************************************************************)
(* Properties.                                                             *)
(***************************************************************************)

\* The walk AllocSample takes down m_NextFreeSampleIndex from the head: the
\* slots it visits and where it stops (FULL, a USED mark, or a revisit).
RECURSIVE FreeChain(_, _)
FreeChain(i, seen) ==
  IF i \in Slots /\ i \notin seen
    THEN FreeChain(nextFree[i], seen \cup {i})
    ELSE <<seen, i>>

\* Slots whose push onto the freelist UnloadSample has begun, not finished.
Pushing == {cur[t] : t \in {u \in Threads : pc[u] = "unload_push"}}

\* The sample freelist that AllocSample pops and UnloadSample pushes is a
\* list ending in SAMPLE_INDEX_FULL that holds exactly the slots not in use,
\* and none of them holds PCM: a load never gets a slot another load holds,
\* no free slot is lost, and the dbg_assert in AllocSample never fires.
FreeListSound ==
  LET walk == FreeChain(firstFree, {}) IN
  /\ walk[2] = SAMPLE_INDEX_FULL
  /\ walk[1] = {s \in Slots : nextFree[s] # SAMPLE_INDEX_USED} \ Pushing
  /\ \A s \in walk[1] : pData[s] = Null

\* Every voice Mix will read plays a sample that is allocated and whose
\* m_pData is live: UnloadSample stops a sample's voices before it frees the
\* PCM, so the callback never reads freed or missing data.
VoicesPlayLiveSamples ==
  \A v \in Voices :
    Occupied(v) => /\ pData[voiceSample[v]] = Live
                   /\ nextFree[voiceSample[v]] = SAMPLE_INDEX_USED

\* A playing voice's cursor never passes the end of its sample: Mix copies
\* m_pData[m_Tick * Step ...] and frees a voice only when m_Tick equals
\* m_NumFrames exactly, so a cursor beyond it after a seek, a resume from
\* m_PausedAt or a rate conversion would read out of bounds and never end.
TickWithinSample ==
  \A v \in Voices :
    Occupied(v) => tick[v] <= numFrames[voiceSample[v]]

\* A CVoiceHandle only reaches the voice its Play started: once that voice
\* is gone (stopped by any means or finished), a SetVoice* call through the
\* old handle must not change the voice now in the slot (spec section 3,
\* "age ... incremented every time the slot transitions from occupied to
\* free").
HandleIsolation ==
  \A v \in Voices :
    Occupied(v) => params[v] \in {DefaultParams, playOf[v]}

\* Loading never frees the same PCM buffer twice.
NoDoubleFree == fault # "double_free"

=============================================================================
