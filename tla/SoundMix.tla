------------------------------ MODULE SoundMix ------------------------------
(***************************************************************************)
(* The integer arithmetic of one CSound::Mix call                          *)
(* (src/src/engine/client/sound.cpp 27-184) and the control calls that set *)
(* what it reads: Play, StopVoice, the SetVoice* setters, SetChannel,       *)
(* SetListenerPos and UpdateVolume.  Module SoundPool models which voice    *)
(* plays which sample and where its cursor is; this module models the       *)
(* volumes a voice is mixed with and the 32-bit sums they produce.          *)
(*                                                                         *)
(* Float inputs are kept exact on a grid: a circle radius and a rectangle  *)
(* extent are counted in halves, a falloff in halves of 1.  The float      *)
(* ratios of the falloff are computed as exact fractions before the        *)
(* truncation to int the code does; positions are the ints Play and        *)
(* SetListenerPos store.  The PCM a frame holds is any of PcmValues.        *)
(***************************************************************************)
EXTENDS Integers, FiniteSetsExt

CONSTANTS
  Voices,      \* m_aVoices
  Channels,    \* m_aChannels
  Coords,      \* (int)x and (int)y of voice and listener positions
  Radii,       \* SetVoiceCircle radii, in halves (negative ones included)
  Extents,     \* SetVoiceRectangle widths and heights, in halves
  Falloffs,    \* SetVoiceFalloff arguments, in halves of 1
  Levels,      \* (int)(Volume * 255) of the volumes callers pass
  MasterVols,  \* values g_Config.m_SndVolume may have
  PcmValues    \* 16-bit sample values a mixed frame may hold

\* INT_MAX of the 32-bit int m_pMixBuffer and MasterVol are.
IntMax == 2147483647

\* The radius Play gives every voice, 1500, in halves.
DefaultRadius == 3000

\* A voice slot with m_pSample == nullptr.
Free == [on |-> FALSE]

VoiceRec ==
  [on : {TRUE}, chan : Channels, vol : Levels \cup {255}, pos : BOOLEAN,
   nopan : BOOLEAN, x : Coords, y : Coords, falloff : 0 .. 2,
   shape : {"circle", "rect"}, radius : Nat, width : Nat, height : Nat]

VARIABLES
  voice,    \* the mixing fields of m_aVoices
  chan,     \* m_aChannels: m_Vol and whether m_Pan is non-zero
  center,   \* <<m_CenterX, m_CenterY>>
  master    \* m_SoundVolume

vars == <<voice, chan, center, master>>

TypeOK ==
  /\ voice \in [Voices -> VoiceRec \cup {Free}]
  /\ chan \in [Channels -> [vol : Levels, pan : BOOLEAN]]
  /\ center \in Coords \X Coords
  /\ master \in MasterVols \cup {0}

(* The client has set every channel (SetChannel) and called Update from    *)
(* Init; no voice plays; the listener is at the origin.                    *)
Init ==
  /\ voice = [v \in Voices |-> Free]
  /\ chan \in [Channels -> [vol : Levels, pan : BOOLEAN]]
  /\ center = <<0, 0>>
  /\ master \in MasterVols

Playing == {v \in Voices : voice[v].on}

-----------------------------------------------------------------------------
(*                        The per-voice volumes                            *)

Abs(n) == IF n < 0 THEN -n ELSE n

\* (int)length(vec2(dx, dy)): the float square root, truncated.
Isqrt(n) == CHOOSE k \in 0 .. n : k * k <= n /\ n < (k + 1) * (k + 1)

\* floor(t * n / d) for naturals, without forming t * n.
MulDiv(t, n, d) == (t \div d) * n + ((t % d) * n) \div d

\* round_truncate(m_pChannel->m_Vol * (Voice.m_Vol / 255.0f)), line 51.
Base(v) == (chan[voice[v].chan].vol * voice[v].vol) \div 255

\* FLAG_POS with a panning channel: the spatial branch of line 59.
Positional(v) == voice[v].pos /\ chan[voice[v].chan].pan

DX(v) == voice[v].x - center[1]
DY(v) == voice[v].y - center[2]
Dist(v) == Isqrt(DX(v) * DX(v) + DY(v) * DY(v))

\* The int half extents w and h of a rectangle, (int)(m_Width / 2.0f).
HalfW(v) == voice[v].width \div 4
HalfH(v) == voice[v].height \div 4

\* RangeX: (int)Radius for a circle, (int)(m_Width / 2.0f) for a rectangle.
RangeX(v) ==
  IF voice[v].shape = "circle" THEN voice[v].radius \div 2 ELSE HalfW(v)

\* InVoiceField: Dist < Radius, or abs_dx < w && abs_dy < h.
InField(v) ==
  IF voice[v].shape = "circle"
  THEN 2 * Dist(v) < voice[v].radius
  ELSE Abs(DX(v)) < HalfW(v) /\ Abs(DY(v)) < HalfH(v)

(* FalloffX and FalloffY as fractions <<n, d>>: a circle's                 *)
(* (Radius - Dist) / (Radius - FalloffDistance) beyond the int falloff    *)
(* distance, a rectangle's (w - abs_dx) / (w - fx) per axis; 1 inside.     *)
AxisFalloff(a, e, f) == IF a > f THEN <<e - a, e - f>> ELSE <<1, 1>>

Falloff(v) ==
  LET f == voice[v].falloff
      r == voice[v].radius
      fd == (r * f) \div 4
  IN IF voice[v].shape = "circle"
     THEN LET c == IF Dist(v) > fd THEN <<r - 2 * Dist(v), r - 2 * fd>>
                                  ELSE <<1, 1>>
          IN <<c, c>>
     ELSE <<AxisFalloff(Abs(DX(v)), HalfW(v), (f * HalfW(v)) \div 2),
            AxisFalloff(Abs(DY(v)), HalfH(v), (f * HalfH(v)) \div 2)>>

\* Volume *= FalloffX * FalloffY, truncated back to int.
Attenuate(vol, fo) ==
  MulDiv(vol * fo[1][1], fo[2][1], fo[1][2]) \div fo[2][2]

\* Panning, lines 133-138: the far channel is scaled by (RangeX - |dx|) / RangeX.
PanDivides(v) == Positional(v) /\ InField(v) /\ ~voice[v].nopan

Panned(v) ==
  LET b == Base(v)
      far == IF RangeX(v) = 0 THEN b   \* undefined: a division by zero
             ELSE ((RangeX(v) - Abs(DX(v))) * b) \div RangeX(v)
  IN IF ~voice[v].nopan /\ DX(v) > 0 THEN <<far, b>>
     ELSE IF ~voice[v].nopan THEN <<b, far>> ELSE <<b, b>>

\* <<VolumeL, VolumeR>>, lines 51-150.
Volumes(v) ==
  IF ~Positional(v) THEN <<Base(v), Base(v)>>
  ELSE IF ~InField(v) THEN <<0, 0>>
  ELSE <<Attenuate(Panned(v)[1], Falloff(v)), Attenuate(Panned(v)[2], Falloff(v))>>

(* One m_pMixBuffer entry of side s (1 left, 2 right) once every playing *)
(* voice added its PCM times its volume, lines 154-160, when the frame of  *)
(* voice v holds pcm[v].                                                   *)
Accum(pcm, s) == MapThenSumSet(LAMBDA v : pcm[v] * Volumes(v)[s], Playing)

\* m_pMixBuffer[i] * MasterVol, line 179, leaves the 32-bit int range.
ScaleOverflows(a, m) ==
  LET lowLimit == IF IntMax % m = m - 1 THEN IntMax \div m + 1 ELSE IntMax \div m
  IN m > 0 /\ (a > IntMax \div m \/ -a > lowLimit)

-----------------------------------------------------------------------------
(*                             Control calls                               *)

(* CSound::Play, lines 830-880, on a free voice (the scan for one is       *)
(* SoundPool's FirstFreeVoice): volume 255, the caller's flags and int     *)
(* position, falloff 0, a circle of radius 1500.  The rectangle extents   *)
(* are not reset, but no shape reads them until SetVoiceRectangle.        *)
Play(v, c, pos, nopan, x, y) ==
  /\ ~voice[v].on
  /\ voice' = [voice EXCEPT ![v] =
                 [on |-> TRUE, chan |-> c, vol |-> 255, pos |-> pos,
                  nopan |-> nopan, x |-> x, y |-> y, falloff |-> 0,
                  shape |-> "circle", radius |-> DefaultRadius,
                  width |-> 0, height |-> 0]]
  /\ UNCHANGED <<chan, center, master>>

(* A voice stops: CSound::StopVoice (lines 939-952), or Mix freeing it at  *)
(* the end of its sample (lines 162-170).                                  *)
StopVoice(v) ==
  /\ voice[v].on
  /\ voice' = [voice EXCEPT ![v] = Free]
  /\ UNCHANGED <<chan, center, master>>

\* The setters, lines 720-828, through a handle whose age matches.
SetVoiceVolume(v, l) ==
  /\ voice[v].on
  /\ voice' = [voice EXCEPT ![v].vol = l]
  /\ UNCHANGED <<chan, center, master>>

\* clamp(Falloff, 0.0f, 1.0f): the arguments are in range already.
SetVoiceFalloff(v, f) ==
  /\ voice[v].on
  /\ voice' = [voice EXCEPT ![v].falloff = f]
  /\ UNCHANGED <<chan, center, master>>

SetVoiceLocation(v, x, y) ==
  /\ voice[v].on
  /\ voice' = [voice EXCEPT ![v].x = x, ![v].y = y]
  /\ UNCHANGED <<chan, center, master>>

\* maximum(0.0f, Radius): a negative radius becomes 0, a fraction stays.
SetVoiceCircle(v, r) ==
  /\ voice[v].on
  /\ voice' = [voice EXCEPT ![v].shape = "circle",
                            ![v].radius = IF r < 0 THEN 0 ELSE r]
  /\ UNCHANGED <<chan, center, master>>

SetVoiceRectangle(v, w, h) ==
  /\ voice[v].on
  /\ voice' = [voice EXCEPT ![v].shape = "rect",
                            ![v].width = IF w < 0 THEN 0 ELSE w,
                            ![v].height = IF h < 0 THEN 0 ELSE h]
  /\ UNCHANGED <<chan, center, master>>

\* CSound::SetChannel, lines 708-712: m_Pan = (int)(Pan * 255).
SetChannel(c, l, pan) ==
  /\ chan' = [chan EXCEPT ![c] = [vol |-> l, pan |-> pan]]
  /\ UNCHANGED <<voice, center, master>>

\* CSound::SetListenerPos, lines 714-718.
SetListenerPos(x, y) ==
  /\ center' = <<x, y>>
  /\ UNCHANGED <<voice, chan, master>>

(* CSound::UpdateVolume, lines 268-274: snd_volume, or 0 while the window *)
(* is inactive and snd_nonactive_mute is set.                             *)
UpdateVolume(m, muted) ==
  /\ master' = IF muted THEN 0 ELSE m
  /\ UNCHANGED <<voice, chan, center>>

Next ==
  \/ \E c \in Channels, pos, nopan \in BOOLEAN, x, y \in Coords :
       \E v \in Voices : Play(v, c, pos, nopan, x, y)
  \/ \E v \in Voices :
       \/ StopVoice(v)
       \/ \E l \in Levels : SetVoiceVolume(v, l)
       \/ \E f \in Falloffs : SetVoiceFalloff(v, f)
       \/ \E x, y \in Coords : SetVoiceLocation(v, x, y)
       \/ \E r \in Radii : SetVoiceCircle(v, r)
       \/ \E w, h \in Extents : SetVoiceRectangle(v, w, h)
  \/ \E c \in Channels, l \in Levels, pan \in BOOLEAN : SetChannel(c, l, pan)
  \/ \E x, y \in Coords : SetListenerPos(x, y)
  \/ \E m \in MasterVols, muted \in BOOLEAN : UpdateVolume(m, muted)

Spec == Init /\ [][Next]_vars

-----------------------------------------------------------------------------
(* Mix, which the audio callback may run in any state, performs no integer *)
(* operation C leaves undefined, for any PCM the playing voices' frames    *)
(* hold: the panning of lines 133-138 never divides by a RangeX of 0, and *)
(* the master-volume product of line 179 stays within 32 bits, as the      *)
(* exact scaling law the clamp relies on requires.                        *)
MixDefined ==
  /\ \A v \in Playing : PanDivides(v) => RangeX(v) # 0
  /\ \A pcm \in [Playing -> PcmValues], s \in {1, 2} :
       ~ScaleOverflows(Accum(pcm, s), master)
=============================================================================
