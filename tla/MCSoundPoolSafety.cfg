\* The sample store and the voice pool together: two sample slots, two
\* voices, one control thread, every decoder outcome.  A native rate of 1
\* is resampled to the mixing rate 2; a Mix request of 3 frames is clamped
\* to m_MaxFrames = 2; a seek to frame 3 lies past a 2-frame sample and
\* inside a resampled 4-frame one.
CONSTANTS
  Threads <- MCOneThread
  NumSamples = 2
  NumVoices = 2
  MaxFrames = 2
  RequestFrames = {3}
  NativeFrames = {2}
  NativeRates = {1, 2}
  MixingRate = 2
  DecodeResults <- MCAllDecoders
  TickOffsets = {3}
  RateFifth = 1
  TimeDen = 1
  MaxPlays = 2

SPECIFICATION Spec

INVARIANT TypeOK
INVARIANT FreeListSound
INVARIANT VoicesPlayLiveSamples
INVARIANT TickWithinSample
