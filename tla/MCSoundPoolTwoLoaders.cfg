\* Two control threads loading and unloading at once: FreeListSound.
CONSTANTS
  Threads <- MCTwoThreads
  NumSamples = 2
  NumVoices = 1
  MaxFrames = 2
  RequestFrames = {1, 3}
  NativeFrames = {2}
  NativeRates = {1, 2}
  MixingRate = 2
  DecodeResults <- MCCleanDecoders
  TickOffsets = {0, 3}
  RateFifth = 1
  TimeDen = 2
  MaxPlays = 0

SPECIFICATION Spec

INVARIANT FreeListSound
