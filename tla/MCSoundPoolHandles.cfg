\* Stale voice handles after a sample-level stop: HandleIsolation.
CONSTANTS
  Threads <- MCOneThread
  NumSamples = 1
  NumVoices = 2
  MaxFrames = 2
  RequestFrames = {1, 3}
  NativeFrames = {2}
  NativeRates = {1, 2}
  MixingRate = 2
  DecodeResults <- MCCleanDecoders
  TickOffsets = {0, 3}
  RateFifth = 1
  TimeDen = 2
  MaxPlays = 3

SPECIFICATION Spec

INVARIANT HandleIsolation
