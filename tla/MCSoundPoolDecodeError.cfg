\* Loads whose decoder fails in op_read after allocating: NoDoubleFree.
CONSTANTS
  Threads <- MCOneThread
  NumSamples = 2
  NumVoices = 1
  MaxFrames = 2
  RequestFrames = {1, 3}
  NativeFrames = {2}
  NativeRates = {1, 2}
  MixingRate = 2
  DecodeResults <- MCAllDecoders
  TickOffsets = {0, 3}
  RateFifth = 1
  TimeDen = 2
  MaxPlays = 2

SPECIFICATION Spec

INVARIANT NoDoubleFree
