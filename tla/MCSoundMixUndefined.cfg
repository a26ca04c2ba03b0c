\* Three voices on one channel, the listener and voices on a 2x2 grid, a
\* radius of 1/2, 1 or 100 (a negative one clamps to 0), rectangles of 1/2
\* or 4 units, half and full volumes, snd_volume at its default 70 or at 100,
\* and full-scale PCM of either sign.
CONSTANTS
  Voices = {v1, v2, v3}
  Channels = {c1}
  Coords = {0, 1}
  Radii <- MCRadii
  Extents = {1, 8}
  Falloffs = {0, 1, 2}
  Levels = {127, 255}
  MasterVols = {70, 100}
  PcmValues <- MCPcmValues

SPECIFICATION Spec

INVARIANT MixDefined
