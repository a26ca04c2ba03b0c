----------------------------- MODULE MCSoundMix -----------------------------
EXTENDS SoundMix

\* SetVoiceCircle radii in halves: a negative one (clamped to 0), 1/2, 1
\* and 100.
MCRadii == {-2, 1, 2, 200}

\* Full-scale 16-bit PCM of either sign.
MCPcmValues == {-32768, 32767}
=============================================================================
