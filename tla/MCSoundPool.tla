---------------------------- MODULE MCSoundPool ----------------------------
(* Model values and bounds for checking SoundPool with TLC.                *)
EXTENDS SoundPool

\* One control context: the client's main loop, which is the only caller
\* of the load functions in practice.
MCOneThread == {"main"}
\* A second control context loading or unloading at the same time.
MCTwoThreads == {"main", "loader"}

\* Decoders that succeed or fail cleanly, and ones that may also fail in
\* op_read after allocating the PCM buffer.
MCCleanDecoders == {DecodeOk, DecodeFail}
MCAllDecoders == {DecodeOk, DecodeFail, DecodeReadError}

\* A state constraint keeping voice ages small; ages only grow by frees.
MCAgeBound == \A v \in Voices : age[v] <= MaxPlays
=============================================================================
