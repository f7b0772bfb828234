----------------------------- MODULE MCRecorder -----------------------------
(* Model-checking instances of Recorder. *)
EXTENDS RecorderProperties

\* Record sizes in units of a chunk that holds two: half a chunk, a full
\* chunk; and one too large for any chunk.
HalfAndFull    == {1, 2}
HalfAndTooLong == {1, 3}
Full           == {2}
=============================================================================
