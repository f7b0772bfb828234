----------------------------- MODULE WriteChunk -----------------------------
(***************************************************************************)
(* The size of a write chunk: what is asked for, brought into its range    *)
(* and rounded up to the device's write unit (chrono_round_write_chunk).   *)
(* It is computed once at start and again by every SET_WRITE_CHUNK, while  *)
(* the buffers were allocated once, MaxWriteChunk bytes each.              *)
(***************************************************************************)
EXTENDS Naturals

CONSTANTS
    MinWriteChunk,  \* MIN_WRITE_CHUNK_BYTES
    MaxWriteChunk   \* MAX_WRITE_CHUNK_BYTES, and the size of a buffer

Sizes == MinWriteChunk \in Nat /\ MaxWriteChunk \in Nat /\ MinWriteChunk <= MaxWriteChunk

Clamped(requested) ==
    IF requested < MinWriteChunk THEN MinWriteChunk
    ELSE IF requested > MaxWriteChunk THEN MaxWriteChunk ELSE requested

RoundWriteChunk(requested, unit) ==
    ((Clamped(requested) + unit - 1) \div unit) * unit
=============================================================================
