----------------------------- MODULE MCChunkStep -----------------------------
(* Instance of ChunkStep for TLC: two environments, so that one can end an *)
(* episode while the other does not; chunks of two sub-steps, so that an    *)
(* episode can end before the last one; a step ceiling of two, so that      *)
(* truncation happens inside the first call; three calls, so that a         *)
(* truncated or reset episode is carried into later chunks.                 *)
EXTENDS ChunkStep

MCN == 2
MCActionDim == 2
MCK == 2
MCStepLim == 2
MCMaxCalls == 3
=============================================================================
