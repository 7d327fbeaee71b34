------------------------------ MODULE MCAudio -------------------------------
(***************************************************************************)
(* AudioPath for TLC: small rings, chunks that straddle the halves.        *)
(***************************************************************************)
EXTENDS AudioPath

\* Bound: after a race, only what the PC had sent by its end is followed.
PcEndsTheRace == raced => ~ready
=============================================================================
