------------------------------ MODULE Protocol ------------------------------
(***************************************************************************)
(* The vocabulary of common/protocol.h shared by the DS client and the Wii *)
(* proxy: connection states, handshake types, session tokens and frames.   *)
(* A frame carries what the session logic reads: its kind, and the session *)
(* token when a receiver compares or stores it.  Heartbeats do carry a     *)
(* token on the wire, but no receiver looks at it, so it is NoToken here.  *)
(* Headers are taken to be valid; WireFormat is about when they are.       *)
(***************************************************************************)
EXTENDS Naturals

CONSTANTS
  TokenMod,   \* the DS counts its own tokens modulo this (2^32 in the code)
  WiiTokens,  \* values gettime() may give the Wii for a session token
  NoToken     \* filler for frames whose token nobody reads

DsTokens == 0 .. TokenMod - 1
Tokens == DsTokens \cup WiiTokens

ASSUME TokenAssumption ==
  /\ TokenMod \in Nat \ {0, 1}
  /\ WiiTokens # {}

\* dsrd_conn_state_t
ConnStates == {"IDLE", "ANNOUNCING", "JOINING", "CONNECTED", "LOST"}

\* dsrd_hs_type_t
HsTypes == {"ANNOUNCE", "JOIN", "ACCEPT", "HEARTBEAT", "DISCONNECT"}

\* Everything that is not a handshake: video, audio, telemetry, congestion.
DataTypes == {"DATA"}

Frames == [kind : HsTypes \cup DataTypes, token : Tokens \cup {NoToken}]

Frame(k, t) == [kind |-> k, token |-> t]
=============================================================================
