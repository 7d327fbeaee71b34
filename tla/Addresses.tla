----------------------------- MODULE Addresses -----------------------------
(***************************************************************************)
(* The addresses a PC may have, as the Wii's proxy keeps and compares them.*)
(***************************************************************************)
CONSTANT Ips
=============================================================================
