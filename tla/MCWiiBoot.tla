----------------------------- MODULE MCWiiBoot ------------------------------
(***************************************************************************)
(* WiiBoot for TLC: two addresses, a card with files the operator wrote:   *)
(* channels and candidates out of range, and a list longer than is read,   *)
(* with an address twice.                                                  *)
(***************************************************************************)
EXTENDS WiiBoot

CONSTANTS home, default

TwoIps == {home, default}
Files == {[ip |-> home, channel |-> 12, channels |-> <<6, 0, 14>>, auto |-> TRUE],
          [channel |-> 6, channels |-> <<13>>]}
Lists == {<<>>, <<home, home, default>>}
QuickAndSlow == {2000, 40000}
=============================================================================
