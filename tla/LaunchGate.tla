----------------------------- MODULE LaunchGate -----------------------------
(***************************************************************************)
(* What the proxy promises its operator: nothing happens until a session   *)
(* is armed for one launch mode; an armed session waits for the DS, and a  *)
(* session that ends locks the gate again, for the operator to arm anew.   *)
(* A session never falls back to waiting, and never changes its mode.      *)
(***************************************************************************)
CONSTANT Modes   \* the launch modes on offer

VARIABLES
  phase,  \* "locked", "armed" or "session"
  mode    \* the launch mode, "NONE" when locked

Init == phase = "locked" /\ mode = "NONE"

Arm ==
  /\ phase = "locked"
  /\ phase' = "armed"
  /\ mode' \in Modes

Join ==
  /\ phase = "armed"
  /\ phase' = "session"
  /\ UNCHANGED mode

\* The session ends, or the operator leaves the program.
LockGate ==
  /\ phase' = "locked"
  /\ mode' = "NONE"

Next == Arm \/ Join \/ LockGate

Spec == Init /\ [][Next]_<<phase, mode>>
=============================================================================
