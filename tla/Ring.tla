-------------------------------- MODULE Ring --------------------------------
(***************************************************************************)
(* dsrd_circ_buf_t of ds_client/arm9/source/circ_buf.h, for the two views  *)
(* of it: CircBuf, where operations are whole, and CircBufIrq, where an    *)
(* interrupt pushes while the main loop is inside a pop.                   *)
(***************************************************************************)
EXTENDS Naturals

CONSTANT Slots   \* DSRD_CIRC_BUF_SLOTS (8)

ASSUME RingAssumption == Slots \in Nat \ {0}

VARIABLES
  slots,   \* the packet in each slot
  head,    \* the next slot to be written
  tail,    \* the next slot to be read
  count    \* how many are occupied

Indexes == 0 .. Slots - 1

Following(i) == (i + 1) % Slots
=============================================================================
