----------------------------- MODULE CircBufIrq -----------------------------
(***************************************************************************)
(* RingIrq with a bounded number of packets, numbered in the order they    *)
(* are pushed; 0 is none yet.                                              *)
(***************************************************************************)
EXTENDS RingIrq

CONSTANT MaxPushes   \* bound: packets pushed in a behaviour

ASSUME CircBufIrqAssumption == MaxPushes \in Nat

VARIABLE pushed   \* packets pushed so far

irqVars == <<ringVars, pop, pushed>>

Numbers == 0 .. MaxPushes

\* The counters stay in range although updates of them are lost: no pop reads
\* outside the array, and the 16-bit count never wraps below 0.
IrqTypeOK ==
  /\ slots \in [Indexes -> Numbers]
  /\ head \in Indexes
  /\ tail \in Indexes
  /\ count \in 0 .. Slots
  /\ pushed \in Numbers
  /\ pc \in PopPoints
  /\ tailReg \in Indexes
  /\ countReg \in 0 .. Slots
  /\ out \in Numbers \X Numbers

IrqInit == RingIrqInit(0) /\ pushed = 0

\* The interrupt.
IrqPush ==
  /\ pushed < MaxPushes
  /\ pushed' = pushed + 1
  /\ Store(pushed + 1)

\* The main loop.
PopStep == PopSteps(0) /\ UNCHANGED pushed

IrqNext == IrqPush \/ PopStep

IrqSpec == IrqInit /\ [][IrqNext]_irqVars /\ WF_irqVars(PopStep)
-----------------------------------------------------------------------------
\* Whatever updates the interrupt loses, the drain loop of poll hands out only
\* packets that were pushed (nothing reads a slot nobody wrote): the decoder
\* never sees the zeroes circ_buf_init leaves.
NoPhantom == pc = "reload" => out[1] # 0 /\ out[2] # 0

\* The drain loop, which has no bound of its own, ends once packets stop: a
\* lost update cannot make it spin over an inconsistent ring.
DrainEnds == <>[](pc = "empty?" /\ count = 0)
=============================================================================
