------------------------------ MODULE RingIrq -------------------------------
(***************************************************************************)
(* The packet ring as nifi_net.c uses it on the DS: nifi_rx_handler runs   *)
(* in the wireless interrupt and pushes, while dsrd_nifi_poll drains the   *)
(* same ring in the main loop.  The push runs to its end; the pop is       *)
(* split at the memory accesses between which the interrupt can arrive.    *)
(* The ring is not volatile, so after the copy the compiler may use the    *)
(* tail and the count it read before it, or read them again.  What the pop *)
(* does not use any more is cleared.                                       *)
(***************************************************************************)
EXTENDS Ring

VARIABLES
  pc,           \* the main loop: outside the pop, copying, or storing
  tailReg, countReg,  \* tail and count as the pop holds them
  out           \* the pop's output: the packets its halves come from

ringVars == <<slots, head, tail, count>>
pop == <<pc, tailReg, countReg, out>>

PopPoints == {"empty?", "copy", "copyRest", "reload", "storeTail",
              "reloadCount", "storeCount"}

\* circ_buf_init, and the main loop outside the pop; nothing is an empty slot.
RingIrqInit(nothing) ==
  /\ slots = [i \in Indexes |-> nothing]
  /\ head = 0 /\ tail = 0 /\ count = 0
  /\ pc = "empty?"
  /\ tailReg = 0 /\ countReg = 0
  /\ out = <<nothing, nothing>>

\* Seeded faults: a full ring still counts up; the head is advanced before
\* the packet is stored.
StoreOvercounts(p) ==
  /\ slots' = [slots EXCEPT ![head] = p]
  /\ head' = Following(head)
  /\ count' = count + 1
  /\ tail' = IF count = Slots THEN Following(tail) ELSE tail
  /\ UNCHANGED pop

StoreAhead(p) ==
  /\ slots' = [slots EXCEPT ![Following(head)] = p]
  /\ head' = Following(head)
  /\ IF count = Slots
       THEN tail' = Following(tail) /\ UNCHANGED count
       ELSE count' = count + 1 /\ UNCHANGED tail
  /\ UNCHANGED pop

\* circ_buf_push, in the interrupt
Store(p) ==
  /\ slots' = [slots EXCEPT ![head] = p]
  /\ head' = Following(head)
  /\ IF count = Slots
       THEN tail' = Following(tail) /\ UNCHANGED count
       ELSE count' = count + 1 /\ UNCHANGED tail
  /\ UNCHANGED pop

\* circ_buf_empty and the test of circ_buf_pop
PopStart ==
  /\ pc = "empty?"
  /\ count # 0
  /\ pc' = "copy"
  /\ tailReg' = tail
  /\ countReg' = count
  /\ UNCHANGED <<ringVars, out>>

\* The memcpy of the slot, which an interrupt can split.
PopCopy ==
  /\ pc = "copy"
  /\ out' = [out EXCEPT ![1] = slots[tailReg]]
  /\ pc' = "copyRest"
  /\ UNCHANGED <<ringVars, tailReg, countReg>>

PopCopyRest ==
  /\ pc = "copyRest"
  /\ out' = [out EXCEPT ![2] = slots[tailReg]]
  /\ pc' = "reload"
  /\ UNCHANGED <<ringVars, tailReg, countReg>>

\* The tail the pop advances: as it was before the copy, or read again.
PopReload ==
  /\ pc = "reload"
  /\ tailReg' \in {tailReg, tail}
  /\ pc' = "storeTail"
  /\ UNCHANGED <<ringVars, countReg, out>>

PopStoreTail ==
  /\ pc = "storeTail"
  /\ tail' = Following(tailReg)
  /\ pc' = "reloadCount"
  /\ UNCHANGED <<slots, head, count, tailReg, countReg, out>>

PopReloadCount ==
  /\ pc = "reloadCount"
  /\ countReg' \in {countReg, count}
  /\ pc' = "storeCount"
  /\ UNCHANGED <<ringVars, tailReg, out>>

\* Seeded fault: the pop does not take its packet off the count.
PopForgetsCount(nothing) ==
  /\ pc = "storeCount"
  /\ count' = countReg
  /\ pc' = "empty?"
  /\ tailReg' = 0 /\ countReg' = 0 /\ out' = <<nothing, nothing>>
  /\ UNCHANGED <<slots, head, tail>>

PopStoreCount(nothing) ==
  /\ pc = "storeCount"
  /\ count' = countReg - 1
  /\ pc' = "empty?"
  /\ tailReg' = 0 /\ countReg' = 0 /\ out' = <<nothing, nothing>>
  /\ UNCHANGED <<slots, head, tail>>

PopSteps(nothing) ==
  \/ PopStart \/ PopCopy \/ PopCopyRest \/ PopReload
  \/ PopStoreTail \/ PopReloadCount \/ PopStoreCount(nothing)
=============================================================================
