------------------------------ MODULE CircBuf -------------------------------
(***************************************************************************)
(* The packet ring of ds_client/arm9/source/circ_buf.h: an array of slots  *)
(* with a head (next write), a tail (next read), the occupancy, and a      *)
(* 16-bit count of the packets overwritten.  Here every operation runs to  *)
(* its end before the next one starts; CircBufIrq is about the DS, where   *)
(* an interrupt pushes while the main loop pops.  A slot and its length    *)
(* are one packet.                                                         *)
(***************************************************************************)
EXTENDS Ring, Sequences

CONSTANTS
  Packets,      \* what may be pushed
  NoPacket,     \* an empty slot, and the result of popping nothing
  OverflowMod   \* overflow_cnt is a uint16_t (2^16)

VARIABLES
  overflow,     \* packets overwritten since the counter was last read
  result        \* what the last operation returned

ASSUME CircBufAssumption ==
  /\ OverflowMod \in Nat \ {0}
  /\ NoPacket \notin Packets

vars == <<slots, head, tail, count, overflow, result>>

TypeOK ==
  /\ slots \in [Indexes -> Packets \cup {NoPacket}]
  /\ head \in Indexes
  /\ tail \in Indexes
  /\ count \in 0 .. Slots
  /\ overflow \in 0 .. OverflowMod - 1
  /\ result \in Packets \cup {NoPacket} \cup 0 .. OverflowMod - 1

\* circ_buf_init
Init ==
  /\ slots = [i \in Indexes |-> NoPacket]
  /\ head = 0
  /\ tail = 0
  /\ count = 0
  /\ overflow = 0
  /\ result = NoPacket

\* Seeded faults: the head runs off the array; a full ring keeps its tail;
\* a full ring drops the new packet instead of the oldest.
PushNoWrap(p) ==
  /\ slots' = [slots EXCEPT ![head] = p]
  /\ head' = head + 1
  /\ IF count = Slots
       THEN /\ tail' = Following(tail)
            /\ overflow' = (overflow + 1) % OverflowMod
            /\ UNCHANGED count
       ELSE /\ count' = count + 1
            /\ UNCHANGED <<tail, overflow>>
  /\ UNCHANGED result

PushKeepsTail(p) ==
  /\ slots' = [slots EXCEPT ![head] = p]
  /\ head' = Following(head)
  /\ IF count = Slots
       THEN overflow' = (overflow + 1) % OverflowMod /\ UNCHANGED count
       ELSE count' = count + 1 /\ UNCHANGED overflow
  /\ UNCHANGED <<tail, result>>

PushDropsNewest(p) ==
  /\ IF count = Slots
       THEN /\ overflow' = (overflow + 1) % OverflowMod
            /\ UNCHANGED <<slots, head, count>>
       ELSE /\ slots' = [slots EXCEPT ![head] = p]
            /\ head' = Following(head)
            /\ count' = count + 1
            /\ UNCHANGED overflow
  /\ UNCHANGED <<tail, result>>

\* circ_buf_push
Push(p) ==
  /\ slots' = [slots EXCEPT ![head] = p]
  /\ head' = Following(head)
  /\ IF count = Slots
       THEN /\ tail' = Following(tail)
            /\ overflow' = (overflow + 1) % OverflowMod
            /\ UNCHANGED count
       ELSE /\ count' = count + 1
            /\ UNCHANGED <<tail, overflow>>
  /\ UNCHANGED result

\* circ_buf_pop
Pop ==
  /\ count # 0
  /\ result' = slots[tail]
  /\ tail' = Following(tail)
  /\ count' = count - 1
  /\ UNCHANGED <<slots, head, overflow>>

PopEmpty ==
  /\ count = 0
  /\ result' = NoPacket
  /\ UNCHANGED <<slots, head, tail, count, overflow>>

\* circ_buf_drain_overflows
Drain ==
  /\ result' = overflow
  /\ overflow' = 0
  /\ UNCHANGED <<slots, head, tail, count>>

Next == (\E p \in Packets : Push(p)) \/ Pop \/ PopEmpty \/ Drain

Spec == Init /\ [][Next]_vars
-----------------------------------------------------------------------------
\* The three counters of the ring always agree: the next write is count slots
\* after the next read, modulo wrap-around, so a full ring is not taken for an
\* empty one and no packet in it is skipped.
Synced == head = (tail + count) % Slots

\* The packets in the ring, oldest first.
Contents == [i \in 1 .. count |-> slots[(tail + i - 1) % Slots]]

Queue == INSTANCE LossyQueue
  WITH queue <- Contents, drops <- overflow, result <- result

\* "Overwrites the oldest unprocessed slot when full" and "pop oldest packet"
\* (circ_buf.h): the ring behaves as a queue that drops its oldest packet.
DropsOldest == Queue!Spec
=============================================================================
