----------------------------- MODULE LossyQueue -----------------------------
(***************************************************************************)
(* What the packet buffer of the DS promises: a queue of at most Slots     *)
(* packets that drops its oldest packet to make room for a new one, counts *)
(* the packets it dropped, and hands them out oldest first.                *)
(***************************************************************************)
EXTENDS Naturals, Sequences

CONSTANTS
  Slots,        \* capacity
  Packets,      \* what may be queued
  NoPacket,     \* what popping an empty queue returns
  OverflowMod   \* the drop counter is kept modulo this

VARIABLES
  queue,        \* the packets, oldest first
  drops,        \* packets dropped since the counter was last read
  result        \* what the last operation returned

Init == queue = <<>> /\ drops = 0 /\ result = NoPacket

Push(p) ==
  /\ IF Len(queue) = Slots
       THEN /\ queue' = Append(Tail(queue), p)
            /\ drops' = (drops + 1) % OverflowMod
       ELSE /\ queue' = Append(queue, p)
            /\ UNCHANGED drops
  /\ UNCHANGED result

Pop ==
  /\ queue # <<>>
  /\ queue' = Tail(queue)
  /\ result' = Head(queue)
  /\ UNCHANGED drops

PopEmpty ==
  /\ queue = <<>>
  /\ result' = NoPacket
  /\ UNCHANGED <<queue, drops>>

Drain ==
  /\ result' = drops
  /\ drops' = 0
  /\ UNCHANGED queue

Next == (\E p \in Packets : Push(p)) \/ Pop \/ PopEmpty \/ Drain

Spec == Init /\ [][Next]_<<queue, drops, result>>
=============================================================================
