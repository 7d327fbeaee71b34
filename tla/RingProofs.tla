----------------------------- MODULE RingProofs -----------------------------
(***************************************************************************)
(* The packet ring of the DS, for every number of slots.  Used by one      *)
(* thread it implements the lossy queue.  An interrupt that pushes may     *)
(* tear packets and lose updates, but it never makes the drain loop leave  *)
(* the array or read a slot nobody wrote.                                  *)
(***************************************************************************)
EXTENDS CircBuf, CircBufIrq, Integers, SequenceTheorems, TLAPS

\* Wrapping around once is subtracting the number of slots once.
LEMMA Wrap ==
  ASSUME NEW n \in 0 .. 2 * Slots - 1
  PROVE  n % Slots = IF n < Slots THEN n ELSE n - Slots
BY RingAssumption, SMTT(30)

LEMMA FollowingWraps ==
  ASSUME NEW i \in Indexes
  PROVE  /\ Following(i) \in Indexes
         /\ Following(i) = IF i + 1 = Slots THEN 0 ELSE i + 1
BY RingAssumption, Wrap, i + 1 \in 0 .. 2 * Slots - 1 DEF Following, Indexes

\* The position of the k-th packet of the ring, counted from 0.
LEMMA PositionOf ==
  ASSUME NEW t \in Indexes, NEW k \in 0 .. Slots
  PROVE  /\ (t + k) % Slots \in Indexes
         /\ (t + k) % Slots = IF t + k < Slots THEN t + k ELSE t + k - Slots
<1>1. t + k \in 0 .. 2 * Slots - 1
  BY RingAssumption DEF Indexes
<1>2. (t + k) % Slots = IF t + k < Slots THEN t + k ELSE t + k - Slots
  BY <1>1, Wrap, RingAssumption DEF Indexes
<1> QED BY <1>2, RingAssumption DEF Indexes

LEMMA CounterWraps ==
  ASSUME NEW n \in 0 .. OverflowMod - 1
  PROVE  (n + 1) % OverflowMod \in 0 .. OverflowMod - 1
BY CircBufAssumption, SMTT(30)

-----------------------------------------------------------------------------
LEMMA TypeInductive == TypeOK /\ [Next]_vars => TypeOK'
<1> SUFFICES ASSUME TypeOK, [Next]_vars PROVE TypeOK'
  OBVIOUS
<1>0. Following(head) \in Indexes /\ Following(tail) \in Indexes
  BY FollowingWraps DEF TypeOK
<1>1. ASSUME NEW p \in Packets, Push(p) PROVE TypeOK'
  <2>1. (overflow + 1) % OverflowMod \in 0 .. OverflowMod - 1
    BY CounterWraps DEF TypeOK
  <2>2. slots' \in [Indexes -> Packets \cup {NoPacket}]
    BY <1>1 DEF Push, TypeOK
  <2>3. count' \in 0 .. Slots /\ tail' \in Indexes
    BY <1>0, <1>1, RingAssumption DEF Push, TypeOK
  <2> QED BY <1>0, <1>1, <2>1, <2>2, <2>3 DEF Push, TypeOK
<1>2. CASE Pop
  BY <1>0, <1>2, RingAssumption DEF Pop, TypeOK
<1>3. CASE PopEmpty
  BY <1>3 DEF PopEmpty, TypeOK
<1>4. CASE Drain
  BY <1>4, CircBufAssumption DEF Drain, TypeOK
<1>5. CASE UNCHANGED vars
  BY <1>5 DEF vars, TypeOK
<1> QED BY <1>1, <1>2, <1>3, <1>4, <1>5 DEF Next

THEOREM CircBufTypeCorrect == Spec => []TypeOK
<1>1. Init => TypeOK
  BY CircBufAssumption, RingAssumption DEF Init, TypeOK, Indexes
<1> QED BY <1>1, TypeInductive, PTL DEF Spec

LEMMA SyncedInductive == TypeOK /\ Synced /\ [Next]_vars => Synced'
<1> SUFFICES ASSUME TypeOK, Synced, [Next]_vars PROVE Synced'
  OBVIOUS
<1>0. /\ tail \in Indexes /\ head \in Indexes /\ count \in 0 .. Slots
      /\ head = IF tail + count < Slots THEN tail + count ELSE tail + count - Slots
      /\ Following(head) = IF head + 1 = Slots THEN 0 ELSE head + 1
      /\ Following(tail) = IF tail + 1 = Slots THEN 0 ELSE tail + 1
      /\ Following(tail) \in Indexes
  BY PositionOf, FollowingWraps DEF TypeOK, Synced
<1>1. ASSUME NEW p \in Packets, Push(p) PROVE Synced'
  <2>1. CASE count = Slots
    <3>1. tail' = Following(tail) /\ head' = Following(head) /\ count' = Slots
      BY <1>1, <2>1 DEF Push
    <3>2. (tail' + count') % Slots =
            IF tail' + count' < Slots THEN tail' + count' ELSE tail' + count' - Slots
      BY <1>0, <3>1, PositionOf, RingAssumption
    <3> QED BY <1>0, <2>1, <3>1, <3>2, RingAssumption DEF Synced, Indexes
  <2>2. CASE count # Slots
    <3>1. tail' = tail /\ head' = Following(head) /\ count' = count + 1
      BY <1>1, <2>2 DEF Push
    <3>2. tail \in Indexes /\ count' \in 0 .. Slots
      BY <1>0, <2>2, <3>1, RingAssumption
    <3>3. (tail + count') % Slots =
            IF tail + count' < Slots THEN tail + count' ELSE tail + count' - Slots
      BY <3>2, PositionOf
    <3> QED BY <1>0, <2>2, <3>1, <3>3, RingAssumption DEF Synced, Indexes
  <2> QED BY <2>1, <2>2
<1>2. CASE Pop
  <2>1. tail' = Following(tail) /\ head' = head /\ count' = count - 1 /\ count # 0
    BY <1>2 DEF Pop
  <2>2. tail' \in Indexes /\ count' \in 0 .. Slots
    BY <1>0, <2>1, RingAssumption
  <2>3. (tail' + count') % Slots =
          IF tail' + count' < Slots THEN tail' + count' ELSE tail' + count' - Slots
    BY <2>2, PositionOf
  <2> QED BY <1>0, <2>1, <2>3, RingAssumption DEF Synced, Indexes
<1>3. CASE UNCHANGED <<head, tail, count>>
  BY <1>3 DEF Synced
<1> QED BY <1>1, <1>2, <1>3 DEF Next, PopEmpty, Drain, vars

\* Head, tail and count of the ring agree after every operation.
THEOREM CircBufSynced == Spec => []Synced
<1>1. Init => Synced
  <2>1. 0 \in Indexes /\ 0 \in 0 .. Slots
    BY RingAssumption DEF Indexes
  <2>2. (0 + 0) % Slots = 0
    BY <2>1, PositionOf, RingAssumption
  <2> QED BY <2>2 DEF Init, Synced
<1> QED BY <1>1, CircBufTypeCorrect, SyncedInductive, PTL DEF Spec

-----------------------------------------------------------------------------
(* The refinement: what each operation does to Contents.                   *)

LEMMA AppendIs ==
  ASSUME NEW S, NEW s \in Seq(S), NEW e \in S, NEW n \in Nat, n = Len(s) + 1
  PROVE  Append(s, e) = [i \in 1 .. n |-> IF i = n THEN e ELSE s[i]]
<1>1. /\ Append(s, e) \in Seq(S) /\ Len(Append(s, e)) = n /\ Len(s) \in Nat
      /\ \A i \in 1 .. Len(s) : Append(s, e)[i] = s[i]
      /\ Append(s, e)[n] = e
  BY AppendProperties, LenProperties
<1>2. Append(s, e) \in [1 .. n -> S]
  BY <1>1, LenProperties
<1>3. \A i \in 1 .. n : Append(s, e)[i] = IF i = n THEN e ELSE s[i]
  BY <1>1
<1> QED BY <1>2, <1>3

LEMMA TailIs ==
  ASSUME NEW S, NEW s \in Seq(S), s # <<>>
  PROVE  Tail(s) = [i \in 1 .. Len(s) - 1 |-> s[i + 1]]
<1>1. /\ Tail(s) \in Seq(S) /\ Len(Tail(s)) = Len(s) - 1
      /\ \A i \in 1 .. Len(s) - 1 : Tail(s)[i] = s[i + 1]
  BY HeadTailProperties
<1>2. Tail(s) \in [1 .. Len(s) - 1 -> S]
  BY <1>1, LenProperties
<1> QED BY <1>1, <1>2

Slot(i) == slots[(tail + i - 1) % Slots]

LEMMA ContentsIsSeq ==
  ASSUME TypeOK
  PROVE  /\ Contents \in Seq(Packets \cup {NoPacket})
         /\ Len(Contents) = count
         /\ \A i \in 1 .. count : Contents[i] = Slot(i)
<1>1. count \in Nat
  BY RingAssumption DEF TypeOK
<1>2. \A i \in 1 .. count : Slot(i) \in Packets \cup {NoPacket}
  <2> SUFFICES ASSUME NEW i \in 1 .. count PROVE Slot(i) \in Packets \cup {NoPacket}
    OBVIOUS
  <2>1. tail \in Indexes /\ i - 1 \in 0 .. Slots
    BY <1>1, RingAssumption DEF TypeOK
  <2>2. (tail + (i - 1)) % Slots \in Indexes
    BY <2>1, PositionOf
  <2>3. tail + (i - 1) = tail + i - 1
    BY <2>1 DEF Indexes
  <2> QED BY <2>2, <2>3 DEF TypeOK, Slot
<1>3. Contents = [i \in 1 .. count |-> Slot(i)]
  BY DEF Contents, Slot
<1> QED BY <1>1, <1>2, <1>3

\* A push on a ring that is not full appends.
LEMMA PushAppends ==
  ASSUME TypeOK, Synced, TypeOK', NEW p \in Packets, Push(p), count # Slots
  PROVE  Contents' = Append(Contents, p)
<1>0. /\ tail \in Indexes /\ count \in 0 .. Slots /\ count < Slots
      /\ slots \in [Indexes -> Packets \cup {NoPacket}] /\ head \in Indexes
  BY RingAssumption DEF TypeOK
<1>1. /\ count' = count + 1 /\ tail' = tail
      /\ slots' = [slots EXCEPT ![head] = p]
  BY DEF Push
<1>2. slots'[(tail' + (count + 1) - 1) % Slots] = p
  <2>1. tail' + (count + 1) - 1 = tail + count
    BY <1>0, <1>1 DEF Indexes
  <2>2. slots'[head] = p
    BY <1>0, <1>1
  <2> QED BY <2>1, <2>2 DEF Synced
<1>3. ASSUME NEW i \in 1 .. count PROVE Slot(i)' = Slot(i)
  <2>1. i - 1 \in 0 .. Slots /\ i - 1 < count /\ i \in Int
    BY <1>0, RingAssumption
  <2>2. tail + i - 1 = tail + (i - 1)
    BY <1>0, <2>1 DEF Indexes
  <2>3. /\ (tail + (i - 1)) % Slots \in Indexes
        /\ (tail + (i - 1)) % Slots =
             IF tail + (i - 1) < Slots THEN tail + (i - 1) ELSE tail + (i - 1) - Slots
    BY <1>0, <2>1, PositionOf
  <2>4. head = IF tail + count < Slots THEN tail + count ELSE tail + count - Slots
    BY <1>0, PositionOf DEF Synced
  <2>5. (tail + (i - 1)) % Slots # head
    BY <1>0, <2>1, <2>3, <2>4, RingAssumption DEF Indexes
  <2> QED BY <1>0, <1>1, <2>2, <2>3, <2>5 DEF Slot
<1>4. Contents' = [i \in 1 .. count + 1 |-> IF i = count + 1 THEN p ELSE Contents[i]]
  <2>1. Contents' = [i \in 1 .. count + 1 |-> slots'[(tail' + i - 1) % Slots]]
    BY <1>1 DEF Contents
  <2>2. ASSUME NEW i \in 1 .. count + 1
        PROVE  slots'[(tail' + i - 1) % Slots] = IF i = count + 1 THEN p ELSE Contents[i]
    <3>1. CASE i = count + 1
      BY <1>2, <3>1
    <3>2. CASE i # count + 1
      <4>1. i \in 1 .. count
        BY <1>0, <3>2
      <4> QED BY <3>2, <4>1, <1>3, ContentsIsSeq DEF Slot
    <3> QED BY <3>1, <3>2
  <2> QED BY <2>1, <2>2
<1>5. Len(Contents) = count /\ Contents \in Seq(Packets \cup {NoPacket})
  BY ContentsIsSeq
<1>6. Append(Contents, p)
        = [i \in 1 .. count + 1 |-> IF i = count + 1 THEN p ELSE Contents[i]]
  <2>1. count + 1 \in Nat /\ p \in Packets \cup {NoPacket}
    BY <1>0
  <2> QED BY <1>5, <2>1, AppendIs
<1> QED BY <1>4, <1>6

\* Advancing the tail drops the oldest packet and shifts the others.
LEMMA ShiftedSlot ==
  ASSUME TypeOK, count # 0, tail' = Following(tail), NEW i \in 1 .. count - 1
  PROVE  /\ (tail' + i - 1) % Slots = (tail + (i + 1) - 1) % Slots
         /\ (tail' + i - 1) % Slots \in Indexes
<1>0. /\ tail \in Indexes /\ count \in 0 .. Slots /\ i \in Int
      /\ Following(tail) \in Indexes
      /\ Following(tail) = IF tail + 1 = Slots THEN 0 ELSE tail + 1
  BY FollowingWraps DEF TypeOK
<1>1. i - 1 \in 0 .. Slots /\ i \in 0 .. Slots
  BY <1>0, RingAssumption
<1>2. /\ (tail' + (i - 1)) % Slots \in Indexes
      /\ (tail' + (i - 1)) % Slots =
           IF tail' + (i - 1) < Slots THEN tail' + (i - 1) ELSE tail' + (i - 1) - Slots
  BY <1>0, <1>1, PositionOf
<1>3. (tail + i) % Slots = IF tail + i < Slots THEN tail + i ELSE tail + i - Slots
  BY <1>0, <1>1, PositionOf
<1>4. tail' + (i - 1) = tail' + i - 1 /\ tail + i = tail + (i + 1) - 1
  BY <1>0 DEF Indexes
<1>5. (tail' + (i - 1)) % Slots = (tail + i) % Slots
  BY <1>0, <1>1, <1>2, <1>3, RingAssumption DEF Indexes
<1> QED BY <1>2, <1>4, <1>5

\* The oldest packet is the one at the tail.
LEMMA HeadIsTail ==
  ASSUME TypeOK, count # 0
  PROVE  Contents # <<>> /\ Head(Contents) = slots[tail]
<1>1. count \in Nat /\ tail \in Indexes /\ 1 \in 1 .. count
  BY RingAssumption DEF TypeOK
<1>2. tail + 1 - 1 = tail /\ tail + 0 = tail /\ 0 \in 0 .. Slots
  BY <1>1, RingAssumption DEF Indexes
<1>3. tail % Slots = tail
  <2>1. (tail + 0) % Slots = IF tail + 0 < Slots THEN tail + 0 ELSE tail + 0 - Slots
    BY <1>1, <1>2, PositionOf
  <2> QED BY <1>1, <1>2, <2>1, RingAssumption DEF Indexes
<1>4. Contents[1] = slots[tail]
  BY <1>1, <1>2, <1>3, ContentsIsSeq DEF Slot
<1>5. Contents # <<>>
  BY <1>1, ContentsIsSeq, EmptySeq
<1> QED BY <1>4, <1>5, ContentsIsSeq

LEMMA PopShifts ==
  ASSUME TypeOK, Pop
  PROVE  /\ Contents # <<>>
         /\ result' = Head(Contents)
         /\ Contents' = Tail(Contents)
<1>1. /\ count # 0 /\ tail' = Following(tail) /\ count' = count - 1
      /\ slots' = slots /\ result' = slots[tail] /\ count \in Nat
  BY RingAssumption DEF Pop, TypeOK
<1>2. \A i \in 1 .. count - 1 : Slot(i)' = Contents[i + 1]
  <2> SUFFICES ASSUME NEW i \in 1 .. count - 1 PROVE Slot(i)' = Contents[i + 1]
    OBVIOUS
  <2>1. i + 1 \in 1 .. count
    BY <1>1
  <2> QED BY <1>1, <2>1, ShiftedSlot, ContentsIsSeq DEF Slot
<1>3. Contents' = [i \in 1 .. count - 1 |-> Slot(i)']
  BY <1>1 DEF Contents, Slot
<1>4. Contents' = [i \in 1 .. count - 1 |-> Contents[i + 1]]
  BY <1>2, <1>3
<1>5. Contents # <<>> /\ Head(Contents) = slots[tail]
  BY <1>1, HeadIsTail
<1>6. Len(Contents) = count /\ Contents \in Seq(Packets \cup {NoPacket})
  BY ContentsIsSeq
<1>7. Tail(Contents) = [i \in 1 .. count - 1 |-> Contents[i + 1]]
  BY <1>5, <1>6, TailIs
<1> QED BY <1>1, <1>4, <1>5, <1>7

\* A push on a full ring drops the oldest packet and appends.
LEMMA PushOverwrites ==
  ASSUME TypeOK, Synced, NEW p \in Packets, Push(p), count = Slots
  PROVE  Contents' = Append(Tail(Contents), p)
<1>0. /\ tail \in Indexes /\ Slots \in Nat /\ Slots # 0 /\ head \in Indexes
      /\ slots \in [Indexes -> Packets \cup {NoPacket}]
      /\ Following(tail) \in Indexes
      /\ Following(tail) = IF tail + 1 = Slots THEN 0 ELSE tail + 1
  BY RingAssumption, FollowingWraps DEF TypeOK
<1>1. /\ count' = Slots /\ tail' = Following(tail)
      /\ slots' = [slots EXCEPT ![head] = p]
  BY DEF Push
<1>2. head = tail
  <2>1. (tail + Slots) % Slots =
          IF tail + Slots < Slots THEN tail + Slots ELSE tail + Slots - Slots
    BY <1>0, PositionOf
  <2> QED BY <1>0, <2>1 DEF Synced, Indexes
<1>3. Slot(Slots)' = p
  <2>1. Slots - 1 \in 0 .. Slots /\ tail' + Slots - 1 = tail' + (Slots - 1)
    BY <1>0, <1>1 DEF Indexes
  <2>2. (tail' + (Slots - 1)) % Slots =
          IF tail' + (Slots - 1) < Slots
            THEN tail' + (Slots - 1) ELSE tail' + (Slots - 1) - Slots
    BY <1>0, <1>1, <2>1, PositionOf
  <2>3. (tail' + (Slots - 1)) % Slots = head
    BY <1>0, <1>1, <1>2, <2>2 DEF Indexes
  <2> QED BY <1>0, <1>1, <2>1, <2>3 DEF Slot
<1>4. \A i \in 1 .. Slots - 1 : Slot(i)' = Contents[i + 1]
  <2> SUFFICES ASSUME NEW i \in 1 .. Slots - 1 PROVE Slot(i)' = Contents[i + 1]
    OBVIOUS
  <2>1. i + 1 \in 1 .. count /\ i \in 1 .. count - 1
    BY <1>0
  <2>2. /\ (tail' + i - 1) % Slots = (tail + (i + 1) - 1) % Slots
        /\ (tail' + i - 1) % Slots \in Indexes
    BY <1>0, <1>1, <2>1, ShiftedSlot
  <2>3. (tail' + (i - 1)) % Slots # head
    <3>1. i - 1 \in 0 .. Slots /\ i \in Int /\ i < Slots /\ i > 0
      BY <1>0
    <3>2. (tail' + (i - 1)) % Slots =
            IF tail' + (i - 1) < Slots
              THEN tail' + (i - 1) ELSE tail' + (i - 1) - Slots
      BY <1>0, <1>1, <3>1, PositionOf
    <3> QED BY <1>0, <1>1, <1>2, <3>1, <3>2 DEF Indexes
  <2>4. tail' + (i - 1) = tail' + i - 1
    BY <1>0, <1>1 DEF Indexes
  <2>5. slots'[(tail' + i - 1) % Slots] = slots[(tail' + i - 1) % Slots]
    BY <1>0, <1>1, <2>2, <2>3, <2>4
  <2> QED BY <2>1, <2>2, <2>5, ContentsIsSeq DEF Slot
<1>5. Contents' = [i \in 1 .. Slots |-> Slot(i)']
  BY <1>1 DEF Contents, Slot
<1>6. Contents' = [i \in 1 .. Slots |-> IF i = Slots THEN p ELSE Contents[i + 1]]
  <2>1. \A i \in 1 .. Slots : Slot(i)' = IF i = Slots THEN p ELSE Contents[i + 1]
    BY <1>0, <1>3, <1>4
  <2> QED BY <1>5, <2>1
<1>7. /\ Tail(Contents) \in Seq(Packets \cup {NoPacket})
      /\ Len(Tail(Contents)) = Slots - 1
      /\ \A i \in 1 .. Slots - 1 : Tail(Contents)[i] = Contents[i + 1]
  <2>1. /\ Contents \in Seq(Packets \cup {NoPacket}) /\ Len(Contents) = Slots
        /\ Contents # <<>>
    BY <1>0, ContentsIsSeq, HeadIsTail
  <2> QED BY <2>1, HeadTailProperties
<1>8. Append(Tail(Contents), p)
        = [i \in 1 .. Slots |-> IF i = Slots THEN p ELSE Tail(Contents)[i]]
  <2>1. Slots = Len(Tail(Contents)) + 1 /\ p \in Packets \cup {NoPacket}
    BY <1>0, <1>7
  <2>2. \A s \in Seq(Packets \cup {NoPacket}) : Slots = Len(s) + 1 =>
          Append(s, p) = [i \in 1 .. Slots |-> IF i = Slots THEN p ELSE s[i]]
    BY <1>0, <2>1, AppendIs
  <2> QED BY <1>7, <2>1, <2>2
<1>9. \A i \in 1 .. Slots : (IF i = Slots THEN p ELSE Tail(Contents)[i])
                              = IF i = Slots THEN p ELSE Contents[i + 1]
  BY <1>0, <1>7
<1> QED BY <1>6, <1>8, <1>9

LEMMA RefinementStep ==
  ASSUME TypeOK, Synced, TypeOK', [Next]_vars
  PROVE  [Queue!Next]_<<Contents, overflow, result>>
<1>0. Len(Contents) = count /\ (count = 0 <=> Contents = <<>>)
  BY ContentsIsSeq, EmptySeq
<1>1. ASSUME NEW p \in Packets, Push(p) PROVE Queue!Push(p)
  <2>1. CASE count = Slots
    BY <1>0, <1>1, <2>1, PushOverwrites DEF Push, Queue!Push
  <2>2. CASE count # Slots
    BY <1>0, <1>1, <2>2, PushAppends DEF Push, Queue!Push
  <2> QED BY <2>1, <2>2
<1>2. Pop => Queue!Pop
  BY PopShifts DEF Pop, Queue!Pop
<1>3. PopEmpty => Queue!PopEmpty
  <2> SUFFICES ASSUME PopEmpty PROVE Queue!PopEmpty
    OBVIOUS
  <2>1. count = 0 /\ result' = NoPacket /\ UNCHANGED <<slots, tail, count, overflow>>
    BY DEF PopEmpty
  <2>2. Contents' = Contents
    BY <2>1 DEF Contents
  <2> QED BY <1>0, <2>1, <2>2 DEF Queue!PopEmpty
<1>4. Drain => Queue!Drain
  BY DEF Drain, Queue!Drain, Contents
<1>5. UNCHANGED vars => UNCHANGED <<Contents, overflow, result>>
  BY DEF vars, Contents
<1> QED BY <1>1, <1>2, <1>3, <1>4, <1>5 DEF Next, Queue!Next

\* The ring behaves as a queue of bounded length that drops its oldest packet
\* to make room, and counts what it drops.
THEOREM CircBufDropsOldest == Spec => DropsOldest
<1>1. Init => Queue!Init
  <2> SUFFICES ASSUME Init PROVE Contents = <<>>
    BY DEF Init, Queue!Init
  <2> QED BY DEF Init, Contents
<1>2. TypeOK /\ Synced /\ TypeOK' /\ [Next]_vars
        => [Queue!Next]_<<Contents, overflow, result>>
  BY RefinementStep
<1> QED
  BY <1>1, <1>2, CircBufTypeCorrect, CircBufSynced, PTL
     DEF Spec, DropsOldest, Queue!Spec
-----------------------------------------------------------------------------
(* The ring under the interrupt.                                             *)

\* A pop that has begun holds a count that is not 0, and so does the ring: the
\* interrupt only adds to it.
Begun == pc # "empty?" => count > 0 /\ countReg > 0

TypeInv == IrqTypeOK /\ Begun

LEMMA IrqTypeInductive == TypeInv /\ [IrqNext]_irqVars => TypeInv'
<1> SUFFICES ASSUME TypeInv, [IrqNext]_irqVars PROVE TypeInv'
  OBVIOUS
<1> USE DEF TypeInv, IrqTypeOK, Begun, Numbers, PopPoints
<1>0. Slots \in Nat \ {0} /\ MaxPushes \in Nat
  BY CircBufIrqAssumption, RingAssumption
<1>1. /\ Following(head) \in Indexes
      /\ Following(tail) \in Indexes
      /\ Following(tailReg) \in Indexes
  BY FollowingWraps
<1>2. IrqPush => TypeInv'
  <2> SUFFICES ASSUME IrqPush PROVE TypeInv'
    OBVIOUS
  <2>1. /\ count' \in 0 .. Slots /\ tail' \in Indexes
        /\ count > 0 => count' > 0
    BY <1>0, <1>1 DEF IrqPush, Store
  <2>2. pushed' \in 0 .. MaxPushes
    BY <1>0 DEF IrqPush, Store
  <2>3. slots' \in [Indexes -> 0 .. MaxPushes]
    BY <1>0, <2>2 DEF IrqPush, Store
  <2> QED BY <1>1, <2>1, <2>2, <2>3 DEF IrqPush, Store, pop
<1>3. PopStart /\ UNCHANGED pushed => TypeInv'
  BY <1>0 DEF PopStart, ringVars
<1>4. PopCopy /\ UNCHANGED pushed => TypeInv'
  BY DEF PopCopy, ringVars
<1>5. PopCopyRest /\ UNCHANGED pushed => TypeInv'
  BY DEF PopCopyRest, ringVars
<1>6. PopReload /\ UNCHANGED pushed => TypeInv'
  BY DEF PopReload, ringVars
<1>7. PopStoreTail /\ UNCHANGED pushed => TypeInv'
  BY <1>1 DEF PopStoreTail
<1>8. PopReloadCount /\ UNCHANGED pushed => TypeInv'
  BY DEF PopReloadCount, ringVars
<1>9. PopStoreCount(0) /\ UNCHANGED pushed => TypeInv'
  BY <1>0, 0 \in Indexes DEF PopStoreCount, Indexes
<1>10. UNCHANGED irqVars => TypeInv'
  BY DEF irqVars, ringVars, pop
<1> QED BY <1>2, <1>3, <1>4, <1>5, <1>6, <1>7, <1>8, <1>9, <1>10 DEF IrqNext, PopStep, PopSteps

LEMMA IrqInitTypes == IrqInit => TypeInv
<1>1. Slots \in Nat \ {0} /\ MaxPushes \in Nat
  BY CircBufIrqAssumption, RingAssumption
<1> QED BY <1>1 DEF IrqInit, RingIrqInit, TypeInv, IrqTypeOK, Begun, Numbers, PopPoints, Indexes

\* Indices and the 16-bit count of the ring (circ_buf.h) stay in range under
\* the wireless interrupt, so no pop reads outside the array.
THEOREM IrqTypeCorrect == IrqSpec => []IrqTypeOK
<1>1. TypeInv => IrqTypeOK
  BY DEF TypeInv
<1> QED BY <1>1, IrqInitTypes, IrqTypeInductive, PTL DEF IrqSpec

-----------------------------------------------------------------------------
\* Once the head has gone round, every slot has been written.  Until then the
\* ring has never been full, so the interrupt leaves the tail alone, and the
\* tail is the number of pops: what is counted was pushed and not yet popped.
\* Between its two stores a pop counts its packet once too often.

Written == \A i \in Indexes : i < pushed \/ pushed >= Slots => slots[i] # 0

Excess == IF pc \in {"reloadCount", "storeCount"} THEN 1 ELSE 0

FirstRound ==
  pushed < Slots =>
    /\ head = pushed
    /\ tail + count <= pushed + Excess
    /\ countReg <= count \/ pc = "empty?"
    /\ pc \in {"copy", "copyRest", "reload", "storeTail"} => tailReg = tail

Copied ==
  /\ pc = "copyRest" => out[1] # 0
  /\ NoPhantom

WriteInv == Written /\ FirstRound /\ Copied

\* The slot a pop copies has been written.
LEMMA TailWritten ==
  ASSUME TypeInv, WriteInv, pc \in {"copy", "copyRest"}
  PROVE  slots[tailReg] # 0
<1>1. tailReg \in Indexes /\ count > 0 /\ tail \in Nat /\ pushed \in Nat /\ Slots \in Nat
  BY CircBufIrqAssumption, RingAssumption DEF TypeInv, IrqTypeOK, Begun, Indexes, Numbers
<1>2. tailReg < pushed \/ pushed >= Slots
  BY <1>1 DEF WriteInv, FirstRound, Excess, TypeInv, IrqTypeOK
<1> QED BY <1>1, <1>2 DEF WriteInv, Written

LEMMA PushWrites == TypeInv /\ WriteInv /\ IrqPush => WriteInv'
<1> SUFFICES ASSUME TypeInv, WriteInv, IrqPush PROVE WriteInv'
  OBVIOUS
<1>0. /\ Slots \in Nat \ {0} /\ head \in Indexes /\ tail \in Indexes
      /\ count \in 0 .. Slots /\ pushed \in Nat /\ pushed' = pushed + 1
      /\ countReg \in 0 .. Slots /\ slots \in [Indexes -> Numbers]
  BY CircBufIrqAssumption, RingAssumption DEF TypeInv, IrqTypeOK, Numbers, IrqPush
<1>1. \A i \in Indexes : slots'[i] = IF i = head THEN pushed + 1 ELSE slots[i]
  BY <1>0 DEF IrqPush, Store
<1>2. Written'
  <2> SUFFICES ASSUME NEW i \in Indexes, i < pushed + 1 \/ pushed + 1 >= Slots
               PROVE  slots'[i] # 0
    BY <1>0 DEF Written
  <2>1. CASE i = head
    BY <1>0, <1>1, <2>1
  <2>2. CASE i # head
    <3>1. i < pushed \/ pushed >= Slots
      BY <1>0, <2>2 DEF WriteInv, FirstRound, Indexes
    <3> QED BY <1>1, <2>2, <3>1 DEF WriteInv, Written
  <2> QED BY <2>1, <2>2
<1>3. FirstRound'
  <2> SUFFICES ASSUME pushed + 1 < Slots PROVE FirstRound'
    BY <1>0 DEF FirstRound
  <2>1. /\ head = pushed /\ tail + count <= pushed + Excess
        /\ countReg <= count \/ pc = "empty?"
        /\ pc \in {"copy", "copyRest", "reload", "storeTail"} => tailReg = tail
    BY <1>0 DEF WriteInv, FirstRound
  <2>2. count # Slots /\ Excess' = Excess /\ UNCHANGED <<pc, tailReg, countReg>>
    BY <1>0, <2>1 DEF IrqPush, Store, pop, Excess, Indexes
  <2>3. head' = pushed + 1 /\ count' = count + 1 /\ tail' = tail
    BY <1>0, <2>1, <2>2, FollowingWraps DEF IrqPush, Store
  <2>4. tail' + count' <= pushed' + Excess'
    BY <1>0, <2>1, <2>2, <2>3 DEF Indexes, Excess
  <2>5. countReg' <= count' \/ pc' = "empty?"
    BY <1>0, <2>1, <2>2, <2>3
  <2> QED BY <1>0, <2>1, <2>2, <2>3, <2>4, <2>5 DEF FirstRound
<1>4. Copied'
  BY DEF IrqPush, Store, pop, WriteInv, Copied, NoPhantom
<1> QED BY <1>2, <1>3, <1>4 DEF WriteInv

LEMMA PopWrites == TypeInv /\ WriteInv /\ PopStep => WriteInv'
<1> SUFFICES ASSUME TypeInv, WriteInv, PopStep PROVE WriteInv'
  OBVIOUS
<1>0. /\ Slots \in Nat \ {0} /\ tail \in Indexes /\ tailReg \in Indexes
      /\ count \in 0 .. Slots /\ pushed \in Nat /\ countReg \in 0 .. Slots
      /\ pc # "empty?" => count > 0 /\ countReg > 0
  BY CircBufIrqAssumption, RingAssumption DEF TypeInv, IrqTypeOK, Begun, Numbers
<1>1. Written'
  BY DEF WriteInv, Written, PopStep, PopSteps, PopStart, PopCopy, PopCopyRest, PopReload,
         PopStoreTail, PopReloadCount, PopStoreCount, ringVars
<1>2. Copied'
  <2>1. PopCopy => Copied'
    BY TailWritten DEF PopCopy, Copied, NoPhantom, TypeInv, IrqTypeOK
  <2>2. PopCopyRest => Copied'
    BY TailWritten DEF PopCopyRest, Copied, NoPhantom, WriteInv, TypeInv, IrqTypeOK
  <2>3. PopStart \/ PopReload \/ PopStoreTail \/ PopReloadCount \/ PopStoreCount(0) => Copied'
    BY DEF PopStart, PopReload, PopStoreTail, PopReloadCount, PopStoreCount, Copied,
           NoPhantom
  <2> QED BY <2>1, <2>2, <2>3 DEF PopStep, PopSteps
<1>3. FirstRound'
  <2>1. UNCHANGED <<head, pushed>>
    BY DEF PopStep, PopSteps, PopStart, PopCopy, PopCopyRest, PopReload, PopStoreTail,
           PopReloadCount, PopStoreCount, ringVars
  <2> SUFFICES ASSUME pushed < Slots PROVE FirstRound'
    BY <2>1 DEF FirstRound
  <2>2. /\ head = pushed /\ tail + count <= pushed + Excess
        /\ countReg <= count \/ pc = "empty?"
        /\ pc \in {"copy", "copyRest", "reload", "storeTail"} => tailReg = tail
    BY DEF WriteInv, FirstRound
  <2>3. PopStart \/ PopCopy \/ PopCopyRest \/ PopReload => FirstRound'
    BY <1>0, <2>1, <2>2
       DEF PopStart, PopCopy, PopCopyRest, PopReload, FirstRound, Excess, ringVars
  <2>4. PopStoreTail => FirstRound'
    <3> SUFFICES ASSUME PopStoreTail PROVE FirstRound'
      OBVIOUS
    <3>1. tailReg = tail /\ tail + count <= pushed /\ Excess' = 1
      BY <1>0, <2>2 DEF PopStoreTail, Excess
    <3>2. tail' = tail + 1
      <4>1. tail + 1 < Slots
        BY <1>0, <3>1 DEF PopStoreTail, Indexes
      <4> QED BY <1>0, <3>1, <4>1, FollowingWraps DEF PopStoreTail
    <3> QED BY <1>0, <2>1, <2>2, <3>1, <3>2 DEF PopStoreTail, FirstRound, Indexes
  <2>5. PopReloadCount => FirstRound'
    BY <1>0, <2>1, <2>2 DEF PopReloadCount, FirstRound, Excess, ringVars
  <2>6. PopStoreCount(0) => FirstRound'
    BY <1>0, <2>1, <2>2 DEF PopStoreCount, FirstRound, Excess, Indexes
  <2> QED BY <2>3, <2>4, <2>5, <2>6 DEF PopStep, PopSteps
<1> QED BY <1>1, <1>2, <1>3 DEF WriteInv

\* The drain loop never hands out a slot that no packet was pushed into
\* (circ_buf_pop under nifi_rx_handler), whatever updates are lost.
THEOREM NothingUnwritten == IrqSpec => []NoPhantom
<1>1. IrqInit => WriteInv
  BY CircBufIrqAssumption, RingAssumption
     DEF IrqInit, RingIrqInit, WriteInv, Written, FirstRound, Excess, Copied, NoPhantom, Indexes
<1>2. TypeInv /\ WriteInv /\ [IrqNext]_irqVars => WriteInv'
  <2>1. UNCHANGED irqVars /\ WriteInv => WriteInv'
    BY DEF irqVars, ringVars, pop, WriteInv, Written, FirstRound, Excess, Copied, NoPhantom
  <2> QED BY <2>1, PushWrites, PopWrites DEF IrqNext
<1>3. WriteInv => NoPhantom
  BY DEF WriteInv, Copied
<1> QED BY <1>1, <1>2, <1>3, IrqInitTypes, IrqTypeInductive, PTL DEF IrqSpec
=============================================================================
