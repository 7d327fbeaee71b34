-------------------------- MODULE TelemetryProofs ---------------------------
(***************************************************************************)
(* No key hangs, signed input is applied in order, the picture jumps only  *)
(* in keyframes and what is sent is well formed, whatever the rows,        *)
(* outputs, keys and settings, and however long the network's queue.       *)
(***************************************************************************)
EXTENDS Telemetry, Integers, SequenceTheorems, Recursion

\* What an injection leaves pressed is among the keys of the new outputs,
\* when it was among those of the old: a key pressed either stays asked for,
\* or is the key of an output that is released.
LEMMA InjectKeeps ==
  ASSUME NEW s, NoHangingKey, Inject(s)
  PROVE  NoHangingKey'
<1> SUFFICES ASSUME NEW k \in down' PROVE k \in Bound(Active(s.out))
  BY DEF NoHangingKey, Inject, Bound, Active
<1>1. CASE k \in Bound(Active(s.out) \ Active(prev))
  BY <1>1 DEF Bound
<1>2. CASE k \in down /\ k \notin Bound(Active(prev) \ Active(s.out))
  <2>1. PICK v \in Active(prev) : k = KeyOf[v]
    BY <1>2 DEF NoHangingKey, Bound
  <2>2. v \in Active(s.out)
    BY <1>2, <2>1 DEF Bound
  <2> QED BY <2>1, <2>2 DEF Bound
<1> QED BY <1>1, <1>2 DEF Inject

\* Of all the steps only a snapshot's being applied touches the keys.
LEMMA NoHangingStep == NoHangingKey /\ [Next]_vars => NoHangingKey'
<1> SUFFICES ASSUME NoHangingKey, [Next]_vars PROVE NoHangingKey'
  OBVIOUS
<1>1. ASSUME UNCHANGED <<prev, down>> PROVE NoHangingKey'
  BY <1>1 DEF NoHangingKey, Bound, Active
<1>2. ASSUME NEW i \in 1 .. NetCap, NEW copied \in BOOLEAN, HostReceive(i, copied)
      PROVE  NoHangingKey'
  <2>1. CASE Verify(net[i])
    BY <1>2, <2>1, InjectKeeps DEF HostReceive, Apply
  <2>2. CASE ~Verify(net[i])
    BY <1>1, <1>2, <2>2 DEF HostReceive, host
  <2> QED BY <2>1, <2>2
<1>3. Capture => UNCHANGED <<prev, down>>
  BY DEF Capture
<1>4. Connect \/ ToggleHmac \/ DsInput \/ DsRestart \/ Lose => UNCHANGED <<prev, down>>
  BY DEF Connect, ToggleHmac, DsInput, DsFrame, DsRestart, Lose, host
<1>5. ASSUME NEW row, NEW choice, Remap(row, choice) PROVE UNCHANGED <<prev, down>>
  BY <1>5 DEF Remap, host
<1>6. ASSUME NEW l, TurnLens(l) PROVE UNCHANGED <<prev, down>>
  BY <1>6 DEF TurnLens, host
<1>7. UNCHANGED vars => UNCHANGED <<prev, down>>
  BY DEF vars, host
<1> QED BY <1>1, <1>2, <1>3, <1>4, <1>5, <1>6, <1>7 DEF Next

\* No key hangs (input_inject_process), for any keys and any table of outputs,
\* even one that binds two outputs to one key.
THEOREM NoKeyHangs == Spec => []NoHangingKey
<1>1. Init => NoHangingKey
  BY DEF Init, NoHangingKey
<1> QED BY <1>1, NoHangingStep, PTL DEF Spec
-----------------------------------------------------------------------------
(***************************************************************************)
(* The order of signed snapshots.  In flight they are numbered upwards,    *)
(* below the DS's next number; and when the PC checks, those that are late *)
(* do not exceed the last number it has seen, which is then no longer 0.   *)
(***************************************************************************)

Sent(T) ==
  [signed : T, seq : Nat, out : T, key : T, lens : T, age : Ages]

Upwards(q) ==
  \A i, j \in 1 .. Len(q) :
    i < j /\ q[i].signed /\ q[j].signed => q[i].seq < q[j].seq

Below(q, n) == \A i \in 1 .. Len(q) : q[i].signed => q[i].seq < n

LateSeen(q, n) ==
  \A i \in 1 .. Len(q) :
    q[i].signed /\ q[i].age = "late" => n # 0 /\ q[i].seq <= n

OrderInv ==
  /\ hmacSeq \in Nat /\ lastSeen \in Nat
  /\ \E T : net \in Seq(Sent(T))
  /\ Upwards(net)
  /\ Below(net, hmacSeq)
  /\ checking => LateSeen(net, lastSeen)
  /\ InOrder

LEMMA RemoveAtIs ==
  ASSUME NEW S, NEW q \in Seq(S), NEW i \in 1 .. Len(q)
  PROVE  /\ RemoveAt(q, i) \in Seq(S)
         /\ Len(RemoveAt(q, i)) = Len(q) - 1
         /\ \A j \in 1 .. Len(q) - 1 :
              RemoveAt(q, i)[j] = q[IF j < i THEN j ELSE j + 1]
<1> DEFINE a == SubSeq(q, 1, i - 1)
           b == SubSeq(q, i + 1, Len(q))
<1>0. Len(q) \in Nat /\ i \in Nat /\ i > 0
  BY LenProperties
<1>1. /\ a \in Seq(S) /\ Len(a) = i - 1
      /\ \A j \in 1 .. i - 1 : a[j] = q[j]
  <2>1. \A j \in 1 .. i - 1 : q[j] \in S
    BY <1>0, ElementOfSeq
  <2>2. /\ a \in Seq(S)
        /\ Len(a) = IF 1 <= i - 1 THEN (i - 1) - 1 + 1 ELSE 0
        /\ \A j \in 1 .. (i - 1) - 1 + 1 : a[j] = q[1 + j - 1]
    BY <1>0, <2>1, 1 \in Int, i - 1 \in Int, SubSeqProperties
  <2> QED BY <1>0, <2>2
<1>2. /\ b \in Seq(S) /\ Len(b) = Len(q) - i
      /\ \A j \in 1 .. Len(q) - i : b[j] = q[i + j]
  <2>1. \A j \in i + 1 .. Len(q) : q[j] \in S
    BY <1>0, ElementOfSeq
  <2>2. /\ b \in Seq(S)
        /\ Len(b) = IF i + 1 <= Len(q) THEN Len(q) - (i + 1) + 1 ELSE 0
        /\ \A j \in 1 .. Len(q) - (i + 1) + 1 : b[j] = q[(i + 1) + j - 1]
    BY <1>0, <2>1, i + 1 \in Int, Len(q) \in Int, SubSeqProperties
  <2> QED BY <1>0, <2>2
<1> HIDE DEF a, b
<1>3. /\ a \o b \in Seq(S)
      /\ Len(a \o b) = Len(a) + Len(b)
      /\ \A j \in 1 .. Len(a) + Len(b) :
           (a \o b)[j] = IF j <= Len(a) THEN a[j] ELSE b[j - Len(a)]
  BY <1>1, <1>2, ConcatProperties
<1>4. RemoveAt(q, i) = a \o b
  BY DEF RemoveAt, a, b
<1>5. ASSUME NEW j \in 1 .. Len(q) - 1
      PROVE  (a \o b)[j] = q[IF j < i THEN j ELSE j + 1]
  <2>1. CASE j < i
    BY <1>0, <1>1, <1>2, <1>3, <2>1
  <2>2. CASE j >= i
    <3>1. j - (i - 1) \in 1 .. Len(q) - i /\ i + (j - (i - 1)) = j + 1
      BY <1>0, <2>2
    <3>2. b[j - (i - 1)] = q[j + 1]
      BY <1>2, <3>1
    <3>3. (a \o b)[j] = b[j - (i - 1)]
      BY <1>0, <1>1, <1>2, <1>3, <2>2
    <3>4. ~(j < i)
      BY <1>0, <2>2
    <3> QED BY <3>2, <3>3, <3>4
  <2>3. j < i \/ j >= i
    BY <1>0
  <2> QED BY <2>1, <2>2, <2>3
<1> QED BY <1>0, <1>1, <1>2, <1>3, <1>4, <1>5

\* Taking a snapshot out disturbs none of it.
LEMMA RemoveKeeps ==
  ASSUME NEW T, NEW q \in Seq(Sent(T)), NEW i \in 1 .. Len(q)
  PROVE  /\ Upwards(q) => Upwards(RemoveAt(q, i))
         /\ \A n : Below(q, n) => Below(RemoveAt(q, i), n)
         /\ \A n : LateSeen(q, n) => LateSeen(RemoveAt(q, i), n)
<1> DEFINE r == RemoveAt(q, i)
           from(j) == IF j < i THEN j ELSE j + 1
<1>0. Len(q) \in Nat /\ i \in Nat
  BY LenProperties
<1>1. Len(r) = Len(q) - 1 /\ \A j \in 1 .. Len(q) - 1 : r[j] = q[from(j)]
  BY RemoveAtIs
<1>2. \A j \in 1 .. Len(q) - 1 : from(j) \in 1 .. Len(q)
  BY <1>0
<1>3. \A j, k \in 1 .. Len(q) - 1 : j < k => from(j) < from(k)
  BY <1>0
<1> HIDE DEF r, from
<1>4. Upwards(q) => Upwards(r)
  BY <1>1, <1>2, <1>3 DEF Upwards
<1>5. \A n : Below(q, n) => Below(r, n)
  BY <1>1, <1>2 DEF Below
<1>6. \A n : LateSeen(q, n) => LateSeen(r, n)
  BY <1>1, <1>2 DEF LateSeen
<1> QED BY <1>4, <1>5, <1>6 DEF r

\* Ageing changes no number and no signature.
LEMMA AgedIs ==
  ASSUME NEW T, net \in Seq(Sent(T)), NEW i \in 1 .. Len(net)
  PROVE  /\ Aged(i) \in Seq(Sent(T)) /\ Len(Aged(i)) = Len(net)
         /\ \A j \in 1 .. Len(net) :
              /\ Aged(i)[j].signed = net[j].signed
              /\ Aged(i)[j].seq = net[j].seq
              /\ Aged(i)[j].age = IF j < i THEN "late" ELSE net[j].age
<1>0. Len(net) \in Nat
  BY LenProperties
<1>1. \A j \in 1 .. Len(net) : net[j] \in Sent(T)
  BY ElementOfSeq
<1>2. \A j \in 1 .. Len(net) :
        /\ Aged(i)[j] \in Sent(T)
        /\ Aged(i)[j].signed = net[j].signed
        /\ Aged(i)[j].seq = net[j].seq
        /\ Aged(i)[j].age = IF j < i THEN "late" ELSE net[j].age
  BY <1>1 DEF Aged, Sent, Ages
<1>3. Aged(i) \in [1 .. Len(net) -> Sent(T)]
  BY <1>2 DEF Aged
<1>4. Aged(i) \in Seq(Sent(T)) /\ Len(Aged(i)) = Len(net)
  BY <1>0, <1>3
<1> QED BY <1>2, <1>4

-----------------------------------------------------------------------------
\* A frame of the DS appends the highest number, or none.
LEMMA FrameInOrder ==
  ASSUME NEW rows, NEW key, OrderInv, DsFrame(rows, key)
  PROVE  OrderInv'
<1> USE DEF InOrder
<1>0. /\ UNCHANGED <<checking, lastSeen, lastAge>>
      /\ hmacSeq' \in Nat /\ hmacSeq' >= hmacSeq
      /\ signing /\ net' # net => hmacSeq' = hmacSeq + 1
  BY DEF DsFrame, host, OrderInv
<1>1. CASE net' = net
  <2>1. Below(net, hmacSeq')
    <3> SUFFICES ASSUME NEW i \in 1 .. Len(net), net[i].signed
                 PROVE  net[i].seq < hmacSeq'
      BY DEF Below
    <3>1. PICK T : net \in Seq(Sent(T))
      BY DEF OrderInv
    <3>2. net[i] \in Sent(T)
      BY <3>1, ElementOfSeq
    <3>3. net[i].seq \in Nat
      BY <3>2 DEF Sent
    <3> QED BY <1>0, <3>3 DEF OrderInv, Below
  <2> QED BY <1>0, <1>1, <2>1 DEF OrderInv, Upwards, Below, LateSeen
<1>2. CASE net' # net
  <2> DEFINE s == [signed |-> signing, seq |-> IF signing THEN hmacSeq ELSE 0,
                   out |-> Evaluate(rows), key |-> key, lens |-> lens,
                   age |-> "new"]
  <2>1. net' = Append(net, s)
    BY <1>2 DEF DsFrame
  <2>2. PICK T : net \in Seq(Sent(T))
    BY DEF OrderInv
  <2> DEFINE U == T \cup {signing, Evaluate(rows), key, lens}
  <2>3. net \in Seq(Sent(U))
    <3>1. Sent(T) \subseteq Sent(U)
      BY DEF Sent
    <3> QED BY <2>2, <3>1, SeqMonotonic
  <2>9. s.signed = signing /\ (signing => s.seq = hmacSeq) /\ s.age = "new"
    OBVIOUS
  <2> HIDE DEF s, U
  <2>4. s \in Sent(U)
    BY DEF s, U, Sent, Ages, OrderInv
  <2>5. /\ net' \in Seq(Sent(U)) /\ Len(net') = Len(net) + 1
        /\ \A i \in 1 .. Len(net) : net'[i] = net[i]
        /\ net'[Len(net) + 1] = s
    BY <2>1, <2>3, <2>4, AppendProperties
  <2>6. Len(net) \in Nat /\ \A i \in 1 .. Len(net) : net[i].seq \in Nat
    <3>1. \A i \in 1 .. Len(net) : net[i] \in Sent(U)
      BY <2>3, ElementOfSeq
    <3> QED BY <2>3, <3>1, LenProperties DEF Sent
  <2>7. Upwards(net')
    <3> SUFFICES ASSUME NEW i \in 1 .. Len(net'), NEW j \in 1 .. Len(net'), i < j,
                        net'[i].signed, net'[j].signed
                 PROVE  net'[i].seq < net'[j].seq
      BY DEF Upwards
    <3>1. i \in 1 .. Len(net) /\ net'[i] = net[i]
      BY <2>5, <2>6
    <3>2. CASE j = Len(net) + 1
      BY <2>5, <2>9, <3>1, <3>2 DEF OrderInv, Below
    <3>3. CASE j # Len(net) + 1
      <4>1. j \in 1 .. Len(net) /\ net'[j] = net[j]
        BY <2>5, <2>6, <3>3
      <4> QED BY <3>1, <4>1 DEF OrderInv, Upwards
    <3> QED BY <3>2, <3>3
  <2>8. Below(net', hmacSeq')
    <3> SUFFICES ASSUME NEW i \in 1 .. Len(net'), net'[i].signed
                 PROVE  net'[i].seq < hmacSeq'
      BY DEF Below
    <3>1. CASE i = Len(net) + 1
      BY <1>0, <1>2, <2>5, <2>9, <3>1 DEF OrderInv
    <3>2. CASE i # Len(net) + 1
      <4>1. i \in 1 .. Len(net) /\ net'[i] = net[i]
        BY <2>5, <2>6, <3>2
      <4> QED BY <1>0, <2>6, <4>1 DEF OrderInv, Below
    <3> QED BY <3>1, <3>2
  <2>10. checking => LateSeen(net', lastSeen)
    <3> SUFFICES ASSUME checking, NEW i \in 1 .. Len(net'),
                        net'[i].signed, net'[i].age = "late"
                 PROVE  lastSeen # 0 /\ net'[i].seq <= lastSeen
      BY DEF LateSeen
    <3>1. i \in 1 .. Len(net) /\ net'[i] = net[i]
      BY <2>5, <2>6, <2>9
    <3> QED BY <3>1 DEF OrderInv, LateSeen
  <2>11. \E X : net' \in Seq(Sent(X))
    BY <2>5
  <2> QED BY <1>0, <2>7, <2>8, <2>10, <2>11 DEF OrderInv, LateSeen
<1> QED BY <1>1, <1>2

\* The PC applies a snapshot no smaller than those it passed over.
LEMMA ReceiveInOrder ==
  ASSUME NEW i, NEW copied \in BOOLEAN, OrderInv, HostReceive(i, copied)
  PROVE  OrderInv'
<1> DEFINE after == IF Verify(net[i]) THEN Aged(i) ELSE net
<1>0. /\ i \in 1 .. Len(net)
      /\ net' = IF copied THEN after ELSE RemoveAt(after, i)
      /\ UNCHANGED <<checking, hmacSeq>>
  BY DEF HostReceive, client, Apply, host
<1>1. PICK T : net \in Seq(Sent(T))
  BY DEF OrderInv
<1>2. Len(net) \in Nat /\ \A j \in 1 .. Len(net) : net[j].seq \in Nat
  <2>1. \A j \in 1 .. Len(net) : net[j] \in Sent(T)
    BY <1>1, ElementOfSeq
  <2> QED BY <1>1, <2>1, LenProperties DEF Sent
<1>3. /\ after \in Seq(Sent(T)) /\ Len(after) = Len(net)
      /\ \A j \in 1 .. Len(net) :
           after[j].signed = net[j].signed /\ after[j].seq = net[j].seq
  BY <1>0, <1>1, AgedIs
<1>4. Upwards(after) /\ Below(after, hmacSeq)
  <2>1. Upwards(after)
    BY <1>3 DEF OrderInv, Upwards
  <2>2. Below(after, hmacSeq)
    BY <1>3 DEF OrderInv, Below
  <2> QED BY <2>1, <2>2
<1>5. lastSeen' \in Nat /\ (checking => LateSeen(after, lastSeen')) /\ InOrder'
  <2>1. CASE ~Verify(net[i])
    BY <1>0, <2>1 DEF HostReceive, host, OrderInv, InOrder
  <2>2. CASE Verify(net[i]) /\ ~checking
    BY <1>0, <2>2 DEF HostReceive, Apply, OrderInv, InOrder
  <2>3. CASE Verify(net[i]) /\ checking
    <3>1. /\ lastSeen' = net[i].seq /\ lastAge' = net[i].age
          /\ net[i].signed /\ (net[i].seq > lastSeen \/ lastSeen = 0)
      BY <1>0, <1>2, <2>3 DEF HostReceive, Apply, Verify, OrderInv
    <3>2. net[i].age # "late"
      BY <1>0, <1>2, <2>3, <3>1 DEF OrderInv, LateSeen
    <3>3. LateSeen(after, net[i].seq)
      <4> SUFFICES ASSUME NEW j \in 1 .. Len(net), net[j].signed,
                          j < i \/ net[j].age = "late"
                   PROVE  net[i].seq # 0 /\ net[j].seq <= net[i].seq
        BY <1>0, <1>1, <1>3, <2>3, AgedIs DEF LateSeen
      <4>1. CASE j < i
        BY <1>0, <1>2, <3>1, <4>1 DEF OrderInv, Upwards
      <4>2. CASE net[j].age = "late"
        <5>1. lastSeen # 0 /\ net[j].seq <= lastSeen /\ lastSeen \in Nat
          BY <2>3, <4>2 DEF OrderInv, LateSeen
        <5>2. net[i].seq \in Nat /\ net[j].seq \in Nat
          BY <1>0, <1>2
        <5> QED BY <3>1, <5>1, <5>2
      <4> QED BY <4>1, <4>2
    <3> QED BY <1>0, <1>2, <3>1, <3>2, <3>3 DEF InOrder
  <2> QED BY <2>1, <2>2, <2>3
<1> HIDE DEF after
<1>6. /\ Upwards(net') /\ Below(net', hmacSeq)
      /\ checking => LateSeen(net', lastSeen')
      /\ net' \in Seq(Sent(T))
  <2>1. CASE copied
    BY <1>0, <1>3, <1>4, <1>5, <2>1
  <2>2. CASE ~copied
    BY <1>0, <1>3, <1>4, <1>5, <2>2, RemoveKeeps, RemoveAtIs
  <2> QED BY <2>1, <2>2
<1> QED BY <1>0, <1>5, <1>6 DEF OrderInv

LEMMA LoseInOrder == OrderInv /\ Lose => OrderInv'
<1> SUFFICES ASSUME OrderInv, Lose PROVE OrderInv'
  OBVIOUS
<1>1. PICK T : net \in Seq(Sent(T))
  BY DEF OrderInv
<1>2. /\ net' \in Seq(Sent(T)) /\ Len(net') = Len(net) - 1
      /\ \A i \in 1 .. Len(net') : net'[i] = net[i + 1]
  BY <1>1, HeadTailProperties DEF Lose
<1>3. Len(net) \in Nat
  BY <1>1, LenProperties
<1>4. \A i \in 1 .. Len(net') : i + 1 \in 1 .. Len(net)
  BY <1>2, <1>3
<1>5. UNCHANGED <<hmacSeq, lastSeen, checking, lastAge>>
  BY DEF Lose, client, host
<1>6. Upwards(net')
  <2> SUFFICES ASSUME NEW i \in 1 .. Len(net'), NEW j \in 1 .. Len(net'), i < j,
                      net'[i].signed, net'[j].signed
               PROVE  net'[i].seq < net'[j].seq
    BY DEF Upwards
  <2>1. i + 1 < j + 1
    BY <1>2, <1>3
  <2> QED BY <1>2, <1>4, <2>1 DEF OrderInv, Upwards
<1>7. Below(net', hmacSeq)
  BY <1>2, <1>4 DEF OrderInv, Below
<1>8. checking => LateSeen(net', lastSeen)
  BY <1>2, <1>4 DEF OrderInv, LateSeen
<1> QED BY <1>2, <1>5, <1>6, <1>7, <1>8 DEF OrderInv, InOrder

LEMMA OrderStep == OrderInv /\ [Next]_vars => OrderInv'
<1> SUFFICES ASSUME OrderInv, [Next]_vars PROVE OrderInv'
  OBVIOUS
<1>1. ASSUME UNCHANGED <<net, hmacSeq, lastSeen, checking, lastAge>> PROVE OrderInv'
  BY <1>1 DEF OrderInv, Upwards, Below, LateSeen, InOrder
<1>2. DsInput => OrderInv'
  BY FrameInOrder DEF DsInput
<1>3. ASSUME NEW i, NEW copied \in BOOLEAN, HostReceive(i, copied) PROVE OrderInv'
  BY <1>3, ReceiveInOrder
<1>4. Lose => OrderInv'
  BY LoseInOrder
<1>5. DsRestart => OrderInv'
  <2> SUFFICES ASSUME DsRestart PROVE OrderInv'
    OBVIOUS
  <2>1. /\ net' = net /\ Len(net) = 0 /\ hmacSeq' = 0
        /\ UNCHANGED <<lastSeen, checking, lastAge>>
    BY EmptySeq DEF DsRestart, host
  <2> QED BY <2>1 DEF OrderInv, Upwards, Below, LateSeen, InOrder
<1>6. Connect \/ ToggleHmac \/ Capture
        => UNCHANGED <<net, hmacSeq, lastSeen, checking, lastAge>>
  BY DEF Connect, ToggleHmac, Capture, client, host
<1>7. ASSUME NEW row, NEW choice, Remap(row, choice)
      PROVE  UNCHANGED <<net, hmacSeq, lastSeen, checking, lastAge>>
  BY <1>7 DEF Remap, host
<1>8. ASSUME NEW l, TurnLens(l)
      PROVE  UNCHANGED <<net, hmacSeq, lastSeen, checking, lastAge>>
  BY <1>8 DEF TurnLens, host
<1>9. UNCHANGED vars => UNCHANGED <<net, hmacSeq, lastSeen, checking, lastAge>>
  BY DEF vars, client, host
<1> QED BY <1>1, <1>2, <1>3, <1>4, <1>5, <1>6, <1>7, <1>8, <1>9 DEF Next

\* With --hmac a snapshot that a younger one overtook is never applied
\* (hmac_host_verify), for any number of snapshots in flight, lost, copied or
\* reordered, and any number of restarts of the DS.
THEOREM SignedInOrder == Spec => []InOrder
<1>1. Init => OrderInv
  <2> SUFFICES ASSUME Init PROVE OrderInv
    OBVIOUS
  <2>1. /\ net \in Seq(Sent({})) /\ Len(net) = 0 /\ hmacSeq = 0 /\ lastSeen = 0
        /\ lastAge = "new"
    BY EmptySeq DEF Init
  <2>2. \E T : net \in Seq(Sent(T))
    BY <2>1
  <2> QED BY <2>1, <2>2 DEF OrderInv, Upwards, Below, LateSeen, InOrder
<1>2. OrderInv => InOrder
  BY DEF OrderInv
<1> QED BY <1>1, <1>2, OrderStep, PTL DEF Spec
-----------------------------------------------------------------------------
\* A magnifier that is not the one of the last frame has a keyframe asked for,
\* whatever snapshots came since, and whatever the last of them asked.
LensAsked == force \in BOOLEAN /\ (hostLens # shownLens => force)

LEMMA LensAskedStep == LensAsked /\ [Next]_vars => LensAsked'
<1> SUFFICES ASSUME LensAsked, [Next]_vars PROVE LensAsked'
  OBVIOUS
<1>1. ASSUME UNCHANGED <<hostLens, shownLens, force>> PROVE LensAsked'
  BY <1>1 DEF LensAsked
<1>2. ASSUME NEW i, NEW copied \in BOOLEAN, HostReceive(i, copied) PROVE LensAsked'
  <2>1. CASE Verify(net[i])
    BY <1>2, <2>1 DEF HostReceive, Apply, PointLens, LensAsked
  <2>2. CASE ~Verify(net[i])
    BY <1>1, <1>2, <2>2 DEF HostReceive, host
  <2> QED BY <2>1, <2>2
<1>3. Capture => LensAsked'
  BY DEF Capture, LensAsked
<1>4. Connect \/ ToggleHmac \/ DsInput \/ DsRestart \/ Lose
        => UNCHANGED <<hostLens, shownLens, force>>
  BY DEF Connect, ToggleHmac, DsInput, DsFrame, DsRestart, Lose, host
<1>5. ASSUME NEW row, NEW choice, Remap(row, choice)
      PROVE  UNCHANGED <<hostLens, shownLens, force>>
  BY <1>5 DEF Remap, host
<1>6. ASSUME NEW l, TurnLens(l) PROVE UNCHANGED <<hostLens, shownLens, force>>
  BY <1>6 DEF TurnLens, host
<1>7. UNCHANGED vars => UNCHANGED <<hostLens, shownLens, force>>
  BY DEF vars, host
<1> QED BY <1>1, <1>2, <1>3, <1>4, <1>5, <1>6, <1>7 DEF Next

\* The first frame captured with another magnifier is a keyframe
\* (capture_set_magnifier, encoder_force_keyframe), for any settings and any
\* number of snapshots between two frames.
THEOREM MagnifierByKeyframe == Spec => LensByKeyframe
<1>1. Init => LensAsked
  BY DEF Init, LensAsked
<1>2. LensAsked /\ [Next]_vars => [shownLens' # shownLens => isKeyframe']_vars
  <2> SUFFICES ASSUME LensAsked, Next, shownLens' # shownLens PROVE isKeyframe'
    OBVIOUS
  <2>1. Capture => isKeyframe'
    <3> SUFFICES ASSUME Capture PROVE isKeyframe'
      OBVIOUS
    <3>1. force = TRUE
      BY DEF Capture, LensAsked
    <3>2. isKeyframe' = TRUE
      BY <3>1 DEF Capture
    <3> QED BY <3>2
  <2>2. ASSUME NEW i, NEW copied \in BOOLEAN, HostReceive(i, copied) PROVE FALSE
    BY <2>2 DEF HostReceive, Apply, host
  <2>3. ~(Connect \/ ToggleHmac \/ DsInput \/ DsRestart \/ Lose)
    BY DEF Connect, ToggleHmac, DsInput, DsFrame, DsRestart, Lose, host
  <2>4. ASSUME NEW row, NEW choice, Remap(row, choice) PROVE FALSE
    BY <2>4 DEF Remap, host
  <2>5. ASSUME NEW l, TurnLens(l) PROVE FALSE
    BY <2>5 DEF TurnLens, host
  <2> QED BY <2>1, <2>2, <2>3, <2>4, <2>5 DEF Next
<1> QED BY <1>1, <1>2, LensAskedStep, PTL DEF Spec, LensByKeyframe
-----------------------------------------------------------------------------
\* An output is added to a pair once, and the first place is filled first.
LEMMA AddUniqueIs ==
  ASSUME NEW pair \in OutputPairs, NEW output \in Outputs \cup {0}
  PROVE  AddUnique(pair, output) \in OutputPairs
<1>1. /\ pair = <<pair[1], pair[2]>>
      /\ pair[1] \in Outputs \cup {0} /\ pair[2] \in Outputs \cup {0}
      /\ pair[2] # 0 => pair[1] # 0 /\ pair[1] # pair[2]
  BY DEF OutputPairs
<1>2. CASE output \in {0, pair[1], pair[2]}
  BY <1>2 DEF AddUnique
<1>3. CASE output \notin {0, pair[1], pair[2]} /\ pair[1] = 0
  <2>1. AddUnique(pair, output) = <<output, pair[2]>> /\ pair[2] = 0
    BY <1>1, <1>3 DEF AddUnique
  <2> QED BY <2>1 DEF OutputPairs
<1>4. CASE output \notin {0, pair[1], pair[2]} /\ pair[1] # 0
  <2>1. AddUnique(pair, output) = IF pair[2] = 0 THEN <<pair[1], output>> ELSE pair
    BY <1>4 DEF AddUnique
  <2>2. <<pair[1], output>> \in OutputPairs
    BY <1>1, <1>4 DEF OutputPairs
  <2> QED BY <2>1, <2>2
<1> QED BY <1>2, <1>3, <1>4

LEMMA AddRowIs ==
  ASSUME NEW pair \in OutputPairs, NEW row \in OutputPairs
  PROVE  AddRow(pair, row) \in OutputPairs
<1>1. row[1] \in Outputs \cup {0} /\ row[2] \in Outputs \cup {0}
  BY DEF OutputPairs
<1> QED BY <1>1, AddUniqueIs DEF AddRow

\* The rows held give no output, one, or two different ones.
LEMMA EvaluateIs ==
  ASSUME table \in [1 .. Rows -> OutputPairs], NEW rows
  PROVE  Evaluate(rows) \in OutputPairs
<1> DEFINE pair[r \in 0 .. Rows] ==
             IF r = 0 THEN <<0, 0>>
             ELSE IF r \in rows THEN AddRow(pair[r - 1], table[r])
             ELSE pair[r - 1]
           step == [r \in 1 .. Rows |->
                      [p \in OutputPairs |->
                         IF r \in rows THEN AddRow(p, table[r]) ELSE p]]
<1>0. Rows \in Nat /\ <<0, 0>> \in OutputPairs
  BY TelemetryAssumption DEF OutputPairs
<1>1. step \in [1 .. Rows -> [OutputPairs -> OutputPairs]]
  BY AddRowIs
<1>2. \E f : f = [r \in 0 .. Rows |->
                    IF r = 0 THEN <<0, 0>>
                    ELSE IF r \in rows THEN AddRow(f[r - 1], table[r])
                    ELSE f[r - 1]]
  <2>1. PICK f : Follows(f, Rows, OutputPairs, <<0, 0>>, step)
    <3>1. step \in Steps(Rows, OutputPairs)
      BY <1>1 DEF Steps
    <3> HIDE DEF step
    <3> QED BY <1>0, <3>1, RecursiveExists
  <2>2. ASSUME NEW r \in 1 .. Rows
        PROVE  f[r] = IF r \in rows THEN AddRow(f[r - 1], table[r]) ELSE f[r - 1]
    <3>1. f[r - 1] \in OutputPairs /\ f[r] = step[r][f[r - 1]]
      BY <1>0, <2>1 DEF Follows
    <3> QED BY <3>1
  <2>3. f = [r \in 0 .. Rows |->
               IF r = 0 THEN <<0, 0>>
               ELSE IF r \in rows THEN AddRow(f[r - 1], table[r])
               ELSE f[r - 1]]
    BY <1>0, <2>1, <2>2 DEF Follows
  <2> QED BY <2>3
<1>3. pair = [r \in 0 .. Rows |->
                IF r = 0 THEN <<0, 0>>
                ELSE IF r \in rows THEN AddRow(pair[r - 1], table[r])
                ELSE pair[r - 1]]
  BY <1>2
<1>4. Evaluate(rows) = pair[Rows]
  BY DEF Evaluate
<1> HIDE DEF pair
<1>5. pair[0] \in OutputPairs
  BY <1>0, <1>3
<1>6. ASSUME NEW r \in 1 .. Rows, pair[r - 1] \in OutputPairs
      PROVE  pair[r] \in OutputPairs
  <2>1. pair[r] = IF r \in rows THEN AddRow(pair[r - 1], table[r]) ELSE pair[r - 1]
    BY <1>0, <1>3
  <2> QED BY <1>6, <2>1, AddRowIs
<1>7. \A r \in 0 .. Rows : pair[r] \in OutputPairs
  BY <1>0, <1>5, <1>6, RecursiveKeeps
<1> QED BY <1>0, <1>4, <1>7

LEMMA DefaultsTyped == Defaults \in [1 .. Rows -> OutputPairs]
<1>1. (Outputs \cup {0}) \X {0} \subseteq OutputPairs
  BY DEF OutputPairs
<1> QED BY <1>1, TelemetryAssumption

LEMMA InitTypes == Init => TypeOK
<1> SUFFICES ASSUME Init PROVE TypeOK
  OBVIOUS
<1>1. table \in [1 .. Rows -> OutputPairs]
  BY DefaultsTyped DEF Init
<1>2. lens \in Lenses
  BY TelemetryAssumption DEF Init
<1>3. net \in Seq(Snapshots) /\ Len(net) <= NetCap
  BY EmptySeq, TelemetryAssumption DEF Init
<1>4. prev \in OutputPairs
  BY DEF Init, OutputPairs
<1>5. hmacSeq \in 0 .. MaxSeq /\ lastSeen \in 0 .. MaxSeq /\ faults \in 0 .. MaxFaults
  BY TelemetryAssumption DEF Init
<1> QED BY <1>1, <1>2, <1>3, <1>4, <1>5 DEF Init, TypeOK, Ages

\* What the DS does keeps its own state and the network's in range.
LEMMA FrameTypes ==
  ASSUME TypeOK, NEW rows \in SUBSET (1 .. Rows), NEW key \in Typeable \cup {0},
         DsFrame(rows, key)
  PROVE  TypeOK'
<1> DEFINE s == [signed |-> signing, seq |-> IF signing THEN hmacSeq ELSE 0,
                 out |-> Evaluate(rows), key |-> key, lens |-> lens,
                 age |-> "new"]
<1>0. MaxSeq \in Nat /\ NetCap \in Nat /\ Len(net) \in Nat
  BY TelemetryAssumption, LenProperties DEF TypeOK
<1>1. s \in Snapshots
  <2>1. Evaluate(rows) \in OutputPairs
    BY EvaluateIs DEF TypeOK
  <2>2. (IF signing THEN hmacSeq ELSE 0) \in 0 .. MaxSeq
    BY <1>0 DEF TypeOK
  <2> QED BY <2>1, <2>2 DEF Snapshots, TypeOK, Ages
<1>2. hmacSeq' \in 0 .. MaxSeq
  BY <1>0 DEF DsFrame, TypeOK
<1>3. net' = net \/ (Len(net) # NetCap /\ net' = Append(net, s))
  BY DEF DsFrame
<1> HIDE DEF s
<1>4. net' \in Seq(Snapshots) /\ Len(net') <= NetCap
  <2>1. CASE net' = net
    BY <2>1 DEF TypeOK
  <2>2. CASE Len(net) # NetCap /\ net' = Append(net, s)
    <3>1. net' \in Seq(Snapshots) /\ Len(net') = Len(net) + 1
      BY <1>1, <2>2, AppendProperties DEF TypeOK
    <3> QED BY <1>0, <2>2, <3>1 DEF TypeOK
  <2> QED BY <1>3, <2>1, <2>2
<1>5. held' \subseteq 1 .. Rows
  BY DEF DsFrame
<1>6. UNCHANGED <<connected, table, lens, signing, faults, host>>
  BY DEF DsFrame
<1> QED BY <1>2, <1>4, <1>5, <1>6 DEF TypeOK, host, Bound

\* What is applied is a snapshot, so the PC's keys are bound ones.
LEMMA ApplyTypes ==
  ASSUME TypeOK, NEW s \in Snapshots, Apply(s)
  PROVE  /\ lastSeen' \in 0 .. MaxSeq /\ prev' \in OutputPairs
         /\ down' \subseteq Bound(Outputs)
         /\ hostLens' \in Lenses /\ shownLens' \in Lenses
         /\ force' \in BOOLEAN /\ isKeyframe' \in BOOLEAN /\ checking' \in BOOLEAN
         /\ lastAge' \in Ages
<1>1. lastSeen' \in 0 .. MaxSeq /\ prev' \in OutputPairs /\ lastAge' \in Ages
  BY DEF Apply, Inject, Snapshots, TypeOK
<1>2. /\ hostLens' \in Lenses /\ shownLens' \in Lenses
      /\ force' \in BOOLEAN /\ isKeyframe' \in BOOLEAN /\ checking' \in BOOLEAN
  BY DEF Apply, PointLens, Snapshots, TypeOK
<1>3. down' \subseteq Bound(Outputs)
  <2>1. Active(s.out) \subseteq Outputs
    BY DEF Active, Snapshots, OutputPairs
  <2>2. Bound(Active(s.out) \ Active(prev)) \subseteq Bound(Outputs)
    BY <2>1 DEF Bound
  <2>3. down' \subseteq down \cup Bound(Active(s.out) \ Active(prev))
    BY DEF Apply, Inject
  <2> QED BY <2>2, <2>3 DEF TypeOK
<1> QED BY <1>1, <1>2, <1>3

LEMMA ReceiveTypes ==
  ASSUME TypeOK, NEW i \in 1 .. NetCap, NEW copied \in BOOLEAN, HostReceive(i, copied)
  PROVE  TypeOK'
<1> DEFINE after == IF Verify(net[i]) THEN Aged(i) ELSE net
<1>0. /\ i \in 1 .. Len(net) /\ NetCap \in Nat /\ Len(net) \in Nat /\ MaxFaults \in Nat
      /\ net[i] \in Snapshots
  BY TelemetryAssumption, LenProperties, ElementOfSeq DEF HostReceive, TypeOK
<1>1. after \in Seq(Snapshots) /\ Len(after) = Len(net)
  <2>1. \A j \in 1 .. Len(net) : net[j] \in Snapshots
    BY ElementOfSeq DEF TypeOK
  <2>2. \A j \in 1 .. Len(net) :
          (IF j < i THEN [net[j] EXCEPT !.age = "late"] ELSE net[j]) \in Snapshots
    BY <2>1 DEF Snapshots, Ages
  <2>3. Aged(i) \in [1 .. Len(net) -> Snapshots]
    BY <2>2 DEF Aged
  <2>4. Aged(i) \in Seq(Snapshots) /\ Len(Aged(i)) = Len(net)
    BY <1>0, <2>3
  <2> QED BY <2>4 DEF TypeOK
<1>2. net' = IF copied THEN after ELSE RemoveAt(after, i)
  BY DEF HostReceive
<1> HIDE DEF after
<1>3. net' \in Seq(Snapshots) /\ Len(net') <= NetCap
  <2>1. RemoveAt(after, i) \in Seq(Snapshots) /\ Len(RemoveAt(after, i)) = Len(net) - 1
    BY <1>0, <1>1, RemoveAtIs
  <2> QED BY <1>0, <1>1, <1>2, <2>1 DEF TypeOK
<1>4. faults' \in 0 .. MaxFaults
  <2>1. PICK m \in {0, 1}, n \in {0, 1} : faults' = faults - m - n /\ faults' >= 0
    BY DEF HostReceive
  <2>2. faults \in 0 .. MaxFaults
    BY DEF TypeOK
  <2>3. \A f \in 0 .. MaxFaults : f - m - n >= 0 => f - m - n \in 0 .. MaxFaults
    BY <1>0, <2>1
  <2> QED BY <2>1, <2>2, <2>3
<1>5. UNCHANGED <<connected, table, held, lens, signing, hmacSeq>>
  BY DEF HostReceive, client
<1>6. CASE Apply(net[i])
  BY <1>0, <1>3, <1>4, <1>5, <1>6, ApplyTypes DEF TypeOK, Bound
<1>7. CASE UNCHANGED host
  BY <1>3, <1>4, <1>5, <1>7 DEF TypeOK, host, Bound
<1> QED BY <1>6, <1>7 DEF HostReceive

LEMMA TypeInductive == TypeOK /\ [Next]_vars => TypeOK'
<1> SUFFICES ASSUME TypeOK, [Next]_vars PROVE TypeOK'
  OBVIOUS
<1>1. Connect => TypeOK'
  BY DEF Connect, TypeOK, host, Bound
<1>2. ToggleHmac => TypeOK'
  BY DEF ToggleHmac, TypeOK, host, Bound
<1>3. DsInput => TypeOK'
  BY FrameTypes DEF DsInput
<1>4. DsRestart => TypeOK'
  <2> SUFFICES ASSUME DsRestart PROVE TypeOK'
    OBVIOUS
  <2>1. table' \in [1 .. Rows -> OutputPairs]
    BY DefaultsTyped DEF DsRestart
  <2>2. lens' \in Lenses
    BY TelemetryAssumption DEF DsRestart
  <2>3. hmacSeq' \in 0 .. MaxSeq
    BY TelemetryAssumption DEF DsRestart
  <2>4. held' \subseteq 1 .. Rows /\ connected' \in BOOLEAN /\ signing' \in BOOLEAN
    BY DEF DsRestart
  <2>5. UNCHANGED <<net, faults, host>>
    BY DEF DsRestart
  <2> QED BY <2>1, <2>2, <2>3, <2>4, <2>5 DEF TypeOK, host, Bound
<1>5. Lose => TypeOK'
  <2> SUFFICES ASSUME Lose PROVE TypeOK'
    OBVIOUS
  <2>1. /\ net' \in Seq(Snapshots) /\ Len(net') = Len(net) - 1
        /\ Len(net) \in Nat /\ NetCap \in Nat
    BY HeadTailProperties, LenProperties, TelemetryAssumption DEF Lose, TypeOK
  <2>2. Len(net') <= NetCap
    BY <2>1 DEF TypeOK
  <2>3. faults' \in 0 .. MaxFaults
    BY TelemetryAssumption DEF Lose, TypeOK
  <2> QED BY <2>1, <2>2, <2>3 DEF Lose, TypeOK, client, host, Bound
<1>6. Capture => TypeOK'
  BY DEF Capture, TypeOK, client, Bound
<1>7. ASSUME NEW row \in 1 .. Rows, NEW choice \in PopupPairs, Remap(row, choice)
      PROVE  TypeOK'
  <2>1. table' \in [1 .. Rows -> OutputPairs]
    BY <1>7 DEF Remap, PopupPairs, TypeOK
  <2> QED BY <1>7, <2>1 DEF Remap, TypeOK, host, Bound
<1>8. ASSUME NEW l \in Lenses, TurnLens(l) PROVE TypeOK'
  BY <1>8 DEF TurnLens, TypeOK, host, Bound
<1>9. ASSUME NEW i \in 1 .. NetCap, NEW copied \in BOOLEAN, HostReceive(i, copied)
      PROVE  TypeOK'
  BY <1>9, ReceiveTypes
<1>10. UNCHANGED vars => TypeOK'
  BY DEF vars, client, host, TypeOK, Bound
<1> QED BY <1>1, <1>2, <1>3, <1>4, <1>5, <1>6, <1>7, <1>8, <1>9, <1>10 DEF Next

\* The rows held give a snapshot two different outputs, the first place filled
\* first (evaluate_remaps), and numbers and keys stay in range, for any number
\* of rows that may share outputs.
THEOREM TelemetryTypeCorrect == Spec => []TypeOK
BY InitTypes, TypeInductive, PTL DEF Spec
=============================================================================
