---------------------------- MODULE MediaProofs ----------------------------
(***************************************************************************)
(* Sound and picture on their way from the PC to the DS.  First the sound: *)
(* the one send buffer of the Wii's radio under two writers, the types,    *)
(* and the order in which samples reach the ear; for all sizes of rings,   *)
(* chunks and frames and any number of heaps.  Then the picture: types,    *)
(* and that encoder and decoder agree unless something was lost; for all   *)
(* screens, colours, rings and lengths.                                    *)
(***************************************************************************)
EXTENDS AudioPath, Video, SequenceTheorems, FiniteSetTheorems, Recursion, TLAPS

Chunks == {c \in Seq(Samples) : Len(c) \in ChunkMin .. ChunkMax}

(***************************************************************************)
(* The callback may write its header into the buffer at any moment, which  *)
(* makes the frame an ACK.  What the invariant says is therefore           *)
(* conditional: once the length is written, a buffer that is still a chunk *)
(* has the length of the frame being sent.  It holds because memcpy writes *)
(* the type before the length: an ACK that comes between the two leaves    *)
(* its type behind.                                                        *)
(***************************************************************************)
RingInv ==
  /\ pcm \in [0 .. PcmCap - 1 -> Samples]
  /\ pcmHead \in 0 .. PcmCap - 1 /\ pcmTail \in 0 .. PcmCap - 1

BufferInv ==
  /\ DOMAIN buffer = {"type", "length", "payload"}
  /\ sending \in Stages
  /\ sending # "idle" => frame \in Chunks
  /\ sending \in {"payload", "ioctl"} /\ buffer.type = "chunk" => buffer.length = Len(frame)
  /\ sending = "ioctl" => buffer.payload = frame

\* The DS's ring, also when the interrupt pushes into the middle of a pop: a pop
\* that has begun holds a count that is not 0, and so does the ring.
Frames == Chunks \cup {NoFrame}

DsRingInv ==
  /\ slots \in [Indexes -> Frames]
  /\ head \in Indexes /\ tail \in Indexes /\ tailReg \in Indexes
  /\ count \in 0 .. Slots /\ countReg \in 0 .. Slots
  /\ pc \in PopPoints /\ raced \in BOOLEAN
  /\ out \in Frames \X Frames
  /\ pc # "empty?" => count > 0 /\ countReg > 0

LinkInv ==
  /\ RingInv
  /\ BufferInv
  /\ datagram # NoFrame => datagram \in Chunks
  /\ DsRingInv

LEMMA LinkInit == AudioInit => LinkInv
<1> SUFFICES ASSUME AudioInit PROVE LinkInv
  OBVIOUS
<1>1. RingInv
  BY AudioEncAssumption DEF AudioInit, EncInit, RingInv, Samples
<1>2. BufferInv
  BY DEF AudioInit, WlInit, BufferInv, Stages, Blank, NoFrame
<1>3. DsRingInv
  <2>1. 0 \in Indexes /\ 0 \in 0 .. Slots /\ NoFrame \in Frames
    BY RingAssumption DEF Indexes, Frames
  <2>2. /\ slots = [i \in Indexes |-> NoFrame] /\ out = <<NoFrame, NoFrame>>
        /\ head = 0 /\ tail = 0 /\ tailReg = 0 /\ count = 0 /\ countReg = 0
        /\ pc = "empty?" /\ raced = FALSE
    BY DEF AudioInit, RingIrqInit
  <2> QED BY <2>1, <2>2 DEF DsRingInv, PopPoints
<1> QED
  BY <1>1, <1>2, <1>3 DEF AudioInit, LinkInv

\* A block of the ring is a chunk if the ring has one.
LEMMA BlockIsChunk ==
  ASSUME RingInv, Available >= ChunkMin
  PROVE  Block(ChunkSize) \in Chunks /\ ChunkSize \in Nat
<1>1. /\ PcmCap \in Nat \ {0} /\ ChunkMin \in Nat /\ ChunkMax \in Nat /\ ChunkMin <= ChunkMax
      /\ pcmHead \in 0 .. PcmCap - 1 /\ pcmTail \in 0 .. PcmCap - 1
  BY AudioEncAssumption DEF RingInv
<1>2. Available \in Int
  BY <1>1 DEF Available
<1>3. ChunkSize \in ChunkMin .. ChunkMax /\ ChunkSize \in Nat
  BY <1>1, <1>2 DEF ChunkSize
<1>4. PICK n \in Nat : n = ChunkSize
  BY <1>3
<1>5. ASSUME NEW i \in 1 .. n PROVE pcm[(pcmTail + i - 1) % PcmCap] \in Samples
  <2>1. (pcmTail + i - 1) % PcmCap \in 0 .. PcmCap - 1
    BY <1>1
  <2> QED
    BY <2>1 DEF RingInv
<1>6. Block(n) \in [1 .. n -> Samples]
  BY <1>5 DEF Block
<1>7. Block(n) \in Seq(Samples) /\ Len(Block(n)) = n
  BY <1>6
<1> QED
  BY <1>3, <1>4, <1>7 DEF Chunks

LEMMA NextInRing ==
  ASSUME NEW i \in 0 .. PcmCap - 1 PROVE RingNext(i) \in 0 .. PcmCap - 1
BY AudioEncAssumption DEF RingNext

LEMMA EncKeeps ==
  ASSUME RingInv, EncStart \/ EncStop \/ (\E sample \in Samples : PumpCapture(sample)) \/ Capture
  PROVE  RingInv'
<1>1. PcmCap \in Nat \ {0}
  BY AudioEncAssumption
<1>2. CASE EncStart
  BY <1>1, <1>2 DEF EncStart, RingInv
<1>3. CASE EncStop
  BY <1>1, <1>3 DEF EncStop, RingInv, Samples
<1>4. ASSUME NEW sample \in Samples, PumpCapture(sample) PROVE RingInv'
  <2>1. CASE RingPush(sample)
    BY <2>1, NextInRing DEF RingPush, RingInv
  <2>2. CASE UNCHANGED <<pcm, pcmHead, pcmTail>>
    BY <2>2 DEF RingInv
  <2> QED
    BY <1>4, <2>1, <2>2 DEF PumpCapture
<1>5. CASE Capture
  <2>1. ChunkSize \in Nat
    BY <1>5, BlockIsChunk DEF Capture
  <2>2. (pcmTail + ChunkSize) % PcmCap \in 0 .. PcmCap - 1
    BY <1>1, <2>1 DEF RingInv
  <2> QED
    BY <1>5, <2>2 DEF Capture, PopBlock, RingInv
<1> QED
  BY <1>2, <1>3, <1>4, <1>5

LEMMA CopyKeeps ==
  ASSUME BufferInv, CopyUp PROVE BufferInv'
<1>1. CASE sending = "type" /\ sending' = "length" /\ buffer' = [buffer EXCEPT !.type = "chunk"]
  BY <1>1 DEF CopyUp, BufferInv, Stages
<1>2. CASE sending = "length" /\ sending' = "payload"
           /\ buffer' = [buffer EXCEPT !.length = Len(frame)]
  BY <1>2 DEF CopyUp, BufferInv, Stages
<1>3. CASE sending = "payload" /\ sending' = "ioctl"
           /\ buffer' = [buffer EXCEPT !.payload = frame]
  BY <1>3 DEF CopyUp, BufferInv, Stages
<1> QED
  BY <1>1, <1>2, <1>3 DEF CopyUp

LEMMA AckKeeps ==
  ASSUME BufferInv, AckTimer PROVE BufferInv'
<1>1. CASE buffer' = buffer
  BY <1>1 DEF AckTimer, BufferInv
<1>2. CASE buffer' = [buffer EXCEPT !.type = "ack", !.length = 0]
  <2>1. DOMAIN buffer' = DOMAIN buffer /\ buffer'.type = "ack" /\ buffer'.payload = buffer.payload
    BY <1>2 DEF BufferInv
  <2> QED
    BY <2>1 DEF AckTimer, BufferInv
<1> QED
  BY <1>1, <1>2 DEF AckTimer

\* What leaves the buffer as a chunk is the frame that was put into it.
LEMMA AirIsFrame ==
  ASSUME BufferInv, sending = "ioctl", IsChunk PROVE OnAir = frame /\ OnAir \in Chunks
<1>1. frame \in Chunks /\ buffer.payload = frame /\ buffer.length = Len(frame)
  BY DEF BufferInv, IsChunk
<1>2. OnAir = SubSeq(frame, 1, Len(frame))
  BY <1>1 DEF OnAir, IsChunk
<1>3. OnAir = frame
  BY <1>1, <1>2, SubSeqFull DEF Chunks
<1> QED
  BY <1>1, <1>3

LEMMA FollowingInRing ==
  ASSUME NEW i \in Indexes PROVE Following(i) \in Indexes
BY RingAssumption DEF Following, Indexes

LEMMA StoreKeeps ==
  ASSUME DsRingInv, NEW c \in Chunks, Store(c), raced' \in BOOLEAN PROVE DsRingInv'
<1>0. Slots \in Nat \ {0} /\ Following(head) \in Indexes /\ Following(tail) \in Indexes
  BY RingAssumption, FollowingInRing DEF DsRingInv
<1>1. /\ count' \in 0 .. Slots /\ tail' \in Indexes /\ head' \in Indexes
      /\ count > 0 => count' > 0
  BY <1>0 DEF DsRingInv, Store
<1>2. slots' \in [Indexes -> Frames]
  BY DEF DsRingInv, Store, Frames
<1> QED BY <1>1, <1>2 DEF DsRingInv, Store, pop

LEMMA PopKeeps ==
  ASSUME DsRingInv, raced' = raced,
         PopStart \/ PopCopy \/ PopCopyRest \/ PopReload \/ PopStoreTail \/ PopReloadCount
           \/ PopStoreCount(NoFrame)
  PROVE  DsRingInv'
<1> USE DEF DsRingInv, PopPoints
<1>0. Slots \in Nat \ {0} /\ Following(tailReg) \in Indexes /\ 0 \in Indexes
  BY RingAssumption, FollowingInRing DEF Indexes
<1>1. PopStart => DsRingInv'
  BY <1>0 DEF PopStart, ringVars
<1>2. PopCopy => DsRingInv'
  BY DEF PopCopy, ringVars
<1>3. PopCopyRest => DsRingInv'
  BY DEF PopCopyRest, ringVars
<1>4. PopReload => DsRingInv'
  BY DEF PopReload, ringVars
<1>5. PopStoreTail => DsRingInv'
  BY <1>0 DEF PopStoreTail
<1>6. PopReloadCount => DsRingInv'
  BY DEF PopReloadCount, ringVars
<1>7. PopStoreCount(NoFrame) => DsRingInv'
  BY <1>0 DEF PopStoreCount, Frames
<1> QED BY <1>1, <1>2, <1>3, <1>4, <1>5, <1>6, <1>7

LEMMA LinkNext == LinkInv /\ [AudioNext]_audioVars => LinkInv'
<1> SUFFICES ASSUME LinkInv, [AudioNext]_audioVars PROVE LinkInv'
  OBVIOUS
<1> USE DEF LinkInv
<1>1. CASE PcSwitch \/ PcPump
  <2>1. RingInv'
    BY <1>1, EncKeeps DEF PcSwitch, PcPump
  <2> QED
    BY <1>1, <2>1 DEF PcSwitch, PcPump, wl, BufferInv, dsRing, ringVars, pop, DsRingInv
<1>2. CASE PcSend
  <2>1. RingInv' /\ Block(ChunkSize) \in Chunks
    BY <1>2, EncKeeps, BlockIsChunk DEF PcSend, Capture
  <2> QED
    BY <1>2, <2>1 DEF PcSend, wl, BufferInv, dsRing, ringVars, pop, DsRingInv
<1>3. CASE WiiForwards
  <2>1. CASE SendStart(datagram)
    <3>1. BufferInv'
      BY <1>3, <2>1 DEF WiiForwards, SendStart, BufferInv, Stages
    <3> QED
      BY <1>3, <3>1 DEF WiiForwards, enc, RingInv, dsRing, ringVars, pop, DsRingInv
  <2>2. CASE UNCHANGED wl
    BY <1>3, <2>2 DEF WiiForwards, wl, BufferInv, enc, RingInv, dsRing, ringVars, pop,
                      DsRingInv
  <2> QED
    BY <1>3, <2>1, <2>2 DEF WiiForwards
<1>4. CASE WiiCopies \/ WiiAck
  <2>1. BufferInv'
    BY <1>4, CopyKeeps, AckKeeps DEF WiiCopies, WiiAck
  <2> QED
    BY <1>4, <2>1 DEF WiiCopies, WiiAck, enc, RingInv, dsRing, ringVars, pop, DsRingInv
<1>5. CASE WiiSends
  <2>1. sending = "ioctl" /\ BufferInv'
    BY <1>5 DEF WiiSends, SendDone, BufferInv, Stages, Blank, NoFrame
  <2>2. DsRingInv'
    <3>1. CASE IsChunk /\ Store(OnAir) /\ raced' = (raced \/ pc # "empty?")
      <4>1. OnAir \in Chunks /\ raced' \in BOOLEAN
        BY <2>1, <3>1, AirIsFrame DEF DsRingInv
      <4> QED BY <3>1, <4>1, StoreKeeps
    <3>2. CASE UNCHANGED dsRing
      BY <3>2 DEF dsRing, ringVars, pop, DsRingInv
    <3> QED BY <1>5, <3>1, <3>2 DEF WiiSends
  <2> QED
    BY <1>5, <2>1, <2>2 DEF WiiSends, enc, RingInv
<1>6. CASE DsPops
  <2>1. DsRingInv'
    BY <1>6, PopKeeps DEF DsPops
  <2> QED
    BY <1>6, <2>1 DEF DsPops, enc, wl, RingInv, BufferInv
<1>7. CASE DsPlays
  <2>1. DsRingInv'
    BY <1>7, PopKeeps DEF DsPlays
  <2> QED
    BY <1>7, <2>1 DEF DsPlays, enc, wl, RingInv, BufferInv
<1>8. CASE UNCHANGED audioVars
  BY <1>8 DEF audioVars, enc, wl, RingInv, BufferInv, dsRing, ringVars, pop, DsRingInv
<1> QED
  BY <1>1, <1>2, <1>3, <1>4, <1>5, <1>6, <1>7, <1>8 DEF AudioNext

\* The callback of ack_spoof.c, at any moment of the main loop's
\* WL_SendRawFrame (wl_backend.c), can cost a frame but not make one of two:
\* what goes on air as a chunk is the frame the loop sends.
THEOREM NoTornFrame == AudioSpec => []FramesWhole
<1>1. LinkInv => FramesWhole
  BY AirIsFrame DEF LinkInv, FramesWhole
<1> QED
  BY <1>1, LinkInit, LinkNext, PTL DEF AudioSpec
-----------------------------------------------------------------------------
(***************************************************************************)
(* The stream of the DS.  A state of it, as PushChunk's recursion carries  *)
(* it from sample to sample, never fills the half that is being played.    *)
(***************************************************************************)
Halves == {"a", "b"}

StreamStates ==
  {s \in [halves : [Halves -> [0 .. HalfSize - 1 -> Samples]], half : Halves,
          pos : 0 .. HalfSize - 1, sound : Halves \cup {"none"}, played : Seq(1 .. 2)] :
     s.half # s.sound}

\* The marked samples of a half, one sample after the other.
LEMMA MarksOfIs ==
  ASSUME NEW half \in [0 .. HalfSize - 1 -> Samples]
  PROVE  \E f : /\ f \in [0 .. HalfSize -> Seq(1 .. 2)]
                /\ f[0] = <<>>
                /\ \A n \in 1 .. HalfSize :
                     f[n] = IF half[n - 1] # 0 THEN Append(f[n - 1], half[n - 1]) ELSE f[n - 1]
                /\ MarksOf(half) = f[HalfSize]
<1> DEFINE first[n \in 0 .. HalfSize] ==
             IF n = 0 THEN <<>>
             ELSE IF Marked(half[n - 1]) THEN Append(first[n - 1], half[n - 1])
             ELSE first[n - 1]
           step == [n \in 1 .. HalfSize |->
                      [q \in Seq(1 .. 2) |->
                         IF Marked(half[n - 1]) THEN Append(q, half[n - 1]) ELSE q]]
<1>0. HalfSize \in Nat /\ <<>> \in Seq(1 .. 2)
  BY AudioStreamAssumption, EmptySeq
<1>1. step \in [1 .. HalfSize -> [Seq(1 .. 2) -> Seq(1 .. 2)]]
  <2>1. ASSUME NEW n \in 1 .. HalfSize, NEW q \in Seq(1 .. 2), Marked(half[n - 1])
        PROVE  Append(q, half[n - 1]) \in Seq(1 .. 2)
    <3>1. half[n - 1] \in 1 .. 2
      BY <1>0, <2>1 DEF Marked, Samples
    <3> QED BY <3>1, AppendProperties
  <2> QED BY <2>1
<1>2. \E f : f = [n \in 0 .. HalfSize |->
                    IF n = 0 THEN <<>>
                    ELSE IF Marked(half[n - 1]) THEN Append(f[n - 1], half[n - 1])
                    ELSE f[n - 1]]
  <2>1. PICK f : Follows(f, HalfSize, Seq(1 .. 2), <<>>, step)
    <3>1. step \in Steps(HalfSize, Seq(1 .. 2))
      BY <1>1 DEF Steps
    <3> HIDE DEF step
    <3> QED BY <1>0, <3>1, RecursiveExists
  <2>2. ASSUME NEW n \in 1 .. HalfSize
        PROVE  f[n] = IF Marked(half[n - 1]) THEN Append(f[n - 1], half[n - 1]) ELSE f[n - 1]
    <3>1. f[n - 1] \in Seq(1 .. 2) /\ f[n] = step[n][f[n - 1]]
      <4> HIDE DEF step
      <4> QED BY <1>0, <2>1 DEF Follows
    <3> QED BY <3>1
  <2>3. f = [n \in 0 .. HalfSize |->
               IF n = 0 THEN <<>>
               ELSE IF Marked(half[n - 1]) THEN Append(f[n - 1], half[n - 1])
               ELSE f[n - 1]]
    <3>1. f[0] = <<>> /\ f = [n \in 0 .. HalfSize |-> f[n]]
      BY <2>1 DEF Follows
    <3>2. \A n \in 0 .. HalfSize : n # 0 => n \in 1 .. HalfSize
      BY <1>0
    <3> QED BY <2>2, <3>1, <3>2
  <2> QED BY <2>3
<1>3. first = [n \in 0 .. HalfSize |->
                 IF n = 0 THEN <<>>
                 ELSE IF Marked(half[n - 1]) THEN Append(first[n - 1], half[n - 1])
                 ELSE first[n - 1]]
  BY <1>2
<1>4. MarksOf(half) = first[HalfSize]
  BY DEF MarksOf
<1> HIDE DEF first
<1>5. first[0] \in Seq(1 .. 2) /\ first[0] = <<>>
  BY <1>0, <1>3
<1>6. ASSUME NEW n \in 1 .. HalfSize
      PROVE  first[n] = IF half[n - 1] # 0 THEN Append(first[n - 1], half[n - 1])
                        ELSE first[n - 1]
  <2>1. n \in 0 .. HalfSize /\ n # 0
    BY <1>0
  <2> QED BY <1>3, <2>1 DEF Marked
<1>7. ASSUME NEW n \in 1 .. HalfSize, first[n - 1] \in Seq(1 .. 2)
      PROVE  first[n] \in Seq(1 .. 2)
  <2>1. CASE half[n - 1] # 0
    <3>1. half[n - 1] \in 1 .. 2
      BY <1>0, <2>1 DEF Samples
    <3> QED BY <1>6, <1>7, <2>1, <3>1, AppendProperties
  <2>2. CASE half[n - 1] = 0
    BY <1>6, <1>7, <2>2
  <2> QED BY <2>1, <2>2
<1>8. \A n \in 0 .. HalfSize : first[n] \in Seq(1 .. 2)
  BY <1>0, <1>5, <1>7, RecursiveKeeps
<1>9. first \in [0 .. HalfSize -> Seq(1 .. 2)]
  BY <1>3, <1>8
<1> QED BY <1>4, <1>5, <1>6, <1>9

LEMMA MarksTyped ==
  ASSUME NEW half \in [0 .. HalfSize - 1 -> Samples]
  PROVE  MarksOf(half) \in Seq(1 .. 2)
<1>1. PICK f \in [0 .. HalfSize -> Seq(1 .. 2)] : MarksOf(half) = f[HalfSize]
  BY MarksOfIs
<1> QED BY <1>1, AudioStreamAssumption

\* The half being filled once the sample is written.
HalfWith(s, sample) == [s.halves[s.half] EXCEPT ![s.pos] = sample]

\* What Written does to a state, one component after the other.
LEMMA WrittenIs ==
  ASSUME NEW s \in StreamStates, NEW sample \in Samples
  PROVE  /\ HalfWith(s, sample) \in [0 .. HalfSize - 1 -> Samples]
         /\ Written(s, sample) \in StreamStates
         /\ Written(s, sample).halves = [s.halves EXCEPT ![s.half] = HalfWith(s, sample)]
         /\ s.pos + 1 < HalfSize =>
              /\ Written(s, sample).half = s.half /\ Written(s, sample).pos = s.pos + 1
              /\ Written(s, sample).played = s.played
         /\ s.pos + 1 >= HalfSize =>
              /\ Written(s, sample).half = Other(s.half) /\ Written(s, sample).pos = 0
              /\ Written(s, sample).played = s.played \o MarksOf(HalfWith(s, sample))
<1> DEFINE Rec(P) == [halves : [Halves -> [0 .. HalfSize - 1 -> Samples]], half : Halves, pos : P,
                      sound : Halves \cup {"none"}, played : Seq(1 .. 2)]
<1>0. /\ s.halves \in [Halves -> [0 .. HalfSize - 1 -> Samples]] /\ s.half \in Halves
      /\ s.pos \in 0 .. HalfSize - 1 /\ s.sound \in Halves \cup {"none"}
      /\ s.played \in Seq(1 .. 2) /\ s.half # s.sound
      /\ HalfSize \in Nat \ {0}
  BY AudioStreamAssumption DEF StreamStates
<1>1. s \in Rec(Int)
  BY <1>0 DEF StreamStates
<1>2. PICK half : half = HalfWith(s, sample)
  OBVIOUS
<1>3. half \in [0 .. HalfSize - 1 -> Samples]
  BY <1>0, <1>2 DEF HalfWith
<1>4. PICK halves1 : halves1 = [s.halves EXCEPT ![s.half] = half]
  OBVIOUS
<1>5. halves1 \in [Halves -> [0 .. HalfSize - 1 -> Samples]] /\ halves1[s.half] = half
  BY <1>0, <1>3, <1>4
<1>6. PICK filled : filled = [s EXCEPT !.halves = halves1, !.pos = s.pos + 1]
  OBVIOUS
<1>7. [s EXCEPT !.halves[s.half][s.pos] = sample, !.pos = s.pos + 1] = filled
  BY <1>1, <1>2, <1>4, <1>6 DEF HalfWith
<1>8. s.pos + 1 \in Int
  BY <1>0
<1>9. /\ filled \in Rec(Int)
      /\ filled.halves = halves1 /\ filled.half = s.half /\ filled.pos = s.pos + 1
      /\ filled.sound = s.sound /\ filled.played = s.played
  BY <1>1, <1>5, <1>6, <1>8
<1>10. Written(s, sample) = IF filled.pos >= HalfSize THEN SubmitAndSwap(filled) ELSE filled
  BY <1>7 DEF Written
<1>11. CASE s.pos + 1 < HalfSize
  <2>1. Written(s, sample) = filled
    BY <1>0, <1>9, <1>10, <1>11
  <2>2. filled \in StreamStates
    <3>1. filled.pos \in 0 .. HalfSize - 1
      BY <1>0, <1>9, <1>11
    <3>2. filled \in Rec(0 .. HalfSize - 1)
      BY <1>9, <3>1
    <3> QED BY <1>0, <1>9, <3>2 DEF StreamStates
  <2> QED BY <1>0, <1>2, <1>3, <1>4, <1>9, <1>11, <2>1, <2>2
<1>12. CASE s.pos + 1 >= HalfSize
  <2>1. PICK w : w = SubmitAndSwap(filled)
    OBVIOUS
  <2>2. Written(s, sample) = w
    BY <1>0, <1>9, <1>10, <1>12, <2>1
  <2>3. s.played \o MarksOf(half) \in Seq(1 .. 2)
    BY <1>0, <1>3, MarksTyped, ConcatProperties
  <2>4. Other(s.half) \in Halves /\ Other(s.half) # s.half
    BY <1>0 DEF Other, Halves
  <2>5. 0 \in 0 .. HalfSize - 1 /\ s.half \in Halves \cup {"none"}
    BY <1>0
  <2>6. w = [filled EXCEPT !.sound = s.half, !.half = Other(s.half), !.pos = 0,
                           !.played = s.played \o MarksOf(half)]
    BY <1>5, <1>9, <2>1 DEF SubmitAndSwap
  <2>7. /\ w \in Rec(0 .. HalfSize - 1)
        /\ w.halves = halves1 /\ w.half = Other(s.half) /\ w.pos = 0 /\ w.sound = s.half
        /\ w.played = s.played \o MarksOf(half)
    BY <1>9, <2>3, <2>4, <2>5, <2>6
  <2>8. w \in StreamStates
    BY <2>4, <2>7 DEF StreamStates
  <2>9. ~(s.pos + 1 < HalfSize)
    BY <1>0, <1>12
  <2> QED BY <1>2, <1>3, <1>4, <2>2, <2>7, <2>8, <2>9
<1> QED BY <1>0, <1>11, <1>12

\* The states the stream goes through while a chunk is written.
LEMMA PushChunkIs ==
  ASSUME NEW chunk \in Seq(Samples), State \in StreamStates, PushChunk(chunk)
  PROVE  \E f : /\ f \in [0 .. Len(chunk) -> StreamStates]
                /\ f[0] = State
                /\ \A n \in 1 .. Len(chunk) : f[n] = Written(f[n - 1], chunk[n])
                /\ State' = f[Len(chunk)]
<1> DEFINE after[n \in 0 .. Len(chunk)] ==
             IF n = 0 THEN State ELSE Written(after[n - 1], chunk[n])
           step == [n \in 1 .. Len(chunk) |-> [s \in StreamStates |-> Written(s, chunk[n])]]
<1>0. Len(chunk) \in Nat /\ \A n \in 1 .. Len(chunk) : chunk[n] \in Samples
  OBVIOUS
<1>1. step \in [1 .. Len(chunk) -> [StreamStates -> StreamStates]]
  BY <1>0, WrittenIs
<1>2. \E f : f = [n \in 0 .. Len(chunk) |->
                    IF n = 0 THEN State ELSE Written(f[n - 1], chunk[n])]
  <2>1. PICK f : Follows(f, Len(chunk), StreamStates, State, step)
    <3>1. step \in Steps(Len(chunk), StreamStates)
      BY <1>1 DEF Steps
    <3> HIDE DEF step
    <3> QED BY <1>0, <3>1, RecursiveExists
  <2>2. ASSUME NEW n \in 1 .. Len(chunk)
        PROVE  f[n] = Written(f[n - 1], chunk[n])
    <3>1. f[n - 1] \in StreamStates /\ f[n] = step[n][f[n - 1]]
      BY <1>0, <2>1 DEF Follows
    <3> QED BY <3>1
  <2>3. f = [n \in 0 .. Len(chunk) |-> IF n = 0 THEN State ELSE Written(f[n - 1], chunk[n])]
    BY <1>0, <2>1, <2>2 DEF Follows
  <2> QED BY <2>3
<1>3. after = [n \in 0 .. Len(chunk) |->
                 IF n = 0 THEN State ELSE Written(after[n - 1], chunk[n])]
  BY <1>2
<1>4. PICK end : end = after[Len(chunk)]
  OBVIOUS
<1>5. /\ halves' = end.halves /\ writeHalf' = end.half /\ writePos' = end.pos
      /\ sound' = end.sound /\ played' = end.played
  BY <1>4 DEF PushChunk
<1> HIDE DEF after, step
<1>6. after[0] = State
  BY <1>0, <1>3
<1>7. ASSUME NEW n \in 1 .. Len(chunk)
      PROVE  after[n] = Written(after[n - 1], chunk[n])
  BY <1>0, <1>3
<1>8. ASSUME NEW n \in 1 .. Len(chunk), after[n - 1] \in StreamStates
      PROVE  after[n] \in StreamStates
  BY <1>0, <1>7, <1>8, WrittenIs
<1>9. \A n \in 0 .. Len(chunk) : after[n] \in StreamStates
  BY <1>0, <1>6, <1>8, RecursiveKeeps
<1>10. after \in [0 .. Len(chunk) -> StreamStates]
  BY <1>3, <1>9
<1>11. State' = end
  <2>1. end \in StreamStates
    BY <1>0, <1>4, <1>9
  <2> QED BY <1>5, <2>1 DEF State, StreamStates
<1> QED BY <1>4, <1>6, <1>7, <1>10, <1>11

-----------------------------------------------------------------------------
\* The Wii holds the whole driver or nothing of it, nothing waits in the main loop that is not
\* being sent, and the stream is in a state it can be in.
RestInv ==
  /\ ready \in BOOLEAN /\ accum \in 0 .. InRate - 1
  /\ inited \in BOOLEAN /\ locked \in BOOLEAN /\ heaps \in 0 .. Heaps
  /\ IF inited THEN held = Resources /\ locked ELSE held = {}
  /\ sending = "idle" => frame = NoFrame
  /\ State \in StreamStates

LEMMA RestInit == AudioInit => RestInv
<1> SUFFICES ASSUME AudioInit PROVE RestInv
  OBVIOUS
<1>1. State \in StreamStates
  <2>1. <<>> \in Seq(1 .. 2)
    BY EmptySeq
  <2> QED BY <2>1, AudioStreamAssumption
          DEF AudioInit, StreamInit, State, StreamStates, Halves, Samples
<1>2. ready \in BOOLEAN /\ inited = FALSE /\ held = {} /\ locked = FALSE /\ frame = NoFrame
  BY DEF AudioInit, EncInit, WlInit
<1>3. accum \in 0 .. InRate - 1
  BY AudioEncAssumption DEF AudioInit, EncInit
<1>4. heaps \in 0 .. Heaps
  BY WlAssumption DEF AudioInit, WlInit
<1> QED BY <1>1, <1>2, <1>3, <1>4 DEF RestInv

LEMMA InitOnceKeeps ==
  ASSUME RestInv, InitOnce
  PROVE  /\ inited' \in BOOLEAN /\ locked' \in BOOLEAN /\ heaps' \in 0 .. Heaps
         /\ IF inited' THEN held' = Resources /\ locked' ELSE held' = {}
<1>0. /\ Heaps \in Nat /\ heaps \in 0 .. Heaps /\ inited \in BOOLEAN /\ locked \in BOOLEAN
      /\ IF inited THEN held = Resources /\ locked ELSE held = {}
  BY WlAssumption DEF RestInv
<1>1. CASE UNCHANGED driver
  BY <1>0, <1>1 DEF driver
<1>2. ASSUME NEW got, Unlock(got) PROVE held' = got \ {"rights"} /\ locked' \in BOOLEAN
  BY <1>0, <1>2 DEF Unlock
<1>3. ASSUME NEW got, got \subseteq Resources \ {"buffer"}, Shutdown(got)
      PROVE  held' \subseteq {} /\ locked' \in BOOLEAN
  <2>1. PICK rest : /\ Unlock(rest)
                    /\ rest = got \ ({"wd", "heap"} \cup IF "heap" \in got THEN {"buffer"} ELSE {})
    BY <1>3 DEF Shutdown
  <2>2. rest \subseteq {"rights"}
    BY <1>3, <2>1 DEF Resources
  <2> QED BY <1>2, <2>1, <2>2
<1>4. CASE ~inited /\ Unlock(held \cup {"rights"}) /\ UNCHANGED <<inited, heaps>>
  <2>1. held' = {} /\ locked' \in BOOLEAN
    BY <1>0, <1>2, <1>4
  <2> QED BY <1>0, <1>4, <2>1
<1>5. CASE /\ ~inited /\ heaps > 0 /\ heaps' = heaps - 1 /\ UNCHANGED inited
           /\ \/ Shutdown(held \cup {"rights", "heap"})
              \/ Shutdown(held \cup {"rights", "heap", "wd"})
  <2>1. /\ held \cup {"rights", "heap"} \subseteq Resources \ {"buffer"}
        /\ held \cup {"rights", "heap", "wd"} \subseteq Resources \ {"buffer"}
    BY <1>0, <1>5 DEF Resources
  <2>2. held' \subseteq {} /\ locked' \in BOOLEAN
    BY <1>3, <1>5, <2>1
  <2> QED BY <1>0, <1>5, <2>2
<1>6. CASE /\ ~inited /\ heaps > 0 /\ heaps' = heaps - 1
           /\ inited' = TRUE /\ held' = Resources /\ locked' = TRUE
  BY <1>0, <1>6
<1> QED BY <1>1, <1>4, <1>5, <1>6 DEF InitOnce

\* What a pop hands out are samples, also if its halves are of different frames.
LEMMA JoinedTyped ==
  ASSUME out \in Frames \X Frames PROVE Joined(out[1], out[2]) \in Seq(Samples)
<1>1. \A f \in Frames : f \in Seq(Samples)
  BY EmptySeq DEF Frames, Chunks, NoFrame
<1>2. PICK a \in Seq(Samples), b \in Seq(Samples) : a = out[1] /\ b = out[2]
  BY <1>1
<1>3. ASSUME NEW i \in 1 .. Len(a)
      PROVE  (IF i <= Len(a) \div 2 \/ i > Len(b) THEN a[i] ELSE b[i]) \in Samples
  <2>1. a[i] \in Samples /\ Len(b) \in Nat
    OBVIOUS
  <2>2. i <= Len(b) => b[i] \in Samples
    BY <2>1
  <2> QED BY <2>1, <2>2
<1>4. Joined(a, b) \in [1 .. Len(a) -> Samples] /\ Len(a) \in Nat
  BY <1>3 DEF Joined
<1> QED BY <1>2, <1>4

LEMMA RestNext == LinkInv /\ RestInv /\ [AudioNext]_audioVars => RestInv'
<1> SUFFICES ASSUME LinkInv, RestInv, [AudioNext]_audioVars PROVE RestInv'
  OBVIOUS
<1>0. /\ {InRate, OutRate} \subseteq Nat \ {0} /\ OutRate <= InRate
      /\ accum \in 0 .. InRate - 1
  BY AudioEncAssumption DEF RestInv
<1>1. CASE PcSwitch
  <2>1. ready' \in BOOLEAN /\ (accum' = 0 \/ accum' = accum)
    BY <1>1 DEF PcSwitch, EncStart, EncStop
  <2>2. accum' \in 0 .. InRate - 1
    BY <1>0, <2>1
  <2> QED BY <1>1, <2>1, <2>2 DEF PcSwitch, stream, wl, RestInv, State
<1>2. CASE PcPump
  <2>1. PICK sample \in Samples : PumpCapture(sample)
    BY <1>2 DEF PcPump
  <2>2. accum' \in 0 .. InRate - 1
    BY <1>0, <2>1 DEF PumpCapture
  <2> QED BY <1>2, <2>1, <2>2 DEF PcPump, PumpCapture, stream, wl, RestInv, State
<1>3. CASE PcSend
  BY <1>3 DEF PcSend, Capture, stream, wl, RestInv, State
<1>4. CASE WiiForwards
  <2>1. CASE SendStart(datagram)
    <3>1. sending' = "idle" => frame' = NoFrame
      BY <2>1 DEF SendStart, RestInv
    <3> QED BY <1>4, <2>1, <3>1, InitOnceKeeps DEF WiiForwards, SendStart, enc, stream, RestInv, State
  <2>2. CASE UNCHANGED wl
    BY <1>4, <2>2 DEF WiiForwards, enc, stream, wl, RestInv, State
  <2> QED BY <1>4, <2>1, <2>2 DEF WiiForwards
<1>5. CASE WiiCopies
  <2>1. sending' # "idle" /\ UNCHANGED <<driver, frame>>
    BY <1>5 DEF WiiCopies, CopyUp
  <2> QED BY <1>5, <2>1 DEF WiiCopies, driver, enc, stream, RestInv, State
<1>6. CASE WiiAck
  BY <1>6, InitOnceKeeps DEF WiiAck, AckTimer, enc, stream, RestInv, State
<1>7. CASE WiiSends
  BY <1>7 DEF WiiSends, SendDone, driver, enc, stream, RestInv, State
<1>8. CASE DsPops
  BY <1>8 DEF DsPops, enc, stream, wl, RestInv, State
<1>9. CASE DsPlays
  <2>1. Joined(out[1], out[2]) \in Seq(Samples)
    BY JoinedTyped DEF LinkInv, DsRingInv
  <2>2. PICK c \in Seq(Samples) : c = Joined(out[1], out[2])
    BY <2>1
  <2>3. PushChunk(c) /\ State \in StreamStates
    BY <1>9, <2>2 DEF DsPlays, RestInv
  <2>4. State' \in StreamStates
    BY <2>3, PushChunkIs
  <2> QED BY <1>9, <2>4 DEF DsPlays, enc, wl, RestInv
<1>10. CASE UNCHANGED audioVars
  BY <1>10 DEF audioVars, enc, wl, stream, RestInv, State
<1> QED BY <1>1, <1>2, <1>3, <1>4, <1>5, <1>6, <1>7, <1>8, <1>9, <1>10 DEF AudioNext

\* The three rings and two buffers of the sound's path (audio_enc.cpp,
\* wl_backend.c, circ_buf.h, audio_stream.c) keep their sizes and no pointer leaves
\* its buffer, with the interrupt in the middle of a pop as well; a failed
\* wl_init_once leaves none of the driver held, whichever step failed.
THEOREM AudioTypeCorrect == AudioSpec => []AudioTypeOK
<1>1. ASSUME LinkInv, RestInv PROVE AudioTypeOK
  <2>1. /\ halves \in [{"a", "b"} -> [0 .. HalfSize - 1 -> Samples]]
        /\ writePos \in 0 .. HalfSize - 1 /\ writeHalf # sound
    BY <1>1 DEF RestInv, State, StreamStates, Halves
  <2>2. datagram \in Seq(Samples) /\ frame \in Seq(Samples)
    <3>1. <<>> \in Seq(Samples)
      BY EmptySeq
    <3> QED BY <1>1, <3>1 DEF LinkInv, BufferInv, RestInv, Chunks, NoFrame
  <2>3. slots \in [Indexes -> Seq(Samples)] /\ out \in Seq(Samples) \X Seq(Samples)
    <3>1. Frames \subseteq Seq(Samples)
      BY EmptySeq DEF Frames, Chunks, NoFrame
    <3> QED BY <1>1, <3>1 DEF LinkInv, DsRingInv
  <2> QED BY <1>1, <2>1, <2>2, <2>3
          DEF LinkInv, RingInv, BufferInv, DsRingInv, RestInv, AudioTypeOK
<1> QED BY <1>1, LinkInit, LinkNext, RestInit, RestNext, PTL DEF AudioSpec

-----------------------------------------------------------------------------
(***************************************************************************)
(* The order of the marked samples.  A sequence is rising if its marked    *)
(* samples are, and a set is before another if all of it is smaller.       *)
(***************************************************************************)
Values(s) == {s[i] : i \in DOMAIN s} \ {0}
Rising(s) == \A i, j \in DOMAIN s : i < j /\ s[i] # 0 /\ s[j] # 0 => s[i] < s[j]
Before(S, T) == \A x \in S, y \in T : x < y

LEMMA EmptyRises == Rising(<<>>) /\ Values(<<>>) = {}
BY DEF Rising, Values

\* What is cut out of a rising sequence rises, too.
LEMMA CutRises ==
  ASSUME NEW s \in Seq(Samples), NEW t \in Seq(Samples), NEW d \in Nat,
         \A i \in 1 .. Len(t) : i + d \in 1 .. Len(s) /\ t[i] = s[i + d],
         Rising(s)
  PROVE  Rising(t) /\ Values(t) \subseteq Values(s)
<1>1. DOMAIN t = 1 .. Len(t) /\ DOMAIN s = 1 .. Len(s) /\ Len(t) \in Nat
  OBVIOUS
<1>2. ASSUME NEW i \in DOMAIN t, NEW j \in DOMAIN t, i < j, t[i] # 0, t[j] # 0
      PROVE  t[i] < t[j]
  <2>1. i + d < j + d /\ i + d \in DOMAIN s /\ j + d \in DOMAIN s
    BY <1>1, <1>2
  <2> QED BY <1>1, <1>2, <2>1 DEF Rising
<1>3. ASSUME NEW x \in Values(t) PROVE x \in Values(s)
  <2>1. PICK i \in DOMAIN t : x = t[i] /\ x # 0
    BY DEF Values
  <2>2. i + d \in DOMAIN s /\ s[i + d] = x
    BY <1>1, <2>1
  <2> QED BY <2>1, <2>2 DEF Values
<1> QED BY <1>2, <1>3 DEF Rising

\* The front of a rising sequence is before the rest of it.
LEMMA CutsApart ==
  ASSUME NEW s \in Seq(Samples), Rising(s), NEW n \in 0 .. Len(s),
         NEW t \in Seq(Samples), NEW u \in Seq(Samples),
         \A i \in 1 .. Len(t) : i \in 1 .. n /\ t[i] = s[i],
         \A i \in 1 .. Len(u) : i + n \in 1 .. Len(s) /\ u[i] = s[i + n]
  PROVE  Before(Values(t), Values(u))
<1>1. /\ DOMAIN t = 1 .. Len(t) /\ DOMAIN u = 1 .. Len(u) /\ DOMAIN s = 1 .. Len(s)
      /\ Len(s) \in Nat
  OBVIOUS
<1> SUFFICES ASSUME NEW x \in Values(t), NEW y \in Values(u) PROVE x < y
  BY DEF Before
<1>2. PICK i \in DOMAIN t : x = t[i] /\ x # 0
  BY DEF Values
<1>3. PICK j \in DOMAIN u : y = u[j] /\ y # 0
  BY DEF Values
<1>4. i \in DOMAIN s /\ j + n \in DOMAIN s /\ i < j + n /\ s[i] = x /\ s[j + n] = y
  BY <1>1, <1>2, <1>3
<1> QED BY <1>2, <1>3, <1>4 DEF Rising

LEMMA ConcatRises ==
  ASSUME NEW s \in Seq(Samples), NEW t \in Seq(Samples), Rising(s), Rising(t),
         Before(Values(s), Values(t))
  PROVE  Rising(s \o t) /\ Values(s \o t) \subseteq Values(s) \cup Values(t)
<1>1. /\ s \o t \in Seq(Samples) /\ Len(s \o t) = Len(s) + Len(t)
      /\ \A i \in 1 .. Len(s \o t) :
           (s \o t)[i] = IF i <= Len(s) THEN s[i] ELSE t[i - Len(s)]
  BY ConcatProperties
<1>2. PICK q \in Seq(Samples) : q = s \o t
  BY <1>1
<1>3. /\ DOMAIN s = 1 .. Len(s) /\ DOMAIN t = 1 .. Len(t) /\ DOMAIN q = 1 .. Len(s) + Len(t)
      /\ Len(s) \in Nat /\ Len(t) \in Nat
      /\ \A i \in DOMAIN q : q[i] = IF i <= Len(s) THEN s[i] ELSE t[i - Len(s)]
  BY <1>1, <1>2
<1>4. ASSUME NEW i \in DOMAIN q, q[i] # 0
      PROVE  IF i <= Len(s) THEN i \in DOMAIN s /\ q[i] = s[i] /\ q[i] \in Values(s)
             ELSE i - Len(s) \in DOMAIN t /\ q[i] = t[i - Len(s)] /\ q[i] \in Values(t)
  <2>1. CASE i <= Len(s)
    <3>1. i \in DOMAIN s /\ q[i] = s[i]
      BY <1>3, <2>1
    <3> QED BY <1>4, <2>1, <3>1 DEF Values
  <2>2. CASE ~(i <= Len(s))
    <3>1. i - Len(s) \in DOMAIN t /\ q[i] = t[i - Len(s)]
      BY <1>3, <2>2
    <3> QED BY <1>4, <2>2, <3>1 DEF Values
  <2> QED BY <2>1, <2>2
<1>5. ASSUME NEW i \in DOMAIN q, NEW j \in DOMAIN q, i < j, q[i] # 0, q[j] # 0
      PROVE  q[i] < q[j]
  <2>1. CASE j <= Len(s)
    <3>1. i <= Len(s)
      BY <1>3, <1>5, <2>1
    <3> QED BY <1>4, <1>5, <2>1, <3>1 DEF Rising
  <2>2. CASE i > Len(s)
    <3>1. ~(i <= Len(s)) /\ ~(j <= Len(s)) /\ i - Len(s) < j - Len(s)
      BY <1>3, <1>5, <2>2
    <3> QED BY <1>4, <1>5, <3>1 DEF Rising
  <2>3. CASE i <= Len(s) /\ ~(j <= Len(s))
    BY <1>4, <1>5, <2>3 DEF Before
  <2> QED BY <1>3, <2>1, <2>2, <2>3
<1>6. ASSUME NEW x \in Values(q) PROVE x \in Values(s) \cup Values(t)
  <2>1. PICK i \in DOMAIN q : x = q[i] /\ q[i] # 0
    BY DEF Values
  <2> QED BY <1>4, <2>1
<1> QED BY <1>2, <1>5, <1>6 DEF Rising

LEMMA AppendRises ==
  ASSUME NEW s \in Seq(Samples), Rising(s), NEW e \in Samples,
         e # 0 => \A v \in Values(s) : v < e
  PROVE  Rising(Append(s, e)) /\ Values(Append(s, e)) \subseteq Values(s) \cup ({e} \ {0})
<1>1. PICK q \in Seq(Samples) : q = Append(s, e)
  BY AppendProperties
<1>2. /\ DOMAIN s = 1 .. Len(s) /\ DOMAIN q = 1 .. Len(s) + 1 /\ Len(s) \in Nat
      /\ q[Len(s) + 1] = e /\ \A i \in 1 .. Len(s) : q[i] = s[i]
  BY <1>1, AppendProperties
<1>3. ASSUME NEW i \in DOMAIN q, NEW j \in DOMAIN q, i < j, q[i] # 0, q[j] # 0
      PROVE  q[i] < q[j]
  <2>1. i \in DOMAIN s /\ q[i] = s[i]
    BY <1>2, <1>3
  <2>2. CASE j \in DOMAIN s
    BY <1>2, <1>3, <2>1, <2>2 DEF Rising
  <2>3. CASE j = Len(s) + 1
    <3>1. q[i] \in Values(s)
      BY <1>3, <2>1 DEF Values
    <3> QED BY <1>2, <1>3, <2>3, <3>1
  <2> QED BY <1>2, <2>2, <2>3
<1>4. ASSUME NEW x \in Values(q) PROVE x \in Values(s) \cup ({e} \ {0})
  <2>1. PICK i \in DOMAIN q : x = q[i] /\ x # 0
    BY DEF Values
  <2>2. CASE i \in DOMAIN s
    BY <1>2, <2>1, <2>2 DEF Values
  <2>3. CASE i = Len(s) + 1
    BY <1>2, <2>1, <2>3
  <2> QED BY <1>2, <2>2, <2>3
<1> QED BY <1>1, <1>3, <1>4 DEF Rising

\* The marked samples of a rising half rise, and are its own.
LEMMA MarksRise ==
  ASSUME NEW half \in [0 .. HalfSize - 1 -> Samples], Rising(half)
  PROVE  Rising(MarksOf(half)) /\ Values(MarksOf(half)) \subseteq Values(half)
<1>0. HalfSize \in Nat
  BY AudioStreamAssumption
<1>1. PICK f \in [0 .. HalfSize -> Seq(1 .. 2)] :
        /\ f[0] = <<>>
        /\ \A n \in 1 .. HalfSize :
             f[n] = IF half[n - 1] # 0 THEN Append(f[n - 1], half[n - 1]) ELSE f[n - 1]
        /\ MarksOf(half) = f[HalfSize]
  BY MarksOfIs
<1> DEFINE S == {n \in 0 .. HalfSize :
                   Rising(f[n]) /\ Values(f[n]) \subseteq {half[i] : i \in 0 .. n - 1} \ {0}}
<1>2. 0 \in S
  <2>1. Values(f[0]) = {} /\ Rising(f[0])
    BY <1>1, EmptyRises
  <2> QED BY <1>0, <2>1
<1>3. ASSUME NEW n \in 1 .. HalfSize, n - 1 \in S PROVE n \in S
  <2>1. n \in 0 .. HalfSize /\ n - 1 \in 0 .. HalfSize - 1 /\ n - 1 \in 0 .. HalfSize
    BY <1>0
  <2>2. PICK q \in Seq(1 .. 2) : q = f[n - 1]
    BY <1>1, <2>1
  <2>3. Rising(q) /\ Values(q) \subseteq {half[i] : i \in 0 .. (n - 1) - 1} \ {0}
    BY <1>3, <2>2
  <2>4. q \in Seq(Samples)
    <3>1. 1 .. 2 \subseteq Samples
      BY DEF Samples
    <3> QED BY <2>2, <3>1, SeqMonotonic
  <2>5. PICK e \in Samples : e = half[n - 1]
    BY <2>1
  <2>6. 0 .. n - 1 = 0 .. (n - 1) - 1 \cup {n - 1}
    BY <1>0
  <2>7. CASE e # 0
    <3>1. f[n] = Append(q, e)
      BY <1>1, <2>2, <2>5, <2>7
    <3>2. ASSUME NEW v \in Values(q) PROVE v < e
      <4>1. PICK i \in 0 .. (n - 1) - 1 : v = half[i] /\ v # 0
        BY <2>3
      <4>2. i \in DOMAIN half /\ n - 1 \in DOMAIN half /\ i < n - 1
        BY <1>0, <2>1
      <4> QED BY <2>5, <2>7, <4>1, <4>2 DEF Rising
    <3>3. Rising(Append(q, e)) /\ Values(Append(q, e)) \subseteq Values(q) \cup ({e} \ {0})
      BY <2>3, <2>4, <3>2, AppendRises
    <3>4. Values(f[n]) \subseteq {half[i] : i \in 0 .. n - 1} \ {0}
      BY <2>3, <2>5, <2>6, <3>1, <3>3
    <3> QED BY <2>1, <3>1, <3>3, <3>4
  <2>8. CASE e = 0
    <3>1. f[n] = q
      BY <1>1, <2>2, <2>5, <2>8
    <3>2. Values(f[n]) \subseteq {half[i] : i \in 0 .. n - 1} \ {0}
      BY <2>3, <2>6, <3>1
    <3> QED BY <2>1, <2>3, <3>1, <3>2
  <2> QED BY <2>7, <2>8
<1>4. HalfSize \in S
  <2> HIDE DEF S
  <2>1. 0 .. HalfSize \subseteq S
    BY <1>0, <1>2, <1>3, InductionUpTo
  <2> QED BY <1>0, <2>1
<1>5. Values(half) = {half[i] : i \in 0 .. HalfSize - 1} \ {0}
  BY DEF Values
<1> QED BY <1>1, <1>4, <1>5

\* The half being filled, as far as it is, and all that the DS holds or has
\* played.
Filled(s) == [k \in 1 .. s.pos |-> s.halves[s.half][k - 1]]
OnDs(s) == Values(s.played) \cup Values(Filled(s))

InOrder(s) ==
  Rising(s.played) /\ Rising(Filled(s)) /\ Before(Values(s.played), Values(Filled(s)))

\* A sample greater than all that the DS holds is written in order.
LEMMA WrittenInOrder ==
  ASSUME NEW s \in StreamStates, NEW e \in Samples, InOrder(s),
         e # 0 => \A v \in OnDs(s) : v < e
  PROVE  /\ InOrder(Written(s, e))
         /\ OnDs(Written(s, e)) \subseteq OnDs(s) \cup ({e} \ {0})
<1>0. /\ s.halves \in [Halves -> [0 .. HalfSize - 1 -> Samples]] /\ s.half \in Halves
      /\ s.pos \in 0 .. HalfSize - 1 /\ s.played \in Seq(1 .. 2)
      /\ HalfSize \in Nat \ {0}
  BY AudioStreamAssumption DEF StreamStates
<1>1. PICK p \in 0 .. HalfSize - 1 : p = s.pos
  BY <1>0
<1>2. PICK cur \in [0 .. HalfSize - 1 -> Samples] : cur = s.halves[s.half]
  BY <1>0
<1>3. PICK q : q = Filled(s)
  OBVIOUS
<1>4. q = [k \in 1 .. p |-> cur[k - 1]]
  BY <1>1, <1>2, <1>3 DEF Filled
<1>5. q \in Seq(Samples) /\ Len(q) = p
  <2>1. q \in [1 .. p -> Samples]
    BY <1>0, <1>4
  <2> QED BY <1>0, <2>1
<1>6. PICK half \in [0 .. HalfSize - 1 -> Samples] : half = HalfWith(s, e)
  BY WrittenIs
<1>7. half = [cur EXCEPT ![p] = e]
  BY <1>1, <1>2, <1>6 DEF HalfWith
<1>8. Append(q, e) = [k \in 1 .. p + 1 |-> half[k - 1]]
  <2>1. /\ Append(q, e) \in Seq(Samples) /\ Len(Append(q, e)) = p + 1
        /\ \A k \in 1 .. p : Append(q, e)[k] = q[k]
        /\ Append(q, e)[p + 1] = e
    BY <1>5, AppendProperties
  <2>2. ASSUME NEW k \in 1 .. p + 1 PROVE Append(q, e)[k] = half[k - 1]
    BY <1>0, <1>4, <1>7, <2>1
  <2>3. PICK r \in Seq(Samples) : r = Append(q, e) /\ Len(r) = p + 1
    BY <2>1
  <2>4. r = [k \in 1 .. p + 1 |-> r[k]]
    <3>1. r \in [1 .. p + 1 -> Samples]
      BY <2>3, LenProperties
    <3> QED BY <3>1
  <2> QED BY <2>2, <2>3, <2>4
<1>9. PICK r \in Seq(Samples) : r = Append(q, e)
  BY <1>5, AppendProperties
<1>10. /\ Rising(r) /\ Values(r) \subseteq Values(q) \cup ({e} \ {0})
       /\ \A v \in Values(r), u \in Values(s.played) : u < v
  <2>1. Rising(q) /\ \A u \in Values(s.played), v \in Values(q) : u < v
    BY <1>3 DEF InOrder, Before
  <2>2. e # 0 => \A v \in Values(q) \cup Values(s.played) : v < e
    BY <1>3 DEF OnDs
  <2>3. Rising(r) /\ Values(r) \subseteq Values(q) \cup ({e} \ {0})
    BY <1>5, <1>9, <2>1, <2>2, AppendRises
  <2> QED BY <2>1, <2>2, <2>3
<1>11. PICK w \in StreamStates : w = Written(s, e)
  BY WrittenIs
<1>12. CASE p + 1 < HalfSize
  <2>1. /\ w.half = s.half /\ w.pos = p + 1 /\ w.played = s.played
        /\ w.halves = [s.halves EXCEPT ![s.half] = half]
    BY <1>1, <1>6, <1>11, <1>12, WrittenIs
  <2>3. w.halves[w.half] = half
    BY <1>0, <2>1
  <2>2. Filled(w) = r
    BY <1>8, <1>9, <2>1, <2>3 DEF Filled
  <2> QED BY <1>3, <1>10, <1>11, <2>1, <2>2 DEF InOrder, OnDs, Before
<1>13. CASE p + 1 >= HalfSize
  <2>1. w.pos = 0 /\ w.played = s.played \o MarksOf(half)
    BY <1>1, <1>6, <1>11, <1>13, WrittenIs
  <2>2. Filled(w) = <<>>
    BY <2>1 DEF Filled
  <2>3. p + 1 = HalfSize
    BY <1>0, <1>13
  <2>4. Rising(half) /\ Values(half) \subseteq Values(r)
    <3>1. r = [k \in 1 .. HalfSize |-> half[k - 1]]
      BY <1>8, <1>9, <2>3
    <3>2. \A i \in DOMAIN half : i + 1 \in DOMAIN r /\ r[i + 1] = half[i]
      BY <1>0, <3>1
    <3>3. ASSUME NEW i \in DOMAIN half, NEW j \in DOMAIN half, i < j, half[i] # 0, half[j] # 0
          PROVE  half[i] < half[j]
      <4>1. i + 1 < j + 1
        BY <1>0, <3>3
      <4> QED BY <1>10, <3>2, <3>3, <4>1 DEF Rising
    <3> QED BY <3>2, <3>3 DEF Rising, Values
  <2>5. /\ MarksOf(half) \in Seq(Samples) /\ s.played \in Seq(Samples)
        /\ Rising(MarksOf(half)) /\ Values(MarksOf(half)) \subseteq Values(half)
    <3>1. 1 .. 2 \subseteq Samples
      BY DEF Samples
    <3> QED BY <1>0, <2>4, <3>1, MarksTyped, MarksRise, SeqMonotonic
  <2>6. /\ Rising(w.played)
        /\ Values(w.played) \subseteq Values(s.played) \cup Values(MarksOf(half))
    <3>1. Before(Values(s.played), Values(MarksOf(half)))
      BY <1>10, <2>4, <2>5 DEF Before
    <3> QED BY <2>1, <2>5, <3>1, ConcatRises DEF InOrder
  <2>7. Values(w.played) \subseteq OnDs(s) \cup ({e} \ {0})
    BY <1>3, <1>10, <2>4, <2>5, <2>6 DEF OnDs
  <2> QED BY <1>11, <2>2, <2>6, <2>7, EmptyRises DEF InOrder, OnDs, Before
<1> QED BY <1>0, <1>12, <1>13

\* A rising chunk greater than all that the DS holds is written in order.
LEMMA PushInOrder ==
  ASSUME NEW chunk \in Seq(Samples), State \in StreamStates, PushChunk(chunk),
         InOrder(State), Rising(chunk), Before(OnDs(State), Values(chunk))
  PROVE  /\ InOrder(State')
         /\ OnDs(State') \subseteq OnDs(State) \cup Values(chunk)
<1>0. PICK m \in Nat : m = Len(chunk) /\ DOMAIN chunk = 1 .. m
  OBVIOUS
<1>1. PICK f \in [0 .. m -> StreamStates] :
        /\ f[0] = State
        /\ \A n \in 1 .. m : f[n] = Written(f[n - 1], chunk[n])
        /\ State' = f[m]
  BY <1>0, PushChunkIs
<1> DEFINE S == {n \in 0 .. m :
                   /\ InOrder(f[n])
                   /\ OnDs(f[n]) \subseteq OnDs(State) \cup ({chunk[i] : i \in 1 .. n} \ {0})}
<1>2. 0 \in S
  BY <1>1
<1>3. ASSUME NEW n \in 1 .. m, n - 1 \in S PROVE n \in S
  <2>1. n - 1 \in 0 .. m /\ n \in 0 .. m /\ n \in DOMAIN chunk
    BY <1>0
  <2>2. PICK s \in StreamStates : s = f[n - 1]
    BY <1>1, <2>1
  <2>3. PICK e \in Samples : e = chunk[n]
    BY <2>1
  <2>4. InOrder(s) /\ OnDs(s) \subseteq OnDs(State) \cup ({chunk[i] : i \in 1 .. n - 1} \ {0})
    BY <1>3, <2>2
  <2>5. ASSUME e # 0, NEW v \in OnDs(s) PROVE v < e
    <3>1. CASE v \in OnDs(State)
      <4>1. e \in Values(chunk)
        BY <2>1, <2>3, <2>5 DEF Values
      <4> QED BY <3>1, <4>1 DEF Before
    <3>2. CASE v \in {chunk[i] : i \in 1 .. n - 1} \ {0}
      <4>1. PICK i \in 1 .. n - 1 : v = chunk[i] /\ v # 0
        BY <3>2
      <4>2. i \in DOMAIN chunk /\ i < n
        BY <1>0
      <4> QED BY <2>1, <2>3, <2>5, <4>1, <4>2 DEF Rising
    <3> QED BY <2>4, <3>1, <3>2
  <2>6. f[n] = Written(s, e)
    BY <1>1, <2>2, <2>3
  <2>7. InOrder(f[n]) /\ OnDs(f[n]) \subseteq OnDs(s) \cup ({e} \ {0})
    BY <2>4, <2>5, <2>6, WrittenInOrder
  <2>8. 1 .. n = 1 .. n - 1 \cup {n}
    BY <1>0
  <2>9. OnDs(f[n]) \subseteq OnDs(State) \cup ({chunk[i] : i \in 1 .. n} \ {0})
    BY <2>3, <2>4, <2>7, <2>8
  <2> QED BY <2>1, <2>7, <2>9
<1>4. m \in S
  <2> HIDE DEF S
  <2>1. 0 .. m \subseteq S
    BY <1>2, <1>3, InductionUpTo
  <2> QED BY <2>1
<1>5. Values(chunk) = {chunk[i] : i \in 1 .. m} \ {0}
  BY <1>0 DEF Values
<1> QED BY <1>1, <1>4, <1>5

-----------------------------------------------------------------------------
\* The samples that the PC's ring holds, oldest first.
Window == Block(Available)

\* The place of the i-th sample of the ring.
LEMMA RingPlace ==
  ASSUME NEW t \in 0 .. PcmCap - 1, NEW i \in 1 .. PcmCap
  PROVE  /\ (t + i - 1) % PcmCap \in 0 .. PcmCap - 1
         /\ (t + i - 1) % PcmCap = IF t + i - 1 < PcmCap THEN t + i - 1 ELSE t + i - 1 - PcmCap
<1>0. PcmCap \in Nat \ {0}
  BY AudioEncAssumption
<1>1. ASSUME NEW n \in 0 .. 2 * PcmCap - 1
      PROVE  n % PcmCap = IF n < PcmCap THEN n ELSE n - PcmCap
  BY <1>0, SMTT(30)
<1>2. t + i - 1 \in 0 .. 2 * PcmCap - 1
  BY <1>0
<1>3. PICK n \in 0 .. 2 * PcmCap - 1 : n = t + i - 1
  BY <1>2
<1>4. n % PcmCap = IF n < PcmCap THEN n ELSE n - PcmCap
  BY <1>1
<1> QED BY <1>0, <1>3, <1>4

LEMMA RingNextIs ==
  ASSUME NEW i \in 0 .. PcmCap - 1
  PROVE  RingNext(i) = IF i + 1 = PcmCap THEN 0 ELSE i + 1
<1>0. PcmCap \in Nat \ {0}
  BY AudioEncAssumption
<1>1. CASE PcmCap = 1
  BY <1>0, <1>1 DEF RingNext
<1>2. CASE PcmCap # 1
  <2>1. 2 \in 1 .. PcmCap /\ i + 2 - 1 = i + 1
    BY <1>0, <1>2
  <2>2. (i + 2 - 1) % PcmCap = IF i + 2 - 1 < PcmCap THEN i + 2 - 1 ELSE i + 2 - 1 - PcmCap
    BY <2>1, RingPlace
  <2> QED BY <1>0, <2>1, <2>2 DEF RingNext
<1> QED BY <1>1, <1>2

\* A ring with the given head and tail, before or after a step.
Between(h, t) == IF h >= t THEN h - t ELSE PcmCap - t + h
Contents(p, h, t) == [i \in 1 .. Between(h, t) |-> p[(t + i - 1) % PcmCap]]

LEMMA ContentsAre ==
  ASSUME NEW p \in [0 .. PcmCap - 1 -> Samples],
         NEW h \in 0 .. PcmCap - 1, NEW t \in 0 .. PcmCap - 1
  PROVE  /\ Between(h, t) \in 0 .. PcmCap - 1
         /\ Contents(p, h, t) \in Seq(Samples) /\ Len(Contents(p, h, t)) = Between(h, t)
<1>0. PcmCap \in Nat \ {0}
  BY AudioEncAssumption
<1>1. PICK a \in 0 .. PcmCap - 1 : a = Between(h, t)
  <2>1. Between(h, t) \in 0 .. PcmCap - 1
    BY <1>0 DEF Between
  <2> QED BY <2>1
<1>2. ASSUME NEW i \in 1 .. a PROVE p[(t + i - 1) % PcmCap] \in Samples
  <2>1. i \in 1 .. PcmCap
    BY <1>0
  <2>2. (t + i - 1) % PcmCap \in 0 .. PcmCap - 1
    BY <2>1, RingPlace
  <2> QED BY <2>2
<1>3. PICK c : c = Contents(p, h, t)
  OBVIOUS
<1>4. c \in [1 .. a -> Samples]
  BY <1>1, <1>2, <1>3 DEF Contents
<1>5. c \in Seq(Samples) /\ Len(c) = a
  BY <1>0, <1>4
<1> QED BY <1>1, <1>3, <1>5

LEMMA WindowIs ==
  ASSUME RingInv
  PROVE  /\ Available \in 0 .. PcmCap - 1 /\ Available = Between(pcmHead, pcmTail)
         /\ Window \in Seq(Samples) /\ Len(Window) = Available
<1>1. Available = Between(pcmHead, pcmTail)
  BY DEF Available, Between
<1>2. Window = Contents(pcm, pcmHead, pcmTail)
  BY <1>1 DEF Window, Block, Contents
<1> QED BY <1>1, <1>2, ContentsAre DEF RingInv

LEMMA WindowIsNext ==
  ASSUME RingInv'
  PROVE  /\ Available' \in 0 .. PcmCap - 1 /\ Available' = Between(pcmHead', pcmTail')
         /\ Window' \in Seq(Samples) /\ Len(Window') = Available'
<1>1. Available' = Between(pcmHead', pcmTail')
  BY DEF Available, Between
<1>2. Window' = Contents(pcm', pcmHead', pcmTail')
  BY <1>1 DEF Window, Block, Contents
<1> QED BY <1>1, <1>2, ContentsAre DEF RingInv

\* A sample that is pushed is added to the ring, which forgets the oldest one
\* if it was full: the new window is cut out of the old one and the sample.
LEMMA PushedWindow ==
  ASSUME RingInv, NEW e \in Samples, RingPush(e), RingInv'
  PROVE  \E d \in 0 .. 1 : \A i \in 1 .. Available' :
           i + d \in 1 .. Available + 1 /\ Window'[i] = Append(Window, e)[i + d]
<1>0. /\ PcmCap \in Nat \ {0} /\ pcmHead \in 0 .. PcmCap - 1 /\ pcmTail \in 0 .. PcmCap - 1
      /\ pcm \in [0 .. PcmCap - 1 -> Samples]
  BY AudioEncAssumption DEF RingInv
<1>1. PICK h \in 0 .. PcmCap - 1, t \in 0 .. PcmCap - 1 : h = pcmHead /\ t = pcmTail
  BY <1>0
<1>2. PICK h1 \in 0 .. PcmCap - 1, t1 \in 0 .. PcmCap - 1 :
        /\ h1 = IF h + 1 = PcmCap THEN 0 ELSE h + 1
        /\ t1 = IF h1 = t THEN (IF t + 1 = PcmCap THEN 0 ELSE t + 1) ELSE t
        /\ pcmHead' = h1 /\ pcmTail' = t1
  <2>1. pcmHead' = RingNext(h) /\ pcmTail' = IF RingNext(h) = t THEN RingNext(t) ELSE t
    BY <1>1 DEF RingPush
  <2>2. /\ RingNext(h) = IF h + 1 = PcmCap THEN 0 ELSE h + 1
        /\ RingNext(t) = IF t + 1 = PcmCap THEN 0 ELSE t + 1
    BY RingNextIs
  <2> QED BY <1>0, <2>1, <2>2
<1>3. PICK a \in 0 .. PcmCap - 1 : a = Available /\ a = IF h >= t THEN h - t ELSE PcmCap - t + h
  BY <1>1, WindowIs DEF Available
<1>4. Available' = IF h1 >= t1 THEN h1 - t1 ELSE PcmCap - t1 + h1
  BY <1>2 DEF Available
<1>5. PICK d \in 0 .. 1 : d = IF h1 = t THEN 1 ELSE 0
  <2>1. (IF h1 = t THEN 1 ELSE 0) \in 0 .. 1
    OBVIOUS
  <2> QED BY <2>1
<1>6. PICK a1 \in 0 .. PcmCap - 1 : a1 = Available' /\ a1 = a + 1 - d
  <2>1. PICK a1 \in 0 .. PcmCap - 1 : a1 = Available'
    BY WindowIsNext
  <2>2. a1 = IF h1 >= t1 THEN h1 - t1 ELSE PcmCap - t1 + h1
    BY <1>4, <2>1
  <2>3. a1 = a + 1 - d
    BY <1>0, <1>2, <1>3, <1>5, <2>2
  <2> QED BY <2>1, <2>3
<1>7. PICK pcm1 : pcm1 = [pcm EXCEPT ![h] = e] /\ pcm' = pcm1
  BY <1>1 DEF RingPush
<1>8. ASSUME NEW i \in 1 .. a1
      PROVE  i + d \in 1 .. a + 1 /\ Window'[i] = Append(Window, e)[i + d]
  <2>1. i + d \in 1 .. a + 1 /\ i \in 1 .. PcmCap /\ i + d \in 1 .. PcmCap
    BY <1>0, <1>6
  <2>2. PICK k \in 0 .. PcmCap - 1 :
          /\ k = (t1 + i - 1) % PcmCap
          /\ k = IF t1 + i - 1 < PcmCap THEN t1 + i - 1 ELSE t1 + i - 1 - PcmCap
    BY <2>1, RingPlace
  <2>3. Window'[i] = pcm1[k]
    BY <1>2, <1>6, <1>7, <2>2 DEF Window, Block
  <2>4. Window \in Seq(Samples) /\ Len(Window) = a
    BY <1>3, WindowIs
  <2>5. CASE i + d = a + 1
    <3>1. Append(Window, e)[i + d] = e
      BY <2>4, <2>5, AppendProperties
    <3>2. k = h
      BY <1>0, <1>2, <1>3, <1>5, <2>2, <2>5
    <3> QED BY <1>0, <1>1, <1>7, <2>1, <2>3, <3>1, <3>2
  <2>6. CASE i + d # a + 1
    <3>1. i + d \in 1 .. a
      BY <2>1, <2>6
    <3>2. Append(Window, e)[i + d] = Window[i + d]
      BY <2>4, <3>1, AppendProperties
    <3>3. Window[i + d] = pcm[(t + (i + d) - 1) % PcmCap]
      BY <1>1, <1>3, <3>1 DEF Window, Block
    <3>4. (t + (i + d) - 1) % PcmCap =
            IF t + (i + d) - 1 < PcmCap THEN t + (i + d) - 1 ELSE t + (i + d) - 1 - PcmCap
      BY <2>1, RingPlace
    <3>5. k = (t + (i + d) - 1) % PcmCap /\ k # h
      BY <1>0, <1>2, <1>3, <1>5, <2>2, <3>1, <3>4
    <3> QED BY <1>0, <1>7, <2>1, <2>3, <3>2, <3>3, <3>5
  <2> QED BY <2>5, <2>6
<1> QED BY <1>3, <1>6, <1>8

LEMMA PushKeepsOrder ==
  ASSUME RingInv, NEW e \in Samples, RingPush(e), RingInv', Rising(Window),
         e # 0 => \A v \in Values(Window) : v < e
  PROVE  Rising(Window') /\ Values(Window') \subseteq Values(Window) \cup ({e} \ {0})
<1>1. /\ Window \in Seq(Samples) /\ Len(Window) = Available
      /\ Window' \in Seq(Samples) /\ Len(Window') = Available'
  BY WindowIs, WindowIsNext
<1>2. PICK q \in Seq(Samples) : q = Append(Window, e) /\ Len(q) = Available + 1
  BY <1>1, AppendProperties
<1>3. PICK w \in Seq(Samples) : w = Window' /\ Len(w) = Available'
  BY <1>1
<1>4. PICK d \in 0 .. 1 : \A i \in 1 .. Len(w) : i + d \in 1 .. Len(q) /\ w[i] = q[i + d]
  BY <1>2, <1>3, PushedWindow
<1>5. Rising(q) /\ Values(q) \subseteq Values(Window) \cup ({e} \ {0})
  BY <1>1, <1>2, AppendRises
<1>6. Rising(w) /\ Values(w) \subseteq Values(q)
  <2>1. d \in Nat
    OBVIOUS
  <2> QED BY <1>4, <1>5, <2>1, CutRises
<1> QED BY <1>3, <1>5, <1>6

\* A block that is popped is the front of the ring, and the rest stays.
LEMMA PopKeepsOrder ==
  ASSUME RingInv, RingInv', Available >= ChunkMin, PopBlock(ChunkSize), Rising(Window)
  PROVE  /\ Rising(Block(ChunkSize)) /\ Rising(Window')
         /\ Values(Block(ChunkSize)) \subseteq Values(Window)
         /\ Values(Window') \subseteq Values(Window)
         /\ Before(Values(Block(ChunkSize)), Values(Window'))
<1>0. /\ PcmCap \in Nat \ {0} /\ pcmHead \in 0 .. PcmCap - 1 /\ pcmTail \in 0 .. PcmCap - 1
      /\ ChunkMin \in Nat \ {0} /\ ChunkMax \in Nat \ {0}
  BY AudioEncAssumption DEF RingInv
<1>1. PICK h \in 0 .. PcmCap - 1, t \in 0 .. PcmCap - 1 : h = pcmHead /\ t = pcmTail
  BY <1>0
<1>2. PICK a \in 0 .. PcmCap - 1 : a = Available /\ a = IF h >= t THEN h - t ELSE PcmCap - t + h
  BY <1>1, WindowIs DEF Available
<1>3. PICK n \in 1 .. a : n = ChunkSize
  BY <1>0, <1>2 DEF ChunkSize
<1>4. PICK t1 \in 0 .. PcmCap - 1 :
        /\ t1 = IF t + n < PcmCap THEN t + n ELSE t + n - PcmCap
        /\ pcmTail' = t1 /\ pcmHead' = h /\ pcm' = pcm
  <2>1. n + 1 \in 1 .. PcmCap /\ t + (n + 1) - 1 = t + n
    BY <1>0
  <2>2. (t + (n + 1) - 1) % PcmCap \in 0 .. PcmCap - 1
        /\ (t + (n + 1) - 1) % PcmCap =
             IF t + (n + 1) - 1 < PcmCap THEN t + (n + 1) - 1 ELSE t + (n + 1) - 1 - PcmCap
    BY <2>1, RingPlace
  <2>3. (t + n) % PcmCap \in 0 .. PcmCap - 1
        /\ (t + n) % PcmCap = IF t + n < PcmCap THEN t + n ELSE t + n - PcmCap
    BY <2>1, <2>2
  <2> QED BY <1>1, <1>3, <2>3 DEF PopBlock
<1>5. Available' = a - n
  <2>1. Available' = IF h >= t1 THEN h - t1 ELSE PcmCap - t1 + h
    BY <1>4 DEF Available
  <2> QED BY <1>0, <1>2, <1>4, <2>1
<1>6. PICK w \in Seq(Samples) : w = Window /\ Len(w) = a
  BY <1>2, WindowIs
<1>7. PICK w1 \in Seq(Samples) : w1 = Window' /\ Len(w1) = a - n
  BY <1>5, WindowIsNext
<1>8. PICK b \in Seq(Samples) : b = Block(ChunkSize) /\ Len(b) = n
  <2>1. Block(ChunkSize) \in Seq(Samples)
    BY BlockIsChunk DEF Chunks
  <2>2. Block(n) = [i \in 1 .. n |-> pcm[(pcmTail + i - 1) % PcmCap]] /\ n \in Nat
    BY <1>3 DEF Block
  <2>3. Len(Block(n)) = n
    BY <2>2
  <2> QED BY <1>3, <2>1, <2>3
<1>9. \A i \in 1 .. Len(b) : i + 0 \in 1 .. Len(w) /\ i \in 1 .. n /\ b[i] = w[i + 0] /\ b[i] = w[i]
  <2>1. ASSUME NEW i \in 1 .. n PROVE b[i] = w[i] /\ i \in 1 .. a
    <3>1. i \in 1 .. a
      OBVIOUS
    <3>2. w[i] = pcm[(pcmTail + i - 1) % PcmCap]
      BY <1>2, <1>6, <3>1 DEF Window, Block
    <3>3. b[i] = pcm[(pcmTail + i - 1) % PcmCap]
      BY <1>3, <1>8 DEF Block
    <3> QED BY <3>1, <3>2, <3>3
  <2> QED BY <1>6, <1>8, <2>1
<1>10. ASSUME NEW i \in 1 .. a - n
       PROVE  i + n \in 1 .. a /\ w1[i] = w[i + n]
  <2>1. i + n \in 1 .. a /\ i \in 1 .. PcmCap /\ i + n \in 1 .. PcmCap
    BY <1>0
  <2>2. /\ (t1 + i - 1) % PcmCap = IF t1 + i - 1 < PcmCap THEN t1 + i - 1 ELSE t1 + i - 1 - PcmCap
        /\ (t + (i + n) - 1) % PcmCap =
             IF t + (i + n) - 1 < PcmCap THEN t + (i + n) - 1 ELSE t + (i + n) - 1 - PcmCap
    BY <2>1, RingPlace
  <2>3. (t1 + i - 1) % PcmCap = (t + (i + n) - 1) % PcmCap
    BY <1>0, <1>4, <2>1, <2>2
  <2>4. w1[i] = pcm[(t1 + i - 1) % PcmCap]
    BY <1>4, <1>5, <1>7 DEF Window, Block
  <2>5. w[i + n] = pcm[(t + (i + n) - 1) % PcmCap]
    BY <1>1, <1>2, <1>6, <2>1 DEF Window, Block
  <2> QED BY <2>1, <2>3, <2>4, <2>5
<1>11. \A i \in 1 .. Len(w1) : i + n \in 1 .. Len(w) /\ w1[i] = w[i + n]
  BY <1>6, <1>7, <1>10
<1>12. Rising(b) /\ Values(b) \subseteq Values(w)
  BY <1>6, <1>9, CutRises
<1>13. Rising(w1) /\ Values(w1) \subseteq Values(w)
  <2>1. n \in Nat
    BY <1>3
  <2> QED BY <1>6, <1>11, <2>1, CutRises
<1>14. Before(Values(b), Values(w1))
  <2>1. n \in 0 .. Len(w)
    BY <1>3, <1>6
  <2> QED BY <1>6, <1>9, <1>11, <2>1, CutsApart
<1> QED BY <1>6, <1>7, <1>8, <1>12, <1>13, <1>14

-----------------------------------------------------------------------------
\* The chunks that the DS holds but has not begun to play.
Held(buf) == UNION {Values(buf[i]) : i \in DOMAIN buf}

BufInOrder(buf) ==
  /\ \A i \in DOMAIN buf : Rising(buf[i])
  /\ \A i, j \in DOMAIN buf : i < j => Before(Values(buf[i]), Values(buf[j]))

\* A chunk at the end of the queue, whose first d chunks may be gone.
LEMMA KeptInOrder ==
  ASSUME NEW buf \in Seq(Chunks), NEW q \in Seq(Chunks), NEW c \in Chunks, NEW d \in Nat,
         q # <<>>, q[Len(q)] = c,
         \A i \in 1 .. Len(q) - 1 : i + d \in DOMAIN buf /\ q[i] = buf[i + d],
         BufInOrder(buf), Rising(c), Before(Held(buf), Values(c))
  PROVE  BufInOrder(q) /\ Held(q) \subseteq Held(buf) \cup Values(c)
<1>1. DOMAIN q = 1 .. Len(q) /\ Len(q) \in Nat \ {0}
  OBVIOUS
<1>2. ASSUME NEW i \in DOMAIN q, i # Len(q)
      PROVE  i + d \in DOMAIN buf /\ q[i] = buf[i + d]
  BY <1>1, <1>2
<1>3. ASSUME NEW i \in DOMAIN q PROVE Rising(q[i])
  BY <1>1, <1>2 DEF BufInOrder
<1>4. ASSUME NEW i \in DOMAIN q, NEW j \in DOMAIN q, i < j
      PROVE  Before(Values(q[i]), Values(q[j]))
  <2>1. i # Len(q)
    BY <1>1, <1>4
  <2>2. i + d \in DOMAIN buf /\ q[i] = buf[i + d]
    BY <1>2, <2>1
  <2>3. CASE j = Len(q)
    <3>1. Values(q[i]) \subseteq Held(buf)
      BY <2>2 DEF Held
    <3> QED BY <1>1, <2>3, <3>1 DEF Before
  <2>4. CASE j # Len(q)
    <3>1. j + d \in DOMAIN buf /\ q[j] = buf[j + d]
      BY <1>2, <2>4
    <3>2. i + d < j + d
      BY <1>1, <1>4
    <3> QED BY <2>2, <3>1, <3>2 DEF BufInOrder
  <2> QED BY <2>3, <2>4
<1>5. ASSUME NEW i \in DOMAIN q PROVE Values(q[i]) \subseteq Held(buf) \cup Values(c)
  <2>1. CASE i = Len(q)
    BY <1>1, <2>1
  <2>2. CASE i # Len(q)
    BY <1>2, <2>2 DEF Held
  <2> QED BY <2>1, <2>2
<1>6. BufInOrder(q)
  BY <1>3, <1>4 DEF BufInOrder
<1>7. Held(q) \subseteq Held(buf) \cup Values(c)
  BY <1>5 DEF Held
<1> QED BY <1>6, <1>7

\* The oldest chunk is taken out of the queue.
LEMMA TakenInOrder ==
  ASSUME NEW buf \in Seq(Chunks), buf # <<>>, BufInOrder(buf), NEW q \in Seq(Chunks),
         Len(q) = Len(buf) - 1, \A i \in 1 .. Len(q) : q[i] = buf[i + 1]
  PROVE  /\ Rising(buf[1]) /\ BufInOrder(q)
         /\ Values(buf[1]) \subseteq Held(buf) /\ Held(q) \subseteq Held(buf)
         /\ Before(Values(buf[1]), Held(q))
<1>1. Len(buf) \in Nat /\ Len(buf) >= 1
  BY EmptySeq
<1>2. 1 \in DOMAIN buf /\ \A i \in DOMAIN q : i \in Nat \ {0} /\ i + 1 \in DOMAIN buf /\ q[i] = buf[i + 1]
  BY <1>1
<1>3. Rising(buf[1]) /\ Values(buf[1]) \subseteq Held(buf)
  BY <1>2 DEF BufInOrder, Held
<1>4. BufInOrder(q)
  <2>1. ASSUME NEW i \in DOMAIN q, NEW j \in DOMAIN q, i < j
        PROVE  Before(Values(q[i]), Values(q[j]))
    <3>1. i + 1 < j + 1
      BY <1>2, <2>1
    <3> QED BY <1>2, <3>1 DEF BufInOrder
  <2> QED BY <1>2, <2>1 DEF BufInOrder
<1>5. ASSUME NEW i \in DOMAIN q
      PROVE  Values(q[i]) \subseteq Held(buf) /\ Before(Values(buf[1]), Values(q[i]))
  <2>1. 1 < i + 1
    BY <1>2
  <2> QED BY <1>2, <2>1 DEF BufInOrder, Held
<1>6. Held(q) \subseteq Held(buf) /\ Before(Values(buf[1]), Held(q))
  BY <1>5 DEF Held, Before
<1> QED BY <1>3, <1>4, <1>6

-----------------------------------------------------------------------------
(***************************************************************************)
(* The DS's ring as the queue of chunks that wait to be played.  Until its *)
(* last store a pop has not taken its chunk out.  As long as no interrupt  *)
(* came in the middle of one, what the pop holds is what the ring has, and *)
(* both halves of its output are the oldest chunk.                         *)
(***************************************************************************)
Place(t, n) == (t + n) % Slots

OldTail == IF pc \in {"reloadCount", "storeCount"} THEN tailReg ELSE tail

Waiting == [i \in 1 .. count |-> slots[Place(OldTail, i - 1)]]

QueueInv ==
  /\ head = Place(OldTail, count)
  /\ \A i \in 1 .. count : slots[Place(OldTail, i - 1)] \in Chunks
  /\ pc \in {"copy", "copyRest", "reload", "storeTail"} => tailReg = tail
  /\ pc # "empty?" => countReg = count
  /\ pc \in {"reloadCount", "storeCount"} => tail = Following(tailReg)
  /\ pc \notin {"empty?", "copy"} => out[1] = slots[OldTail]
  /\ pc \notin {"empty?", "copy", "copyRest"} => out[2] = slots[OldTail]

LEMMA PlaceIs ==
  ASSUME NEW t \in Indexes, NEW n \in 0 .. Slots
  PROVE  /\ Place(t, n) \in Indexes
         /\ Place(t, n) = IF t + n < Slots THEN t + n ELSE t + n - Slots
<1>0. Slots \in Nat \ {0}
  BY RingAssumption
<1>1. ASSUME NEW k \in 0 .. 2 * Slots - 1
      PROVE  k % Slots = IF k < Slots THEN k ELSE k - Slots
  BY <1>0, SMTT(30)
<1>2. PICK k \in 0 .. 2 * Slots - 1 : k = t + n
  BY <1>0 DEF Indexes
<1>3. k % Slots = IF k < Slots THEN k ELSE k - Slots
  BY <1>1
<1> QED BY <1>0, <1>2, <1>3 DEF Place, Indexes

\* One place on, and n from there.
LEMMA PlaceOn ==
  ASSUME NEW t \in Indexes, NEW n \in 0 .. Slots - 1
  PROVE  Following(t) \in Indexes /\ Place(Following(t), n) = Place(t, n + 1)
<1>0. Slots \in Nat \ {0} /\ 1 \in 0 .. Slots /\ n \in 0 .. Slots /\ n + 1 \in 0 .. Slots
  BY RingAssumption
<1>1. Following(t) = Place(t, 1)
  BY DEF Following, Place
<1>2. PICK u \in Indexes : u = Following(t) /\ u = IF t + 1 < Slots THEN t + 1 ELSE t + 1 - Slots
  BY <1>0, <1>1, PlaceIs
<1>3. Place(u, n) = IF u + n < Slots THEN u + n ELSE u + n - Slots
  BY <1>0, PlaceIs
<1>4. Place(t, n + 1) = IF t + (n + 1) < Slots THEN t + (n + 1) ELSE t + (n + 1) - Slots
  BY <1>0, PlaceIs
<1> QED BY <1>0, <1>2, <1>3, <1>4 DEF Indexes

LEMMA PlacesApart ==
  ASSUME NEW t \in Indexes, NEW m \in 0 .. Slots, NEW n \in 0 .. Slots, m < n, n - m < Slots
  PROVE  Place(t, m) # Place(t, n)
<1>1. Place(t, m) = IF t + m < Slots THEN t + m ELSE t + m - Slots
  BY PlaceIs
<1>2. Place(t, n) = IF t + n < Slots THEN t + n ELSE t + n - Slots
  BY PlaceIs
<1> QED BY <1>1, <1>2, RingAssumption DEF Indexes

LEMMA WaitingIs ==
  ASSUME DsRingInv, QueueInv
  PROVE  /\ Waiting \in Seq(Chunks) /\ Len(Waiting) = count
         /\ \A i \in 1 .. count : Waiting[i] = slots[Place(OldTail, i - 1)]
<1>1. count \in Nat
  BY RingAssumption DEF DsRingInv
<1>2. Waiting \in [1 .. count -> Chunks]
  BY DEF QueueInv, Waiting
<1> QED BY <1>1, <1>2 DEF Waiting

\* A push outside a pop adds its chunk, and may cost the oldest one.
LEMMA StoreWaits ==
  ASSUME DsRingInv, QueueInv, pc = "empty?", NEW c \in Chunks, Store(c), DsRingInv'
  PROVE  /\ QueueInv' /\ Waiting' \in Seq(Chunks)
         /\ Waiting' # <<>> /\ Waiting'[Len(Waiting')] = c
         /\ \E d \in 0 .. 1 : \A i \in 1 .. Len(Waiting') - 1 :
              i + d \in DOMAIN Waiting /\ Waiting'[i] = Waiting[i + d]
<1>0. /\ Slots \in Nat \ {0} /\ tail \in Indexes /\ count \in 0 .. Slots
      /\ slots \in [Indexes -> Frames]
      /\ pc' = "empty?" /\ OldTail = tail /\ OldTail' = tail' /\ head = Place(tail, count)
  BY RingAssumption DEF DsRingInv, QueueInv, OldTail, Store, pop
<1>1. PICK d \in 0 .. 1 : d = IF count = Slots THEN 1 ELSE 0
  BY 0 \in 0 .. 1, 1 \in 0 .. 1
<1>2. count' = count + 1 - d /\ count' \in 1 .. Slots /\ tail' \in Indexes
  BY <1>0, <1>1 DEF Store, DsRingInv
<1>3. ASSUME NEW n \in 0 .. Slots - 1 PROVE Place(tail', n) = Place(tail, n + d)
  BY <1>0, <1>1, PlaceOn DEF Store
<1>4. head' = Place(tail', count')
  <2>1. head' = Following(head) /\ head \in Indexes
    BY DEF Store, DsRingInv
  <2>2. Following(head) = Place(tail, count + 1) \/ count = Slots
    <3>1. CASE count # Slots
      <4>1. count + 1 \in 0 .. Slots /\ 1 \in 0 .. Slots /\ count \in 0 .. Slots
        BY <1>0, <3>1
      <4>2. Place(head, 1) = Following(head)
        BY DEF Place, Following
      <4>3. Place(head, 1) = IF head + 1 < Slots THEN head + 1 ELSE head + 1 - Slots
        BY <2>1, <4>1, PlaceIs
      <4>4. head = IF tail + count < Slots THEN tail + count ELSE tail + count - Slots
        BY <1>0, <4>1, PlaceIs
      <4>5. Place(tail, count + 1)
              = IF tail + (count + 1) < Slots THEN tail + (count + 1) ELSE tail + (count + 1) - Slots
        BY <1>0, <4>1, PlaceIs
      <4> QED BY <1>0, <4>2, <4>3, <4>4, <4>5 DEF Indexes
    <3> QED BY <3>1
  <2>3. CASE count # Slots
    BY <1>0, <1>1, <1>2, <2>1, <2>2, <2>3 DEF Store
  <2>4. CASE count = Slots
    <3>1. head = tail /\ tail' = Following(tail)
      BY <1>0, <2>4, PlaceIs DEF Store, Indexes
    <3>2. Place(tail', Slots) = tail'
      BY <1>0, <1>2, PlaceIs DEF Indexes
    <3>3. d = 1 /\ count' = Slots
      BY <1>0, <1>1, <1>2, <2>4
    <3> QED BY <2>1, <3>1, <3>2, <3>3
  <2> QED BY <2>3, <2>4
<1>5. slots'[Place(tail', count' - 1)] = c
  <2>1. Place(tail', count' - 1) = Place(tail, count)
    <3>1. count' - 1 \in 0 .. Slots - 1 /\ (count' - 1) + d = count
      BY <1>0, <1>1, <1>2
    <3> QED BY <1>3, <3>1
  <2> QED BY <1>0, <2>1 DEF Store, DsRingInv
<1>6. ASSUME NEW i \in 1 .. count' - 1
      PROVE  /\ i + d \in 1 .. count
             /\ slots'[Place(tail', i - 1)] = slots[Place(tail, (i + d) - 1)]
  <2>1. /\ i - 1 \in 0 .. Slots - 1 /\ (i - 1) + d = (i + d) - 1 /\ i + d \in 1 .. count
        /\ (i + d) - 1 \in 0 .. Slots /\ (i + d) - 1 < count /\ count - ((i + d) - 1) < Slots
    BY <1>0, <1>1, <1>2
  <2>2. Place(tail', i - 1) = Place(tail, (i + d) - 1)
    BY <1>3, <2>1
  <2>3. Place(tail, (i + d) - 1) # head /\ Place(tail, (i + d) - 1) \in Indexes
    BY <1>0, <2>1, PlacesApart, PlaceIs
  <2> QED BY <1>0, <2>1, <2>2, <2>3 DEF Store
<1>7. ASSUME NEW i \in 1 .. count' PROVE slots'[Place(tail', i - 1)] \in Chunks
  <2>1. CASE i = count'
    BY <1>5, <2>1
  <2>2. CASE i # count'
    <3>1. i \in 1 .. count' - 1
      BY <1>2, <2>2
    <3> QED BY <1>0, <1>6, <3>1 DEF QueueInv
  <2> QED BY <2>1, <2>2
<1>8. QueueInv'
  BY <1>0, <1>4, <1>7 DEF QueueInv
<1>9. /\ Waiting \in Seq(Chunks) /\ Len(Waiting) = count
      /\ \A i \in 1 .. count : Waiting[i] = slots[Place(tail, i - 1)]
  BY <1>0, WaitingIs
<1>10. /\ Waiting' \in Seq(Chunks) /\ Len(Waiting') = count'
       /\ \A i \in 1 .. count' : Waiting'[i] = slots'[Place(tail', i - 1)]
  <2>1. count' \in Nat
    BY <1>2
  <2>2. Waiting' = [i \in 1 .. count' |-> slots'[Place(tail', i - 1)]]
    BY <1>0 DEF Waiting
  <2>3. Waiting' \in [1 .. count' -> Chunks]
    BY <1>7, <2>2
  <2> QED BY <2>1, <2>2, <2>3
<1>11. Waiting' # <<>> /\ Waiting'[Len(Waiting')] = c
  BY <1>2, <1>5, <1>10, EmptySeq
<1>12. ASSUME NEW i \in 1 .. Len(Waiting') - 1
       PROVE  i + d \in DOMAIN Waiting /\ Waiting'[i] = Waiting[i + d]
  <2>1. i \in 1 .. count' - 1 /\ i \in 1 .. count'
    BY <1>0, <1>2, <1>10
  <2>2. i + d \in 1 .. count /\ Waiting'[i] = slots[Place(tail, (i + d) - 1)]
    BY <1>6, <1>10, <2>1
  <2>3. DOMAIN Waiting = 1 .. count
    BY DEF Waiting
  <2> QED BY <1>9, <2>2, <2>3
<1> QED BY <1>8, <1>10, <1>11, <1>12

\* Until its last store a pop leaves the queue as it is.
LEMMA PopWaits ==
  ASSUME DsRingInv, QueueInv,
         PopStart \/ PopCopy \/ PopCopyRest \/ PopReload \/ PopStoreTail \/ PopReloadCount
  PROVE  QueueInv' /\ Waiting' = Waiting
<1>1. OldTail' = OldTail /\ UNCHANGED <<slots, head, count>>
  BY DEF QueueInv, OldTail, PopStart, PopCopy, PopCopyRest, PopReload, PopStoreTail,
         PopReloadCount, ringVars
<1>2. Waiting' = Waiting
  BY <1>1 DEF Waiting
<1>3. /\ head' = Place(OldTail', count')
      /\ \A i \in 1 .. count' : slots'[Place(OldTail', i - 1)] \in Chunks
  BY <1>1 DEF QueueInv
<1>4. PopStart => QueueInv'
  BY <1>1, <1>3 DEF QueueInv, PopStart, ringVars
<1>5. PopCopy => QueueInv'
  BY <1>1, <1>3 DEF QueueInv, DsRingInv, PopCopy, ringVars, OldTail
<1>6. PopCopyRest => QueueInv'
  BY <1>1, <1>3 DEF QueueInv, DsRingInv, PopCopyRest, ringVars, OldTail
<1>7. PopReload => QueueInv'
  BY <1>1, <1>3 DEF QueueInv, PopReload, ringVars
<1>8. PopStoreTail => QueueInv'
  BY <1>1, <1>3 DEF QueueInv, PopStoreTail
<1>9. PopReloadCount => QueueInv'
  BY <1>1, <1>3 DEF QueueInv, PopReloadCount, ringVars
<1> QED BY <1>2, <1>4, <1>5, <1>6, <1>7, <1>8, <1>9

\* With it the oldest chunk leaves, and is what the pop hands out.
LEMMA PopTakes ==
  ASSUME DsRingInv, QueueInv, PopStoreCount(NoFrame), DsRingInv'
  PROVE  /\ QueueInv' /\ Waiting # <<>> /\ Joined(out[1], out[2]) = Waiting[1]
         /\ Waiting' \in Seq(Chunks) /\ Len(Waiting') = Len(Waiting) - 1
         /\ \A i \in 1 .. Len(Waiting') : Waiting'[i] = Waiting[i + 1]
<1>0. /\ Slots \in Nat \ {0} /\ tailReg \in Indexes /\ count \in 1 .. Slots /\ countReg = count
      /\ slots \in [Indexes -> Frames] /\ pc = "storeCount" /\ pc' = "empty?"
      /\ OldTail = tailReg /\ OldTail' = tail' /\ tail' = Following(tailReg)
      /\ count' = count - 1 /\ UNCHANGED <<slots, head>>
      /\ head = Place(tailReg, count)
  BY RingAssumption DEF DsRingInv, QueueInv, OldTail, PopStoreCount
<1>1. ASSUME NEW n \in 0 .. Slots - 1 PROVE Place(tail', n) = Place(tailReg, n + 1)
  BY <1>0, PlaceOn
<1>2. head' = Place(OldTail', count')
  <2>1. count - 1 \in 0 .. Slots - 1 /\ (count - 1) + 1 = count
    BY <1>0
  <2> QED BY <1>0, <1>1, <2>1
<1>3. /\ Waiting \in Seq(Chunks) /\ Len(Waiting) = count
      /\ \A i \in 1 .. count : Waiting[i] = slots[Place(tailReg, i - 1)]
  BY <1>0, WaitingIs
<1>4. ASSUME NEW i \in 1 .. count'
      PROVE  /\ i + 1 \in 1 .. count
             /\ slots'[Place(tail', i - 1)] = slots[Place(tailReg, (i + 1) - 1)]
  <2>1. i - 1 \in 0 .. Slots - 1 /\ (i - 1) + 1 = (i + 1) - 1 /\ i + 1 \in 1 .. count
    BY <1>0
  <2> QED BY <1>0, <1>1, <2>1
<1>5. \A i \in 1 .. count' : slots'[Place(OldTail', i - 1)] \in Chunks
  BY <1>0, <1>4 DEF QueueInv
<1>6. QueueInv'
  BY <1>0, <1>2, <1>5 DEF QueueInv
<1>7. /\ Waiting' \in Seq(Chunks) /\ Len(Waiting') = count'
      /\ \A i \in 1 .. count' : Waiting'[i] = slots'[Place(tail', i - 1)]
  <2>1. count' \in Nat
    BY <1>0
  <2>2. Waiting' = [i \in 1 .. count' |-> slots'[Place(tail', i - 1)]]
    BY <1>0 DEF Waiting
  <2>3. Waiting' \in [1 .. count' -> Chunks]
    BY <1>0, <1>5, <2>2
  <2> QED BY <2>1, <2>2, <2>3
<1>8. Joined(out[1], out[2]) = Waiting[1]
  <2>1. out[1] = slots[tailReg] /\ out[2] = slots[tailReg]
    BY <1>0 DEF QueueInv
  <2>2. Waiting[1] = slots[tailReg]
    <3>1. Place(tailReg, 1 - 1) = tailReg /\ 1 \in 1 .. count
      <4>1. 1 - 1 = 0 /\ 0 \in 0 .. Slots
        BY <1>0
      <4> QED BY <1>0, <4>1, PlaceIs DEF Indexes
    <3> QED BY <1>3, <3>1
  <2>3. PICK a \in Chunks : a = Waiting[1]
    BY <1>0, <1>3
  <2>4. Joined(a, a) = [i \in 1 .. Len(a) |-> a[i]]
    BY DEF Joined
  <2>5. a = [i \in 1 .. Len(a) |-> a[i]]
    BY DEF Chunks
  <2> QED BY <2>1, <2>2, <2>3, <2>4, <2>5
<1> QED BY <1>0, <1>3, <1>4, <1>6, <1>7, <1>8, EmptySeq

-----------------------------------------------------------------------------
(***************************************************************************)
(* From the DS back to the PC: where a marked sample can be.  A place that *)
(* is nearer to the ear holds the smaller ones, and all of them have been  *)
(* recorded.                                                               *)
(***************************************************************************)
Places == <<OnDs(State), Held(Waiting), Values(frame), Values(datagram), Values(Window)>>

Apart(h) == \A i, j \in 1 .. 5 : i < j => Before(h[i], h[j])
Recorded(h, n) == \A i \in 1 .. 5 : h[i] \subseteq 1 .. n

OrderInv ==
  /\ marks \in 0 .. 2
  /\ InOrder(State) /\ QueueInv /\ BufInOrder(Waiting)
  /\ Rising(frame) /\ Rising(datagram) /\ Rising(Window)
  /\ Apart(Places) /\ Recorded(Places, marks)

\* Samples may pass from one place to the next one, and get lost anywhere.
LEMMA Passing ==
  ASSUME NEW h, NEW g, NEW n, Apart(h), Recorded(h, n), NEW k \in 1 .. 4,
         g[k] \subseteq h[k] \cup h[k + 1], g[k + 1] \subseteq h[k + 1],
         Before(g[k], g[k + 1]),
         \A i \in 1 .. 5 : i # k /\ i # k + 1 => g[i] \subseteq h[i]
  PROVE  Apart(g) /\ Recorded(g, n)
<1>1. ASSUME NEW i \in 1 .. 5, NEW j \in 1 .. 5, i < j PROVE Before(g[i], g[j])
  <2>1. CASE i = k /\ j = k + 1
    BY <2>1
  <2>2. CASE i = k /\ j # k + 1
    <3>1. k + 1 \in 1 .. 5 /\ k + 1 < j /\ k < j /\ j # k
      BY <1>1, <2>2
    <3>2. Before(h[k], h[j]) /\ Before(h[k + 1], h[j]) /\ g[j] \subseteq h[j]
      BY <2>2, <3>1 DEF Apart
    <3> QED BY <2>2, <3>2 DEF Before
  <2>3. CASE i # k /\ j = k
    <3>1. k + 1 \in 1 .. 5 /\ i < k + 1 /\ i # k + 1
      BY <1>1, <2>3
    <3>2. Before(h[i], h[k]) /\ Before(h[i], h[k + 1]) /\ g[i] \subseteq h[i]
      BY <1>1, <2>3, <3>1 DEF Apart
    <3> QED BY <2>3, <3>2 DEF Before
  <2>4. CASE i # k /\ j # k
    <3>1. g[i] \subseteq h[i] /\ g[j] \subseteq h[j] /\ Before(h[i], h[j])
      BY <1>1, <2>4 DEF Apart
    <3> QED BY <3>1 DEF Before
  <2> QED BY <1>1, <2>1, <2>2, <2>3, <2>4
<1>2. ASSUME NEW i \in 1 .. 5 PROVE g[i] \subseteq 1 .. n
  <2>1. k + 1 \in 1 .. 5
    OBVIOUS
  <2> QED BY <2>1 DEF Recorded
<1> QED BY <1>1, <1>2 DEF Apart, Recorded

LEMMA Losing ==
  ASSUME NEW h, NEW g, NEW n, Apart(h), Recorded(h, n), \A i \in 1 .. 5 : g[i] \subseteq h[i]
  PROVE  Apart(g) /\ Recorded(g, n)
<1>1. ASSUME NEW i \in 1 .. 5, NEW j \in 1 .. 5, i < j PROVE Before(g[i], g[j])
  BY <1>1 DEF Apart, Before
<1> QED BY <1>1 DEF Apart, Recorded

\* A sample that is recorded is greater than all that were.
LEMMA Recording ==
  ASSUME NEW h, NEW g, NEW n \in Nat, NEW e \in Nat, Apart(h), Recorded(h, n),
         e = 0 \/ e = n + 1, \A i \in 1 .. 4 : g[i] \subseteq h[i],
         g[5] \subseteq h[5] \cup ({e} \ {0})
  PROVE  Apart(g) /\ Recorded(g, IF e = 0 THEN n ELSE e)
<1>1. ASSUME NEW i \in 1 .. 5, NEW j \in 1 .. 5, i < j PROVE Before(g[i], g[j])
  <2>1. i \in 1 .. 4 /\ g[i] \subseteq h[i] /\ h[i] \subseteq 1 .. n /\ Before(h[i], h[j])
    BY <1>1 DEF Apart, Recorded
  <2>2. CASE j = 5
    <3> SUFFICES ASSUME NEW x \in g[i], NEW y \in g[5] PROVE x < y
      BY <2>2 DEF Before
    <3>1. x \in 1 .. n
      BY <2>1
    <3> QED BY <2>1, <2>2, <3>1 DEF Before
  <2>3. CASE j # 5
    <3>1. g[j] \subseteq h[j]
      BY <2>3
    <3> QED BY <2>1, <3>1 DEF Before
  <2> QED BY <2>2, <2>3
<1>2. ASSUME NEW i \in 1 .. 5 PROVE g[i] \subseteq 1 .. (IF e = 0 THEN n ELSE e)
  <2>1. g[i] \subseteq h[i] \cup ({e} \ {0}) /\ h[i] \subseteq 1 .. n
    BY DEF Recorded
  <2>2. CASE e = 0
    BY <2>1, <2>2
  <2>3. CASE e # 0
    <3>1. e = n + 1
      BY <2>3
    <3>2. 1 .. n \subseteq 1 .. e /\ e \in 1 .. e
      BY <3>1
    <3> QED BY <2>1, <2>3, <3>2
  <2> QED BY <2>2, <2>3
<1> QED BY <1>1, <1>2 DEF Apart, Recorded

LEMMA OrderInit == AudioInit => OrderInv
<1> SUFFICES ASSUME AudioInit PROVE OrderInv
  OBVIOUS
<1>1. InOrder(State) /\ OnDs(State) = {}
  <2>1. State.played = <<>> /\ State.pos = 0
    BY DEF AudioInit, StreamInit, State
  <2>2. Filled(State) = <<>>
    BY <2>1 DEF Filled
  <2> QED BY <2>1, <2>2, EmptyRises DEF InOrder, OnDs, Before
<1>2. QueueInv /\ BufInOrder(Waiting) /\ Held(Waiting) = {}
  <2>1. pc = "empty?" /\ count = 0 /\ head = 0 /\ tail = 0 /\ OldTail = 0 /\ 0 \in Indexes
    BY RingAssumption DEF AudioInit, RingIrqInit, OldTail, Indexes
  <2>2. Place(0, 0) = 0 /\ 1 .. count = {}
    BY <2>1, RingAssumption, PlaceIs DEF Indexes
  <2>3. Waiting = <<>>
    BY <2>1 DEF Waiting
  <2> QED BY <2>1, <2>2, <2>3 DEF QueueInv, BufInOrder, Held
<1>3. frame = <<>> /\ datagram = <<>> /\ Window = <<>>
  <2>1. Available = 0
    BY DEF AudioInit, EncInit, Available
  <2> QED BY <2>1 DEF AudioInit, WlInit, NoFrame, Window, Block
<1>4. /\ Places[1] = {} /\ Places[2] = {} /\ Places[3] = {} /\ Places[4] = {}
      /\ Places[5] = {}
  BY <1>1, <1>2, <1>3, EmptyRises DEF Places
<1>5. \A i \in 1 .. 5 : Places[i] = {}
  BY <1>4
<1>6. Apart(Places) /\ Recorded(Places, marks)
  BY <1>5 DEF Apart, Recorded, Before
<1>7. marks \in 0 .. 2
  BY DEF AudioInit, EncInit
<1> QED BY <1>1, <1>2, <1>3, <1>6, <1>7, EmptyRises DEF OrderInv

\* The ring of a PC that starts is empty, and one that stops holds silence.
LEMMA SwitchedWindow ==
  ASSUME RingInv, RingInv', EncStart \/ EncStop
  PROVE  Rising(Window') /\ Values(Window') = {}
<1>1. CASE EncStart
  <2>1. Available' = 0
    BY <1>1 DEF EncStart, Available
  <2>2. Window' = <<>>
    BY <2>1 DEF Window, Block
  <2> QED BY <2>2, EmptyRises
<1>2. CASE EncStop
  <2>1. PICK a \in 0 .. PcmCap - 1, t \in 0 .. PcmCap - 1 : a = Available' /\ t = pcmTail'
    BY WindowIsNext DEF RingInv
  <2>2. ASSUME NEW i \in 1 .. a PROVE pcm'[(t + i - 1) % PcmCap] = 0
    <3>1. i \in 1 .. PcmCap
      BY AudioEncAssumption
    <3>2. (t + i - 1) % PcmCap \in 0 .. PcmCap - 1
      BY <3>1, RingPlace
    <3> QED BY <1>2, <3>2 DEF EncStop
  <2>3. Window' = [i \in 1 .. a |-> 0]
    BY <2>1, <2>2 DEF Window, Block
  <2> QED BY <2>3 DEF Rising, Values
<1> QED BY <1>1, <1>2

\* A race is not forgotten, so there has been none before the step either.
LEMMA OrderNext ==
  LinkInv /\ LinkInv' /\ RestInv /\ (raced \/ OrderInv) /\ [AudioNext]_audioVars
    => raced' \/ OrderInv'
<1> SUFFICES ASSUME LinkInv, LinkInv', RestInv, raced \/ OrderInv, [AudioNext]_audioVars, ~raced'
             PROVE  OrderInv'
  OBVIOUS
<1>0. RingInv /\ RingInv' /\ DsRingInv /\ DsRingInv'
  BY DEF LinkInv
<1>r. raced' = raced \/ raced' = (raced \/ pc # "empty?")
  BY DEF AudioNext, audioVars, dsRing, PcSwitch, PcPump, PcSend, WiiForwards, WiiCopies,
         WiiAck, WiiSends, DsPops, DsPlays
<1> ~raced /\ OrderInv
  BY <1>r DEF LinkInv, DsRingInv
<1>1. PICK h : h = Places
  OBVIOUS
<1>2. /\ h[1] = OnDs(State) /\ h[2] = Held(Waiting) /\ h[3] = Values(frame)
      /\ h[4] = Values(datagram) /\ h[5] = Values(Window)
  BY <1>1 DEF Places
<1>3. PICK g : g = Places'
  OBVIOUS
<1>4. /\ g[1] = OnDs(State)' /\ g[2] = Held(Waiting)' /\ g[3] = Values(frame)'
      /\ g[4] = Values(datagram)' /\ g[5] = Values(Window)'
  BY <1>3 DEF Places
<1>5. Apart(h) /\ Recorded(h, marks) /\ marks \in 0 .. 2
  BY <1>1 DEF OrderInv
<1>6. ASSUME UNCHANGED stream
      PROVE  g[1] = h[1] /\ InOrder(State)'
  BY <1>2, <1>4, <1>6 DEF stream, State, OrderInv
<1>9. ASSUME UNCHANGED dsRing
      PROVE  /\ g[2] = h[2] /\ QueueInv' /\ BufInOrder(Waiting)' /\ Waiting' = Waiting
  <2>1. Waiting' = Waiting
    BY <1>9 DEF dsRing, ringVars, pop, Waiting, OldTail
  <2>2. QueueInv'
    BY <1>9 DEF dsRing, ringVars, pop, QueueInv, OldTail, OrderInv
  <2> QED BY <1>2, <1>4, <2>1, <2>2 DEF OrderInv
<1>7. ASSUME UNCHANGED <<frame, datagram, dsRing>>
      PROVE  /\ g[2] = h[2] /\ g[3] = h[3] /\ g[4] = h[4]
             /\ QueueInv' /\ BufInOrder(Waiting)' /\ Rising(frame)' /\ Rising(datagram)'
  BY <1>2, <1>4, <1>7, <1>9 DEF OrderInv
<1>8. ASSUME UNCHANGED enc
      PROVE  g[5] = h[5] /\ Rising(Window)' /\ marks' = marks
  BY <1>2, <1>4, <1>8 DEF enc, Window, Block, Available, OrderInv
<1>11. CASE PcSwitch
  <2>1. UNCHANGED <<stream, frame, datagram, dsRing>> /\ marks' = marks
    BY <1>11 DEF PcSwitch, EncStart, EncStop, wl
  <2>2. Rising(Window)' /\ g[5] \subseteq h[5]
    BY <1>0, <1>4, <1>11, SwitchedWindow DEF PcSwitch
  <2>3. \A i \in 1 .. 5 : g[i] \subseteq h[i]
    BY <1>6, <1>7, <2>1, <2>2
  <2>4. Apart(g) /\ Recorded(g, marks)
    BY <1>5, <2>3, Losing
  <2> QED BY <1>3, <1>5, <1>6, <1>7, <2>1, <2>2, <2>4 DEF OrderInv
<1>12. CASE PcPump
  <2>1. PICK e \in Samples : PumpCapture(e)
    BY <1>12 DEF PcPump
  <2>2. UNCHANGED <<stream, frame, datagram, dsRing>>
    BY <1>12 DEF PcPump, wl
  <2>3. /\ e \in Nat /\ (e = 0 \/ e = marks + 1) /\ marks' = (IF e = 0 THEN marks ELSE e)
        /\ marks' \in 0 .. 2
    BY <1>5, <2>1 DEF PumpCapture, Samples
  <2>4. e # 0 => \A v \in Values(Window) : v < e
    <3>1. h[5] \subseteq 1 .. marks
      BY <1>5 DEF Recorded
    <3> QED BY <1>2, <1>5, <2>3, <3>1
  <2>5. Rising(Window)' /\ g[5] \subseteq h[5] \cup ({e} \ {0})
    <3>1. CASE RingPush(e)
      BY <1>0, <1>2, <1>4, <2>4, <3>1, PushKeepsOrder DEF OrderInv
    <3>2. CASE UNCHANGED <<pcm, pcmHead, pcmTail>>
      BY <1>2, <1>4, <3>2 DEF Window, Block, Available, OrderInv
    <3> QED BY <2>1, <3>1, <3>2 DEF PumpCapture
  <2>6. \A i \in 1 .. 4 : g[i] \subseteq h[i]
    BY <1>6, <1>7, <2>2
  <2>7. Apart(g) /\ Recorded(g, marks')
    BY <1>5, <2>3, <2>5, <2>6, Recording
  <2> QED BY <1>3, <1>6, <1>7, <2>2, <2>3, <2>5, <2>7 DEF OrderInv
<1>13. CASE PcSend
  <2>1. /\ Available >= ChunkMin /\ PopBlock(ChunkSize)
        /\ UNCHANGED <<stream, frame, dsRing>> /\ marks' = marks
    BY <1>13 DEF PcSend, Capture, wl
  <2>2. /\ Rising(Block(ChunkSize)) /\ Rising(Window')
        /\ Values(Block(ChunkSize)) \subseteq Values(Window)
        /\ Values(Window') \subseteq Values(Window)
        /\ Before(Values(Block(ChunkSize)), Values(Window'))
    BY <1>0, <2>1, PopKeepsOrder DEF OrderInv
  <2>3. /\ g[1] = h[1] /\ g[2] = h[2] /\ g[3] = h[3] /\ InOrder(State)'
        /\ QueueInv' /\ BufInOrder(Waiting)' /\ Rising(frame)'
    BY <1>2, <1>4, <1>6, <1>9, <2>1 DEF OrderInv
  <2>4. g[5] \subseteq h[5]
    BY <1>2, <1>4, <2>2
  <2>5. Rising(datagram)' /\ g[4] \subseteq h[4] \cup h[5] /\ Before(g[4], g[5])
    <3>1. CASE datagram' = Block(ChunkSize)
      BY <1>2, <1>4, <2>2, <3>1
    <3>2. CASE UNCHANGED datagram
      <4>1. Before(h[4], h[5]) /\ g[4] = h[4]
        BY <1>2, <1>4, <1>5, <3>2 DEF Apart
      <4> QED BY <2>4, <3>2, <4>1 DEF OrderInv, Before
    <3> QED BY <1>13, <3>1, <3>2 DEF PcSend
  <2>6. \A i \in 1 .. 5 : i # 4 /\ i # 4 + 1 => g[i] \subseteq h[i]
    BY <2>3
  <2>7. Apart(g) /\ Recorded(g, marks)
    <3>1. 4 \in 1 .. 4 /\ 4 + 1 = 5
      OBVIOUS
    <3> QED BY <1>5, <2>4, <2>5, <2>6, <3>1, Passing
  <2> QED BY <1>3, <1>5, <2>1, <2>2, <2>3, <2>5, <2>7 DEF OrderInv
<1>14. CASE WiiForwards
  <2>1. UNCHANGED <<enc, stream, dsRing>> /\ datagram' = <<>>
    BY <1>14 DEF WiiForwards, NoFrame
  <2>2. /\ g[1] = h[1] /\ g[2] = h[2] /\ g[5] = h[5] /\ g[4] = {}
        /\ InOrder(State)' /\ QueueInv' /\ BufInOrder(Waiting)' /\ Rising(datagram)' /\ Rising(Window)'
        /\ marks' = marks
    BY <1>2, <1>4, <1>6, <1>8, <1>9, <2>1, EmptyRises DEF OrderInv
  <2>3. Rising(frame)' /\ g[3] \subseteq h[3] \cup h[4]
    <3>1. frame' = datagram \/ frame' = frame
      BY <1>14 DEF WiiForwards, SendStart, wl
    <3> QED BY <1>2, <1>4, <3>1 DEF OrderInv
  <2>4. g[4] \subseteq h[4] /\ Before(g[3], g[4])
    BY <2>2 DEF Before
  <2>5. \A i \in 1 .. 5 : i # 3 /\ i # 3 + 1 => g[i] \subseteq h[i]
    BY <2>2
  <2>6. Apart(g) /\ Recorded(g, marks)
    <3>1. 3 \in 1 .. 4 /\ 3 + 1 = 4
      OBVIOUS
    <3> QED BY <1>5, <2>3, <2>4, <2>5, <3>1, Passing
  <2> QED BY <1>3, <1>5, <2>2, <2>3, <2>6 DEF OrderInv
<1>15. CASE WiiCopies \/ WiiAck
  <2>1. UNCHANGED <<enc, stream, frame, datagram, dsRing>>
    BY <1>15 DEF WiiCopies, WiiAck, CopyUp, AckTimer
  <2>2. \A i \in 1 .. 5 : g[i] \subseteq h[i]
    BY <1>6, <1>7, <1>8, <2>1
  <2>3. Apart(g) /\ Recorded(g, marks)
    BY <1>5, <2>2, Losing
  <2> QED BY <1>3, <1>5, <1>6, <1>7, <1>8, <2>1, <2>3 DEF OrderInv
<1>16. CASE WiiSends
  <2>1. UNCHANGED <<enc, stream, datagram>> /\ frame' = <<>> /\ sending = "ioctl"
    BY <1>16 DEF WiiSends, SendDone, NoFrame
  <2>2. /\ g[1] = h[1] /\ g[4] = h[4] /\ g[5] = h[5] /\ g[3] = {}
        /\ InOrder(State)' /\ Rising(frame)' /\ Rising(datagram)' /\ Rising(Window)'
        /\ marks' = marks
    BY <1>2, <1>4, <1>6, <1>8, <2>1, EmptyRises DEF OrderInv
  <2>3. QueueInv' /\ BufInOrder(Waiting)' /\ g[2] \subseteq h[2] \cup h[3]
    <3>1. CASE IsChunk /\ Store(OnAir) /\ raced' = (raced \/ pc # "empty?")
      <4>1. OnAir = frame /\ frame \in Chunks /\ pc = "empty?"
        BY <2>1, <3>1, AirIsFrame DEF LinkInv, BufferInv
      <4>2. /\ QueueInv' /\ Waiting' \in Seq(Chunks) /\ Waiting' # <<>> /\ Waiting'[Len(Waiting')] = frame
            /\ \E d \in 0 .. 1 : \A i \in 1 .. Len(Waiting') - 1 :
                 i + d \in DOMAIN Waiting /\ Waiting'[i] = Waiting[i + d]
        BY <1>0, <3>1, <4>1, StoreWaits DEF OrderInv
      <4>3. PICK buf \in Seq(Chunks), q \in Seq(Chunks) : buf = Waiting /\ q = Waiting'
        BY <1>0, <4>2, WaitingIs DEF OrderInv
      <4>4. PICK d \in Nat : \A i \in 1 .. Len(q) - 1 : i + d \in DOMAIN buf /\ q[i] = buf[i + d]
        <5>1. PICK d \in 0 .. 1 : \A i \in 1 .. Len(Waiting') - 1 :
                i + d \in DOMAIN Waiting /\ Waiting'[i] = Waiting[i + d]
          BY <4>2
        <5>2. d \in Nat
          OBVIOUS
        <5> QED BY <4>3, <5>1, <5>2
      <4>5. Before(Held(buf), Values(frame)) /\ BufInOrder(buf) /\ Rising(frame)
        BY <1>2, <1>5, <4>3 DEF Apart, OrderInv
      <4>6. BufInOrder(q) /\ Held(q) \subseteq Held(buf) \cup Values(frame)
        BY <4>1, <4>2, <4>3, <4>4, <4>5, KeptInOrder
      <4> QED BY <1>2, <1>4, <4>2, <4>3, <4>6
    <3>2. CASE UNCHANGED dsRing
      BY <1>9, <3>2
    <3> QED BY <1>16, <3>1, <3>2 DEF WiiSends
  <2>4. g[3] \subseteq h[3] /\ Before(g[2], g[3])
    BY <2>2 DEF Before
  <2>5. \A i \in 1 .. 5 : i # 2 /\ i # 2 + 1 => g[i] \subseteq h[i]
    BY <2>2
  <2>6. Apart(g) /\ Recorded(g, marks)
    <3>1. 2 \in 1 .. 4 /\ 2 + 1 = 3
      OBVIOUS
    <3> QED BY <1>5, <2>3, <2>4, <2>5, <3>1, Passing
  <2> QED BY <1>3, <1>5, <2>2, <2>3, <2>6 DEF OrderInv
<1>17. CASE DsPops
  <2>1. UNCHANGED <<enc, stream, frame, datagram>>
    BY <1>17 DEF DsPops, wl
  <2>2. QueueInv' /\ Waiting' = Waiting
    BY <1>0, <1>17, PopWaits DEF DsPops, OrderInv
  <2>3. g[2] = h[2] /\ BufInOrder(Waiting)'
    BY <1>2, <1>4, <2>2 DEF OrderInv
  <2>4. /\ g[3] = h[3] /\ g[4] = h[4] /\ Rising(frame)' /\ Rising(datagram)'
    BY <1>2, <1>4, <2>1 DEF OrderInv
  <2>5. \A i \in 1 .. 5 : g[i] \subseteq h[i]
    BY <1>6, <1>8, <2>1, <2>3, <2>4
  <2>6. Apart(g) /\ Recorded(g, marks)
    BY <1>5, <2>5, Losing
  <2> QED BY <1>3, <1>5, <1>6, <1>8, <2>1, <2>2, <2>3, <2>4, <2>6 DEF OrderInv
<1>18. CASE DsPlays
  <2>1. UNCHANGED <<enc, frame, datagram>>
    BY <1>18 DEF DsPlays, wl
  <2>2. /\ g[3] = h[3] /\ g[4] = h[4] /\ g[5] = h[5]
        /\ Rising(frame)' /\ Rising(datagram)' /\ Rising(Window)' /\ marks' = marks
    BY <1>2, <1>4, <1>8, <2>1 DEF OrderInv
  <2>3. /\ QueueInv' /\ Waiting # <<>> /\ Joined(out[1], out[2]) = Waiting[1]
        /\ Waiting' \in Seq(Chunks) /\ Len(Waiting') = Len(Waiting) - 1
        /\ \A i \in 1 .. Len(Waiting') : Waiting'[i] = Waiting[i + 1]
    BY <1>0, <1>18, PopTakes DEF DsPlays, OrderInv
  <2>a. PICK buf \in Seq(Chunks), q \in Seq(Chunks) : buf = Waiting /\ q = Waiting'
    BY <1>0, <2>3, WaitingIs DEF OrderInv
  <2>b. PICK c \in Chunks : c = buf[1]
    BY <2>3, <2>a, EmptySeq
  <2>4. /\ Rising(c) /\ BufInOrder(Waiting)' /\ Values(c) \subseteq h[2]
        /\ g[2] \subseteq h[2] /\ Before(Values(c), g[2])
    <3>1. BufInOrder(buf)
      BY <2>a DEF OrderInv
    <3>2. /\ Rising(buf[1]) /\ BufInOrder(q)
          /\ Values(buf[1]) \subseteq Held(buf) /\ Held(q) \subseteq Held(buf)
          /\ Before(Values(buf[1]), Held(q))
      BY <2>3, <2>a, <3>1, TakenInOrder
    <3> QED BY <1>2, <1>4, <2>a, <2>b, <3>2
  <2>5. Before(h[1], h[2])
    BY <1>5 DEF Apart
  <2>6. PushChunk(c) /\ State \in StreamStates /\ c \in Seq(Samples)
    BY <1>18, <2>3, <2>a, <2>b DEF DsPlays, RestInv, Chunks
  <2>7. Before(OnDs(State), Values(c))
    BY <1>2, <2>4, <2>5 DEF Before
  <2>8. InOrder(State') /\ OnDs(State') \subseteq OnDs(State) \cup Values(c)
    BY <2>4, <2>6, <2>7, PushInOrder DEF OrderInv
  <2>9. InOrder(State)' /\ g[1] \subseteq h[1] \cup Values(c)
    BY <1>2, <1>4, <2>8
  <2>10. g[1] \subseteq h[1] \cup h[2] /\ Before(g[1], g[2])
    BY <2>4, <2>5, <2>9 DEF Before
  <2>11. \A i \in 1 .. 5 : i # 1 /\ i # 1 + 1 => g[i] \subseteq h[i]
    BY <2>2
  <2>12. Apart(g) /\ Recorded(g, marks)
    <3>1. 1 \in 1 .. 4 /\ 1 + 1 = 2
      OBVIOUS
    <3> QED BY <1>5, <2>4, <2>10, <2>11, <3>1, Passing
  <2> QED BY <1>3, <1>5, <2>2, <2>3, <2>4, <2>9, <2>12 DEF OrderInv
<1>19. CASE UNCHANGED audioVars
  <2>1. UNCHANGED <<enc, stream, frame, datagram, dsRing>>
    BY <1>19 DEF audioVars, wl
  <2>2. \A i \in 1 .. 5 : g[i] \subseteq h[i]
    BY <1>6, <1>7, <1>8, <2>1
  <2>3. Apart(g) /\ Recorded(g, marks)
    BY <1>5, <2>2, Losing
  <2> QED BY <1>3, <1>5, <1>6, <1>7, <1>8, <2>1, <2>3 DEF OrderInv
<1> QED BY <1>11, <1>12, <1>13, <1>14, <1>15, <1>16, <1>17, <1>18, <1>19 DEF AudioNext

\* Two sounds that the PC records reach the ear in the order in which they were
\* made, and each at most once, on the way from ring_push (audio_enc.cpp) to
\* submit_and_swap (audio_stream.c), until the interrupt pushes a chunk into the
\* middle of a pop of the DS's ring (circ_buf.h).
THEOREM SoundInOrder == AudioSpec => []HeardInOrder
<1>1. ASSUME RestInv, raced \/ OrderInv PROVE HeardInOrder
  <2> SUFFICES ASSUME ~raced, OrderInv PROVE HeardInOrder
    BY <1>1 DEF HeardInOrder
  <2>1. PICK p \in Seq(1 .. 2) : p = played /\ Rising(p)
    BY <1>1 DEF RestInv, OrderInv, State, StreamStates, InOrder
  <2>2. /\ DOMAIN p = 1 .. Len(p) /\ Len(p) \in Nat
        /\ \A i \in 1 .. Len(p) : p[i] \in 1 .. 2
        /\ \A i, j \in 1 .. Len(p) : i < j => p[i] < p[j]
    BY <2>1 DEF Rising
  <2>3. Len(p) <= 2
    <3> SUFFICES ASSUME Len(p) > 2 PROVE FALSE
      BY <2>2
    <3>1. 1 \in 1 .. Len(p) /\ 2 \in 1 .. Len(p) /\ 3 \in 1 .. Len(p)
      BY <2>2
    <3>2. p[1] \in 1 .. 2 /\ p[2] \in 1 .. 2 /\ p[3] \in 1 .. 2 /\ p[1] < p[2] /\ p[2] < p[3]
      BY <2>2, <3>1
    <3> QED BY <3>2
  <2>4. CASE Len(p) = 0
    <3>1. p = <<>>
      BY <2>4
    <3> QED BY <2>1, <3>1 DEF HeardInOrder
  <2>5. CASE Len(p) = 1
    <3>1. p = <<p[1]>> /\ p[1] \in 1 .. 2
      BY <2>2, <2>5
    <3>2. p[1] = 1 \/ p[1] = 2
      BY <3>1
    <3> QED BY <2>1, <3>1, <3>2 DEF HeardInOrder
  <2>6. CASE Len(p) = 2
    <3>1. p = <<p[1], p[2]>> /\ p[1] \in 1 .. 2 /\ p[2] \in 1 .. 2 /\ p[1] < p[2]
      BY <2>2, <2>6
    <3>2. p[1] = 1 /\ p[2] = 2
      BY <3>1
    <3> QED BY <2>1, <3>1, <3>2 DEF HeardInOrder
  <2> QED BY <2>2, <2>3, <2>4, <2>5, <2>6
<1> QED BY <1>1, LinkInit, LinkNext, RestInit, RestNext, OrderInit, OrderNext, PTL DEF AudioSpec

-----------------------------------------------------------------------------
(***************************************************************************)
(* The picture.  A colour's index is the number of colours that the scan   *)
(* meets before it, so the first pixels of the colours are numbered        *)
(* without a gap, and every index has its place in the palette.            *)
(***************************************************************************)
LEMMA CountUpTo ==
  ASSUME NEW n \in Nat, NEW S \in SUBSET (1 .. n)
  PROVE  IsFiniteSet(S) /\ Cardinality(S) \in 0 .. n
<1>1. IsFiniteSet(1 .. n) /\ Cardinality(1 .. n) = n
  BY FS_Interval
<1>2. IsFiniteSet(S) /\ Cardinality(S) <= n
  BY <1>1, FS_Subset
<1> QED BY <1>2, FS_CardinalityType

\* The colours met before the i-th pixel's are those of earlier first pixels.
LEMMA IndexCounts ==
  ASSUME NEW s \in Screens, NEW i \in Positions
  PROVE  /\ IndexOf(s, s[i]) \in Indices
         /\ i \in FirstSeen(s) => IndexOf(s, s[i]) = Cardinality({j \in FirstSeen(s) : j < i})
<1>0. PixelCount \in Nat \ {0}
  BY VideoAssumption
<1> DEFINE Met == {k \in FirstSeen(s) : \A j \in 1 .. k : s[j] # s[i]}
<1>1. Met \subseteq 1 .. i - 1
  <2>1. ASSUME NEW k \in Met PROVE k \in 1 .. i - 1
    <3>1. k \in Positions /\ ~(i \in 1 .. k)
      BY DEF FirstSeen
    <3> QED BY <1>0, <3>1 DEF Positions
  <2> QED BY <2>1
<1>2. Cardinality(Met) \in Indices
  <2>1. i - 1 \in Nat /\ i - 1 <= PixelCount - 1
    BY <1>0 DEF Positions
  <2>2. Cardinality(Met) \in 0 .. i - 1
    BY <1>1, <2>1, CountUpTo
  <2> QED BY <1>0, <2>1, <2>2 DEF Indices
<1>3. ASSUME i \in FirstSeen(s) PROVE Met = {j \in FirstSeen(s) : j < i}
  <2>1. ASSUME NEW k \in FirstSeen(s), k < i, NEW j \in 1 .. k PROVE s[j] # s[i]
    <3>1. j \in 1 .. i - 1
      BY <1>0, <2>1 DEF FirstSeen, Positions
    <3> QED BY <1>3, <3>1 DEF FirstSeen
  <2>2. ASSUME NEW k \in Met PROVE k < i
    <3>1. k \in 1 .. i - 1
      BY <1>1, <2>2
    <3> QED BY <1>0, <3>1 DEF Positions
  <2> QED BY <2>1, <2>2
<1> QED BY <1>2, <1>3 DEF IndexOf

LEMMA QuantizedTyped ==
  ASSUME NEW s \in Screens PROVE Quantized(s) \in [Positions -> Indices]
BY IndexCounts DEF Quantized

\* Every number below that of the colours is the index of one of them.
LEMMA EveryIndexIsUsed ==
  ASSUME NEW s \in Screens, NEW k \in 1 .. Cardinality(FirstSeen(s))
  PROVE  \E i \in FirstSeen(s) : IndexOf(s, s[i]) = k - 1
<1>0. PixelCount \in Nat \ {0} /\ FirstSeen(s) \subseteq 1 .. PixelCount
  BY VideoAssumption DEF FirstSeen, Positions
<1>1. PICK n \in Nat : n = Cardinality(FirstSeen(s)) /\ IsFiniteSet(FirstSeen(s))
  BY <1>0, CountUpTo
<1> DEFINE Before0(i) == {j \in FirstSeen(s) : j < i}
<1>2. ASSUME NEW i \in FirstSeen(s)
      PROVE  /\ IsFiniteSet(Before0(i)) /\ Cardinality(Before0(i)) \in 0 .. n - 1
             /\ IndexOf(s, s[i]) = Cardinality(Before0(i))
  <2>1. Before0(i) \subseteq FirstSeen(s) \ {i}
    BY <1>0
  <2>2. IsFiniteSet(FirstSeen(s) \ {i}) /\ Cardinality(FirstSeen(s) \ {i}) = n - 1
    BY <1>1, FS_RemoveElement
  <2>3. IsFiniteSet(Before0(i)) /\ Cardinality(Before0(i)) <= n - 1
    BY <2>1, <2>2, FS_Subset
  <2>4. Cardinality(Before0(i)) \in Nat
    BY <2>3, FS_CardinalityType
  <2>5. IndexOf(s, s[i]) = Cardinality(Before0(i))
    BY <1>0, IndexCounts DEF Positions
  <2> QED BY <2>3, <2>4, <2>5
<1>3. ASSUME NEW i \in FirstSeen(s), NEW j \in FirstSeen(s), i < j
      PROVE  Cardinality(Before0(i)) # Cardinality(Before0(j))
  <2>1. Before0(i) \subseteq Before0(j) /\ i \in Before0(j) /\ i \notin Before0(i)
    BY <1>0, <1>3
  <2>2. IsFiniteSet(Before0(j))
    BY <1>2
  <2>3. Before0(i) # Before0(j)
    BY <2>1
  <2> HIDE DEF Before0
  <2> QED BY <2>1, <2>2, <2>3, FS_Subset
<1> DEFINE f == [i \in FirstSeen(s) |-> Cardinality(Before0(i))]
<1>4. f \in Injection(FirstSeen(s), 0 .. n - 1)
  <2>1. f \in [FirstSeen(s) -> 0 .. n - 1]
    BY <1>2
  <2>2. ASSUME NEW i \in FirstSeen(s), NEW j \in FirstSeen(s), f[i] = f[j] PROVE i = j
    <3>1. i < j \/ j < i \/ i = j
      BY <1>0
    <3>2. Cardinality(Before0(i)) = Cardinality(Before0(j))
      BY <2>2
    <3> HIDE DEF Before0
    <3> QED BY <1>3, <3>1, <3>2
  <2> HIDE DEF f
  <2> QED BY <2>1, <2>2 DEF Injection, IsInjective
<1>5. IsFiniteSet(0 .. n - 1) /\ Cardinality(0 .. n - 1) = n
  BY FS_Interval
<1>6. f \in Surjection(FirstSeen(s), 0 .. n - 1)
  <2> HIDE DEF f
  <2> QED BY <1>1, <1>4, <1>5, FS_Injection
<1>7. k - 1 \in 0 .. n - 1
  BY <1>1
<1>8. \E i \in FirstSeen(s) : f[i] = k - 1
  <2> HIDE DEF f
  <2> QED BY <1>6, <1>7 DEF Surjection
<1> QED BY <1>2, <1>8

LEMMA PaletteTyped ==
  ASSUME NEW s \in Screens PROVE PaletteOf(s) \in Seq(RGB)
<1>0. PixelCount \in Nat \ {0} /\ FirstSeen(s) \subseteq 1 .. PixelCount
  BY VideoAssumption DEF FirstSeen, Positions
<1>1. PICK n \in Nat : n = Cardinality(FirstSeen(s))
  BY <1>0, CountUpTo
<1>2. ASSUME NEW k \in 1 .. n
      PROVE  s[CHOOSE i \in FirstSeen(s) : IndexOf(s, s[i]) = k - 1] \in RGB
  <2>1. (CHOOSE i \in FirstSeen(s) : IndexOf(s, s[i]) = k - 1) \in FirstSeen(s)
    BY <1>1, EveryIndexIsUsed
  <2> QED BY <1>0, <2>1 DEF Screens, Positions
<1>3. PaletteOf(s) = [k \in 1 .. n |-> s[CHOOSE i \in FirstSeen(s) : IndexOf(s, s[i]) = k - 1]]
  BY <1>1 DEF PaletteOf
<1>4. PaletteOf(s) \in [1 .. n -> RGB]
  BY <1>2, <1>3
<1> QED BY <1>4

-----------------------------------------------------------------------------
\* A packet, and what the encoder makes of a frame.
LEMMA PacketIs ==
  ASSUME NEW type \in {"KEYFRAME", "DELTA"}, NEW bytes \in Nat,
         NEW p \in [Positions -> Indices], NEW pal \in Seq(RGB), NEW at \in SUBSET Positions
  PROVE  Packet(type, bytes, p, pal, at) \in Packets
<1>1. LengthMod \in Nat \ {0}
  BY VideoAssumption
<1>2. bytes % LengthMod \in 0 .. LengthMod - 1
  BY <1>1
<1>3. (bytes < LengthMod) \in BOOLEAN /\ (type = "KEYFRAME" /\ bytes < LengthMod) \in BOOLEAN
  OBVIOUS
<1> QED BY <1>2, <1>3 DEF Packet, Packets

LEMMA CountOfPositions ==
  ASSUME NEW S \in SUBSET Positions
  PROVE  IsFiniteSet(S) /\ Cardinality(S) \in Nat
<1>1. PixelCount \in Nat
  BY VideoAssumption
<1>2. S \in SUBSET (1 .. PixelCount)
  BY DEF Positions
<1> QED BY <1>1, <1>2, CountUpTo

LEMMA EncodedIs ==
  ASSUME NEW p \in [Positions -> Indices], NEW pal \in Seq(RGB)
  PROVE  /\ Keyframe(p, pal) \in Packets /\ Delta(p) \in Packets
         /\ Encoded(p, pal) \in Seq(Packets)
<1>1. PaletteLen + 2 * Cardinality(Runs(p)) \in Nat
  <2>1. Cardinality(Runs(p)) \in Nat
    BY CountOfPositions DEF Runs
  <2> QED BY <2>1, VideoAssumption
<1>2. 2 + 3 * Cardinality(Changed(p)) \in Nat /\ Changed(p) \in SUBSET Positions
  <2>1. Cardinality(Changed(p)) \in Nat
    BY CountOfPositions DEF Changed
  <2> QED BY <2>1 DEF Changed
<1>3. Keyframe(p, pal) \in Packets
  BY <1>1, PacketIs DEF Keyframe
<1>4. Delta(p) \in Packets
  <2>1. <<>> \in Seq(RGB)
    BY EmptySeq
  <2> QED BY <1>2, <2>1, PacketIs DEF Delta
<1>5. Encoded(p, pal) \in {<<Keyframe(p, pal)>>, <<>>, <<Delta(p)>>}
  BY DEF Encoded
<1>6. <<Keyframe(p, pal)>> \in Seq(Packets) /\ <<Delta(p)>> \in Seq(Packets) /\ <<>> \in Seq(Packets)
  BY <1>3, <1>4
<1> QED BY <1>3, <1>4, <1>5, <1>6

LEMMA TaintIs ==
  ASSUME NEW q \in Seq(Packets)
  PROVE  /\ Taint(q) \in Seq(Packets) /\ Len(Taint(q)) = Len(q)
         /\ \A i \in 1 .. Len(q) :
              /\ Taint(q)[i].type = q[i].type /\ Taint(q)[i].len = q[i].len
              /\ Taint(q)[i].whole = q[i].whole /\ Taint(q)[i].pixels = q[i].pixels
              /\ Taint(q)[i].at = q[i].at /\ Taint(q)[i].cleans = FALSE
<1>1. ASSUME NEW pkt \in Packets
      PROVE  /\ [pkt EXCEPT !.cleans = FALSE] \in Packets
             /\ [pkt EXCEPT !.cleans = FALSE].type = pkt.type
             /\ [pkt EXCEPT !.cleans = FALSE].len = pkt.len
             /\ [pkt EXCEPT !.cleans = FALSE].whole = pkt.whole
             /\ [pkt EXCEPT !.cleans = FALSE].pixels = pkt.pixels
             /\ [pkt EXCEPT !.cleans = FALSE].at = pkt.at
             /\ [pkt EXCEPT !.cleans = FALSE].cleans = FALSE
  BY DEF Packets
<1>2. PICK n \in Nat : n = Len(q) /\ \A i \in 1 .. n : q[i] \in Packets
  OBVIOUS
<1>3. PICK t : t = Taint(q)
  OBVIOUS
<1>4. t = [i \in 1 .. n |-> [q[i] EXCEPT !.cleans = FALSE]]
  BY <1>2, <1>3 DEF Taint
<1>5. \A i \in 1 .. n : t[i] = [q[i] EXCEPT !.cleans = FALSE]
  BY <1>4
<1>6. t \in [1 .. n -> Packets]
  BY <1>1, <1>2, <1>4
<1>7. t \in Seq(Packets) /\ Len(t) = n
  BY <1>6
<1>8. ASSUME NEW i \in 1 .. n
      PROVE  /\ t[i].type = q[i].type /\ t[i].len = q[i].len /\ t[i].whole = q[i].whole
             /\ t[i].pixels = q[i].pixels /\ t[i].at = q[i].at /\ t[i].cleans = FALSE
  <2>1. PICK pkt \in Packets : pkt = q[i]
    BY <1>2
  <2>2. t[i] = [pkt EXCEPT !.cleans = FALSE]
    BY <1>5, <2>1
  <2> QED BY <1>1, <2>1, <2>2
<1> QED BY <1>2, <1>3, <1>7, <1>8


LEMMA VideoTypeInit == Init => TypeOK
<1> SUFFICES ASSUME Init PROVE TypeOK
  OBVIOUS
<1>1. {PixelCount, KeyframeEvery, RingSlots} \subseteq Nat \ {0} /\ MaxFaults \in Nat
  BY VideoAssumption
<1>2. <<>> \in Seq(RGB) /\ <<>> \in Seq(Packets) /\ Len(ring) = 0
  BY EmptySeq DEF Init
<1>3. [i \in Positions |-> 0] \in [Positions -> Indices]
  BY <1>1 DEF Indices
<1>4. counter \in 0 .. KeyframeEvery - 1 /\ faults \in 0 .. MaxFaults /\ Len(ring) <= RingSlots
  BY <1>1, <1>2 DEF Init
<1> QED BY <1>2, <1>3, <1>4 DEF Init, TypeOK

\* A frame of the PC: what becomes of it, without the detail of the encoder.
LEMMA PcFrameIs ==
  ASSUME TypeOK, NEW s \in Screens, PcFrame(s)
  PROVE  \E pixels \in [Positions -> Indices], pal \in Seq(RGB) :
           /\ prev' = pixels /\ palette' = pal /\ UNCHANGED client
           /\ \/ /\ \A i \in DOMAIN Encoded(pixels, pal) : Encoded(pixels, pal)[i].whole
                 /\ link' = link \o Encoded(pixels, pal) /\ UNCHANGED <<ring, damaged>>
              \/ \E rest \in Seq(Packets) :
                   /\ rest = Encoded(pixels, pal) \/ rest = <<>>
                   /\ \E i \in DOMAIN Encoded(pixels, pal) :
                        rest = <<>> \/ ~Encoded(pixels, pal)[i].whole
                   /\ link' = Taint(link) \o rest /\ ring' = Taint(ring) /\ damaged' = TRUE
<1>1. PICK pixels \in [Positions -> Indices] : pixels = Quantized(s)
  BY QuantizedTyped
<1>2. PICK pal \in Seq(RGB) : pal = PaletteOf(s)
  BY PaletteTyped
<1>3. PICK packets \in Seq(Packets) : packets = Encoded(pixels, pal)
  BY EncodedIs
<1> DEFINE passes == \A i \in DOMAIN packets : HeaderLen + packets[i].len <= LinkMax
           exact == \A i \in DOMAIN packets : packets[i].whole
<1>4. /\ prev' = pixels /\ palette' = pal /\ UNCHANGED client
      /\ IF passes /\ exact
           THEN link' = link \o packets /\ UNCHANGED <<ring, damaged>>
           ELSE /\ link' = Taint(link) \o IF passes THEN packets ELSE <<>>
                /\ ring' = Taint(ring) /\ damaged' = TRUE
  BY <1>1, <1>2, <1>3 DEF PcFrame
<1>5. <<>> \in Seq(Packets)
  BY EmptySeq
<1>6. CASE passes /\ exact
  BY <1>3, <1>4, <1>6
<1>7. CASE passes /\ ~exact
  <2>1. \E i \in DOMAIN packets : ~packets[i].whole
    BY <1>7
  <2>2. link' = Taint(link) \o packets /\ ring' = Taint(ring) /\ damaged' = TRUE
    BY <1>4, <1>7
  <2> HIDE DEF passes, exact
  <2> QED BY <1>3, <1>4, <2>1, <2>2
<1>8. CASE ~passes
  <2>1. \E i \in DOMAIN packets : TRUE
    BY <1>8
  <2>2. link' = Taint(link) \o <<>> /\ ring' = Taint(ring) /\ damaged' = TRUE
    BY <1>4, <1>8
  <2> HIDE DEF passes, exact
  <2> QED BY <1>3, <1>4, <1>5, <2>1, <2>2
<1> QED BY <1>6, <1>7, <1>8

LEMMA VideoTypeNext == TypeOK /\ [Next]_vars => TypeOK'
<1> SUFFICES ASSUME TypeOK, [Next]_vars PROVE TypeOK'
  OBVIOUS
<1>0. /\ {PixelCount, KeyframeEvery, RingSlots} \subseteq Nat \ {0} /\ MaxFaults \in Nat
      /\ faults \in 0 .. MaxFaults /\ counter \in 0 .. KeyframeEvery - 1
      /\ link \in Seq(Packets) /\ ring \in Seq(Packets) /\ Len(ring) <= RingSlots
  BY VideoAssumption DEF TypeOK
<1>1. CASE ForceKeyframe
  BY <1>1 DEF ForceKeyframe, client, TypeOK
<1>2. ASSUME NEW s \in Screens, PcFrame(s) PROVE TypeOK'
  <2>1. PICK pixels \in [Positions -> Indices], pal \in Seq(RGB) :
          /\ prev' = pixels /\ palette' = pal /\ UNCHANGED client
          /\ \/ link' = link \o Encoded(pixels, pal) /\ UNCHANGED <<ring, damaged>>
             \/ \E rest \in Seq(Packets) :
                  link' = Taint(link) \o rest /\ ring' = Taint(ring) /\ damaged' = TRUE
    BY <1>2, PcFrameIs
  <2>2. faults' \in 0 .. MaxFaults
    <3>1. faults' = faults \/ (faults > 0 /\ faults' = faults - 1)
      BY <1>2 DEF PcFrame
    <3> QED BY <1>0, <3>1
  <2>3. counter' \in 0 .. KeyframeEvery - 1
    <3>1. counter' = (counter + 1) % KeyframeEvery
      BY <1>2 DEF PcFrame
    <3> QED BY <1>0, <3>1
  <2>4. force' \in BOOLEAN
    BY <1>2 DEF PcFrame
  <2>5. isKeyframe' \in BOOLEAN
    <3>1. KeyframeDue(Quantized(s)) \in BOOLEAN
      BY DEF KeyframeDue, TypeOK
    <3> QED BY <1>2, <3>1 DEF PcFrame
  <2>6. link' \in Seq(Packets) /\ ring' \in Seq(Packets) /\ Len(ring') <= RingSlots /\ damaged' \in BOOLEAN
    <3>1. CASE link' = link \o Encoded(pixels, pal) /\ UNCHANGED <<ring, damaged>>
      <4>1. link' \in Seq(Packets)
        BY <1>0, <3>1, EncodedIs, ConcatProperties
      <4> QED BY <3>1, <4>1 DEF TypeOK
    <3>2. ASSUME NEW rest \in Seq(Packets), link' = Taint(link) \o rest, ring' = Taint(ring),
                 damaged' = TRUE
          PROVE  /\ link' \in Seq(Packets) /\ ring' \in Seq(Packets) /\ Len(ring') <= RingSlots
                 /\ damaged' \in BOOLEAN
      <4>1. link' \in Seq(Packets)
        BY <1>0, <3>2, TaintIs, ConcatProperties
      <4> QED BY <1>0, <3>2, <4>1, TaintIs
    <3> QED BY <2>1, <3>1, <3>2
  <2> QED BY <2>1, <2>2, <2>3, <2>4, <2>5, <2>6 DEF client, TypeOK
<1>3. CASE Fade
  <2>1. faults' \in 0 .. MaxFaults
    BY <1>0, <1>3 DEF Fade
  <2>2. link' \in Seq(Packets) /\ ring' \in Seq(Packets) /\ Len(ring') <= RingSlots
    BY <1>0, <1>3, TaintIs, HeadTailProperties DEF Fade
  <2> QED BY <1>3, <2>1, <2>2 DEF Fade, host, client, TypeOK
<1>4. CASE Arrive
  <2>1. link' \in Seq(Packets) /\ Head(link) \in Packets
    BY <1>0, <1>4, HeadTailProperties DEF Arrive
  <2>2. CASE Len(ring) = RingSlots /\ ring' = Append(Tail(ring), Head(link)) /\ damaged' = TRUE
    <3>1. ring # <<>>
      BY <1>0, <2>2
    <3>2. Tail(ring) \in Seq(Packets) /\ Len(Tail(ring)) = Len(ring) - 1
      BY <1>0, <3>1, HeadTailProperties
    <3>3. ring' \in Seq(Packets) /\ Len(ring') = Len(ring)
      BY <1>0, <2>1, <2>2, <3>2, AppendProperties
    <3> QED BY <1>0, <1>4, <2>1, <2>2, <3>3 DEF Arrive, host, client, TypeOK
  <2>3. CASE Len(ring) # RingSlots /\ ring' = Append(ring, Head(link)) /\ UNCHANGED damaged
    <3>1. ring' \in Seq(Packets) /\ Len(ring') = Len(ring) + 1
      BY <1>0, <2>1, <2>3, AppendProperties
    <3>2. Len(ring') <= RingSlots
      BY <1>0, <2>3, <3>1
    <3> QED BY <1>4, <2>1, <2>3, <3>1, <3>2 DEF Arrive, host, client, TypeOK
  <2> QED BY <1>4, <2>2, <2>3 DEF Arrive
<1>5. CASE Decode
  <2>1. PICK pkt \in Packets : pkt = Head(ring)
    BY <1>0, <1>5, HeadTailProperties DEF Decode
  <2>2. ring' \in Seq(Packets) /\ Len(ring') <= RingSlots
    <3>1. ring # <<>> /\ ring' = Tail(ring)
      BY <1>5 DEF Decode
    <3>2. Tail(ring) \in Seq(Packets) /\ Len(Tail(ring)) = Len(ring) - 1
      BY <1>0, <3>1, HeadTailProperties
    <3> QED BY <1>0, <3>1, <3>2
  <2>3. pkt.pixels \in [Positions -> Indices] /\ pkt.palette \in Seq(RGB)
    BY DEF Packets
  <2>4. /\ framebuf' \in [Positions -> Indices] /\ hwPalette' \in Seq(RGB) /\ damaged' \in BOOLEAN
    <3>1. CASE DecodeKeyframe(pkt)
      <4>1. CASE UNCHANGED <<client, damaged>>
        BY <4>1 DEF client, TypeOK
      <4>2. CASE /\ hwPalette' = pkt.palette
                 /\ framebuf' = [i \in Positions |->
                      IF i \in Painted(pkt) THEN pkt.pixels[i] ELSE framebuf[i]]
                 /\ damaged' = (damaged /\ ~pkt.cleans)
        <5>1. damaged' \in BOOLEAN
          BY <4>2
        <5> QED BY <2>3, <4>2, <5>1 DEF TypeOK
      <4> QED BY <3>1, <4>1, <4>2 DEF DecodeKeyframe
    <3>2. CASE DecodeDelta(pkt)
      BY <2>3, <3>2 DEF DecodeDelta, TypeOK
    <3> QED BY <1>5, <2>1, <3>1, <3>2 DEF Decode
  <2> QED BY <1>5, <2>2, <2>4 DEF Decode, host, TypeOK
<1>6. CASE UNCHANGED vars
  BY <1>6 DEF vars, host, client, TypeOK
<1> QED BY <1>1, <1>2, <1>3, <1>4, <1>5, <1>6 DEF Next

\* Every index that quantize (capture.cpp) gives a pixel has its place in the
\* palette, the ring of the DS never overfills, and what the decoder
\* (video_decode.c) writes is a picture.
THEOREM VideoTypeCorrect == Spec => []TypeOK
BY VideoTypeInit, VideoTypeNext, PTL DEF Spec

-----------------------------------------------------------------------------
(***************************************************************************)
(* The queue between the encoder and the decoder, oldest packet first.  It *)
(* is gapless from its k-th packet on if each later one, besides the       *)
(* pixels it carries, is like the frame before it, and the last one is the *)
(* frame the encoder takes its differences to.  The frame before the first *)
(* packet is the picture of the DS.                                        *)
(***************************************************************************)
Queue == ring \o link

FrameAfter(q, fb, k) == IF k = 0 THEN fb ELSE q[k].pixels

Continues(pkt, fb) == pkt.whole /\ \A i \in Positions \ pkt.at : pkt.pixels[i] = fb[i]

Gapless(q, fb, pv, k) ==
  /\ FrameAfter(q, fb, Len(q)) = pv
  /\ \A m \in k + 1 .. Len(q) : Continues(q[m], FrameAfter(q, fb, m - 1))

\* What a packet that is whole says of itself.
Faithful(pkt) ==
  /\ pkt.cleans => pkt.whole /\ pkt.type = "KEYFRAME"
  /\ pkt.whole /\ pkt.type = "KEYFRAME" =>
       pkt.at = Positions /\ pkt.len = PaletteLen + 2 * Cardinality(Runs(pkt.pixels))
  /\ pkt.whole /\ pkt.type = "DELTA" => pkt.len = 2 + 3 * Cardinality(pkt.at)

\* The picture and the whole queue are gapless if nothing is missing; and
\* whatever is missing, the queue is from any keyframe on that cleans.
ChainInv ==
  /\ \A m \in 1 .. Len(Queue) : Faithful(Queue[m])
  /\ ~damaged => Gapless(Queue, framebuf, prev, 0)
  /\ \A k \in 1 .. Len(Queue) : Queue[k].cleans => Gapless(Queue, framebuf, prev, k)

\* Losses before the k-th packet are none of its business.
LEMMA GaplessShift ==
  ASSUME NEW q \in Seq(Packets), NEW q1 \in Seq(Packets), NEW fb, NEW fb1, NEW pv,
         NEW d \in Nat, NEW k \in 1 .. Len(q1), Len(q) = Len(q1) + d,
         \A m \in k .. Len(q1) : /\ q1[m].pixels = q[m + d].pixels
                                 /\ q1[m].at = q[m + d].at /\ q1[m].whole = q[m + d].whole,
         Gapless(q, fb, pv, k + d)
  PROVE  Gapless(q1, fb1, pv, k)
<1>0. PICK n \in Nat : n = Len(q1) /\ Len(q) = n + d /\ k \in 1 .. n
  OBVIOUS
<1>1. FrameAfter(q1, fb1, n) = pv
  <2>1. n \in k .. Len(q1) /\ n # 0 /\ n + d # 0
    BY <1>0
  <2>2. FrameAfter(q, fb, n + d) = pv
    BY <1>0 DEF Gapless
  <2> QED BY <2>1, <2>2 DEF FrameAfter
<1>2. ASSUME NEW m \in k + 1 .. n PROVE Continues(q1[m], FrameAfter(q1, fb1, m - 1))
  <2>1. /\ m \in k .. Len(q1) /\ m - 1 \in k .. Len(q1) /\ m - 1 # 0 /\ (m + d) - 1 # 0
        /\ (m + d) - 1 = (m - 1) + d /\ m + d \in (k + d) + 1 .. Len(q)
    BY <1>0
  <2>2. Continues(q[m + d], FrameAfter(q, fb, (m + d) - 1))
    BY <2>1 DEF Gapless
  <2>3. FrameAfter(q, fb, (m + d) - 1) = FrameAfter(q1, fb1, m - 1)
    <3>1. FrameAfter(q, fb, (m + d) - 1) = q[(m - 1) + d].pixels
      BY <2>1 DEF FrameAfter
    <3>2. FrameAfter(q1, fb1, m - 1) = q1[m - 1].pixels
      BY <2>1 DEF FrameAfter
    <3> QED BY <2>1, <3>1, <3>2
  <2> QED BY <2>1, <2>2, <2>3 DEF Continues
<1> QED BY <1>0, <1>1, <1>2 DEF Gapless

\* A packet taken from the queue leaves it gapless if it leaves its frame.
LEMMA GaplessTaken ==
  ASSUME NEW q \in Seq(Packets), q # <<>>, NEW fb, NEW fb1, NEW pv, NEW k \in {0, 1},
         Gapless(q, fb, pv, k), fb1 = q[1].pixels
  PROVE  Gapless(Tail(q), fb1, pv, 0)
<1>0. PICK n \in Nat : n = Len(q) - 1 /\ Len(q) = n + 1
  BY HeadTailProperties
<1>1. PICK t \in Seq(Packets) :
        t = Tail(q) /\ Len(t) = n /\ \A m \in 1 .. n : t[m] = q[m + 1]
  <2>1. /\ Tail(q) \in Seq(Packets) /\ Len(Tail(q)) = Len(q) - 1
        /\ \A m \in 1 .. Len(Tail(q)) : Tail(q)[m] = q[m + 1]
    BY HeadTailProperties
  <2>2. Len(Tail(q)) = n
    BY <1>0, <2>1
  <2> QED BY <2>1, <2>2
<1>2. FrameAfter(t, fb1, n) = pv
  <2>1. q[n + 1].pixels = pv
    BY <1>0 DEF Gapless, FrameAfter
  <2>2. CASE n = 0
    BY <2>1, <2>2 DEF FrameAfter
  <2>3. CASE n # 0
    <3>1. n \in 1 .. n
      BY <2>3
    <3> QED BY <1>1, <2>1, <2>3, <3>1 DEF FrameAfter
  <2> QED BY <2>2, <2>3
<1>3. ASSUME NEW m \in 1 .. n PROVE Continues(t[m], FrameAfter(t, fb1, m - 1))
  <2>1. m + 1 \in k + 1 .. Len(q) /\ (m + 1) - 1 = m /\ m # 0
    BY <1>0
  <2>2. Continues(q[m + 1], q[m].pixels)
    <3>1. Continues(q[m + 1], FrameAfter(q, fb, (m + 1) - 1))
      BY <2>1 DEF Gapless
    <3> QED BY <2>1, <3>1 DEF FrameAfter
  <2>3. FrameAfter(t, fb1, m - 1) = q[m].pixels
    <3>1. CASE m = 1
      BY <3>1 DEF FrameAfter
    <3>2. CASE m # 1
      <4>1. m - 1 \in 1 .. n /\ (m - 1) + 1 = m /\ m - 1 # 0
        BY <3>2
      <4> QED BY <1>1, <4>1 DEF FrameAfter
    <3> QED BY <3>1, <3>2
  <2> QED BY <1>1, <2>2, <2>3
<1>4. \A m \in 0 + 1 .. Len(t) : Continues(t[m], FrameAfter(t, fb1, m - 1))
  <2>1. 0 + 1 .. Len(t) = 1 .. n
    BY <1>1
  <2> QED BY <1>3, <2>1
<1> QED BY <1>1, <1>2, <1>4 DEF Gapless

\* A packet that is sent goes on from the frame the queue ends with.
LEMMA GaplessSent ==
  ASSUME NEW q \in Seq(Packets), NEW pkt \in Packets, NEW fb, NEW pv, NEW k \in 0 .. Len(q),
         Gapless(q, fb, pv, k), Continues(pkt, pv)
  PROVE  Gapless(Append(q, pkt), fb, pkt.pixels, k)
<1>0. PICK n \in Nat : n = Len(q) /\ k \in 0 .. n
  OBVIOUS
<1>1. PICK t \in Seq(Packets) : /\ t = Append(q, pkt) /\ Len(t) = n + 1 /\ t[n + 1] = pkt
                                /\ \A m \in 1 .. n : t[m] = q[m]
  <2>1. /\ Append(q, pkt) \in Seq(Packets) /\ Len(Append(q, pkt)) = Len(q) + 1
        /\ Append(q, pkt)[Len(q) + 1] = pkt
        /\ \A m \in 1 .. Len(q) : Append(q, pkt)[m] = q[m]
    BY AppendProperties
  <2> QED BY <1>0, <2>1
<1>2. FrameAfter(t, fb, n + 1) = pkt.pixels
  <2>1. n + 1 # 0
    BY <1>0
  <2> QED BY <1>1, <2>1 DEF FrameAfter
<1>3. \A m \in 0 .. n : FrameAfter(t, fb, m) = FrameAfter(q, fb, m)
  <2>1. ASSUME NEW m \in 0 .. n, m # 0 PROVE m \in 1 .. n
    BY <2>1
  <2> QED BY <1>1, <2>1 DEF FrameAfter
<1>4. ASSUME NEW m \in k + 1 .. n + 1 PROVE Continues(t[m], FrameAfter(t, fb, m - 1))
  <2>1. m - 1 \in 0 .. n
    BY <1>0
  <2>2. CASE m = n + 1
    <3>1. FrameAfter(t, fb, m - 1) = pv
      <4>1. m - 1 = n
        BY <2>2
      <4> QED BY <1>0, <1>3, <2>1, <4>1 DEF Gapless
    <3> QED BY <1>1, <2>2, <3>1
  <2>3. CASE m # n + 1
    <3>1. m \in 1 .. n /\ m \in k + 1 .. Len(q)
      BY <1>0, <2>3
    <3>2. Continues(q[m], FrameAfter(q, fb, m - 1))
      BY <3>1 DEF Gapless
    <3> QED BY <1>1, <1>3, <2>1, <3>1, <3>2
  <2> QED BY <2>2, <2>3
<1> QED BY <1>1, <1>2, <1>4 DEF Gapless

\* A whole keyframe paints every pixel, a whole delta all of its own.
LEMMA CountMonotone ==
  ASSUME NEW S \in SUBSET Positions, NEW T \in SUBSET S
  PROVE  Cardinality(T) \in Nat /\ Cardinality(S) \in Nat /\ Cardinality(T) <= Cardinality(S)
BY CountOfPositions, FS_Subset

LEMMA WholeKeyframe ==
  ASSUME NEW pkt \in Packets, Faithful(pkt), pkt.whole, pkt.type = "KEYFRAME"
  PROVE  Painted(pkt) = Positions /\ ~(pkt.len < PaletteLen + 2)
<1>0. PixelCount \in Nat \ {0} /\ MaxRun \in Nat \ {0} /\ PaletteLen \in Nat
  BY VideoAssumption
<1>1. PICK R \in SUBSET Positions : R = Runs(pkt.pixels)
  BY DEF Runs
<1>2. pkt.len = PaletteLen + 2 * Cardinality(R)
  BY <1>1 DEF Faithful
<1>3. ASSUME NEW i \in Positions
      PROVE  2 * Cardinality({j \in R : j <= i}) <= pkt.len - PaletteLen
  <2>1. PICK c \in Nat, n \in Nat :
          c = Cardinality({j \in R : j <= i}) /\ n = Cardinality(R) /\ c <= n
    BY CountMonotone
  <2>2. 2 * c <= (PaletteLen + 2 * n) - PaletteLen
    BY <1>0, <2>1
  <2> QED BY <1>2, <2>1, <2>2
<1>4. Painted(pkt) = Positions
  BY <1>1, <1>3 DEF Painted
<1>5. 1 \in R
  <2>1. ValueStart(pkt.pixels, 1) = 1
    <3>1. \E j \in 1 .. 1 : /\ \A k \in j .. 1 : pkt.pixels[k] = pkt.pixels[1]
                            /\ j = 1 \/ pkt.pixels[j - 1] # pkt.pixels[1]
      <4>1. 1 \in 1 .. 1 /\ \A k \in 1 .. 1 : k = 1
        OBVIOUS
      <4> QED BY <4>1
    <3>2. ValueStart(pkt.pixels, 1) \in 1 .. 1
      BY <3>1 DEF ValueStart
    <3> QED BY <3>2
  <2>2. (1 - 1) % MaxRun = 0
    BY <1>0
  <2> QED BY <1>0, <1>1, <2>1, <2>2 DEF Runs, Positions
<1>6. Cardinality(R) \in Nat /\ Cardinality(R) # 0
  <2>1. IsFiniteSet(R) /\ Cardinality(R) \in Nat
    BY CountOfPositions
  <2> QED BY <1>5, <2>1, FS_EmptySet
<1>7. ~(pkt.len < PaletteLen + 2)
  <2>1. PICK n \in Nat \ {0} : n = Cardinality(R)
    BY <1>6
  <2> QED BY <1>0, <1>2, <2>1
<1> QED BY <1>4, <1>7

LEMMA WholeDelta ==
  ASSUME NEW pkt \in Packets, Faithful(pkt), pkt.whole, pkt.type = "DELTA"
  PROVE  Applied(pkt) = pkt.at
<1>1. PICK A \in SUBSET Positions : A = pkt.at
  BY DEF Packets
<1>2. pkt.len = 2 + 3 * Cardinality(A)
  BY <1>1 DEF Faithful
<1>3. ASSUME NEW i \in A
      PROVE  3 * Cardinality({j \in A : j <= i}) <= pkt.len - 2
  <2>1. PICK c \in Nat, n \in Nat :
          c = Cardinality({j \in A : j <= i}) /\ n = Cardinality(A) /\ c <= n
    BY CountMonotone
  <2>2. 3 * c <= (2 + 3 * n) - 2
    BY <2>1
  <2> QED BY <1>2, <2>1, <2>2
<1> QED BY <1>1, <1>3 DEF Applied

\* What the encoder sends is faithful, and if it is whole it goes on from the
\* frame before; it sends nothing only if the frame is the same.
LEMMA EncodedFaithful ==
  ASSUME prev \in [Positions -> Indices], NEW p \in [Positions -> Indices], NEW pal \in Seq(RGB)
  PROVE  \/ Encoded(p, pal) = <<>> /\ p = prev
         \/ \E pkt \in Packets :
              /\ Encoded(p, pal) = <<pkt>> /\ pkt.pixels = p /\ Faithful(pkt)
              /\ pkt.whole => Continues(pkt, prev)
<1>0. LengthMod \in Nat \ {0}
  BY VideoAssumption
<1>1. ASSUME NEW type \in {"KEYFRAME", "DELTA"}, NEW bytes \in Nat, NEW at \in SUBSET Positions,
             NEW pl \in Seq(RGB)
      PROVE  /\ Packet(type, bytes, p, pl, at).type = type
             /\ Packet(type, bytes, p, pl, at).pixels = p
             /\ Packet(type, bytes, p, pl, at).at = at
             /\ Packet(type, bytes, p, pl, at).whole = (bytes < LengthMod)
             /\ Packet(type, bytes, p, pl, at).cleans = (type = "KEYFRAME" /\ bytes < LengthMod)
             /\ Packet(type, bytes, p, pl, at).len = bytes % LengthMod
  BY DEF Packet
<1>2. ASSUME NEW bytes \in Nat, bytes < LengthMod PROVE bytes % LengthMod = bytes
  BY <1>0, <1>2
<1>3. CASE Encoded(p, pal) = <<Keyframe(p, pal)>>
  <2>1. PICK bytes \in Nat : bytes = PaletteLen + 2 * Cardinality(Runs(p))
    <3>1. Cardinality(Runs(p)) \in Nat
      BY CountOfPositions DEF Runs
    <3> QED BY <3>1, VideoAssumption
  <2>2. PICK pkt \in Packets : pkt = Keyframe(p, pal)
    BY EncodedIs
  <2>3. /\ pkt.type = "KEYFRAME" /\ pkt.pixels = p /\ pkt.at = Positions
        /\ pkt.whole = (bytes < LengthMod) /\ pkt.cleans = (bytes < LengthMod)
        /\ pkt.len = bytes % LengthMod
    <3>1. pkt = Packet("KEYFRAME", bytes, p, pal, Positions)
      BY <2>1, <2>2 DEF Keyframe
    <3> QED BY <1>1, <3>1
  <2>4. Faithful(pkt)
    BY <1>2, <2>1, <2>3 DEF Faithful
  <2>5. pkt.whole => Continues(pkt, prev)
    BY <2>3 DEF Continues
  <2> QED BY <1>3, <2>2, <2>3, <2>4, <2>5
<1>4. CASE Encoded(p, pal) = <<Delta(p)>>
  <2>1. PICK bytes \in Nat : bytes = 2 + 3 * Cardinality(Changed(p))
    <3>1. Cardinality(Changed(p)) \in Nat
      BY CountOfPositions DEF Changed
    <3> QED BY <3>1
  <2>2. PICK pkt \in Packets : pkt = Delta(p)
    BY EncodedIs
  <2>3. /\ pkt.type = "DELTA" /\ pkt.pixels = p /\ pkt.at = Changed(p)
        /\ pkt.whole = (bytes < LengthMod) /\ pkt.cleans = FALSE
        /\ pkt.len = bytes % LengthMod
    <3>1. pkt = Packet("DELTA", bytes, p, <<>>, Changed(p))
      BY <2>1, <2>2 DEF Delta
    <3>3. pkt.cleans = ("DELTA" = "KEYFRAME" /\ bytes < LengthMod)
      BY <3>1 DEF Packet
    <3>4. ~("DELTA" = "KEYFRAME" /\ bytes < LengthMod)
      OBVIOUS
    <3>5. pkt.cleans = FALSE
      BY <3>3, <3>4
    <3>6. /\ pkt.type = "DELTA" /\ pkt.pixels = p /\ pkt.at = Changed(p)
          /\ pkt.whole = (bytes < LengthMod) /\ pkt.len = bytes % LengthMod
      BY <3>1 DEF Packet
    <3> QED BY <3>5, <3>6
  <2>4. Faithful(pkt)
    BY <1>2, <2>1, <2>3 DEF Faithful
  <2>5. pkt.whole => Continues(pkt, prev)
    BY <2>3 DEF Continues, Changed
  <2> QED BY <1>4, <2>2, <2>3, <2>4, <2>5
<1>5. CASE Encoded(p, pal) = <<>> /\ Changed(p) = {}
  <2>1. \A i \in Positions : p[i] = prev[i]
    BY <1>5 DEF Changed
  <2> QED BY <1>5, <2>1
<1>6. \/ Encoded(p, pal) = <<Keyframe(p, pal)>> \/ Encoded(p, pal) = <<Delta(p)>>
      \/ Encoded(p, pal) = <<>> /\ Changed(p) = {}
  BY DEF Encoded
<1> QED BY <1>3, <1>4, <1>5, <1>6

LEMMA ChainInit == Init => ChainInv
<1> SUFFICES ASSUME Init PROVE ChainInv
  OBVIOUS
<1>1. Queue = <<>> /\ Len(Queue) = 0 /\ framebuf = prev
  BY DEF Init, Queue
<1>2. Gapless(Queue, framebuf, prev, 0)
  BY <1>1 DEF Gapless, FrameAfter
<1> QED BY <1>1, <1>2 DEF ChainInv

\* A queue that is cut and tainted, with more behind it.
LEMMA QueueIs ==
  ASSUME NEW r \in Seq(Packets), NEW l \in Seq(Packets)
  PROVE  /\ r \o l \in Seq(Packets) /\ Len(r \o l) = Len(r) + Len(l)
         /\ \A m \in 1 .. Len(r) : (r \o l)[m] = r[m]
         /\ \A m \in 1 .. Len(l) : (r \o l)[Len(r) + m] = l[m]
<1>1. /\ r \o l \in Seq(Packets) /\ Len(r \o l) = Len(r) + Len(l)
      /\ \A i \in 1 .. Len(r \o l) :
           (r \o l)[i] = IF i <= Len(r) THEN r[i] ELSE l[i - Len(r)]
  BY ConcatProperties
<1>2. PICK a \in Nat, b \in Nat : a = Len(r) /\ b = Len(l)
  OBVIOUS
<1>3. ASSUME NEW m \in 1 .. a PROVE (r \o l)[m] = r[m]
  <2>1. m \in 1 .. a + b /\ m <= a
    BY <1>2
  <2> QED BY <1>1, <1>2, <2>1
<1>4. ASSUME NEW m \in 1 .. b PROVE (r \o l)[a + m] = l[m]
  <2>1. a + m \in 1 .. a + b /\ ~(a + m <= a) /\ (a + m) - a = m
    BY <1>2
  <2> QED BY <1>1, <1>2, <2>1
<1> QED BY <1>1, <1>2, <1>3, <1>4

\* The PC sends a frame: the queue grows by a packet that goes on from it, or
\* it is tainted.
LEMMA ChainPcFrame ==
  ASSUME TypeOK, ChainInv, NEW s \in Screens, PcFrame(s)
  PROVE  ChainInv'
<1>0. /\ link \in Seq(Packets) /\ ring \in Seq(Packets) /\ prev \in [Positions -> Indices]
      /\ Queue \in Seq(Packets)
  BY QueueIs DEF TypeOK, Queue
<1>1. PICK pixels \in [Positions -> Indices], pal \in Seq(RGB) :
        /\ prev' = pixels /\ UNCHANGED client
        /\ \/ /\ \A i \in DOMAIN Encoded(pixels, pal) : Encoded(pixels, pal)[i].whole
              /\ link' = link \o Encoded(pixels, pal) /\ UNCHANGED <<ring, damaged>>
           \/ \E rest \in Seq(Packets) :
                /\ rest = Encoded(pixels, pal) \/ rest = <<>>
                /\ \E i \in DOMAIN Encoded(pixels, pal) :
                     rest = <<>> \/ ~Encoded(pixels, pal)[i].whole
                /\ link' = Taint(link) \o rest /\ ring' = Taint(ring) /\ damaged' = TRUE
  BY PcFrameIs
<1>2. PICK q \in Seq(Packets) : q = Queue
  BY <1>0
<1>3. PICK packets \in Seq(Packets) : packets = Encoded(pixels, pal)
  BY EncodedIs
<1>4. framebuf' = framebuf
  BY <1>1 DEF client
<1>5. \/ packets = <<>> /\ pixels = prev
      \/ \E pkt \in Packets : /\ packets = <<pkt>> /\ pkt.pixels = pixels /\ Faithful(pkt)
                              /\ pkt.whole => Continues(pkt, prev)
  BY <1>0, <1>3, EncodedFaithful
<1>6. CASE /\ \A i \in DOMAIN packets : packets[i].whole
           /\ link' = link \o packets /\ UNCHANGED <<ring, damaged>>
  <2>1. Queue' = q \o packets
    BY <1>0, <1>2, <1>6, ConcatAssociative DEF Queue
  <2>2. CASE packets = <<>> /\ pixels = prev
    <3>1. Queue' = q
      BY <2>1, <2>2, ConcatEmptySeq
    <3> QED BY <1>1, <1>2, <1>4, <1>6, <2>2, <3>1 DEF ChainInv
  <2>3. ASSUME NEW pkt \in Packets, packets = <<pkt>>, pkt.pixels = pixels, Faithful(pkt),
               pkt.whole => Continues(pkt, prev)
        PROVE  ChainInv'
    <3>1. Continues(pkt, prev)
      BY <1>6, <2>3
    <3>2. PICK t \in Seq(Packets) : t = Append(q, pkt)
      BY AppendProperties
    <3>3. Queue' = t
      <4>1. q \o <<pkt>> = Append(q, pkt)
        BY AppendIsConcat
      <4> QED BY <2>1, <2>3, <3>2, <4>1
    <3>4. PICK n \in Nat : n = Len(q)
      OBVIOUS
    <3>5. Len(t) = n + 1 /\ t[n + 1] = pkt /\ \A m \in 1 .. n : t[m] = q[m]
      BY <3>2, <3>4, AppendProperties
    <3>6. ASSUME NEW m \in 1 .. n + 1 PROVE Faithful(t[m])
      <4>1. m \in 1 .. n \/ m = n + 1
        OBVIOUS
      <4> QED BY <1>2, <2>3, <3>4, <3>5, <4>1 DEF ChainInv
    <3>7. ASSUME NEW k \in 0 .. n, Gapless(q, framebuf, prev, k)
          PROVE  Gapless(t, framebuf, pixels, k)
      BY <2>3, <3>1, <3>2, <3>4, <3>7, GaplessSent
    <3>8. Gapless(t, framebuf, pixels, n + 1)
      <4>1. n + 1 # 0 /\ (n + 1) + 1 .. n + 1 = {}
        BY <3>4
      <4> QED BY <2>3, <3>5, <4>1 DEF Gapless, FrameAfter
    <3>9. ~damaged => Gapless(t, framebuf, pixels, 0)
      BY <1>2, <3>7 DEF ChainInv
    <3>10. ASSUME NEW k \in 1 .. n + 1, t[k].cleans PROVE Gapless(t, framebuf, pixels, k)
      <4>1. CASE k = n + 1
        BY <3>8, <4>1
      <4>2. CASE k # n + 1
        <5>1. k \in 1 .. n /\ k \in 0 .. n
          BY <4>2
        <5> QED BY <1>2, <3>4, <3>5, <3>7, <3>10, <5>1 DEF ChainInv
      <4> QED BY <4>1, <4>2
    <3> QED BY <1>1, <1>4, <1>6, <3>3, <3>5, <3>6, <3>9, <3>10 DEF ChainInv
  <2> QED BY <1>5, <2>2, <2>3
<1>7. ASSUME NEW rest \in Seq(Packets), rest = packets \/ rest = <<>>,
             NEW i \in DOMAIN packets, rest = <<>> \/ ~packets[i].whole,
             link' = Taint(link) \o rest, ring' = Taint(ring), damaged' = TRUE
      PROVE  ChainInv'
  <2>1. PICK pkt \in Packets : packets = <<pkt>> /\ Faithful(pkt)
    BY <1>5, <1>7
  <2>2. packets[i] = pkt
    BY <1>7, <2>1
  <2>3. \A m \in 1 .. Len(rest) : Faithful(rest[m]) /\ ~rest[m].cleans
    <3>1. CASE rest = <<>>
      BY <3>1
    <3>2. CASE rest = <<pkt>> /\ ~pkt.whole
      <4>1. ~pkt.cleans
        BY <2>1, <3>2 DEF Faithful
      <4>2. \A m \in 1 .. Len(rest) : rest[m] = pkt
        BY <3>2
      <4> QED BY <2>1, <4>1, <4>2
    <3> QED BY <1>7, <2>1, <2>2, <3>1, <3>2
  <2>4. PICK r \in Seq(Packets), l \in Seq(Packets) : r = Taint(ring) /\ l = Taint(link)
    BY <1>0, TaintIs
  <2>5. /\ \A m \in 1 .. Len(r) : Faithful(r[m]) /\ ~r[m].cleans
        /\ \A m \in 1 .. Len(l) : Faithful(l[m]) /\ ~l[m].cleans
    <3>1. /\ \A m \in 1 .. Len(ring) : Faithful(ring[m])
          /\ \A m \in 1 .. Len(link) : Faithful(link[m])
      <4>1. PICK a \in Nat, b \in Nat : a = Len(ring) /\ b = Len(link) /\ Len(Queue) = a + b
        <5>1. Len(ring \o link) = Len(ring) + Len(link)
          BY <1>0, QueueIs
        <5>2. Len(ring) \in Nat /\ Len(link) \in Nat
          BY <1>0
        <5> QED BY <5>1, <5>2 DEF Queue
      <4>2. ASSUME NEW m \in 1 .. a PROVE Faithful(ring[m])
        <5>1. m \in 1 .. a + b /\ Queue[m] = ring[m]
          BY <1>0, <4>1, QueueIs DEF Queue
        <5> QED BY <4>1, <5>1 DEF ChainInv
      <4>3. ASSUME NEW m \in 1 .. b PROVE Faithful(link[m])
        <5>1. a + m \in 1 .. a + b /\ Queue[a + m] = link[m]
          BY <1>0, <4>1, QueueIs DEF Queue
        <5> QED BY <4>1, <5>1 DEF ChainInv
      <4> QED BY <4>1, <4>2, <4>3
    <3>2. ASSUME NEW q0 \in Seq(Packets), NEW m \in 1 .. Len(q0), Faithful(q0[m])
          PROVE  Faithful(Taint(q0)[m]) /\ ~Taint(q0)[m].cleans /\ Len(Taint(q0)) = Len(q0)
      <4>1. /\ Taint(q0)[m].type = q0[m].type /\ Taint(q0)[m].len = q0[m].len
            /\ Taint(q0)[m].whole = q0[m].whole /\ Taint(q0)[m].pixels = q0[m].pixels
            /\ Taint(q0)[m].at = q0[m].at /\ Taint(q0)[m].cleans = FALSE
            /\ Len(Taint(q0)) = Len(q0)
        BY TaintIs
      <4> QED BY <3>2, <4>1 DEF Faithful
    <3>3. Len(r) = Len(ring) /\ Len(l) = Len(link)
      BY <1>0, <2>4, TaintIs
    <3> QED BY <1>0, <2>4, <3>1, <3>2, <3>3
  <2>6. \A m \in 1 .. Len(l \o rest) : Faithful((l \o rest)[m]) /\ ~(l \o rest)[m].cleans
    <3>1. PICK a \in Nat, b \in Nat : a = Len(l) /\ b = Len(rest) /\ Len(l \o rest) = a + b
      <4>1. Len(l \o rest) = Len(l) + Len(rest)
        BY QueueIs
      <4>2. Len(l) \in Nat /\ Len(rest) \in Nat
        OBVIOUS
      <4> QED BY <4>1, <4>2
    <3>2. ASSUME NEW m \in 1 .. a + b
          PROVE  Faithful((l \o rest)[m]) /\ ~(l \o rest)[m].cleans
      <4>1. CASE m \in 1 .. a
        <5>1. (l \o rest)[m] = l[m]
          BY <3>1, <4>1, QueueIs
        <5> QED BY <2>5, <3>1, <4>1, <5>1
      <4>2. CASE m \notin 1 .. a
        <5>1. m - a \in 1 .. b /\ a + (m - a) = m
          BY <4>2
        <5>2. (l \o rest)[a + (m - a)] = rest[m - a]
          BY <3>1, <5>1, QueueIs
        <5> QED BY <2>3, <3>1, <5>1, <5>2
      <4> QED BY <4>1, <4>2
    <3> QED BY <3>1, <3>2
  <2>7. PICK t \in Seq(Packets) : t = l \o rest
    BY QueueIs
  <2>8. \A m \in 1 .. Len(r \o t) : Faithful((r \o t)[m]) /\ ~(r \o t)[m].cleans
    <3>1. PICK a \in Nat, b \in Nat : a = Len(r) /\ b = Len(t) /\ Len(r \o t) = a + b
      <4>1. Len(r \o t) = Len(r) + Len(t)
        BY QueueIs
      <4>2. Len(r) \in Nat /\ Len(t) \in Nat
        OBVIOUS
      <4> QED BY <4>1, <4>2
    <3>2. ASSUME NEW m \in 1 .. a + b
          PROVE  Faithful((r \o t)[m]) /\ ~(r \o t)[m].cleans
      <4>1. CASE m \in 1 .. a
        <5>1. (r \o t)[m] = r[m]
          BY <3>1, <4>1, QueueIs
        <5> QED BY <2>5, <3>1, <4>1, <5>1
      <4>2. CASE m \notin 1 .. a
        <5>1. m - a \in 1 .. b /\ a + (m - a) = m
          BY <4>2
        <5>2. (r \o t)[a + (m - a)] = t[m - a]
          BY <3>1, <5>1, QueueIs
        <5> QED BY <2>6, <2>7, <3>1, <5>1, <5>2
      <4> QED BY <4>1, <4>2
    <3> QED BY <3>1, <3>2
  <2>9. Queue' = r \o t
    BY <1>7, <2>4, <2>7 DEF Queue
  <2> QED BY <1>7, <2>8, <2>9 DEF ChainInv
<1> QED BY <1>1, <1>3, <1>6, <1>7

\* A queue is its head and its tail, and the tail goes with what is behind it.
LEMMA SplitHead ==
  ASSUME NEW s \in Seq(Packets), s # <<>>
  PROVE  s = <<Head(s)>> \o Tail(s) /\ Head(s) \in Packets /\ Tail(s) \in Seq(Packets)
<1>1. /\ Head(s) \in Packets /\ Tail(s) \in Seq(Packets) /\ Len(Tail(s)) = Len(s) - 1
      /\ \A i \in 1 .. Len(Tail(s)) : Tail(s)[i] = s[i + 1]
  BY HeadTailProperties
<1>2. PICK n \in Nat : n = Len(Tail(s)) /\ Len(s) = n + 1
  <2>1. PICK n \in Nat : n = Len(s) - 1 /\ Len(s) = n + 1
    BY EmptySeq
  <2> QED BY <1>1, <2>1
<1>3. PICK h \in Seq(Packets) : h = <<Head(s)>> /\ Len(h) = 1 /\ h[1] = Head(s)
  <2>1. PICK e \in Packets : e = Head(s)
    BY <1>1
  <2>2. <<e>> \in Seq(Packets) /\ Len(<<e>>) = 1 /\ <<e>>[1] = e
    OBVIOUS
  <2> QED BY <2>1, <2>2
<1>4. PICK c \in Seq(Packets) : c = h \o Tail(s)
  BY <1>1, QueueIs
<1>5. /\ Len(c) = 1 + n /\ \A m \in 1 .. 1 : c[m] = h[m]
      /\ \A m \in 1 .. n : c[1 + m] = Tail(s)[m]
  <2>1. /\ Len(c) = Len(h) + Len(Tail(s)) /\ \A m \in 1 .. Len(h) : c[m] = h[m]
        /\ \A m \in 1 .. Len(Tail(s)) : c[Len(h) + m] = Tail(s)[m]
    BY <1>1, <1>4, QueueIs
  <2> QED BY <1>2, <1>3, <2>1
<1>6. ASSUME NEW i \in 1 .. n + 1 PROVE c[i] = s[i]
  <2>1. CASE i = 1
    <3>1. 1 \in 1 .. 1
      OBVIOUS
    <3> QED BY <1>3, <1>5, <2>1, <3>1
  <2>2. CASE i # 1
    <3>1. i - 1 \in 1 .. n /\ 1 + (i - 1) = i /\ (i - 1) + 1 = i
      BY <2>2
    <3>2. c[1 + (i - 1)] = Tail(s)[i - 1] /\ Tail(s)[i - 1] = s[(i - 1) + 1]
      BY <1>1, <1>2, <1>5, <3>1
    <3> QED BY <3>1, <3>2
  <2> QED BY <2>1, <2>2
<1>7. Len(c) = Len(s) /\ \A i \in 1 .. Len(s) : c[i] = s[i]
  BY <1>2, <1>5, <1>6
<1>8. c = s
  BY <1>7, SeqEqual
<1> QED BY <1>1, <1>3, <1>4, <1>8

LEMMA TailOfConcat ==
  ASSUME NEW r \in Seq(Packets), NEW l \in Seq(Packets), r # <<>>
  PROVE  /\ r \o l # <<>> /\ Tail(r \o l) = Tail(r) \o l /\ (r \o l)[1] = Head(r)
<1>1. Len(r) \in Nat \ {0} /\ r[1] = Head(r)
  OBVIOUS
<1>2. PICK q \in Seq(Packets) : q = r \o l /\ Len(q) = Len(r) + Len(l) /\ q[1] = r[1]
  <2>1. 1 \in 1 .. Len(r)
    BY <1>1
  <2> QED BY <2>1, QueueIs
<1>3. q # <<>> /\ q[1] = Head(q)
  BY <1>1, <1>2
<1>4. q = <<Head(q)>> \o Tail(q) /\ Head(q) \in Packets /\ Tail(q) \in Seq(Packets)
  BY <1>3, SplitHead
<1>5. r = <<Head(r)>> \o Tail(r) /\ Head(r) \in Packets /\ Tail(r) \in Seq(Packets)
  BY SplitHead
<1>6. <<Head(q)>> \in Seq(Packets) /\ Head(q) = Head(r)
  BY <1>1, <1>2, <1>3, <1>4
<1>7. Tail(r) \o l \in Seq(Packets)
  BY <1>5, QueueIs
<1>8. q = <<Head(q)>> \o (Tail(r) \o l)
  <2>1. (<<Head(q)>> \o Tail(r)) \o l = <<Head(q)>> \o (Tail(r) \o l)
    BY <1>5, <1>6, ConcatAssociative
  <2> QED BY <1>2, <1>5, <1>6, <2>1
<1>9. Tail(q) = Tail(r) \o l
  BY <1>4, <1>6, <1>7, <1>8, ConcatSimplifications
<1> QED BY <1>1, <1>2, <1>3, <1>9

\* Two packets, one of them tainted, say the same otherwise.
Same(a, b) ==
  /\ a.type = b.type /\ a.len = b.len /\ a.whole = b.whole
  /\ a.pixels = b.pixels /\ a.at = b.at /\ (a.cleans => b.cleans)

\* What is left of a queue that lost its head, or a packet after the ones that
\* are tainted, holds to the invariant: the picture is damaged.
LEMMA ChainShift ==
  ASSUME ChainInv, NEW q \in Seq(Packets), q = Queue, NEW q1 \in Seq(Packets), NEW n \in Nat,
         Len(q1) = n, Len(q) = n + 1,
         \A m \in 1 .. n : Same(q1[m], q[m]) \/ Same(q1[m], q[m + 1]),
         \A k \in 1 .. n : q1[k].cleans => \A m \in k .. n : Same(q1[m], q[m + 1]),
         Queue' = q1, prev' = prev, damaged' = TRUE
  PROVE  ChainInv'
<1>1. ASSUME NEW m \in 1 .. n PROVE Faithful(q1[m])
  <2>1. m \in 1 .. n + 1 /\ m + 1 \in 1 .. n + 1
    OBVIOUS
  <2>2. Faithful(q[m]) /\ Faithful(q[m + 1])
    BY <2>1 DEF ChainInv
  <2> QED BY <2>2 DEF Faithful, Same
<1>2. ASSUME NEW k \in 1 .. n, q1[k].cleans PROVE Gapless(q1, framebuf', prev, k)
  <2>1. k + 1 \in 1 .. n + 1 /\ k \in k .. n
    OBVIOUS
  <2>2. q[k + 1].cleans
    BY <1>2, <2>1 DEF Same
  <2>3. Gapless(q, framebuf, prev, k + 1)
    BY <2>1, <2>2 DEF ChainInv
  <2>4. \A m \in k .. Len(q1) : /\ q1[m].pixels = q[m + 1].pixels
                                /\ q1[m].at = q[m + 1].at /\ q1[m].whole = q[m + 1].whole
    BY <1>2 DEF Same
  <2> QED BY <2>3, <2>4, GaplessShift
<1> QED BY <1>1, <1>2 DEF ChainInv

\* The queue without its head.
LEMMA ChainTail ==
  ASSUME ChainInv, NEW q \in Seq(Packets), q = Queue, q # <<>>,
         Queue' = Tail(q), prev' = prev, damaged' = TRUE
  PROVE  ChainInv'
<1>1. /\ Tail(q) \in Seq(Packets) /\ Len(Tail(q)) = Len(q) - 1
      /\ \A m \in 1 .. Len(Tail(q)) : Tail(q)[m] = q[m + 1]
  BY HeadTailProperties
<1>2. PICK q1 \in Seq(Packets) : q1 = Tail(q)
  BY <1>1
<1>3. PICK n \in Nat : Len(q1) = n /\ Len(q) = n + 1
  <2>1. PICK n \in Nat : n = Len(q) - 1 /\ Len(q) = n + 1
    BY EmptySeq
  <2> QED BY <1>1, <1>2, <2>1
<1>4. \A m \in 1 .. n : Same(q1[m], q[m + 1])
  BY <1>1, <1>2, <1>3 DEF Same
<1>5. \A k \in 1 .. n : \A m \in k .. n : m \in 1 .. n
  OBVIOUS
<1> QED BY <1>2, <1>3, <1>4, <1>5, ChainShift

\* A packet lost under way: those the DS holds already are tainted.
LEMMA ChainFade ==
  ASSUME TypeOK, ChainInv, Fade
  PROVE  ChainInv'
<1>0. link \in Seq(Packets) /\ ring \in Seq(Packets) /\ link # <<>>
  BY DEF TypeOK, Fade
<1>1. PICK r \in Seq(Packets) : r = Taint(ring)
  BY <1>0, TaintIs
<1>2. PICK l \in Seq(Packets) : l = Tail(link)
  BY <1>0, HeadTailProperties
<1>3. PICK a \in Nat, b \in Nat : /\ a = Len(r) /\ a = Len(ring) /\ b = Len(l) /\ Len(link) = b + 1
                                  /\ \A m \in 1 .. b : l[m] = link[m + 1]
  <2>1. Len(r) = Len(ring)
    BY <1>0, <1>1, TaintIs
  <2>2. Len(l) = Len(link) - 1 /\ \A m \in 1 .. Len(l) : l[m] = link[m + 1]
    BY <1>0, <1>2, HeadTailProperties
  <2> QED BY <2>1, <2>2
<1>4. PICK q \in Seq(Packets) : q = Queue
  BY <1>0, QueueIs DEF Queue
<1>5. /\ Len(q) = (a + b) + 1 /\ \A m \in 1 .. a : q[m] = ring[m]
      /\ \A m \in 1 .. b + 1 : q[a + m] = link[m]
  <2>1. /\ Len(q) = Len(ring) + Len(link) /\ \A m \in 1 .. Len(ring) : q[m] = ring[m]
        /\ \A m \in 1 .. Len(link) : q[Len(ring) + m] = link[m]
    BY <1>0, <1>4, QueueIs DEF Queue
  <2> QED BY <1>3, <2>1
<1>6. PICK q1 \in Seq(Packets) : /\ q1 = r \o l /\ Len(q1) = a + b
                                 /\ \A m \in 1 .. a : q1[m] = r[m]
                                 /\ \A m \in 1 .. b : q1[a + m] = l[m]
  <2>1. /\ r \o l \in Seq(Packets) /\ Len(r \o l) = Len(r) + Len(l)
        /\ \A m \in 1 .. Len(r) : (r \o l)[m] = r[m]
        /\ \A m \in 1 .. Len(l) : (r \o l)[Len(r) + m] = l[m]
    BY QueueIs
  <2> QED BY <1>3, <2>1
<1>7. Queue' = q1 /\ prev' = prev /\ damaged' = TRUE
  BY <1>1, <1>2, <1>6 DEF Fade, host, Queue
<1>8. ASSUME NEW m \in 1 .. a PROVE Same(q1[m], q[m]) /\ ~q1[m].cleans
  <2>1. /\ Taint(ring)[m].type = ring[m].type /\ Taint(ring)[m].len = ring[m].len
        /\ Taint(ring)[m].whole = ring[m].whole /\ Taint(ring)[m].pixels = ring[m].pixels
        /\ Taint(ring)[m].at = ring[m].at /\ Taint(ring)[m].cleans = FALSE
    <3>1. m \in 1 .. Len(ring)
      BY <1>3
    <3> QED BY <1>0, <3>1, TaintIs
  <2>2. q1[m] = Taint(ring)[m] /\ q[m] = ring[m]
    BY <1>1, <1>5, <1>6
  <2> QED BY <2>1, <2>2 DEF Same
<1>9. ASSUME NEW m \in 1 .. a + b, m \notin 1 .. a PROVE Same(q1[m], q[m + 1])
  <2>1. m - a \in 1 .. b /\ (m - a) + 1 \in 1 .. b + 1 /\ a + (m - a) = m /\ a + ((m - a) + 1) = m + 1
    BY <1>9
  <2>2. q1[a + (m - a)] = link[(m - a) + 1]
    BY <1>3, <1>6, <2>1
  <2>3. q[a + ((m - a) + 1)] = link[(m - a) + 1]
    BY <1>5, <2>1
  <2> QED BY <2>1, <2>2, <2>3 DEF Same
<1>10. \A m \in 1 .. a + b : Same(q1[m], q[m]) \/ Same(q1[m], q[m + 1])
  BY <1>8, <1>9
<1>11. ASSUME NEW k \in 1 .. a + b, q1[k].cleans, NEW m \in k .. a + b
       PROVE  Same(q1[m], q[m + 1])
  <2>1. k \notin 1 .. a
    BY <1>8, <1>11
  <2>2. m \in 1 .. a + b /\ m \notin 1 .. a
    BY <2>1
  <2> QED BY <1>9, <2>2
<1>12. PICK n \in Nat : n = a + b
  OBVIOUS
<1> QED BY <1>4, <1>5, <1>6, <1>7, <1>10, <1>11, <1>12, ChainShift

\* A packet enters the ring: the queue is what it was, or its head is gone.
LEMMA ChainArrive ==
  ASSUME TypeOK, ChainInv, Arrive
  PROVE  ChainInv'
<1>0. link \in Seq(Packets) /\ ring \in Seq(Packets) /\ link # <<>> /\ RingSlots \in Nat \ {0}
  BY VideoAssumption DEF TypeOK, Arrive
<1>1. PICK l \in Seq(Packets), pkt \in Packets : l = Tail(link) /\ pkt = Head(link)
  BY <1>0, HeadTailProperties
<1>2. link = <<pkt>> \o l
  BY <1>0, <1>1, SplitHead
<1>3. ASSUME NEW r \in Seq(Packets) PROVE Append(r, pkt) \o l = r \o link
  <2>1. Append(r, pkt) = r \o <<pkt>>
    BY AppendIsConcat
  <2>2. (r \o <<pkt>>) \o l = r \o (<<pkt>> \o l)
    BY ConcatAssociative
  <2> QED BY <1>2, <2>1, <2>2
<1>4. prev' = prev /\ framebuf' = framebuf /\ link' = l
  BY <1>1 DEF Arrive, host, client
<1>5. CASE ring' = Append(ring, pkt) /\ UNCHANGED damaged
  <2>1. Queue' = Queue
    BY <1>0, <1>3, <1>4, <1>5 DEF Queue
  <2> QED BY <1>4, <1>5, <2>1 DEF ChainInv
<1>6. CASE Len(ring) = RingSlots /\ ring' = Append(Tail(ring), pkt) /\ damaged' = TRUE
  <2>1. ring # <<>>
    BY <1>0, <1>6
  <2>2. Tail(ring) \in Seq(Packets)
    BY <1>0, <2>1, HeadTailProperties
  <2>3. Queue' = Tail(ring) \o link
    BY <1>3, <1>4, <1>6, <2>2 DEF Queue
  <2>4. PICK q \in Seq(Packets) : q = Queue
    BY <1>0, QueueIs DEF Queue
  <2>5. q # <<>> /\ Tail(q) = Tail(ring) \o link
    BY <1>0, <2>1, <2>4, TailOfConcat DEF Queue
  <2> QED BY <1>4, <1>6, <2>3, <2>4, <2>5, ChainTail
<1> QED BY <1>1, <1>5, <1>6 DEF Arrive

\* The packet taken from the queue is decoded, on what it relies on.
LEMMA ChainDecode ==
  ASSUME TypeOK, ChainInv, Decode
  PROVE  ChainInv'
<1>0. link \in Seq(Packets) /\ ring \in Seq(Packets) /\ ring # <<>>
  BY DEF TypeOK, Decode
<1>1. PICK q \in Seq(Packets) : q = Queue
  BY <1>0, QueueIs DEF Queue
<1>2. q # <<>> /\ Tail(q) = Tail(ring) \o link /\ q[1] = Head(ring)
  BY <1>0, <1>1, TailOfConcat DEF Queue
<1>3. Queue' = Tail(q) /\ prev' = prev
  BY <1>2 DEF Decode, host, Queue
<1>4. Head(ring) \in Packets
  BY <1>0, SplitHead
<1>5. PICK pkt \in Packets : pkt = Head(ring) /\ pkt = q[1]
  BY <1>2, <1>4
<1>6. PICK n \in Nat : Len(q) = n + 1
  <2>1. Len(q) \in Nat \ {0}
    BY <1>2, EmptySeq
  <2> QED BY <2>1
<1>7. 1 \in 1 .. n + 1 /\ 1 \in 0 + 1 .. n + 1 /\ 1 - 1 = 0
  BY <1>6
<1>8. /\ Tail(q) \in Seq(Packets) /\ Len(Tail(q)) = Len(q) - 1
      /\ \A m \in 1 .. Len(Tail(q)) : Tail(q)[m] = q[m + 1]
  BY <1>2, HeadTailProperties
<1>9. Faithful(pkt)
  BY <1>1, <1>5, <1>6, <1>7 DEF ChainInv
<1>10. ~damaged => Continues(pkt, framebuf)
  <2>1. ASSUME ~damaged PROVE Continues(q[1], FrameAfter(q, framebuf, 1 - 1))
    BY <1>1, <1>6, <1>7, <2>1 DEF ChainInv, Gapless
  <2> QED BY <1>5, <1>7, <2>1 DEF FrameAfter
<1>11. CASE damaged /\ ~pkt.cleans
  <2>1. damaged' = TRUE
    BY <1>5, <1>11 DEF Decode, DecodeKeyframe, DecodeDelta, TypeOK
  <2> QED BY <1>1, <1>2, <1>3, <2>1, ChainTail
<1>12. CASE ~damaged \/ pkt.cleans
  <2>1. pkt.whole
    BY <1>9, <1>10, <1>12 DEF Continues, Faithful
  <2>2. framebuf' = pkt.pixels /\ pkt.pixels \in [Positions -> Indices]
    <3>1. pkt.pixels \in [Positions -> Indices] /\ framebuf \in [Positions -> Indices]
      BY DEF Packets, TypeOK
    <3>2. CASE pkt.type = "KEYFRAME"
      <4>1. Painted(pkt) = Positions /\ ~(pkt.len < PaletteLen + 2)
        BY <1>9, <2>1, <3>2, WholeKeyframe
      <4>2. framebuf' = [i \in Positions |->
                           IF i \in Painted(pkt) THEN pkt.pixels[i] ELSE framebuf[i]]
        BY <1>5, <3>2, <4>1 DEF Decode, DecodeKeyframe
      <4> QED BY <3>1, <4>1, <4>2
    <3>3. CASE pkt.type # "KEYFRAME"
      <4>1. pkt.type = "DELTA"
        BY <3>3 DEF Packets
      <4>2. Applied(pkt) = pkt.at
        BY <1>9, <2>1, <4>1, WholeDelta
      <4>3. framebuf' = [i \in Positions |->
                           IF i \in Applied(pkt) THEN pkt.pixels[i] ELSE framebuf[i]]
        BY <1>5, <3>3 DEF Decode, DecodeDelta
      <4>4. Continues(pkt, framebuf)
        BY <1>9, <1>10, <1>12, <3>3 DEF Faithful
      <4> QED BY <3>1, <4>2, <4>3, <4>4 DEF Continues
    <3> QED BY <3>2, <3>3
  <2>3. \E k \in {0, 1} : Gapless(q, framebuf, prev, k)
    <3>1. CASE ~damaged
      BY <1>1, <3>1 DEF ChainInv
    <3>2. CASE pkt.cleans
      BY <1>1, <1>5, <1>6, <1>7, <3>2 DEF ChainInv
    <3> QED BY <1>12, <3>1, <3>2
  <2>4. Gapless(Tail(q), framebuf', prev, 0)
    BY <1>2, <1>5, <2>2, <2>3, GaplessTaken
  <2>5. PICK q1 \in Seq(Packets) : q1 = Tail(q) /\ Len(q1) = n
    <3>1. Len(Tail(q)) = n
      BY <1>6, <1>8
    <3> QED BY <1>8, <3>1
  <2>6. \A m \in 1 .. n : q1[m] = q[m + 1] /\ m + 1 \in 1 .. n + 1
    BY <1>8, <2>5
  <2>7. \A m \in 1 .. n : Faithful(q1[m])
    BY <1>1, <1>6, <2>6 DEF ChainInv
  <2>8. ASSUME NEW k \in 1 .. n, q1[k].cleans PROVE Gapless(q1, framebuf', prev, k)
    <3>1. q[k + 1].cleans /\ k + 1 \in 1 .. n + 1
      BY <2>6, <2>8
    <3>2. Gapless(q, framebuf, prev, k + 1)
      BY <1>1, <1>6, <3>1 DEF ChainInv
    <3>3. \A m \in k .. Len(q1) : /\ q1[m].pixels = q[m + 1].pixels
                                  /\ q1[m].at = q[m + 1].at /\ q1[m].whole = q[m + 1].whole
      BY <2>5, <2>6
    <3>4. Len(q) = Len(q1) + 1 /\ k \in 1 .. Len(q1)
      BY <1>6, <2>5
    <3> QED BY <3>2, <3>3, <3>4, GaplessShift
  <2> QED BY <1>3, <2>4, <2>5, <2>7, <2>8 DEF ChainInv
<1> QED BY <1>11, <1>12 DEF TypeOK, Packets

LEMMA ChainNext == TypeOK /\ ChainInv /\ [Next]_vars => ChainInv'
<1> SUFFICES ASSUME TypeOK, ChainInv, [Next]_vars PROVE ChainInv'
  OBVIOUS
<1>1. CASE ForceKeyframe \/ UNCHANGED vars
  <2>1. UNCHANGED <<prev, link, ring, framebuf, damaged>>
    BY <1>1 DEF ForceKeyframe, vars, host, client
  <2>2. Queue' = Queue
    BY <2>1 DEF Queue
  <2> QED BY <2>1, <2>2 DEF ChainInv
<1>2. CASE \E s \in Screens : PcFrame(s)
  BY <1>2, ChainPcFrame
<1>3. CASE Fade
  BY <1>3, ChainFade
<1>4. CASE Arrive
  BY <1>4, ChainArrive
<1>5. CASE Decode
  BY <1>5, ChainDecode
<1> QED BY <1>1, <1>2, <1>3, <1>4, <1>5 DEF Next

\* The encoder (encoder.cpp) never learns what arrived, yet when everything is
\* delivered the picture of the DS (video_decode.c) is the frame the encoder
\* takes its next differences to, unless a packet was lost, dropped by a full
\* ring or too long for its length field, and no keyframe sent after that has
\* been decoded.
THEOREM PictureInSync == Spec => []InSync
<1>1. TypeOK /\ ChainInv => InSync
  <2> SUFFICES ASSUME ChainInv, Delivered, ~damaged PROVE framebuf = prev
    BY DEF InSync
  <2>1. Queue = <<>> /\ Len(Queue) = 0
    BY DEF Delivered, Queue
  <2> QED BY <2>1 DEF ChainInv, Gapless, FrameAfter
<1> QED BY <1>1, VideoTypeInit, VideoTypeNext, ChainInit, ChainNext, PTL DEF Spec
=============================================================================
