----------------------------- MODULE AudioPath ------------------------------
(***************************************************************************)
(* Sound from the PC's device to the DS's: chunks of AudioEnc travel as    *)
(* datagrams to the Wii (main.c), through its send buffer (WlBackend) and  *)
(* the air into the DS's packet ring, from which the DS's poll fills the   *)
(* buffer it plays (AudioStream).                                          *)
(*                                                                         *)
(* Sessions come and go, and sound is turned on and off, at any moment     *)
(* (SELECT+L, PKT_CONFIG): whether a chunk is forwarded, kept or played is *)
(* open.  The network between PC and Wii loses datagrams, and keeps the    *)
(* others in order.                                                        *)
(***************************************************************************)
EXTENDS AudioEnc, AudioStream, WlBackend, RingIrq

VARIABLES
  datagram,   \* the chunk on its way from PC to Wii
  raced       \* history: a chunk was pushed while another was popped

dsRing == <<ringVars, pop, raced>>
audioVars == <<enc, stream, wl, datagram, dsRing>>

AudioInit ==
  /\ EncInit /\ StreamInit /\ WlInit /\ RingIrqInit(NoFrame)
  /\ datagram = NoFrame /\ raced = FALSE

\* audio_enc_init at the PC's start, audio_enc_shutdown at its end.
PcSwitch == (EncStart \/ EncStop) /\ UNCHANGED <<stream, wl, datagram, dsRing>>

\* The device records while the PC's loop turns.
PcPump ==
  /\ \E sample \in Samples : PumpCapture(sample)
  /\ UNCHANGED <<stream, wl, datagram, dsRing>>

\* The PC's main loop sends a chunk, which may get lost.
PcSend ==
  /\ Capture
  /\ \/ datagram = NoFrame /\ datagram' = Block(ChunkSize)
     \/ UNCHANGED datagram
  /\ UNCHANGED <<stream, wl, dsRing>>

\* The Wii's main loop forwards a datagram, or drops it if it has no session.
WiiForwards ==
  /\ datagram # NoFrame /\ sending = "idle"
  /\ SendStart(datagram) \/ UNCHANGED wl
  /\ datagram' = NoFrame
  /\ UNCHANGED <<enc, stream, dsRing>>

WiiCopies == CopyUp /\ UNCHANGED <<enc, stream, datagram, dsRing>>

WiiAck == AckTimer /\ UNCHANGED <<enc, stream, datagram, dsRing>>

\* The frame leaves.  nifi_rx_handler of the DS takes it, unless it fades or
\* sound is off.
WiiSends ==
  /\ SendDone
  /\ \/ IsChunk /\ Store(OnAir) /\ raced' = (raced \/ pc # "empty?")
     \/ UNCHANGED dsRing
  /\ UNCHANGED <<enc, stream, datagram>>

\* dsrd_nifi_poll while connected with sound on pops a chunk ...
DsPops ==
  /\ \/ PopStart \/ PopCopy \/ PopCopyRest \/ PopReload \/ PopStoreTail
     \/ PopReloadCount
  /\ UNCHANGED <<enc, stream, wl, datagram, raced>>

\* The chunk of a slot that held a and then b, copied half before and half
\* after: its length and first half are a's, and what b does not reach.
Joined(a, b) ==
  [i \in 1 .. Len(a) |-> IF i <= Len(a) \div 2 \/ i > Len(b) THEN a[i] ELSE b[i]]

\* ... and plays it.
DsPlays ==
  /\ PopStoreCount(NoFrame)
  /\ PushChunk(Joined(out[1], out[2]))
  /\ UNCHANGED <<enc, wl, datagram, raced>>

AudioNext ==
  \/ PcSwitch \/ PcPump \/ PcSend \/ WiiForwards \/ WiiCopies \/ WiiAck \/ WiiSends
  \/ DsPops \/ DsPlays

AudioSpec == AudioInit /\ [][AudioNext]_audioVars
-----------------------------------------------------------------------------
\* When the radio is up the Wii holds the lock, the heap, the driver and the
\* buffer, and after a failure none of them is left over for the next try to
\* take twice; but for IOS's own lock.
AudioTypeOK ==
  /\ ready \in BOOLEAN
  /\ pcm \in [0 .. PcmCap - 1 -> Samples]
  /\ {pcmHead, pcmTail} \subseteq 0 .. PcmCap - 1
  /\ accum \in 0 .. InRate - 1
  /\ halves \in [{"a", "b"} -> [0 .. HalfSize - 1 -> Samples]]
  /\ writePos \in 0 .. HalfSize - 1
  /\ writeHalf # sound
  /\ IF inited THEN held = Resources /\ locked ELSE held = {}
  /\ heaps \in 0 .. Heaps /\ locked \in BOOLEAN
  /\ {datagram, frame} \subseteq Seq(Samples)
  /\ sending \in Stages
  /\ slots \in [Indexes -> Seq(Samples)]
  /\ {head, tail, tailReg} \subseteq Indexes
  /\ {count, countReg} \subseteq 0 .. Slots
  /\ pc \in PopPoints /\ raced \in BOOLEAN
  /\ out \in Seq(Samples) \X Seq(Samples)

\* Of any two samples the DS plays each at most once, and the later one later,
\* through three rings and two buffers, whatever is lost on the way and however
\* often sound or session are turned off and on - as long as no chunk arrived
\* while the DS was taking one out: then it may tear, repeat or skip chunks.
HeardInOrder == ~raced => played \in {<<>>, <<1>>, <<2>>, <<1, 2>>}

\* The ACK timer's callback, which writes its header into the buffer the loop
\* fills, can cost a frame but not change one: what goes on air as a chunk is
\* the chunk the loop sends, whole.
FramesWhole == sending = "ioctl" /\ IsChunk => OnAir = frame
=============================================================================
