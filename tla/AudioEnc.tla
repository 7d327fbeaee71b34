------------------------------ MODULE AudioEnc ------------------------------
(***************************************************************************)
(* The PC's audio (audio_enc.cpp): what the sound device has recorded is   *)
(* pumped into a ring of samples by the main loop, resampled on the way,   *)
(* and leaves it in chunks.  Nothing of it runs beside the main loop.      *)
(*                                                                         *)
(* The builds for other systems than Windows never become ready.  Samples  *)
(* are 0, but for two in the whole recording, 1 and then 2, by which one   *)
(* can tell what became of any two.                                        *)
(***************************************************************************)
EXTENDS Integers, Sequences

CONSTANTS
  PcmCap,     \* AUDIO_RING_CAPACITY (32768)
  ChunkMin,   \* AUDIO_CHUNK_MIN (256)
  ChunkMax,   \* AUDIO_CHUNK_MAX (1024), or what the packet buffer holds if less
  InRate,     \* nSamplesPerSec of the device
  OutRate     \* AUDIO_OUT_RATE (16000)

ASSUME AudioEncAssumption ==
  /\ {PcmCap, ChunkMin, ChunkMax, InRate, OutRate} \subseteq Nat \ {0}
  /\ ChunkMin <= ChunkMax /\ ChunkMin < PcmCap /\ OutRate <= InRate

VARIABLES
  ready,      \* s_audio_ready
  pcm, pcmHead, pcmTail,  \* s_pcm_ring, s_ring_head, s_ring_tail
  accum,      \* s_resample_accum
  marks       \* history: how many of the two samples were recorded

enc == <<ready, pcm, pcmHead, pcmTail, accum, marks>>

Samples == 0 .. 2

EncInit ==
  /\ ready = FALSE
  /\ pcm = [i \in 0 .. PcmCap - 1 |-> 0]
  /\ pcmHead = 0 /\ pcmTail = 0 /\ accum = 0
  /\ marks = 0

\* audio_enc_init, when the device has a format it knows.
EncStart ==
  /\ ~ready
  /\ ready' = TRUE
  /\ pcmHead' = 0 /\ pcmTail' = 0 /\ accum' = 0
  /\ UNCHANGED <<pcm, marks>>

\* audio_enc_shutdown, at the end of the program and with it of its ring.
EncStop ==
  /\ ready
  /\ ready' = FALSE
  /\ pcm' = [i \in 0 .. PcmCap - 1 |-> 0]
  /\ pcmHead' = 0 /\ pcmTail' = 0 /\ accum' = 0
  /\ UNCHANGED marks

RingNext(i) == (i + 1) % PcmCap

\* ring_available
Available ==
  IF pcmHead >= pcmTail THEN pcmHead - pcmTail ELSE PcmCap - pcmTail + pcmHead

\* ring_push drops the oldest sample of a full ring.
RingPush(sample) ==
  /\ pcm' = [pcm EXCEPT ![pcmHead] = sample]
  /\ pcmHead' = RingNext(pcmHead)
  /\ pcmTail' = IF RingNext(pcmHead) = pcmTail THEN RingNext(pcmTail) ELSE pcmTail

\* process_capture_frames for a frame of the device, when its rate is at least
\* OutRate: one of so many frames is kept.
PumpCapture(sample) ==
  /\ ready
  /\ sample = 0 \/ sample = marks + 1
  /\ marks' = IF sample = 0 THEN marks ELSE sample
  /\ accum' = IF accum + OutRate >= InRate THEN accum + OutRate - InRate ELSE accum + OutRate
  /\ IF accum + OutRate >= InRate THEN RingPush(sample) ELSE UNCHANGED <<pcm, pcmHead, pcmTail>>
  /\ UNCHANGED ready

ChunkSize == IF Available < ChunkMax THEN Available ELSE ChunkMax

Block(n) == [i \in 1 .. n |-> pcm[(pcmTail + i - 1) % PcmCap]]

\* Seeded fault: one sample of the block stays in the ring.
PopBlockShort(n) ==
  /\ pcmTail' = (pcmTail + n - 1) % PcmCap
  /\ UNCHANGED <<pcm, pcmHead>>

\* ring_pop_block, whose result is Block(n)
PopBlock(n) ==
  /\ pcmTail' = (pcmTail + n) % PcmCap
  /\ UNCHANGED <<pcm, pcmHead>>

\* audio_enc_capture after its pump, when it has a chunk.
Capture ==
  /\ ready /\ Available >= ChunkMin
  /\ PopBlock(ChunkSize)
  /\ UNCHANGED <<ready, accum, marks>>
=============================================================================
