------------------------------- MODULE Video --------------------------------
(***************************************************************************)
(* The video stream, end to end.  The PC captures its screen, reduces it   *)
(* to indices into a palette of its own (capture.cpp) and encodes it as a  *)
(* keyframe or as the difference to the frame it encoded before            *)
(* (encoder.cpp), without ever hearing what arrived.  A packet is one      *)
(* datagram; the Wii passes it on cut to LinkMax bytes, and the DS drops a *)
(* packet that is shorter than its header says (nifi_net.c), queues the    *)
(* others in a ring that drops its oldest, and decodes (video_decode.c).   *)
(*                                                                         *)
(* Sizes matter here and bytes do not: a keyframe carries its palette and  *)
(* pixels, and the bytes of its run-length coding are counted.             *)
(***************************************************************************)
EXTENDS Integers, Sequences, FiniteSets

CONSTANTS
  PixelCount,     \* DSRD_FRAME_PIXELS (49152)
  RGB,            \* colours, 15 bits each
  KeyframeEvery,  \* DSRD_KEYFRAME_EVERY (60)
  FallbackPct,    \* DSRD_DELTA_FALLBACK_PCT (60)
  MaxRun,         \* longest run of rle.h (128)
  HeaderLen,      \* sizeof(dsrd_header_t) (12)
  PaletteLen,     \* DSRD_PALETTE_BYTES (512)
  LengthMod,      \* payload_len is a uint16_t (2^16)
  LinkMax,        \* bytes the Wii's radio carries (488)
  RingSlots,      \* DSRD_CIRC_BUF_SLOTS (8)
  MaxFaults       \* bound: packets lost, and stalls of the DS

ASSUME VideoAssumption ==
  /\ {PixelCount, KeyframeEvery, MaxRun, RingSlots} \subseteq Nat \ {0}
  /\ {FallbackPct, HeaderLen, PaletteLen, LinkMax, MaxFaults} \subseteq Nat
  /\ LengthMod \in Nat \ {0}

VARIABLES
  prev,       \* s_prev_pixels
  palette,    \* the palette that came with prev
  force,      \* s_force_keyframe
  counter,    \* s_frame_counter modulo KeyframeEvery
  isKeyframe, \* encoder_encode's is_keyframe for the last frame
  link,       \* packets between the PC and the DS
  ring,       \* s_video_buf
  framebuf,   \* s_framebuf
  hwPalette,  \* BG_PALETTE
  damaged,    \* history: a packet framebuf relies on was lost, or is longer
              \* than its header could say
  faults      \* losses and stalls still to come

host == <<prev, palette, force, counter, isKeyframe>>
client == <<framebuf, hwPalette>>
vars == <<host, link, ring, client, damaged, faults>>

Positions == 1 .. PixelCount
Screens == [Positions -> RGB]
Indices == 0 .. PixelCount - 1

Init ==
  /\ prev = [i \in Positions |-> 0]
  /\ palette = <<>>
  /\ force = TRUE
  /\ counter = 0
  /\ isKeyframe = FALSE
  /\ link = <<>>
  /\ ring = <<>>
  /\ framebuf = [i \in Positions |-> 0]
  /\ hwPalette = <<>>
  /\ damaged = FALSE
  /\ faults = MaxFaults
-----------------------------------------------------------------------------
\* quantize: colours are numbered in the order in which the scan meets them.
\* The palette has room for every colour of the small screens here.
FirstSeen(s) ==
  {i \in Positions : \A j \in 1 .. i - 1 : s[j] # s[i]}

IndexOf(s, colour) ==
  Cardinality({i \in FirstSeen(s) :
                 \A j \in 1 .. i : s[j] # colour})

Quantized(s) == [i \in Positions |-> IndexOf(s, s[i])]

PaletteOf(s) ==
  [k \in 1 .. Cardinality(FirstSeen(s)) |->
     s[CHOOSE i \in FirstSeen(s) : IndexOf(s, s[i]) = k - 1]]

\* dsrd_rle_encode: a run ends where the value changes or after MaxRun bytes.
ValueStart(p, i) ==
  CHOOSE j \in 1 .. i :
    /\ \A k \in j .. i : p[k] = p[i]
    /\ j = 1 \/ p[j - 1] # p[i]

Runs(p) == {i \in Positions : (i - ValueStart(p, i)) % MaxRun = 0}

\* payload_len: what a packet announces is its length modulo LengthMod, and no
\* more of it is sent.  It is whole if that is all of it.
Packet(type, bytes, p, pal, at) ==
  [type |-> type, len |-> bytes % LengthMod, whole |-> bytes < LengthMod,
   pixels |-> p, palette |-> pal, at |-> at,
   cleans |-> type = "KEYFRAME" /\ bytes < LengthMod]

Keyframe(p, pal) ==
  Packet("KEYFRAME", PaletteLen + 2 * Cardinality(Runs(p)), p, pal, Positions)

\* Seeded fault: the comparison misses the last pixel.
ChangedButLast(p) == {i \in 1 .. PixelCount - 1 : p[i] # prev[i]}

Changed(p) == {i \in Positions : p[i] # prev[i]}

Delta(p) ==
  Packet("DELTA", 2 + 3 * Cardinality(Changed(p)), p, <<>>, Changed(p))

\* encoder_encode: what is sent, if anything.
KeyframeDue(p) ==
  \/ force
  \/ counter = 0
  \/ (Cardinality(Changed(p)) * 100) \div PixelCount >= FallbackPct

Encoded(p, pal) ==
  IF KeyframeDue(p) THEN <<Keyframe(p, pal)>>
  ELSE IF Changed(p) = {} THEN <<>>
  ELSE <<Delta(p)>>

\* A keyframe sent before the packet that is lost does not repair the loss.
Taint(queue) == [i \in 1 .. Len(queue) |-> [queue[i] EXCEPT !.cleans = FALSE]]

\* encoder_force_keyframe: the magnifier of the DS changed.
ForceKeyframe ==
  /\ ~force
  /\ force' = TRUE
  /\ UNCHANGED <<prev, palette, counter, isKeyframe, link, ring, client,
                 damaged, faults>>

\* A frame of the PC.  It comes when the DS has decoded the one before: 30
\* frames a second against 60 polls; unless a burst or a stall, a fault, lets
\* packets pile up.
PcFrame(s) ==
  LET pixels == Quantized(s)
      packets == Encoded(pixels, PaletteOf(s))
      passes == \A i \in DOMAIN packets : HeaderLen + packets[i].len <= LinkMax
      exact == \A i \in DOMAIN packets : packets[i].whole
  IN
  /\ IF link = <<>> /\ ring = <<>>
       THEN UNCHANGED faults
       ELSE faults > 0 /\ faults' = faults - 1
  /\ prev' = pixels
  /\ palette' = PaletteOf(s)
  /\ isKeyframe' = KeyframeDue(pixels)
  /\ force' = FALSE
  /\ counter' = (counter + 1) % KeyframeEvery
  /\ IF passes /\ exact
       THEN link' = link \o packets /\ UNCHANGED <<ring, damaged>>
       ELSE /\ link' = Taint(link) \o IF passes THEN packets ELSE <<>>
            /\ ring' = Taint(ring) /\ damaged' = TRUE
  /\ UNCHANGED client
-----------------------------------------------------------------------------
\* A packet is lost under way; a keyframe sent after it will repair that.
Fade ==
  /\ faults > 0
  /\ link # <<>>
  /\ faults' = faults - 1
  /\ link' = Tail(link)
  /\ ring' = Taint(ring)
  /\ damaged' = TRUE
  /\ UNCHANGED <<host, client>>

\* Seeded fault: a full ring makes no room.
ArriveOverfills ==
  /\ link # <<>>
  /\ link' = Tail(link)
  /\ ring' = Append(ring, Head(link))
  /\ UNCHANGED <<host, client, damaged, faults>>

\* nifi_rx_handler and circ_buf_push.
Arrive ==
  /\ link # <<>>
  /\ link' = Tail(link)
  /\ IF Len(ring) = RingSlots
       THEN ring' = Append(Tail(ring), Head(link)) /\ damaged' = TRUE
       ELSE ring' = Append(ring, Head(link)) /\ UNCHANGED damaged
  /\ UNCHANGED <<host, client, faults>>

\* The runs a keyframe's length leaves room for, and what they paint.
Painted(pkt) ==
  {i \in Positions :
     2 * Cardinality({j \in Runs(pkt.pixels) : j <= i}) <= pkt.len - PaletteLen}

\* dsrd_video_decode_keyframe
DecodeKeyframe(pkt) ==
  IF pkt.len < PaletteLen + 2
    THEN UNCHANGED <<client, damaged>>
    ELSE /\ hwPalette' = pkt.palette
         /\ framebuf' = [i \in Positions |->
              IF i \in Painted(pkt) THEN pkt.pixels[i] ELSE framebuf[i]]
         /\ damaged' = (damaged /\ ~pkt.cleans)

\* dsrd_video_decode_delta: the deltas that fit the length, in scan order.
Applied(pkt) ==
  {i \in pkt.at : 3 * Cardinality({j \in pkt.at : j <= i}) <= pkt.len - 2}

DecodeDelta(pkt) ==
  /\ framebuf' = [i \in Positions |->
       IF i \in Applied(pkt) THEN pkt.pixels[i] ELSE framebuf[i]]
  /\ UNCHANGED <<hwPalette, damaged>>

\* The drain loop of dsrd_nifi_poll, a packet at a time.
Decode ==
  /\ ring # <<>>
  /\ ring' = Tail(ring)
  /\ IF Head(ring).type = "KEYFRAME"
       THEN DecodeKeyframe(Head(ring)) ELSE DecodeDelta(Head(ring))
  /\ UNCHANGED <<host, link, faults>>

Next ==
  \/ ForceKeyframe \/ (\E s \in Screens : PcFrame(s))
  \/ Fade \/ Arrive \/ Decode

\* The PC keeps capturing, the radio carries, the DS polls.
Spec ==
  /\ Init /\ [][Next]_vars
  /\ WF_vars(\E s \in Screens : PcFrame(s))
  /\ WF_vars(Arrive) /\ WF_vars(Decode)
-----------------------------------------------------------------------------
Packets ==
  [type : {"KEYFRAME", "DELTA"}, len : 0 .. LengthMod - 1, whole : BOOLEAN,
   pixels : [Positions -> Indices], palette : Seq(RGB),
   at : SUBSET Positions, cleans : BOOLEAN]

TypeOK ==
  /\ prev \in [Positions -> Indices]
  /\ palette \in Seq(RGB) /\ hwPalette \in Seq(RGB)
  /\ force \in BOOLEAN /\ isKeyframe \in BOOLEAN /\ damaged \in BOOLEAN
  /\ counter \in 0 .. KeyframeEvery - 1
  /\ link \in Seq(Packets)
  /\ ring \in Seq(Packets) /\ Len(ring) <= RingSlots
  /\ framebuf \in [Positions -> Indices]
  /\ faults \in 0 .. MaxFaults

Delivered == link = <<>> /\ ring = <<>>

\* The encoder never learns what arrived, yet the picture of the DS is the one
\* the encoder takes its differences to whenever everything is delivered and
\* nothing was lost since the last keyframe that came after the loss, a packet
\* too long for its length field counting as lost: the two ends drift apart
\* through losses only.
InSync == Delivered /\ ~damaged => framebuf = prev

\* "Keyframes periodically clean any delta corruption from dropped packets"
\* (README.md): again and again pixels and palette of the DS are exact.
LossRecovery ==
  []<>(Delivered /\ palette # <<>> /\ framebuf = prev /\ hwPalette = palette)
=============================================================================
