---------------------------- MODULE AudioStream -----------------------------
(***************************************************************************)
(* Playback on the DS (audio_stream.c): chunks fill one half of a double   *)
(* buffer; a full half is handed to the sound hardware, which stops        *)
(* playing the other, and filling goes on there.                           *)
(***************************************************************************)
EXTENDS Integers, Sequences

CONSTANT HalfSize   \* AUDIO_BUF_SAMPLES (2048)

ASSUME AudioStreamAssumption == HalfSize \in Nat \ {0}

VARIABLES
  halves,     \* s_buf_a and s_buf_b
  writeHalf,  \* s_write_buf
  writePos,   \* s_write_pos
  sound,      \* the half being played, "none" before the first: s_sound_id
  played      \* history: the marked samples handed to the hardware

stream == <<halves, writeHalf, writePos, sound, played>>

\* dsrd_audio_init
StreamInit ==
  /\ halves = [h \in {"a", "b"} |-> [i \in 0 .. HalfSize - 1 |-> 0]]
  /\ writeHalf = "a" /\ writePos = 0 /\ sound = "none"
  /\ played = <<>>

Marked(sample) == sample # 0

Other(h) == IF h = "a" THEN "b" ELSE "a"

\* A sample at a time: the state after the n first samples of the chunk.
State == [halves |-> halves, half |-> writeHalf, pos |-> writePos, sound |-> sound, played |-> played]

\* The marked samples of a half.
MarksOf(half) ==
  LET first[n \in 0 .. HalfSize] ==
        IF n = 0 THEN <<>>
        ELSE IF Marked(half[n - 1]) THEN Append(first[n - 1], half[n - 1])
        ELSE first[n - 1]
  IN first[HalfSize]

\* submit_and_swap
SubmitAndSwap(s) ==
  [s EXCEPT !.sound = s.half, !.half = Other(s.half), !.pos = 0,
            !.played = s.played \o MarksOf(s.halves[s.half])]

Written(s, sample) ==
  LET filled == [s EXCEPT !.halves[s.half][s.pos] = sample, !.pos = s.pos + 1]
  IN IF filled.pos >= HalfSize THEN SubmitAndSwap(filled) ELSE filled

\* dsrd_audio_push_chunk
PushChunk(chunk) ==
  LET after[n \in 0 .. Len(chunk)] ==
        IF n = 0 THEN State ELSE Written(after[n - 1], chunk[n])
      end == after[Len(chunk)]
  IN /\ halves' = end.halves /\ writeHalf' = end.half /\ writePos' = end.pos
     /\ sound' = end.sound /\ played' = end.played
=============================================================================
