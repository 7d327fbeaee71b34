---------------------------- MODULE ChannelCalib ----------------------------
(***************************************************************************)
(* The channel benchmark of the Wii's boot (channel_calib.c): on every     *)
(* candidate channel a few probes, each waiting for the DS's answer to it  *)
(* for a while, and the channel with the best score wins.                  *)
(*                                                                         *)
(* The DS is any that follows the probes: it keeps one answer to give,     *)
(* the last, and gives it with its next frame (nifi_net.c); radio and      *)
(* driver may lose either.  Times are microseconds of Rtts.                *)
(***************************************************************************)
EXTENDS Integers, SequencesExt, FiniteSets

CONSTANTS
  Probes,  \* probe_count (18, or what the file says, 4 to 64)
  Rtts     \* times from probe to answer, below the timeout

ASSUME CalibAssumption == Probes \in 1 .. 64 /\ Rtts \subseteq Nat \ {0}

VARIABLES
  txChannel,  \* s_channel of nifi_tx.c
  candidate,  \* ci, the candidate being probed
  token,      \* the token waited for, <<channel, p, seq>>; None between probes
  sent,       \* probes sent on the candidate, which is also p
  seq,        \* seq
  rtts,       \* rtts_us of the candidate
  scores,     \* score of the candidates before
  slot,       \* s_diag_pong of the DS, if pending
  heard,      \* history: the probes on the candidate that the DS heard
  best        \* best_channel

calib == <<candidate, token, sent, seq, rtts, scores, slot, heard, best>>

None == <<>>
NoScore == 1000000000  \* stands for 0xFFFFFFFF: above every score

\* The state of the benchmark before and after it.
CalibIdle ==
  /\ candidate = 0 /\ token = None /\ sent = 0 /\ seq = 0 /\ rtts = <<>> /\ scores = <<>>
  /\ slot = None /\ heard = 0 /\ best = 0

CalibOver ==
  /\ candidate' = 0 /\ token' = None /\ sent' = 0 /\ seq' = 0 /\ rtts' = <<>> /\ scores' = <<>>
  /\ slot' = None /\ heard' = 0 /\ best' = 0

\* The driver has no such request: the channel is only written down.
SetChannel(ch) == txChannel' = IF ch \in 1 .. 11 THEN ch ELSE txChannel

NextCandidate(channels) ==
  /\ candidate < Len(channels)
  /\ token = None /\ sent = 0 /\ candidate = Len(scores)
  /\ candidate' = candidate + 1
  /\ SetChannel(channels[candidate + 1])
  /\ heard' = 0
  /\ UNCHANGED <<token, sent, seq, rtts, scores, slot, best>>

\* send_ping; the DS hears it or not, and forgets an answer not yet given.
SendPing(channels) ==
  /\ candidate > Len(scores) /\ token = None /\ sent < Probes /\ sent < 64
  /\ token' = <<channels[candidate], sent, seq % 256>>
  /\ sent' = sent + 1
  /\ seq' = seq + 1
  /\ \/ slot' = token' /\ heard' = heard + 1
     \/ UNCHANGED <<slot, heard>>
  /\ UNCHANGED <<txChannel, candidate, rtts, scores, best>>

\* Seeded fault: any answer will do.
AnyPong ==
  /\ slot # None
  /\ slot' = None
  /\ token # None
  /\ token' = None /\ (\E t \in Rtts : rtts' = Append(rtts, t))
  /\ UNCHANGED <<txChannel, candidate, sent, seq, scores, heard, best>>

\* The DS's next poll gives its answer, and wait_for_pong receives it: one to
\* another probe is discarded, as is one that comes between two probes.
Pong ==
  /\ slot # None
  /\ slot' = None
  /\ \/ slot = token /\ token' = None /\ (\E t \in Rtts : rtts' = Append(rtts, t))
     \/ UNCHANGED <<token, rtts>>
  /\ UNCHANGED <<txChannel, candidate, sent, seq, scores, heard, best>>

Timeout ==
  /\ token # None
  /\ token' = None
  /\ UNCHANGED <<txChannel, candidate, sent, seq, rtts, scores, slot, heard, best>>

\* rtts_us[k] when they are sorted: not more than k are less, more than k are
\* not greater.
Ranked(times, k) ==
  CHOOSE t \in ToSet(times) :
    /\ Cardinality({i \in DOMAIN times : times[i] < t}) <= k
    /\ k < Cardinality({i \in DOMAIN times : times[i] <= t})

\* finalize_metric's score.
Score(times, n) ==
  LET count == Len(times)
      p95 == (count * 95) \div 100
      loss == ((n - count) * 1000) \div n
  IN IF count = 0 THEN NoScore
     ELSE (Ranked(times, IF p95 >= count THEN count - 1 ELSE p95) * 50) \div 100
          + (Ranked(times, count \div 2) * 30) \div 100 + loss * 200

FinalizeMetric ==
  /\ candidate > Len(scores) /\ token = None /\ sent > 0 /\ (sent >= Probes \/ sent >= 64)
  /\ scores' = Append(scores, Score(rtts, sent))
  /\ sent' = 0
  /\ rtts' = <<>>
  /\ UNCHANGED <<txChannel, candidate, token, seq, slot, heard, best>>

\* The first of the candidates with the lowest score, 0 if none was answered.
Choose(channels) ==
  IF \A i \in DOMAIN scores : scores[i] = NoScore THEN 0
  ELSE channels[CHOOSE i \in DOMAIN scores :
         /\ \A j \in DOMAIN scores : scores[i] <= scores[j]
         /\ \A j \in 1 .. i - 1 : scores[i] < scores[j]]

\* The end of channel_calib_run: without an answer the last candidate stays.
SelectBest(channels) ==
  /\ candidate = Len(channels) /\ Len(scores) = candidate
  /\ best' = Choose(channels)
  /\ SetChannel(Choose(channels))
  /\ UNCHANGED <<candidate, token, sent, seq, rtts, scores, slot, heard>>

Tokens == (1 .. 11) \X (0 .. Probes - 1) \X (0 .. 255)

CalibTypeOK ==
  /\ txChannel \in 1 .. 11
  /\ candidate \in 0 .. 11
  /\ token \in Tokens \cup {None} /\ slot \in Tokens \cup {None}
  /\ sent \in 0 .. Probes /\ seq \in Nat
  /\ scores \in Seq(Nat) /\ Len(scores) <= candidate
  /\ rtts \in Seq(Rtts) /\ Len(rtts) <= sent
  /\ heard \in 0 .. Probes
  /\ best \in 0 .. 11
=============================================================================
