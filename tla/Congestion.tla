----------------------------- MODULE Congestion -----------------------------
(***************************************************************************)
(* The congestion loop: the DS counts the packets its rings overwrite and  *)
(* the frames its handler rejects, reports both every ReportFrames frames  *)
(* of a session (nifi_net.c), and the PC halves its frame rate or restores *)
(* it (throttle.cpp).  The Wii broadcasts an ACK frame every 4 ms, session *)
(* or not (ack_spoof.c): the DS handler has no case for its type and so    *)
(* counts it as a drop.  What the rings overwrite and what else is         *)
(* rejected is decided by the environment.                                 *)
(***************************************************************************)
EXTENDS Naturals, Sequences

CONSTANTS
  ReportFrames,     \* CONGESTION_REPORT_FRAMES (120)
  DropThreshold,    \* the 10 of throttle_update
  ClearThreshold,   \* CLEAR_THRESHOLD (5)
  InitialFps,       \* --fps
  SpoofsHeard,      \* ACK frames the DS hears in a frame (about 4, or 0 where
                    \* it is out of their reach)
  MaxRejects,       \* bound: other frames rejected in one VBlank
  MaxCount,         \* bound on the counters below their wrap at 2^16
  MaxFaults         \* bound: reports lost on the way

ASSUME CongestionAssumption ==
  /\ ReportFrames \in Nat \ {0}
  /\ DropThreshold \in Nat
  /\ ClearThreshold \in Nat \ {0}
  /\ InitialFps \in Nat
  /\ SpoofsHeard \in Nat
  /\ MaxRejects \in Nat
  /\ MaxCount \in Nat
  /\ MaxFaults \in Nat

VARIABLES
  connected,    \* s_conn_state = CONN_CONNECTED
  pc,           \* the main loop of the DS: waiting, polled, or mid-report
  timer,        \* s_congestion_timer
  overflows,    \* overflow_cnt of both rings
  drops,        \* s_rx_drops
  read,         \* the report under construction
  reports,      \* reports on their way to the PC
  faults,       \* losses still to come
  fps,          \* s_target_fps
  streak,       \* s_clear_streak, up to ClearThreshold
  verdicts      \* history: were the last ClearThreshold reports clear

vars == <<connected, pc, timer, overflows, drops, read, reports, faults,
          fps, streak, verdicts>>
ds == <<connected, pc, timer, overflows, drops, read>>
host == <<fps, streak, verdicts>>

MinFps == IF InitialFps \div 2 < 5 THEN 5 ELSE InitialFps \div 2
Report == [overflows : 0 .. MaxCount, drops : 0 .. MaxCount]
Nothing == [overflows |-> 0, drops |-> 0]

\* The counters fit, and the frame rate is one of the two it steps between.
TypeOK ==
  /\ connected \in BOOLEAN
  /\ pc \in {"vblank", "report", "reset"}
  /\ timer \in 0 .. ReportFrames - 1
  /\ overflows \in 0 .. MaxCount
  /\ drops \in 0 .. MaxCount
  /\ read \in Report
  /\ reports \in Seq(Report)
  /\ faults \in 0 .. MaxFaults
  /\ fps \in {InitialFps, MinFps}
  /\ streak \in 0 .. ClearThreshold
  /\ verdicts \in Seq(BOOLEAN) /\ Len(verdicts) <= ClearThreshold

Init ==
  /\ connected = FALSE
  /\ pc = "vblank"
  /\ timer = 0 /\ overflows = 0 /\ drops = 0
  /\ read = Nothing
  /\ reports = <<>>
  /\ faults = MaxFaults
  /\ fps = InitialFps                       \* throttle_init
  /\ streak = 0
  /\ verdicts = <<>>

AtMost(n, max) == IF n > max THEN max ELSE n
-----------------------------------------------------------------------------
\* The session comes and goes; no counter is reset by either.
Connect ==
  /\ pc = "vblank"
  /\ connected' = ~connected
  /\ UNCHANGED <<pc, timer, overflows, drops, read, reports, faults, host>>

\* A frame of the DS: the interrupts since the last one rejected the ACK
\* frames and perhaps others.
VBlank ==
  /\ pc = "vblank"
  /\ \E rejected \in 0 .. MaxRejects :
       drops' = AtMost(drops + SpoofsHeard + rejected, MaxCount)
  /\ pc' = "report"
  /\ UNCHANGED <<connected, timer, overflows, read, reports, faults, host>>

\* circ_buf_push in the interrupt finds a full ring, anywhere in the frame.
Overflow ==
  /\ overflows < MaxCount
  /\ overflows' = overflows + 1
  /\ UNCHANGED <<connected, pc, timer, drops, read, reports, faults, host>>

\* dsrd_nifi_send_congestion: nothing to do yet, or the counters are read ...
\* The PC has long taken the report before, which is two seconds old.
NoReport ==
  /\ pc = "report"
  /\ ~connected \/ timer + 1 < ReportFrames
  /\ timer' = IF connected THEN timer + 1 ELSE timer
  /\ pc' = "vblank"
  /\ UNCHANGED <<connected, overflows, drops, read, reports, faults, host>>

ReadCounters ==
  /\ pc = "report"
  /\ connected
  /\ timer + 1 >= ReportFrames
  /\ reports = <<>>
  /\ timer' = 0
  /\ read' = [overflows |-> overflows, drops |-> drops]
  /\ pc' = "reset"
  /\ UNCHANGED <<connected, overflows, drops, reports, faults, host>>

\* nifi_rx_handler rejects a frame in between.
RejectMidway ==
  /\ pc = "reset"
  /\ drops < MaxCount
  /\ drops' = drops + 1
  /\ UNCHANGED <<connected, pc, timer, overflows, read, reports, faults, host>>

\* Seeded fault: the drops are not reset when they are reported.
SendKeepsDrops ==
  /\ pc = "reset"
  /\ overflows' = 0
  /\ read' = Nothing
  /\ \/ reports' = Append(reports, read) /\ UNCHANGED faults
     \/ faults > 0 /\ faults' = faults - 1 /\ UNCHANGED reports
  /\ pc' = "vblank"
  /\ UNCHANGED <<connected, timer, drops, host>>

\* ... and then reset, losing what the handler counted in between, and sent.
ResetAndSend ==
  /\ pc = "reset"
  /\ overflows' = 0
  /\ drops' = 0
  /\ read' = Nothing
  /\ \/ reports' = Append(reports, read) /\ UNCHANGED faults
     \/ faults > 0 /\ faults' = faults - 1 /\ UNCHANGED reports
  /\ pc' = "vblank"
  /\ UNCHANGED <<connected, timer, host>>

DsStep == VBlank \/ NoReport \/ ReadCounters \/ ResetAndSend
-----------------------------------------------------------------------------
\* Seeded fault: one overflow is not enough.
CongestedLate(report) ==
  report.overflows > 1 \/ report.drops > DropThreshold

Congested(report) ==
  report.overflows > 0 \/ report.drops > DropThreshold

Remember(clear) ==
  verdicts' = IF Len(verdicts) < ClearThreshold THEN Append(verdicts, clear)
              ELSE Append(Tail(verdicts), clear)

\* Seeded faults: every congested report halves the rate again; congestion
\* does not interrupt a streak.
StepDownAgain ==
  /\ fps' = fps \div 2
  /\ streak' = 0

StepDownKeepsStreak ==
  /\ fps' = IF fps > MinFps THEN MinFps ELSE fps
  /\ UNCHANGED streak

\* throttle_update
StepDown ==
  /\ fps' = IF fps > MinFps THEN MinFps ELSE fps
  /\ streak' = 0

StepUp ==
  IF streak + 1 >= ClearThreshold /\ fps < InitialFps
    THEN fps' = InitialFps /\ streak' = 0
    ELSE streak' = AtMost(streak + 1, ClearThreshold) /\ UNCHANGED fps

ThrottleUpdate ==
  /\ reports # <<>>
  /\ reports' = Tail(reports)
  /\ Remember(~Congested(Head(reports)))
  /\ IF Congested(Head(reports)) THEN StepDown ELSE StepUp
  /\ UNCHANGED <<ds, faults>>

Next == Connect \/ DsStep \/ Overflow \/ RejectMidway \/ ThrottleUpdate

\* The DS runs its main loop, the PC its own.
Spec == Init /\ [][Next]_vars /\ WF_vars(DsStep) /\ WF_vars(ThrottleUpdate)
-----------------------------------------------------------------------------
\* Hysteresis: the rate steps up only when the last ClearThreshold reports the
\* PC saw were all clear, however losses and sessions interleave with them.
StepUpEarned ==
  [][fps' > fps => Len(verdicts') = ClearThreshold
                   /\ \A i \in 1 .. ClearThreshold : verdicts'[i]]_vars

\* An overflow the DS has counted by the start of a frame slows the PC down,
\* unless the session ends first or a report is lost.
OverflowSlows ==
  (overflows > 0 /\ pc = "vblank" /\ connected)
    ~> (fps <= MinFps \/ ~connected \/ faults < MaxFaults)

\* "... then back up when it clears" (throttle.cpp): once a session lasts and
\* nothing overflows any more, the PC is back at its full rate.
Recovers ==
  (<>[](connected /\ overflows = 0)) => <>[](fps = InitialFps)
=============================================================================
