--------------------------- MODULE SessionProofs ----------------------------
(***************************************************************************)
(* What holds of a session for all tokens, timers and radio bounds, with   *)
(* the interrupt handler anywhere in the poll and power going at any time. *)
(***************************************************************************)
EXTENDS Session, TLAPS

Constants == TokenAssumption /\ RadioAssumption /\ DsTimerAssumption /\
             WiiAssumption /\ PromptAssumption

LEMMA ConstantsHold == Constants
BY TokenAssumption, RadioAssumption, DsTimerAssumption, WiiAssumption,
   PromptAssumption DEF Constants

\* A token counter stays a token when it wraps.
LEMMA NextProbeType == ASSUME probeToken \in DsTokens PROVE NextProbe \in DsTokens
BY TokenAssumption DEF NextProbe, DsTokens

\* Pushing a frame keeps a channel a sequence of frames.
LEMMA PushType ==
  ASSUME NEW c \in Seq(Frames), NEW f \in Frames PROVE Push(c, f) \in Seq(Frames)
BY DEF Push

\* The frames the two sides send are frames.
LEMMA FrameType ==
  ASSUME NEW k \in HsTypes \cup DataTypes, NEW t \in Tokens \cup {NoToken}
  PROVE  Frame(k, t) \in Frames
BY DEF Frame, Frames

\* Popping a nonempty channel yields a frame and leaves a channel.
LEMMA PopType ==
  ASSUME NEW c \in Seq(Frames), c # <<>>
  PROVE  Head(c) \in Frames /\ Tail(c) \in Seq(Frames)
OBVIOUS

-----------------------------------------------------------------------------
(* Type correctness: one lemma for each side of the link, over the whole   *)
(* state, then the steps that touch both.                                  *)

LEMMA TransmitType ==
  ASSUME TypeOK, NEW f \in Frames, Transmit(f)
  PROVE  RadioTypeOK' /\ txDropped' \in BOOLEAN /\ txDropNew' \in BOOLEAN
<1> USE DEF TypeOK, RadioTypeOK, DsTypeOK, txVars
<1>1. CASE UNCHANGED <<toDs, toWii, faults, txVars>>
  BY <1>1
<1>2. CASE UNCHANGED <<toDs, faults, txVars>> /\ toWii' = Push(toWii, f)
  BY <1>2, PushType
<1>3. CASE /\ faults > 0 /\ faults' = faults - 1
           /\ txDropped' = TRUE /\ txDropNew' = TRUE
           /\ UNCHANGED <<toDs, toWii>>
  BY <1>3, RadioAssumption
<1> QED BY <1>1, <1>2, <1>3 DEF Transmit

\* A part of the state that a step does not touch keeps its type.
LEMMA RadioFrame == ASSUME RadioTypeOK, UNCHANGED radioVars PROVE RadioTypeOK'
BY DEF RadioTypeOK, radioVars

LEMMA DsFrame == ASSUME DsTypeOK, UNCHANGED dsVars PROVE DsTypeOK'
BY DEF DsTypeOK, dsVars, hsVars, txVars

LEMMA WiiFrame ==
  ASSUME WiiTypeOK, UNCHANGED <<wiiVars, accepted>> PROVE WiiTypeOK'
BY DEF WiiTypeOK, wiiVars

\* A node that is off is well typed, at the start and after a power cut.
LEMMA DsOffType == DsInit => DsTypeOK
<1> SUFFICES ASSUME DsInit PROVE DsTypeOK
  OBVIOUS
<1>1. probeToken \in DsTokens
  BY TokenAssumption DEF DsInit, DsTokens
<1>2. watchdog \in 0 .. DsTimeout - 1 /\ wdReg \in 0 .. DsTimeout
  BY DsTimerAssumption DEF DsInit
<1>3. dsBeat \in 0 .. DsHeartbeat /\ probeTimer \in Nat
  BY DsTimerAssumption DEF DsInit
<1> QED BY <1>1, <1>2, <1>3 DEF DsInit, DsTypeOK, DsPcs

LEMMA DsPollType ==
  ASSUME TypeOK, DsStep
  PROVE  TypeOK'
<1>0. RadioTypeOK /\ DsTypeOK /\ WiiTypeOK /\ WiiTypeOK'
  BY WiiFrame DEF DsStep, TypeOK
<1> USE DEF DsTypeOK, hsVars
<1>1. CASE DsCheckConnected
  BY <1>0, <1>1, RadioFrame DEF DsCheckConnected, DsPcs, TypeOK, txVars
<1>2. CASE DsProbeWait
  <2>1. ProbeTicks \in Nat
    BY <1>0 DEF ProbeTicks
  <2> QED BY <1>0, <1>2, <2>1, RadioFrame DEF DsProbeWait, DsPcs, TypeOK
<1>3. CASE DsProbeFire
  BY <1>0, <1>3, RadioFrame DEF DsProbeFire, DsPcs, TypeOK
<1>4. CASE DsProbeToken
  BY <1>0, <1>4, RadioFrame, NextProbeType
     DEF DsProbeToken, DsPcs, TypeOK, txVars, Tokens
<1>5. CASE DsProbeFill
  BY <1>0, <1>5, RadioFrame DEF DsProbeFill, DsPcs, TypeOK, txVars, Tokens
<1>6. CASE DsSendClear
  <2>1. dsPc' \in DsPcs
    BY <1>6 DEF DsSendClear, DsPcs
  <2>2. /\ hsPending' = FALSE
        /\ UNCHANGED <<dsReady, dsConn, dsToken, outToken, probeToken, probeTimer>>
        /\ UNCHANGED <<dsBeat, watchdog, wdReg, txDropped, txDropNew, radioVars>>
    BY <1>6 DEF DsSendClear, txVars
  <2> QED BY <1>0, <2>1, <2>2, RadioFrame DEF TypeOK
<1>7. CASE DsSendJoin
  <2>1. Frame("JOIN", outToken) \in Frames
    BY <1>0, FrameType DEF HsTypes
  <2>2. RadioTypeOK' /\ txDropped' \in BOOLEAN /\ txDropNew' \in BOOLEAN
    BY <1>7, <2>1, TransmitType DEF DsSendJoin
  <2> QED BY <1>0, <1>7, <2>2 DEF DsSendJoin, DsPcs, TypeOK
<1>8. CASE DsBeatSkip
  BY <1>0, <1>8, RadioFrame DEF DsBeatSkip, DsPcs, TypeOK, txVars
<1>9. CASE DsBeatWait
  BY <1>0, <1>9, RadioFrame, DsTimerAssumption
     DEF DsBeatWait, DsPcs, TypeOK, txVars
<1>10. CASE DsBeatSend
  <2>1. Frame("HEARTBEAT", NoToken) \in Frames
    BY FrameType DEF HsTypes
  <2>2. RadioTypeOK' /\ txDropped' \in BOOLEAN /\ txDropNew' \in BOOLEAN
    BY <1>10, <2>1, TransmitType DEF DsBeatSend
  <2> QED BY <1>0, <1>10, <2>2, DsTimerAssumption DEF DsBeatSend, DsPcs, TypeOK
<1>11. CASE DsWatchdogStore
  <2>1. RadioTypeOK' /\ txDropped' \in BOOLEAN /\ txDropNew' \in BOOLEAN
    BY <1>0, <1>11, RadioFrame DEF DsWatchdogStore, txVars
  <2>2. watchdog' \in 0 .. DsTimeout - 1 /\ wdReg' \in 0 .. DsTimeout
    BY <1>0, <1>11, DsTimerAssumption DEF DsWatchdogStore
  <2>3. dsConn' \in {"IDLE", "JOINING", "CONNECTED"}
    BY <1>0, <1>11 DEF DsWatchdogStore
  <2> QED BY <1>0, <1>11, <2>1, <2>2, <2>3 DEF DsWatchdogStore, DsPcs, TypeOK
<1>12. CASE DsTail
  <2>1. Frame("DATA", NoToken) \in Frames
    BY FrameType DEF DataTypes
  <2>2. CASE Transmit(Frame("DATA", NoToken))
    BY <1>0, <1>12, <2>1, <2>2, TransmitType DEF DsTail, DsPcs, TypeOK
  <2>3. CASE UNCHANGED <<txVars, radioVars>>
    BY <1>0, <1>12, <2>3, RadioFrame DEF DsTail, DsPcs, TypeOK, txVars
  <2> QED BY <1>12, <2>2, <2>3 DEF DsTail
<1> QED
  BY <1>1, <1>2, <1>3, <1>4, <1>5, <1>6, <1>7, <1>8, <1>9, <1>10, <1>11, <1>12
     DEF DsStep, DsPoll

LEMMA DsReceiveType ==
  ASSUME TypeOK, DsHear
  PROVE  TypeOK'
<1> DEFINE frame == Head(toDs)
<1>0. RadioTypeOK /\ DsTypeOK /\ WiiTypeOK /\ WiiTypeOK'
  BY WiiFrame DEF DsHear, TypeOK
<1>1. /\ UNCHANGED <<dsPc, dsReady, probeToken, probeTimer>>
      /\ UNCHANGED <<dsBeat, wdReg, txDropped, txDropNew, toWii, faults>>
      /\ toDs # <<>> /\ toDs' = Tail(toDs)
  BY DEF DsHear, DsReceive, txVars
<1>2. frame \in Frames /\ RadioTypeOK'
  BY <1>0, <1>1, PopType DEF RadioTypeOK
<1>3. frame.token \in Tokens \cup {NoToken}
  BY <1>2 DEF Frames
<1>4. \/ HandleAnnounce(frame.token) \/ HandleAccept(frame.token)
      \/ HandleHeartbeat \/ HandleOther(frame.kind)
  BY DEF DsHear, DsReceive
<1> HIDE DEF frame
<1> USE DEF DsTypeOK
<1>5. CASE HandleAnnounce(frame.token)
  BY <1>0, <1>1, <1>2, <1>3, <1>5 DEF HandleAnnounce, TypeOK
<1>6. CASE HandleAccept(frame.token)
  BY <1>0, <1>1, <1>2, <1>6, DsTimerAssumption DEF HandleAccept, TypeOK
<1>7. CASE HandleHeartbeat
  BY <1>0, <1>1, <1>2, <1>7, DsTimerAssumption DEF HandleHeartbeat, TypeOK
<1>8. CASE HandleOther(frame.kind)
  BY <1>0, <1>1, <1>2, <1>8 DEF HandleOther, TypeOK
<1> QED BY <1>4, <1>5, <1>6, <1>7, <1>8

LEMMA WiiStepType ==
  ASSUME TypeOK, WiiStep
  PROVE  TypeOK'
<1>0. RadioTypeOK /\ DsTypeOK /\ WiiTypeOK /\ DsTypeOK'
  BY DsFrame DEF WiiStep, TypeOK
<1> USE DEF WiiTypeOK, timers
<1>1. CASE WiiExit
  BY <1>0, <1>1, RadioFrame, WiiAssumption DEF WiiExit, TypeOK
<1>2. CASE WiiMenu
  BY <1>0, <1>2, RadioFrame DEF WiiMenu, TypeOK
<1>3. ASSUME NEW m \in Modes, WiiArm(m) PROVE TypeOK'
  BY <1>0, <1>3, RadioFrame, WiiAssumption DEF WiiArm, Tokens, TypeOK
<1>4. CASE WiiLocked
  BY <1>0, <1>4, RadioFrame DEF WiiLocked, TypeOK
<1>5. CASE WiiPassGate
  BY <1>0, <1>5, RadioFrame DEF WiiPassGate, TypeOK
<1>6. CASE WiiMachine
  <2>1. /\ Frame("ANNOUNCE", wiiToken) \in Frames
        /\ Frame("HEARTBEAT", NoToken) \in Frames
    BY <1>0, FrameType DEF HsTypes
  <2>2. /\ wiiPc' = "forward"
        /\ UNCHANGED <<wiiToken, accepted, toWii, faults>>
    BY <1>6 DEF WiiMachine
  <2>3. CASE Announce
    <3>1. RadioTypeOK'
      BY <1>0, <2>1, <2>2, <2>3, PushType DEF Announce, RadioTypeOK
    <3> QED BY <1>0, <2>2, <2>3, <3>1, WiiAssumption DEF Announce, TypeOK
  <2>4. CASE KeepAlive
    <3>1. RadioTypeOK'
      BY <1>0, <2>1, <2>2, <2>4, PushType DEF KeepAlive, RadioTypeOK
    <3>2. wiiBeat' \in 0 .. WiiHeartbeat
      BY <1>0, <2>4, WiiAssumption DEF KeepAlive
    <3> QED BY <1>0, <2>2, <2>4, <3>1, <3>2, WiiAssumption
            DEF KeepAlive, Lock, TypeOK
  <2>5. CASE UNCHANGED <<wiiConn, launch, timers, toDs>>
    BY <1>0, <2>2, <2>5, RadioFrame DEF TypeOK, radioVars
  <2> QED BY <1>0, <1>6, <2>3, <2>4, <2>5 DEF WiiMachine
<1>7. CASE WiiForward
  <2>1. Frame("DATA", NoToken) \in Frames
    BY FrameType DEF DataTypes
  <2>2. \A d \in Downstream : d \in Seq(Frames)
    BY <1>0, <2>1, PushType DEF Downstream, RadioTypeOK
  <2>3. wiiPc' = "pads" /\ UNCHANGED faults
    BY <1>7 DEF WiiForward
  <2>4. PICK d \in Downstream :
          \/ UNCHANGED <<wiiConn, launch, wiiToken, timers, accepted, toWii>>
             /\ toDs' = d
          \/ /\ toWii # <<>> /\ toWii' = Tail(toWii)
             /\ \/ HandleJoin(Head(toWii).token, d) \/ HandleBye(d)
                \/ HandleActivity(Head(toWii).kind, d)
    BY <1>7 DEF WiiForward
  <2>5. CASE UNCHANGED <<wiiConn, launch, wiiToken, timers, accepted, toWii>>
             /\ toDs' = d
    BY <1>0, <2>2, <2>3, <2>5 DEF RadioTypeOK, TypeOK
  <2>6. ASSUME toWii # <<>>, toWii' = Tail(toWii) PROVE
          toWii' \in Seq(Frames) /\ Head(toWii).token \in Tokens \cup {NoToken}
    BY <1>0, <2>6, PopType DEF Frames, RadioTypeOK
  <2>7. CASE toWii # <<>> /\ toWii' = Tail(toWii)
             /\ HandleJoin(Head(toWii).token, d)
    <3>1. Frame("ACCEPT", Head(toWii).token) \in Frames
      BY <2>6, <2>7, FrameType DEF HsTypes
    <3>2. RadioTypeOK'
      BY <1>0, <2>2, <2>3, <2>6, <2>7, <3>1, PushType DEF HandleJoin, RadioTypeOK
    <3> QED BY <1>0, <2>3, <2>6, <2>7, <3>2, WiiAssumption DEF HandleJoin, TypeOK
  <2>8. CASE toWii # <<>> /\ toWii' = Tail(toWii) /\ HandleBye(d)
    <3>1. RadioTypeOK'
      BY <1>0, <2>2, <2>3, <2>6, <2>8 DEF HandleBye, RadioTypeOK
    <3> QED BY <1>0, <2>3, <2>8, <3>1, WiiAssumption DEF HandleBye, Lock, TypeOK
  <2>9. CASE toWii # <<>> /\ toWii' = Tail(toWii)
             /\ HandleActivity(Head(toWii).kind, d)
    <3>1. quiet' \in {0, quiet}
      BY <2>9 DEF HandleActivity
    <3>2. RadioTypeOK'
      BY <1>0, <2>2, <2>3, <2>6, <2>9 DEF HandleActivity, RadioTypeOK
    <3> QED BY <1>0, <2>3, <2>9, <3>1, <3>2, WiiAssumption
            DEF HandleActivity, TypeOK
  <2> QED BY <2>4, <2>5, <2>7, <2>8, <2>9
<1> QED
  BY <1>1, <1>2, <1>3, <1>4, <1>5, <1>6, <1>7 DEF WiiStep, WiiLoop

\* Every step of the system keeps every variable in its range.
LEMMA TypeInductive == TypeOK /\ [Next]_vars => TypeOK'
<1> SUFFICES ASSUME TypeOK, [Next]_vars PROVE TypeOK'
  OBVIOUS
<1>0. RadioTypeOK /\ DsTypeOK /\ WiiTypeOK
  BY DEF TypeOK
<1>1. CASE Tick
  <2>1. DsTypeOK'
    BY <1>0, <1>1 DEF Tick, DsTypeOK, DsPcs, hsVars, txVars
  <2>2. WiiTypeOK'
    BY <1>0, <1>1, WiiAssumption DEF Tick, WiiTypeOK
  <2> QED BY <1>0, <1>1, <2>1, <2>2, RadioFrame DEF Tick, TypeOK
<1>2. CASE Unheard
  BY <1>0, <1>2, PopType, DsFrame, WiiFrame DEF Unheard, TypeOK, RadioTypeOK
<1>3. CASE Fade
  <2>1. RadioTypeOK'
    <3>1. CASE FadeToDs
      BY <1>0, <3>1, PopType, RadioAssumption DEF FadeToDs, RadioTypeOK
    <3>2. CASE FadeToWii
      BY <1>0, <3>2, PopType, RadioAssumption DEF FadeToWii, RadioTypeOK
    <3> QED BY <1>3, <3>1, <3>2 DEF Fade
  <2> QED BY <1>0, <1>3, <2>1, DsFrame, WiiFrame DEF Fade, TypeOK
<1>4. CASE DsStep
  BY <1>4, DsPollType
<1>5. CASE DsHear
  BY <1>5, DsReceiveType
<1>6. CASE DsSwitchOn
  <2>1. NextProbe \in DsTokens
    BY <1>0, NextProbeType DEF DsTypeOK
  <2>2. DsTypeOK'
    BY <1>0, <1>6, <2>1
       DEF DsSwitchOn, DsBoot, DsTypeOK, DsPcs, Tokens, hsVars, txVars
  <2> QED BY <1>0, <1>6, <2>2, RadioFrame, WiiFrame
          DEF DsSwitchOn, DsBoot, TypeOK
<1>7. CASE DsSwitchOff
  <2>1. DsInit'
    BY <1>7 DEF DsSwitchOff, DsPowerOff, DsInit
  <2>2. DsTypeOK'
    BY <2>1, DsOffType, PTL
  <2> QED BY <1>0, <1>7, <2>2, RadioFrame, WiiFrame
          DEF DsSwitchOff, DsPowerOff, TypeOK
<1>8. CASE WiiStep
  BY <1>8, WiiStepType
<1>9. CASE WiiStart
  <2>1. WiiTypeOK'
    BY <1>0, <1>9 DEF WiiStart, WiiBoot, WiiTypeOK, Tokens, timers
  <2> QED BY <1>0, <1>9, <2>1, RadioFrame, DsFrame DEF WiiStart, WiiBoot, TypeOK
<1>10. CASE UNCHANGED vars
  BY <1>0, <1>10, RadioFrame, DsFrame, WiiFrame DEF vars, TypeOK
<1> QED
  BY <1>1, <1>2, <1>3, <1>4, <1>5, <1>6, <1>7, <1>8, <1>9, <1>10 DEF Next

\* Every variable of the two nodes and the radio stays in its range: the timers
\* in particular never pass the limits their comparisons test.
THEOREM SessionTypeCorrect == Spec => []TypeOK
<1>1. Init => TypeOK
  <2> SUFFICES ASSUME Init PROVE TypeOK
    OBVIOUS
  <2>1. RadioTypeOK
    BY RadioAssumption DEF Init, RadioInit, RadioTypeOK
  <2>3. DsTypeOK
    BY DsOffType DEF Init
  <2>4. WiiTypeOK
    BY WiiAssumption DEF Init, WiiInit, WiiTypeOK
  <2> QED BY <2>1, <2>3, <2>4 DEF TypeOK
<1> QED BY <1>1, TypeInductive, PTL DEF Spec

-----------------------------------------------------------------------------
(* The launch gate.  NONE is no launch mode, so arming, joining and locking *)
(* move the connection state and the launch mode together.                 *)

LEMMA NoneIsNoMode == "NONE" \notin Modes
BY WiiAssumption

LEMMA GateInductive == TypeOK /\ GateInvariant /\ [Next]_vars => GateInvariant'
<1> SUFFICES ASSUME TypeOK, GateInvariant, [Next]_vars PROVE GateInvariant'
  OBVIOUS
<1> USE DEF GateInvariant
<1>1. CASE UNCHANGED <<wiiConn, launch>>
  BY <1>1
<1>2. CASE WiiExit
  BY <1>2 DEF WiiExit
<1>3. ASSUME NEW m \in Modes, WiiArm(m) PROVE GateInvariant'
  BY <1>3, NoneIsNoMode DEF WiiArm
<1>4. CASE WiiMachine
  BY <1>4 DEF WiiMachine, Announce, KeepAlive, Lock
<1>5. CASE WiiForward
  BY <1>5 DEF WiiForward, HandleJoin, HandleBye, HandleActivity, Lock
<1>6. WiiStep => \/ UNCHANGED <<wiiConn, launch>> \/ WiiExit \/ WiiMachine
                 \/ WiiForward \/ \E m \in Modes : WiiArm(m)
  BY DEF WiiStep, WiiLoop, WiiMenu, WiiLocked, WiiPassGate
<1>7. ~WiiStep => UNCHANGED <<wiiConn, launch>>
  BY DEF Next, Tick, Unheard, Fade, DsStep, DsHear, DsSwitchOn, DsSwitchOff,
         WiiStart, WiiBoot, wiiVars, vars
<1> QED BY <1>1, <1>2, <1>3, <1>4, <1>5, <1>6, <1>7

\* The Wii announces or streams exactly while the operator's session is armed.
THEOREM GateHolds == Spec => []GateInvariant
<1>1. Init => GateInvariant
  BY DEF Init, WiiInit, GateInvariant
<1> QED BY <1>1, SessionTypeCorrect, GateInductive, PTL DEF Spec

\* Sending or accepting takes an armed session.
LEMMA SilenceStep ==
  ASSUME TypeOK, GateInvariant, [Next]_vars, launch = "NONE"
  PROVE  ~(Len(toDs') > Len(toDs)) /\ accepted' = accepted
<1>0. wiiConn = "IDLE" /\ toDs \in Seq(Frames)
  BY DEF GateInvariant, TypeOK, WiiTypeOK, RadioTypeOK
<1>1. Len(toDs) \in Nat
  BY <1>0
<1>2. CASE UNCHANGED <<toDs, accepted>>
  BY <1>1, <1>2
<1>3. CASE toDs # <<>> /\ toDs' = Tail(toDs) /\ UNCHANGED accepted
  BY <1>0, <1>1, <1>3
<1>4. CASE WiiForward
  <2>1. Downstream = {toDs}
    BY <1>0 DEF Downstream
  <2>2. UNCHANGED <<toDs, accepted>>
    BY <1>4, <2>1 DEF WiiForward, HandleBye, HandleActivity
  <2> QED BY <1>2, <2>2
<1>5. CASE WiiMachine
  <2>1. UNCHANGED <<toDs, accepted>>
    BY <1>0, <1>5 DEF WiiMachine
  <2> QED BY <1>2, <2>1
<1>6. WiiStep => \/ UNCHANGED <<toDs, accepted>> \/ WiiMachine \/ WiiForward
  BY DEF WiiStep, WiiLoop, WiiMenu, WiiLocked, WiiPassGate, WiiExit, WiiArm,
         radioVars
<1>7. DsStep => UNCHANGED <<toDs, accepted>>
  BY DEF DsStep, DsPoll, DsCheckConnected, DsProbeWait, DsProbeFire,
         DsProbeToken, DsProbeFill, DsSendClear, DsSendJoin, DsBeatSkip,
         DsBeatWait, DsBeatSend, DsWatchdogStore, DsTail, Transmit, radioVars
<1>8. ~WiiStep /\ ~DsStep =>
        \/ UNCHANGED <<toDs, accepted>>
        \/ toDs # <<>> /\ toDs' = Tail(toDs) /\ UNCHANGED accepted
  BY DEF Next, Tick, Unheard, Fade, FadeToDs, FadeToWii, DsHear, DsReceive,
         DsSwitchOn, DsBoot, DsSwitchOff, DsPowerOff, WiiStart, WiiBoot,
         radioVars, vars
<1> QED BY <1>2, <1>3, <1>4, <1>5, <1>6, <1>7, <1>8

\* No frame leaves a locked Wii, and no JOIN is accepted.
THEOREM LockedIsSilent == Spec => LockedSilence
<1>1. TypeOK /\ GateInvariant /\ [Next]_vars =>
        [(Len(toDs') > Len(toDs) \/ accepted' # accepted) => launch # "NONE"]_vars
  BY SilenceStep
<1> QED
  BY <1>1, SessionTypeCorrect, GateHolds, PTL DEF Spec, LockedSilence

-----------------------------------------------------------------------------
(* The proxy implements the launch gate.                                   *)

LEMMA GateStep ==
  ASSUME TypeOK, GateInvariant, [Next]_vars
  PROVE  [Gate!Next]_<<Phase, launch>>
<1> USE DEF Phase
<1>1. CASE UNCHANGED <<wiiConn, launch>>
  BY <1>1
<1>2. CASE launch' = "NONE"
  BY <1>2 DEF Gate!Next, Gate!LockGate
<1>3. ASSUME NEW m \in Modes, WiiArm(m) PROVE [Gate!Next]_<<Phase, launch>>
  BY <1>3, NoneIsNoMode DEF WiiArm, Gate!Next, Gate!Arm
<1>4. CASE WiiMachine
  <2>1. launch' = "NONE" \/ UNCHANGED <<wiiConn, launch>>
    BY <1>4 DEF WiiMachine, Announce, KeepAlive, Lock
  <2> QED BY <1>1, <1>2, <2>1
<1>5. CASE WiiForward
  <2>1. \/ launch' = "NONE" \/ UNCHANGED <<wiiConn, launch>>
        \/ launch # "NONE" /\ launch' = launch /\ wiiConn' = "CONNECTED"
    BY <1>5 DEF WiiForward, HandleJoin, HandleBye, HandleActivity, Lock
  <2>2. CASE launch # "NONE" /\ launch' = launch /\ wiiConn' = "CONNECTED"
    BY <2>2 DEF Gate!Next, Gate!Join
  <2> QED BY <1>1, <1>2, <2>1, <2>2
<1>6. WiiStep => \/ UNCHANGED <<wiiConn, launch>> \/ launch' = "NONE"
                 \/ WiiMachine \/ WiiForward \/ \E m \in Modes : WiiArm(m)
  BY DEF WiiStep, WiiLoop, WiiMenu, WiiLocked, WiiPassGate, WiiExit
<1>7. ~WiiStep => UNCHANGED <<wiiConn, launch>>
  BY DEF Next, Tick, Unheard, Fade, DsStep, DsHear, DsSwitchOn, DsSwitchOff,
         WiiStart, WiiBoot, wiiVars, vars
<1> QED BY <1>1, <1>2, <1>3, <1>4, <1>5, <1>6, <1>7

\* Sessions begin only at the gate: the proxy's timers, handshake and menu
\* implement the operator's view of arming, joining and ending a session.
THEOREM ProxyImplementsGate == Spec => GateSpec
<1>1. Init => Gate!Init
  BY DEF Init, WiiInit, Gate!Init, Phase
<1>2. TypeOK /\ GateInvariant /\ [Next]_vars => [Gate!Next]_<<Phase, launch>>
  BY GateStep
<1> QED
  BY <1>1, <1>2, SessionTypeCorrect, GateHolds, PTL DEF Spec, GateSpec, Gate!Spec

-----------------------------------------------------------------------------
(* A connected DS holds an accepted token.  Inductively, every ACCEPT still *)
(* in the air carries one, and a DS without power is not connected.         *)

AcceptsIn(channel, S) ==
  \A i \in 1 .. Len(channel) :
    channel[i].kind = "ACCEPT" => channel[i].token \in S

AcceptedInv ==
  /\ ConnectedWasAccepted
  /\ AcceptsIn(toDs, accepted)
  /\ dsPc = "off" => dsConn = "IDLE"

LEMMA PushAccepts ==
  ASSUME NEW c \in Seq(Frames), NEW f \in Frames, NEW S, AcceptsIn(c, S),
         f.kind = "ACCEPT" => f.token \in S
  PROVE  AcceptsIn(Push(c, f), S)
BY DEF AcceptsIn, Push

LEMMA TailAccepts ==
  ASSUME NEW c \in Seq(Frames), c # <<>>, NEW S, AcceptsIn(c, S)
  PROVE  AcceptsIn(Tail(c), S) /\ (Head(c).kind = "ACCEPT" => Head(c).token \in S)
BY DEF AcceptsIn

LEMMA MoreAccepts ==
  ASSUME NEW c, NEW S, NEW T, S \subseteq T, AcceptsIn(c, S)
  PROVE  AcceptsIn(c, T)
BY DEF AcceptsIn

\* Steps of the Wii only ever add accepted tokens, and ACCEPTs with them.
LEMMA WiiAccepts ==
  ASSUME TypeOK, AcceptsIn(toDs, accepted), WiiStep
  PROVE  AcceptsIn(toDs, accepted)' /\ accepted \subseteq accepted'
<1>0. toDs \in Seq(Frames) /\ toWii \in Seq(Frames) /\ wiiToken \in Tokens \cup {NoToken}
  BY DEF TypeOK, RadioTypeOK, WiiTypeOK
<1>1. CASE UNCHANGED <<toDs, accepted>>
  BY <1>1 DEF AcceptsIn
<1>2. CASE WiiMachine
  <2>1. /\ Frame("ANNOUNCE", wiiToken) \in Frames
        /\ Frame("HEARTBEAT", NoToken) \in Frames
    BY <1>0, FrameType DEF HsTypes
  <2>2. PICK f \in {Frame("ANNOUNCE", wiiToken), Frame("HEARTBEAT", NoToken)} :
          toDs' \in {toDs, Push(toDs, f)} /\ accepted' = accepted
    BY <1>2 DEF WiiMachine, Announce, KeepAlive
  <2>3. f \in Frames /\ f.kind # "ACCEPT"
    BY <2>1 DEF Frame
  <2>4. AcceptsIn(Push(toDs, f), accepted)
    BY <1>0, <2>3, PushAccepts
  <2> QED BY <2>2, <2>4
<1>3. CASE WiiForward
  <2>1. Frame("DATA", NoToken) \in Frames /\ Frame("DATA", NoToken).kind = "DATA"
    BY FrameType DEF DataTypes, Frame
  <2>2. AcceptsIn(Push(toDs, Frame("DATA", NoToken)), accepted)
    BY <1>0, <2>1, PushAccepts
  <2>3. \A d \in Downstream : d \in Seq(Frames) /\ AcceptsIn(d, accepted)
    BY <1>0, <2>1, <2>2, PushType DEF Downstream
  <2>4. PICK d \in Downstream :
          \/ toDs' = d /\ accepted' = accepted
          \/ toWii # <<>> /\ HandleJoin(Head(toWii).token, d)
    BY <1>3 DEF WiiForward, HandleBye, HandleActivity
  <2>5. CASE toDs' = d /\ accepted' = accepted
    BY <2>3, <2>5
  <2>6. CASE toWii # <<>> /\ HandleJoin(Head(toWii).token, d)
    <3> DEFINE t == Head(toWii).token
    <3>1. t \in Tokens \cup {NoToken}
      BY <1>0, <2>6, PopType DEF Frames
    <3>2. /\ accepted' = accepted \cup {t}
          /\ toDs' = Push(d, Frame("ACCEPT", t))
      BY <2>6 DEF HandleJoin
    <3> HIDE DEF t
    <3>3. Frame("ACCEPT", t) \in Frames /\ Frame("ACCEPT", t).token = t
      BY <3>1, FrameType DEF HsTypes, Frame
    <3>4. AcceptsIn(d, accepted')
      BY <2>3, <3>2, MoreAccepts
    <3>5. AcceptsIn(Push(d, Frame("ACCEPT", t)), accepted')
      BY <2>3, <3>2, <3>3, <3>4, PushAccepts
    <3> QED BY <3>2, <3>5
  <2> QED BY <2>4, <2>5, <2>6
<1>4. WiiStep => \/ UNCHANGED <<toDs, accepted>> \/ WiiMachine \/ WiiForward
  BY DEF WiiStep, WiiLoop, WiiMenu, WiiLocked, WiiPassGate, WiiExit, WiiArm,
         radioVars
<1> QED BY <1>1, <1>2, <1>3, <1>4

LEMMA AcceptedInductive == TypeOK /\ AcceptedInv /\ [Next]_vars => AcceptedInv'
<1> SUFFICES ASSUME TypeOK, AcceptedInv, [Next]_vars PROVE AcceptedInv'
  OBVIOUS
<1>0. toDs \in Seq(Frames) /\ AcceptsIn(toDs, accepted)
  BY DEF TypeOK, RadioTypeOK, AcceptedInv
<1>1. CASE UNCHANGED <<dsPc, dsConn, dsToken>> /\ AcceptsIn(toDs, accepted)'
           /\ accepted \subseteq accepted'
  BY <1>1 DEF AcceptedInv, ConnectedWasAccepted
<1>2. CASE toDs # <<>> /\ toDs' = Tail(toDs) /\ UNCHANGED accepted
           /\ UNCHANGED <<dsPc, dsConn, dsToken>>
  BY <1>0, <1>1, <1>2, TailAccepts
<1>3. CASE UNCHANGED <<dsPc, dsConn, dsToken, toDs, accepted>>
  BY <1>3 DEF AcceptedInv, ConnectedWasAccepted, AcceptsIn
<1>4. CASE WiiStep
  <2>1. UNCHANGED <<dsPc, dsConn, dsToken>>
    BY <1>4 DEF WiiStep, dsVars
  <2> QED BY <1>0, <1>1, <1>4, <2>1, WiiAccepts
<1>5. CASE DsHear
  <2>1. /\ toDs # <<>> /\ toDs' = Tail(toDs) /\ UNCHANGED <<accepted, dsPc>>
        /\ dsPc # "off"
    BY <1>5 DEF DsHear, DsReceive
  <2>2. AcceptsIn(toDs, accepted)'
    BY <1>0, <2>1, TailAccepts
  <2>3. Head(toDs).kind = "ACCEPT" => Head(toDs).token \in accepted
    BY <1>0, <2>1, TailAccepts
  <2>4. \/ UNCHANGED <<dsConn, dsToken>>
        \/ dsConn' # "CONNECTED"
        \/ dsToken' \in accepted
    BY <1>5, <2>3 DEF DsHear, DsReceive, HandleAnnounce, HandleAccept,
                      HandleHeartbeat, HandleOther
  <2> QED BY <2>1, <2>2, <2>4 DEF AcceptedInv, ConnectedWasAccepted
<1>6. CASE DsStep
  <2>1. /\ UNCHANGED <<toDs, accepted>> /\ dsPc' # "off"
        /\ \/ dsConn' # "CONNECTED" \/ dsPc' = "fill"
           \/ dsPc # "fill" /\ UNCHANGED <<dsConn, dsToken>>
    BY <1>6 DEF DsStep, DsPoll, DsCheckConnected, DsProbeWait, DsProbeFire,
         DsProbeToken, DsProbeFill, DsSendClear, DsSendJoin, DsBeatSkip,
         DsBeatWait, DsBeatSend, DsWatchdogStore, DsTail, Transmit, radioVars,
         hsVars
  <2> QED BY <2>1 DEF AcceptedInv, ConnectedWasAccepted, AcceptsIn
<1>7. CASE DsSwitchOn
  BY <1>7 DEF DsSwitchOn, DsBoot, AcceptedInv, ConnectedWasAccepted, AcceptsIn,
              radioVars
<1>8. CASE DsSwitchOff
  BY <1>8 DEF DsSwitchOff, DsPowerOff, AcceptedInv, ConnectedWasAccepted,
              AcceptsIn, radioVars
<1>9. CASE Tick
  BY <1>9 DEF Tick, AcceptedInv, ConnectedWasAccepted, AcceptsIn, radioVars,
              hsVars
<1>10. CASE Unheard \/ Fade
  BY <1>2, <1>3, <1>10 DEF Unheard, Fade, FadeToDs, FadeToWii, dsVars
<1>11. CASE WiiStart \/ UNCHANGED vars
  BY <1>3, <1>11 DEF WiiStart, WiiBoot, vars, dsVars, radioVars
<1> QED
  BY <1>4, <1>5, <1>6, <1>7, <1>8, <1>9, <1>10, <1>11 DEF Next

\* A DS that believes it is connected holds a token that a Wii accepted, through
\* every race of its interrupt handler and every lost, late or stale frame.
THEOREM ConnectedIsAccepted == Spec => []ConnectedWasAccepted
<1>1. Init => AcceptedInv
  BY DEF Init, DsInit, RadioInit, AcceptedInv, ConnectedWasAccepted, AcceptsIn
<1>2. AcceptedInv => ConnectedWasAccepted
  BY DEF AcceptedInv
<1> QED BY <1>1, <1>2, AcceptedInductive, SessionTypeCorrect, PTL DEF Spec
=============================================================================
