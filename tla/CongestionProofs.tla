-------------------------- MODULE CongestionProofs --------------------------
(***************************************************************************)
(* The frame rate steps up only when it is earned, for every interval,     *)
(* threshold and rate.                                                     *)
(***************************************************************************)
EXTENDS Congestion, Integers, SequenceTheorems, TLAPS

LEMMA AtMostBounds ==
  ASSUME NEW n \in Nat, NEW max \in Nat
  PROVE  AtMost(n, max) \in 0 .. max /\ AtMost(n, max) <= n
BY DEF AtMost

LEMMA RatesAreNumbers == MinFps \in Nat /\ InitialFps \in Nat
<1>1. InitialFps \div 2 \in Nat
  BY CongestionAssumption, SMTT(30)
<1> QED BY <1>1, CongestionAssumption DEF MinFps

\* The verdicts are a window that moves on by one.
LEMMA RememberIs ==
  ASSUME NEW clear \in BOOLEAN, verdicts \in Seq(BOOLEAN),
         Len(verdicts) <= ClearThreshold, Remember(clear)
  PROVE  /\ verdicts' \in Seq(BOOLEAN) /\ Len(verdicts') \in Nat
         /\ Len(verdicts') = AtMost(Len(verdicts) + 1, ClearThreshold)
         /\ verdicts'[Len(verdicts')] = clear
         /\ \A i \in 1 .. Len(verdicts') - 1 :
              verdicts'[i] = verdicts[i + Len(verdicts) + 1 - Len(verdicts')]
<1>0. Len(verdicts) \in Nat /\ ClearThreshold \in Nat \ {0}
  BY LenProperties, CongestionAssumption
<1>1. CASE Len(verdicts) < ClearThreshold
  <2>1. /\ verdicts' \in Seq(BOOLEAN) /\ Len(verdicts') = Len(verdicts) + 1
        /\ \A i \in 1 .. Len(verdicts) : verdicts'[i] = verdicts[i]
        /\ verdicts'[Len(verdicts) + 1] = clear
    BY <1>1, AppendProperties DEF Remember
  <2>2. Len(verdicts) + 1 = AtMost(Len(verdicts) + 1, ClearThreshold)
    BY <1>0, <1>1 DEF AtMost
  <2> QED BY <1>0, <2>1, <2>2
<1>2. CASE Len(verdicts) = ClearThreshold
  <2>0. verdicts # <<>>
    BY <1>0, <1>2, EmptySeq
  <2>1. /\ Tail(verdicts) \in Seq(BOOLEAN)
        /\ Len(Tail(verdicts)) = Len(verdicts) - 1
        /\ \A i \in 1 .. Len(verdicts) - 1 : Tail(verdicts)[i] = verdicts[i + 1]
    BY <2>0, HeadTailProperties
  <2>2. /\ verdicts' \in Seq(BOOLEAN) /\ Len(verdicts') = Len(verdicts)
        /\ \A i \in 1 .. Len(verdicts) - 1 : verdicts'[i] = verdicts[i + 1]
        /\ verdicts'[Len(verdicts)] = clear
    <3>1. verdicts' = Append(Tail(verdicts), clear)
      BY <1>0, <1>2 DEF Remember
    <3> QED BY <1>0, <2>1, <3>1, AppendProperties
  <2>3. Len(verdicts) = AtMost(Len(verdicts) + 1, ClearThreshold)
    BY <1>0, <1>2 DEF AtMost
  <2> QED BY <1>0, <2>2, <2>3
<1> QED BY <1>0, <1>1, <1>2

-----------------------------------------------------------------------------
\* The streak is the number of clear reports at the end of the window, or less.
Streak ==
  /\ streak <= Len(verdicts)
  /\ \A i \in 1 .. Len(verdicts) : i > Len(verdicts) - streak => verdicts[i]

\* What the PC's steps need of the types.
HostTypeOK ==
  /\ fps \in {InitialFps, MinFps}
  /\ streak \in 0 .. ClearThreshold
  /\ verdicts \in Seq(BOOLEAN) /\ Len(verdicts) <= ClearThreshold

\* One report: the window moves on, and the streak grows with it or is over.
LEMMA UpdateStep ==
  ASSUME HostTypeOK, Streak, ThrottleUpdate
  PROVE  /\ HostTypeOK' /\ Streak'
         /\ fps' > fps => /\ Len(verdicts') = ClearThreshold
                          /\ \A i \in 1 .. ClearThreshold : verdicts'[i]
<1>0. /\ Len(verdicts) \in Nat /\ ClearThreshold \in Nat \ {0}
      /\ InitialFps \in Nat /\ MinFps \in Nat /\ streak \in Nat
  BY LenProperties, CongestionAssumption, RatesAreNumbers DEF HostTypeOK
<1> DEFINE clear == ~Congested(Head(reports))
<1>1. clear \in BOOLEAN
  OBVIOUS
<1>2. Remember(clear)
  BY DEF ThrottleUpdate
<1> HIDE DEF clear
<1>3. /\ verdicts' \in Seq(BOOLEAN) /\ Len(verdicts') \in Nat
      /\ Len(verdicts') = AtMost(Len(verdicts) + 1, ClearThreshold)
      /\ verdicts'[Len(verdicts')] = clear
      /\ \A i \in 1 .. Len(verdicts') - 1 :
           verdicts'[i] = verdicts[i + Len(verdicts) + 1 - Len(verdicts')]
  BY <1>1, <1>2, RememberIs DEF HostTypeOK
<1>4. Len(verdicts') <= ClearThreshold
  BY <1>0, <1>3 DEF AtMost
<1>5. CASE ~clear
  <2>1. StepDown
    BY <1>5 DEF ThrottleUpdate, clear
  <2>2. streak' = 0 /\ fps' \in {InitialFps, MinFps} /\ ~(fps' > fps)
    BY <1>0, <2>1 DEF StepDown, HostTypeOK
  <2> QED BY <1>0, <1>3, <1>4, <2>2 DEF HostTypeOK, Streak
<1>6. CASE clear
  <2>1. StepUp
    BY <1>6 DEF ThrottleUpdate, clear
  <2>2. /\ fps' \in {InitialFps, MinFps}
        /\ streak' \in 0 .. ClearThreshold
        /\ streak' = 0 \/ streak' = AtMost(streak + 1, ClearThreshold)
        /\ fps' > fps => streak + 1 >= ClearThreshold
    BY <1>0, <2>1 DEF StepUp, AtMost, HostTypeOK
  <2>3. ASSUME NEW i \in 1 .. Len(verdicts'),
               i > Len(verdicts') - AtMost(streak + 1, ClearThreshold)
        PROVE  verdicts'[i]
    <3>1. CASE i = Len(verdicts')
      BY <1>3, <1>6, <3>1
    <3>2. CASE i # Len(verdicts')
      <4> DEFINE j == i + Len(verdicts) + 1 - Len(verdicts')
      <4>1. i \in 1 .. Len(verdicts') - 1 /\ verdicts'[i] = verdicts[j]
        BY <1>3, <3>2
      <4>2. j \in 1 .. Len(verdicts) /\ j > Len(verdicts) - streak
        <5>1. /\ Len(verdicts') <= Len(verdicts) + 1
              /\ AtMost(streak + 1, ClearThreshold) \in Int
              /\ AtMost(streak + 1, ClearThreshold) <= streak + 1
          BY <1>0, <1>3 DEF AtMost
        <5> HIDE DEF j
        <5>2. j = i + Len(verdicts) + 1 - Len(verdicts') /\ i \in Int
          BY DEF j
        <5> QED BY <1>0, <1>3, <2>3, <4>1, <5>1, <5>2
      <4> QED BY <4>1, <4>2 DEF Streak
    <3> QED BY <3>1, <3>2
  <2>4. Streak'
    <3>1. streak' <= Len(verdicts')
      BY <1>0, <1>3, <2>2 DEF AtMost, Streak
    <3>2. ASSUME NEW i \in 1 .. Len(verdicts'), i > Len(verdicts') - streak'
          PROVE  verdicts'[i]
      <4>1. CASE streak' = 0
        BY <1>3, <3>2, <4>1
      <4>2. CASE streak' = AtMost(streak + 1, ClearThreshold)
        BY <2>3, <3>2, <4>2
      <4> QED BY <2>2, <4>1, <4>2
    <3> QED BY <3>1, <3>2 DEF Streak
  <2>5. ASSUME fps' > fps
        PROVE  /\ Len(verdicts') = ClearThreshold
               /\ \A i \in 1 .. ClearThreshold : verdicts'[i]
    <3>1. streak + 1 >= ClearThreshold
      BY <2>2, <2>5
    <3>2. Len(verdicts') = ClearThreshold
          /\ AtMost(streak + 1, ClearThreshold) = ClearThreshold
      BY <1>0, <1>3, <3>1 DEF AtMost, Streak
    <3> QED BY <1>0, <2>3, <3>2
  <2> QED BY <1>3, <1>4, <2>2, <2>4, <2>5 DEF HostTypeOK
<1> QED BY <1>5, <1>6

-----------------------------------------------------------------------------
LEMMA TypeInductive == TypeOK /\ [Next]_vars => TypeOK'
<1> SUFFICES ASSUME TypeOK, [Next]_vars PROVE TypeOK'
  OBVIOUS
<1>0. /\ ReportFrames \in Nat \ {0} /\ MaxCount \in Nat /\ SpoofsHeard \in Nat
      /\ MaxRejects \in Nat /\ MaxFaults \in Nat
  BY CongestionAssumption
<1>1. Connect => TypeOK'
  BY DEF Connect, TypeOK, host
<1>2. VBlank => TypeOK'
  <2> SUFFICES ASSUME VBlank PROVE TypeOK'
    OBVIOUS
  <2>1. PICK rejected \in 0 .. MaxRejects :
          drops' = AtMost(drops + SpoofsHeard + rejected, MaxCount)
    BY DEF VBlank
  <2>2. drops + SpoofsHeard + rejected \in Nat
    BY <1>0, <2>1 DEF TypeOK
  <2>3. drops' \in 0 .. MaxCount
    BY <1>0, <2>1, <2>2, AtMostBounds
  <2> QED BY <2>3 DEF VBlank, TypeOK, host
<1>3. Overflow => TypeOK'
  BY <1>0 DEF Overflow, TypeOK, host
<1>4. RejectMidway => TypeOK'
  BY <1>0 DEF RejectMidway, TypeOK, host
<1>5. NoReport => TypeOK'
  BY <1>0 DEF NoReport, TypeOK, host
<1>6. ReadCounters => TypeOK'
  BY <1>0 DEF ReadCounters, TypeOK, host, Report
<1>7. ResetAndSend => TypeOK'
  <2> SUFFICES ASSUME ResetAndSend PROVE TypeOK'
    OBVIOUS
  <2>1. reports' \in Seq(Report)
    <3>1. Append(reports, read) \in Seq(Report)
      BY AppendProperties DEF TypeOK
    <3> QED BY <3>1 DEF ResetAndSend, TypeOK
  <2>2. faults' \in 0 .. MaxFaults
    BY <1>0 DEF ResetAndSend, TypeOK
  <2>3. Nothing \in Report
    BY <1>0 DEF Nothing, Report
  <2> QED BY <1>0, <2>1, <2>2, <2>3 DEF ResetAndSend, TypeOK, host
<1>8. ThrottleUpdate => TypeOK'
  <2> SUFFICES ASSUME ThrottleUpdate PROVE TypeOK'
    OBVIOUS
  <2>1. reports' \in Seq(Report)
    BY HeadTailProperties DEF ThrottleUpdate, TypeOK
  <2>2. fps' \in {InitialFps, MinFps} /\ streak' \in 0 .. ClearThreshold
    BY RatesAreNumbers, CongestionAssumption
       DEF ThrottleUpdate, StepDown, StepUp, AtMost, TypeOK
  <2>3. verdicts' \in Seq(BOOLEAN) /\ Len(verdicts') <= ClearThreshold
    <3>1. PICK clear \in BOOLEAN : Remember(clear)
      BY DEF ThrottleUpdate
    <3>2. /\ verdicts' \in Seq(BOOLEAN)
          /\ Len(verdicts') = AtMost(Len(verdicts) + 1, ClearThreshold)
      BY <3>1, RememberIs DEF TypeOK
    <3>3. Len(verdicts) + 1 \in Nat
      BY LenProperties DEF TypeOK
    <3> QED BY <3>2, <3>3, AtMostBounds, CongestionAssumption
  <2> QED BY <2>1, <2>2, <2>3 DEF ThrottleUpdate, TypeOK, ds
<1>9. UNCHANGED vars => TypeOK'
  BY DEF vars, TypeOK
<1> QED BY <1>1, <1>2, <1>3, <1>4, <1>5, <1>6, <1>7, <1>8, <1>9 DEF Next, DsStep

\* Counters and reports stay in range, and the frame rate is one of two.
THEOREM CongestionTypeCorrect == Spec => []TypeOK
<1>1. Init => TypeOK
  <2>1. Nothing \in Report /\ 0 \in 0 .. MaxCount
    BY CongestionAssumption DEF Nothing, Report
  <2>2. <<>> \in Seq(Report) /\ <<>> \in Seq(BOOLEAN) /\ Len(<<>>) = 0
    BY EmptySeq
  <2> SUFFICES ASSUME Init PROVE TypeOK
    OBVIOUS
  <2>3. reports \in Seq(Report) /\ verdicts \in Seq(BOOLEAN) /\ Len(verdicts) = 0
    BY <2>2 DEF Init
  <2>4. /\ timer \in 0 .. ReportFrames - 1 /\ faults \in 0 .. MaxFaults
        /\ streak \in 0 .. ClearThreshold /\ 0 <= ClearThreshold
    BY CongestionAssumption DEF Init
  <2> QED BY <2>1, <2>3, <2>4 DEF Init, TypeOK
<1> QED BY <1>1, TypeInductive, PTL DEF Spec

LEMMA StreakInductive == TypeOK /\ Streak /\ [Next]_vars => Streak'
<1> SUFFICES ASSUME TypeOK, Streak, [Next]_vars PROVE Streak'
  OBVIOUS
<1>1. UNCHANGED <<streak, verdicts>> => Streak'
  BY DEF Streak
<1>2. ThrottleUpdate => Streak'
  BY UpdateStep DEF TypeOK, HostTypeOK
<1>3. Connect \/ DsStep \/ Overflow \/ RejectMidway \/ UNCHANGED vars
        => UNCHANGED <<streak, verdicts>>
  BY DEF Connect, DsStep, VBlank, NoReport, ReadCounters, ResetAndSend, Overflow,
         RejectMidway, vars, host
<1> QED BY <1>1, <1>2, <1>3 DEF Next

LEMMA EarnedStep ==
  TypeOK /\ Streak /\ [Next]_vars
    => [fps' > fps => /\ Len(verdicts') = ClearThreshold
                      /\ \A i \in 1 .. ClearThreshold : verdicts'[i]]_vars
<1> SUFFICES ASSUME TypeOK, Streak, Next, fps' > fps
             PROVE  /\ Len(verdicts') = ClearThreshold
                    /\ \A i \in 1 .. ClearThreshold : verdicts'[i]
  OBVIOUS
<1>1. Connect \/ DsStep \/ Overflow \/ RejectMidway => fps' = fps
  BY DEF Connect, DsStep, VBlank, NoReport, ReadCounters, ResetAndSend, Overflow,
         RejectMidway, host
<1>2. fps' # fps
  BY RatesAreNumbers DEF TypeOK
<1>3. ThrottleUpdate
  BY <1>1, <1>2 DEF Next
<1> QED BY <1>3, UpdateStep DEF TypeOK, HostTypeOK

\* Hysteresis (throttle_update): the rate steps up only after as many clear
\* reports in a row as the threshold asks for, whatever was lost in between.
THEOREM StepUpIsEarned == Spec => StepUpEarned
<1>1. Init => Streak
  BY EmptySeq DEF Init, Streak
<1>2. TypeOK /\ Streak /\ [Next]_vars => Streak'
  BY StreakInductive
<1> QED BY <1>1, <1>2, CongestionTypeCorrect, EarnedStep, PTL DEF Spec, StepUpEarned
=============================================================================
