--------------------------- MODULE WiiBootProofs ---------------------------
(***************************************************************************)
(* What the Wii keeps of its operator's choices, that nothing of its boot  *)
(* leaves its range, and which answers its channel benchmark counts;       *)
(* proved for all addresses, hand-written files, list lengths, numbers of  *)
(* probes and of PCs.                                                      *)
(***************************************************************************)
EXTENDS WiiBoot, SequenceTheorems, FiniteSetTheorems, Recursion, TLAPS

(***************************************************************************)
(* How often an address is in a list: what adding, removing and cutting    *)
(* leave.                                                                  *)
(***************************************************************************)
Spots(l, ip) == {j \in 1 .. Len(l) : l[j] = ip}

LEMMA TimesIs ==
  ASSUME NEW l \in Seq(Ips), NEW ip \in Ips
  PROVE  /\ IsFiniteSet(Spots(l, ip)) /\ Times(l)[ip] \in Nat
         /\ Times(l)[ip] = Cardinality(Spots(l, ip))
         /\ Times(l)[ip] = 0 <=> ip \notin ToSet(l)
<1>1. IsFiniteSet(1 .. Len(l)) /\ Spots(l, ip) \in SUBSET (1 .. Len(l))
  BY LenProperties, FS_Interval DEF Spots
<1>2. IsFiniteSet(Spots(l, ip)) /\ Cardinality(Spots(l, ip)) \in Nat
  BY <1>1, FS_Subset, FS_CardinalityType
<1>3. Times(l)[ip] = Cardinality(Spots(l, ip))
  BY DEF Times, Spots
<1>4. Spots(l, ip) = {} <=> ip \notin ToSet(l)
  BY LenProperties DEF Spots, ToSet
<1> QED BY <1>2, <1>3, <1>4, FS_EmptySet

LEMMA TimesTyped ==
  ASSUME NEW l \in Seq(Ips)
  PROVE  Times(l) \in [Ips -> Nat]
<1>1. \A ip \in Ips : Times(l)[ip] \in Nat
  BY TimesIs
<1>2. Times(l) = [ip \in Ips |-> Times(l)[ip]]
  BY DEF Times
<1> QED BY <1>1, <1>2

\* An address not in the list is put at its end.
LEMMA AppendNew ==
  ASSUME NEW l \in Seq(Ips), NEW x \in Ips, x \notin ToSet(l)
  PROVE  /\ Append(l, x) \in Seq(Ips) /\ Len(Append(l, x)) = Len(l) + 1
         /\ Times(Append(l, x)) = [Times(l) EXCEPT ![x] = 1]
<1>1. PICK a : a = Append(l, x)
  OBVIOUS
<1>2. /\ a \in Seq(Ips) /\ Len(a) = Len(l) + 1 /\ Len(l) \in Nat
      /\ \A i \in 1 .. Len(l) : a[i] = l[i]
      /\ a[Len(l) + 1] = x
  BY <1>1, AppendProperties, LenProperties
<1>3. ASSUME NEW ip \in Ips PROVE Times(a)[ip] = IF ip = x THEN 1 ELSE Times(l)[ip]
  <2>0. /\ Times(a)[ip] = Cardinality(Spots(a, ip))
        /\ Times(l)[ip] = Cardinality(Spots(l, ip))
    BY <1>2, TimesIs
  <2>1. Spots(a, ip) = IF ip = x THEN Spots(l, ip) \cup {Len(l) + 1} ELSE Spots(l, ip)
    BY <1>2 DEF Spots
  <2>2. CASE ip = x
    <3>1. Spots(l, ip) = {}
      BY <2>2, LenProperties DEF Spots, ToSet
    <3>2. Spots(a, ip) = {Len(l) + 1}
      BY <2>1, <2>2, <3>1
    <3>3. Times(a)[ip] = 1
      BY <2>0, <3>2, FS_Singleton
    <3> QED BY <2>2, <3>3
  <2>3. CASE ip # x
    BY <2>0, <2>1, <2>3
  <2> QED BY <2>2, <2>3
<1>4. Times(a) = [Times(l) EXCEPT ![x] = 1]
  <2>1. Times(a) \in [Ips -> Nat] /\ Times(l) \in [Ips -> Nat]
    BY <1>2, TimesTyped
  <2> QED BY <1>3, <2>1
<1> QED
  BY <1>1, <1>2, <1>4

\* One address is taken out, the ones behind it move up.
LEMMA RemoveOne ==
  ASSUME NEW l \in Seq(Ips), NEW i \in 1 .. Len(l)
  PROVE  /\ RemoveAt(l, i) \in Seq(Ips) /\ Len(RemoveAt(l, i)) = Len(l) - 1
         /\ Times(RemoveAt(l, i)) = [Times(l) EXCEPT ![l[i]] = @ - 1]
<1>0. PICK front, back : front = SubSeq(l, 1, i - 1) /\ back = SubSeq(l, i + 1, Len(l))
  OBVIOUS
<1>1. PICK r : r = front \o back
  OBVIOUS
<1>2. Len(l) \in Nat /\ \A j \in 1 .. Len(l) : l[j] \in Ips
  BY LenProperties, ElementOfSeq
<1>3. /\ front \in Seq(Ips) /\ Len(front) = i - 1
      /\ \A j \in 1 .. i - 1 : front[j] = l[j]
  <2>1. i - 1 \in Int /\ 1 \in Int /\ \A j \in 1 .. i - 1 : l[j] \in Ips
    BY <1>2
  <2>2. /\ front \in Seq(Ips) /\ Len(front) = (IF 1 <= i - 1 THEN i - 1 - 1 + 1 ELSE 0)
        /\ \A j \in 1 .. i - 1 - 1 + 1 : front[j] = l[1 + j - 1]
    BY <2>1, <1>0, SubSeqProperties
  <2> QED
    BY <1>2, <2>2
<1>4. /\ back \in Seq(Ips) /\ Len(back) = Len(l) - i
      /\ \A j \in 1 .. Len(l) - i : back[j] = l[i + j]
  <2>1. i + 1 \in Int /\ Len(l) \in Int /\ \A j \in i + 1 .. Len(l) : l[j] \in Ips
    BY <1>2
  <2>2. /\ back \in Seq(Ips)
        /\ Len(back) = (IF i + 1 <= Len(l) THEN Len(l) - (i + 1) + 1 ELSE 0)
        /\ \A j \in 1 .. Len(l) - (i + 1) + 1 : back[j] = l[i + 1 + j - 1]
    BY <2>1, <1>0, SubSeqProperties
  <2> QED
    BY <1>2, <2>2
<1>5. /\ r \in Seq(Ips) /\ Len(r) = Len(l) - 1
      /\ \A j \in 1 .. Len(l) - 1 : r[j] = IF j < i THEN l[j] ELSE l[j + 1]
  <2>1. /\ r \in Seq(Ips) /\ Len(r) = Len(front) + Len(back)
        /\ \A j \in 1 .. Len(front) + Len(back) :
              r[j] = IF j <= Len(front) THEN front[j] ELSE back[j - Len(front)]
    BY <1>1, <1>3, <1>4, ConcatProperties
  <2>2. Len(front) + Len(back) = Len(l) - 1 /\ i - 1 \in Nat
    BY <1>2, <1>3, <1>4
  <2>3. ASSUME NEW j \in 1 .. Len(l) - 1
        PROVE  r[j] = IF j < i THEN l[j] ELSE l[j + 1]
    <3>1. CASE j < i
      BY <3>1, <2>1, <2>2, <1>2, <1>3
    <3>2. CASE ~(j < i)
      <4>1. j - (i - 1) \in 1 .. Len(l) - i /\ i + (j - (i - 1)) = j + 1 /\ ~(j <= i - 1)
        BY <3>2, <1>2
      <4>2. r[j] = back[j - (i - 1)]
        BY <4>1, <2>1, <2>2, <1>3
      <4> QED
        BY <3>2, <4>1, <4>2, <1>4
    <3> QED
      BY <3>1, <3>2
  <2> QED
    BY <2>1, <2>2, <2>3
<1>6. ASSUME NEW ip \in Ips
      PROVE  Times(r)[ip] = IF ip = l[i] THEN Times(l)[ip] - 1 ELSE Times(l)[ip]
  <2> DEFINE R == Spots(r, ip)
             L == Spots(l, ip) \ {i}
             f == [j \in R |-> IF j < i THEN j ELSE j + 1]
  <2>1. ASSUME NEW j \in R PROVE f[j] \in L
    <3>1. j \in 1 .. Len(l) - 1 /\ r[j] = ip
      BY <1>5 DEF Spots
    <3>2. CASE j < i
      <4>1. l[j] = ip /\ j \in 1 .. Len(l) /\ j # i
        BY <1>2, <1>5, <3>1, <3>2
      <4> QED BY <3>2, <4>1 DEF Spots
    <3>3. CASE ~(j < i)
      <4>1. l[j + 1] = ip /\ j + 1 \in 1 .. Len(l) /\ j + 1 # i
        BY <1>2, <1>5, <3>1, <3>3
      <4> QED BY <3>3, <4>1 DEF Spots
    <3> QED BY <3>2, <3>3
  <2>2. ASSUME NEW j \in R, NEW k \in R, f[j] = f[k] PROVE j = k
    BY <1>2, <1>5, <2>2 DEF Spots
  <2>3. ASSUME NEW k \in L PROVE \E j \in R : f[j] = k
    <3>1. CASE k < i
      <4>1. k \in R
        BY <1>2, <1>5, <3>1 DEF Spots
      <4> QED BY <3>1, <4>1
    <3>2. CASE ~(k < i)
      <4>1. k \in 1 .. Len(l) /\ k # i /\ l[k] = ip
        BY DEF Spots
      <4>2. k - 1 \in 1 .. Len(l) - 1 /\ ~(k - 1 < i) /\ (k - 1) + 1 = k
        BY <1>2, <3>2, <4>1
      <4>3. r[k - 1] = ip
        BY <1>5, <4>1, <4>2
      <4>4. k - 1 \in R
        BY <1>5, <4>2, <4>3 DEF Spots
      <4> QED BY <4>2, <4>4
    <3> QED BY <3>1, <3>2
  <2>4. f \in [R -> L]
    BY <2>1
  <2>5. f \in Bijection(R, L)
    <3> HIDE DEF f, R, L
    <3>1. f \in Injection(R, L)
      BY <2>2, <2>4 DEF Injection, IsInjective
    <3>2. f \in Surjection(R, L)
      BY <2>3, <2>4 DEF Surjection
    <3> QED BY <3>1, <3>2 DEF Bijection
  <2>6. IsFiniteSet(R) /\ Times(r)[ip] = Cardinality(R)
    <3>1. r \in Seq(Ips)
      BY <1>5
    <3> QED BY <3>1, TimesIs
  <2>7. Cardinality(L) = Cardinality(R)
    <3> HIDE DEF f, R, L
    <3> QED BY <2>5, <2>6, FS_Bijection DEF ExistsBijection
  <2>8. Cardinality(L) = IF i \in Spots(l, ip) THEN Times(l)[ip] - 1 ELSE Times(l)[ip]
    <3>1. IsFiniteSet(Spots(l, ip)) /\ Times(l)[ip] = Cardinality(Spots(l, ip))
      BY TimesIs
    <3>2. Cardinality(Spots(l, ip) \ {i}) =
            IF i \in Spots(l, ip) THEN Cardinality(Spots(l, ip)) - 1 ELSE Cardinality(Spots(l, ip))
      BY <3>1, FS_RemoveElement
    <3> QED BY <3>1, <3>2
  <2>9. i \in Spots(l, ip) <=> ip = l[i]
    BY DEF Spots
  <2> QED BY <2>6, <2>7, <2>8, <2>9
<1>7. Times(r) = [Times(l) EXCEPT ![l[i]] = @ - 1]
  <2>1. Times(r) \in [Ips -> Nat] /\ Times(l) \in [Ips -> Nat]
    BY <1>5, TimesTyped
  <2> QED BY <1>6, <2>1
<1> QED
  BY <1>0, <1>1, <1>5, <1>7 DEF RemoveAt

\* A list that is read back is the one that was written, if it was not too long.
LEMMA TakenFits ==
  ASSUME NEW l \in Seq(Ips)
  PROVE  /\ Taken(l) \in Seq(Ips) /\ Len(Taken(l)) <= MaxSaved
         /\ Len(l) <= MaxSaved => Taken(l) = l
<1>1. PICK n : n = IF Len(l) < MaxSaved THEN Len(l) ELSE MaxSaved
  OBVIOUS
<1>2. PICK t : t = SubSeq(l, 1, n)
  OBVIOUS
<1>3. /\ Len(l) \in Nat /\ MaxSaved \in Nat
      /\ n \in Nat /\ n <= Len(l) /\ n <= MaxSaved
      /\ Len(l) <= MaxSaved => n = Len(l)
  BY <1>1, LenProperties, IpManagerAssumption
<1>4. t \in Seq(Ips) /\ Len(t) = n /\ \A j \in 1 .. n : t[j] = l[j]
  <2>1. n \in Int /\ 1 \in Int /\ \A j \in 1 .. n : l[j] \in Ips
    BY <1>3, ElementOfSeq
  <2>2. /\ t \in Seq(Ips) /\ Len(t) = (IF 1 <= n THEN n - 1 + 1 ELSE 0)
        /\ \A j \in 1 .. n - 1 + 1 : t[j] = l[1 + j - 1]
    BY <2>1, <1>2, SubSeqProperties
  <2> QED
    BY <1>3, <2>2
<1>5. Len(l) <= MaxSaved => t = l
  BY <1>2, <1>3, SubSeqFull
<1> QED
  BY <1>1, <1>2, <1>3, <1>4, <1>5 DEF Taken

(***************************************************************************)
(* The saved addresses.  Cutting the file at MaxSaved relies on the list   *)
(* never being longer, so that is part of the invariant; removing one, on  *)
(* the cursor standing on an entry.                                        *)
(***************************************************************************)
HasList == {"backhaul", "radio", "calib", "apply", "loop", "menu"}

ListInv ==
  /\ list \in Seq(Ips) /\ Len(list) <= MaxSaved
  /\ listCard \in Seq(Ips)
  /\ selection \in Nat
  /\ phase \in HasList => Times(list) = wanted
  /\ ~dirty => Times(Taken(listCard)) = wanted

\* The list in memory, and the file when it is written.
LEMMA SaveKeeps ==
  ASSUME ListInv, Save, list' \in Seq(Ips), Len(list') <= MaxSaved,
         Times(list') = wanted'
  PROVE  /\ listCard' \in Seq(Ips)
         /\ ~dirty' => Times(Taken(listCard')) = wanted'
<1>1. CASE listCard' = list' /\ dirty' = FALSE
  <2>1. Taken(list') = list'
    BY TakenFits
  <2> QED
    BY <1>1, <2>1
<1>2. CASE NotSaved
  BY <1>2, EmptySeq DEF NotSaved, ListInv
<1> QED
  BY <1>1, <1>2 DEF Save

LEMMA ListInit == Init => ListInv
<1> SUFFICES ASSUME Init PROVE ListInv
  OBVIOUS
<1>1. list = <<>> /\ <<>> \in Seq(Ips) /\ Len(<<>>) = 0
  BY DEF Init
<1>2. MaxSaved \in Nat /\ listCard \in Seq(Ips)
  BY IpManagerAssumption DEF Init
<1> QED
  BY <1>1, <1>2 DEF Init, ListInv, HasList

\* Steps that leave the lists, and do not pass over their loading.
LEMMA ListsUnchanged ==
  ASSUME ListInv, UNCHANGED lists, phase' \in HasList => phase \in HasList
  PROVE  ListInv'
BY DEF ListInv, lists, Taken

LEMMA ListNext == ListInv /\ [Next]_vars => ListInv'
<1> SUFFICES ASSUME ListInv, [Next]_vars PROVE ListInv'
  OBVIOUS
<1> USE IpManagerAssumption
<1>1. CASE SwitchOff
  <2>1. list' = <<>> /\ <<>> \in Seq(Ips) /\ Len(<<>>) = 0
    BY <1>1 DEF SwitchOff, Forget
  <2> QED
    BY <1>1, <2>1 DEF SwitchOff, Forget, ListInv, HasList, Taken
<1>2. CASE PowerCutInWizard
  <2>1. list' = <<>> /\ <<>> \in Seq(Ips) /\ Len(<<>>) = 0
    BY <1>2 DEF PowerCutInWizard, Forget
  <2> QED
    BY <1>2, <2>1 DEF PowerCutInWizard, Forget, ListInv, HasList, Taken
<1>3. CASE PowerCutInMenu
  <2>1. list' = <<>> /\ <<>> \in Seq(Ips) /\ Len(<<>>) = 0
    BY <1>3 DEF PowerCutInMenu, Forget
  <2>2. phase' \notin HasList /\ selection' \in Nat /\ dirty'
    BY <1>3 DEF PowerCutInMenu, Forget, NotSaved, HasList
  <2>3. listCard' \in Seq(Ips)
    BY <1>3, <2>1 DEF PowerCutInMenu, NotSaved, ListInv
  <2> QED
    BY <2>1, <2>2, <2>3 DEF ListInv
<1>4. CASE LoadConfig \/ CheckFirstBoot \/ AskMode \/ AskAddress \/ AskCalibration \/ FinishWizard
  <2>1. UNCHANGED lists /\ phase' \notin HasList
    BY <1>4 DEF LoadConfig, CheckFirstBoot, AskMode, AskAddress, AskCalibration, FinishWizard,
                At, HasList
  <2> QED
    BY <2>1, ListsUnchanged
<1>5. CASE LoadList
  <2>1. /\ Taken(listCard) \in Seq(Ips) /\ Len(Taken(listCard)) <= MaxSaved
    BY TakenFits DEF ListInv
  <2>2. /\ list' = Taken(listCard) /\ listCard' = listCard /\ selection' = selection
        /\ Times(list') = wanted'
        /\ Taken(listCard') = Taken(listCard)
    BY <1>5 DEF LoadList, Load, ListInv
  <2> QED
    BY <2>1, <2>2 DEF ListInv
<1>6. CASE OpenSocket \/ StartRadio \/ Calibrate \/ FinishCalibration \/ ApplyBest
  <2>1. UNCHANGED lists /\ phase \in HasList
    BY <1>6 DEF OpenSocket, StartRadio, Calibrate, FinishCalibration, ApplyBest, At, HasList
  <2> QED
    BY <2>1, ListsUnchanged
<1>7. CASE Arm \/ Lock \/ LoopReceive \/ \E p \in Hosts : PcSwitch(p) \/ PcTalk(p)
  <2>1. UNCHANGED lists /\ phase' = phase
    BY <1>7 DEF Arm, Lock, LoopReceive, PcSwitch, PcTalk
  <2> QED
    BY <2>1, ListsUnchanged
<1>8. CASE OpenMenu \/ MenuCancel
  <2>1. UNCHANGED <<list, listCard, wanted, dirty>> /\ selection' = 0 /\ phase \in HasList
    BY <1>8 DEF OpenMenu, MenuCancel, At, HasList
  <2> QED
    BY <2>1 DEF ListInv, Taken
<1>9. ASSUME NEW ip \in Ips, MenuChoose(ip) PROVE ListInv'
  <2>1. phase = "menu" /\ Times(list) = wanted /\ selection' = 0
    BY <1>9 DEF MenuChoose, At, ListInv, HasList
  <2>2. CASE Selected(ip)
    BY <2>1, <2>2 DEF Selected, ListInv, Taken
  <2>3. CASE EnterNew(ip)
    <3>1. /\ list' = Appended(ip)
          /\ wanted' = IF Len(list) < MaxSaved /\ wanted[ip] = 0 THEN [wanted EXCEPT ![ip] = 1]
                       ELSE wanted
      BY <2>3 DEF EnterNew, AddIp
    <3>0. wanted[ip] = 0 <=> ip \notin ToSet(list)
      <4>1. list \in Seq(Ips) /\ Times(list) = wanted
        BY <2>1 DEF ListInv
      <4> QED BY <4>1, TimesIs
    <3>2. CASE list' = list
      <4>1. UNCHANGED <<listCard, dirty>>
        BY <2>3, <3>2 DEF EnterNew
      <4>2. wanted' = wanted
        <5>1. CASE Len(list) < MaxSaved
          <6>1. CASE ip \in ToSet(list)
            BY <6>1, <3>0, <3>1
          <6>2. CASE ip \notin ToSet(list)
            <7>1. list' = Append(list, ip) /\ Len(Append(list, ip)) = Len(list) + 1
              BY <6>2, <5>1, <3>1, AppendNew, LenProperties DEF Appended, ListInv
            <7> QED
              BY <7>1, <3>2, LenProperties DEF ListInv
          <6> QED
            BY <6>1, <6>2
        <5>2. CASE ~(Len(list) < MaxSaved)
          BY <5>2, <3>1
        <5> QED
          BY <5>1, <5>2
      <4> QED
        BY <2>1, <3>2, <4>1, <4>2 DEF ListInv, Taken
    <3>3. CASE list' # list
      <4>1. ip \notin ToSet(list) /\ ~(Len(list) >= MaxSaved) /\ list' = Append(list, ip)
        BY <3>1, <3>3 DEF Appended
      <4>2. /\ list' \in Seq(Ips) /\ Len(list') = Len(list) + 1
            /\ Times(list') = [Times(list) EXCEPT ![ip] = 1]
        BY <4>1, AppendNew DEF ListInv
      <4>3. Len(list') <= MaxSaved /\ Len(list) < MaxSaved
        BY <4>1, <4>2, LenProperties DEF ListInv
      <4>4. Times(list') = wanted'
        BY <2>1, <3>0, <3>1, <4>1, <4>2, <4>3
      <4>5. Save
        BY <2>3, <3>3 DEF EnterNew
      <4> QED
        BY <2>1, <4>2, <4>3, <4>4, <4>5, SaveKeeps DEF ListInv
    <3> QED
      BY <3>2, <3>3
  <2> QED
    BY <1>9, <2>2, <2>3 DEF MenuChoose
<1>10. CASE MenuMove
  <2>1. phase = "menu" /\ phase' = "menu" /\ Times(list) = wanted /\ Len(list) \in Nat
    BY <1>10, LenProperties DEF MenuMove, ListInv, HasList
  <2>2. CASE Up \/ Down
    <3>1. UNCHANGED <<list, listCard, wanted, dirty>> /\ selection' \in Nat
      BY <2>1, <2>2 DEF Up, Down, ListInv
    <3> QED
      BY <2>1, <3>1 DEF ListInv, Taken
  <2>3. CASE RemoveIp
    <3>1. selection + 1 \in 1 .. Len(list)
      BY <2>1, <2>3 DEF RemoveIp, ListInv
    <3>2. /\ list' \in Seq(Ips) /\ Len(list') = Len(list) - 1
          /\ Times(list') = [Times(list) EXCEPT ![list[selection + 1]] = @ - 1]
      BY <2>3, <3>1, RemoveOne DEF RemoveIp, ListInv
    <3>3. Len(list') <= MaxSaved /\ Times(list') = wanted' /\ selection' \in Nat
      BY <2>1, <2>3, <3>2 DEF RemoveIp, ListInv
    <3>4. Save
      BY <2>3 DEF RemoveIp
    <3> QED
      BY <2>1, <3>2, <3>3, <3>4, SaveKeeps DEF ListInv
  <2> QED
    BY <1>10, <2>2, <2>3 DEF MenuMove
<1>11. CASE UNCHANGED vars
  BY <1>11, ListsUnchanged DEF vars
<1> QED
  BY <1>1, <1>2, <1>3, <1>4, <1>5, <1>6, <1>7, <1>8, <1>9, <1>10, <1>11 DEF Next

\* Whatever list was written by hand, however the operator adds, removes and
\* switches off, and whatever writes of the file fail or are cut short
\* (ip_manager.c): once it is loaded the list holds each address as often as it
\* was written, or once if it was added when there was none, less the times it
\* was removed; and the next boot reads the same unless the last write failed.
THEOREM AddressesKept == Spec => []ListKept
<1>1. ListInv => ListKept
  BY DEF ListInv, ListKept, HasList
<1> QED
  BY <1>1, ListInit, ListNext, PTL DEF Spec

(***************************************************************************)
(* Where telemetry goes.  The choice is compared with the address of the   *)
(* configuration, which no step between socket and menu may change.        *)
(***************************************************************************)
Keys == {"usb", "channel", "auto", "channels", "ip"}

LEMMA ConfigKeys == DOMAIN Defaults = Keys /\ \A file : DOMAIN Loaded(file) = Keys
<1>1. DOMAIN Defaults = Keys
  BY DEF Defaults, Keys
<1> QED
  BY <1>1 DEF Loaded

ChoiceInv ==
  /\ DOMAIN cfg = Keys
  /\ phase \in {"radio", "calib", "apply", "loop", "menu"} /\ ~moved => pc = cfg.ip

LEMMA ChoiceNext == ChoiceInv /\ [Next]_vars => ChoiceInv'
<1> SUFFICES ASSUME ChoiceInv, [Next]_vars PROVE ChoiceInv'
  OBVIOUS
<1> USE DEF ChoiceInv
<1>1. CASE SwitchOff \/ PowerCutInWizard \/ PowerCutInMenu
  <2>1. cfg' = Defaults /\ phase' = "off"
    BY <1>1 DEF SwitchOff, PowerCutInWizard, PowerCutInMenu, Forget
  <2> QED
    BY <2>1, ConfigKeys
<1>2. CASE LoadConfig
  <2>1. cfg' = Loaded(card) /\ phase' = "config"
    BY <1>2 DEF LoadConfig, At
  <2> QED
    BY <2>1, ConfigKeys
<1>3. CASE AskMode \/ AskAddress \/ AskCalibration
  <2>1. phase' \in {"address", "calibration", "save"}
    BY <1>3 DEF AskMode, AskAddress, AskCalibration, At
  <2>2. \E v : \E k \in Keys : cfg' = [cfg EXCEPT ![k] = v]
    BY <1>3 DEF AskMode, AskAddress, AskCalibration, ChooseMode, EnterIpAddress,
                ChooseCalibration, Keys
  <2> QED
    BY <2>1, <2>2
<1>4. CASE CheckFirstBoot \/ FinishWizard \/ LoadList
  BY <1>4 DEF CheckFirstBoot, FinishWizard, LoadList, At
<1>5. CASE OpenSocket
  BY <1>5 DEF OpenSocket, BackhaulInit, At
<1>6. CASE StartRadio \/ Calibrate \/ FinishCalibration
  BY <1>6 DEF StartRadio, Calibrate, FinishCalibration, backhaul, At
<1>7. CASE ApplyBest
  <2>1. cfg' = cfg \/ cfg' = [cfg EXCEPT !.channel = best]
    BY <1>7 DEF ApplyBest
  <2>2. DOMAIN cfg' = Keys /\ cfg'.ip = cfg.ip
    BY <2>1 DEF Keys
  <2> QED
    BY <1>7, <2>2 DEF ApplyBest, backhaul, At
<1>8. CASE LoopReceive
  BY <1>8 DEF LoopReceive, Receive
<1>9. CASE Arm \/ Lock \/ OpenMenu \/ MenuMove \/ MenuCancel
  BY <1>9 DEF Arm, Lock, OpenMenu, MenuMove, MenuCancel, backhaul, At
<1>10. ASSUME NEW ip \in Ips, MenuChoose(ip) PROVE ChoiceInv'
  <2>1. cfg' = [cfg EXCEPT !.ip = ip] /\ pc' = ip
    BY <1>10 DEF MenuChoose, Reconnect
  <2>2. DOMAIN cfg' = Keys /\ cfg'.ip = ip
    BY <2>1 DEF Keys
  <2> QED
    BY <2>1, <2>2
<1>11. ASSUME NEW p \in Hosts, PcSwitch(p) \/ PcTalk(p) PROVE ChoiceInv'
  BY <1>11 DEF PcSwitch, PcTalk, Switch, Talk
<1>12. CASE UNCHANGED vars
  BY <1>12 DEF vars, backhaul
<1> QED
  BY <1>1, <1>2, <1>3, <1>4, <1>5, <1>6, <1>7, <1>8, <1>9, <1>10, <1>11, <1>12 DEF Next

\* Telemetry goes to the address of the configuration or to the one last chosen
\* in the menu until a PC's datagram arrives (backhaul.c, main.c), through a
\* benchmark that changes the configuration's channel and any boot.
THEOREM ChoiceIsHeld == Spec => []ChoiceHeld
<1>1. Init => ChoiceInv
  BY ConfigKeys DEF Init, ChoiceInv
<1>2. ChoiceInv => ChoiceHeld
  BY DEF ChoiceInv, ChoiceHeld
<1> QED
  BY <1>1, <1>2, ChoiceNext, PTL DEF Spec

(***************************************************************************)
(* The wizard's answers.  What a boot starts from is what the card would   *)
(* be loaded as, so that is what must agree with the answers; and a wizard *)
(* that runs again found the default address on the card.                  *)
(***************************************************************************)
RememberedInv ==
  /\ DOMAIN cfg = Keys
  /\ phase = "config" => cfg = Loaded(card)
  /\ answers # NoAnswers => AnswersIn(Loaded(card)) = answers
  /\ Remembered

\* The written file is read as the configuration it was written from.
LEMMA ReadBack ==
  ASSUME NEW c, DOMAIN c = Keys
  PROVE  AnswersIn(Loaded(FileOf(c))) = AnswersIn(c)
<1>1. \A k \in Answered : k \in DOMAIN Defaults /\ k # "channel" /\ k # "channels"
  BY ConfigKeys DEF Answered, Keys
<1>2. \A k \in Answered : k \in DOMAIN FileOf(c) /\ FileOf(c)[k] = c[k]
  BY DEF Answered, FileOf
<1>3. \A k \in Answered : Loaded(FileOf(c))[k] = c[k]
  BY <1>1, <1>2 DEF Loaded, Accepted
<1> QED
  BY <1>3 DEF AnswersIn

LEMMA RememberedNext == RememberedInv /\ [Next]_vars => RememberedInv'
<1> SUFFICES ASSUME RememberedInv, [Next]_vars PROVE RememberedInv'
  OBVIOUS
<1> USE DEF RememberedInv, Remembered
<1>1. CASE SwitchOff \/ PowerCutInWizard \/ PowerCutInMenu
  <2>1. cfg' = Defaults /\ phase' = "off"
    BY <1>1 DEF SwitchOff, PowerCutInWizard, PowerCutInMenu, Forget
  <2>2. (card' = card /\ answers' = answers) \/ answers' = NoAnswers
    BY <1>1 DEF SwitchOff, PowerCutInWizard, PowerCutInMenu, SaveConfigFails
  <2> QED
    BY <2>1, <2>2, ConfigKeys DEF Wizard
<1>2. CASE LoadConfig
  <2>1. /\ cfg' = Loaded(card) /\ phase' = "config" /\ card' = card /\ answers' = answers
    BY <1>2 DEF LoadConfig, At
  <2> QED
    BY <2>1, ConfigKeys DEF Wizard
<1>3. CASE CheckFirstBoot
  <2>1. phase = "config" /\ UNCHANGED <<cfg, card, answers, unsaved>>
    BY <1>3 DEF CheckFirstBoot
  <2>2. answers # NoAnswers => AnswersIn(cfg) = answers
    BY <2>1
  <2>3. CASE FirstBoot
    <3>1. answers # NoAnswers => answers.ip = DefaultIp
      BY <2>2, <2>3 DEF FirstBoot, AnswersIn, Answered
    <3> QED
      BY <1>3, <2>1, <2>3, <3>1 DEF CheckFirstBoot
  <2>4. CASE ~FirstBoot
    BY <1>3, <2>1, <2>2, <2>4 DEF CheckFirstBoot, Wizard
  <2> QED
    BY <2>3, <2>4
<1>4. CASE AskMode \/ AskAddress \/ AskCalibration
  <2>1. /\ phase \in Wizard /\ phase' \in {"address", "calibration", "save"}
        /\ UNCHANGED <<card, answers, unsaved>>
    BY <1>4 DEF AskMode, AskAddress, AskCalibration, At, Wizard
  <2>2. \E v : \E k \in Keys : cfg' = [cfg EXCEPT ![k] = v]
    BY <1>4 DEF AskMode, AskAddress, AskCalibration, ChooseMode, EnterIpAddress,
                ChooseCalibration, Keys
  <2>3. DOMAIN cfg' = Keys
    BY <2>2
  <2> QED
    BY <2>1, <2>3
<1>5. CASE FinishWizard
  <2>1. phase' = "lists" /\ cfg' = cfg
    BY <1>5 DEF FinishWizard, At
  <2>2. CASE SaveConfig /\ unsaved' = FALSE
    BY <2>1, <2>2, ReadBack DEF SaveConfig, Wizard
  <2>3. CASE SaveConfigFails /\ unsaved' = TRUE
    BY <2>1, <2>3 DEF SaveConfigFails, Wizard
  <2> QED
    BY <1>5, <2>2, <2>3 DEF FinishWizard
<1>6. CASE LoadList \/ OpenSocket
  <2>1. /\ phase \in {"lists", "backhaul"} /\ phase' \in {"backhaul", "radio"}
        /\ UNCHANGED <<cfg, card, answers, unsaved>>
    BY <1>6 DEF LoadList, OpenSocket, At
  <2> QED
    BY <2>1 DEF Wizard
<1>7. CASE StartRadio \/ Calibrate \/ FinishCalibration \/ Arm \/ Lock \/ LoopReceive \/ OpenMenu
           \/ MenuMove \/ MenuCancel \/ \E p \in Hosts : PcSwitch(p) \/ PcTalk(p)
  <2>1. /\ UNCHANGED <<cfg, card, answers>>
        /\ phase' \in {"calib", "apply", "loop", "menu"}
    BY <1>7 DEF StartRadio, Calibrate, FinishCalibration, Arm, Lock, LoopReceive, OpenMenu,
                MenuMove, MenuCancel, PcSwitch, PcTalk, At
  <2> QED
    BY <2>1 DEF Wizard
<1>8. CASE ApplyBest
  <2>1. UNCHANGED <<card, answers>> /\ phase' = "loop"
    BY <1>8 DEF ApplyBest, At
  <2>2. cfg' = cfg \/ cfg' = [cfg EXCEPT !.channel = best]
    BY <1>8 DEF ApplyBest
  <2> QED
    BY <2>1, <2>2 DEF Wizard
<1>9. ASSUME NEW ip \in Ips, MenuChoose(ip) PROVE RememberedInv'
  <2>1. UNCHANGED <<card, answers>> /\ phase' = "loop" /\ cfg' = [cfg EXCEPT !.ip = ip]
    BY <1>9 DEF MenuChoose, At
  <2> QED
    BY <2>1 DEF Wizard
<1>10. CASE UNCHANGED vars
  BY <1>10 DEF vars
<1> QED
  BY <1>1, <1>2, <1>3, <1>4, <1>5, <1>6, <1>7, <1>8, <1>9, <1>10 DEF Next

\* Whenever the power goes, and whether or not a save succeeded
\* (setup_wizard.c, config_ui.c): a boot uses all the answers the card holds or
\* none, and the wizard runs again only for the default address.
THEOREM AnswersRemembered == Spec => []Remembered
<1>1. Init => RememberedInv
  BY ConfigKeys DEF Init, RememberedInv, Remembered
<1>2. RememberedInv => Remembered
  BY DEF RememberedInv
<1> QED
  BY <1>1, <1>2, RememberedNext, PTL DEF Spec

(***************************************************************************)
(* What a boot makes of the card is a configuration, however a line of it  *)
(* reads.                                                                  *)
(***************************************************************************)
Kept == {q \in Seq(1 .. 11) : Len(q) <= 11}

\* What the loop over the values of a line has kept after each of them.
LEMMA ChannelListIs ==
  ASSUME NEW csv \in Seq(Int)
  PROVE  ChannelList(csv) \in Kept
<1> DEFINE N == Len(csv)
           kept[n \in 0 .. N] ==
             IF n = 0 THEN <<>>
             ELSE IF IsChannel(csv[n]) /\ Len(kept[n - 1]) < 11 THEN Append(kept[n - 1], csv[n])
             ELSE kept[n - 1]
           step == [n \in 1 .. N |->
                      [q \in Kept |-> IF IsChannel(csv[n]) /\ Len(q) < 11 THEN Append(q, csv[n])
                                      ELSE q]]
<1>0. N \in Nat /\ <<>> \in Kept
  BY EmptySeq DEF Kept
<1>1. ASSUME NEW n \in 1 .. N, NEW q \in Kept, IsChannel(csv[n]), Len(q) < 11
      PROVE  Append(q, csv[n]) \in Kept
  <2>1. csv[n] \in 1 .. 11 /\ q \in Seq(1 .. 11) /\ Len(q) \in Nat
    BY <1>1 DEF IsChannel, Kept
  <2>2. Append(q, csv[n]) \in Seq(1 .. 11) /\ Len(Append(q, csv[n])) = Len(q) + 1
    BY <2>1, AppendProperties
  <2> QED BY <1>1, <2>1, <2>2 DEF Kept
<1>2. step \in Steps(N, Kept)
  BY <1>1 DEF Steps
<1>3. PICK f : Follows(f, N, Kept, <<>>, step)
  <2> HIDE DEF step, N
  <2> QED BY <1>0, <1>2, RecursiveExists
<1>4. ASSUME NEW n \in 1 .. N
      PROVE  f[n] = IF IsChannel(csv[n]) /\ Len(f[n - 1]) < 11 THEN Append(f[n - 1], csv[n])
                    ELSE f[n - 1]
  <2>1. f[n - 1] \in Kept /\ f[n] = step[n][f[n - 1]]
    <3> HIDE DEF step, N
    <3> QED BY <1>0, <1>3 DEF Follows
  <2> QED BY <2>1
<1>5. f = [n \in 0 .. N |->
             IF n = 0 THEN <<>>
             ELSE IF IsChannel(csv[n]) /\ Len(f[n - 1]) < 11 THEN Append(f[n - 1], csv[n])
             ELSE f[n - 1]]
  <2>1. f[0] = <<>> /\ f = [n \in 0 .. N |-> f[n]]
    BY <1>3 DEF Follows
  <2>2. \A n \in 0 .. N : n # 0 => n \in 1 .. N
    BY <1>0
  <2> HIDE DEF N
  <2> QED BY <1>4, <2>1, <2>2
<1>6. kept = [n \in 0 .. N |->
                IF n = 0 THEN <<>>
                ELSE IF IsChannel(csv[n]) /\ Len(kept[n - 1]) < 11
                  THEN Append(kept[n - 1], csv[n])
                ELSE kept[n - 1]]
  BY <1>5
<1>7. ChannelList(csv) = kept[N]
  BY DEF ChannelList
<1> HIDE DEF kept, N
<1>8. kept[0] \in Kept
  BY <1>0, <1>6
<1>9. ASSUME NEW n \in 1 .. N, kept[n - 1] \in Kept PROVE kept[n] \in Kept
  <2>1. n \in 0 .. N /\ n # 0
    BY <1>0
  <2>2. kept[n] = IF IsChannel(csv[n]) /\ Len(kept[n - 1]) < 11 THEN Append(kept[n - 1], csv[n])
                  ELSE kept[n - 1]
    BY <1>6, <2>1
  <2> QED BY <1>1, <1>9, <2>2 DEF N
<1>10. \A n \in 0 .. N : kept[n] \in Kept
  BY <1>0, <1>8, <1>9, RecursiveKeeps
<1> QED BY <1>0, <1>7, <1>10

LEMMA UpToEleven == \A n \in Nat : n # 0 /\ n <= 11 => n \in 1 .. 11
OBVIOUS

LEMMA NumberOfEleven == \A n \in 1 .. 11 : n \in Nat /\ n # 0 /\ n <= 11
OBVIOUS

LEMMA FromZero == \A n, m \in Nat : n <= m => n \in 0 .. m
OBVIOUS

LEMMA SomeKept ==
  ASSUME NEW q \in Kept, q # <<>>
  PROVE  q \in Seq(1 .. 11) /\ Len(q) \in 1 .. 11
<1>1. q \in Seq(1 .. 11) /\ Len(q) \in Nat /\ Len(q) # 0 /\ Len(q) <= 11
  BY EmptySeq DEF Kept
<1> QED BY <1>1, UpToEleven

Configs ==
  [usb : BOOLEAN, channel : 1 .. 11, auto : BOOLEAN, channels : Seq(1 .. 11), ip : Ips]

Typed(c) == c \in Configs /\ Len(c.channels) \in 1 .. 11

\* A file whose lines have values of the right kind, whatever they are.
Readable(f) ==
  /\ "usb" \in DOMAIN f => f["usb"] \in BOOLEAN
  /\ "auto" \in DOMAIN f => f["auto"] \in BOOLEAN
  /\ "channel" \in DOMAIN f => f["channel"] \in Int
  /\ "channels" \in DOMAIN f => f["channels"] \in Seq(Int)
  /\ "ip" \in DOMAIN f => f["ip"] \in Ips

LEMMA KeysMakeConfig ==
  ASSUME NEW f, f = [k \in Keys |-> f[k]], f["usb"] \in BOOLEAN, f["channel"] \in 1 .. 11,
         f["auto"] \in BOOLEAN, f["channels"] \in Seq(1 .. 11), f["ip"] \in Ips
  PROVE  f \in Configs
BY DEF Keys, Configs

LEMMA DefaultsTyped == Typed(Defaults)
BY WiiConfigAssumption DEF Typed, Configs, Defaults

LEMMA LoadedTyped ==
  ASSUME NEW f, Readable(f)
  PROVE  Typed(Loaded(f))
<1>1. PICK c : c = Loaded(f)
  OBVIOUS
<1>2. /\ Defaults.usb \in BOOLEAN /\ Defaults.channel \in 1 .. 11 /\ Defaults.auto \in BOOLEAN
      /\ Defaults.channels \in Seq(1 .. 11) /\ Len(Defaults.channels) \in 1 .. 11
      /\ Defaults.ip \in Ips
  BY DefaultsTyped DEF Typed, Configs
<1>3. c = [k \in Keys |-> c[k]]
  BY <1>1, ConfigKeys DEF Loaded
<1>4. \A k \in Keys : c[k] = IF k \notin DOMAIN f \/ ~Accepted(k, f[k]) THEN Defaults[k]
                             ELSE IF k = "channels" THEN ChannelList(f[k]) ELSE f[k]
  BY <1>1, ConfigKeys DEF Loaded
<1>5. c["usb"] \in BOOLEAN /\ c["auto"] \in BOOLEAN /\ c["ip"] \in Ips
  BY <1>2, <1>4 DEF Readable, Keys
<1>6. c["channel"] \in 1 .. 11
  <2>1. "channel" \in Keys /\ "channel" # "channels"
    BY DEF Keys
  <2> QED BY <1>2, <1>4, <2>1 DEF Accepted, IsChannel
<1>7. c["channels"] \in Seq(1 .. 11) /\ Len(c["channels"]) \in 1 .. 11
  <2>1. CASE "channels" \notin DOMAIN f \/ ~Accepted("channels", f["channels"])
    <3>1. c["channels"] = Defaults["channels"]
      BY <1>4, <2>1 DEF Keys
    <3> QED BY <1>2, <3>1
  <2>2. CASE "channels" \in DOMAIN f /\ Accepted("channels", f["channels"])
    <3>1. c["channels"] = ChannelList(f["channels"])
      BY <1>4, <2>2 DEF Keys
    <3>2. PICK q \in Kept : q = ChannelList(f["channels"])
      BY <2>2, ChannelListIs DEF Readable
    <3>3. q # <<>>
      BY <2>2, <3>2 DEF Accepted
    <3>4. q \in Seq(1 .. 11) /\ Len(q) \in 1 .. 11
      BY <3>3, SomeKept
    <3>5. c["channels"] = q
      BY <3>1, <3>2
    <3> QED BY <3>4, <3>5
  <2> QED BY <2>1, <2>2
<1>8. c \in Configs
  BY <1>3, <1>5, <1>6, <1>7, KeysMakeConfig
<1> QED BY <1>1, <1>7, <1>8 DEF Typed

\* The card has a file of the operator, or of the wizard, or none.
Cards ==
  HandWritten \cup {NoFile} \cup
    {FileOf(c) : c \in [usb : BOOLEAN, auto : BOOLEAN, ip : Ips]}

LEMMA CardsReadable ==
  ASSUME NEW f \in Cards
  PROVE  Readable(f)
<1>1. CASE f \in HandWritten
  BY <1>1, WiiConfigAssumption DEF Readable
<1>2. CASE f = NoFile
  BY <1>2 DEF NoFile, Readable
<1>3. ASSUME NEW c \in [usb : BOOLEAN, auto : BOOLEAN, ip : Ips], f = FileOf(c)
      PROVE  Readable(f)
  BY <1>3 DEF FileOf, Readable
<1> QED BY <1>1, <1>2, <1>3 DEF Cards

\* The wizard's file is that of its answers.
LEMMA WrittenCard ==
  ASSUME NEW c \in Configs
  PROVE  FileOf(c) \in Cards
<1>1. c.usb \in BOOLEAN /\ c.auto \in BOOLEAN /\ c.ip \in Ips
  BY DEF Configs
<1>2. PICK a \in [usb : BOOLEAN, auto : BOOLEAN, ip : Ips] :
        a.usb = c.usb /\ a.auto = c.auto /\ a.ip = c.ip
  <2>1. [usb |-> c.usb, auto |-> c.auto, ip |-> c.ip] \in [usb : BOOLEAN, auto : BOOLEAN, ip : Ips]
    BY <1>1
  <2> QED BY <2>1
<1>3. FileOf(c) = FileOf(a)
  BY <1>2 DEF FileOf
<1> QED BY <1>3 DEF Cards

ConfigInv == Typed(cfg) /\ card \in Cards

LEMMA ConfigInit == Init => ConfigInv
BY DefaultsTyped DEF Init, ConfigInv, Cards

\* A setting is replaced by another of its kind.
LEMMA SettingReplaced ==
  ASSUME NEW c \in Configs, Len(c.channels) \in 1 .. 11
  PROVE  /\ \A b \in BOOLEAN : Typed([c EXCEPT !.usb = b]) /\ Typed([c EXCEPT !.auto = b])
         /\ \A i \in Ips : Typed([c EXCEPT !.ip = i])
         /\ \A ch \in 1 .. 11 : Typed([c EXCEPT !.channel = ch])
BY DEF Typed, Configs

LEMMA ConfigNext == ConfigInv /\ [Next]_vars => ConfigInv'
<1> SUFFICES ASSUME ConfigInv, [Next]_vars PROVE ConfigInv'
  OBVIOUS
<1>0. cfg \in Configs /\ Len(cfg.channels) \in 1 .. 11 /\ card \in Cards
  BY DEF ConfigInv, Typed
<1>1. CASE SwitchOff \/ PowerCutInWizard \/ PowerCutInMenu
  <2>1. cfg' = Defaults /\ (card' = card \/ card' = NoFile)
    BY <1>1 DEF SwitchOff, PowerCutInWizard, PowerCutInMenu, Forget, SaveConfigFails
  <2> QED BY <1>0, <2>1, DefaultsTyped DEF ConfigInv, Cards
<1>2. CASE LoadConfig
  <2>1. Typed(Loaded(card))
    BY <1>0, CardsReadable, LoadedTyped
  <2> QED BY <1>0, <1>2, <2>1 DEF LoadConfig, ConfigInv
<1>3. CASE AskMode \/ AskAddress \/ AskCalibration
  <2>1. /\ card' = card
        /\ \/ \E b \in BOOLEAN : cfg' = [cfg EXCEPT !.usb = b] \/ cfg' = [cfg EXCEPT !.auto = b]
           \/ \E i \in Ips : cfg' = [cfg EXCEPT !.ip = i]
    BY <1>3 DEF AskMode, AskAddress, AskCalibration, ChooseMode, EnterIpAddress, ChooseCalibration
  <2>2. Typed(cfg')
    BY <1>0, <2>1, SettingReplaced
  <2> QED BY <1>0, <2>1, <2>2 DEF ConfigInv
<1>4. CASE FinishWizard
  <2>1. cfg' = cfg /\ (card' = card \/ card' = NoFile \/ card' = FileOf(cfg))
    BY <1>4 DEF FinishWizard, SaveConfig, SaveConfigFails
  <2> QED BY <1>0, <2>1, WrittenCard DEF ConfigInv, Cards
<1>5. CASE ApplyBest
  <2>1. card' = card /\ cfg' = IF best \in 1 .. 11 THEN [cfg EXCEPT !.channel = best] ELSE cfg
    BY <1>5 DEF ApplyBest
  <2>2. Typed(cfg')
    BY <1>0, <2>1, SettingReplaced DEF Typed
  <2> QED BY <1>0, <2>1, <2>2 DEF ConfigInv
<1>6. ASSUME NEW ip \in Ips, MenuChoose(ip) PROVE ConfigInv'
  <2>1. card' = card /\ cfg' = [cfg EXCEPT !.ip = ip]
    BY <1>6 DEF MenuChoose
  <2>2. Typed(cfg')
    BY <1>0, <2>1, SettingReplaced
  <2> QED BY <1>0, <2>1, <2>2 DEF ConfigInv
<1>7. CASE \/ CheckFirstBoot \/ LoadList \/ OpenSocket \/ StartRadio \/ Calibrate
           \/ FinishCalibration \/ Arm \/ Lock \/ LoopReceive \/ OpenMenu \/ MenuMove \/ MenuCancel
           \/ UNCHANGED vars \/ \E p \in Hosts : PcSwitch(p) \/ PcTalk(p)
  <2>1. UNCHANGED <<cfg, card>>
    BY <1>7 DEF CheckFirstBoot, LoadList, OpenSocket, StartRadio, Calibrate, FinishCalibration,
                Arm, Lock, LoopReceive, OpenMenu, MenuMove, MenuCancel, PcSwitch, PcTalk, vars
  <2> QED BY <1>0, <2>1 DEF ConfigInv, Typed
<1> QED BY <1>1, <1>2, <1>3, <1>4, <1>5, <1>6, <1>7 DEF Next

(***************************************************************************)
(* The cursor of the menu and the socket.                                  *)
(***************************************************************************)
CursorInv ==
  /\ selection \in 0 .. Len(list) /\ (phase # "menu" => selection = 0)
  /\ wanted \in [Ips -> Nat] /\ dirty \in BOOLEAN

LEMMA CursorInit == Init => CursorInv
<1> SUFFICES ASSUME Init PROVE CursorInv
  OBVIOUS
<1>1. listCard \in Seq(Ips)
  BY IpManagerAssumption DEF Init
<1>2. wanted \in [Ips -> Nat]
  BY <1>1, TakenFits, TimesTyped DEF Init
<1>3. list = <<>> /\ 0 \in 0 .. Len(<<>>)
  BY DEF Init
<1> QED BY <1>2, <1>3 DEF Init, CursorInv

LEMMA CursorNext == ListInv /\ CursorInv /\ [Next]_vars => CursorInv'
<1> SUFFICES ASSUME ListInv, CursorInv, [Next]_vars PROVE CursorInv'
  OBVIOUS
<1>0. /\ list \in Seq(Ips) /\ Len(list) \in Nat /\ listCard \in Seq(Ips)
      /\ list' \in Seq(Ips) /\ Len(list') \in Nat
  BY ListNext, LenProperties DEF ListInv
<1>1. ASSUME selection' = 0, wanted' \in [Ips -> Nat], dirty' \in BOOLEAN PROVE CursorInv'
  <2>1. 0 \in 0 .. Len(list')
    BY <1>0
  <2> QED BY <1>1, <2>1 DEF CursorInv
<1>2. CASE SwitchOff \/ PowerCutInWizard \/ PowerCutInMenu
  <2>1. selection' = 0 /\ wanted' = wanted /\ (dirty' = dirty \/ dirty' = TRUE)
    BY <1>2 DEF SwitchOff, PowerCutInWizard, PowerCutInMenu, Forget, NotSaved
  <2> QED BY <1>1, <2>1 DEF CursorInv
<1>3. CASE LoadList
  <2>1. Taken(listCard) \in Seq(Ips)
    BY <1>0, TakenFits
  <2>2. selection' = 0 /\ dirty' = FALSE /\ (wanted' = wanted \/ wanted' = Times(Taken(listCard)))
    BY <1>3 DEF LoadList, Load, At, CursorInv
  <2>3. Times(Taken(listCard)) \in [Ips -> Nat]
    BY <2>1, TimesTyped
  <2> QED BY <1>1, <2>2, <2>3 DEF CursorInv
<1>4. CASE OpenMenu \/ MenuCancel
  BY <1>1, <1>4 DEF OpenMenu, MenuCancel, CursorInv
<1>5. ASSUME NEW ip \in Ips, MenuChoose(ip) PROVE CursorInv'
  <2>1. /\ selection' = 0 /\ (wanted' = wanted \/ wanted' = [wanted EXCEPT ![ip] = 1])
        /\ (dirty' = dirty \/ dirty' = FALSE \/ dirty' = TRUE)
    BY <1>5 DEF MenuChoose, Selected, EnterNew, AddIp, Save, NotSaved
  <2>2. wanted \in [Ips -> Nat] /\ [wanted EXCEPT ![ip] = 1] \in [Ips -> Nat]
    BY DEF CursorInv
  <2> QED BY <1>1, <2>1, <2>2 DEF CursorInv
<1>6. CASE MenuMove
  <2>1. phase' = phase /\ phase = "menu"
    BY <1>6 DEF MenuMove
  <2>2. CASE Up \/ Down
    <3>1. selection' \in 0 .. Len(list') /\ UNCHANGED <<wanted, dirty>>
      BY <1>0, <2>2 DEF Up, Down, CursorInv
    <3> QED BY <2>1, <3>1 DEF CursorInv
  <2>3. CASE RemoveIp
    <3>1. selection + 1 \in 1 .. Len(list)
      BY <1>0, <2>3 DEF RemoveIp, CursorInv
    <3>2. Len(list') = Len(list) - 1
      BY <2>3, <3>1, RemoveOne DEF RemoveIp, ListInv
    <3>3. selection' \in 0 .. Len(list')
      BY <1>0, <2>3, <3>1, <3>2 DEF RemoveIp, CursorInv
    <3>4. wanted' \in [Ips -> Nat]
      <4>1. phase' \in HasList /\ ListInv'
        BY <2>1, ListNext DEF HasList
      <4> QED BY <1>0, <4>1, TimesTyped DEF ListInv
    <3>5. dirty' \in BOOLEAN
      BY <2>3 DEF RemoveIp, Save, NotSaved
    <3> QED BY <2>1, <3>3, <3>4, <3>5 DEF CursorInv
  <2> QED BY <1>6, <2>2, <2>3 DEF MenuMove
<1>7. CASE \/ LoadConfig \/ CheckFirstBoot \/ AskMode \/ AskAddress \/ AskCalibration \/ FinishWizard
           \/ OpenSocket \/ StartRadio \/ Calibrate \/ FinishCalibration \/ ApplyBest
           \/ Arm \/ Lock \/ LoopReceive \/ UNCHANGED vars \/ \E p \in Hosts : PcSwitch(p) \/ PcTalk(p)
  <2>1. UNCHANGED lists
    BY <1>7 DEF LoadConfig, CheckFirstBoot, AskMode, AskAddress, AskCalibration, FinishWizard,
                OpenSocket, StartRadio, Calibrate, FinishCalibration, ApplyBest, Arm, Lock, LoopReceive,
                PcSwitch, PcTalk, vars
  <2>2. phase = "menu" => phase' = "menu"
    BY <1>7 DEF LoadConfig, CheckFirstBoot, AskMode, AskAddress, AskCalibration, FinishWizard,
                OpenSocket, StartRadio, Calibrate, FinishCalibration, ApplyBest, Arm, Lock, LoopReceive,
                PcSwitch, PcTalk, At, vars
  <2>3. UNCHANGED <<list, selection, wanted, dirty>>
    BY <2>1 DEF lists
  <2>4. selection' \in 0 .. Len(list')
    BY <2>3 DEF CursorInv
  <2>5. phase' # "menu" => selection' = 0
    <3>1. phase # "menu" => selection = 0
      BY DEF CursorInv
    <3>2. selection' = selection
      BY <2>3
    <3> QED BY <2>2, <3>1, <3>2
  <2>6. wanted' \in [Ips -> Nat] /\ dirty' \in BOOLEAN
    BY <2>3 DEF CursorInv
  <2> QED BY <2>4, <2>5, <2>6 DEF CursorInv
<1> QED BY <1>2, <1>3, <1>4, <1>5, <1>6, <1>7 DEF Next

LEMMA NothingWaits == <<>> \in Seq(Hosts) /\ Len(<<>>) <= SocketCap
<1>1. SocketCap \in Nat /\ Len(<<>>) = 0
  BY BackhaulAssumption
<1> QED BY <1>1

LEMMA SocketInit == Init => BackhaulTypeOK
BY WiiConfigAssumption, NothingWaits DEF Init, BackhaulTypeOK

LEMMA SocketNext == ConfigInv /\ BackhaulTypeOK /\ [Next]_vars => BackhaulTypeOK'
<1> SUFFICES ASSUME ConfigInv, BackhaulTypeOK, [Next]_vars PROVE BackhaulTypeOK'
  OBVIOUS
<1>0. /\ socket \in Seq(Hosts) /\ Len(socket) \in Nat /\ Len(socket) <= SocketCap /\ pc \in Ips
      /\ talking \subseteq Hosts /\ moved \in BOOLEAN
      /\ Hosts \subseteq Ips /\ SocketCap \in Nat \ {0} /\ DefaultIp \in Ips
  BY WiiConfigAssumption, BackhaulAssumption, LenProperties DEF BackhaulTypeOK
<1>1. ASSUME socket' = <<>>, pc' \in Ips, talking' = talking \/ talking' = {}, moved' = FALSE
      PROVE  BackhaulTypeOK'
  BY <1>0, <1>1, NothingWaits DEF BackhaulTypeOK
<1>2. CASE SwitchOff \/ PowerCutInWizard \/ PowerCutInMenu
  <2>1. socket' = <<>> /\ pc' = DefaultIp /\ talking' = {} /\ moved' = FALSE
    BY <1>2 DEF SwitchOff, PowerCutInWizard, PowerCutInMenu, Forget
  <2> QED BY <1>0, <1>1, <2>1
<1>3. CASE OpenSocket
  <2>1. cfg.ip \in Ips
    BY DEF ConfigInv, Typed, Configs
  <2> QED BY <1>1, <1>3, <2>1 DEF OpenSocket, BackhaulInit
<1>4. CASE LoopReceive
  <2>1. socket # <<>> /\ pc' = Head(socket) /\ moved' = TRUE /\ socket' = Tail(socket) /\ talking' = talking
    BY <1>4 DEF LoopReceive, Receive
  <2>2. Head(socket) \in Hosts /\ Tail(socket) \in Seq(Hosts) /\ Len(Tail(socket)) = Len(socket) - 1
    BY <1>0, <2>1, HeadTailProperties
  <2>3. Len(socket') <= SocketCap
    BY <1>0, <2>1, <2>2
  <2> QED BY <1>0, <2>1, <2>2, <2>3 DEF BackhaulTypeOK
<1>5. ASSUME NEW ip \in Ips, MenuChoose(ip) PROVE BackhaulTypeOK'
  BY <1>0, <1>5 DEF MenuChoose, Reconnect, BackhaulTypeOK
<1>6. ASSUME NEW p \in Hosts, PcSwitch(p) PROVE BackhaulTypeOK'
  <2>1. UNCHANGED <<pc, socket, moved>> /\ talking' \subseteq Hosts
    BY <1>0, <1>6 DEF PcSwitch, Switch
  <2> QED BY <1>0, <2>1 DEF BackhaulTypeOK
<1>7. ASSUME NEW p \in Hosts, PcTalk(p) PROVE BackhaulTypeOK'
  <2>1. /\ Len(socket) < SocketCap /\ socket' = Append(socket, p)
        /\ UNCHANGED <<pc, talking, moved>>
    BY <1>7 DEF PcTalk, Talk
  <2>2. socket' \in Seq(Hosts) /\ Len(socket') = Len(socket) + 1
    BY <1>0, <2>1, AppendProperties
  <2>3. Len(socket') <= SocketCap
    BY <1>0, <2>1, <2>2
  <2> QED BY <1>0, <2>1, <2>2, <2>3 DEF BackhaulTypeOK
<1>8. CASE \/ LoadConfig \/ CheckFirstBoot \/ AskMode \/ AskAddress \/ AskCalibration \/ FinishWizard
           \/ LoadList \/ StartRadio \/ Calibrate \/ FinishCalibration \/ ApplyBest
           \/ Arm \/ Lock \/ OpenMenu \/ MenuMove \/ MenuCancel \/ UNCHANGED vars
  <2>1. UNCHANGED backhaul
    BY <1>8 DEF LoadConfig, CheckFirstBoot, AskMode, AskAddress, AskCalibration, FinishWizard,
                LoadList, StartRadio, Calibrate, FinishCalibration, ApplyBest, Arm, Lock, OpenMenu,
                MenuMove, MenuCancel, vars
  <2> QED BY <1>0, <2>1 DEF backhaul, BackhaulTypeOK
<1> QED BY <1>2, <1>3, <1>4, <1>5, <1>6, <1>7, <1>8 DEF Next

(***************************************************************************)
(* The benchmark's arithmetic: the times have a k-th smallest, so a score  *)
(* is a number and there is a first of the lowest.                         *)
(***************************************************************************)
LEMMA UpperBound ==
  ASSUME NEW times \in Seq(Nat)
  PROVE  \E b \in Nat : \A i \in 1 .. Len(times) : times[i] <= b
<1> DEFINE N == Len(times)
           S == {n \in 0 .. N : \E b \in Nat : \A i \in 1 .. n : times[i] <= b}
<1>0. N \in Nat /\ \A i \in 1 .. N : times[i] \in Nat
  BY LenProperties, ElementOfSeq
<1> HIDE DEF N
<1>1. 0 \in S
  BY <1>0
<1>2. ASSUME NEW n \in 1 .. N, n - 1 \in S PROVE n \in S
  <2>1. PICK b \in Nat : \A i \in 1 .. n - 1 : times[i] <= b
    BY <1>2
  <2>2. PICK c \in Nat : c >= b /\ c >= times[n]
    <3>1. times[n] \in Nat
      BY <1>0
    <3>2. CASE b >= times[n]
      BY <3>1, <3>2
    <3>3. CASE ~(b >= times[n])
      BY <3>1, <3>3
    <3> QED BY <3>2, <3>3
  <2>3. ASSUME NEW i \in 1 .. n PROVE times[i] <= c
    <3>1. times[i] \in Nat
      BY <1>0
    <3>2. CASE i = n
      BY <2>2, <3>2
    <3>3. CASE i # n
      <4>1. i \in 1 .. n - 1
        BY <3>3
      <4> QED BY <2>1, <2>2, <3>1, <4>1
    <3> QED BY <3>2, <3>3
  <2>4. n \in 0 .. N
    BY <1>0
  <2> QED BY <2>3, <2>4
<1>3. 0 .. N \subseteq S
  <2> HIDE DEF S
  <2> QED BY <1>0, <1>1, <1>2, InductionUpTo
<1>4. N \in 0 .. N
  BY <1>0
<1> QED BY <1>3, <1>4 DEF N

LEMMA FirstNumbers == \A n \in Nat : IsFiniteSet(1 .. n) /\ Cardinality(1 .. n) = n
BY FS_Interval

LEMMA RankedIs ==
  ASSUME NEW times \in Seq(Nat), NEW k \in Nat, k < Len(times)
  PROVE  Ranked(times, k) \in Nat
<1> DEFINE D == 1 .. Len(times)
           UpTo(t) == {i \in D : times[i] <= t}
           T == {t \in Nat : k < Cardinality(UpTo(t))}
<1>0. /\ Len(times) \in Nat /\ DOMAIN times = D /\ \A i \in D : times[i] \in Nat
  BY LenProperties, ElementOfSeq
<1>1. IsFiniteSet(D) /\ Cardinality(D) = Len(times)
  BY <1>0, FirstNumbers
<1>2. \A S \in SUBSET D : IsFiniteSet(S) /\ Cardinality(S) \in Nat
  BY <1>1, FS_Subset, FS_CardinalityType
<1>3. T # {}
  <2>1. PICK b \in Nat : \A i \in D : times[i] <= b
    BY UpperBound
  <2>2. UpTo(b) = D
    BY <2>1
  <2> HIDE DEF D
  <2> QED BY <1>1, <2>2
<1>4. PICK m \in T : \A t \in T : m <= t
  <2> HIDE DEF T
  <2>1. T \subseteq Nat
    BY DEF T
  <2> QED BY <1>3, <2>1, LeastNat
<1>5. PICK less \in SUBSET D : less = {i \in D : times[i] < m}
  OBVIOUS
<1>6. Cardinality(less) <= k
  <2>1. CASE m = 0
    <3>1. \A i \in D : ~(times[i] < 0)
      BY <1>0
    <3>2. less = {}
      BY <1>5, <2>1, <3>1
    <3> QED BY <3>2, FS_EmptySet
  <2>2. CASE m # 0
    <3>1. m \in Nat /\ m - 1 \in Nat
      BY <2>2
    <3>2. \A i \in D : times[i] < m <=> times[i] <= m - 1
      BY <1>0, <3>1
    <3>3. less = UpTo(m - 1)
      BY <1>5, <3>2
    <3>4. m - 1 \notin T
      BY <1>4, <3>1
    <3>5. ~(k < Cardinality(less))
      BY <3>1, <3>3, <3>4
    <3>6. PICK c \in Nat : c = Cardinality(less)
      BY <1>2
    <3> QED BY <3>5, <3>6
  <2> QED BY <2>1, <2>2
<1>7. m \in Nat /\ k < Cardinality(UpTo(m))
  OBVIOUS
<1>8. \E i \in D : times[i] = m
  <2>1. SUFFICES ASSUME \A i \in D : times[i] # m PROVE FALSE
    OBVIOUS
  <2>2. \A i \in D : times[i] < m <=> times[i] <= m
    BY <1>0, <1>7, <2>1
  <2>3. less = UpTo(m)
    BY <1>5, <2>2
  <2>4. PICK c \in Nat : c = Cardinality(less)
    BY <1>2
  <2> QED BY <1>6, <1>7, <2>3, <2>4
<1>9. m \in ToSet(times)
  BY <1>0, <1>8 DEF ToSet
<1>10. /\ Cardinality({i \in DOMAIN times : times[i] < m}) <= k
       /\ k < Cardinality({i \in DOMAIN times : times[i] <= m})
  BY <1>0, <1>5, <1>6, <1>7
<1>11. Ranked(times, k) \in ToSet(times)
  BY <1>9, <1>10 DEF Ranked
<1> QED BY <1>0, <1>11 DEF ToSet

LEMMA ScoreIs ==
  ASSUME NEW times \in Seq(Rtts), NEW n \in Nat \ {0}, Len(times) <= n
  PROVE  Score(times, n) \in Nat
<1>0. PICK count \in Nat : count = Len(times) /\ count <= n
  BY LenProperties
<1>1. times \in Seq(Nat)
  BY CalibAssumption, SeqMonotonic
<1>2. PICK p95 \in Nat : p95 = (count * 95) \div 100
  BY <1>0
<1>3. PICK loss \in Nat : loss = ((n - count) * 1000) \div n
  <2>1. ((n - count) * 1000) \div n \in Nat
    BY <1>0
  <2> QED BY <2>1
<1>4. CASE count # 0
  <2>1. PICK h \in Nat : h = (IF p95 >= count THEN count - 1 ELSE p95) /\ h < count
    BY <1>2, <1>4
  <2>2. PICK m \in Nat : m = count \div 2 /\ m < count
    BY <1>4
  <2>3. PICK high \in Nat, mid \in Nat : high = Ranked(times, h) /\ mid = Ranked(times, m)
    BY <1>0, <1>1, <2>1, <2>2, RankedIs
  <2>4. Score(times, n) = (high * 50) \div 100 + (mid * 30) \div 100 + loss * 200
    BY <1>0, <1>2, <1>3, <1>4, <2>1, <2>2, <2>3 DEF Score
  <2>5. (high * 50) \div 100 + (mid * 30) \div 100 + loss * 200 \in Nat
    OBVIOUS
  <2> QED BY <2>4, <2>5
<1>5. CASE count = 0
  BY <1>0, <1>5 DEF Score, NoScore
<1> QED BY <1>4, <1>5

LEMMA ChooseIs ==
  ASSUME scores \in Seq(Nat), NEW channels \in Seq(1 .. 11), Len(scores) = Len(channels)
  PROVE  Choose(channels) = 0 \/ Choose(channels) \in 1 .. 11
<1> DEFINE D == 1 .. Len(scores)
           V == {scores[i] : i \in D}
<1>0. DOMAIN scores = D /\ \A i \in D : scores[i] \in Nat /\ channels[i] \in 1 .. 11
  BY LenProperties, ElementOfSeq
<1>1. CASE ~\A i \in DOMAIN scores : scores[i] = NoScore
  <2>1. V \subseteq Nat /\ V # {} /\ D \subseteq Nat
    BY <1>0, <1>1
  <2>2. PICK v \in V : \A w \in V : v <= w
    <3> HIDE DEF V
    <3> QED BY <2>1, LeastNat
  <2>3. PICK I \in SUBSET D : I = {i \in D : scores[i] = v}
    OBVIOUS
  <2>4. PICK i \in I : \A j \in I : i <= j
    <3>1. I # {} /\ I \subseteq Nat
      BY <2>1, <2>2, <2>3
    <3> QED BY <3>1, LeastNat
  <2>5. \A j \in D : scores[i] <= scores[j]
    BY <2>2, <2>3, <2>4
  <2>6. ASSUME NEW j \in 1 .. i - 1 PROVE scores[i] < scores[j]
    <3>1. i \in D /\ i \in Nat
      BY <2>1, <2>3, <2>4
    <3>2. j \in D /\ ~(i <= j)
      BY <3>1
    <3>3. scores[j] # scores[i]
      BY <2>3, <2>4, <3>2
    <3> QED BY <1>0, <2>5, <3>1, <3>2, <3>3
  <2>7. \E x \in DOMAIN scores : /\ \A j \in DOMAIN scores : scores[x] <= scores[j]
                                 /\ \A j \in 1 .. x - 1 : scores[x] < scores[j]
    BY <1>0, <2>3, <2>4, <2>5, <2>6
  <2>8. \E x \in D : Choose(channels) = channels[x]
    BY <1>0, <1>1, <2>7 DEF Choose
  <2> QED BY <1>0, <2>8
<1> QED BY <1>1 DEF Choose

(***************************************************************************)
(* The benchmark.  How far it is, and what was sent, say the number of     *)
(* scores and of probes since; the radio is on the candidate's channel.    *)
(***************************************************************************)
ProbesInv ==
  /\ Len(scores) <= candidate /\ candidate <= Len(scores) + 1
  /\ candidate = Len(scores) => token = None /\ sent = 0 /\ rtts = <<>>
  /\ candidate # Len(scores) => heard <= sent
  /\ seq = Len(scores) * Probes + sent
  /\ token # None => sent > 0 /\ Len(rtts) < sent

Before == {"off", "config", "lists", "backhaul", "radio"} \cup Wizard

ChannelInv ==
  /\ phase \in Before \cup {"loop", "menu"} => candidate = 0 /\ best = 0
  /\ phase = "calib" =>
       /\ best = 0 /\ cfg.auto /\ candidate <= Len(cfg.channels)
       /\ txChannel = IF candidate = 0 THEN cfg.channel ELSE cfg.channels[candidate]
  /\ phase = "apply" =>
       cfg.auto /\ txChannel = IF best = 0 THEN Last(cfg.channels) ELSE best
  /\ phase \in {"loop", "menu"} =>
       \/ cfg.channel = txChannel
       \/ cfg.auto /\ txChannel = Last(cfg.channels)

CalibInv == CalibTypeOK /\ ProbesInv /\ ChannelInv

\* The state outside the benchmark.
LEMMA CalibRest ==
  ASSUME candidate = 0, token = None, sent = 0, seq = 0, rtts = <<>>, scores = <<>>, slot = None,
         heard = 0, best = 0, txChannel \in 1 .. 11
  PROVE  CalibTypeOK /\ ProbesInv
<1>1. /\ <<>> \in Seq(Nat) /\ <<>> \in Seq(Rtts) /\ Len(<<>>) = 0 /\ Probes \in 1 .. 64
      /\ 0 \in 0 .. 11 /\ 0 \in Nat
  BY CalibAssumption
<1>2. 0 \in 0 .. Probes /\ 0 * Probes + 0 = 0
  BY <1>1
<1>3. CalibTypeOK
  BY <1>1, <1>2 DEF CalibTypeOK
<1>4. ProbesInv
  BY <1>1, <1>2 DEF ProbesInv
<1> QED BY <1>3, <1>4

LEMMA CalibRestNext ==
  ASSUME CalibOver, txChannel' \in 1 .. 11
  PROVE  CalibTypeOK' /\ ProbesInv'
<1>1. /\ <<>> \in Seq(Nat) /\ <<>> \in Seq(Rtts) /\ Len(<<>>) = 0 /\ Probes \in 1 .. 64
      /\ 0 \in 0 .. 11 /\ 0 \in Nat
  BY CalibAssumption
<1>2. 0 \in 0 .. Probes /\ 0 * Probes + 0 = 0
  BY <1>1
<1>3. CalibTypeOK'
  BY <1>1, <1>2 DEF CalibOver, CalibTypeOK
<1>4. ProbesInv'
  BY <1>1, <1>2 DEF CalibOver, ProbesInv
<1> QED BY <1>3, <1>4

\* A channel is given to the radio.
LEMMA ChannelSet ==
  ASSUME txChannel \in 1 .. 11, NEW ch, SetChannel(ch)
  PROVE  txChannel' \in 1 .. 11 /\ (ch \in 1 .. 11 => txChannel' = ch) /\ (ch = 0 => txChannel' = txChannel)
BY DEF SetChannel

LEMMA CandidateChannel ==
  ASSUME NEW channels \in Seq(1 .. 11), NEW i \in 1 .. Len(channels)
  PROVE  channels[i] \in 1 .. 11
BY ElementOfSeq

\* A step of the benchmark.
LEMMA ProbesStep ==
  ASSUME CalibTypeOK, ProbesInv, NEW channels \in Seq(1 .. 11), Len(channels) \in 1 .. 11,
         candidate <= Len(channels),
         \/ NextCandidate(channels) \/ SendPing(channels) \/ Pong \/ Timeout \/ FinalizeMetric
  PROVE  CalibTypeOK' /\ ProbesInv'
<1>0. /\ txChannel \in 1 .. 11 /\ candidate \in 0 .. 11 /\ candidate \in Nat
      /\ token \in Tokens \cup {None} /\ slot \in Tokens \cup {None}
      /\ sent \in 0 .. Probes /\ sent \in Nat /\ seq \in Nat /\ scores \in Seq(Nat)
      /\ rtts \in Seq(Rtts) /\ heard \in 0 .. Probes /\ heard \in Nat /\ best \in 0 .. 11
      /\ Probes \in 1 .. 64 /\ Probes \in Nat
  BY CalibAssumption DEF CalibTypeOK
<1>1. PICK L \in Nat, R \in Nat : /\ L = Len(scores) /\ R = Len(rtts) /\ R <= sent
                                  /\ L <= candidate /\ candidate <= L + 1
                                  /\ seq = L * Probes + sent
  BY <1>0, LenProperties DEF CalibTypeOK, ProbesInv
<1>2. /\ candidate = L => token = None /\ sent = 0 /\ rtts = <<>>
      /\ candidate # L => heard <= sent
      /\ token # None => sent > 0 /\ R < sent
  BY <1>1 DEF ProbesInv
<1>3. CASE NextCandidate(channels)
  <2>1. /\ candidate < Len(channels) /\ candidate' = candidate + 1 /\ heard' = 0 /\ candidate = L
        /\ UNCHANGED <<token, sent, seq, rtts, scores, slot, best>>
        /\ SetChannel(channels[candidate + 1])
    BY <1>1, <1>3 DEF NextCandidate
  <2>2. txChannel' \in 1 .. 11
    BY <1>0, <2>1, ChannelSet
  <2>3. candidate' \in 0 .. 11 /\ 0 \in 0 .. Probes
    <3>1. PICK n \in Nat : n = Len(channels) /\ n <= 11
      BY NumberOfEleven
    <3>2. PICK c \in Nat : c = candidate' /\ c <= 11
      BY <1>0, <2>1, <3>1
    <3>3. 0 \in 0 .. Probes
      BY <1>0
    <3> QED BY <3>2, <3>3, FromZero
  <2>4. CalibTypeOK'
    BY <1>0, <1>1, <2>1, <2>2, <2>3 DEF CalibTypeOK
  <2>5. ProbesInv'
    BY <1>0, <1>1, <1>2, <2>1 DEF ProbesInv
  <2> QED BY <2>4, <2>5
<1>4. CASE SendPing(channels)
  <2>1. /\ candidate > L /\ token = None /\ sent < Probes
        /\ token' = <<channels[candidate], sent, seq % 256>>
        /\ sent' = sent + 1 /\ seq' = seq + 1
        /\ \/ slot' = token' /\ heard' = heard + 1
           \/ UNCHANGED <<slot, heard>>
        /\ UNCHANGED <<txChannel, candidate, rtts, scores, best>>
    BY <1>1, <1>4 DEF SendPing
  <2>2. token' \in Tokens
    <3>1. candidate \in 1 .. Len(channels)
      BY <1>0, <1>1, <2>1
    <3>2. channels[candidate] \in 1 .. 11
      BY <3>1, CandidateChannel
    <3>3. sent \in 0 .. Probes - 1 /\ seq % 256 \in 0 .. 255
      BY <1>0, <2>1
    <3> QED BY <2>1, <3>2, <3>3 DEF Tokens
  <2>3. sent' \in 0 .. Probes /\ seq' \in Nat /\ R <= sent' /\ heard' \in 0 .. Probes /\ heard' <= sent'
    <3>1. PICK p \in Nat, h \in Nat : p = Probes /\ h = heard /\ h <= sent /\ sent < p
      BY <1>0, <1>1, <1>2, <2>1
    <3>2. sent' \in Nat /\ sent' <= p /\ seq' \in Nat /\ R <= sent'
      BY <1>0, <1>1, <2>1, <3>1
    <3>3. heard' \in Nat /\ heard' <= p /\ heard' <= sent'
      BY <1>0, <2>1, <3>1
    <3> QED BY <3>1, <3>2, <3>3, FromZero
  <2>4. seq' = L * Probes + sent'
    <3>1. PICK m \in Nat : m = L * Probes
      BY <1>0
    <3> QED BY <1>0, <1>1, <2>1, <3>1
  <2>5. slot' \in Tokens \cup {None}
    BY <1>0, <2>1, <2>2
  <2>6. CalibTypeOK'
    BY <1>0, <1>1, <2>1, <2>2, <2>3, <2>5 DEF CalibTypeOK
  <2>7. ProbesInv'
    BY <1>0, <1>1, <2>1, <2>3, <2>4 DEF ProbesInv
  <2> QED BY <2>6, <2>7
<1>5. CASE Pong
  <2>1. /\ slot # None /\ slot' = None
        /\ UNCHANGED <<txChannel, candidate, sent, seq, scores, heard, best>>
    BY <1>5 DEF Pong
  <2>2. CASE UNCHANGED <<token, rtts>>
    <3>1. CalibTypeOK'
      BY <1>0, <1>1, <2>1, <2>2 DEF CalibTypeOK
    <3>2. ProbesInv'
      BY <1>0, <1>1, <1>2, <2>1, <2>2 DEF ProbesInv
    <3> QED BY <3>1, <3>2
  <2>3. ASSUME NEW t \in Rtts, slot = token, token' = None, rtts' = Append(rtts, t)
        PROVE  CalibTypeOK' /\ ProbesInv'
    <3>1. rtts' \in Seq(Rtts) /\ Len(rtts') = R + 1
      BY <1>0, <1>1, <2>3, AppendProperties
    <3>2. token # None /\ candidate # L /\ R < sent /\ R + 1 <= sent
      BY <1>0, <1>1, <1>2, <2>1, <2>3
    <3>3. CalibTypeOK'
      BY <1>0, <1>1, <2>1, <2>3, <3>1, <3>2 DEF CalibTypeOK
    <3>4. ProbesInv'
      BY <1>0, <1>1, <1>2, <2>1, <2>3, <3>2 DEF ProbesInv
    <3> QED BY <3>3, <3>4
  <2> QED BY <1>5, <2>2, <2>3 DEF Pong
<1>6. CASE Timeout
  <2>1. /\ token # None /\ token' = None
        /\ UNCHANGED <<txChannel, candidate, sent, seq, rtts, scores, slot, heard, best>>
    BY <1>6 DEF Timeout
  <2>2. CalibTypeOK'
    BY <1>0, <1>1, <2>1 DEF CalibTypeOK
  <2>3. ProbesInv'
    BY <1>0, <1>1, <1>2, <2>1 DEF ProbesInv
  <2> QED BY <2>2, <2>3
<1>7. CASE FinalizeMetric
  <2>1. /\ candidate > L /\ token = None /\ sent > 0 /\ (sent >= Probes \/ sent >= 64)
        /\ scores' = Append(scores, Score(rtts, sent)) /\ sent' = 0 /\ rtts' = <<>>
        /\ UNCHANGED <<txChannel, candidate, token, seq, slot, heard, best>>
    BY <1>1, <1>7 DEF FinalizeMetric
  <2>2. PICK score \in Nat : score = Score(rtts, sent)
    BY <1>0, <1>1, <2>1, ScoreIs
  <2>3. scores' \in Seq(Nat) /\ Len(scores') = L + 1
    BY <1>0, <1>1, <2>1, <2>2, AppendProperties
  <2>4. candidate = L + 1 /\ sent = Probes
    BY <1>0, <1>1, <2>1
  <2>5. seq = (L + 1) * Probes + 0
    <3>1. (L + 1) * Probes = L * Probes + Probes
      BY <1>0
    <3> QED BY <1>0, <1>1, <2>4, <3>1
  <2>6. /\ <<>> \in Seq(Rtts) /\ Len(<<>>) = 0 /\ 0 \in 0 .. Probes
    BY <1>0
  <2>7. CalibTypeOK'
    BY <1>0, <2>1, <2>3, <2>4, <2>6 DEF CalibTypeOK
  <2>8. ProbesInv'
    BY <1>0, <2>1, <2>3, <2>4, <2>5 DEF ProbesInv
  <2> QED BY <2>7, <2>8
<1> QED BY <1>3, <1>4, <1>5, <1>6, <1>7

LEMMA CalibUnchanged ==
  ASSUME CalibTypeOK, ProbesInv, UNCHANGED <<calib, txChannel>>
  PROVE  CalibTypeOK' /\ ProbesInv'
<1>1. UNCHANGED <<txChannel, candidate, token, sent, seq, rtts, scores, slot, heard, best>>
  BY DEF calib
<1>2. CalibTypeOK'
  BY <1>1 DEF CalibTypeOK
<1>3. ProbesInv'
  BY <1>1 DEF ProbesInv
<1> QED BY <1>2, <1>3

LEMMA CalibInit == Init => CalibInv
<1> SUFFICES ASSUME Init PROVE CalibInv
  OBVIOUS
<1>1. txChannel \in 1 .. 11
  BY DEF Init
<1>2. CalibTypeOK /\ ProbesInv
  BY <1>1, CalibRest DEF Init, CalibIdle
<1>3. ChannelInv
  BY DEF Init, CalibIdle, ChannelInv
<1> QED BY <1>2, <1>3 DEF CalibInv

LEMMA CalibNext == ConfigInv /\ CalibInv /\ [Next]_vars => CalibInv'
<1> SUFFICES ASSUME ConfigInv, CalibInv, [Next]_vars PROVE CalibInv'
  OBVIOUS
<1>0. /\ CalibTypeOK /\ ProbesInv /\ ChannelInv /\ txChannel \in 1 .. 11
      /\ cfg \in Configs /\ Len(cfg.channels) \in 1 .. 11
      /\ cfg.channel \in 1 .. 11 /\ cfg.channels \in Seq(1 .. 11)
  BY DEF CalibInv, CalibTypeOK, ConfigInv, Typed, Configs
<1>1. CASE SwitchOff \/ PowerCutInWizard \/ PowerCutInMenu
  <2>1. phase' = "off" /\ txChannel' = 1 /\ CalibOver
    BY <1>1 DEF SwitchOff, PowerCutInWizard, PowerCutInMenu, Forget
  <2>2. CalibTypeOK' /\ ProbesInv'
    BY <2>1, CalibRestNext
  <2>3. ChannelInv'
    BY <2>1 DEF CalibOver, ChannelInv
  <2> QED BY <2>2, <2>3 DEF CalibInv
<1>2. CASE \/ LoadConfig \/ CheckFirstBoot \/ AskMode \/ AskAddress \/ AskCalibration
           \/ FinishWizard \/ LoadList \/ OpenSocket
  <2>1. UNCHANGED <<calib, txChannel>>
    BY <1>2 DEF LoadConfig, CheckFirstBoot, AskMode, AskAddress, AskCalibration, FinishWizard,
                LoadList, OpenSocket
  <2>2. phase \in Before /\ phase' \in Before
    BY <1>2 DEF LoadConfig, CheckFirstBoot, AskMode, AskAddress, AskCalibration, FinishWizard,
                LoadList, OpenSocket, At, Before, Wizard
  <2>3. phase' \notin {"calib", "apply", "loop", "menu"}
    BY <2>2 DEF Before, Wizard
  <2>4. candidate' = 0 /\ best' = 0
    BY <1>0, <2>1, <2>2 DEF calib, ChannelInv
  <2>5. ChannelInv'
    BY <2>3, <2>4 DEF ChannelInv
  <2> QED BY <1>0, <2>1, <2>5, CalibUnchanged DEF CalibInv
<1>3. CASE StartRadio
  <2>1. /\ phase = "radio" /\ phase' = (IF cfg.auto THEN "calib" ELSE "loop")
        /\ UNCHANGED <<cfg, candidate, token, sent, seq, rtts, scores, slot, heard, best>>
        /\ SetChannel(cfg.channel)
    BY <1>3 DEF StartRadio, calib
  <2>2. txChannel' = cfg.channel
    BY <1>0, <2>1, ChannelSet
  <2>3. candidate = 0 /\ best = 0
    BY <1>0, <2>1 DEF ChannelInv, Before
  <2>4. CalibTypeOK'
    BY <1>0, <2>1, <2>2 DEF CalibTypeOK
  <2>5. ProbesInv'
    BY <1>0, <2>1 DEF ProbesInv
  <2>6. 0 <= Len(cfg.channels)
    BY <1>0, LenProperties
  <2>7. ChannelInv'
    BY <2>1, <2>2, <2>3, <2>6 DEF ChannelInv, Before, Wizard
  <2> QED BY <2>4, <2>5, <2>7 DEF CalibInv
<1>4. CASE Calibrate
  <2>1. /\ phase = "calib" /\ phase' = phase /\ cfg' = cfg
        /\ \/ NextCandidate(cfg.channels) \/ SendPing(cfg.channels) \/ Pong
           \/ Timeout \/ FinalizeMetric
    BY <1>4 DEF Calibrate
  <2>2. /\ best = 0 /\ cfg.auto /\ candidate <= Len(cfg.channels)
        /\ txChannel = IF candidate = 0 THEN cfg.channel ELSE cfg.channels[candidate]
    BY <1>0, <2>1 DEF ChannelInv
  <2>3. CalibTypeOK' /\ ProbesInv'
    BY <1>0, <2>1, <2>2, ProbesStep
  <2>4. /\ best' = best /\ candidate' <= Len(cfg.channels)
        /\ txChannel' = IF candidate' = 0 THEN cfg.channel ELSE cfg.channels[candidate']
    <3>1. CASE NextCandidate(cfg.channels)
      <4>1. /\ candidate < Len(cfg.channels) /\ candidate' = candidate + 1 /\ best' = best
            /\ SetChannel(cfg.channels[candidate + 1])
        BY <3>1 DEF NextCandidate
      <4>2. PICK c \in Nat, n \in Nat : c = candidate /\ n = Len(cfg.channels)
        BY <1>0, LenProperties DEF CalibTypeOK
      <4>3. c + 1 \in 1 .. n /\ c + 1 # 0 /\ c + 1 <= n
        BY <4>1, <4>2
      <4>4. cfg.channels[c + 1] \in 1 .. 11
        BY <1>0, <4>2, <4>3, CandidateChannel
      <4>5. txChannel' = cfg.channels[c + 1]
        BY <1>0, <4>1, <4>2, <4>4, ChannelSet
      <4> QED BY <4>1, <4>2, <4>3, <4>5
    <3>2. CASE SendPing(cfg.channels) \/ Pong \/ Timeout \/ FinalizeMetric
      <4>1. UNCHANGED <<txChannel, candidate, best>>
        BY <3>2 DEF SendPing, Pong, Timeout, FinalizeMetric
      <4> QED BY <2>2, <4>1
    <3> QED BY <2>1, <3>1, <3>2
  <2>5. ChannelInv'
    BY <2>1, <2>2, <2>4 DEF ChannelInv, Before, Wizard
  <2> QED BY <2>3, <2>5 DEF CalibInv
<1>5. CASE FinishCalibration
  <2>1. /\ phase = "calib" /\ phase' = "apply" /\ cfg' = cfg
        /\ candidate = Len(cfg.channels) /\ Len(scores) = candidate
        /\ best' = Choose(cfg.channels) /\ SetChannel(best')
        /\ UNCHANGED <<candidate, token, sent, seq, rtts, scores, slot, heard>>
    BY <1>5 DEF FinishCalibration, At, SelectBest
  <2>2. best' = 0 \/ best' \in 1 .. 11
    BY <1>0, <2>1, ChooseIs DEF CalibTypeOK
  <2>3. txChannel' \in 1 .. 11 /\ txChannel' = IF best' = 0 THEN txChannel ELSE best'
    BY <1>0, <2>1, <2>2, ChannelSet
  <2>4. cfg.auto /\ txChannel = Last(cfg.channels)
    <3>1. candidate # 0
      BY <1>0, <2>1, NumberOfEleven
    <3> QED BY <1>0, <2>1, <3>1 DEF ChannelInv, Last
  <2>5. best' \in 0 .. 11
    BY <2>2
  <2>6. CalibTypeOK'
    BY <1>0, <2>1, <2>3, <2>5 DEF CalibTypeOK
  <2>7. ProbesInv'
    BY <1>0, <2>1 DEF ProbesInv
  <2>8. ChannelInv'
    BY <2>1, <2>3, <2>4 DEF ChannelInv, Before, Wizard
  <2> QED BY <2>6, <2>7, <2>8 DEF CalibInv
<1>6. CASE ApplyBest
  <2>1. /\ phase = "apply" /\ phase' = "loop" /\ CalibOver /\ txChannel' = txChannel
        /\ cfg' = IF best \in 1 .. 11 THEN [cfg EXCEPT !.channel = best] ELSE cfg
    BY <1>6 DEF ApplyBest, At
  <2>2. cfg.auto /\ txChannel = IF best = 0 THEN Last(cfg.channels) ELSE best
    BY <1>0, <2>1 DEF ChannelInv
  <2>3. best = 0 \/ best \in 1 .. 11
    BY <1>0 DEF CalibTypeOK
  <2>4. \/ cfg'.channel = txChannel
        \/ cfg' = cfg /\ txChannel = Last(cfg.channels)
    <3>1. CASE best = 0
      <4>1. best \notin 1 .. 11
        BY <3>1
      <4> QED BY <2>1, <2>2, <3>1, <4>1
    <3>2. CASE best \in 1 .. 11
      <4>1. best # 0
        BY <3>2, NumberOfEleven
      <4> QED BY <1>0, <2>1, <2>2, <3>2, <4>1 DEF Configs
    <3> QED BY <2>3, <3>1, <3>2
  <2>5. CalibTypeOK' /\ ProbesInv'
    BY <1>0, <2>1, CalibRestNext
  <2>6. ChannelInv'
    BY <2>1, <2>2, <2>4 DEF ChannelInv, CalibOver, Before, Wizard
  <2> QED BY <2>5, <2>6 DEF CalibInv
<1>7. ASSUME UNCHANGED <<calib, txChannel>>, phase \in {"loop", "menu"}, phase' \in {"loop", "menu"},
             cfg'.channel = cfg.channel, cfg'.auto = cfg.auto, cfg'.channels = cfg.channels
      PROVE  CalibInv'
  <2>1. ChannelInv'
    BY <1>0, <1>7 DEF ChannelInv, calib, Before, Wizard
  <2> QED BY <1>0, <1>7, <2>1, CalibUnchanged DEF CalibInv
<1>8. CASE Arm \/ Lock \/ LoopReceive \/ OpenMenu \/ MenuMove \/ MenuCancel \/ \E p \in Hosts : PcSwitch(p) \/ PcTalk(p)
  <2>1. UNCHANGED <<calib, txChannel, cfg>>
    BY <1>8 DEF Arm, Lock, LoopReceive, OpenMenu, MenuMove, MenuCancel, PcSwitch, PcTalk
  <2>2. phase \in {"loop", "menu"} /\ phase' \in {"loop", "menu"}
    BY <1>8 DEF Arm, Lock, LoopReceive, OpenMenu, MenuMove, MenuCancel, PcSwitch, PcTalk, At
  <2> QED BY <1>7, <2>1, <2>2
<1>9. ASSUME NEW ip \in Ips, MenuChoose(ip) PROVE CalibInv'
  <2>1. /\ UNCHANGED <<calib, txChannel>> /\ phase = "menu" /\ phase' = "loop"
        /\ cfg' = [cfg EXCEPT !.ip = ip]
    BY <1>9 DEF MenuChoose, At
  <2>2. cfg'.channel = cfg.channel /\ cfg'.auto = cfg.auto /\ cfg'.channels = cfg.channels
    BY <1>0, <2>1 DEF Configs
  <2> QED BY <1>7, <2>1, <2>2
<1>10. CASE UNCHANGED vars
  <2>1. UNCHANGED <<calib, txChannel, cfg, phase>>
    BY <1>10 DEF vars
  <2>2. ChannelInv'
    BY <1>0, <2>1 DEF ChannelInv, calib
  <2> QED BY <1>0, <2>1, <2>2, CalibUnchanged DEF CalibInv
<1> QED BY <1>1, <1>2, <1>3, <1>4, <1>5, <1>6, <1>8, <1>9, <1>10 DEF Next

LEMMA PhaseNext == phase \in Phases /\ armed \in BOOLEAN /\ unsaved \in BOOLEAN /\ [Next]_vars =>
                     phase' \in Phases /\ armed' \in BOOLEAN /\ unsaved' \in BOOLEAN
<1> SUFFICES ASSUME phase \in Phases, armed \in BOOLEAN, unsaved \in BOOLEAN, [Next]_vars
             PROVE  phase' \in Phases /\ armed' \in BOOLEAN /\ unsaved' \in BOOLEAN
  OBVIOUS
<1>1. phase' \in Phases
  BY DEF Next, SwitchOff, PowerCutInWizard, PowerCutInMenu, Forget, LoadConfig, CheckFirstBoot,
         AskMode, AskAddress, AskCalibration, FinishWizard, LoadList, OpenSocket, StartRadio,
         Calibrate, FinishCalibration, ApplyBest, Arm, Lock, LoopReceive, OpenMenu, MenuMove, MenuCancel,
         MenuChoose, PcSwitch, PcTalk, At, Phases, Wizard, vars
<1>2. unsaved' \in BOOLEAN
  BY DEF Next, SwitchOff, PowerCutInWizard, PowerCutInMenu, Forget, LoadConfig, CheckFirstBoot,
         AskMode, AskAddress, AskCalibration, FinishWizard, LoadList, OpenSocket, StartRadio,
         Calibrate, FinishCalibration, ApplyBest, Arm, Lock, LoopReceive, OpenMenu, MenuMove, MenuCancel,
         MenuChoose, PcSwitch, PcTalk, vars
<1>3. armed' \in BOOLEAN
  BY DEF Next, SwitchOff, PowerCutInWizard, PowerCutInMenu, Forget, LoadConfig, CheckFirstBoot,
         AskMode, AskAddress, AskCalibration, FinishWizard, LoadList, OpenSocket, StartRadio,
         Calibrate, FinishCalibration, ApplyBest, Arm, Lock, LoopReceive, OpenMenu, MenuMove, MenuCancel,
         MenuChoose, PcSwitch, PcTalk, vars
<1> QED BY <1>1, <1>2, <1>3

\* Whatever stands in the files (config_ui.c), the configuration is one the
\* program can use, and no choice, list, cursor, socket or benchmark leaves its
\* range (main.c, ip_manager.c, backhaul.c, channel_calib.c).
THEOREM BootTypeCorrect == Spec => []TypeOK
<1> DEFINE Inv == /\ ConfigInv /\ ListInv /\ CursorInv /\ BackhaulTypeOK /\ CalibInv
                  /\ phase \in Phases /\ armed \in BOOLEAN /\ unsaved \in BOOLEAN
<1>1. Init => Inv
  <2>1. Init => phase \in Phases /\ armed \in BOOLEAN /\ unsaved \in BOOLEAN
    BY DEF Init, Phases
  <2> QED BY <2>1, ConfigInit, ListInit, CursorInit, SocketInit, CalibInit
<1>2. Inv /\ [Next]_vars => Inv'
  BY ConfigNext, ListNext, CursorNext, SocketNext, CalibNext, PhaseNext
<1>3. Inv => TypeOK
  <2>1. ConfigInv => ConfigTypeOK
    BY DEF ConfigInv, Typed, Configs, Cards, ConfigTypeOK
  <2>2. ListInv /\ CursorInv => ListTypeOK
    BY DEF ListInv, CursorInv, ListTypeOK
  <2> QED BY <2>1, <2>2 DEF CalibInv, TypeOK
<1> QED BY <1>1, <1>2, <1>3, PTL DEF Spec

(***************************************************************************)
(* The answers that count.  A token holds eight bits of the number of its  *)
(* probe, so an answer the DS kept for long may look like one to a later   *)
(* probe, of the same number on the same channel: not with the 18 probes   *)
(* of the default configuration, nor with any number from 4 to 64 but 32   *)
(* and 64, and with these two only on a hand-written list that names a     *)
(* channel twice, eight or four places apart.                              *)
(***************************************************************************)
NoWrap == \A d \in 1 .. 10 : (d * Probes) % 256 # 0

\* The token is that of the p-th probe on some candidate so far.
Earlier(t) ==
  \E c \in 0 .. Len(scores) : \E p \in Nat :
    /\ t[2] = p /\ t[3] = (c * Probes + p) % 256
    /\ c = Len(scores) => p < sent

AnswersInv ==
  /\ Len(rtts) <= heard
  /\ slot # None => Earlier(slot)
  /\ token # None /\ slot = token => Len(rtts) < heard

\* What two numbers leave is the same only if their difference leaves nothing.
LEMMA SameRemainder ==
  ASSUME NEW a \in Nat, NEW b \in Nat, a < b, a % 256 = b % 256
  PROVE  (b - a) % 256 = 0
OBVIOUS

LEMMA Distinct ==
  ASSUME NoWrap, NEW L \in Nat, L <= 10, NEW c \in Nat, c < L, NEW p \in Nat
  PROVE  (c * Probes + p) % 256 # (L * Probes + p) % 256
<1>0. Probes \in Nat /\ Probes > 0
  BY CalibAssumption
<1>1. PICK d \in Nat : d = L - c /\ d \in 1 .. 10
  OBVIOUS
<1>2. PICK x \in Nat, y \in Nat : x = c * Probes /\ y = d * Probes
  BY <1>0
<1>3. L * Probes = x + y
  <2>1. (c + d) * Probes = c * Probes + d * Probes
    BY <1>0
  <2> QED BY <1>1, <1>2, <2>1
<1>4. y % 256 # 0
  BY <1>1, <1>2 DEF NoWrap
<1>5. y > 0
  BY <1>4
<1>6. SUFFICES ASSUME (x + p) % 256 = ((x + y) + p) % 256 PROVE FALSE
  BY <1>2, <1>3
<1>7. x + p < (x + y) + p /\ ((x + y) + p) - (x + p) = y
  BY <1>5
<1> QED BY <1>4, <1>6, <1>7, SameRemainder

LEMMA AnswersNext ==
  NoWrap /\ ConfigInv /\ CalibInv /\ AnswersInv /\ [Next]_vars => AnswersInv'
<1> SUFFICES ASSUME NoWrap, ConfigInv, CalibInv, AnswersInv, [Next]_vars PROVE AnswersInv'
  OBVIOUS
<1>0. /\ candidate \in 0 .. 11 /\ candidate \in Nat /\ sent \in Nat /\ heard \in Nat
      /\ seq \in Nat /\ scores \in Seq(Nat) /\ rtts \in Seq(Rtts) /\ Probes \in Nat
  BY CalibAssumption DEF CalibInv, CalibTypeOK
<1>1. PICK L \in Nat, R \in Nat : /\ L = Len(scores) /\ R = Len(rtts) /\ L <= candidate
                                  /\ seq = L * Probes + sent /\ R <= heard
                                  /\ candidate = L => rtts = <<>> /\ token = None
  BY <1>0, LenProperties DEF CalibInv, ProbesInv, AnswersInv
<1>2. /\ slot # None => Earlier(slot)
      /\ token # None /\ slot = token => R < heard
  BY <1>1 DEF AnswersInv
<1>3. ASSUME CalibOver PROVE AnswersInv'
  <2>1. rtts' = <<>> /\ Len(<<>>) = 0 /\ heard' = 0 /\ slot' = None /\ token' = None
    BY <1>3 DEF CalibOver
  <2> QED BY <2>1 DEF AnswersInv
<1>4. ASSUME UNCHANGED <<scores, sent, slot, token, rtts, heard>> PROVE AnswersInv'
  BY <1>4 DEF AnswersInv, Earlier
<1>5. CASE Calibrate
  <2>1. CASE NextCandidate(cfg.channels)
    <3>1. /\ candidate = L /\ heard' = 0 /\ UNCHANGED <<scores, sent, slot, token, rtts>>
      BY <1>1, <2>1 DEF NextCandidate
    <3>2. rtts' = <<>> /\ token' = None /\ Len(<<>>) = 0
      BY <1>1, <3>1
    <3>3. Earlier(slot)' <=> Earlier(slot)
      BY <3>1 DEF Earlier
    <3> QED BY <1>2, <3>1, <3>2, <3>3 DEF AnswersInv
  <2>2. CASE SendPing(cfg.channels)
    <3>1. /\ candidate > L /\ token' = <<cfg.channels[candidate], sent, seq % 256>>
          /\ sent' = sent + 1
          /\ \/ slot' = token' /\ heard' = heard + 1
             \/ UNCHANGED <<slot, heard>>
          /\ UNCHANGED <<rtts, scores>>
      BY <1>1, <2>2 DEF SendPing
    <3>2. L <= 10
      BY <1>0, <1>1, <3>1
    <3>3. token'[2] = sent /\ token'[3] = (L * Probes + sent) % 256
      BY <1>1, <3>1
    <3>4. CASE slot' = token' /\ heard' = heard + 1
      <4>1. L \in 0 .. Len(scores') /\ (L = Len(scores') => sent < sent')
        BY <1>0, <1>1, <3>1
      <4>2. Earlier(slot)'
        BY <1>0, <3>3, <3>4, <4>1 DEF Earlier
      <4>3. R <= heard' /\ R < heard'
        BY <1>0, <1>1, <3>4
      <4> QED BY <1>1, <3>1, <4>2, <4>3 DEF AnswersInv
    <3>5. CASE UNCHANGED <<slot, heard>>
      <4>1. ASSUME slot # None PROVE Earlier(slot)' /\ slot # token'
        <5>1. PICK c \in 0 .. L, p \in Nat :
                /\ slot[2] = p /\ slot[3] = (c * Probes + p) % 256
                /\ c = L => p < sent
          BY <1>1, <1>2, <4>1 DEF Earlier
        <5>2. c = L => p < sent'
          BY <1>0, <3>1, <5>1
        <5>3. Earlier(slot)'
          BY <1>1, <3>1, <3>5, <5>1, <5>2 DEF Earlier
        <5>4. SUFFICES ASSUME slot = token' PROVE FALSE
          BY <5>3
        <5>5. p = sent /\ (c * Probes + p) % 256 = (L * Probes + p) % 256
          BY <3>3, <5>1, <5>4
        <5>6. c \in Nat /\ c < L
          BY <1>0, <5>1, <5>5
        <5> QED BY <3>2, <5>5, <5>6, Distinct
      <4>2. slot' # None => Earlier(slot)' /\ slot' # token'
        BY <3>5, <4>1
      <4>3. token' # None
        BY <3>1 DEF None
      <4>4. slot' # token'
        BY <4>2, <4>3
      <4> QED BY <1>1, <3>1, <3>5, <4>2, <4>4 DEF AnswersInv
    <3> QED BY <3>1, <3>4, <3>5
  <2>3. CASE Pong
    <3>1. slot # None /\ slot' = None /\ UNCHANGED <<sent, scores, heard>>
      BY <2>3 DEF Pong
    <3>2. CASE UNCHANGED <<token, rtts>>
      BY <1>1, <3>1, <3>2 DEF AnswersInv
    <3>3. ASSUME NEW t \in Rtts, slot = token, token' = None, rtts' = Append(rtts, t)
          PROVE  AnswersInv'
      <4>1. Len(rtts') = R + 1
        BY <1>0, <1>1, <3>3, AppendProperties
      <4>2. R + 1 <= heard'
        BY <1>0, <1>2, <3>1, <3>3
      <4> QED BY <3>1, <3>3, <4>1, <4>2 DEF AnswersInv
    <3> QED BY <2>3, <3>2, <3>3 DEF Pong
  <2>4. CASE Timeout
    <3>1. token' = None /\ UNCHANGED <<sent, scores, slot, rtts, heard>>
      BY <2>4 DEF Timeout
    <3>2. Earlier(slot)' <=> Earlier(slot)
      BY <3>1 DEF Earlier
    <3> QED BY <1>1, <1>2, <3>1, <3>2 DEF AnswersInv
  <2>5. CASE FinalizeMetric
    <3>1. /\ token = None /\ token' = None /\ rtts' = <<>> /\ Len(<<>>) = 0
          /\ scores' = Append(scores, Score(rtts, sent)) /\ UNCHANGED <<slot, heard>>
          /\ sent > 0
      BY <2>5 DEF FinalizeMetric
    <3>2. Len(scores') = L + 1
      <4>1. PICK score \in Nat : score = Score(rtts, sent)
        BY <1>0, <3>1, ScoreIs DEF CalibInv, CalibTypeOK
      <4> QED BY <1>0, <1>1, <3>1, <4>1, AppendProperties
    <3>3. ASSUME slot # None PROVE Earlier(slot)'
      <4>1. PICK c \in 0 .. L, p \in Nat :
              slot[2] = p /\ slot[3] = (c * Probes + p) % 256
        BY <1>1, <1>2, <3>3 DEF Earlier
      <4>2. c \in 0 .. L + 1 /\ c # L + 1
        BY <4>1
      <4> QED BY <3>1, <3>2, <4>1, <4>2 DEF Earlier
    <3> QED BY <1>0, <3>1, <3>3 DEF AnswersInv
  <2> QED BY <1>5, <2>1, <2>2, <2>3, <2>4, <2>5 DEF Calibrate
<1>6. CASE SwitchOff \/ PowerCutInWizard \/ PowerCutInMenu \/ ApplyBest
  <2>1. CalibOver
    BY <1>6 DEF SwitchOff, PowerCutInWizard, PowerCutInMenu, Forget, ApplyBest
  <2> QED BY <1>3, <2>1
<1>7. CASE FinishCalibration
  BY <1>4, <1>7 DEF FinishCalibration, SelectBest
<1>8. CASE \/ LoadConfig \/ CheckFirstBoot \/ AskMode \/ AskAddress \/ AskCalibration
           \/ FinishWizard \/ LoadList \/ OpenSocket \/ StartRadio \/ Arm \/ Lock \/ LoopReceive \/ OpenMenu
           \/ MenuMove \/ MenuCancel \/ UNCHANGED vars
           \/ (\E ip \in Ips : MenuChoose(ip)) \/ (\E p \in Hosts : PcSwitch(p) \/ PcTalk(p))
  <2>1. UNCHANGED calib
    BY <1>8 DEF LoadConfig, CheckFirstBoot, AskMode, AskAddress, AskCalibration, FinishWizard,
                LoadList, OpenSocket, StartRadio, Arm, Lock, LoopReceive, OpenMenu, MenuMove, MenuCancel,
                MenuChoose, PcSwitch, PcTalk, vars
  <2> QED BY <1>4, <2>1 DEF calib
<1> QED BY <1>5, <1>6, <1>7, <1>8 DEF Next

\* No answer counts for a probe the DS did not hear on this candidate, however
\* late it comes (channel_calib.c, nifi_net.c), if the probes' numbers tell them
\* apart; and the configuration and the radio agree on the channel, or a
\* benchmark without an answer left the radio on the last one (main.c).
THEOREM ChannelAgreed == NoWrap => (Spec => []ChannelsAgree)
<1> SUFFICES ASSUME NoWrap PROVE Spec => []ChannelsAgree
  OBVIOUS
<1> DEFINE Inv == ConfigInv /\ CalibInv /\ AnswersInv
<1>1. Init => Inv
  <2>1. ASSUME Init PROVE AnswersInv
    <3>1. rtts = <<>> /\ Len(<<>>) = 0 /\ heard = 0 /\ slot = None /\ token = None
      BY <2>1 DEF Init, CalibIdle
    <3> QED BY <3>1 DEF AnswersInv
  <2> QED BY <2>1, ConfigInit, CalibInit
<1>2. Inv /\ [Next]_vars => Inv'
  BY ConfigNext, CalibNext, AnswersNext
<1>3. Inv => ChannelsAgree
  <2> SUFFICES ASSUME CalibInv, AnswersInv PROVE ChannelsAgree
    OBVIOUS
  <2>1. Len(rtts) <= heard
    BY DEF AnswersInv
  <2>2. phase = "apply" /\ best # 0 => best = txChannel
    BY DEF CalibInv, ChannelInv
  <2>3. phase \in {"loop", "menu"} =>
          \/ cfg.channel = txChannel
          \/ cfg.auto /\ txChannel = Last(cfg.channels)
    BY DEF CalibInv, ChannelInv
  <2> QED BY <2>1, <2>2, <2>3 DEF ChannelsAgree
<1> QED BY <1>1, <1>2, <1>3, PTL DEF Spec
=============================================================================
