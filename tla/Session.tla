------------------------------ MODULE Session -------------------------------
(***************************************************************************)
(* A DS client and a Wii proxy that find each other, keep a session and    *)
(* lose it: DsLink and WiiProxy over the Radio.                            *)
(*                                                                         *)
(* Time is counted in VBlanks of the DS, the clock of its main loop; the   *)
(* same ticks age the Wii's watchdog.  With Prompt the radio delivers (or  *)
(* loses) what is in flight within one VBlank, and a frame of the Wii      *)
(* before its next one, as a 2 Mbit/s link does with its millisecond       *)
(* latency; without, a frame may be arbitrarily late.                      *)
(***************************************************************************)
EXTENDS DsLink, WiiProxy

CONSTANT Prompt

ASSUME PromptAssumption == Prompt \in BOOLEAN

vars == <<radioVars, dsVars, wiiVars, accepted>>

Init == RadioInit /\ DsInit /\ WiiInit

\* Nothing is in flight to a receiver that would take it: a proxy that is
\* locked or in its menu leaves what arrives in the driver's queue.
Settled ==
  /\ toDs = <<>>
  /\ toWii = <<>> \/ launch = "NONE" \/ wiiPc = "menu"

\* A VBlank: the main loop of the DS, if it waits for one, starts a frame.  The
\* watchdog of the Wii is read in a session only, and set on every way into one.
Tick ==
  /\ Prompt => Settled
  /\ dsPc \in {"vblank", "off"}
  /\ dsPc' = IF dsPc = "vblank" THEN "check" ELSE "off"
  /\ quiet' = IF wiiConn = "CONNECTED" /\ quiet < WiiTimeout
                THEN quiet + 1 ELSE quiet
  /\ UNCHANGED <<radioVars, dsReady, dsConn, hsVars, probeTimer, dsBeat,
                 watchdog, wdReg, txVars, wiiPc, wiiConn, launch, wiiToken,
                 announce, wiiBeat, accepted>>

\* Frames to a node that is off, or whose radio never came up, are gone.
Unheard ==
  \/ /\ dsPc = "off" \/ ~dsReady
     /\ toDs # <<>>
     /\ toDs' = Tail(toDs)
     /\ UNCHANGED <<toWii, faults, dsVars, wiiVars, accepted>>
  \/ /\ wiiPc = "off"
     /\ toWii # <<>>
     /\ toWii' = Tail(toWii)
     /\ UNCHANGED <<toDs, faults, dsVars, wiiVars, accepted>>

Fade == (FadeToDs \/ FadeToWii) /\ UNCHANGED <<dsVars, wiiVars, accepted>>

\* The Wii does not come to its next frame while one is in flight.
Clear == Prompt /\ wiiPc \in {"machine", "forward"} => toDs = <<>>

DsStep == DsPoll /\ UNCHANGED <<wiiVars, accepted>>
DsHear == DsReceive /\ UNCHANGED <<wiiVars, accepted>>
DsSwitchOn == DsBoot /\ UNCHANGED <<wiiVars, accepted>>
DsSwitchOff == DsPowerOff /\ UNCHANGED <<wiiVars, accepted>>
WiiStep == WiiLoop /\ Clear /\ UNCHANGED dsVars
WiiStart == WiiBoot /\ UNCHANGED dsVars

Next ==
  \/ Tick \/ Unheard \/ Fade
  \/ DsStep \/ DsHear \/ DsSwitchOn \/ DsSwitchOff
  \/ WiiStep \/ WiiStart

Spec == Init /\ [][Next]_vars

\* Time passes, the DS runs its frame, the Wii its loop, and the radio and
\* the interrupts get through.  Nobody has to switch anything on or off, and
\* the user has to close the IP manager.
Fairness ==
  /\ SF_vars(Tick)
  /\ WF_vars(DsStep)
  /\ WF_vars(DsHear)
  /\ SF_vars(Unheard)
  /\ WF_vars((WiiLocked \/ WiiPassGate) /\ UNCHANGED dsVars)
  /\ WF_vars((WiiMachine \/ WiiForward) /\ Clear /\ UNCHANGED dsVars)

FairSpec == Spec /\ Fairness
-----------------------------------------------------------------------------
TypeOK == RadioTypeOK /\ DsTypeOK /\ WiiTypeOK

\* The Wii announces or streams exactly while the operator's session is armed:
\* watchdog, JOIN, DISCONNECT and arming, interleaved in any order, never leave
\* a session without its launch mode or a launch mode without a session.
GateInvariant == wiiConn \in {"ANNOUNCING", "CONNECTED"} <=> launch # "NONE"

\* "Do not advertise or accept DS traffic until the operator intentionally arms
\* a session" (main.c): while the gate is locked the loop sends the DS nothing,
\* no announce, accept, heartbeat or data of the PC, and accepts no JOIN.  (The
\* ACK frames of ack_spoof.c's timer carry no session and are not these.)
LockedSilence ==
  [][(Len(toDs') > Len(toDs) \/ accepted' # accepted) => launch # "NONE"]_vars

\* A DS that believes it is connected holds a token that some Wii accepted:
\* late, lost or stale ACCEPTs and the races of the handler with the poll never
\* connect it to a session nobody granted.  Between the new token and the new
\* state of a probe the ACCEPT of the old token may still show.
ConnectedWasAccepted ==
  dsConn = "CONNECTED" /\ dsPc # "fill" => dsToken \in accepted

\* The phases of LaunchGate, seen in the proxy.
Phase ==
  IF launch = "NONE" THEN "locked"
  ELSE IF wiiConn = "CONNECTED" THEN "session" ELSE "armed"

Gate == INSTANCE LaunchGate WITH phase <- Phase, mode <- launch

\* The proxy's gate, timers and handshake implement the operator's view of them.
GateSpec == Gate!Spec

\* The DS is there and its radio works.
DsAlive == dsPc # "off" /\ dsReady

\* Once armed, the Wii and a DS that is on find each other, whatever tokens
\* their announces and probes race with, and although a JOIN, an ACCEPT or a
\* transmit buffer is lost on the way: the probe that is repeated, a second or
\* three later, comes before the Wii's watchdog ends the session again.  Only
\* the user spoils it, by switching one of them off or by opening the menu,
\* which stops the Wii's loop for as long as it likes.
ArmedConnects ==
  (wiiConn = "ANNOUNCING" /\ DsAlive)
    ~> \/ dsConn = "CONNECTED" /\ wiiConn = "CONNECTED"
       \/ wiiPc \in {"off", "menu"} \/ ~DsAlive

\* A DS whose Wii has ended the session, or is off, gives up its connection.
DsNotices == (launch = "NONE") ~> (dsConn # "CONNECTED" \/ launch # "NONE")

\* A Wii whose DS is gone locks its gate.
WiiNotices == (~DsAlive) ~> (wiiConn # "CONNECTED" \/ DsAlive)
=============================================================================
