------------------------------ MODULE WiiBoot -------------------------------
(***************************************************************************)
(* From power-on to the proxy's loop (main.c): configuration, wizard,      *)
(* saved addresses, socket, radio, channel benchmark; then the loop as far *)
(* as it receives datagrams and opens the address menu.  The power may go  *)
(* at any time.  Files outlive it.                                         *)
(*                                                                         *)
(* Of the session, which is WiiProxy's, only whether one is armed: while   *)
(* the launch gate is locked the loop leaves the socket alone.             *)
(***************************************************************************)
EXTENDS WiiConfig, IpManager, Backhaul, ChannelCalib

VARIABLES
  phase,    \* where main stands
  armed,    \* launch_mode is not DS_LAUNCH_NONE
  unsaved   \* history: the wizard of this boot did not save its answers

vars == <<cfg, card, answers, lists, backhaul, txChannel, calib, phase, armed, unsaved>>

Wizard == {"mode", "address", "calibration", "save"}
Phases == {"off", "config", "lists", "backhaul", "radio", "calib", "apply", "loop", "menu"} \cup Wizard

At(from, to) == phase = from /\ phase' = to

Init ==
  /\ phase = "off" /\ armed = FALSE /\ unsaved = FALSE
  /\ cfg = Defaults /\ card \in HandWritten /\ answers = NoAnswers
  /\ list = <<>> /\ listCard \in HandLists /\ selection = 0
  /\ wanted = Times(Taken(listCard)) /\ dirty = FALSE
  /\ pc = DefaultIp /\ socket = <<>> /\ talking = {} /\ moved = FALSE
  /\ txChannel = 1 /\ CalibIdle
-----------------------------------------------------------------------------
\* main's memory is gone; the files are left to the other conjuncts.
Forget ==
  /\ phase' = "off" /\ armed' = FALSE /\ unsaved' = FALSE
  /\ cfg' = Defaults
  /\ list' = <<>> /\ selection' = 0
  /\ pc' = DefaultIp /\ socket' = <<>> /\ moved' = FALSE /\ talking' = {}
  /\ txChannel' = 1 /\ CalibOver

\* HOME, a failure, or the power switch.
SwitchOff ==
  /\ phase # "off"
  /\ Forget
  /\ UNCHANGED <<card, answers, listCard, wanted, dirty>>

PowerCutInWizard ==
  /\ phase = "save"
  /\ Forget
  /\ SaveConfigFails
  /\ UNCHANGED <<listCard, wanted, dirty>>

PowerCutInMenu ==
  /\ phase = "menu"
  /\ Forget
  /\ NotSaved
  /\ UNCHANGED <<card, answers, wanted>>

LoadConfig ==
  /\ At("off", "config")
  /\ cfg' = Loaded(card)
  /\ UNCHANGED <<card, answers, lists, backhaul, txChannel, calib, armed, unsaved>>

CheckFirstBoot ==
  /\ phase = "config"
  /\ phase' = IF FirstBoot THEN "mode" ELSE "lists"
  /\ UNCHANGED <<cfg, card, answers, lists, backhaul, txChannel, calib, armed, unsaved>>

AskMode ==
  /\ At("mode", "address")
  /\ \E usb \in BOOLEAN : ChooseMode(usb)
  /\ UNCHANGED <<card, answers, lists, backhaul, txChannel, calib, armed, unsaved>>

AskAddress ==
  /\ At("address", "calibration")
  /\ \E ip \in Ips : EnterIpAddress(ip)
  /\ UNCHANGED <<card, answers, lists, backhaul, txChannel, calib, armed, unsaved>>

AskCalibration ==
  /\ At("calibration", "save")
  /\ \E auto \in BOOLEAN : ChooseCalibration(auto)
  /\ UNCHANGED <<card, answers, lists, backhaul, txChannel, calib, armed, unsaved>>

\* The answers are used, saved or not.
FinishWizard ==
  /\ At("save", "lists")
  /\ \/ SaveConfig /\ unsaved' = FALSE
     \/ SaveConfigFails /\ unsaved' = TRUE
  /\ UNCHANGED <<cfg, lists, backhaul, txChannel, calib, armed>>

LoadList ==
  /\ At("lists", "backhaul")
  /\ Load
  /\ UNCHANGED <<cfg, card, answers, backhaul, txChannel, calib, armed, unsaved>>

OpenSocket ==
  /\ At("backhaul", "radio")
  /\ BackhaulInit(cfg.ip)
  /\ UNCHANGED <<cfg, card, answers, lists, txChannel, calib, armed, unsaved>>

\* nifi_tx_init
StartRadio ==
  /\ phase = "radio"
  /\ phase' = IF cfg.auto THEN "calib" ELSE "loop"
  /\ SetChannel(cfg.channel)
  /\ UNCHANGED <<cfg, card, answers, lists, backhaul, calib, armed, unsaved>>

Calibrate ==
  /\ phase = "calib"
  /\ \/ NextCandidate(cfg.channels) \/ SendPing(cfg.channels) \/ Pong
     \/ Timeout \/ FinalizeMetric
  /\ UNCHANGED <<cfg, card, answers, lists, backhaul, phase, armed, unsaved>>

FinishCalibration ==
  /\ At("calib", "apply")
  /\ SelectBest(cfg.channels)
  /\ UNCHANGED <<cfg, card, answers, lists, backhaul, armed, unsaved>>

\* main takes a channel over, and keeps its own if there is none.
ApplyBest ==
  /\ At("apply", "loop")
  /\ cfg' = IF best \in 1 .. 11 THEN [cfg EXCEPT !.channel = best] ELSE cfg
  /\ CalibOver
  /\ UNCHANGED <<card, answers, lists, backhaul, txChannel, armed, unsaved>>
-----------------------------------------------------------------------------
\* A or B at the launch gate; and every way back to it: the watchdog, the DS's
\* DISCONNECT.  (The watchdog's iteration receives once more, as before it.)
Arm ==
  /\ phase = "loop" /\ ~armed
  /\ armed' = TRUE
  /\ UNCHANGED <<cfg, card, answers, lists, backhaul, txChannel, calib, phase, unsaved>>

Lock ==
  /\ phase = "loop" /\ armed
  /\ armed' = FALSE
  /\ UNCHANGED <<cfg, card, answers, lists, backhaul, txChannel, calib, phase, unsaved>>

\* What the loop receives from a PC, forwarded or not, once a session is armed.
LoopReceive ==
  /\ phase = "loop" /\ armed
  /\ Receive
  /\ UNCHANGED <<cfg, card, answers, lists, txChannel, calib, phase, armed, unsaved>>

OpenMenu ==
  /\ At("loop", "menu")
  /\ selection' = 0
  /\ UNCHANGED <<cfg, card, answers, list, listCard, wanted, dirty, backhaul, txChannel, calib, armed, unsaved>>

\* An address is selected or entered: it is used at once, but not saved as the
\* configuration's.
MenuChoose(ip) ==
  /\ At("menu", "loop")
  /\ Selected(ip) \/ EnterNew(ip)
  /\ selection' = 0
  /\ cfg' = [cfg EXCEPT !.ip = ip]
  /\ Reconnect(ip)
  /\ UNCHANGED <<card, answers, txChannel, calib, armed, unsaved>>

MenuMove ==
  /\ phase = "menu"
  /\ Up \/ Down \/ RemoveIp
  /\ UNCHANGED <<cfg, card, answers, backhaul, txChannel, calib, phase, armed, unsaved>>

MenuCancel ==
  /\ At("menu", "loop")
  /\ selection' = 0
  /\ UNCHANGED <<cfg, card, answers, list, listCard, wanted, dirty, backhaul, txChannel, calib, armed, unsaved>>

\* PCs.  Nobody reads the socket before the loop runs, so a PC that is on by
\* then may as well be switched on and send at its start.
PcSwitch(p) ==
  /\ phase = "loop"
  /\ Switch(p)
  /\ UNCHANGED <<cfg, card, answers, lists, txChannel, calib, phase, armed, unsaved>>

PcTalk(p) ==
  /\ phase \in {"loop", "menu"}
  /\ Talk(p)
  /\ UNCHANGED <<cfg, card, answers, lists, txChannel, calib, phase, armed, unsaved>>

Next ==
  \/ SwitchOff \/ PowerCutInWizard \/ PowerCutInMenu
  \/ LoadConfig \/ CheckFirstBoot \/ AskMode \/ AskAddress \/ AskCalibration \/ FinishWizard
  \/ LoadList \/ OpenSocket \/ StartRadio \/ Calibrate \/ FinishCalibration \/ ApplyBest
  \/ Arm \/ Lock \/ LoopReceive \/ OpenMenu \/ MenuMove \/ MenuCancel
  \/ \E ip \in Ips : MenuChoose(ip)
  \/ \E p \in Hosts : PcSwitch(p) \/ PcTalk(p)

\* The loop goes on past an armed gate, and a PC that runs keeps sending.
Spec ==
  /\ Init /\ [][Next]_vars
  /\ WF_vars(LoopReceive)
  /\ \A p \in Hosts : WF_vars(PcTalk(p))
-----------------------------------------------------------------------------
TypeOK ==
  /\ ConfigTypeOK /\ ListTypeOK /\ BackhaulTypeOK /\ CalibTypeOK
  /\ phase \in Phases
  /\ armed \in BOOLEAN /\ unsaved \in BOOLEAN

\* The wizard's answers last: once they are on the card every boot starts from
\* all of them, and asks again only if the address was the default; a wizard
\* cut short leaves nothing of its answers behind.
Remembered ==
  answers # NoAnswers =>
    /\ phase \in {"config", "lists", "backhaul", "radio"} /\ ~unsaved => AnswersIn(cfg) = answers
    /\ phase \in Wizard => answers.ip = DefaultIp

\* The list holds an address as often as the operator's file named it, as far as
\* that was read, plus the one that was added when there was none, less what was
\* removed; and so does the card, unless the last write of it failed.
ListKept ==
  /\ phase \in {"radio", "calib", "apply", "loop", "menu"} => Times(list) = wanted
  /\ ~dirty => Times(Taken(listCard)) = wanted

\* Telemetry goes to the PC that the operator chose, at boot or in the menu,
\* until another one's datagram arrives.
ChoiceHeld ==
  phase \in {"radio", "calib", "apply", "loop", "menu"} /\ ~moved => pc = cfg.ip

\* No more answers are counted for a channel than probes the DS heard on it,
\* however late answers come; and the channel in the configuration is the one
\* the radio was given - except that after a benchmark nobody answered the radio
\* is left on its last candidate.
ChannelsAgree ==
  /\ Len(rtts) <= heard
  /\ phase = "apply" /\ best # 0 => best = txChannel
  /\ phase \in {"loop", "menu"} =>
       \/ cfg.channel = txChannel
       \/ cfg.auto /\ txChannel = Last(cfg.channels)

\* Once a session stays armed and a single PC talks, telemetry goes to it for
\* good, whatever was chosen and whatever still waits in the socket.
TalkerHears ==
  \A p \in Hosts : <>[](phase = "loop" /\ armed /\ talking = {p}) => <>[](pc = p)
=============================================================================
