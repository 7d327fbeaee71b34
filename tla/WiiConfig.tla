----------------------------- MODULE WiiConfig ------------------------------
(***************************************************************************)
(* The configuration of the Wii's proxy: what wii_config_load makes of     *)
(* proxy.cfg (config_ui.c), and the setup wizard that asks the operator    *)
(* for mode, address and channel and writes the file (setup_wizard.c).     *)
(*                                                                         *)
(* A file is a function from the keys it has to values; cut short before   *)
(* its first line, it is like none.  Addresses are model values; the port  *)
(* and the probes' timeout are left out, their number is a constant.  Of   *)
(* entering an address and of moving a cursor, the result is modelled.     *)
(***************************************************************************)
EXTENDS Addresses, Integers, SequencesExt

CONSTANTS
  DefaultIp,    \* "192.168.1.100"
  HandWritten   \* files the operator may have put on the card

NoFile == <<>>

\* wii_config_load before it opens the file.
Defaults ==
  [usb |-> FALSE, channel |-> 1, auto |-> TRUE, channels |-> <<1, 6, 11>>, ip |-> DefaultIp]

\* A line's value is what strcmp or atoi makes of it.
ASSUME WiiConfigAssumption ==
  /\ DefaultIp \in Ips
  /\ \A f \in HandWritten :
       /\ DOMAIN f \subseteq DOMAIN Defaults
       /\ \A k \in DOMAIN f \cap {"usb", "auto"} : f[k] \in BOOLEAN
       /\ "channel" \in DOMAIN f => f["channel"] \in Int
       /\ "channels" \in DOMAIN f => f["channels"] \in Seq(Int)
       /\ "ip" \in DOMAIN f => f["ip"] \in Ips

VARIABLES
  cfg,      \* main's cfg
  card,     \* proxy.cfg
  answers   \* history: the answers of the wizard's last run that saved them

IsChannel(ch) == ch \in 1 .. 11

\* parse_channel_list: channels out of range are skipped, eleven are kept.
ChannelList(csv) ==
  LET kept[n \in 0 .. Len(csv)] ==
        IF n = 0 THEN <<>>
        ELSE IF IsChannel(csv[n]) /\ Len(kept[n - 1]) < 11 THEN Append(kept[n - 1], csv[n])
        ELSE kept[n - 1]
  IN kept[Len(csv)]

Accepted(key, value) ==
  /\ key = "channel" => IsChannel(value)
  /\ key = "channels" => ChannelList(value) # <<>>

\* wii_config_load
Loaded(file) ==
  [k \in DOMAIN Defaults |->
     IF k \notin DOMAIN file \/ ~Accepted(k, file[k]) THEN Defaults[k]
     ELSE IF k = "channels" THEN ChannelList(file[k]) ELSE file[k]]

\* Seeded fault: the channel mode is not written.
FileForgetsAuto(c) ==
  [usb |-> c.usb, channel |-> 1, channels |-> <<1, 6, 11>>, ip |-> c.ip]

\* What the wizard writes: channel and candidates are fixed.
FileOf(c) ==
  [usb |-> c.usb, channel |-> 1, auto |-> c.auto, channels |-> <<1, 6, 11>>, ip |-> c.ip]

Answered == {"usb", "auto", "ip"}
AnswersIn(c) == [k \in Answered |-> c[k]]
NoAnswers == <<>>

\* The wizard's questions: select_mode, enter_ip_address, channel selection.
ChooseMode(usb) == cfg' = [cfg EXCEPT !.usb = usb]
EnterIpAddress(ip) == cfg' = [cfg EXCEPT !.ip = ip]
ChooseCalibration(auto) == cfg' = [cfg EXCEPT !.auto = auto]

SaveConfig ==
  /\ card' = FileOf(cfg)
  /\ answers' = AnswersIn(cfg)

\* The file does not open, which is reported; or its lines do not reach the
\* card, which is not, or the power goes first: it is empty or as before.
SaveConfigFails ==
  \/ UNCHANGED <<card, answers>>
  \/ card' = NoFile /\ answers' = NoAnswers

\* main: the wizard runs while the address is the default.
FirstBoot == cfg.ip = DefaultIp

ConfigTypeOK ==
  /\ cfg \in [usb : BOOLEAN, channel : 1 .. 11, auto : BOOLEAN,
              channels : Seq(1 .. 11), ip : Ips]
  /\ Len(cfg.channels) \in 1 .. 11
  /\ card \in HandWritten \cup {NoFile} \cup
       {FileOf(c) : c \in [usb : BOOLEAN, auto : BOOLEAN, ip : Ips]}
=============================================================================
