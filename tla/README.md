# A verification of dsdesktop

dsdesktop shows the screen of a PC on a Nintendo DS and sends the DS's buttons,
stylus and on-screen keyboard back. Three programs take part:

    PC host                    Wii proxy                     DS client
    pc_host/src       -UDP-    wii_proxy/source    -NiFi-    ds_client/arm9, arm7
    capture, encode,           bridges UDP and raw 802.11    decodes, shows, plays,
    throttle, inject           frames, owns the session      reads its user's input

This directory holds TLA+ modules that model them, TLC configurations that
check the models on small instances, and TLAPS proofs for every value of the
constants. Paths below are relative to `src/`.

Contents: [the system](#the-system) · [the plan](#the-plan) ·
[the modules](#the-modules) · [the runs](#the-runs) ·
[fairness](#fairness) · [the proofs](#the-proofs) ·
[what the checks found](#what-the-checks-found) ·
[what is not modelled](#what-is-not-modelled)

## The system

### Components, their state and their operations

| Component | State | Operations | Talks to |
|---|---|---|---|
| Session, DS side (`nifi_net.c`) | `s_conn_state`, session and probe tokens, outgoing handshake and its flag, probe, heartbeat and watchdog counters | `dsrd_nifi_init`, `dsrd_nifi_poll` once a VBlank, `nifi_rx_handler` in the wireless interrupt | Wii by handshake frames; packet rings |
| Session, Wii side (`wii_proxy/source/main.c`) | `conn_state`, `launch_mode`, `session_token`, announce and heartbeat counters, time of the last activity | one loop: pads, launch gate, connection machine, one datagram down, one frame up | DS by frames, PC by datagrams, operator by pads |
| Packet rings of the DS (`circ_buf.h`) | eight slots, head, tail, count, overflow counter | push (interrupt), pop and drain (main loop) | fed by the handler, read by the poll |
| Congestion loop (`nifi_net.c`, `throttle.cpp`, `ack_spoof.c`) | drops, overflows, report timer; frame rate and streak on the PC | report every 120 frames; step down, step up | DS to PC |
| Video (`capture.cpp`, `encoder.cpp`, `rle.h`, `wl_backend.c`, `video_decode.c`) | the encoder's previous frame and keyframe counter; the DS's frame buffer and palette | capture, quantize, encode; receive; decode | PC to DS |
| Input chain (`input.c`, `hmac_auth.c`, `hmac_host.cpp`, `input_inject.cpp`) | remap table, snapshot, sequence numbers, outputs active last | poll, sign, send; verify, inject | DS to PC |
| Sub-screen UI (`sub_ui.c`) | one of five UI states, keyboard position, panel, magnifier, remap table, popup with its mask and page, pause after a press | `sub_ui_update` and `sub_ui_process_touch`, once a frame | fills the remap table, the mouse and the key of the input chain |
| Audio (`audio_enc.cpp`, `audio_stream.c`) | sample ring and resampler on the PC; a double buffer on the DS | pump and chunk, both in the PC's main loop; the DS's poll fills a half and hands it to the sound hardware | PC to Wii to DS |
| PC address (`backhaul.c`, `ip_manager.c`, `net_host.cpp`) | the address telemetry goes to, the socket, the list of saved addresses in memory and on the card | receive (which learns the sender), reconnect; load, select, add, remove, save | Wii, PCs and operator |
| Channel calibration (`channel_calib.c`) | candidate, token waited for, times, scores | probe, wait, score, choose | Wii and DS, at boot |
| Radio glue of the Wii (`wl_backend.c`, `nifi_tx.c`, `nifi_rx.c`, `ack_spoof.c`) | what of the driver is held, one send buffer, the ACK timer | set-up on first use, send, receive, alarm callback | main loop, callback and the air |
| Boot, configuration, setup wizard of the Wii (`main.c`, `config_ui.c`, `setup_wizard.c`) | `cfg` in memory, `proxy.cfg` on the card | load, wizard, save, then socket, radio and benchmark in order | operator, all of the Wii's parts |

### What is hard about it

- **An interrupt against a main loop.** The DS handler shares the session
  state, the handshake message, the watchdog and both rings with a poll that
  never masks it. No variable is volatile and no pair of stores is atomic.
- **A radio that loses, delays and queues.** The ACCEPT is sent once; frames
  that arrive while the Wii's gate is locked stay in the driver until it opens.
- **Restarts.** Both consoles are switched on and off at will; the DS counts its
  tokens and its sequence numbers from the same base every time.
- **An open-loop codec.** The encoder takes its differences to what it encoded,
  whether or not that arrived.
- **Counters between two machines**: drops counted on one, judged on another,
  reset before the report of them is known to have arrived.
- **A single writer that several readers trust**: palettes, magnifier, remaps.
- **One buffer, two writers.** The Wii's ACK timer fires a callback in the middle
  of the main loop's `memcpy` into the send buffer, and writes the same buffer.
- **Files and power.** The Wii truncates its two files before it writes them.
- **An address with two masters**: the operator chooses the PC, every datagram
  chooses again.
- **A stylus that stays down** while what lies under it changes.
- **Three rings and two buffers in a row** for the sound, each of which drops in
  a way of its own.

`PROJECT.json` lists every such hazard at its line, with the properties that
would catch it going wrong.

### What makes each component correct

| Component | Correct means |
|---|---|
| Session | Nothing happens until the operator arms; an armed Wii and a live DS connect; each side notices the other's absence, and gives a session up only then; a connected DS was accepted |
| Rings | A queue that drops its oldest packet and counts the drops; under the interrupt, whole packets in order |
| Congestion | Slow down on loss, recover when it is over, and only after enough clear reports in a row |
| Video | The two ends differ through losses only, and a keyframe ends the difference |
| Input | No key hangs, none is lost for good, input is applied once and in order |
| Sub-screen UI | Every legal sequence of touches leaves a screen the user can leave again; a popup remaps what it shows |
| Audio | The half being filled is not the half being played; what is heard was recorded, once and in that order, as far as the DS's ring allows |
| PC address | The operator's choice holds until a PC talks; a PC that talks alone is heard; list and card agree with what was added and removed |
| Calibration | No answer is counted for a probe it does not answer; radio and configuration name the same channel |
| Radio glue | A frame on the air is one frame; a half-finished initialisation is finished or undone |
| Boot | The wizard's answers last, all of them or none; it asks again only if they are gone |

## The plan

The most important behaviour first; modules are written to be proved about:
constants with named assumptions, one action per operation, recursion only as
folds or recursive functions, about which `Recursion` has the induction.

| Step | Modules | Abstract specification | Theorems |
|---|---|---|---|
| 1, done | `Protocol`, `Radio`, `DsLink`, `WiiProxy`, `Session` | `LaunchGate` | types, gate, silence, refinement, accepted tokens |
| 2, done | `Ring`, `CircBuf`, then `RingIrq` with the interrupt and `CircBufIrq` | `LossyQueue` | types, indices, refinement; under the interrupt types and written slots |
| 3, done | `Congestion` | | types, earned step up |
| 4, done | `Video` | | types, the two ends in sync |
| 5, done | `Telemetry` | | types, no hanging key, order of signed input, magnifier by keyframe |
| 6, done | `SubUi` | | types, popup, what APPLY writes, one tap one press |
| 7, done | `Addresses`, `WiiConfig`, `IpManager`, `Backhaul`, `ChannelCalib`, composed by `WiiBoot` | | types, answers, saved list, choice of PC, agreement on the channel |
| 8, done | `AudioEnc`, `AudioStream`, `WlBackend`, composed by `AudioPath` over `RingIrq` | | types, whole frames, order of the sound |
| open | the header's bytes on three machines; the mouse's position; a slower sound device | | |

## The modules

`MC*` modules only define values for constants; everything else models code.

### Session: `Protocol`, `Radio`, `DsLink`, `WiiProxy`, `Session`, `LaunchGate`

`Protocol` has the frames and tokens. A token is one of the DS's
(`0x4453xxxx`, counted modulo `TokenMod`) or one of the Wii's (drawn from its
clock at boot and at arming, so any of `WiiTokens`). `Radio` has two sequences
of frames in flight. A frame can be delivered or, within `MaxFaults`, lost, and
a full sequence (`RadioCap`) drops what is sent.

`DsLink` is `nifi_net.c`. `dsrd_nifi_poll` is cut into one action per memory
access that `nifi_rx_handler` can race with; `dsPc` says where the main loop
stands, and the handler is one action that can come between any two:

| Action | Lines of the poll |
|---|---|
| `DsCheckConnected`, `DsProbeWait`, `DsProbeFire` | the test of `s_conn_state`, the probe timer and its back-off after a drop |
| `DsProbeToken`, `DsProbeFill` | the new token; then the message, the flag and `CONN_JOINING` |
| `DsSendClear`, `DsSendJoin` | the flag cleared, then the message copied and sent |
| `DsBeatSkip`, `DsBeatWait`, `DsBeatSend` | the heartbeat, and the load of `watchdog++` |
| `DsWatchdogStore` | its store, and the timeout |
| `DsTail` | the rest of the frame, telemetry as a `DATA` frame |

`WiiProxy` is the loop of the proxy's `main`, which has no interrupt to fear:
`WiiExit` (HOME), `WiiMenu` (MINUS, which blocks the loop), the launch gate
(`WiiArm`, `WiiLocked`, `WiiPassGate`), `WiiMachine` and `WiiForward`. Announces
and heartbeats count loop iterations, as the code does; the watchdog counts
time. `accepted` is a history variable.

`Session` composes the two over the radio, adds power switches and `Tick`, the
VBlank that both sides' time follows. `LaunchGate` is what the operator is
promised, in three phases; `Phase` in `Session` is the refinement mapping.

### Rings: `Ring`, `CircBuf`, `LossyQueue`, `RingIrq`, `CircBufIrq`

`Ring` has the slots and the index that wraps, for all of the following.

`CircBuf` has one action per operation of `circ_buf.h`, the 16-bit overflow
counter with its wrap (`OverflowMod`). `LossyQueue` is a sequence that drops
its first element when full; `CircBuf!Contents` maps one to the other.
`RingIrq` is the ring as it is used: a pop in seven steps, a push between any
two. The structure is not volatile, so after the copy the compiler may use the
tail and the count it has or read them again; both are allowed. `CircBufIrq`
feeds it numbered packets, a bounded number of them; `AudioPath` uses the same
pop and push for the DS's ring of sound.

### `Congestion`

The DS counts rejected frames and ring overflows, reads them, resets them, and
sends: `ReadCounters` and `ResetAndSend` are two actions because the handler
counts in between (`RejectMidway`): that drop is reset and never reported. `ThrottleUpdate` is `throttle_update` on the PC.
`SpoofsHeard` is the number of the Wii's ACK frames a DS hears in a VBlank.
`verdicts` is a history variable.

### `Video`

A screen of `PixelCount` pixels, colours from `RGB`. `Quantized` numbers the
colours in order of first appearance, as `quantize` does. `PcFrame` is
`encoder_encode` with its four outcomes: nothing changed, keyframe due or
forced, too much changed, delta. `LinkMax` is the longest frame the radio
carries (512 bytes in the code), `LengthMod` the width of `payload_len`;
lengths of runs are computed as the encoder does. `Packet` is the header with the
length as it is announced, which is also what is sent; `whole` says whether that
is all of it. `Arrive` is the handler
pushing into the ring, `Decode` the decoder. `damaged` is a history variable.

### `Telemetry`

`DsFrame` is a frame of the DS: buttons through `Evaluate` (the rows in order,
two outputs at most), the key typed, the magnifier, a sequence number when
signing. `Remap`, `TurnLens`, `ToggleHmac` are what the user can do, `DsRestart`
resets all of it. The net delivers in order, or by a fault out of order, or
twice. `HostReceive` is the drain loop of the PC: `Verify`, `PointLens`, `Inject`.
`Capture` is the next frame's capture, as far as the magnifier goes. Outputs are
numbered by their place in the key popup. The on-screen keyboard presses and
releases a key of the same keyboard, so a key an output holds comes up: `Inject`
says so.

### Bottom screen: `SubUi`

A frame of the DS's main loop is two actions: `Update` (`sub_ui_update`: the
pause counts down, the keyboard slides) and `Poll(p)` or `PollUp`
(`dsrd_input_poll` with the stylus at `p`, or up). `Under(p)` is what lies under
the stylus, in the order in which `sub_ui_process_touch` asks, with the
program's pixels; each press is an operator of its own (`PressKb`, `PressMap`,
`OpenPopup`, `PressOption`, `PressApply`, `PressDone` …). An output is its place
in the popup's list; the mask has `MaskBits` bits, so that `1u << i` is nothing for
the options from 32 on, as on the DS's processor. `quiet` is a history variable.

### The Wii's boot: `WiiBoot`, `WiiConfig`, `IpManager`, `Backhaul`, `ChannelCalib`, `Addresses`

`WiiConfig` is `proxy.cfg`: `Loaded` (with what it rejects), `FileOf` (what the
wizard writes, which is not all that is loaded), and the wizard's questions.
`IpManager` is the list of addresses with its cursor, in memory and on the card.
`Backhaul` has the address telemetry goes to and the senders waiting in the
socket. `ChannelCalib` is the benchmark: probes with tokens, a DS that keeps
the one answer it has to give and may give it late, the score (`Ranked` is what
stands at an index of the sorted times).

`WiiBoot` puts them in the order of `main` up to the loop, of which it keeps
what receives datagrams and opens the menu. It receives only while a session is
armed (`Arm`, `Lock`): a locked gate goes on to the next turn before
`backhaul_recv`. `SwitchOff` can come anywhere. A write can fail (`NotSaved`,
`SaveConfigFails`): the file does not open, or its lines or its closing do not
reach the card, which the code does not notice, or the power goes
(`PowerCutInWizard`, `PowerCutInMenu`). The file is then empty or as it was. `answers`, `unsaved`, `wanted`, `dirty`, `moved` and
`heard` are history variables.

### Sound: `AudioPath`, `AudioEnc`, `AudioStream`, `WlBackend`

`AudioEnc` is the PC's ring with the resampler's accumulator: `PumpCapture` for
a frame of the device, `Capture` for a chunk. `WlBackend` is the Wii's driver:
`InitOnce` with its failures, and `WL_SendRawFrame` as five stages of the main
loop between which `AckTimer` can run as a whole. `Unlock` is
`wl_unlock_driver`: the program forgets its right to the driver in any case,
IOS's lock (`locked`) may stay. Heaps are never given back (`heaps`). `AudioStream`
is `dsrd_audio_push_chunk`, sample by sample, with `submit_and_swap`. `AudioPath`
joins them with the network before the Wii and the DS's ring behind it, which is
`RingIrq`: `WiiSends` pushes in the interrupt, `DsPops` and `DsPlays` are the
steps of the poll's pop. The two halves of the copy can come from two chunks
(`Joined`); the length is taken from the first. `raced` is a history variable: a
chunk has been pushed in the middle of a pop.

Two samples of the recording are marked, 1 and 2, in this order; `played` is the
marks handed to the hardware. Because the code does not look at samples, what
can happen to these two can happen to any two.

## The runs

Every property has a mutant in `PROJECT.json`: a plausible bug, stated beside the
code's own definition as a "seeded fault", that makes TLC report the property
violated in the same run.

| Run | Shows | Bounds |
|---|---|---|
| `session_safety` | Types; the gate and the connection machine agree; a locked Wii is silent; a connected DS was accepted; the proxy implements `LaunchGate`. Radio of any delay, power cycles of both | two DS tokens (so that they repeat), one of the Wii, one frame in flight each way, one fault, timers of one or two: every timer can expire before, with and after every other. The theorems lift these bounds |
| `session_liveness` | An armed Wii and a live DS connect before the Wii's watchdog gives up, though a frame is lost or a transmit buffer refused; each notices the other's absence | a radio that delivers within a VBlank, and a Wii that does not come to its next frame before that (`Clear`); one fault, one frame in flight. Timers in the order of the code's: probe 1 (1 s), back-off 2 (3 s), the Wii's watchdog 5 (30 s), so that the probe after a fault comes in time and a watchdog that fires is not the excuse |
| `circbuf` | the ring refines `LossyQueue`, wraps and overflows included | three slots, two packets, overflow counter modulo 4 |
| `circbuf_irq` | with the interrupt, indices and count stay in range, nothing unwritten is read, draining ends | three slots, nine pushes: three times round |
| `congestion` | a step up is earned by consecutive clear reports; an overflow slows the PC down; the rate recovers | reports every two frames, threshold two, three clear reports, one loss; one rejected frame a VBlank and any number between reading and reset, as far as the counters' bound of three |
| `congestion_spoof` | see [below](#what-the-checks-found) | four ACK frames a VBlank, as 4 ms in 16.7 ms give; a report every 3 VBlanks instead of 120 already exceeds 10 drops |
| `video` | the ends drift only through losses and packets that are cut or too long for their length; a keyframe that comes through ends the difference | four pixels, two colours, keyframe every second frame, one loss, a ring of one slot so that bursts overwrite. The proportions of lengths are not the code's, so that there are keyframes that pass: the radio carries seven bytes, the length field counts modulo eight; some keyframes and deltas are whole, some cut by the radio, some by their length |
| `video_cut` | see [below](#what-the-checks-found) | no losses, no overflowing length; header and palette of a keyframe alone are longer than what the radio carries, as 12 + 512 bytes and 512 are |
| `telemetry` | no key hangs, all come up when the user lets go; older input is never applied after younger; a new magnifier setting is first shown by a keyframe | two rows, two outputs, one typed key, two settings; signed snapshots numbered 0 to 2, two in flight, two faults, restarts of the DS. `Followed` splits the state space: with a PC that does not check signatures, keys, remaps and typed keys, unsigned, with one fault and a still magnifier; with one that does, order and magnifier, with no key held and no remaps. What a signature and a held key do to each other is in the theorems only |
| `sub_ui` | popup, overlay and keyboard stay consistent; a row is changed only to what was shown; one tap presses one thing; a slide ends | the program's rows, options, mask, pixels and speed; twelve places of the stylus, chosen so that each lies under several things (the space bar, SHOW KB and DONE are one place), among them one option on each of the four pages |
| `wii_boot` | answers, list and choice are kept through failing writes and power cuts; answers to probes are not counted twice; a PC that talks alone is heard while a session stays armed | two addresses, both of PCs, one of them the default; two hand-written files with values out of range, an empty list and one with an address twice that is longer than what is read; a list of two; a socket of one datagram; two probes, a quick and a slow answer |
| `audio` | while no chunk arrives in the middle of a pop, marked samples are heard once at most and in order; the DS keeps whole chunks, always; a driver that is up has everything it needs, one that is not has nothing (IOS's lock and lost heaps apart); the half being filled is not being played | ring of three samples, which wraps and overflows between chunks; chunks of two and halves of three, so that chunks straddle a swap; two samples kept of three; one heap, so that set-up fails for good after one failure; two slots. `PcEndsTheRace`: after a push in the middle of a pop, only what the PC had sent by its end is followed, for the other two properties |

`circbuf_irq` turns deadlock checking off: once `MaxPushes` packets are pushed
and popped, the model stops. All the others check it.

`InSync` speaks of the states in which everything sent has been delivered and
nothing was lost since a keyframe cleaned the picture, a packet that is cut or
too long for its length field counting as lost. `ConnectedWasAccepted` leaves out
the instant between two stores of the probe, in which the ACCEPT of the token
before still shows. `HeardInOrder` says nothing once `raced`: a chunk can then be
torn, repeated or skipped. `ListKept` counts: an address that the operator's file
has twice is kept twice. `ChannelsAgree` has an exception for the benchmark nobody
answers, and `ListKept` and `Remembered` one for writes that failed. See
[below](#what-the-checks-found) for all of these.

## Fairness

- `session_liveness`: weak fairness of the DS's poll, of its interrupt, and of
  the Wii's loop. They are the two main loops and the hardware. `Tick` and
  `Unheard` have strong fairness: a VBlank comes and a frame to a switched-off
  console is gone, however often the other side's activity disables them for a
  moment. Nothing is assumed of the user but that the IP menu is closed
  eventually: switching on or off, arming and leaving are never forced.
  The Wii does not come to its next frame while one is on the air (`Clear`): its
  send is a blocking call of the driver, and the DS takes a frame in its interrupt.
- `circbuf_irq`: weak fairness of the pop; the drain loop runs.
- `congestion`: weak fairness of both main loops.
- `video_cut`: weak fairness of capture, radio and decoder, and no losses: the
  picture stays wrong although everything runs.
- `telemetry`: weak fairness of a frame in which the user changes nothing
  (`DsIdle`; a frame is 17 ms) and of the PC's taking the oldest datagram.
- `sub_ui`: weak fairness of `Update` and of the poll, with whatever stylus: the
  main loop turns with every VBlank.
- `wii_boot`: weak fairness of the loop's receiving *past an armed gate*, and of
  each PC's sending: a PC that runs the host program sends frames all the time. The
  operator is free to open the menu for ever, or not to arm; `TalkerHears` speaks of
  a loop that stays armed.

`circbuf`, `session_safety`, `video` and `audio` check safety, which needs none.

## The proofs

`tlapm` checks every `*Proofs` module and `Recursion` to the last leaf. They
assume what the modules' `ASSUME`s say of the constants: timers, capacities and
slot counts are positive, tokens of the Wii are not tokens of the DS, `NoToken`
and `NoPacket` are neither, `Modes` is a non-empty set of the two modes, and what
stands in a file the operator wrote has been parsed: switches are Booleans,
channels integers of any size, the list of any length. What keeps
the runs small (one frame in flight, timers of one or two, three slots, two
outputs) is any number here; the bounds on faults, pushes and sequence numbers
stay in the models as constants of any size.

`Recursion` has no theorem about this system. The library's induction theorems
take a predicate as a parameter, which the provers cannot instantiate; here
induction is over a *set* of numbers (`SetInduction`, `InductionUpTo`), which they
can. `RecursiveExists` and `RecursiveKeeps` give a function
`f[n \in 0 .. N] == ...` its equation and an invariant. With them follows what the
recursive functions of the models compute for every input: `Evaluate` of
`Telemetry`, `ChannelList` of `WiiConfig`, `PushChunk` and `MarksOf` of
`AudioStream`; and what is true of counts: `CountUpTo`, `UpperBound`.

`SessionProofs`
- `SessionTypeCorrect`: `TypeOK` is inductive. One lemma for each actor's steps
  (`DsPollType`, `DsReceiveType`, `WiiStepType`), frame lemmas for what the other
  two leave alone.
- `GateHolds`: `GateInvariant` is inductive together with `TypeOK`.
- `LockedIsSilent`: from the same invariant, as an action property. Only
  `WiiMachine` and `WiiForward` lengthen the queue to the DS, both run only past
  the gate.
- `ProxyImplementsGate`: under `Phase`, every step is a step of `LaunchGate` or
  leaves phase and mode alone.
- `ConnectedIsAccepted`: `ConnectedWasAccepted` alone is not inductive, for
  nothing in it says where the ACCEPT came from. `AcceptedInv` adds that every
  ACCEPT in flight carries an accepted token and that the token does not change
  under a connected DS except in the probe, whose next step leaves `CONNECTED`.

`RingProofs`
- `CircBufTypeCorrect`; `CircBufSynced`: head is tail plus count modulo the size.
- `CircBufDropsOldest`: `CircBuf` implements `LossyQueue`. `PushAppends`,
  `PopShifts` and `PushOverwrites` say what an operation does to the sequence of
  slots from tail on; the work is arithmetic modulo the size, isolated in
  `Wrap`, `FollowingWraps` and `PositionOf`.
- `IrqTypeCorrect`: `IrqTypeOK` needs `Begun`, that a pop under way holds a count
  which is not 0; otherwise the lost updates could take it below 0.
- `NothingUnwritten`: `NoPhantom` follows from where the tail is during the
  *first* round. Until the head has gone round once the ring was never full, so
  the interrupt leaves the tail alone and the tail is the number of pops;
  `FirstRound` says that what is counted was pushed and not yet popped, with an
  excess of one between the two stores of a pop. After that round every slot has
  been written and nothing else matters, however wrong tail and count are.

`CongestionProofs`
- `CongestionTypeCorrect`, and `StepUpIsEarned` from `Streak`: the streak is at
  most the number of clear verdicts at the end of the window. Losses and sessions
  need no argument, since they touch neither.

`TelemetryProofs`
- `NoKeyHangs`: inductive by itself; `InjectKeeps` is the set algebra of releases
  before presses. It needs neither that outputs have keys of their own nor that a
  snapshot is well formed.
- `SignedInOrder`: `OrderInv` says that signed snapshots in flight are numbered
  upwards and below the DS's next number, and that the late ones do not exceed the
  last number seen, *which is then not 0*: that is what makes the code's test of
  `s_last_seen_seq != 0` harmless for the order.
- `MagnifierByKeyframe`: `LensAsked` says that a setting which is not the one of
  the last frame has a keyframe asked for; it survives a second snapshot that takes
  the setting back, and a keyframe that some other snapshot asked for.
- `TelemetryTypeCorrect`: `EvaluateIs` follows the rows one by one: two outputs at
  most, different ones, the first place filled first, also for rows that share.

`SubUiProofs`
- `ScreenTypeCorrect` and `ScreenConsistent` from one inductive invariant: neither
  holds alone, since the page of a row comes from its outputs and the outputs from
  a mask that has at most two. `RouteKeeps` has a step per press; `ChosenKeys` and
  `AtMostTwo` are the set arithmetic of one or two keys.
- `AppliedIsShown`: by the same lemma only APPLY changes the table, and
  `ChosenKeys` says what it writes.
- `OneTapOnePress`: `Rested` says that the pause has run as many frames as its
  counter is short of it, `PressWaits` that whatever a touch operates starts a pause
  and, DONE apart, has waited for the end of the one before.

`WiiBootProofs`
- `AddressesKept`: for hand-written lists of any length and with any repetitions.
  `ListInv` adds to `ListKept` that the list is never longer than `MaxSaved`:
  otherwise the file would be cut when it is read back. `AppendNew`, `RemoveOne`
  and `TakenFits` say how often an address is in a sequence after one is added,
  removed, or the sequence read.
- `ChoiceIsHeld`: the choice is compared with the configuration's address, so the
  invariant needs that the configuration keeps its keys.
- `AnswersRemembered`: `RememberedInv` says that what the card would be loaded as
  agrees with the answers; `ReadBack`, that a file of the wizard is read as it
  was meant.
- `BootTypeCorrect`: four invariants, each of which needs those before it.
  `ConfigInv`: whatever the card holds is loaded as a configuration with one to
  eleven channels of 1 to 11 (`ChannelListIs`, `LoadedTyped`). `CursorInv`: the
  menu's cursor is in the list or one behind it. `ProbesInv`: what is sent and
  answered agrees with the number of scores. `ChannelInv`: the radio is on the
  candidate's channel. `RankedIs` is that the code's two indices point into the
  times it has.
- `ChannelAgreed`: `AnswersInv` says that the answer the DS still has is one to an
  earlier probe, and that an answer to the probe waited for is one more than those
  counted. A token holds eight bits of the probe's number, so this needs that no
  two probes of one channel and place share them: `NoWrap`. It is true of the 18
  probes the wizard writes and of every number from 4 to 64 but 32 and 64; with
  those two an old answer can be taken for a new one only if a hand-written list
  names a channel twice, eight or four places apart.

`MediaProofs`
- `NoTornFrame`: `LinkInv` is conditional: once the length is written, a buffer
  that *still is a chunk* has the length of the frame being sent. `memcpy` writes
  the type before the length, so an ACK that comes after the type leaves its own
  behind, and one that comes before is overwritten.
- `AudioTypeCorrect`: with `RestInv`, of the driver and the double buffer: no way
  through `InitOnce`, however an attempt ends and whatever one before it left
  locked, leaves the program with a part of the driver. Also `QueueInv`, which
  bounds what the DS's pop holds.
  `PushChunkIs` takes a chunk of any length through the double buffer, sample by
  sample.
- `SoundInOrder`: `OrderNext` keeps `raced \/ OrderInv`. `OrderInv` lists the five places a marked sample can be in, from
  the DS back to the PC, and says that a place nearer to the ear holds the smaller
  ones and each holds its own in order. Every step passes samples to the next place
  (`Passing`), drops some (`Losing`) or records one (`Recording`). The work is in
  the PC's ring, whose readable window moves, grows and drops (`PushedWindow`,
  `PopKeepsOrder`), in the DS's, where `Waiting` is what the ring holds in the order
  it will be popped and is cut short by the chunk a pop has already copied
  (`QueueInv`), and in the double buffer (`WrittenInOrder`).
- `VideoTypeCorrect`: `EveryIndexIsUsed` is that the colours of a screen are
  numbered without gaps, which the palette needs.
- `PictureInSync`: `ChainInv` is about the queue of all packets under way. It is
  *gapless* from a place on if each later packet, besides the pixels it carries, is
  like the frame before it, and the last is the encoder's frame. If nothing is
  missing that is so from the picture of the DS on; whatever is missing, it is so
  from every keyframe that cleans. `WholeKeyframe` and `WholeDelta` say that what
  is not cut is decoded completely. A loss in the middle takes away the keyframes'
  claim to clean, which is what `Taint` models.

Only model-checked:

- liveness, for which the prover has no rules (fairness and `ENABLED`):
  `ArmedConnects`, `DsNotices`, `WiiNotices`, `DrainEnds`, `OverflowSlows`,
  `Recovers`, `KeysComeUp`, `SlideEnds`, `TalkerHears`.

Every invariant and every action property of the runs is the statement of a
theorem. What the runs `congestion_spoof` and `video_cut` find are counterexamples
and need none.

## What the checks found

Two runs check what the repository says of the program and find it violated.

- `congestion_spoof` (`nifi_net.c:157`): the Wii's own ACK frames count as drops,
  480 in a report against a threshold of 10, so the rate never goes back up on a
  clear network.
- `video_cut` (`wl_backend.c:232`): "Keyframes periodically clean any delta
  corruption" (`README.md:320`). The Wii sends at most 512 bytes, headers included,
  and a keyframe's palette alone has 512: every keyframe is cut, and dropped by the
  DS (`nifi_net.c:100`), since fewer bytes arrived than its header says. Without one
  lost packet the picture is never right.

Seen on the way, without a run of their own:

- `encoder.cpp:82` compares palette indices of two frames although `quantize`
  gives each frame a palette of its own. A screen that turns from all black to
  all white changes no index, so neither a delta nor a keyframe is sent until
  the periodic one. `InSync` is stated over indices for this reason.
- `hmac_host.cpp:217` takes `s_last_seen_seq = 0` for "none seen yet", and the DS
  numbers from 0: a duplicate of the first snapshot counts as new.
- `encoder.cpp:64` stores the length of a keyframe in 16 bits; a screen full of
  detail needs more. The decoder paints what it got, and encoder and picture differ
  until a keyframe fits.
- `channel_calib.c:138` puts eight bits of the probe's number in its token: see
  `ChannelAgreed` [above](#the-proofs).
- `nifi_net.c:262`: the probe tests the state at line 244 and stores
  `CONN_JOINING` at line 262; an ACCEPT handled in between is overwritten. The
  session is lost at once, where `protocol.h:201` speaks of a window of silence,
  and the Wii does not know. `ArmedConnects` holds all the same: the next JOIN is
  accepted again.
- `circ_buf.h:54`: a push into a full ring during the copy of a pop tears the
  packet, or makes the pop repeat one; it is then not the oldest. Updates of the
  count are lost, too. `circbuf_irq` shows that even so no index leaves the array,
  no slot is read that was never written, and draining ends; it says nothing of
  which packets come out whole. `HeardInOrder` does, for sound, up to the first
  such race (`raced`); after it samples can be heard twice or in another order.
- The same 512 bytes hold about 471 samples of sound, where 30 frames a second need
  533: chunks are cut, and dropped by the DS. `audio` is run on a link that carries
  what is sent.
- `ip_manager.c:11` promises "Automatic deduplication". `ip_manager_add_ip` does
  that; `ip_manager_load` (lines 38-66) keeps an address that a hand-written
  `ips.cfg` names twice, and removing it in the menu removes one of the two.
- `ip_manager.c:79`, `setup_wizard.c:240`: only the opening of a file is checked; what
  fails in writing or closing it is reported as saved.
- `wl_backend.c:43`: `wl_unlock_driver` forgets its right to the driver also when the
  manager does not open or the call fails; IOS's lock then stays, and nobody is left
  who could give it back.
- `audio_stream.c:10` and `:64` speak of looped playback; the call at line 65 says
  not to loop. `played` follows the call: a half is heard once.
- `sub_ui.c:817`: `1u << i` is 0 for the options from 32 on. `NOOBS_GUIDE.md:135`
  has the user choose from the whole list; these cannot be chosen, and a row that has one by
  default (SELECT, START) loses it when its popup is opened, another key chosen
  and APPLY touched.
- `sub_ui.c`: DONE does not wait for the pause after the last press, and keys of
  the on-screen keyboard, SHIFT included, act again in every frame the stylus is
  on them; `Unhurried` excepts both.
- `nifi_tx.c`: setting the channel only writes it down, the radio stays where it
  is, and the DS listens on channel 1. The benchmark compares nothing.
- `channel_calib.c:180`: when no candidate is answered, the Wii says that it keeps
  the configured channel, and has the last candidate set.
- `main.c:196` says "Using defaults" when the wizard cannot save; the answers are
  used, until the next boot.
- `setup_wizard.c` writes channel 1 and the default candidates; memory keeps those
  a hand-written file had, until the next boot.
- The address chosen in the menu is not written to `proxy.cfg`
  (`FINAL_STATUS_ZERO_CONFIG.txt:47`: "All settings saved"), and an operator
  who keeps the default address sees the wizard at every boot
  (`SETUP_WIZARD_SUMMARY.txt:213`: once).
- `ip_manager.c` reads ten addresses; a hand-written file with more loses the rest
  with the next change.
- `wl_backend.c:76`: a driver that does not open leaves a heap behind with every
  attempt, and every frame and every ACK is an attempt.
- The PC records at 16000 Hz, the DS plays at 16384.
- `input_inject.cpp:262` presses the left mouse button with every touch of the
  trackpad and has no code that releases it: after the first touch the PC drags,
  where `NOOBS_GUIDE.md:182` speaks of moving the mouse.

## What is not modelled

- **Header bytes.** Headers are taken to be valid. The code writes them in the
  machine's order, and the Wii's is not that of the other two.
- **Of `Video`**: more than 256 colours (the palette search's fallback), the
  downscaling of the desktop and the magnifier's geometry;
  none of them keeps state that the properties see. The DS's ring is a sequence there,
  popped in one step: a packet torn by the interrupt is not followed into the
  decoder.
- **Of `Telemetry`**: the mouse (its position is the last one sent, and its
  button has no state but pressed), which keys the on-screen keyboard's codes are
  on the PC, and the cryptography of the signature.
- **Of `SubUi`**: what is drawn, and the saving of the remap table to the DS's
  card (`config.c`).
- **Of `AudioPath`**: a device slower than 16 kHz, whose samples are repeated; a
  network between PC and Wii that reorders datagrams (it may lose them); whether
  a session or sound is on when a chunk is forwarded, kept or played, which is
  open at every step instead. In which byte a copy is torn: it is cut in two halves.
- **Of `WlBackend`**: the callback inside `wl_init_once` or inside a call of the
  driver. The receive queue (`nifi_rx.c`) never holds more than one frame.
- **Of `WiiBoot`**: which ports and timeouts are configured, editing of an address
  digit by digit, files of which only the first lines reach the card, and the
  session, of which only `armed` is kept: the rest is `WiiProxy`'s.
- **SHA-256**: a published algorithm, for which test vectors are the better check.
- **Network of the PC** (`net_host.cpp`): one socket; the modules of what it
  carries have its losses, copies and delays.
- **Network discovery** (`net_utils.cpp`): calls of the operating system.
- **Screens, logging, build files**: nothing they do is read back.
- Times are counts of ticks. That the Wii counts its announces in loop iterations
  of about 200 µs while the documents speak of VBlanks is visible in `WiiProxy`
  but is a rate, not something a property here can state.
