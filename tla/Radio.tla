------------------------------- MODULE Radio --------------------------------
(***************************************************************************)
(* External: the raw 802.11 link between the Wii and the DS.  Both ends    *)
(* broadcast without acknowledgement, so a frame arrives at most once, in  *)
(* order, or not at all.  Each direction is a FIFO of at most RadioCap     *)
(* frames; a frame sent into a full FIFO is lost, as is one that fades     *)
(* while faults remain.  The budget of faults makes the radio eventually   *)
(* reliable, which only the liveness properties rely on.                   *)
(***************************************************************************)
EXTENDS Protocol, Sequences

CONSTANTS
  RadioCap,   \* frames in flight in one direction
  MaxFaults   \* frames the radio, or the transmit queue, may lose

VARIABLES
  toDs,       \* frames on their way from the Wii to the DS
  toWii,      \* frames on their way from the DS to the Wii
  faults      \* losses still to come

ASSUME RadioAssumption == RadioCap \in Nat \ {0} /\ MaxFaults \in Nat

radioVars == <<toDs, toWii, faults>>

RadioTypeOK ==
  /\ toDs \in Seq(Frames)
  /\ toWii \in Seq(Frames)
  /\ faults \in 0 .. MaxFaults

RadioInit ==
  /\ toDs = <<>>
  /\ toWii = <<>>
  /\ faults = MaxFaults

Push(channel, frame) ==
  IF Len(channel) < RadioCap THEN Append(channel, frame) ELSE channel

\* A frame fades on its way to the DS, or to the Wii.
FadeToDs ==
  /\ toDs # <<>>
  /\ faults > 0
  /\ toDs' = Tail(toDs)
  /\ faults' = faults - 1
  /\ UNCHANGED toWii

FadeToWii ==
  /\ toWii # <<>>
  /\ faults > 0
  /\ toWii' = Tail(toWii)
  /\ faults' = faults - 1
  /\ UNCHANGED toDs
=============================================================================
