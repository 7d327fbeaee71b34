---------------------------- MODULE MCTelemetry -----------------------------
(***************************************************************************)
(* Telemetry for TLC: two buttons, outputs and magnifier settings; the     *)
(* on-screen keyboard types a key that is also an output's.                *)
(***************************************************************************)
EXTENDS Telemetry

TwoOutputs == {1, 2}
TwoKeys == <<11, 12>>
TwoRows == <<<<1, 0>>, <<0, 0>>>>
OneShared == {11}
TwoLenses == {"off", "2x"}

\* Bound: with a PC that does not check signatures, buttons, remaps and typed keys
\* are followed, unsigned and with one fault; with one that does, the order of
\* what it applies and the magnifier, with no button held.
Followed ==
  IF checking
    THEN table = Defaults /\ held = {}
    ELSE ~signing /\ lens = hostLens /\ faults > 0
=============================================================================
