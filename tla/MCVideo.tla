------------------------------ MODULE MCVideo -------------------------------
(***************************************************************************)
(* Video for TLC: a screen of a few pixels.                                *)
(***************************************************************************)
EXTENDS Video

TwoColours == {"black", "white"}
=============================================================================
