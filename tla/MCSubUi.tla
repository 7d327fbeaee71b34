------------------------------ MODULE MCSubUi -------------------------------
(***************************************************************************)
(* SubUi for TLC: the twelve rows with the program's defaults, a stylus on *)
(* every button, two keys and the trackpad, and one column of the popup's  *)
(* options on each of its four pages.                                      *)
(***************************************************************************)
EXTENDS SubUi

\* Each point is under several things, as the screen changes.
Touches ==
  {<<128, 180>>,  \* SHOW KB, the space bar, DONE
   <<128, 80>>,   \* HIDE KB, the trackpad, the row of START
   <<20, 10>>, <<180, 10>>, <<220, 10>>, <<244, 10>>,  \* PAD, MAG, MODE, MAP
   <<20, 165>>,   \* SHIFT, the panel
   <<40, 40>>, <<200, 40>>,  \* PREV, NEXT
   <<76, 150>>, <<176, 150>>,  \* APPLY, CANCEL, the row of X
   <<30, 150>>}   \* an option, the row of X

\* load_default_remaps: A, B, SELECT, START, four directions, R, L, X, Y.
DefaultOutputs == <<1, 2, 39, 38, 0, 0, 0, 0, 0, 0, 24, 25>>

Keys ==
  {[x |-> 6, y |-> 58, w |-> 28, h |-> 14, normal |-> "shift", shifted |-> "shift"],
   [x |-> 50, y |-> 76, w |-> 156, h |-> 16, normal |-> " ", shifted |-> " "],
   [x |-> 114, y |-> 4, w |-> 16, h |-> 14, normal |-> "7", shifted |-> "&"],
   [x |-> 74, y |-> 58, w |-> 16, h |-> 14, normal |-> "c", shifted |-> "C"]}
=============================================================================
