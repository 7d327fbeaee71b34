----------------------------- MODULE MCSession ------------------------------
(***************************************************************************)
(* Session for TLC: small timers, few tokens.                              *)
(***************************************************************************)
EXTENDS Session

\* Tokens of the Wii that are not tokens of the DS.
OneWiiToken == {10}
TwoWiiTokens == {10, 11}

\* The mode of a console without haxxstation.nds, and both.
FlashcartOnly == {"FLASHCART"}
BothModes == {"FLASHCART", "OTA"}
=============================================================================
