---------------------------- MODULE MCGamePanels ----------------------------
(* Instances of GamePanels for TLC: model values and bounds only.          *)
EXTENDS GamePanels
=============================================================================
