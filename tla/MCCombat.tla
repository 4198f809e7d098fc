------------------------------ MODULE MCCombat ------------------------------
(* Instances of Combat for TLC.                                            *)
EXTENDS Combat

FoeHpSet == {2}
BlowSet == {1, 2}
RollSet == {1, 3, 5}
=============================================================================
