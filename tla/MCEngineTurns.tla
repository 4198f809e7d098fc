--------------------------- MODULE MCEngineTurns ----------------------------
(* Small instances of EngineTurns: two campaigns, one or two settings.     *)
EXTENDS EngineTurns

CONSTANTS c1, c2, s1, s2

MCCampaigns == {c1, c2}
MCSettings == {s1, s2}
=============================================================================
