--------------------------- MODULE MCWorldLedger ---------------------------
(* Two characters, three campaigns, one NPC, one faction, one name.         *)
EXTENDS WorldLedger

MCCharacters == {1, 2}
MCCampaigns == {1, 2, 3}
=============================================================================
