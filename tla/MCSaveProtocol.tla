--------------------------- MODULE MCSaveProtocol ---------------------------
(* Small instances of SaveProtocol: the default game and a new one.         *)
EXTENDS SaveProtocol, TLC

CONSTANTS default, alpha, first, second

MCCharacters == {default, alpha}
MCCampaigns == {first, second}

\* Once a switch has met the worker's save, no property of the passing run says
\* anything any more (crossed only grows): such states need no successors.
NoSwitchMet == "switch" \notin crossed
=============================================================================
