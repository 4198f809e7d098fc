SPECIFICATION Spec
CONSTANTS
    Characters <- MCCharacters
    Campaigns <- MCCampaigns
    Folk = {npc}
    Factions = {guild}
    Names = {1}
    MaxStanding = 1
    NoGame = NoGame
    MaxMade = 4
INVARIANTS SavedReadsBack NothingDoubled HalvesStayApart
\* The changes run out.
CHECK_DEADLOCK FALSE
