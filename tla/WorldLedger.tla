----------------------------- MODULE WorldLedger ----------------------------
(***************************************************************************)
(* What the game remembers of its world, and that saving keeps it.  The    *)
(* game master's tools and the player's jobs write into a GameState; its   *)
(* two halves (serialize.cpp) are written to two rows and read back by     *)
(* load_save, by new_campaign (the character's half only) and at the next  *)
(* start.  Reading replaces some fields, adds to others and leaves what a  *)
(* row does not mention, so it is right only on the state it is given.     *)
(*                                                                         *)
(* An entry of a list is named by the game it was made in and a number, so *)
(* that one that strays into another game, or comes twice, can be told.    *)
(* Fields read and written alike are one field: assets stands for the four *)
(* lists of PlayerAssets, hand for both slots, world for the plain texts,  *)
(* actions also for the goals and tags of meta.  The player's numbers are  *)
(* in CharacterSheet.  A call and its save are one step; SaveProtocol has  *)
(* the interleavings, the crashes between the writes, and the deletes.     *)
(***************************************************************************)
EXTENDS Integers, Sequences, FiniteSets, SequencesExt, FiniteSetsExt

CONSTANTS Characters, Campaigns,   \* ids; a new one is drawn for a new game
          Folk, Factions,          \* ids the game master gives to NPCs and factions
          Names,                   \* of places and facts
          MaxStanding,             \* the bound on a faction's relationship
          NoGame,                  \* no game has been saved
          MaxMade                  \* bound on the changes made

ASSUME LedgerAssumption ==
    /\ Characters \subseteq Nat /\ Characters # {} /\ Campaigns \subseteq Nat /\ Campaigns # {}
    /\ MaxStanding \in Nat /\ MaxMade \in Nat

VARIABLES
    game,                    \* state_
    characterId, campaignId,
    characters, campaigns,   \* the rows, from ids to what was written
    active,                  \* the "active" row
    turnInProgress,
    unsaved,                 \* history: the game changed since it was saved or loaded
    made                     \* history: changes made so far

idVars    == <<characterId, campaignId>>
storeVars == <<characters, campaigns, active>>
vars == <<game, idVars, storeVars, turnInProgress, unsaved, made>>

\* GameState{}.
FreshState ==
    [inventory |-> <<>>, hand |-> {}, assets |-> <<>>, world |-> "unset",
     visited |-> <<>>, facts |-> <<>>, npcs |-> <<>>, factions |-> <<>>,
     story |-> <<>>, enemies |-> <<>>, actions |-> <<>>]

\* A map with one entry replaced or added.
Put(map, key, value) == [k \in DOMAIN map \cup {key} |-> IF k = key THEN value ELSE map[k]]

Made(of) == [of |-> of, n |-> made]

-----------------------------------------------------------------------------
(* Writing and reading a half.                                             *)

\* Mutant: the factions are left out.
WriteCharacterFewer(g) ==
    [inventory |-> g.inventory, equipment |-> [slot \in {"hand" : i \in g.hand} |-> CHOOSE i \in g.hand : TRUE],
     assets |-> g.assets, world |-> g.world, visited |-> g.visited, facts |-> g.facts,
     npcs |-> SetToSeq({g.npcs[k] : k \in DOMAIN g.npcs}), factions |-> <<>>]

\* write_character_fields: a slot with nothing in it is not mentioned, and the maps
\* become arrays of what they hold.
WriteCharacter(g) ==
    [inventory |-> g.inventory, equipment |-> [slot \in {"hand" : i \in g.hand} |-> CHOOSE i \in g.hand : TRUE],
     assets |-> g.assets, world |-> g.world, visited |-> g.visited, facts |-> g.facts,
     npcs |-> SetToSeq({g.npcs[k] : k \in DOMAIN g.npcs}),
     factions |-> SetToSeq({g.factions[k] : k \in DOMAIN g.factions})]

WriteCampaign(g) == [story |-> g.story, enemies |-> g.enemies, actions |-> g.actions]

\* str_array_from, and the loops over the assets and the enemies: nothing is cleared.
Appended(list, array) == list \o array

\* known_npcs[npc.id] = npc for each of the array: the last of an id stays.
ReadMap(array, out) ==
    LET placesOf(id) == {i \in DOMAIN array : array[i].id = id}
    IN [id \in DOMAIN out \cup {r.id : r \in ToSet(array)} |->
          IF placesOf(id) = {} THEN out[id] ELSE array[Max(placesOf(id))]]

\* read_character_fields: inventory is cleared first, the other lists are not.
ReadCharacter(row, out) ==
    [out EXCEPT !.inventory = row.inventory,
                !.hand = IF "hand" \in DOMAIN row.equipment THEN {row.equipment["hand"]} ELSE @,
                !.assets = Appended(@, row.assets),
                !.world = row.world,
                !.visited = Appended(@, row.visited),
                !.facts = Appended(@, row.facts),
                !.npcs = ReadMap(row.npcs, @),
                !.factions = ReadMap(row.factions, @)]

\* read_campaign_fields: the story is cleared first.
ReadCampaign(row, out) ==
    [out EXCEPT !.story = row.story,
                !.enemies = Appended(@, row.enemies),
                !.actions = Appended(@, row.actions)]

\* What a start makes of the rows of an id pair (load_saved_state).
ReadGame(c, k) ==
    LET half == IF c \in DOMAIN characters THEN ReadCharacter(characters[c], FreshState) ELSE FreshState
    IN IF k \in DOMAIN campaigns THEN ReadCampaign(campaigns[k].json, half) ELSE half

\* save(): both rows and the active pair, from game g under the ids c and k.
Save(g, c, k) ==
    /\ characters' = Put(characters, c, WriteCharacter(g))
    /\ campaigns' = Put(campaigns, k, [parent |-> c, json |-> WriteCampaign(g)])
    /\ active' = <<c, k>>
    /\ unsaved' = FALSE

NotSaved == unsaved' = TRUE /\ UNCHANGED storeVars

-----------------------------------------------------------------------------
\* The ids of a first start are constants of the engine.
Init ==
    /\ game = FreshState
    /\ characterId = Min(Characters) /\ campaignId = Min(Campaigns)
    /\ characters = <<>> /\ campaigns = <<>> /\ active = NoGame
    /\ turnInProgress = FALSE /\ unsaved = FALSE /\ made = 0

\* The end of the process and the next start (the constructor).
Restart ==
    /\ IF active = NoGame
       THEN characterId' = Min(Characters) /\ campaignId' = Min(Campaigns)
       ELSE characterId' = active[1] /\ campaignId' = active[2]
    /\ game' = ReadGame(characterId', campaignId')
    /\ turnInProgress' = FALSE /\ unsaved' = FALSE
    /\ UNCHANGED <<storeVars, made>>

Count == made < MaxMade /\ made' = made + 1

-----------------------------------------------------------------------------
(* The tools.  One is called by the game master while a job runs, or from  *)
(* the inspector between jobs, which saves at once.                        *)

\* A tool that fails changes nothing, and is no step.
Change(g) ==
    /\ Count
    /\ game' = g
    /\ IF turnInProgress THEN NotSaved ELSE Save(g, characterId, campaignId)
    /\ UNCHANGED <<idVars, turnInProgress>>

AddItem == Change([game EXCEPT !.inventory = Append(@, Made(characterId))])

\* remove_item; player_consume does the same.
RemoveItem ==
    \E i \in DOMAIN game.inventory : Change([game EXCEPT !.inventory = RemoveAt(@, i)])

\* add_business, add_relation, add_property, add_mount.
AddAsset == Change([game EXCEPT !.assets = Append(@, Made(characterId))])

\* remove_mount, remove_property.
RemoveAsset == \E i \in DOMAIN game.assets : Change([game EXCEPT !.assets = RemoveAt(@, i)])

\* change_faction_tool: a faction that is not there is made first.
ChangeFaction(id, delta) ==
    LET old == IF id \in DOMAIN game.factions THEN game.factions[id]
               ELSE [id |-> id, of |-> characterId, standing |-> 0]
        new == Max({-MaxStanding, Min({MaxStanding, old.standing + delta})})
    IN Change([game EXCEPT !.factions = Put(@, id, [old EXCEPT !.standing = new])])

\* The whole record is replaced.
UpsertNpc(id) ==
    Change([game EXCEPT !.npcs = Put(@, id, [id |-> id, of |-> characterId, n |-> made])])

\* A place or a fact is noted once.
Noted(list, entry) == IF Contains(list, entry) THEN list ELSE Append(list, entry)

SetLocation(place) ==
    Change([game EXCEPT !.world = "moved", !.visited = Noted(@, [of |-> characterId, n |-> place])])

AddWorldFact(fact) == Change([game EXCEPT !.facts = Noted(@, [of |-> characterId, n |-> fact])])

\* set_world_tool: the description, a starting place and a hook for the story.
SetWorld(place) ==
    Change([game EXCEPT !.world = "told", !.visited = Noted(@, [of |-> characterId, n |-> place]),
                        !.story = Append(@, Made(campaignId))])

StartCombat == Change([game EXCEPT !.enemies = <<Made(campaignId)>>])
EndCombat == Change([game EXCEPT !.enemies = <<>>])

\* The list is replaced.
SetSuggestedActions == Change([game EXCEPT !.actions = <<Made(campaignId)>>])

\* By the player or by the game master: what was held goes back to the inventory.
EquipItem ==
    \E i \in DOMAIN game.inventory :
        Change([game EXCEPT !.hand = {game.inventory[i]},
                            !.inventory = RemoveAt(@, i) \o SetToSeq(game.hand)])
UnequipItem ==
    /\ game.hand # {}
    /\ Change([game EXCEPT !.hand = {}, !.inventory = @ \o SetToSeq(game.hand)])

\* The player collects income or rolls a check: a line of the story says so.
Note ==
    /\ ~turnInProgress
    /\ Change([game EXCEPT !.story = Append(@, Made(campaignId))])

\* The table of the game master's tools, those of the other modules left out.
Tool ==
    \/ AddItem \/ RemoveItem \/ AddAsset \/ RemoveAsset \/ EquipItem \/ UnequipItem
    \/ StartCombat \/ EndCombat \/ SetSuggestedActions
    \/ \E id \in Factions, delta \in {-1, 1} : ChangeFaction(id, delta)
    \/ \E id \in Folk : UpsertNpc(id)
    \/ \E name \in Names : SetLocation(name) \/ AddWorldFact(name) \/ SetWorld(name)

-----------------------------------------------------------------------------
(* Jobs.                                                                   *)

\* submit_turn adds the player's line to the story; another job adds none.
Submit ==
    /\ ~turnInProgress /\ turnInProgress' = TRUE
    /\ \/ /\ Count /\ NotSaved
          /\ game' = [game EXCEPT !.story = Append(@, Made(campaignId))]
       \/ UNCHANGED <<game, made, unsaved, storeVars>>
    /\ UNCHANGED idVars

\* run_worldgen: technology and magic are set before the model is asked.
SetTechnology == turnInProgress /\ Change([game EXCEPT !.world = "generated"])

\* The end of a turn, a world generation or a fight: a line, if there is one, and the save.
EndJob ==
    /\ turnInProgress /\ turnInProgress' = FALSE
    /\ \/ Count /\ game' = [game EXCEPT !.story = Append(@, Made(campaignId))]
       \/ UNCHANGED <<made, game>>
    /\ Save(game', characterId, campaignId)
    /\ UNCHANGED idVars

\* run_acquire_mount: the mount, a line that says so, and the save.
AcquireMount ==
    /\ turnInProgress /\ turnInProgress' = FALSE
    /\ Count
    /\ game' = [game EXCEPT !.assets = Append(@, Made(characterId)),
                            !.story = Append(@, Made(campaignId))]
    /\ Save(game', characterId, campaignId)
    /\ UNCHANGED idVars

\* An autofill, and a job without a key, end as they began and nothing is saved.
GiveUp ==
    /\ turnInProgress /\ turnInProgress' = FALSE
    /\ UNCHANGED <<game, idVars, storeVars, unsaved, made>>

-----------------------------------------------------------------------------
(* Other games.                                                            *)

\* The player goes on with game g under the ids c and k, and that is saved.
Play(g, c, k) ==
    /\ ~turnInProgress
    /\ game' = g /\ characterId' = c /\ campaignId' = k
    /\ Save(g, c, k)
    /\ UNCHANGED turnInProgress

\* A game begins with a line and actions; its campaign's id is drawn.
Begun(g, k) == [g EXCEPT !.story = Append(@, Made(k)), !.actions = <<Made(k)>>]

NewGame ==
    /\ Count
    /\ \E c \in Characters, k \in Campaigns :
        Play(Begun([FreshState EXCEPT !.world = "asked"], k), c, k)

\* Mutant: the rows are read into the game at hand.
LoadSaveOver ==
    /\ \E k \in DOMAIN campaigns :
        LET c == campaigns[k].parent
        IN Play(ReadCampaign(campaigns[k].json, ReadCharacter(characters[c], game)), c, k)
    /\ UNCHANGED made

\* load_save: both halves into a fresh state.
LoadSave ==
    /\ \E k \in DOMAIN campaigns :
        Play(ReadGame(campaigns[k].parent, k), campaigns[k].parent, k)
    /\ UNCHANGED made

\* Mutant: only the character's half of the game at hand is replaced.
NewCampaignInPlace ==
    /\ Count
    /\ \E c \in DOMAIN characters, k \in Campaigns :
        Play(Begun(ReadCharacter(characters[c],
                                 [FreshState EXCEPT !.story = game.story, !.enemies = game.enemies]), k), c, k)

\* new_campaign: the character's half is carried forward.
NewCampaign ==
    /\ Count
    /\ \E c \in DOMAIN characters, k \in Campaigns :
        Play(Begun(ReadCharacter(characters[c], FreshState), k), c, k)

Next ==
    \/ Restart \/ Tool \/ Note
    \/ Submit \/ SetTechnology \/ EndJob \/ AcquireMount \/ GiveUp
    \/ NewGame \/ LoadSave \/ NewCampaign

Spec == Init /\ [][Next]_vars

-----------------------------------------------------------------------------
(* Properties.                                                             *)

Lists(g) == {g.inventory, g.assets, g.visited, g.facts, g.story, g.enemies, g.actions}
MapValues(map) == {map[k] : k \in DOMAIN map}
OfCharacter(g) ==
    UNION {ToSet(g.inventory), g.hand, ToSet(g.assets), ToSet(g.visited), ToSet(g.facts),
           MapValues(g.npcs), MapValues(g.factions)}
OfCampaign(g) == UNION {ToSet(g.story), ToSet(g.enemies), ToSet(g.actions)}

\* Types, and the maps' keys are the ids of what they hold.
TypeOK ==
    /\ DOMAIN game = DOMAIN FreshState
    /\ DOMAIN game.npcs \subseteq Folk /\ DOMAIN game.factions \subseteq Factions
    /\ \A id \in DOMAIN game.npcs : game.npcs[id].id = id
    /\ \A id \in DOMAIN game.factions :
        game.factions[id].id = id /\ game.factions[id].standing \in -MaxStanding..MaxStanding
    /\ Cardinality(game.hand) <= 1
    /\ characterId \in Characters /\ campaignId \in Campaigns
    /\ DOMAIN characters \subseteq Characters /\ DOMAIN campaigns \subseteq Campaigns
    /\ active \in (Characters \X Campaigns) \cup {NoGame}
    /\ turnInProgress \in BOOLEAN /\ unsaved \in BOOLEAN /\ made \in 0..MaxMade

\* The next start gives back the game that is played, entry for entry, however it came
\* to be (tools, other saves, new campaigns, earlier starts), unless it changed since
\* it was saved (serialize.cpp, load_saved_state).
SavedReadsBack ==
    (active # NoGame /\ ~unsaved) => ReadGame(active[1], active[2]) = game

\* Nothing is in the game twice, although reading adds to the lists it finds
\* (serialize.cpp:120-129, 576-606, 650-672).
NothingDoubled ==
    /\ \A list \in Lists(game) : IsInjective(list)
    /\ game.hand \cap ToSet(game.inventory) = {}

\* What belongs to a character or a campaign does not come into another's game: a new
\* campaign takes the character's half and no more (engine.cpp:757-791).
HalvesStayApart ==
    /\ \A entry \in OfCharacter(game) : entry.of = characterId
    /\ \A entry \in OfCampaign(game) : entry.of = campaignId
=============================================================================
