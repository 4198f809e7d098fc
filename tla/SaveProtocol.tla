---------------------------- MODULE SaveProtocol ----------------------------
(***************************************************************************)
(* Who writes which row of the store, and when (engine/src/engine.cpp).    *)
(*                                                                         *)
(* The game lives in memory as two halves, the persistent character and    *)
(* the campaign being played, under the ids character_id_ and campaign_id_.*)
(* save() copies both halves under state_mutex_ and then, without it,      *)
(* writes three rows whose ids it reads as it goes.  The UI thread saves   *)
(* at the end of its methods; the worker saves after a job, when           *)
(* turn_in_progress_ has been cleared already, so the two saves and the    *)
(* other methods interleave.  The process may crash between any two        *)
(* calls of the store; each call is one SQLite statement and is atomic.    *)
(*                                                                         *)
(* A half is abstracted to whose it is and how many changes it has seen.   *)
(* A GameState{} that was never filled counts as the half of its id,       *)
(* unchanged.  Ids drawn at random are taken to be new (six digits).       *)
(*                                                                         *)
(* Nothing keeps the player from calling while the worker has a job or a   *)
(* save.  Most such calls do no harm; the history `crossed' names those    *)
(* that met the worker, by what they do, and each promise is stated with   *)
(* the kinds of calls that can break it.                                   *)
(***************************************************************************)
EXTENDS Naturals, Functions, FiniteSets

CONSTANTS Characters, Campaigns,
          DefaultCharacter, DefaultCampaign,  \* the ids before any game was made
          NoRow,
          MaxChanges    \* bound on the changes of one half

ASSUME StoreAssumption ==
    /\ DefaultCharacter \in Characters /\ DefaultCampaign \in Campaigns
    /\ MaxChanges \in Nat
    /\ NoRow \notin [character : Characters, campaign : Campaigns]
    /\ NoRow \notin Characters \cup [whose : Characters, changes : 0..MaxChanges]

Threads == {"ui", "worker"}

VARIABLES
    characters,   \* the store: character id -> half
    campaigns,    \* the store: campaign id -> [owner, half]
    active,       \* the store: the "active" row
    characterId, campaignId, character, campaign,   \* the game in memory
    worker,       \* "idle", or a job that has "started" or has "changed" the game
    savePc, copy, readId,   \* per thread: the save() in progress
    upc, buffer,            \* the UI thread: the call in progress, what it read
    unsaved,      \* history: a turn was refused after the story changed
    crossed,      \* history: what calls have done that met a job or a save of the worker's
    last          \* history: the game as the last completed save recorded it, until deleted

storeVars == <<characters, campaigns, active>>
gameVars  == <<characterId, campaignId, character, campaign, worker>>
saveVars  == <<savePc, copy, readId>>
callVars  == <<upc, buffer>>
ghostVars == <<unsaved, crossed, last>>
vars == <<storeVars, gameVars, saveVars, callVars, ghostVars>>

CharacterHalf == [whose : Characters, changes : 0..MaxChanges]
CampaignHalf  == [whose : Campaigns, changes : 0..MaxChanges]

Untouched(id) == [whose |-> id, changes |-> 0]
Changed(half) == [half EXCEPT !.changes = @ + 1]
Changeable(half) == half.changes < MaxChanges

\* A map with one entry more, and one with some entries less.
Upsert(rows, id, row) == [x \in DOMAIN rows \cup {id} |-> IF x = id THEN row ELSE rows[x]]
Drop(rows, ids) == Restrict(rows, DOMAIN rows \ ids)
Loaded(rows, id, otherwise) == IF id \in DOMAIN rows THEN rows[id] ELSE otherwise

-----------------------------------------------------------------------------
NoCopy == [t \in Threads |-> <<Untouched(DefaultCharacter), Untouched(DefaultCampaign)>>]
NoSave == [t \in Threads |-> "none"]
NoId   == [t \in Threads |-> NoRow]

\* An empty store and the default ids.
Init ==
    /\ characters = <<>> /\ campaigns = <<>> /\ active = NoRow
    /\ characterId = DefaultCharacter /\ campaignId = DefaultCampaign
    /\ character = Untouched(DefaultCharacter) /\ campaign = Untouched(DefaultCampaign)
    /\ worker = "idle"
    /\ savePc = NoSave /\ copy = NoCopy /\ readId = NoId
    /\ upc = "idle" /\ buffer = NoRow
    /\ unsaved = FALSE /\ crossed = {} /\ last = NoRow

(* The process dies and is started again: the constructor takes the ids of *)
(* the active row and load_saved_state loads what rows there are for them. *)
Restart ==
    LET ids == IF active = NoRow
               THEN [character |-> DefaultCharacter, campaign |-> DefaultCampaign]
               ELSE active
    IN /\ characterId' = ids.character /\ campaignId' = ids.campaign
       /\ character' = Loaded(characters, ids.character, Untouched(ids.character))
       /\ campaign' = Loaded(campaigns, ids.campaign,
                             [half |-> Untouched(ids.campaign)]).half
       /\ worker' = "idle"
       /\ savePc' = NoSave /\ copy' = NoCopy /\ readId' = NoId
       /\ upc' = "idle" /\ buffer' = NoRow
       /\ unsaved' = FALSE
       /\ UNCHANGED <<storeVars, crossed, last>>

-----------------------------------------------------------------------------
(* save(), by thread t.                                                    *)

\* The copy of both halves, under the state lock.
SerializeGame(t) ==
    /\ savePc[t] = "copy"
    /\ copy' = [copy EXCEPT ![t] = <<character, campaign>>]
    /\ savePc' = [savePc EXCEPT ![t] = "character"]
    /\ unsaved' = FALSE
    /\ UNCHANGED <<storeVars, gameVars, readId, callVars, crossed, last>>

\* The character row, under the id of the moment.
UpsertCharacter(t) ==
    /\ savePc[t] = "character"
    /\ characters' = Upsert(characters, characterId, copy[t][1])
    /\ savePc' = [savePc EXCEPT ![t] = "campaignId"]
    /\ UNCHANGED <<campaigns, active, gameVars, copy, readId, callVars, ghostVars>>

\* Each of the next two rows needs two ids, which are read one after the other.
ReadId(t, from, to, id) ==
    /\ savePc[t] = from
    /\ readId' = [readId EXCEPT ![t] = id]
    /\ savePc' = [savePc EXCEPT ![t] = to]
    /\ UNCHANGED <<storeVars, gameVars, copy, callVars, ghostVars>>

ReadCampaignId(t) == ReadId(t, "campaignId", "campaign", campaignId)

\* The campaign row, with the owner of the moment.
UpsertCampaign(t) ==
    /\ savePc[t] = "campaign"
    /\ campaigns' = Upsert(campaigns, readId[t], [owner |-> characterId, half |-> copy[t][2]])
    /\ savePc' = [savePc EXCEPT ![t] = "characterId"]
    /\ UNCHANGED <<characters, active, gameVars, copy, readId, callVars, ghostVars>>

ReadCharacterId(t) == ReadId(t, "characterId", "active", characterId)

\* The active row, whatever became of the other two; save() returns.
UpsertActive(t) ==
    /\ savePc[t] = "active"
    /\ active' = [character |-> readId[t], campaign |-> campaignId]
    /\ savePc' = [savePc EXCEPT ![t] = "none"]
    /\ readId' = [readId EXCEPT ![t] = NoRow]
    /\ copy' = [copy EXCEPT ![t] = NoCopy[t]]
    /\ last' = [ids |-> active', character |-> copy[t][1], campaign |-> copy[t][2]]
    /\ UNCHANGED <<characters, campaigns, gameVars, callVars, unsaved, crossed>>

Save(t) == \/ SerializeGame(t) \/ UpsertCharacter(t) \/ ReadCampaignId(t)
           \/ UpsertCampaign(t) \/ ReadCharacterId(t) \/ UpsertActive(t)

StartSave(t) == savePc' = [savePc EXCEPT ![t] = "copy"] /\ UNCHANGED <<copy, readId>>

-----------------------------------------------------------------------------
(* The UI thread.                                                          *)

turnInProgress == worker # "idle"

WorkerQuiet == ~turnInProgress /\ savePc["worker"] = "none"

\* The UI thread is between two calls and makes a new one.
MayCall == upc = "idle" /\ savePc["ui"] = "none"

\* The kinds of calls that can do harm to a job or a save they meet: they change
\* the game, take up another one, read rows to take it up, or delete rows.
Crossings == {"change", "switch", "read", "delete"}
Meets(kind) == crossed' = IF WorkerQuiet THEN crossed ELSE crossed \cup {kind}

\* Ids that neither the store nor the engine uses.
NewCharacters ==
    {c \in Characters \ (DOMAIN characters \cup {characterId}) :
        active # NoRow => c # active.character}
NewCampaigns ==
    {k \in Campaigns \ (DOMAIN campaigns \cup {campaignId}) :
        active # NoRow => k # active.campaign}

\* Mutant: the campaign keeps the id of the one before.
NewGameOldId ==
    /\ MayCall /\ ~turnInProgress
    /\ \E c \in NewCharacters, k \in NewCampaigns :
        /\ characterId' = c /\ UNCHANGED campaignId
        /\ character' = Untouched(c) /\ campaign' = Untouched(k)
    /\ StartSave("ui") /\ Meets("switch")
    /\ UNCHANGED <<storeVars, worker, callVars, unsaved, last>>

\* new_game: a character and a campaign under ids drawn now, then a save.
NewGame ==
    /\ MayCall /\ ~turnInProgress
    /\ \E c \in NewCharacters, k \in NewCampaigns :
        /\ characterId' = c /\ campaignId' = k
        /\ character' = Untouched(c) /\ campaign' = Untouched(k)
    /\ StartSave("ui") /\ Meets("switch")
    /\ UNCHANGED <<storeVars, worker, callVars, unsaved, last>>

ChangeHalf ==
    \/ /\ Changeable(character)
       /\ character' = Changed(character) /\ UNCHANGED campaign
    \/ /\ Changeable(campaign)
       /\ campaign' = Changed(campaign) /\ UNCHANGED character

\* Mutant: the change is not saved.
ChangeGameOnly ==
    /\ MayCall /\ ~turnInProgress
    /\ ChangeHalf /\ Meets("change")
    /\ UNCHANGED <<storeVars, characterId, campaignId, worker, saveVars, callVars,
                   unsaved, last>>

\* The synchronous methods (equip, unequip, consume, allocate, collect, a game
\* master tool): they change the character's half or the campaign's, and save.
ChangeGame ==
    /\ MayCall /\ ~turnInProgress
    /\ ChangeHalf
    /\ StartSave("ui") /\ Meets("change")
    /\ UNCHANGED <<storeVars, characterId, campaignId, worker, callVars, unsaved, last>>

\* The rest of a call of the UI thread's.
Continue(from) == upc = from /\ savePc["ui"] = "none"

\* load_save reads the campaign, its owner and the owner's row before it takes
\* the lock.
ReadSave ==
    /\ MayCall
    /\ \E k \in DOMAIN campaigns :
        buffer' = [campaignId |-> k, campaign |-> campaigns[k].half]
    /\ upc' = "owner" /\ Meets("read")
    /\ UNCHANGED <<storeVars, gameVars, saveVars, unsaved, last>>

ReadOwner ==
    /\ Continue("owner")
    /\ buffer' = [campaignId |-> buffer.campaignId, campaign |-> buffer.campaign,
                  owner |-> IF buffer.campaignId \in DOMAIN campaigns
                            THEN campaigns[buffer.campaignId].owner ELSE NoRow]
    /\ upc' = "character"
    /\ UNCHANGED <<storeVars, gameVars, saveVars, ghostVars>>

ReadOwnersRow ==
    /\ Continue("character")
    /\ buffer' = [campaignId |-> buffer.campaignId, campaign |-> buffer.campaign,
                  owner |-> buffer.owner,
                  character |-> Loaded(characters, buffer.owner, NoRow)]
    /\ upc' = "load"
    /\ UNCHANGED <<storeVars, gameVars, saveVars, ghostVars>>

\* load_save under the lock: given up while a turn runs.  Without an owner the
\* character id stays; without its row the character is a blank one.
ApplySave ==
    /\ Continue("load")
    /\ upc' = "idle" /\ buffer' = NoRow
    /\ IF turnInProgress
       THEN UNCHANGED <<gameVars, saveVars, crossed>>
       ELSE /\ campaignId' = buffer.campaignId /\ campaign' = buffer.campaign
            /\ characterId' = IF buffer.owner = NoRow THEN characterId ELSE buffer.owner
            /\ character' = IF buffer.character = NoRow THEN Untouched(characterId')
                            ELSE buffer.character
            /\ StartSave("ui") /\ Meets("switch")
            /\ UNCHANGED worker
    /\ UNCHANGED <<storeVars, unsaved, last>>

\* new_campaign reads the character's row before it takes the lock ...
ReadCharacter ==
    /\ MayCall
    /\ \E c \in DOMAIN characters :
        buffer' = [characterId |-> c, character |-> characters[c]]
    /\ upc' = "newCampaign" /\ Meets("read")
    /\ UNCHANGED <<storeVars, gameVars, saveVars, unsaved, last>>

\* Mutant: the character starts anew.
NewCampaignBlank ==
    /\ Continue("newCampaign")
    /\ upc' = "idle" /\ buffer' = NoRow
    /\ \E k \in NewCampaigns : campaignId' = k /\ campaign' = Untouched(k)
    /\ characterId' = buffer.characterId /\ character' = Untouched(buffer.characterId)
    /\ StartSave("ui") /\ Meets("switch")
    /\ UNCHANGED <<storeVars, worker, unsaved, last>>

\* ... and starts a campaign with it.
NewCampaign ==
    /\ Continue("newCampaign")
    /\ upc' = "idle" /\ buffer' = NoRow
    /\ IF turnInProgress
       THEN UNCHANGED <<gameVars, saveVars, crossed>>
       ELSE /\ \E k \in NewCampaigns :
                campaignId' = k /\ campaign' = Untouched(k)
            /\ characterId' = buffer.characterId /\ character' = buffer.character
            /\ StartSave("ui") /\ Meets("switch")
            /\ UNCHANGED worker
    /\ UNCHANGED <<storeVars, unsaved, last>>

\* Mutant: the character's campaigns are left behind.
ListNoCampaigns ==
    /\ MayCall
    /\ \E c \in DOMAIN characters : buffer' = [doomed |-> c, list |-> {}]
    /\ upc' = "delete" /\ Meets("delete")
    /\ UNCHANGED <<storeVars, gameVars, saveVars, unsaved, last>>

\* delete_character takes no lock and does not test the flag: list the
\* character's campaigns, delete them one by one, delete the character.
ListCampaigns ==
    /\ MayCall
    /\ \E c \in DOMAIN characters :
        buffer' = [doomed |-> c, list |-> {k \in DOMAIN campaigns : campaigns[k].owner = c}]
    /\ upc' = "delete" /\ Meets("delete")
    /\ UNCHANGED <<storeVars, gameVars, saveVars, unsaved, last>>

ForgetLast(deleted) == last' = IF last # NoRow /\ deleted THEN NoRow ELSE last

DeleteOwned ==
    /\ Continue("delete")
    /\ \E k \in buffer.list :
        /\ campaigns' = Drop(campaigns, {k})
        /\ buffer' = [buffer EXCEPT !.list = @ \ {k}]
        /\ ForgetLast(last.ids.campaign = k)
    /\ UNCHANGED <<characters, active, gameVars, saveVars, upc, unsaved, crossed>>

DeleteCharacter ==
    /\ Continue("delete") /\ buffer.list = {}
    /\ characters' = Drop(characters, {buffer.doomed})
    /\ ForgetLast(last.ids.character = buffer.doomed)
    /\ upc' = "idle" /\ buffer' = NoRow
    /\ UNCHANGED <<campaigns, active, gameVars, saveVars, unsaved, crossed>>

DeleteCampaign ==
    /\ MayCall
    /\ \E k \in DOMAIN campaigns :
        /\ campaigns' = Drop(campaigns, {k})
        /\ ForgetLast(last.ids.campaign = k)
    /\ Meets("delete")
    /\ UNCHANGED <<characters, active, gameVars, saveVars, callVars, unsaved>>

-----------------------------------------------------------------------------
(* The worker; how a job is handed over is the subject of EngineTurns.     *)

\* submit_turn writes the player's line; the other jobs change nothing yet.
ClaimJob ==
    /\ MayCall /\ ~turnInProgress
    /\ worker' = "started"
    /\ campaign' \in {campaign} \cup (IF Changeable(campaign) THEN {Changed(campaign)} ELSE {})
    /\ UNCHANGED <<storeVars, characterId, campaignId, character, saveVars, callVars,
                   ghostVars>>

\* The worker has a job in hand: it takes one up when it has saved the one before.
Working == turnInProgress /\ savePc["worker"] = "none"

\* A tool, a narration, income or a combat round changes either half.
JobChangesGame ==
    /\ Working
    /\ worker' = "changed"
    /\ ChangeHalf
    /\ UNCHANGED <<storeVars, characterId, campaignId, saveVars, callVars, ghostVars>>

\* The flag is cleared first; the save comes after it.
EndJob ==
    /\ Working
    /\ worker' = "idle"
    /\ StartSave("worker")
    /\ UNCHANGED <<storeVars, characterId, campaignId, character, campaign, callVars,
                   ghostVars>>

\* A job that finds no API key, no combat or no mount, or that only suggests a
\* value, ends without a save.
EndUnsaved ==
    /\ Working /\ worker = "started"
    /\ worker' = "idle"
    /\ unsaved' = TRUE
    /\ UNCHANGED <<storeVars, characterId, campaignId, character, campaign, saveVars,
                   callVars, crossed, last>>

-----------------------------------------------------------------------------
UiStep ==
    \/ NewGame \/ ChangeGame \/ ReadSave \/ ReadOwner \/ ReadOwnersRow \/ ApplySave
    \/ ReadCharacter \/ NewCampaign \/ ListCampaigns \/ DeleteOwned \/ DeleteCharacter
    \/ DeleteCampaign \/ ClaimJob

WorkerStep == JobChangesGame \/ EndJob \/ EndUnsaved

Next == UiStep \/ WorkerStep \/ (\E t \in Threads : Save(t)) \/ Restart

Spec == Init /\ [][Next]_vars

-----------------------------------------------------------------------------
(* Properties.                                                             *)

\* Every variable has its type.
TypeOK ==
    /\ DOMAIN characters \subseteq Characters /\ Range(characters) \subseteq CharacterHalf
    /\ DOMAIN campaigns \subseteq Campaigns
    /\ Range(campaigns) \subseteq [owner : Characters, half : CampaignHalf]
    /\ active \in [character : Characters, campaign : Campaigns] \cup {NoRow}
    /\ characterId \in Characters /\ campaignId \in Campaigns
    /\ character \in CharacterHalf /\ campaign \in CampaignHalf
    /\ worker \in {"idle", "started", "changed"} /\ unsaved \in BOOLEAN
    /\ copy \in [Threads -> CharacterHalf \X CampaignHalf]
    /\ crossed \subseteq Crossings

BetweenCalls == upc = "idle" /\ savePc["ui"] = "none" /\ WorkerQuiet

\* A row holds the half of the game it is named for: no game is saved under
\* another game's ids.  Refuted: a game that is switched while the worker saves is
\* overwritten with the one before (README, section 5).
RowsHoldTheirOwn ==
    /\ \A c \in DOMAIN characters : characters[c].whose = c
    /\ \A k \in DOMAIN campaigns : campaigns[k].half.whose = k

\* A campaign in the store belongs to a character in the store.
NoOrphanCampaign == \A k \in DOMAIN campaigns : campaigns[k].owner \in DOMAIN characters

\* Between calls, the store holds the game as it is in memory, except rows the
\* player deleted and the line of a turn that was refused.
StoreIsCurrent ==
    BetweenCalls =>
        /\ characterId \in DOMAIN characters => characters[characterId] = character
        /\ campaignId \in DOMAIN campaigns /\ ~unsaved => campaigns[campaignId].half = campaign

\* What a completed save recorded is not lost: until the player deletes one of
\* its rows, the store names that game as the active one and holds both halves
\* of it, at least as new.
SavedIsDurable ==
    last # NoRow =>
        /\ active = last.ids
        /\ active.character \in DOMAIN characters
        /\ characters[active.character].changes >= last.character.changes
        /\ active.campaign \in DOMAIN campaigns
        /\ campaigns[active.campaign].half.changes >= last.campaign.changes

\* A deleted character stays deleted: no row comes back for the character of the
\* active row.  Refuted: the game being played is saved again (README, section 5).
DeletedStaysDeleted ==
    [][\A c \in DOMAIN characters' \ DOMAIN characters :
          active # NoRow => active.character # c]_vars

-----------------------------------------------------------------------------
(* What the program promises a player who calls whenever he likes: each       *)
(* property above can be lost only to calls of certain kinds, and only when   *)
(* they meet a job or a save of the worker's.                                 *)

\* save() reads the ids without the lock, and yet a row only gets another game's
\* half when the game was switched under the worker's save: not by two saves at
\* once, a job claimed during the save, a stale load or a deletion.
OnlySwitchesMixRows == "switch" \notin crossed => RowsHoldTheirOwn

\* Deleting a character drops its campaigns, also when the process dies half way:
\* a campaign is only left over when a deletion met the worker's save, which
\* writes it anew, or when the game was switched under that save.
OnlyDeletesAndSwitchesOrphan == crossed \cap {"delete", "switch"} = {} => NoOrphanCampaign

\* The store only falls behind the game in memory when the UI thread saved while
\* the worker did: a job claimed meanwhile, a deletion or a stale load leave it
\* current.
OnlySecondSavesLag == crossed \cap {"change", "switch"} = {} => StoreIsCurrent

\* A crash between any two of a save's three writes loses nothing that an earlier
\* save recorded, and no later load or save takes it back, unless a call met the
\* worker.
OnlyCrossingsLoseSaves == crossed = {} => SavedIsDurable

\* While the process runs, the character being played never loses a change,
\* whatever campaign it is taken into, unless a call met the worker.
OnlyCrossingsTakeBack ==
    [][crossed' = {} /\ characterId' = characterId =>
          character'.changes >= character.changes \/ Restart]_vars

\* No write of a row takes a character back to an earlier state, unless a call met
\* the worker: of two saves the older copy never lands last.
OnlyCrossingsRegress ==
    [][crossed' = {} =>
          \A c \in DOMAIN characters \cap DOMAIN characters' :
              characters'[c].whose = characters[c].whose =>
                  characters'[c].changes >= characters[c].changes]_vars
=============================================================================
