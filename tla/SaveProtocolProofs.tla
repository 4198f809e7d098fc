------------------------- MODULE SaveProtocolProofs -------------------------
(***************************************************************************)
(* What saving promises a player who calls whenever he likes, for any      *)
(* number of characters, campaigns and changes, with a crash possible      *)
(* between any two calls of the store.                                     *)
(*                                                                         *)
(* The invariant is in layers, each kept until a call of certain kinds has *)
(* met a job or a save of the worker's: whose the rows are (RowsInv), that *)
(* no campaign is left over (OrphanInv), that the store is current         *)
(* (CurrentInv), and that nothing is taken back (AheadInv).  A step keeps  *)
(* a layer unless it adds such a kind to `crossed'.                        *)
(***************************************************************************)
EXTENDS SaveProtocol, TLAPS

Places == {"none", "copy", "character", "campaignId", "campaign", "characterId", "active"}
Calls == {"idle", "owner", "character", "load", "newCampaign", "delete"}
CampaignRow == [owner : Characters, half : CampaignHalf]

\* The game in memory and the rows.
GameTyped ==
    /\ characterId \in Characters /\ campaignId \in Campaigns
    /\ character \in CharacterHalf /\ campaign \in CampaignHalf
    /\ worker \in {"idle", "started", "changed"}
RowsTyped ==
    /\ \A c \in DOMAIN characters : c \in Characters /\ characters[c] \in CharacterHalf
    /\ \A k \in DOMAIN campaigns : k \in Campaigns /\ campaigns[k] \in CampaignRow
    /\ active \in [character : Characters, campaign : Campaigns] \cup {NoRow}
    /\ unsaved \in BOOLEAN
    /\ last # NoRow => last.character \in CharacterHalf /\ last.campaign \in CampaignHalf

\* What a save holds of the game, by how far it has come.
SavesTyped ==
    /\ savePc \in [Threads -> Places]
    /\ copy \in [Threads -> CharacterHalf \X CampaignHalf]
    /\ DOMAIN readId = Threads
    /\ \A t \in Threads : /\ savePc[t] = "campaign" => readId[t] \in Campaigns
                          /\ savePc[t] = "active" => readId[t] \in Characters

\* What a call of the UI thread's holds of the rows, by how far it has come.
Reads    == [campaignId : Campaigns, campaign : CampaignHalf]
Owned    == [campaignId : Campaigns, campaign : CampaignHalf, owner : Characters \cup {NoRow}]
Loading  == [campaignId : Campaigns, campaign : CampaignHalf,
             owner : Characters \cup {NoRow}, character : CharacterHalf \cup {NoRow}]
Starting == [characterId : Characters, character : CharacterHalf]
Deleting == [doomed : Characters, list : SUBSET Campaigns]
CallsTyped ==
    /\ upc \in Calls
    /\ upc = "owner" => buffer \in Reads
    /\ upc = "character" => buffer \in Owned
    /\ upc = "load" => buffer \in Loading
    /\ upc = "newCampaign" => buffer \in Starting
    /\ upc = "delete" => buffer \in Deleting

TypeInv == GameTyped /\ RowsTyped /\ SavesTyped /\ CallsTyped

\* Whoever overlaps, the UI thread does one thing at a time, and so does the worker;
\* and nothing is claimed while the UI thread saves.
InTurn ==
    /\ worker # "idle" => savePc["ui"] = "none"
    /\ worker = "changed" => savePc["worker"] = "none"
    /\ upc # "idle" => savePc["ui"] = "none"

\* The halves in memory are those of the ids in memory.
GameIsOwn == character.whose = characterId /\ campaign.whose = campaignId

\* What a save has copied, and what a call has read, belongs to the ids it is for.
CopiesAreOwn ==
    \A t \in Threads :
        /\ savePc[t] \notin {"none", "copy"} =>
            copy[t][1].whose = characterId /\ copy[t][2].whose = campaignId
        /\ savePc[t] = "campaign" => readId[t] = campaignId
BuffersAreOwn ==
    /\ upc \in {"owner", "character", "load"} => buffer.campaign.whose = buffer.campaignId
    /\ upc = "load" /\ buffer.character # NoRow => buffer.character.whose = buffer.owner
    /\ upc = "newCampaign" => buffer.character.whose = buffer.characterId

\* Whose the rows are, as long as no switch meets the worker's save.
RowsInv == GameIsOwn /\ CopiesAreOwn /\ BuffersAreOwn /\ RowsHoldTheirOwn

\* A save writes the campaign when it has written the character, and a deletion has
\* listed what there is, as long as neither a switch nor a deletion meets a save.
OrphanInv ==
    /\ NoOrphanCampaign
    /\ \A t \in Threads : savePc[t] \in {"campaignId", "campaign"} =>
        characterId \in DOMAIN characters
    /\ upc = "delete" =>
        /\ WorkerQuiet
        /\ buffer.list = {k \in DOMAIN campaigns : campaigns[k].owner = buffer.doomed}

\* As long as the UI thread does not save while the worker does, a save copies and
\* writes the game as it is, except the line of a turn claimed meanwhile.
SaveFollows ==
    \A t \in Threads :
        /\ savePc[t] \notin {"none", "copy"} =>
            copy[t][1] = character /\ (worker = "idle" => copy[t][2] = campaign)
        /\ savePc[t] = "campaign" => readId[t] = campaignId
        /\ savePc[t] = "active" => readId[t] = characterId
        /\ savePc[t] \in {"campaignId", "campaign", "characterId", "active"} =>
            (characterId \in DOMAIN characters => characters[characterId] = character)
        /\ savePc[t] \in {"characterId", "active"} =>
            (campaignId \in DOMAIN campaigns => campaigns[campaignId].half = copy[t][2])

\* Without a save under way, only a job has changes that the rows lack.
Current ==
    (\A t \in Threads : savePc[t] = "none") =>
        /\ characterId \in DOMAIN characters /\ worker # "changed" =>
            characters[characterId] = character
        /\ campaignId \in DOMAIN campaigns /\ worker = "idle" /\ ~unsaved =>
            campaigns[campaignId].half = campaign

OneSave == savePc["ui"] = "none" \/ savePc["worker"] = "none"

CurrentInv == OneSave /\ SaveFollows /\ Current

\* No row is ahead of the game in memory; one that is being saved is not ahead of
\* the copy, nor the copy of the game; and what a save has written is there.
MemoryAhead ==
    /\ characterId \in DOMAIN characters => characters[characterId].changes <= character.changes
    /\ campaignId \in DOMAIN campaigns => campaigns[campaignId].half.changes <= campaign.changes
CopyBetween ==
    \A t \in Threads : savePc[t] \notin {"none", "copy"} =>
        /\ copy[t][2].changes <= campaign.changes
        /\ campaignId \in DOMAIN campaigns =>
            campaigns[campaignId].half.changes <= copy[t][2].changes
WrittenIsThere ==
    \A t \in Threads :
        /\ savePc[t] \in {"campaignId", "campaign", "characterId", "active"} =>
            characterId \in DOMAIN characters
        /\ savePc[t] \in {"characterId", "active"} => campaignId \in DOMAIN campaigns

\* What a call has read is still so.
CallReads ==
    /\ upc # "idle" => WorkerQuiet
    /\ upc \in {"owner", "character", "load"} =>
        /\ buffer.campaignId \in DOMAIN campaigns
        /\ buffer.campaign = campaigns[buffer.campaignId].half
    /\ upc \in {"character", "load"} => buffer.owner = campaigns[buffer.campaignId].owner
    /\ upc = "load" =>
        buffer.owner \in DOMAIN characters /\ buffer.character = characters[buffer.owner]
    /\ upc = "newCampaign" =>
        /\ buffer.characterId \in DOMAIN characters
        /\ buffer.character = characters[buffer.characterId]

AheadInv == MemoryAhead /\ CopyBetween /\ WrittenIsThere /\ CallReads /\ SavedIsDurable

SaveInv ==
    /\ TypeInv /\ crossed \subseteq Crossings /\ InTurn
    /\ "switch" \notin crossed => RowsInv
    /\ crossed \cap {"delete", "switch"} = {} => OrphanInv
    /\ crossed \cap {"change", "switch"} = {} => CurrentInv
    /\ crossed = {} => AheadInv

-----------------------------------------------------------------------------
(* The operators.                                                          *)

\* The assumption on the bound, in the form arithmetic uses.
LEMMA BoundIsNat == MaxChanges \in Nat /\ 0 \in 0..MaxChanges
BY StoreAssumption

\* No row is neither a character nor a half.
LEMMA NoRowIsApart ==
    /\ NoRow \notin Characters
    /\ NoRow \notin CharacterHalf
BY StoreAssumption DEF CharacterHalf

\* A half that was never filled has the type of a half, and is its own.
LEMMA UntouchedFits ==
    /\ \A c \in Characters : Untouched(c) \in CharacterHalf
    /\ \A k \in Campaigns : Untouched(k) \in CampaignHalf
    /\ \A x : Untouched(x).whose = x
BY BoundIsNat DEF Untouched, CharacterHalf, CampaignHalf

\* A change keeps a half's owner and leaves it newer.
LEMMA ChangeOfCharacter ==
    ASSUME NEW h \in CharacterHalf, Changeable(h)
    PROVE  /\ Changed(h) \in CharacterHalf /\ Changed(h).whose = h.whose
           /\ h.changes \in Int /\ Changed(h).changes \in Int
           /\ h.changes <= Changed(h).changes
BY BoundIsNat DEF CharacterHalf, Changeable, Changed

\* The same for the campaign's half.
LEMMA ChangeOfCampaign ==
    ASSUME NEW h \in CampaignHalf, Changeable(h)
    PROVE  /\ Changed(h) \in CampaignHalf /\ Changed(h).whose = h.whose
           /\ h.changes \in Int /\ Changed(h).changes \in Int
           /\ h.changes <= Changed(h).changes
BY BoundIsNat DEF CampaignHalf, Changeable, Changed

\* The number of changes of a half is an integer.
LEMMA ChangesAreInt ==
    /\ \A h \in CharacterHalf : h.changes \in Int
    /\ \A h \in CampaignHalf : h.changes \in Int
BY BoundIsNat DEF CharacterHalf, CampaignHalf

-----------------------------------------------------------------------------
(* Types, and what is true however the calls meet the worker.              *)

\* The game starts with its types.
LEMMA TypesInit == Init => TypeInv
<1> SUFFICES ASSUME Init PROVE TypeInv
    OBVIOUS
<1> USE DEF Init
<1>1. GameTyped
  BY StoreAssumption, UntouchedFits DEF GameTyped
<1>2. RowsTyped
  <2>1. DOMAIN characters = {} /\ DOMAIN campaigns = {}
    OBVIOUS
  <2> QED BY <2>1 DEF RowsTyped
<1>3. SavesTyped
  BY StoreAssumption, UntouchedFits DEF SavesTyped, NoSave, NoCopy, NoId, Threads, Places
<1>4. CallsTyped
  BY DEF CallsTyped, Calls
<1> QED BY <1>1, <1>2, <1>3, <1>4 DEF TypeInv

\* A save keeps the types, whatever the game and the other thread do meanwhile.
LEMMA SaveKeepsTypes ==
    ASSUME TypeInv, NEW t \in Threads, Save(t)
    PROVE  TypeInv'
<1> USE DEF TypeInv
<1>1. GameTyped' /\ CallsTyped'
  BY DEF Save, SerializeGame, UpsertCharacter, ReadCampaignId, UpsertCampaign, ReadCharacterId,
     UpsertActive, ReadId, gameVars, callVars, GameTyped, CallsTyped
<1>2. RowsTyped'
  <2>1. CASE UpsertCharacter(t)
    <3>1. copy[t][1] \in CharacterHalf
      BY DEF SavesTyped
    <3>2. /\ DOMAIN characters' = DOMAIN characters \cup {characterId}
          /\ characters'[characterId] = copy[t][1]
          /\ \A x \in DOMAIN characters \ {characterId} : characters'[x] = characters[x]
      <4>1. characters' = Upsert(characters, characterId, copy[t][1])
        BY <2>1 DEF UpsertCharacter
      <4> QED BY <4>1 DEF Upsert
    <3> QED BY <2>1, <3>1, <3>2 DEF UpsertCharacter, RowsTyped, GameTyped, ghostVars
  <2>2. CASE UpsertCampaign(t)
    <3> DEFINE row == [owner |-> characterId, half |-> copy[t][2]]
    <3>1. row \in CampaignRow /\ readId[t] \in Campaigns
      BY <2>2 DEF UpsertCampaign, SavesTyped, GameTyped, CampaignRow
    <3> HIDE DEF row
    <3>2. /\ DOMAIN campaigns' = DOMAIN campaigns \cup {readId[t]}
          /\ campaigns'[readId[t]] = row
          /\ \A x \in DOMAIN campaigns \ {readId[t]} : campaigns'[x] = campaigns[x]
      <4>1. campaigns' = Upsert(campaigns, readId[t], row)
        BY <2>2 DEF UpsertCampaign, row
      <4> QED BY <4>1 DEF Upsert
    <3> QED BY <2>2, <3>1, <3>2 DEF UpsertCampaign, RowsTyped, GameTyped, ghostVars
  <2>3. CASE UpsertActive(t)
    BY <2>3 DEF UpsertActive, RowsTyped, SavesTyped, GameTyped
  <2>4. CASE SerializeGame(t) \/ ReadCampaignId(t) \/ ReadCharacterId(t)
    BY <2>4 DEF SerializeGame, ReadCampaignId, ReadCharacterId, ReadId, storeVars, ghostVars,
       RowsTyped
  <2> QED BY <2>1, <2>2, <2>3, <2>4 DEF Save
<1>3. SavesTyped'
  <2> USE DEF SavesTyped, Places
  <2>1. CASE SerializeGame(t)
    BY <2>1 DEF SerializeGame, GameTyped
  <2>2. CASE UpsertCharacter(t) \/ UpsertCampaign(t)
    BY <2>2 DEF UpsertCharacter, UpsertCampaign
  <2>3. CASE ReadCampaignId(t) \/ ReadCharacterId(t)
    BY <2>3 DEF ReadCampaignId, ReadCharacterId, ReadId, GameTyped
  <2>4. CASE UpsertActive(t)
    <3>1. NoCopy[t] \in CharacterHalf \X CampaignHalf
      BY StoreAssumption, UntouchedFits DEF NoCopy
    <3> QED BY <2>4, <3>1 DEF UpsertActive
  <2> QED BY <2>1, <2>2, <2>3, <2>4 DEF Save
<1> QED BY <1>1, <1>2, <1>3

\* Every change of a half gives a half.
LEMMA ChangeKeepsTypes ==
    ASSUME GameTyped, ChangeHalf
    PROVE  character' \in CharacterHalf /\ campaign' \in CampaignHalf
BY ChangeOfCharacter, ChangeOfCampaign DEF GameTyped, ChangeHalf

\* Starting a save of a thread keeps the types of the saves.
LEMMA StartKeepsTypes ==
    ASSUME SavesTyped, NEW t \in Threads, StartSave(t)
    PROVE  SavesTyped'
BY DEF SavesTyped, StartSave, Places

\* The calls of the UI thread that write the game at once keep the types, and so
\* does the worker.
LEMMA GameStepsKeepTypes ==
    ASSUME TypeInv, NewGame \/ ChangeGame \/ ClaimJob \/ WorkerStep
    PROVE  TypeInv'
<1> USE DEF TypeInv
<1>0. "ui" \in Threads /\ "worker" \in Threads
  BY DEF Threads
<1>1. CASE NewGame
  <2>1. GameTyped'
    BY <1>1, UntouchedFits DEF NewGame, NewCharacters, NewCampaigns, GameTyped
  <2>2. RowsTyped' /\ CallsTyped'
    BY <1>1 DEF NewGame, storeVars, callVars, RowsTyped, CallsTyped
  <2>3. SavesTyped'
    BY <1>0, <1>1, StartKeepsTypes DEF NewGame
  <2> QED BY <2>1, <2>2, <2>3
<1>2. CASE ChangeGame
  <2>1. GameTyped'
    BY <1>2, ChangeKeepsTypes DEF ChangeGame, GameTyped
  <2>2. RowsTyped' /\ CallsTyped'
    BY <1>2 DEF ChangeGame, storeVars, callVars, ghostVars, RowsTyped, CallsTyped
  <2>3. SavesTyped'
    BY <1>0, <1>2, StartKeepsTypes DEF ChangeGame
  <2> QED BY <2>1, <2>2, <2>3
<1>3. CASE ClaimJob
  <2>1. GameTyped'
    BY <1>3, ChangeOfCampaign DEF ClaimJob, GameTyped
  <2>2. RowsTyped' /\ CallsTyped' /\ SavesTyped'
    BY <1>3 DEF ClaimJob, storeVars, callVars, ghostVars, saveVars, RowsTyped, CallsTyped,
       SavesTyped
  <2> QED BY <2>1, <2>2
<1>4. CASE JobChangesGame
  <2>1. GameTyped'
    BY <1>4, ChangeKeepsTypes DEF JobChangesGame, GameTyped
  <2>2. RowsTyped' /\ CallsTyped' /\ SavesTyped'
    BY <1>4 DEF JobChangesGame, storeVars, callVars, ghostVars, saveVars, RowsTyped,
       CallsTyped, SavesTyped
  <2> QED BY <2>1, <2>2
<1>5. CASE EndJob
  <2>1. GameTyped' /\ RowsTyped' /\ CallsTyped'
    BY <1>5 DEF EndJob, storeVars, callVars, ghostVars, GameTyped, RowsTyped, CallsTyped
  <2>2. SavesTyped'
    BY <1>0, <1>5, StartKeepsTypes DEF EndJob
  <2> QED BY <2>1, <2>2
<1>6. CASE EndUnsaved
  BY <1>6 DEF EndUnsaved, storeVars, callVars, saveVars, GameTyped, RowsTyped, CallsTyped,
     SavesTyped
<1> QED BY <1>1, <1>2, <1>3, <1>4, <1>5, <1>6 DEF WorkerStep

\* The calls that read rows before they take the lock keep the types.
LEMMA ReadingCallsKeepTypes ==
    ASSUME TypeInv,
           \/ ReadSave \/ ReadOwner \/ ReadOwnersRow \/ ApplySave
           \/ ReadCharacter \/ NewCampaign
    PROVE  TypeInv'
<1> USE DEF TypeInv
<1>0. "ui" \in Threads
  BY DEF Threads
<1>1. CASE ReadSave \/ ReadOwner \/ ReadOwnersRow \/ ReadCharacter
  <2>1. GameTyped' /\ RowsTyped' /\ SavesTyped'
    BY <1>1 DEF ReadSave, ReadOwner, ReadOwnersRow, ReadCharacter, gameVars, storeVars,
       saveVars, ghostVars, GameTyped, RowsTyped, SavesTyped
  <2>2. CASE ReadSave
    BY <2>1, <2>2 DEF ReadSave, RowsTyped, CampaignRow, CallsTyped, Calls, Reads
  <2>3. CASE ReadOwner
    <3>1. buffer' \in Owned
      BY <2>3 DEF ReadOwner, Continue, RowsTyped, CampaignRow, CallsTyped, Reads, Owned
    <3> QED BY <2>1, <2>3, <3>1 DEF ReadOwner, CallsTyped, Calls
  <2>4. CASE ReadOwnersRow
    <3>1. Loaded(characters, buffer.owner, NoRow) \in CharacterHalf \cup {NoRow}
      BY DEF Loaded, RowsTyped
    <3>2. buffer' \in Loading
      BY <2>4, <3>1 DEF ReadOwnersRow, Continue, CallsTyped, Owned, Loading
    <3> QED BY <2>1, <2>4, <3>2 DEF ReadOwnersRow, CallsTyped, Calls
  <2>5. CASE ReadCharacter
    BY <2>1, <2>5 DEF ReadCharacter, RowsTyped, CallsTyped, Calls, Starting
  <2> QED BY <1>1, <2>2, <2>3, <2>4, <2>5
<1>2. CASE ApplySave
  <2>1. RowsTyped' /\ CallsTyped'
    BY <1>2 DEF ApplySave, storeVars, ghostVars, RowsTyped, CallsTyped, Calls
  <2>2. CASE turnInProgress
    BY <1>2, <2>1, <2>2 DEF ApplySave, gameVars, saveVars, GameTyped, SavesTyped
  <2>3. CASE ~turnInProgress
    <3>1. buffer \in Loading
      BY <1>2 DEF ApplySave, Continue, CallsTyped
    <3>2. characterId' \in Characters
      BY <1>2, <2>3, <3>1 DEF ApplySave, Loading, GameTyped
    <3>3. GameTyped'
      BY <1>2, <2>3, <3>1, <3>2, UntouchedFits DEF ApplySave, Loading, GameTyped
    <3>4. SavesTyped'
      BY <1>0, <1>2, <2>3, StartKeepsTypes DEF ApplySave
    <3> QED BY <2>1, <3>3, <3>4
  <2> QED BY <2>2, <2>3
<1>3. CASE NewCampaign
  <2>1. RowsTyped' /\ CallsTyped'
    BY <1>3 DEF NewCampaign, storeVars, ghostVars, RowsTyped, CallsTyped, Calls
  <2>2. CASE turnInProgress
    BY <1>3, <2>1, <2>2 DEF NewCampaign, gameVars, saveVars, GameTyped, SavesTyped
  <2>3. CASE ~turnInProgress
    <3>1. buffer \in Starting
      BY <1>3 DEF NewCampaign, Continue, CallsTyped
    <3>2. GameTyped'
      BY <1>3, <2>3, <3>1, UntouchedFits DEF NewCampaign, NewCampaigns, Starting, GameTyped
    <3>3. SavesTyped'
      BY <1>0, <1>3, <2>3, StartKeepsTypes DEF NewCampaign
    <3> QED BY <2>1, <3>2, <3>3
  <2> QED BY <2>2, <2>3
<1> QED BY <1>1, <1>2, <1>3

\* The deletions keep the types.
LEMMA DeletionsKeepTypes ==
    ASSUME TypeInv, ListCampaigns \/ DeleteOwned \/ DeleteCharacter \/ DeleteCampaign
    PROVE  TypeInv'
<1> USE DEF TypeInv
<1>1. GameTyped' /\ SavesTyped'
  BY DEF ListCampaigns, DeleteOwned, DeleteCharacter, DeleteCampaign, gameVars, saveVars,
     GameTyped, SavesTyped
<1>2. CASE ListCampaigns
  BY <1>1, <1>2 DEF ListCampaigns, storeVars, ghostVars, RowsTyped, CallsTyped, Calls, Deleting
<1>3. CASE DeleteOwned
  <2>1. buffer \in Deleting
    BY <1>3 DEF DeleteOwned, Continue, CallsTyped
  <2>2. PICK k \in buffer.list : /\ campaigns' = Drop(campaigns, {k})
                                 /\ buffer' = [buffer EXCEPT !.list = @ \ {k}]
    BY <1>3 DEF DeleteOwned
  <2>3. buffer' \in Deleting
    BY <2>1, <2>2 DEF Deleting
  <2>4. RowsTyped'
    BY <1>3, <2>2 DEF DeleteOwned, RowsTyped, Drop, Restrict, ForgetLast
  <2> QED BY <1>1, <1>3, <2>3, <2>4 DEF DeleteOwned, Continue, CallsTyped
<1>4. CASE DeleteCharacter
  <2>1. buffer \in Deleting
    BY <1>4 DEF DeleteCharacter, Continue, CallsTyped
  <2>2. RowsTyped'
    BY <1>4, <2>1 DEF DeleteCharacter, Deleting, RowsTyped, Drop, Restrict, ForgetLast
  <2> QED BY <1>1, <1>4, <2>2 DEF DeleteCharacter, CallsTyped, Calls
<1>5. CASE DeleteCampaign
  <2>1. RowsTyped'
    BY <1>5 DEF DeleteCampaign, RowsTyped, Drop, Restrict, ForgetLast
  <2> QED BY <1>1, <1>5, <2>1 DEF DeleteCampaign, callVars, CallsTyped
<1> QED BY <1>2, <1>3, <1>4, <1>5

\* The program starts again with its types.
LEMMA RestartKeepsTypes ==
    ASSUME TypeInv, Restart
    PROVE  TypeInv'
<1> USE DEF TypeInv
<1>1. characterId' \in Characters /\ campaignId' \in Campaigns
  BY StoreAssumption DEF Restart, RowsTyped
<1>2. character' = Loaded(characters, characterId', Untouched(characterId'))
  BY DEF Restart
<1>3. campaign' = Loaded(campaigns, campaignId', [half |-> Untouched(campaignId')]).half
  BY DEF Restart
<1>4. character' \in CharacterHalf
  BY <1>1, <1>2, UntouchedFits DEF Loaded, RowsTyped
<1>5. campaign' \in CampaignHalf
  BY <1>1, <1>3, UntouchedFits DEF Loaded, RowsTyped, CampaignRow
<1>6. GameTyped'
  BY <1>1, <1>4, <1>5 DEF Restart, GameTyped
<1>7. RowsTyped' /\ CallsTyped'
  BY DEF Restart, storeVars, RowsTyped, CallsTyped, Calls
<1>8. SavesTyped'
  BY StoreAssumption, UntouchedFits DEF Restart, SavesTyped, NoSave, NoCopy, NoId, Threads, Places
<1> QED BY <1>6, <1>7, <1>8

\* The types are those the module states.
LEMMA TypesGiveTypeOK == TypeInv /\ crossed \subseteq Crossings => TypeOK
<1> SUFFICES ASSUME TypeInv, crossed \subseteq Crossings PROVE TypeOK
    OBVIOUS
<1>1. DOMAIN characters \subseteq Characters /\ Range(characters) \subseteq CharacterHalf
  BY DEF TypeInv, RowsTyped, Range
<1>2. DOMAIN campaigns \subseteq Campaigns /\ Range(campaigns) \subseteq CampaignRow
  BY DEF TypeInv, RowsTyped, Range
<1> QED BY <1>1, <1>2 DEF TypeInv, TypeOK, GameTyped, RowsTyped, SavesTyped, CampaignRow

\* Every step keeps the types.
LEMMA TypesStep == TypeInv /\ [Next]_vars => TypeInv'
<1> SUFFICES ASSUME TypeInv, [Next]_vars PROVE TypeInv'
    OBVIOUS
<1>1. CASE UNCHANGED vars
  BY <1>1 DEF vars, storeVars, gameVars, saveVars, callVars, ghostVars, TypeInv, GameTyped,
     RowsTyped, SavesTyped, CallsTyped
<1>2. CASE Next
  BY <1>2, SaveKeepsTypes, GameStepsKeepTypes, ReadingCallsKeepTypes, DeletionsKeepTypes,
     RestartKeepsTypes DEF Next, UiStep
<1> QED BY <1>1, <1>2

\* A call that meets nothing finds the worker quiet.
LEMMA MeetsNothing ==
    ASSUME NEW kind, Meets(kind), kind \notin crossed'
    PROVE  WorkerQuiet
BY DEF Meets

\* What has met the worker stays known, and is of one of the four kinds.
LEMMA CrossedStep ==
    ASSUME [Next]_vars
    PROVE  crossed \subseteq crossed' /\ (crossed \subseteq Crossings => crossed' \subseteq Crossings)
<1>1. CASE UNCHANGED crossed
  BY <1>1
<1>2. CASE Meets("switch") \/ Meets("change") \/ Meets("read") \/ Meets("delete")
  BY <1>2 DEF Meets, Crossings
<1>3. UNCHANGED vars => UNCHANGED crossed
  BY DEF vars, ghostVars
<1>4. \A t \in Threads : Save(t) => UNCHANGED crossed
  BY DEF Save, SerializeGame, UpsertCharacter, ReadCampaignId, UpsertCampaign, ReadCharacterId,
     UpsertActive, ReadId, ghostVars
<1>5. NewGame => Meets("switch")
  BY DEF NewGame
<1>6. ApplySave \/ NewCampaign => Meets("switch") \/ UNCHANGED crossed
  BY DEF ApplySave, NewCampaign
<1>7. ChangeGame => Meets("change")
  BY DEF ChangeGame
<1>8. ReadSave \/ ReadCharacter => Meets("read")
  BY DEF ReadSave, ReadCharacter
<1>9. ListCampaigns \/ DeleteCampaign => Meets("delete")
  BY DEF ListCampaigns, DeleteCampaign
<1>10. ReadOwner \/ ReadOwnersRow \/ DeleteOwned \/ DeleteCharacter \/ ClaimJob \/ WorkerStep
          \/ Restart => UNCHANGED crossed
  BY DEF ReadOwner, ReadOwnersRow, DeleteOwned, DeleteCharacter, ClaimJob, WorkerStep,
     JobChangesGame, EndJob, EndUnsaved, Restart, ghostVars
<1> QED BY <1>1, <1>2, <1>3, <1>4, <1>5, <1>6, <1>7, <1>8, <1>9, <1>10 DEF Next, UiStep

\* Each thread does one thing at a time.
LEMMA InTurnStep ==
    ASSUME TypeInv, InTurn, [Next]_vars
    PROVE  InTurn'
<1> USE DEF InTurn
<1>0. savePc \in [Threads -> Places] /\ "ui" \in Threads /\ "worker" \in Threads
  BY DEF TypeInv, SavesTyped, Threads
<1>1. ASSUME NEW t \in Threads, Save(t) PROVE InTurn'
  <2>1. savePc[t] # "none" /\ savePc' = [savePc EXCEPT ![t] = savePc'[t]]
        /\ UNCHANGED <<worker, upc>>
    BY <1>0, <1>1 DEF Save, SerializeGame, UpsertCharacter, ReadCampaignId, UpsertCampaign,
       ReadCharacterId, UpsertActive, ReadId, gameVars, callVars
  <2> QED BY <1>0, <2>1 DEF Threads
<1>2. CASE NewGame \/ ChangeGame
  BY <1>0, <1>2 DEF NewGame, ChangeGame, MayCall, turnInProgress, StartSave, callVars
<1>3. CASE ApplySave \/ NewCampaign
  <2>1. upc' = "idle" /\ UNCHANGED worker
    BY <1>3 DEF ApplySave, NewCampaign, gameVars
  <2>2. CASE turnInProgress
    BY <1>3, <2>1, <2>2 DEF ApplySave, NewCampaign, saveVars
  <2>3. CASE ~turnInProgress
    BY <1>3, <2>1, <2>3 DEF turnInProgress
  <2> QED BY <2>2, <2>3
<1>4. CASE ReadSave \/ ReadCharacter \/ ListCampaigns \/ DeleteCampaign
  BY <1>4 DEF ReadSave, ReadCharacter, ListCampaigns, DeleteCampaign, MayCall, gameVars, saveVars
<1>5. CASE ReadOwner \/ ReadOwnersRow \/ DeleteOwned \/ DeleteCharacter
  BY <1>5 DEF ReadOwner, ReadOwnersRow, DeleteOwned, DeleteCharacter, Continue, gameVars, saveVars
<1>6. CASE ClaimJob
  BY <1>6 DEF ClaimJob, MayCall, saveVars, callVars
<1>7. CASE WorkerStep
  BY <1>0, <1>7 DEF WorkerStep, JobChangesGame, EndJob, EndUnsaved, Working, turnInProgress,
     StartSave, saveVars, callVars, Threads
<1>8. CASE Restart
  BY <1>8 DEF Restart, NoSave, Threads
<1>9. CASE UNCHANGED vars
  BY <1>9 DEF vars, gameVars, saveVars, callVars
<1> QED BY <1>1, <1>2, <1>3, <1>4, <1>5, <1>6, <1>7, <1>8, <1>9 DEF Next, UiStep

\* Every variable has its type, however the calls meet the worker.
THEOREM TypeCorrect == Spec => []TypeOK
<1>1. Init => TypeInv /\ crossed \subseteq Crossings
  BY TypesInit DEF Init
<1>2. TypeInv /\ crossed \subseteq Crossings /\ [Next]_vars
          => TypeInv' /\ (crossed \subseteq Crossings)'
  BY TypesStep, CrossedStep
<1>3. Spec => [](TypeInv /\ crossed \subseteq Crossings)
  BY <1>1, <1>2, PTL DEF Spec
<1> QED BY <1>3, TypesGiveTypeOK, PTL

-----------------------------------------------------------------------------
(* Whose the rows are: kept by every step but a switch under a save.        *)

\* A change of either half leaves it its owner's, and is a later one.
LEMMA ChangeAdvances ==
    ASSUME GameTyped, ChangeHalf
    PROVE  /\ character'.whose = character.whose /\ campaign'.whose = campaign.whose
           /\ character.changes \in Int /\ character'.changes \in Int
           /\ campaign.changes \in Int /\ campaign'.changes \in Int
           /\ character.changes <= character'.changes
           /\ campaign.changes <= campaign'.changes
BY ChangeOfCharacter, ChangeOfCampaign, ChangesAreInt DEF GameTyped, ChangeHalf

\* A claim adds a line to the story or nothing.
LEMMA ClaimAdvances ==
    ASSUME GameTyped, ClaimJob
    PROVE  /\ campaign'.whose = campaign.whose
           /\ campaign.changes \in Int /\ campaign'.changes \in Int
           /\ campaign.changes <= campaign'.changes
<1>1. campaign' \in {campaign} \cup (IF Changeable(campaign) THEN {Changed(campaign)} ELSE {})
  BY DEF ClaimJob
<1> QED BY <1>1, ChangeOfCampaign, ChangesAreInt DEF GameTyped

\* A save by thread t leaves the game, the call and the other save alone.
LEMMA SaveFrame ==
    ASSUME SavesTyped, NEW t \in Threads, Save(t)
    PROVE  /\ UNCHANGED <<characterId, campaignId, character, campaign, worker, upc, buffer, crossed>>
           /\ \A u \in Threads \ {t} :
                  savePc'[u] = savePc[u] /\ copy'[u] = copy[u] /\ readId'[u] = readId[u]
<1>1. SerializeGame(t) \/ UpsertCharacter(t) \/ ReadCampaignId(t) \/ UpsertCampaign(t)
          \/ ReadCharacterId(t) \/ UpsertActive(t)
  BY DEF Save
<1> QED BY <1>1 DEF SerializeGame, UpsertCharacter, ReadCampaignId, UpsertCampaign,
       ReadCharacterId, UpsertActive, ReadId, SavesTyped, gameVars, callVars, ghostVars

\* What each statement of a save does to its own place, copy and id.
LEMMA SavePlaces ==
    ASSUME SavesTyped, NEW t \in Threads
    PROVE  /\ SerializeGame(t) => savePc'[t] = "character" /\ copy'[t] = <<character, campaign>>
           /\ UpsertCharacter(t) => savePc'[t] = "campaignId" /\ UNCHANGED <<copy, readId>>
           /\ ReadCampaignId(t) =>
                savePc'[t] = "campaign" /\ readId'[t] = campaignId /\ UNCHANGED copy
           /\ UpsertCampaign(t) => savePc'[t] = "characterId" /\ UNCHANGED <<copy, readId>>
           /\ ReadCharacterId(t) =>
                savePc'[t] = "active" /\ readId'[t] = characterId /\ UNCHANGED copy
           /\ UpsertActive(t) => savePc'[t] = "none"
BY DEF SerializeGame, UpsertCharacter, ReadCampaignId, UpsertCampaign, ReadCharacterId,
   UpsertActive, ReadId, SavesTyped

\* A save that has been started, with the worker's quiet, is the only one there is.
LEMMA SaveOfUi ==
    ASSUME SavesTyped, WorkerQuiet, StartSave("ui")
    PROVE  savePc'["ui"] = "copy" /\ savePc'["worker"] = "none" /\ UNCHANGED <<copy, readId>>
BY DEF SavesTyped, WorkerQuiet, StartSave, Threads

\* A call that takes up a game starts a save of it and meets nothing, or was refused.
LEMMA RowsStep ==
    ASSUME TypeInv, RowsInv, [Next]_vars, "switch" \notin crossed'
    PROVE  RowsInv'
<1> USE DEF RowsInv
<1>0. GameTyped /\ RowsTyped /\ SavesTyped /\ CallsTyped
  BY DEF TypeInv
<1>1. ASSUME NEW t \in Threads, Save(t) PROVE RowsInv'
  <2>1. /\ UNCHANGED <<characterId, campaignId, character, campaign, worker, upc, buffer>>
        /\ \A u \in Threads \ {t} :
               savePc'[u] = savePc[u] /\ copy'[u] = copy[u] /\ readId'[u] = readId[u]
    BY <1>0, <1>1, SaveFrame
  <2>2. GameIsOwn' /\ BuffersAreOwn'
    BY <2>1 DEF GameIsOwn, BuffersAreOwn
  <2>3. CopiesAreOwn'
    <3>1. \/ savePc'[t] = "none"
          \/ savePc'[t] # "none" /\ copy'[t] = <<character, campaign>> /\ savePc'[t] # "campaign"
          \/ savePc[t] \notin {"none", "copy"} /\ copy' = copy
             /\ (savePc'[t] = "campaign" => readId'[t] = campaignId)
      BY <1>0, <1>1, SavePlaces DEF Save, SerializeGame, UpsertCharacter, ReadCampaignId,
         UpsertCampaign, ReadCharacterId, UpsertActive, ReadId
    <3>2. /\ savePc'[t] \notin {"none", "copy"} =>
                 copy'[t][1].whose = characterId /\ copy'[t][2].whose = campaignId
          /\ savePc'[t] = "campaign" => readId'[t] = campaignId
      BY <3>1 DEF CopiesAreOwn, GameIsOwn
    <3> QED BY <2>1, <3>2 DEF CopiesAreOwn
  <2>4. RowsHoldTheirOwn'
    <3>1. CASE UpsertCharacter(t)
      <4>1. characters' = Upsert(characters, characterId, copy[t][1]) /\ UNCHANGED campaigns
        BY <3>1 DEF UpsertCharacter
      <4>2. copy[t][1].whose = characterId
        BY <3>1 DEF UpsertCharacter, CopiesAreOwn
      <4>3. /\ DOMAIN characters' = DOMAIN characters \cup {characterId}
            /\ characters'[characterId] = copy[t][1]
            /\ \A x \in DOMAIN characters \ {characterId} : characters'[x] = characters[x]
        BY <4>1 DEF Upsert
      <4> QED BY <4>1, <4>2, <4>3 DEF RowsHoldTheirOwn
    <3>2. CASE UpsertCampaign(t)
      <4> DEFINE row == [owner |-> characterId, half |-> copy[t][2]]
      <4>1. campaigns' = Upsert(campaigns, campaignId, row) /\ UNCHANGED characters
        BY <3>2 DEF UpsertCampaign, CopiesAreOwn
      <4>2. row.half.whose = campaignId
        BY <3>2 DEF UpsertCampaign, CopiesAreOwn
      <4> HIDE DEF row
      <4>3. /\ DOMAIN campaigns' = DOMAIN campaigns \cup {campaignId}
            /\ campaigns'[campaignId] = row
            /\ \A x \in DOMAIN campaigns \ {campaignId} : campaigns'[x] = campaigns[x]
        BY <4>1 DEF Upsert
      <4> QED BY <4>1, <4>2, <4>3 DEF RowsHoldTheirOwn
    <3>3. CASE UNCHANGED <<characters, campaigns>>
      BY <3>3 DEF RowsHoldTheirOwn
    <3> QED BY <1>1, <3>1, <3>2, <3>3 DEF Save, SerializeGame, ReadCampaignId, ReadCharacterId,
           ReadId, UpsertActive, storeVars
  <2> QED BY <2>2, <2>3, <2>4
<1>2. CASE NewGame
  <2>1. WorkerQuiet /\ StartSave("ui")
    BY <1>2, MeetsNothing DEF NewGame
  <2>2. GameIsOwn'
    BY <1>2, UntouchedFits DEF NewGame, GameIsOwn
  <2>3. CopiesAreOwn'
    BY <1>0, <2>1, SaveOfUi DEF CopiesAreOwn, Threads
  <2>4. RowsHoldTheirOwn' /\ BuffersAreOwn'
    BY <1>2 DEF NewGame, storeVars, callVars, RowsHoldTheirOwn, BuffersAreOwn
  <2> QED BY <2>2, <2>3, <2>4
<1>3. CASE ApplySave
  <2>1. UNCHANGED storeVars /\ upc' = "idle" /\ upc = "load"
    BY <1>3 DEF ApplySave, Continue
  <2>2. RowsHoldTheirOwn' /\ BuffersAreOwn'
    BY <2>1 DEF storeVars, RowsHoldTheirOwn, BuffersAreOwn
  <2>3. CASE turnInProgress
    BY <1>3, <2>2, <2>3 DEF ApplySave, gameVars, saveVars, GameIsOwn, CopiesAreOwn
  <2>4. CASE ~turnInProgress
    <3>1. /\ campaignId' = buffer.campaignId /\ campaign' = buffer.campaign
          /\ characterId' = IF buffer.owner = NoRow THEN characterId ELSE buffer.owner
          /\ character' = IF buffer.character = NoRow THEN Untouched(characterId')
                          ELSE buffer.character
          /\ StartSave("ui") /\ WorkerQuiet
      BY <1>3, <2>4, MeetsNothing DEF ApplySave
    <3>2. buffer \in Loading
      BY <1>0, <2>1 DEF CallsTyped
    <3>3. buffer.character # NoRow => buffer.owner # NoRow
      <4>1. buffer.character # NoRow => buffer.character.whose \in Characters
        BY <3>2 DEF Loading, CharacterHalf
      <4> QED BY <2>1, <4>1, NoRowIsApart DEF BuffersAreOwn
    <3>4. character'.whose = characterId'
      BY <2>1, <3>1, <3>3, UntouchedFits DEF BuffersAreOwn
    <3>5. campaign'.whose = campaignId'
      BY <2>1, <3>1 DEF BuffersAreOwn
    <3>6. CopiesAreOwn'
      BY <1>0, <3>1, SaveOfUi DEF CopiesAreOwn, Threads
    <3> QED BY <2>2, <3>4, <3>5, <3>6 DEF GameIsOwn
  <2> QED BY <2>3, <2>4
<1>4. CASE NewCampaign
  <2>1. UNCHANGED storeVars /\ upc' = "idle" /\ upc = "newCampaign"
    BY <1>4 DEF NewCampaign, Continue
  <2>2. RowsHoldTheirOwn' /\ BuffersAreOwn'
    BY <2>1 DEF storeVars, RowsHoldTheirOwn, BuffersAreOwn
  <2>3. CASE turnInProgress
    BY <1>4, <2>2, <2>3 DEF NewCampaign, gameVars, saveVars, GameIsOwn, CopiesAreOwn
  <2>4. CASE ~turnInProgress
    <3>1. /\ \E k \in NewCampaigns : campaignId' = k /\ campaign' = Untouched(k)
          /\ characterId' = buffer.characterId /\ character' = buffer.character
          /\ StartSave("ui") /\ WorkerQuiet
      BY <1>4, <2>4, MeetsNothing DEF NewCampaign
    <3>2. GameIsOwn'
      BY <2>1, <3>1, UntouchedFits DEF GameIsOwn, BuffersAreOwn
    <3>3. CopiesAreOwn'
      BY <1>0, <3>1, SaveOfUi DEF CopiesAreOwn, Threads
    <3> QED BY <2>2, <3>2, <3>3
  <2> QED BY <2>3, <2>4
<1>5. CASE ReadSave \/ ReadOwner \/ ReadOwnersRow \/ ReadCharacter
  <2>1. UNCHANGED <<storeVars, gameVars, saveVars>>
    BY <1>5 DEF ReadSave, ReadOwner, ReadOwnersRow, ReadCharacter
  <2>2. GameIsOwn' /\ CopiesAreOwn' /\ RowsHoldTheirOwn'
    BY <2>1 DEF storeVars, gameVars, saveVars, GameIsOwn, CopiesAreOwn, RowsHoldTheirOwn
  <2>3. CASE ReadSave
    BY <2>2, <2>3 DEF ReadSave, BuffersAreOwn, RowsHoldTheirOwn
  <2>4. CASE ReadOwner
    <3>1. /\ upc = "owner" /\ upc' = "character"
          /\ buffer'.campaignId = buffer.campaignId /\ buffer'.campaign = buffer.campaign
      BY <2>4 DEF ReadOwner, Continue
    <3> QED BY <2>2, <3>1 DEF BuffersAreOwn
  <2>5. CASE ReadOwnersRow
    <3>1. /\ upc = "character" /\ upc' = "load"
          /\ buffer' = [campaignId |-> buffer.campaignId, campaign |-> buffer.campaign,
                        owner |-> buffer.owner,
                        character |-> Loaded(characters, buffer.owner, NoRow)]
      BY <2>5 DEF ReadOwnersRow, Continue
    <3> QED BY <2>2, <3>1 DEF BuffersAreOwn, Loaded, RowsHoldTheirOwn
  <2>6. CASE ReadCharacter
    BY <2>2, <2>6 DEF ReadCharacter, BuffersAreOwn, RowsHoldTheirOwn
  <2> QED BY <1>5, <2>3, <2>4, <2>5, <2>6
<1>6. CASE ChangeGame
  <2>1. StartSave("ui") /\ ChangeHalf /\ UNCHANGED <<storeVars, characterId, campaignId, callVars>>
    BY <1>6 DEF ChangeGame
  <2>2. savePc' = [savePc EXCEPT !["ui"] = "copy"] /\ UNCHANGED <<copy, readId>>
    BY <2>1 DEF StartSave
  <2>3. CopiesAreOwn'
    BY <1>0, <2>1, <2>2 DEF CopiesAreOwn, SavesTyped, Threads
  <2>4. GameIsOwn' /\ RowsHoldTheirOwn' /\ BuffersAreOwn'
    BY <1>0, <2>1, ChangeAdvances DEF GameIsOwn, RowsHoldTheirOwn, BuffersAreOwn, storeVars,
       callVars
  <2> QED BY <2>3, <2>4
<1>7. CASE ClaimJob
  <2>1. UNCHANGED <<storeVars, characterId, campaignId, character, saveVars, callVars>>
    BY <1>7 DEF ClaimJob
  <2> QED BY <1>0, <1>7, <2>1, ClaimAdvances DEF GameIsOwn, CopiesAreOwn, BuffersAreOwn,
         RowsHoldTheirOwn, storeVars, saveVars, callVars
<1>8. CASE JobChangesGame
  <2>1. ChangeHalf /\ UNCHANGED <<storeVars, characterId, campaignId, saveVars, callVars>>
    BY <1>8 DEF JobChangesGame
  <2> QED BY <1>0, <2>1, ChangeAdvances DEF GameIsOwn, CopiesAreOwn, BuffersAreOwn,
         RowsHoldTheirOwn, storeVars, saveVars, callVars
<1>9. CASE EndJob
  <2>1. /\ savePc' = [savePc EXCEPT !["worker"] = "copy"]
        /\ UNCHANGED <<storeVars, characterId, campaignId, character, campaign, copy, readId,
                       callVars>>
    BY <1>9 DEF EndJob, StartSave
  <2>2. CopiesAreOwn'
    BY <1>0, <2>1 DEF CopiesAreOwn, SavesTyped, Threads
  <2> QED BY <2>1, <2>2 DEF GameIsOwn, BuffersAreOwn, RowsHoldTheirOwn, storeVars, callVars
<1>10. CASE EndUnsaved
  BY <1>10 DEF EndUnsaved, GameIsOwn, CopiesAreOwn, BuffersAreOwn, RowsHoldTheirOwn, storeVars,
     saveVars, callVars
<1>11. CASE ListCampaigns \/ DeleteOwned \/ DeleteCharacter \/ DeleteCampaign
  <2>1. GameIsOwn' /\ CopiesAreOwn'
    BY <1>11 DEF ListCampaigns, DeleteOwned, DeleteCharacter, DeleteCampaign, gameVars, saveVars,
       GameIsOwn, CopiesAreOwn
  <2>2. BuffersAreOwn'
    <3>1. upc' \in {"idle", "delete"}
      BY <1>11 DEF ListCampaigns, DeleteOwned, DeleteCharacter, DeleteCampaign, MayCall, Continue,
         callVars
    <3> QED BY <3>1 DEF BuffersAreOwn
  <2>3. /\ UNCHANGED characters \/ \E c : characters' = Drop(characters, {c})
        /\ UNCHANGED campaigns \/ \E k : campaigns' = Drop(campaigns, {k})
    BY <1>11 DEF ListCampaigns, DeleteOwned, DeleteCharacter, DeleteCampaign, storeVars
  <2>4. RowsHoldTheirOwn'
    <3>1. \A c \in DOMAIN characters' : c \in DOMAIN characters /\ characters'[c] = characters[c]
      BY <2>3 DEF Drop, Restrict
    <3>2. \A k \in DOMAIN campaigns' : k \in DOMAIN campaigns /\ campaigns'[k] = campaigns[k]
      BY <2>3 DEF Drop, Restrict
    <3> QED BY <3>1, <3>2 DEF RowsHoldTheirOwn
  <2> QED BY <2>1, <2>2, <2>4
<1>12. CASE Restart
  <2>1. savePc' = NoSave /\ upc' = "idle" /\ UNCHANGED storeVars
    BY <1>12 DEF Restart
  <2>2. character' = Loaded(characters, characterId', Untouched(characterId'))
    BY <1>12 DEF Restart
  <2>3. campaign' = Loaded(campaigns, campaignId', [half |-> Untouched(campaignId')]).half
    BY <1>12 DEF Restart
  <2>4. GameIsOwn'
    BY <2>2, <2>3, UntouchedFits DEF Loaded, RowsHoldTheirOwn, GameIsOwn
  <2> QED BY <2>1, <2>4 DEF CopiesAreOwn, BuffersAreOwn, RowsHoldTheirOwn, storeVars, NoSave
<1>13. CASE UNCHANGED vars
  BY <1>13 DEF vars, storeVars, gameVars, saveVars, callVars, GameIsOwn, CopiesAreOwn,
     BuffersAreOwn, RowsHoldTheirOwn
<1> QED BY <1>1, <1>2, <1>3, <1>4, <1>5, <1>6, <1>7, <1>8, <1>9, <1>10, <1>11, <1>12, <1>13
       DEF Next, UiStep, WorkerStep

-----------------------------------------------------------------------------
(* No campaign is left over: kept by every step but a switch or a deletion  *)
(* that meets the worker.                                                   *)

\* What only speaks of the rows, and of calls other than deletions.
LEMMA OrphanFrame ==
    ASSUME OrphanInv, UNCHANGED storeVars, upc' # "delete",
           \A t \in Threads : savePc'[t] \in {"campaignId", "campaign"} =>
               savePc'[t] = savePc[t] /\ characterId' = characterId
    PROVE  OrphanInv'
BY DEF OrphanInv, NoOrphanCampaign, storeVars

\* A row of a campaign is written behind its owner's row, and none while a deletion
\* goes on.
LEMMA OrphanStep ==
    ASSUME TypeInv, InTurn, OrphanInv, [Next]_vars, crossed' \cap {"delete", "switch"} = {}
    PROVE  OrphanInv'
<1>0. GameTyped /\ RowsTyped /\ SavesTyped /\ CallsTyped
  BY DEF TypeInv
<1>1. ASSUME NEW t \in Threads, Save(t) PROVE OrphanInv'
  <2>1. /\ UNCHANGED <<characterId, campaignId, character, campaign, worker, upc, buffer>>
        /\ \A u \in Threads \ {t} : savePc'[u] = savePc[u]
    BY <1>0, <1>1, SaveFrame
  <2>2. savePc[t] # "none"
    BY <1>1 DEF Save, SerializeGame, UpsertCharacter, ReadCampaignId, UpsertCampaign,
       ReadCharacterId, UpsertActive, ReadId
  <2>3. upc' # "delete"
    BY <2>1, <2>2 DEF InTurn, OrphanInv, WorkerQuiet, Threads
  <2>4. CASE UpsertCharacter(t)
    <3>1. DOMAIN characters' = DOMAIN characters \cup {characterId} /\ UNCHANGED campaigns
      BY <2>4 DEF UpsertCharacter, Upsert
    <3> QED BY <2>1, <2>3, <3>1 DEF OrphanInv, NoOrphanCampaign
  <2>5. CASE UpsertCampaign(t)
    <3> DEFINE row == [owner |-> characterId, half |-> copy[t][2]]
    <3>1. savePc[t] = "campaign" /\ UNCHANGED characters
          /\ campaigns' = Upsert(campaigns, readId[t], row)
      BY <2>5 DEF UpsertCampaign
    <3>2. \A k \in DOMAIN campaigns' : \/ campaigns'[k].owner = characterId
                                       \/ k \in DOMAIN campaigns /\ campaigns'[k] = campaigns[k]
      <4>1. row.owner = characterId
        OBVIOUS
      <4> HIDE DEF row
      <4>2. /\ DOMAIN campaigns' = DOMAIN campaigns \cup {readId[t]}
            /\ campaigns'[readId[t]] = row
            /\ \A x \in DOMAIN campaigns \ {readId[t]} : campaigns'[x] = campaigns[x]
        BY <3>1 DEF Upsert
      <4> QED BY <4>1, <4>2
    <3>3. characterId \in DOMAIN characters
      BY <3>1 DEF OrphanInv
    <3>4. savePc'[t] = "characterId"
      BY <1>0, <2>5, SavePlaces
    <3> QED BY <2>1, <2>3, <3>1, <3>2, <3>3, <3>4 DEF OrphanInv, NoOrphanCampaign
  <2>6. CASE SerializeGame(t) \/ ReadCampaignId(t) \/ ReadCharacterId(t) \/ UpsertActive(t)
    <3>1. UNCHANGED <<characters, campaigns>>
      BY <2>6 DEF SerializeGame, ReadCampaignId, ReadCharacterId, ReadId, UpsertActive, storeVars
    <3>2. savePc'[t] \in {"campaignId", "campaign"} => savePc[t] \in {"campaignId", "campaign"}
      BY <1>0, <2>6, SavePlaces DEF ReadCampaignId, ReadId
    <3> QED BY <2>1, <2>3, <3>1, <3>2 DEF OrphanInv, NoOrphanCampaign
  <2> QED BY <1>1, <2>4, <2>5, <2>6 DEF Save
<1>2. CASE NewGame
  <2>1. WorkerQuiet /\ StartSave("ui") /\ UNCHANGED storeVars /\ upc' = "idle"
    BY <1>2, MeetsNothing DEF NewGame, MayCall, callVars
  <2>2. \A t \in Threads : savePc'[t] \in {"none", "copy"}
    BY <1>0, <2>1, SaveOfUi DEF Threads
  <2> QED BY <2>1, <2>2, OrphanFrame
<1>3. CASE ApplySave \/ NewCampaign
  <2>1. UNCHANGED storeVars /\ upc' = "idle"
    BY <1>3 DEF ApplySave, NewCampaign
  <2>2. CASE turnInProgress
    <3>1. UNCHANGED <<gameVars, saveVars>>
      BY <1>3, <2>2 DEF ApplySave, NewCampaign
    <3> QED BY <2>1, <3>1, OrphanFrame DEF gameVars, saveVars
  <2>3. CASE ~turnInProgress
    <3>1. StartSave("ui") /\ WorkerQuiet
      BY <1>3, <2>3, MeetsNothing DEF ApplySave, NewCampaign
    <3>2. \A t \in Threads : savePc'[t] \in {"none", "copy"}
      BY <1>0, <3>1, SaveOfUi DEF Threads
    <3> QED BY <2>1, <3>2, OrphanFrame
  <2> QED BY <2>2, <2>3
<1>4. CASE ReadSave \/ ReadOwner \/ ReadOwnersRow \/ ReadCharacter
  <2>1. UNCHANGED <<storeVars, gameVars, saveVars>> /\ upc' # "delete"
    BY <1>4 DEF ReadSave, ReadOwner, ReadOwnersRow, ReadCharacter
  <2> QED BY <2>1, OrphanFrame DEF gameVars, saveVars
<1>5. CASE ChangeGame \/ EndJob
  <2>1. PICK t \in Threads : StartSave(t)
    BY <1>5 DEF ChangeGame, EndJob, Threads
  <2>2. \A u \in Threads : savePc'[u] = savePc[u] \/ savePc'[u] = "copy"
    BY <1>0, <2>1 DEF StartSave, SavesTyped
  <2>3. UNCHANGED <<storeVars, characterId, callVars>>
    BY <1>5 DEF ChangeGame, EndJob
  <2>4. upc # "delete"
    BY <1>5 DEF ChangeGame, EndJob, MayCall, Working, OrphanInv, WorkerQuiet
  <2> QED BY <2>2, <2>3, <2>4, OrphanFrame DEF callVars
<1>6. CASE ClaimJob \/ JobChangesGame \/ EndUnsaved
  <2>1. UNCHANGED <<storeVars, characterId, callVars, saveVars>>
    BY <1>6 DEF ClaimJob, JobChangesGame, EndUnsaved
  <2>2. upc # "delete"
    BY <1>6 DEF ClaimJob, JobChangesGame, EndUnsaved, MayCall, Working, OrphanInv, WorkerQuiet
  <2> QED BY <2>1, <2>2, OrphanFrame DEF callVars, saveVars
<1>7. CASE ListCampaigns
  <2>1. WorkerQuiet /\ UNCHANGED <<storeVars, gameVars, saveVars>>
    BY <1>7, MeetsNothing DEF ListCampaigns
  <2>2. WorkerQuiet'
    BY <2>1 DEF WorkerQuiet, turnInProgress, gameVars, saveVars
  <2>3. PICK c \in DOMAIN characters :
            buffer' = [doomed |-> c,
                       list |-> {k \in DOMAIN campaigns : campaigns[k].owner = c}]
    BY <1>7 DEF ListCampaigns
  <2>4. buffer'.list = {k \in DOMAIN campaigns : campaigns[k].owner = buffer'.doomed}
    BY <2>3
  <2> QED BY <2>1, <2>2, <2>4 DEF OrphanInv, NoOrphanCampaign, storeVars, gameVars, saveVars
<1>8. CASE DeleteOwned
  <2>1. PICK k \in buffer.list : /\ campaigns' = Drop(campaigns, {k})
                                 /\ buffer' = [buffer EXCEPT !.list = @ \ {k}]
    BY <1>8 DEF DeleteOwned
  <2>2. UNCHANGED <<characters, gameVars, saveVars>> /\ upc = "delete"
    BY <1>8 DEF DeleteOwned, Continue
  <2>3. buffer \in Deleting
    BY <1>0, <2>2 DEF CallsTyped
  <2>4. buffer'.doomed = buffer.doomed /\ buffer'.list = buffer.list \ {k}
    BY <2>1, <2>3 DEF Deleting
  <2>5. /\ DOMAIN campaigns' = DOMAIN campaigns \ {k}
        /\ \A x \in DOMAIN campaigns \ {k} : campaigns'[x] = campaigns[x]
    BY <2>1 DEF Drop, Restrict
  <2>6. buffer'.list = {x \in DOMAIN campaigns' : campaigns'[x].owner = buffer'.doomed}
    BY <2>2, <2>4, <2>5 DEF OrphanInv
  <2>7. WorkerQuiet'
    BY <2>2 DEF OrphanInv, WorkerQuiet, turnInProgress, gameVars, saveVars
  <2>8. NoOrphanCampaign'
    BY <2>2, <2>5 DEF OrphanInv, NoOrphanCampaign
  <2> QED BY <2>2, <2>6, <2>7, <2>8 DEF OrphanInv, gameVars, saveVars
<1>9. CASE DeleteCharacter
  <2>1. upc = "delete" /\ buffer.list = {} /\ upc' = "idle" /\ savePc["ui"] = "none"
        /\ characters' = Drop(characters, {buffer.doomed})
        /\ UNCHANGED <<campaigns, gameVars, saveVars>>
    BY <1>9 DEF DeleteCharacter, Continue
  <2>2. \A k \in DOMAIN campaigns : campaigns[k].owner # buffer.doomed
    BY <2>1 DEF OrphanInv
  <2>3. DOMAIN characters' = DOMAIN characters \ {buffer.doomed}
    BY <2>1 DEF Drop, Restrict
  <2>4. \A t \in Threads : savePc'[t] = "none"
    BY <2>1 DEF OrphanInv, WorkerQuiet, Threads, saveVars
  <2> QED BY <2>1, <2>2, <2>3, <2>4 DEF OrphanInv, NoOrphanCampaign
<1>10. CASE DeleteCampaign
  <2>1. PICK k \in DOMAIN campaigns : campaigns' = Drop(campaigns, {k})
    BY <1>10 DEF DeleteCampaign
  <2>2. UNCHANGED <<characters, gameVars, saveVars>> /\ upc' = "idle"
    BY <1>10 DEF DeleteCampaign, MayCall, callVars
  <2>3. /\ DOMAIN campaigns' = DOMAIN campaigns \ {k}
        /\ \A x \in DOMAIN campaigns \ {k} : campaigns'[x] = campaigns[x]
    BY <2>1 DEF Drop, Restrict
  <2> QED BY <2>2, <2>3 DEF OrphanInv, NoOrphanCampaign, gameVars, saveVars
<1>11. CASE Restart
  <2>1. savePc' = NoSave /\ upc' = "idle" /\ UNCHANGED storeVars
    BY <1>11 DEF Restart
  <2> QED BY <2>1, OrphanFrame DEF NoSave
<1>12. CASE UNCHANGED vars
  <2>1. WorkerQuiet' = WorkerQuiet
    BY <1>12 DEF vars, gameVars, saveVars, WorkerQuiet, turnInProgress
  <2> QED BY <1>12, <2>1 DEF vars, storeVars, gameVars, saveVars, callVars, OrphanInv,
         NoOrphanCampaign
<1> QED BY <1>1, <1>2, <1>3, <1>4, <1>5, <1>6, <1>7, <1>8, <1>9, <1>10, <1>11, <1>12
       DEF Next, UiStep, WorkerStep

-----------------------------------------------------------------------------
(* The store is current: kept by every step but a save of the UI thread's   *)
(* that is started while the worker has a job or a save.                    *)

\* A save that has just been started, and is the only one, leaves nothing to say.
LEMMA CurrentWhileStarting ==
    ASSUME NEW t \in Threads, savePc'[t] = "copy", \A u \in Threads \ {t} : savePc'[u] = "none"
    PROVE  CurrentInv'
BY DEF CurrentInv, OneSave, SaveFollows, Current, Threads

\* What a save has in hand is the game, and behind it the rows are.
LEMMA CurrentSaveStep ==
    ASSUME SavesTyped, CurrentInv, NEW t \in Threads, Save(t)
    PROVE  CurrentInv'
<1>1. UNCHANGED <<characterId, campaignId, character, campaign, worker>>
      /\ \A u \in Threads \ {t} : savePc'[u] = savePc[u]
  BY SaveFrame
<1>2. savePc[t] # "none"
  BY DEF Save, SerializeGame, UpsertCharacter, ReadCampaignId, UpsertCampaign,
     ReadCharacterId, UpsertActive, ReadId
<1>3. \A u \in Threads \ {t} : savePc'[u] = "none"
  BY <1>1, <1>2 DEF CurrentInv, OneSave, Threads
<1>4. OneSave'
  BY <1>3 DEF OneSave, Threads
<1>5. CASE SerializeGame(t)
  <2>1. savePc'[t] = "character" /\ copy'[t] = <<character, campaign>>
    BY <1>5, SavePlaces
  <2> QED BY <1>1, <1>3, <1>4, <2>1 DEF CurrentInv, SaveFollows, Current
<1>6. CASE UpsertCharacter(t)
  <2>1. copy[t][1] = character /\ (worker = "idle" => copy[t][2] = campaign)
    BY <1>6 DEF UpsertCharacter, CurrentInv, SaveFollows
  <2>2. savePc'[t] = "campaignId" /\ UNCHANGED copy
    BY <1>6, SavePlaces
  <2>3. characters' = Upsert(characters, characterId, character)
    BY <1>6, <2>1 DEF UpsertCharacter
  <2>4. characters'[characterId] = character
    BY <2>3 DEF Upsert
  <2> QED BY <1>1, <1>3, <1>4, <2>1, <2>2, <2>4 DEF CurrentInv, SaveFollows, Current
<1>7. CASE ReadCampaignId(t)
  <2>1. savePc'[t] = "campaign" /\ readId'[t] = campaignId /\ UNCHANGED copy
    BY <1>7, SavePlaces
  <2>2. savePc[t] = "campaignId" /\ UNCHANGED storeVars
    BY <1>7 DEF ReadCampaignId, ReadId
  <2> QED BY <1>1, <1>3, <1>4, <2>1, <2>2 DEF CurrentInv, SaveFollows, Current, storeVars
<1>8. CASE UpsertCampaign(t)
  <2> DEFINE row == [owner |-> characterId, half |-> copy[t][2]]
  <2>1. campaigns' = Upsert(campaigns, campaignId, row) /\ UNCHANGED characters
        /\ savePc[t] = "campaign"
    BY <1>8 DEF UpsertCampaign, CurrentInv, SaveFollows
  <2>2. row.half = copy[t][2]
    OBVIOUS
  <2> HIDE DEF row
  <2>3. campaigns'[campaignId].half = copy[t][2]
    BY <2>1, <2>2 DEF Upsert
  <2>4. savePc'[t] = "characterId" /\ UNCHANGED copy
    BY <1>8, SavePlaces
  <2> QED BY <1>1, <1>3, <1>4, <2>1, <2>3, <2>4 DEF CurrentInv, SaveFollows, Current
<1>9. CASE ReadCharacterId(t)
  <2>1. savePc'[t] = "active" /\ readId'[t] = characterId /\ UNCHANGED copy
    BY <1>9, SavePlaces
  <2>2. savePc[t] = "characterId" /\ UNCHANGED storeVars
    BY <1>9 DEF ReadCharacterId, ReadId
  <2> QED BY <1>1, <1>3, <1>4, <2>1, <2>2 DEF CurrentInv, SaveFollows, Current, storeVars
<1>10. CASE UpsertActive(t)
  <2>1. savePc[t] = "active" /\ UNCHANGED <<characters, campaigns>>
    BY <1>10 DEF UpsertActive
  <2>2. savePc'[t] = "none"
    BY <1>10, SavePlaces
  <2>3. SaveFollows'
    BY <1>3, <2>2 DEF SaveFollows
  <2>4. Current'
    BY <1>1, <2>1 DEF CurrentInv, SaveFollows, Current
  <2> QED BY <1>4, <2>3, <2>4 DEF CurrentInv
<1> QED BY <1>5, <1>6, <1>7, <1>8, <1>9, <1>10 DEF Save

\* Rows only fall behind a job, and a job ends in a save or adds to what is unsaved.
LEMMA CurrentStep ==
    ASSUME TypeInv, InTurn, CurrentInv, [Next]_vars, crossed' \cap {"change", "switch"} = {}
    PROVE  CurrentInv'
<1>0. SavesTyped /\ "ui" \in Threads /\ "worker" \in Threads
  BY DEF TypeInv, Threads
<1>1. ASSUME NEW t \in Threads, Save(t) PROVE CurrentInv'
  BY <1>0, <1>1, CurrentSaveStep
<1>2. CASE NewGame \/ ChangeGame
  <2>1. WorkerQuiet /\ StartSave("ui")
    BY <1>2, MeetsNothing DEF NewGame, ChangeGame
  <2> QED BY <1>0, <2>1, SaveOfUi, CurrentWhileStarting DEF Threads
<1>3. CASE ApplySave \/ NewCampaign
  <2>1. CASE turnInProgress
    BY <1>3, <2>1 DEF ApplySave, NewCampaign, storeVars, gameVars, saveVars, CurrentInv, OneSave,
       SaveFollows, Current
  <2>2. CASE ~turnInProgress
    <3>1. WorkerQuiet /\ StartSave("ui")
      BY <1>3, <2>2, MeetsNothing DEF ApplySave, NewCampaign
    <3> QED BY <1>0, <3>1, SaveOfUi, CurrentWhileStarting DEF Threads
  <2> QED BY <2>1, <2>2
<1>4. CASE ReadSave \/ ReadOwner \/ ReadOwnersRow \/ ReadCharacter \/ ListCampaigns
  <2>1. UNCHANGED <<storeVars, gameVars, saveVars, unsaved>>
    BY <1>4 DEF ReadSave, ReadOwner, ReadOwnersRow, ReadCharacter, ListCampaigns, ghostVars
  <2> QED BY <2>1 DEF storeVars, gameVars, saveVars, CurrentInv, OneSave, SaveFollows, Current
<1>5. CASE ClaimJob
  <2>1. /\ worker = "idle" /\ worker' = "started"
        /\ UNCHANGED <<storeVars, characterId, campaignId, character, saveVars>>
    BY <1>5 DEF ClaimJob, turnInProgress
  <2> QED BY <2>1 DEF storeVars, saveVars, CurrentInv, OneSave, SaveFollows, Current
<1>6. CASE JobChangesGame
  <2>1. \A t \in Threads : savePc'[t] = "none"
    BY <1>6 DEF JobChangesGame, Working, turnInProgress, InTurn, Threads, saveVars
  <2>2. worker' = "changed"
    BY <1>6 DEF JobChangesGame
  <2> QED BY <2>1, <2>2 DEF CurrentInv, OneSave, SaveFollows, Current, Threads
<1>7. CASE EndJob
  <2>1. savePc["ui"] = "none" /\ StartSave("worker")
    BY <1>7 DEF EndJob, Working, turnInProgress, InTurn
  <2>2. savePc'["worker"] = "copy" /\ savePc'["ui"] = "none"
    BY <1>0, <2>1 DEF StartSave, SavesTyped
  <2> QED BY <1>0, <2>2, CurrentWhileStarting DEF Threads
<1>8. CASE EndUnsaved
  <2>1. /\ worker = "started" /\ unsaved' = TRUE /\ \A t \in Threads : savePc[t] = "none"
        /\ UNCHANGED <<storeVars, characterId, campaignId, character, campaign, saveVars>>
    BY <1>8 DEF EndUnsaved, Working, InTurn, Threads
  <2> QED BY <2>1 DEF storeVars, saveVars, CurrentInv, OneSave, SaveFollows, Current
<1>9. CASE DeleteOwned \/ DeleteCharacter \/ DeleteCampaign
  <2>1. UNCHANGED <<gameVars, saveVars, unsaved>>
    BY <1>9 DEF DeleteOwned, DeleteCharacter, DeleteCampaign
  <2>2. /\ UNCHANGED characters \/ \E c : characters' = Drop(characters, {c})
        /\ UNCHANGED campaigns \/ \E k : campaigns' = Drop(campaigns, {k})
    BY <1>9 DEF DeleteOwned, DeleteCharacter, DeleteCampaign
  <2>3. \A c \in DOMAIN characters' : c \in DOMAIN characters /\ characters'[c] = characters[c]
    BY <2>2 DEF Drop, Restrict
  <2>4. \A k \in DOMAIN campaigns' : k \in DOMAIN campaigns /\ campaigns'[k] = campaigns[k]
    BY <2>2 DEF Drop, Restrict
  <2> QED BY <2>1, <2>3, <2>4 DEF gameVars, saveVars, CurrentInv, OneSave, SaveFollows, Current
<1>10. CASE Restart
  <2>1. savePc' = NoSave /\ UNCHANGED storeVars
    BY <1>10 DEF Restart
  <2>2. character' = Loaded(characters, characterId', Untouched(characterId'))
    BY <1>10 DEF Restart
  <2>3. campaign' = Loaded(campaigns, campaignId', [half |-> Untouched(campaignId')]).half
    BY <1>10 DEF Restart
  <2> QED BY <2>1, <2>2, <2>3 DEF Loaded, CurrentInv, OneSave, SaveFollows, Current, storeVars,
         NoSave, Threads
<1>11. CASE UNCHANGED vars
  BY <1>11 DEF vars, storeVars, gameVars, saveVars, ghostVars, CurrentInv, OneSave, SaveFollows,
     Current
<1> QED BY <1>1, <1>2, <1>3, <1>4, <1>5, <1>6, <1>7, <1>8, <1>9, <1>10, <1>11
       DEF Next, UiStep, WorkerStep

-----------------------------------------------------------------------------
(* Nothing is taken back: kept as long as no call meets the worker.         *)

\* The layers below, while nothing has met the worker.
Uncrossed == TypeInv /\ InTurn /\ RowsInv /\ OrphanInv /\ CurrentInv /\ AheadInv

\* What only speaks of the rows stays as the rows stay.
LEMMA StoreUntouched ==
    ASSUME SavedIsDurable, UNCHANGED <<storeVars, last>>
    PROVE  SavedIsDurable'
BY DEF storeVars, SavedIsDurable

\* Where nothing is being saved, there is nothing to say of what is.
LEMMA NothingInHand ==
    ASSUME \A t \in Threads : savePc'[t] \in {"none", "copy"}
    PROVE  CopyBetween' /\ WrittenIsThere'
BY DEF CopyBetween, WrittenIsThere

\* The numbers of changes are integers.
LEMMA NumbersAreInt ==
    ASSUME TypeInv
    PROVE  /\ character.changes \in Int /\ campaign.changes \in Int
           /\ \A c \in DOMAIN characters : characters[c].changes \in Int
           /\ \A k \in DOMAIN campaigns : campaigns[k].half.changes \in Int
           /\ \A t \in Threads : copy[t][1].changes \in Int /\ copy[t][2].changes \in Int
           /\ last # NoRow => last.character.changes \in Int /\ last.campaign.changes \in Int
<1>1. \A t \in Threads : copy[t][1] \in CharacterHalf /\ copy[t][2] \in CampaignHalf
  BY DEF TypeInv, SavesTyped
<1>2. \A k \in DOMAIN campaigns : campaigns[k].half \in CampaignHalf
  BY DEF TypeInv, RowsTyped, CampaignRow
<1> QED BY <1>1, <1>2, ChangesAreInt DEF TypeInv, GameTyped, RowsTyped

\* A save under which nothing changes the rows writes what is at least as new as
\* what it replaces.
LEMMA AheadSaveStep ==
    ASSUME Uncrossed, NEW t \in Threads, Save(t)
    PROVE  AheadInv'
<1> USE DEF Uncrossed
<1>0. SavesTyped /\ TypeInv
  BY DEF TypeInv
<1>1. UNCHANGED <<characterId, campaignId, character, campaign, worker, upc>>
      /\ \A u \in Threads \ {t} : savePc'[u] = savePc[u]
  BY <1>0, SaveFrame
<1>2. savePc[t] # "none"
  BY DEF Save, SerializeGame, UpsertCharacter, ReadCampaignId, UpsertCampaign,
     ReadCharacterId, UpsertActive, ReadId
<1>3. \A u \in Threads \ {t} : savePc'[u] = "none"
  BY <1>1, <1>2 DEF CurrentInv, OneSave, Threads
<1>4. CallReads'
  <2>1. upc' = "idle"
    BY <1>1, <1>2 DEF InTurn, AheadInv, CallReads, WorkerQuiet, Threads
  <2> QED BY <2>1 DEF CallReads
<1>5. CASE SerializeGame(t)
  <2>1. savePc'[t] = "character" /\ copy'[t] = <<character, campaign>>
    BY <1>0, <1>5, SavePlaces
  <2>2. UNCHANGED <<storeVars, last>>
    BY <1>5 DEF SerializeGame
  <2>3. SavedIsDurable'
    BY <2>2, StoreUntouched DEF AheadInv
  <2>4. MemoryAhead' /\ CopyBetween' /\ WrittenIsThere'
    BY <1>0, <1>1, <1>3, <2>1, <2>2, NumbersAreInt DEF AheadInv, MemoryAhead, CopyBetween,
       WrittenIsThere, storeVars
  <2> QED BY <1>4, <2>3, <2>4 DEF AheadInv
<1>6. CASE UpsertCharacter(t)
  <2>1. copy[t][1] = character /\ savePc[t] = "character"
    BY <1>6 DEF UpsertCharacter, CurrentInv, SaveFollows
  <2>2. savePc'[t] = "campaignId" /\ UNCHANGED copy
    BY <1>0, <1>6, SavePlaces
  <2>3. characters' = Upsert(characters, characterId, character)
        /\ UNCHANGED <<campaigns, active, last>>
    BY <1>6, <2>1 DEF UpsertCharacter, ghostVars
  <2>4. /\ DOMAIN characters' = DOMAIN characters \cup {characterId}
        /\ characters'[characterId] = character
        /\ \A x \in DOMAIN characters \ {characterId} : characters'[x] = characters[x]
    BY <2>3 DEF Upsert
  <2>5. MemoryAhead' /\ CopyBetween' /\ WrittenIsThere'
    BY <1>0, <1>1, <1>3, <2>1, <2>2, <2>3, <2>4, NumbersAreInt DEF AheadInv, MemoryAhead,
       CopyBetween, WrittenIsThere
  <2>6. SavedIsDurable'
    <3> SUFFICES ASSUME last # NoRow PROVE SavedIsDurable'
        BY <2>3 DEF SavedIsDurable
    <3>1. CASE active.character # characterId
      BY <2>3, <2>4, <3>1 DEF AheadInv, SavedIsDurable
    <3>2. CASE active.character = characterId
      <4>1. /\ characterId \in DOMAIN characters
            /\ characters[characterId].changes >= last.character.changes
            /\ characters[characterId].changes <= character.changes
        BY <3>2 DEF AheadInv, SavedIsDurable, MemoryAhead
      <4>2. character.changes >= last.character.changes
        BY <1>0, <4>1, NumbersAreInt
      <4> QED BY <2>3, <2>4, <3>2, <4>2 DEF AheadInv, SavedIsDurable
    <3> QED BY <3>1, <3>2
  <2> QED BY <1>4, <2>5, <2>6 DEF AheadInv
<1>7. CASE ReadCampaignId(t) \/ ReadCharacterId(t)
  <2>1. UNCHANGED <<storeVars, copy, last>>
    BY <1>7 DEF ReadCampaignId, ReadCharacterId, ReadId, ghostVars
  <2>2. \/ savePc[t] = "campaignId" /\ savePc'[t] = "campaign"
        \/ savePc[t] = "characterId" /\ savePc'[t] = "active"
    BY <1>0, <1>7, SavePlaces DEF ReadCampaignId, ReadCharacterId, ReadId
  <2>3. MemoryAhead' /\ CopyBetween' /\ WrittenIsThere'
    BY <1>1, <1>3, <2>1, <2>2 DEF AheadInv, MemoryAhead, CopyBetween, WrittenIsThere, storeVars
  <2>4. SavedIsDurable'
    BY <2>1, StoreUntouched DEF AheadInv
  <2> QED BY <1>4, <2>3, <2>4 DEF AheadInv
<1>8. CASE UpsertCampaign(t)
  <2> DEFINE row == [owner |-> characterId, half |-> copy[t][2]]
  <2>1. campaigns' = Upsert(campaigns, campaignId, row) /\ UNCHANGED <<characters, active, last>>
        /\ savePc[t] = "campaign"
    BY <1>8 DEF UpsertCampaign, CurrentInv, SaveFollows, ghostVars
  <2>2. row.half = copy[t][2]
    OBVIOUS
  <2> HIDE DEF row
  <2>3. /\ DOMAIN campaigns' = DOMAIN campaigns \cup {campaignId}
        /\ campaigns'[campaignId].half = copy[t][2]
        /\ \A x \in DOMAIN campaigns \ {campaignId} : campaigns'[x] = campaigns[x]
    BY <2>1, <2>2 DEF Upsert
  <2>4. savePc'[t] = "characterId" /\ UNCHANGED copy
    BY <1>0, <1>8, SavePlaces
  <2>5. /\ copy[t][2].changes <= campaign.changes
        /\ campaignId \in DOMAIN campaigns =>
              campaigns[campaignId].half.changes <= copy[t][2].changes
    BY <2>1 DEF AheadInv, CopyBetween
  <2>6. MemoryAhead' /\ CopyBetween' /\ WrittenIsThere'
    BY <1>0, <1>1, <1>3, <2>1, <2>3, <2>4, <2>5, NumbersAreInt DEF AheadInv, MemoryAhead,
       CopyBetween, WrittenIsThere
  <2>7. SavedIsDurable'
    <3> SUFFICES ASSUME last # NoRow PROVE SavedIsDurable'
        BY <2>1 DEF SavedIsDurable
    <3>1. CASE active.campaign # campaignId
      BY <2>1, <2>3, <3>1 DEF AheadInv, SavedIsDurable
    <3>2. CASE active.campaign = campaignId
      <4>1. /\ campaignId \in DOMAIN campaigns
            /\ campaigns[campaignId].half.changes >= last.campaign.changes
        BY <3>2 DEF AheadInv, SavedIsDurable
      <4>2. copy[t][2].changes >= last.campaign.changes
        BY <1>0, <2>5, <4>1, NumbersAreInt
      <4> QED BY <2>1, <2>3, <3>2, <4>2 DEF AheadInv, SavedIsDurable
    <3> QED BY <3>1, <3>2
  <2> QED BY <1>4, <2>6, <2>7 DEF AheadInv
<1>9. CASE UpsertActive(t)
  <2>1. savePc[t] = "active" /\ UNCHANGED <<characters, campaigns>>
        /\ active' = [character |-> readId[t], campaign |-> campaignId]
        /\ last' = [ids |-> active', character |-> copy[t][1], campaign |-> copy[t][2]]
    BY <1>9 DEF UpsertActive
  <2>2. savePc'[t] = "none"
    BY <1>0, <1>9, SavePlaces
  <2>3. CopyBetween' /\ WrittenIsThere'
    BY <1>3, <2>2, NothingInHand
  <2>4. MemoryAhead'
    BY <1>1, <2>1 DEF AheadInv, MemoryAhead
  <2>5. /\ readId[t] = characterId /\ copy[t][1] = character
        /\ characterId \in DOMAIN characters /\ characters[characterId] = character
        /\ campaignId \in DOMAIN campaigns /\ campaigns[campaignId].half = copy[t][2]
    BY <2>1 DEF CurrentInv, SaveFollows, AheadInv, WrittenIsThere
  <2>6. SavedIsDurable'
    BY <1>0, <2>1, <2>5, NumbersAreInt DEF SavedIsDurable
  <2> QED BY <1>4, <2>3, <2>4, <2>6 DEF AheadInv
<1> QED BY <1>5, <1>6, <1>7, <1>8, <1>9 DEF Save

\* The game grows under a job or a method; a claim may do so under the worker's save.
LEMMA AheadGameStep ==
    ASSUME Uncrossed, NewGame \/ ChangeGame \/ ClaimJob \/ WorkerStep, crossed' = {}
    PROVE  AheadInv'
<1> USE DEF Uncrossed
<1>0. SavesTyped /\ GameTyped /\ "ui" \in Threads /\ "worker" \in Threads
  BY DEF TypeInv, Threads
<1>1. UNCHANGED <<storeVars, last>>
  BY DEF NewGame, ChangeGame, ClaimJob, WorkerStep, JobChangesGame, EndJob, EndUnsaved, ghostVars
<1>2. SavedIsDurable'
  BY <1>1, StoreUntouched DEF AheadInv
<1>3. CallReads'
  <2>1. upc = "idle" /\ upc' = "idle"
    BY DEF NewGame, ChangeGame, ClaimJob, WorkerStep, JobChangesGame, EndJob, EndUnsaved, MayCall,
       Working, callVars, AheadInv, CallReads, WorkerQuiet
  <2> QED BY <2>1 DEF CallReads
<1>4. ASSUME character.changes <= character'.changes, campaign.changes <= campaign'.changes,
             character'.changes \in Int, campaign'.changes \in Int,
             UNCHANGED <<characterId, campaignId>>
      PROVE  MemoryAhead'
  <2>1. /\ characterId \in DOMAIN characters =>
              characters[characterId].changes <= character.changes
        /\ campaignId \in DOMAIN campaigns =>
              campaigns[campaignId].half.changes <= campaign.changes
    BY DEF AheadInv, MemoryAhead
  <2> QED BY <1>1, <1>4, <2>1, NumbersAreInt DEF MemoryAhead, storeVars
<1>5. CASE NewGame
  <2>1. WorkerQuiet /\ StartSave("ui")
    BY <1>5, MeetsNothing DEF NewGame
  <2>2. CopyBetween' /\ WrittenIsThere'
    BY <1>0, <2>1, SaveOfUi, NothingInHand DEF Threads
  <2>3. characterId' \notin DOMAIN characters /\ campaignId' \notin DOMAIN campaigns
    BY <1>5 DEF NewGame, NewCharacters, NewCampaigns
  <2>4. MemoryAhead'
    BY <1>1, <2>3 DEF storeVars, MemoryAhead
  <2> QED BY <1>2, <1>3, <2>2, <2>4 DEF AheadInv
<1>6. CASE ChangeGame
  <2>1. WorkerQuiet /\ StartSave("ui")
    BY <1>6, MeetsNothing DEF ChangeGame
  <2>2. CopyBetween' /\ WrittenIsThere'
    BY <1>0, <2>1, SaveOfUi, NothingInHand DEF Threads
  <2>3. MemoryAhead'
    BY <1>0, <1>4, <1>6, ChangeAdvances DEF ChangeGame
  <2> QED BY <1>2, <1>3, <2>2, <2>3 DEF AheadInv
<1>7. CASE ClaimJob
  <2>1. UNCHANGED <<storeVars, saveVars, characterId, campaignId, character>>
    BY <1>7 DEF ClaimJob
  <2>2. /\ campaign.changes \in Int /\ campaign'.changes \in Int
        /\ campaign.changes <= campaign'.changes
    BY <1>0, <1>7, ClaimAdvances
  <2>3. MemoryAhead'
    BY <1>4, <2>1, <2>2, NumbersAreInt
  <2>4. WrittenIsThere'
    BY <2>1 DEF AheadInv, WrittenIsThere, storeVars, saveVars
  <2>5. CopyBetween'
    <3> SUFFICES ASSUME NEW t \in Threads, savePc[t] \notin {"none", "copy"}
                 PROVE  /\ copy[t][2].changes <= campaign'.changes
                        /\ campaignId \in DOMAIN campaigns =>
                              campaigns[campaignId].half.changes <= copy[t][2].changes
        BY <2>1 DEF CopyBetween, storeVars, saveVars
    <3>1. /\ copy[t][2].changes <= campaign.changes
          /\ campaignId \in DOMAIN campaigns =>
                campaigns[campaignId].half.changes <= copy[t][2].changes
      BY DEF AheadInv, CopyBetween
    <3>2. copy[t][2].changes \in Int
      BY NumbersAreInt
    <3> QED BY <2>2, <3>1, <3>2
  <2> QED BY <1>2, <1>3, <2>3, <2>4, <2>5 DEF AheadInv
<1>8. CASE WorkerStep
  <2>1. \A t \in Threads : savePc[t] = "none"
    BY <1>8 DEF WorkerStep, JobChangesGame, EndJob, EndUnsaved, Working, turnInProgress, InTurn,
       Threads
  <2>2. \A t \in Threads : savePc'[t] \in {"none", "copy"}
    BY <1>0, <1>8, <2>1 DEF WorkerStep, JobChangesGame, EndJob, EndUnsaved, StartSave, saveVars,
       SavesTyped
  <2>3. UNCHANGED <<characterId, campaignId>>
    BY <1>8 DEF WorkerStep, JobChangesGame, EndJob, EndUnsaved
  <2>4. ChangeHalf \/ UNCHANGED <<character, campaign>>
    BY <1>8 DEF WorkerStep, JobChangesGame, EndJob, EndUnsaved
  <2>5. MemoryAhead'
    BY <1>0, <1>4, <2>3, <2>4, ChangeAdvances, NumbersAreInt
  <2> QED BY <1>2, <1>3, <2>2, <2>5, NothingInHand DEF AheadInv
<1> QED BY <1>5, <1>6, <1>7, <1>8

\* A call that reads rows, or goes on with what it read, finds the worker quiet and
\* nobody saving.
LEMMA CallsAreQuiet ==
    ASSUME Uncrossed, crossed' = {},
           \/ ReadSave \/ ReadOwner \/ ReadOwnersRow \/ ApplySave \/ ReadCharacter \/ NewCampaign
           \/ ListCampaigns \/ DeleteOwned \/ DeleteCharacter \/ DeleteCampaign
    PROVE  WorkerQuiet /\ worker = "idle" /\ \A t \in Threads : savePc[t] = "none"
<1>1. WorkerQuiet
  <2>1. CASE ReadSave \/ ReadCharacter \/ ListCampaigns \/ DeleteCampaign
    BY <2>1, MeetsNothing DEF ReadSave, ReadCharacter, ListCampaigns, DeleteCampaign
  <2>2. CASE ReadOwner \/ ReadOwnersRow \/ ApplySave \/ NewCampaign \/ DeleteOwned \/ DeleteCharacter
    BY <2>2 DEF ReadOwner, ReadOwnersRow, ApplySave, NewCampaign, DeleteOwned, DeleteCharacter,
       Continue, Uncrossed, AheadInv, CallReads
  <2> QED BY <2>1, <2>2
<1>2. savePc["ui"] = "none"
  BY DEF ReadSave, ReadOwner, ReadOwnersRow, ApplySave, ReadCharacter, NewCampaign, ListCampaigns,
     DeleteOwned, DeleteCharacter, DeleteCampaign, MayCall, Continue
<1> QED BY <1>1, <1>2 DEF WorkerQuiet, turnInProgress, Threads

\* What a call reads is what the store holds until it acts.
LEMMA AheadReadStep ==
    ASSUME Uncrossed, ReadSave \/ ReadOwner \/ ReadOwnersRow \/ ReadCharacter, crossed' = {}
    PROVE  AheadInv'
<1> USE DEF Uncrossed
<1>1. WorkerQuiet /\ \A t \in Threads : savePc[t] = "none"
  BY CallsAreQuiet
<1>2. UNCHANGED <<storeVars, gameVars, saveVars, last>>
  BY DEF ReadSave, ReadOwner, ReadOwnersRow, ReadCharacter, ghostVars
<1>3. SavedIsDurable' /\ MemoryAhead' /\ CopyBetween' /\ WrittenIsThere'
  BY <1>1, <1>2, StoreUntouched, NothingInHand DEF AheadInv, MemoryAhead, storeVars, gameVars,
     saveVars
<1>4. WorkerQuiet'
  BY <1>1, <1>2 DEF WorkerQuiet, turnInProgress, gameVars, saveVars
<1>5. CASE ReadSave
  <2>1. PICK k \in DOMAIN campaigns : buffer' = [campaignId |-> k, campaign |-> campaigns[k].half]
    BY <1>5 DEF ReadSave
  <2>2. upc' = "owner"
    BY <1>5 DEF ReadSave
  <2> QED BY <1>2, <1>3, <1>4, <2>1, <2>2 DEF AheadInv, CallReads, storeVars
<1>6. CASE ReadOwner
  <2>1. buffer.campaignId \in DOMAIN campaigns
        /\ buffer.campaign = campaigns[buffer.campaignId].half
    BY <1>6 DEF ReadOwner, Continue, AheadInv, CallReads
  <2>2. buffer' = [campaignId |-> buffer.campaignId, campaign |-> buffer.campaign,
                   owner |-> campaigns[buffer.campaignId].owner]
    BY <1>6, <2>1 DEF ReadOwner
  <2>3. upc' = "character"
    BY <1>6 DEF ReadOwner
  <2>4. CallReads'
    BY <1>2, <1>4, <2>1, <2>2, <2>3 DEF CallReads, storeVars
  <2> QED BY <1>3, <2>4 DEF AheadInv
<1>7. CASE ReadOwnersRow
  <2>1. buffer.campaignId \in DOMAIN campaigns
        /\ buffer.campaign = campaigns[buffer.campaignId].half
        /\ buffer.owner = campaigns[buffer.campaignId].owner
    BY <1>7 DEF ReadOwnersRow, Continue, AheadInv, CallReads
  <2>2. buffer.owner \in DOMAIN characters
    BY <2>1 DEF OrphanInv, NoOrphanCampaign
  <2>3. buffer' = [campaignId |-> buffer.campaignId, campaign |-> buffer.campaign,
                   owner |-> buffer.owner, character |-> characters[buffer.owner]]
    BY <1>7, <2>2 DEF ReadOwnersRow, Loaded
  <2>4. upc' = "load"
    BY <1>7 DEF ReadOwnersRow
  <2>5. CallReads'
    BY <1>2, <1>4, <2>1, <2>2, <2>3, <2>4 DEF CallReads, storeVars
  <2> QED BY <1>3, <2>5 DEF AheadInv
<1>8. CASE ReadCharacter
  <2>1. PICK c \in DOMAIN characters : buffer' = [characterId |-> c, character |-> characters[c]]
    BY <1>8 DEF ReadCharacter
  <2>2. upc' = "newCampaign"
    BY <1>8 DEF ReadCharacter
  <2> QED BY <1>2, <1>3, <1>4, <2>1, <2>2 DEF AheadInv, CallReads, storeVars
<1> QED BY <1>5, <1>6, <1>7, <1>8

\* What is taken up is the row of the character, as it is.
LEMMA TakenUp ==
    ASSUME Uncrossed, crossed' = {}, ApplySave \/ NewCampaign
    PROVE  /\ characterId' \in DOMAIN characters /\ character' = characters[characterId']
           /\ campaignId' \in DOMAIN campaigns => campaign' = campaigns[campaignId'].half
           /\ StartSave("ui") /\ WorkerQuiet
<1> USE DEF Uncrossed
<1>1. WorkerQuiet /\ ~turnInProgress
  BY CallsAreQuiet DEF turnInProgress
<1>2. CASE ApplySave
  <2>1. /\ buffer.campaignId \in DOMAIN campaigns
        /\ buffer.campaign = campaigns[buffer.campaignId].half
        /\ buffer.owner \in DOMAIN characters
        /\ buffer.character = characters[buffer.owner]
    BY <1>2 DEF ApplySave, Continue, AheadInv, CallReads
  <2>2. buffer.owner # NoRow /\ buffer.character # NoRow
    BY <2>1, NoRowIsApart DEF TypeInv, RowsTyped
  <2>3. /\ campaignId' = buffer.campaignId /\ campaign' = buffer.campaign
        /\ characterId' = buffer.owner /\ character' = buffer.character /\ StartSave("ui")
    BY <1>1, <1>2, <2>2 DEF ApplySave
  <2> QED BY <1>1, <2>1, <2>3
<1>3. CASE NewCampaign
  <2>1. buffer.characterId \in DOMAIN characters
        /\ buffer.character = characters[buffer.characterId]
    BY <1>3 DEF NewCampaign, Continue, AheadInv, CallReads
  <2>2. /\ characterId' = buffer.characterId /\ character' = buffer.character
        /\ campaignId' \in NewCampaigns /\ StartSave("ui")
    BY <1>1, <1>3 DEF NewCampaign
  <2> QED BY <1>1, <2>1, <2>2 DEF NewCampaigns
<1> QED BY <1>2, <1>3

\* A game taken up is no older than its rows.
LEMMA AheadTakeUpStep ==
    ASSUME Uncrossed, crossed' = {}, ApplySave \/ NewCampaign
    PROVE  AheadInv'
<1>1. /\ characterId' \in DOMAIN characters /\ character' = characters[characterId']
      /\ campaignId' \in DOMAIN campaigns => campaign' = campaigns[campaignId'].half
      /\ StartSave("ui") /\ WorkerQuiet
  BY TakenUp
<1>2. UNCHANGED <<storeVars, last>> /\ upc' = "idle"
  BY DEF ApplySave, NewCampaign, ghostVars
<1>3. CopyBetween' /\ WrittenIsThere'
  BY <1>1, SaveOfUi, NothingInHand DEF Uncrossed, TypeInv, Threads
<1>4. MemoryAhead'
  BY <1>1, <1>2, NumbersAreInt DEF Uncrossed, MemoryAhead, storeVars
<1>5. SavedIsDurable' /\ CallReads'
  BY <1>2, StoreUntouched DEF Uncrossed, AheadInv, CallReads
<1> QED BY <1>3, <1>4, <1>5 DEF AheadInv

\* A deleted row is nobody's any more, and is not the last save's either.
LEMMA AheadDeleteStep ==
    ASSUME Uncrossed, crossed' = {},
           ListCampaigns \/ DeleteOwned \/ DeleteCharacter \/ DeleteCampaign
    PROVE  AheadInv'
<1> USE DEF Uncrossed
<1>1. WorkerQuiet /\ \A t \in Threads : savePc[t] = "none"
  BY CallsAreQuiet
<1>2. UNCHANGED <<active, gameVars, saveVars>>
  BY DEF ListCampaigns, DeleteOwned, DeleteCharacter, DeleteCampaign, storeVars
<1>3. CopyBetween' /\ WrittenIsThere'
  BY <1>1, <1>2, NothingInHand DEF saveVars
<1>4. CallReads'
  <2>1. WorkerQuiet'
    BY <1>1, <1>2 DEF WorkerQuiet, turnInProgress, gameVars, saveVars
  <2>2. upc' \in {"idle", "delete"}
    BY DEF ListCampaigns, DeleteOwned, DeleteCharacter, DeleteCampaign, MayCall, Continue, callVars
  <2> QED BY <2>1, <2>2 DEF CallReads
<1>5. MemoryAhead'
  <2>1. /\ UNCHANGED characters \/ \E c : characters' = Drop(characters, {c})
        /\ UNCHANGED campaigns \/ \E k : campaigns' = Drop(campaigns, {k})
    BY DEF ListCampaigns, DeleteOwned, DeleteCharacter, DeleteCampaign, storeVars
  <2>2. \A c \in DOMAIN characters' : c \in DOMAIN characters /\ characters'[c] = characters[c]
    BY <2>1 DEF Drop, Restrict
  <2>3. \A k \in DOMAIN campaigns' : k \in DOMAIN campaigns /\ campaigns'[k] = campaigns[k]
    BY <2>1 DEF Drop, Restrict
  <2> QED BY <1>2, <2>2, <2>3 DEF AheadInv, MemoryAhead, gameVars
<1>6. SavedIsDurable'
  <2>1. CASE ListCampaigns
    BY <2>1, StoreUntouched DEF ListCampaigns, AheadInv
  <2>2. CASE DeleteOwned \/ DeleteCampaign
    <3>1. PICK k : campaigns' = Drop(campaigns, {k}) /\ ForgetLast(last.ids.campaign = k)
      BY <2>2 DEF DeleteOwned, DeleteCampaign
    <3>2. /\ DOMAIN campaigns' = DOMAIN campaigns \ {k}
          /\ \A x \in DOMAIN campaigns \ {k} : campaigns'[x] = campaigns[x]
      BY <3>1 DEF Drop, Restrict
    <3>3. last' # NoRow => last # NoRow /\ last' = last /\ last.ids.campaign # k
      BY <3>1 DEF ForgetLast
    <3>4. UNCHANGED characters
      BY <2>2 DEF DeleteOwned, DeleteCampaign
    <3> QED BY <1>2, <3>2, <3>3, <3>4 DEF AheadInv, SavedIsDurable
  <2>3. CASE DeleteCharacter
    <3> DEFINE c == buffer.doomed
    <3>1. characters' = Drop(characters, {c}) /\ ForgetLast(last.ids.character = c)
          /\ UNCHANGED campaigns
      BY <2>3 DEF DeleteCharacter
    <3>2. /\ DOMAIN characters' = DOMAIN characters \ {c}
          /\ \A x \in DOMAIN characters \ {c} : characters'[x] = characters[x]
      BY <3>1 DEF Drop, Restrict
    <3>3. last' # NoRow => last # NoRow /\ last' = last /\ last.ids.character # c
      BY <3>1 DEF ForgetLast
    <3> QED BY <1>2, <3>1, <3>2, <3>3 DEF AheadInv, SavedIsDurable
  <2> QED BY <2>1, <2>2, <2>3
<1> QED BY <1>3, <1>4, <1>5, <1>6 DEF AheadInv

\* After a crash the game is what the rows say.
LEMMA AheadRestartStep ==
    ASSUME Uncrossed, TypeInv', Restart
    PROVE  AheadInv'
<1> USE DEF Uncrossed
<1>1. savePc' = NoSave /\ upc' = "idle" /\ UNCHANGED <<storeVars, last>>
  BY DEF Restart
<1>2. character' = Loaded(characters, characterId', Untouched(characterId'))
  BY DEF Restart
<1>3. campaign' = Loaded(campaigns, campaignId', [half |-> Untouched(campaignId')]).half
  BY DEF Restart
<1>4. MemoryAhead'
  BY <1>1, <1>2, <1>3, NumbersAreInt DEF Loaded, MemoryAhead, storeVars
<1>5. SavedIsDurable' /\ CallReads' /\ CopyBetween' /\ WrittenIsThere'
  BY <1>1, StoreUntouched, NothingInHand DEF AheadInv, CallReads, NoSave
<1> QED BY <1>4, <1>5 DEF AheadInv

\* Every step that meets nothing keeps what has been reached.
LEMMA AheadStep ==
    ASSUME Uncrossed, TypeInv', [Next]_vars, crossed' = {}
    PROVE  AheadInv'
<1>1. CASE UNCHANGED vars
  BY <1>1 DEF vars, storeVars, gameVars, saveVars, callVars, ghostVars, Uncrossed, AheadInv,
     MemoryAhead, CopyBetween, WrittenIsThere, CallReads, SavedIsDurable, WorkerQuiet,
     turnInProgress
<1>2. CASE Next
  BY <1>2, AheadSaveStep, AheadGameStep, AheadReadStep, AheadTakeUpStep, AheadDeleteStep,
     AheadRestartStep DEF Next, UiStep
<1> QED BY <1>1, <1>2

-----------------------------------------------------------------------------
(* The theorems, about a player who calls whenever he likes.                *)

\* The program starts with every layer.
LEMMA SaveInit == Init => SaveInv
<1> SUFFICES ASSUME Init PROVE SaveInv
    OBVIOUS
<1>1. TypeInv /\ crossed = {} /\ last = NoRow /\ worker = "idle" /\ upc = "idle"
      /\ DOMAIN characters = {} /\ DOMAIN campaigns = {}
  BY TypesInit DEF Init
<1>2. \A t \in Threads : savePc[t] = "none"
  BY DEF Init, NoSave
<1>3. InTurn
  BY <1>1, <1>2 DEF InTurn, Threads
<1>4. RowsInv
  <2>1. GameIsOwn
    BY UntouchedFits DEF Init, GameIsOwn
  <2>2. CopiesAreOwn /\ BuffersAreOwn /\ RowsHoldTheirOwn
    BY <1>1, <1>2 DEF CopiesAreOwn, BuffersAreOwn, RowsHoldTheirOwn
  <2> QED BY <2>1, <2>2 DEF RowsInv
<1>5. OrphanInv
  BY <1>1, <1>2 DEF OrphanInv, NoOrphanCampaign
<1>6. CurrentInv
  BY <1>1, <1>2 DEF CurrentInv, OneSave, SaveFollows, Current, Threads
<1>7. AheadInv
  BY <1>1, <1>2 DEF AheadInv, MemoryAhead, CopyBetween, WrittenIsThere, CallReads, SavedIsDurable
<1> QED BY <1>1, <1>3, <1>4, <1>5, <1>6, <1>7 DEF SaveInv

\* Before and after a step that has met nothing, all layers hold.
LEMMA NothingMet ==
    ASSUME SaveInv, [Next]_vars, crossed' = {}
    PROVE  Uncrossed
<1>1. crossed = {}
  BY CrossedStep
<1> QED BY <1>1 DEF SaveInv, Uncrossed

\* Every step keeps the layers that its call cannot break.
LEMMA SaveInvStep == SaveInv /\ [Next]_vars => SaveInv'
<1> SUFFICES ASSUME SaveInv, [Next]_vars PROVE SaveInv'
    OBVIOUS
<1>0. TypeInv /\ InTurn /\ crossed \subseteq Crossings /\ crossed \subseteq crossed'
  BY CrossedStep DEF SaveInv
<1>1. TypeInv' /\ InTurn' /\ (crossed \subseteq Crossings)'
  BY <1>0, TypesStep, InTurnStep, CrossedStep
<1>2. "switch" \notin crossed' => RowsInv'
  BY <1>0, RowsStep DEF SaveInv
<1>3. crossed' \cap {"delete", "switch"} = {} => OrphanInv'
  <2>1. crossed' \cap {"delete", "switch"} = {} => crossed \cap {"delete", "switch"} = {}
    BY <1>0
  <2> QED BY <1>0, <2>1, OrphanStep DEF SaveInv
<1>4. crossed' \cap {"change", "switch"} = {} => CurrentInv'
  <2>1. crossed' \cap {"change", "switch"} = {} => crossed \cap {"change", "switch"} = {}
    BY <1>0
  <2> QED BY <1>0, <2>1, CurrentStep DEF SaveInv
<1>5. crossed' = {} => AheadInv'
  BY <1>1, NothingMet, AheadStep
<1> QED BY <1>1, <1>2, <1>3, <1>4, <1>5 DEF SaveInv

\* The inductive invariant of saving: each layer holds until a call of a kind that
\* can break it has met a job or a save of the worker's.
THEOREM SavingInvariance == Spec => []SaveInv
BY SaveInit, SaveInvStep, PTL DEF Spec

\* save() writes under ids it reads without the lock; a row holds the half of the
\* game it is named for all the same, until a new game, a load or a new campaign
\* meets the worker's save.
THEOREM RowsAreTheirOwn == Spec => []OnlySwitchesMixRows
<1>1. SaveInv => OnlySwitchesMixRows
  BY DEF SaveInv, RowsInv, OnlySwitchesMixRows
<1> QED BY <1>1, SavingInvariance, PTL

\* A campaign in the store belongs to a character in the store, also when the
\* process dies between two deletions of delete_character, until a deletion or a
\* switch meets a job or a save of the worker's.
THEOREM NoCampaignIsOrphaned == Spec => []OnlyDeletesAndSwitchesOrphan
<1>1. SaveInv => OnlyDeletesAndSwitchesOrphan
  BY DEF SaveInv, OrphanInv, OnlyDeletesAndSwitchesOrphan
<1> QED BY <1>1, SavingInvariance, PTL

\* Between two calls the store holds the game as it is in memory, until the UI thread
\* changes or switches the game during the worker's save and saves it too.
THEOREM StoreCatchesUp == Spec => []OnlySecondSavesLag
<1>1. SaveInv => OnlySecondSavesLag
  <2> SUFFICES ASSUME SaveInv, crossed \cap {"change", "switch"} = {}, BetweenCalls
               PROVE  StoreIsCurrent
      BY DEF OnlySecondSavesLag, StoreIsCurrent
  <2>1. worker = "idle" /\ \A t \in Threads : savePc[t] = "none"
    BY DEF BetweenCalls, WorkerQuiet, turnInProgress, Threads
  <2>2. Current
    BY DEF SaveInv, CurrentInv
  <2> QED BY <2>1, <2>2 DEF Current, StoreIsCurrent
<1> QED BY <1>1, SavingInvariance, PTL

\* What a completed save recorded is in the store until the player deletes it,
\* through crashes, loads and later saves, as long as no call of the four kinds has
\* met a job or a save of the worker's.
THEOREM SavedStays == Spec => []OnlyCrossingsLoseSaves
<1>1. SaveInv => OnlyCrossingsLoseSaves
  BY DEF SaveInv, AheadInv, OnlyCrossingsLoseSaves
<1> QED BY <1>1, SavingInvariance, PTL

\* What a call takes up of the character being played is what is in memory.
LEMMA CharacterStep ==
    ASSUME SaveInv, [Next]_vars, crossed' = {}, characterId' = characterId
    PROVE  character'.changes >= character.changes \/ Restart
<1>0. Uncrossed
  BY NothingMet
<1>1. character.changes \in Int /\ GameTyped
  BY <1>0, NumbersAreInt DEF Uncrossed, TypeInv
<1>2. CASE UNCHANGED character
  BY <1>1, <1>2
<1>3. CASE ChangeHalf
  BY <1>1, <1>3, ChangeAdvances
<1>4. CASE NewGame
  BY <1>4 DEF NewGame, NewCharacters
<1>5. CASE ApplySave \/ NewCampaign
  <2>1. characterId \in DOMAIN characters /\ character' = characters[characterId]
    BY <1>0, <1>5, TakenUp
  <2>2. worker = "idle" /\ \A t \in Threads : savePc[t] = "none"
    BY <1>0, <1>5, CallsAreQuiet
  <2>3. characters[characterId] = character
    BY <1>0, <2>1, <2>2 DEF Uncrossed, CurrentInv, Current
  <2> QED BY <1>1, <2>1, <2>3
<1>6. [Next]_vars => \/ UNCHANGED character \/ ChangeHalf \/ NewGame
                     \/ ApplySave \/ NewCampaign \/ Restart
  <2>1. UNCHANGED vars => UNCHANGED character
    BY DEF vars, gameVars
  <2>2. \A t \in Threads : Save(t) => UNCHANGED character
    BY <1>0, SaveFrame DEF Uncrossed, TypeInv
  <2>3. ChangeGame \/ JobChangesGame => ChangeHalf
    BY DEF ChangeGame, JobChangesGame
  <2>4. ReadSave \/ ReadOwner \/ ReadOwnersRow \/ ReadCharacter => UNCHANGED character
    BY DEF ReadSave, ReadOwner, ReadOwnersRow, ReadCharacter, gameVars
  <2>5. ListCampaigns \/ DeleteOwned \/ DeleteCharacter \/ DeleteCampaign => UNCHANGED character
    BY DEF ListCampaigns, DeleteOwned, DeleteCharacter, DeleteCampaign, gameVars
  <2>6. ClaimJob \/ EndJob \/ EndUnsaved => UNCHANGED character
    BY DEF ClaimJob, EndJob, EndUnsaved
  <2> QED BY <2>1, <2>2, <2>3, <2>4, <2>5, <2>6 DEF Next, UiStep, WorkerStep
<1> QED BY <1>2, <1>3, <1>4, <1>5, <1>6

\* While the process runs, the character being played never loses a change, whatever
\* campaign it is taken into, as long as no call of the four kinds has met a job or a
\* save of the worker's.
THEOREM CharacterNeverLoses == Spec => OnlyCrossingsTakeBack
<1>1. SaveInv /\ [Next]_vars =>
          [crossed' = {} /\ characterId' = characterId =>
              character'.changes >= character.changes \/ Restart]_vars
  BY CharacterStep
<1> QED BY <1>1, SavingInvariance, PTL DEF Spec, OnlyCrossingsTakeBack

\* A save writes the character that is played, and its row is not ahead of it.
LEMMA RowStep ==
    ASSUME SaveInv, [Next]_vars, crossed' = {},
           NEW c \in DOMAIN characters, c \in DOMAIN characters',
           characters'[c].whose = characters[c].whose
    PROVE  characters'[c].changes >= characters[c].changes
<1>0. Uncrossed
  BY NothingMet
<1>1. characters[c].changes \in Int
  BY <1>0, NumbersAreInt DEF Uncrossed
<1>2. CASE UNCHANGED characters
  BY <1>1, <1>2
<1>3. ASSUME NEW t \in Threads, UpsertCharacter(t)
      PROVE  characters'[c].changes >= characters[c].changes
  <2>1. copy[t][1] = character
    BY <1>0, <1>3 DEF UpsertCharacter, Uncrossed, CurrentInv, SaveFollows
  <2>2. /\ character.changes \in Int
        /\ characterId \in DOMAIN characters => characters[characterId].changes <= character.changes
    BY <1>0, NumbersAreInt DEF Uncrossed, AheadInv, MemoryAhead
  <2>3. characters'[c] = IF c = characterId THEN character ELSE characters[c]
    BY <1>3, <2>1 DEF UpsertCharacter, Upsert
  <2> QED BY <1>1, <2>2, <2>3
<1>4. CASE DeleteCharacter
  BY <1>1, <1>4 DEF DeleteCharacter, Drop, Restrict
<1>5. UNCHANGED characters \/ DeleteCharacter \/ \E t \in Threads : UpsertCharacter(t)
  <2>1. UNCHANGED vars => UNCHANGED characters
    BY DEF vars, storeVars
  <2>2. \A t \in Threads : Save(t) => UNCHANGED characters \/ UpsertCharacter(t)
    BY DEF Save, SerializeGame, ReadCampaignId, UpsertCampaign, ReadCharacterId, UpsertActive,
       ReadId, storeVars
  <2>3. NewGame \/ ChangeGame \/ JobChangesGame \/ Restart => UNCHANGED characters
    BY DEF NewGame, ChangeGame, JobChangesGame, Restart, storeVars
  <2>4. ReadSave \/ ReadOwner \/ ReadOwnersRow \/ ReadCharacter \/ ApplySave \/ NewCampaign
            => UNCHANGED characters
    BY DEF ReadSave, ReadOwner, ReadOwnersRow, ReadCharacter, ApplySave, NewCampaign, storeVars
  <2>5. ListCampaigns \/ DeleteOwned \/ DeleteCampaign => UNCHANGED characters
    BY DEF ListCampaigns, DeleteOwned, DeleteCampaign, storeVars
  <2>6. ClaimJob \/ EndJob \/ EndUnsaved => UNCHANGED characters
    BY DEF ClaimJob, EndJob, EndUnsaved, storeVars
  <2> QED BY <2>1, <2>2, <2>3, <2>4, <2>5, <2>6 DEF Next, UiStep, WorkerStep
<1> QED BY <1>2, <1>3, <1>4, <1>5

\* No write of a row takes a character back to an earlier state: of two saves the
\* older copy never lands last, as long as no call of the four kinds has met a job or
\* a save of the worker's.
THEOREM RowsOnlyAdvance == Spec => OnlyCrossingsRegress
<1>1. SaveInv /\ [Next]_vars =>
          [crossed' = {} =>
              \A c \in DOMAIN characters \cap DOMAIN characters' :
                  characters'[c].whose = characters[c].whose =>
                      characters'[c].changes >= characters[c].changes]_vars
  BY RowStep
<1> QED BY <1>1, SavingInvariance, PTL DEF Spec, OnlyCrossingsRegress
=============================================================================
