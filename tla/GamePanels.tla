----------------------------- MODULE GamePanels -----------------------------
(***************************************************************************)
(* The player's side of the game (app/ui/src/game_panels.cpp) over the     *)
(* engine's gate: what the panels offer and what the engine makes of a     *)
(* click.                                                                  *)
(*                                                                         *)
(* Each frame takes one snapshot and draws every widget from it; a click   *)
(* is handled while the frame is drawn, when the worker may have moved on. *)
(* The library reports at most one widget as clicked in a frame, and a     *)
(* modal window keeps every other window from being clicked.               *)
(*                                                                         *)
(* The engine is seen through TurnGate, which EngineTurns implements.  Of  *)
(* the game the module keeps what the panels branch on: an armed check, an *)
(* active combat, the number of the last roll and the last suggested text. *)
(* The windows that only show the snapshot may be open or closed in any    *)
(* frame, so their buttons may be clicked in every frame.                  *)
(***************************************************************************)
EXTENDS Naturals

CONSTANTS NoJob, NoFrame,
          MaxRolls,      \* bound: rolls of the dice
          MaxFills       \* bound: suggestions asked for

\* worker_main's jobs; "resolution" is the turn that resolve_skill_check asks for.
Jobs == {"turn", "resolution", "worldgen", "autofill", "combat", "mount"}

ASSUME PanelsAssumption ==
    /\ MaxRolls \in Nat \ {0} /\ MaxFills \in Nat
    /\ NoJob \notin Jobs

VARIABLES
    phase, current,            \* the engine's gate (TurnGate)
    check, combat,             \* state_.skill_check.active, state_.combat.active
    rollSeq,                   \* dice_seq_, the number of the last roll
    fill, fillSeq,             \* autofill_value_ and autofill_seq_
    frame,                     \* the frame being drawn: its snapshot, and whether
                               \* one of its widgets was clicked
    modal,                     \* the modal window: "none", "forge" or "combat"
    showSkill, skillBase,      \* show_skill_, skill_base_seq_
    premise,                   \* new_world_
    awaiting, lastFill,        \* awaiting_autofill_, last_autofill_seq_
    call                       \* history: the call this frame's click made, if any

gateVars    == <<phase, current>>
gameVars    == <<check, combat, rollSeq, fill, fillSeq>>
skillVars   == <<showSkill, skillBase>>
premiseVars == <<premise, awaiting, lastFill>>
vars == <<gateVars, gameVars, frame, modal, skillVars, premiseVars, call>>

Gate == INSTANCE TurnGate

NoCall == [widget |-> "none", taken |-> TRUE, idleShown |-> TRUE]

\* A resumed game may hold an armed check or an active combat.
Init ==
    /\ Gate!GateInit
    /\ check \in BOOLEAN /\ combat \in BOOLEAN
    /\ rollSeq = 0 /\ fill = "" /\ fillSeq = 0
    /\ frame = NoFrame /\ modal = "none"
    /\ showSkill = FALSE /\ skillBase = 0
    /\ premise = "" /\ awaiting = FALSE /\ lastFill = 0
    /\ call = NoCall

-----------------------------------------------------------------------------
(* The frame loop.                                                         *)

Snapshot == [busy |-> phase # "idle", check |-> check, combat |-> combat, roll |-> rollSeq,
             fill |-> fill, fillSeq |-> fillSeq, modal |-> modal, clicked |-> FALSE]

BeginFrame ==
    /\ frame = NoFrame
    /\ frame' = Snapshot
    /\ UNCHANGED <<gateVars, gameVars, modal, skillVars, premiseVars, call>>

\* The Premise tab, when it is drawn, takes a suggestion it has not seen.
ApplySuggestion ==
    /\ frame.modal = "forge"
    /\ awaiting /\ frame.fillSeq > lastFill
    /\ premise' = frame.fill /\ awaiting' = FALSE
    /\ UNCHANGED lastFill

\* The Combat window closes itself in a frame that shows no combat.
EndFrame ==
    /\ frame # NoFrame
    /\ frame' = NoFrame
    /\ modal' = IF modal = "combat" /\ ~frame.combat THEN "none" ELSE modal
    /\ ApplySuggestion \/ UNCHANGED premiseVars
    /\ call' = NoCall
    /\ UNCHANGED <<gateVars, gameVars, skillVars>>

\* One widget of a window that no modal window covers is clicked.
ClickIn(window) ==
    /\ frame # NoFrame
    /\ ~frame.clicked /\ frame.modal = window
    /\ frame' = [frame EXCEPT !.clicked = TRUE]

\* pending_roll of the Story panel.
PendingRoll == frame.combat \/ frame.check

-----------------------------------------------------------------------------
(* What the engine makes of a call: refused without a word while busy.     *)

Made(widget, taken) ==
    call' = [widget |-> widget, taken |-> taken, idleShown |-> ~frame.busy]

Refused(widget) == UNCHANGED <<gateVars, gameVars>> /\ Made(widget, FALSE)

\* submit_turn, request_autofill, acquire_mount: the engine is claimed for a job.
Claim(widget, job) ==
    \/ Gate!Accept(job) /\ UNCHANGED gameVars /\ Made(widget, TRUE)
    \/ phase # "idle" /\ Refused(widget)

\* combat_action and combat_use_item also need a combat.
ClaimCombat ==
    \/ combat /\ Gate!Accept("combat") /\ UNCHANGED gameVars /\ Made("combat", TRUE)
    \/ (phase # "idle" \/ ~combat) /\ Refused("combat")

\* resolve_skill_check: roll, disarm and ask for the turn that narrates it.
ResolveSkillCheck ==
    \/ /\ check /\ Gate!Accept("resolution")
       /\ check' = FALSE /\ rollSeq' = rollSeq + 1
       /\ UNCHANGED <<combat, fill, fillSeq>>
       /\ Made("roll", TRUE)
    \/ (phase # "idle" \/ ~check) /\ Refused("roll")

\* new_game, new_campaign and load_save replace what is pending.
SwitchGame(widget, armed, fighting) ==
    \/ /\ phase = "idle"
       /\ check' = armed /\ combat' = fighting
       /\ UNCHANGED <<gateVars, rollSeq, fill, fillSeq>>
       /\ Made(widget, TRUE)
    \/ phase # "idle" /\ Refused(widget)

\* A method that ends in the call and leaves what is kept here alone.
Command(widget) ==
    \/ phase = "idle" /\ UNCHANGED <<gateVars, gameVars>> /\ Made(widget, TRUE)
    \/ phase # "idle" /\ Refused(widget)

-----------------------------------------------------------------------------
(* The Story panel.                                                        *)

\* Mutant: the quick actions are drawn also beside an engage prompt.
QuickActionAlways ==
    /\ ClickIn("none")
    /\ ~frame.busy
    /\ Claim("quick action", "turn")
    /\ UNCHANGED <<modal, skillVars, premiseVars>>

\* Quick actions are drawn without a pending roll and enabled while idle.
QuickAction ==
    /\ ClickIn("none")
    /\ ~frame.busy /\ ~PendingRoll
    /\ Claim("quick action", "turn")
    /\ UNCHANGED <<modal, skillVars, premiseVars>>

\* The command box, by its button or by Enter.
Send ==
    /\ ClickIn("none")
    /\ ~frame.busy /\ ~PendingRoll
    /\ Claim("send", "turn")
    /\ UNCHANGED <<modal, skillVars, premiseVars>>

\* cancel_turn: the flag it sets only makes the job end sooner.
CancelTurn ==
    /\ ClickIn("none")
    /\ frame.busy
    /\ UNCHANGED <<gateVars, gameVars, modal, skillVars, premiseVars, call>>

EngageCombat ==
    /\ ClickIn("none")
    /\ ~frame.busy /\ frame.combat
    /\ modal' = "combat"
    /\ UNCHANGED <<gateVars, gameVars, skillVars, premiseVars, call>>

\* Mutant: the window counts from the roll before the last.
EngageSkillEarlier ==
    /\ ClickIn("none")
    /\ ~frame.busy /\ frame.check /\ ~showSkill
    /\ showSkill' = TRUE
    /\ skillBase' = IF frame.roll = 0 THEN 0 ELSE frame.roll - 1
    /\ UNCHANGED <<gateVars, gameVars, modal, premiseVars, call>>

\* The Skill Check window remembers the last roll before its own.
EngageSkill ==
    /\ ClickIn("none")
    /\ ~frame.busy /\ frame.check /\ ~showSkill
    /\ showSkill' = TRUE /\ skillBase' = frame.roll
    /\ UNCHANGED <<gateVars, gameVars, modal, premiseVars, call>>

-----------------------------------------------------------------------------
(* The Combat and Skill Check windows.                                     *)

\* Attack, Defend, Flee and the potions.
CombatMove ==
    /\ ClickIn("combat")
    /\ frame.combat /\ ~frame.busy
    /\ ClaimCombat
    /\ UNCHANGED <<modal, skillVars, premiseVars>>

\* The window shows the dice once a roll is newer than the one it remembers.
Rolled == frame.roll > skillBase

RollTheDice ==
    /\ ClickIn("none")
    /\ showSkill /\ ~Rolled
    /\ frame.check /\ ~frame.busy
    /\ ResolveSkillCheck
    /\ UNCHANGED <<modal, skillVars, premiseVars>>

Continue ==
    /\ ClickIn("none")
    /\ showSkill /\ Rolled
    /\ showSkill' = FALSE
    /\ UNCHANGED <<gateVars, gameVars, modal, skillBase, premiseVars, call>>

\* The window's own close button.
CloseSkillCheck ==
    /\ ClickIn("none")
    /\ showSkill
    /\ showSkill' = FALSE
    /\ UNCHANGED <<gateVars, gameVars, modal, skillBase, premiseVars, call>>

-----------------------------------------------------------------------------
(* The New Game dialog.                                                    *)

\* From the menu or from the Characters window.
OpenForge ==
    /\ ClickIn("none")
    /\ modal' = "forge"
    /\ UNCHANGED <<gateVars, gameVars, skillVars, premiseVars, call>>

TypePremise ==
    /\ ClickIn("forge")
    /\ premise' = "typed"
    /\ UNCHANGED <<gateVars, gameVars, modal, skillVars, awaiting, lastFill, call>>

\* Offered while the engine is busy as well; the result is awaited even so.
SuggestPremise ==
    /\ ClickIn("forge")
    /\ fillSeq < MaxFills
    /\ awaiting' = TRUE /\ lastFill' = frame.fillSeq
    /\ Claim("suggest", "autofill")
    /\ UNCHANGED <<modal, skillVars, premise>>

\* Mutant: the world is asked for before the game is replaced.
BeginAdventureSwapped ==
    /\ ClickIn("forge")
    /\ ~frame.busy
    /\ modal' = "none"
    /\ \/ Gate!Accept("worldgen") /\ UNCHANGED gameVars /\ Made("begin", FALSE)
       \/ phase # "idle" /\ Refused("begin")
    /\ UNCHANGED <<skillVars, premiseVars>>

\* new_game, then generate_world: the handler's two calls.
BeginAdventure ==
    /\ ClickIn("forge")
    /\ ~frame.busy
    /\ modal' = "none"
    /\ \/ /\ Gate!Accept("worldgen")
          /\ check' = FALSE /\ combat' = FALSE
          /\ UNCHANGED <<rollSeq, fill, fillSeq>>
          /\ Made("begin", TRUE)
       \/ phase # "idle" /\ Refused("begin")
    /\ UNCHANGED <<skillVars, premiseVars>>

\* Not disabled while busy: the dialog closes although the game is not replaced.
QuickStart ==
    /\ ClickIn("forge")
    /\ modal' = "none"
    /\ SwitchGame("quick start", FALSE, FALSE)
    /\ UNCHANGED <<skillVars, premiseVars>>

CancelForge ==
    /\ ClickIn("forge")
    /\ modal' = "none"
    /\ UNCHANGED <<gateVars, gameVars, skillVars, premiseVars, call>>

-----------------------------------------------------------------------------
(* The other windows: every button that the engine may refuse.             *)

\* "+" of the Character Statistics.
AllocateAttribute ==
    /\ ClickIn("none") /\ ~frame.busy
    /\ Command("allocate")
    /\ UNCHANGED <<modal, skillVars, premiseVars>>

CollectIncome ==
    /\ ClickIn("none") /\ ~frame.busy
    /\ Command("collect")
    /\ UNCHANGED <<modal, skillVars, premiseVars>>

AcquireMount ==
    /\ ClickIn("none") /\ ~frame.busy
    /\ Claim("acquire", "mount")
    /\ UNCHANGED <<modal, skillVars, premiseVars>>

\* The game master's window offers the same call while busy as well.
AcquireFromRoster ==
    /\ ClickIn("none")
    /\ Claim("roster", "mount")
    /\ UNCHANGED <<modal, skillVars, premiseVars>>

\* Equip, unequip and use of the Inventory.
UseInventory ==
    /\ ClickIn("none")
    /\ Command("inventory")
    /\ UNCHANGED <<modal, skillVars, premiseVars>>

\* The game master's items, mounts, factions, properties, numbers and "+": none
\* of these tools arms a check or touches a combat.
ApplyGmTool ==
    /\ ClickIn("none")
    /\ Command("gm tool")
    /\ UNCHANGED <<modal, skillVars, premiseVars>>

\* Load of the Load Game window and Play of the Campaign Manager; the game read
\* may have been saved with a roll pending.  The windows close in any case.
LoadSave ==
    /\ ClickIn("none")
    /\ \E armed, fighting \in BOOLEAN :
        /\ armed => rollSeq < MaxRolls
        /\ SwitchGame("load", armed, fighting)
    /\ UNCHANGED <<modal, skillVars, premiseVars>>

CreateCampaign ==
    /\ ClickIn("none")
    /\ SwitchGame("campaign", FALSE, FALSE)
    /\ UNCHANGED <<modal, skillVars, premiseVars>>

-----------------------------------------------------------------------------
(* The worker, behind the gate.                                            *)

panelVars == <<frame, modal, skillVars, premiseVars, call>>

StartJob == Gate!Start /\ UNCHANGED <<gameVars, panelVars>>

\* set_skill_check, start_combat and end_combat, called by the game master.
\* The bound keeps a roll for the check that is armed.
ToolCall ==
    /\ phase = "running" /\ current \in {"turn", "resolution", "worldgen"}
    /\ \/ rollSeq < MaxRolls /\ check' = TRUE /\ UNCHANGED combat
       \/ combat' \in BOOLEAN /\ UNCHANGED check
    /\ UNCHANGED <<gateVars, rollSeq, fill, fillSeq, panelVars>>

\* The player's move of a round: an attack rolls dice of its own.
AttackRoll ==
    /\ phase = "running" /\ current = "combat" /\ combat
    /\ rollSeq + (IF check THEN 1 ELSE 0) < MaxRolls
    /\ rollSeq' = rollSeq + 1
    /\ UNCHANGED <<gateVars, check, combat, fill, fillSeq, panelVars>>

\* Victory, flight or defeat.
CombatEnds ==
    /\ phase = "running" /\ current = "combat"
    /\ combat' = FALSE
    /\ UNCHANGED <<gateVars, check, rollSeq, fill, fillSeq, panelVars>>

\* A resolution leaves no check armed; a suggestion that failed or was cancelled
\* is published as an empty one.
FinishJob ==
    /\ Gate!Finish
    /\ check' = (check /\ current # "resolution")
    /\ IF current = "autofill"
       THEN fill' \in {"", "suggested"} /\ fillSeq' = fillSeq + 1
       ELSE UNCHANGED <<fill, fillSeq>>
    /\ UNCHANGED <<combat, rollSeq, panelVars>>

-----------------------------------------------------------------------------
Worker == StartJob \/ ToolCall \/ AttackRoll \/ CombatEnds \/ FinishJob

StoryClick == QuickAction \/ Send \/ CancelTurn \/ EngageCombat \/ EngageSkill

RollClick == CombatMove \/ RollTheDice \/ Continue \/ CloseSkillCheck

ForgeClick == \/ OpenForge \/ TypePremise \/ SuggestPremise
              \/ BeginAdventure \/ QuickStart \/ CancelForge

WindowClick == \/ AllocateAttribute \/ CollectIncome \/ AcquireMount
               \/ AcquireFromRoster \/ UseInventory \/ ApplyGmTool
               \/ LoadSave \/ CreateCampaign

Next == \/ BeginFrame \/ EndFrame
        \/ StoryClick \/ RollClick \/ ForgeClick \/ WindowClick
        \/ Worker

Spec == Init /\ [][Next]_vars

\* The loop keeps drawing and the gate's jobs end (EngineTurns, ImplementsFairGate).
LoopRuns == WF_vars(BeginFrame) /\ WF_vars(EndFrame)
JobsEnd  == WF_vars(StartJob) /\ WF_vars(FinishJob)

\* A player who wants to go on clicks what a pending roll offers sooner or later.
PlayerGoesOn == /\ SF_vars(EngageCombat) /\ SF_vars(CombatMove)
                /\ SF_vars(EngageSkill) /\ SF_vars(RollTheDice) /\ SF_vars(Continue)

FairSpec == Spec /\ LoopRuns /\ JobsEnd /\ PlayerGoesOn

-----------------------------------------------------------------------------
(* Properties.                                                             *)

Frames == [busy : BOOLEAN, check : BOOLEAN, combat : BOOLEAN, roll : 0..MaxRolls,
           fill : {"", "suggested"}, fillSeq : 0..MaxFills,
           modal : {"none", "forge", "combat"}, clicked : BOOLEAN]

\* Types.
TypeOK ==
    /\ phase \in {"idle", "accepted", "running"} /\ current \in Jobs \cup {NoJob}
    /\ check \in BOOLEAN /\ combat \in BOOLEAN /\ rollSeq \in 0..MaxRolls
    /\ fill \in {"", "suggested"} /\ fillSeq \in 0..MaxFills
    /\ frame \in Frames \cup {NoFrame}
    /\ modal \in {"none", "forge", "combat"}
    /\ showSkill \in BOOLEAN /\ skillBase \in 0..MaxRolls
    /\ premise \in {"", "typed", "suggested"}
    /\ awaiting \in BOOLEAN /\ lastFill \in 0..MaxFills
    /\ call.taken \in BOOLEAN /\ call.idleShown \in BOOLEAN

\* The buttons the panels leave enabled while the engine is busy.
Ungated == {"suggest", "quick start", "roster", "inventory", "gm tool", "load", "campaign"}

\* The engine drops a call it cannot take without a word (engine.cpp:334, 367, 406, 488):
\* no click of the player is lost that way, although the snapshot a widget was drawn
\* from may be old, unless the frame showed a busy engine and the widget is one of
\* those the panels do not disable.
OfferedIsTaken == ~call.taken => call.widget \in Ungated /\ ~call.idleShown

\* The story does not go on past a pending roll: no turn of the player's own is
\* accepted while a check is armed or a combat active (game_panels.cpp:866-869, 950),
\* which nothing in submit_turn looks at.
TurnsWaitForRolls ==
    [][phase = "idle" /\ phase' = "accepted" /\ current' = "turn" => ~check /\ ~combat]_vars

\* The player comes back to an idle game with the New Game dialog closed.
GameShown == frame # NoFrame /\ ~frame.busy /\ ~frame.clicked /\ frame.modal # "forge"

\* A pending roll, which locks the command box, always offers a way on: the engage
\* prompt hides while its window is open, the window shows dice by comparing two
\* numbers, and both are drawn from old snapshots, yet the roll is made or the
\* pending state goes away (game_panels.cpp:872-903, 1925-1954).
RollsComeUp ==
    []<>GameShown =>
        (check \/ combat) ~> \/ ~check /\ ~combat
                             \/ phase = "accepted" /\ current \in {"combat", "resolution"}

\* What the panels do not keep (README, section 5).

\* An accepted request for a suggestion is awaited until it ends (snapshot.hpp:29-31).
AskedIsAwaited == current = "autofill" => awaiting

\* A text in the premise is not replaced by nothing.
PremiseKept == [][premise # "" => premise' # ""]_vars

\* The window opened for a check shows no dice before the check is rolled.
DiceAreTheChecks == showSkill /\ check => rollSeq <= skillBase
=============================================================================
