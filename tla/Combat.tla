------------------------------- MODULE Combat -------------------------------
(***************************************************************************)
(* A fight: the combat window (app/ui), Engine::combat_action and          *)
(* run_combat, rules/combat, and the game master's tools that begin a      *)
(* fight, end it or change the player while a story turn runs.             *)
(*                                                                         *)
(* Dice are choices: a roll is a member of Rolls, a blow's weight of       *)
(* Blows, and whether a reward brings a level is left open.  A foe's name  *)
(* is the number of its fight and its place in it.  Which job runs and who *)
(* wakes whom is the subject of EngineTurns; here a job is claimed and     *)
(* runs, one at a time.  The choice of the foes' moves is any choice, so   *)
(* it covers a model that fails, is cancelled or answers too little        *)
(* (every foe attacks then).                                               *)
(***************************************************************************)
EXTENDS Integers, Sequences, FiniteSets, SequencesExt, FiniteSetsExt

CONSTANTS FoesPerFight,  \* foes of a fight, 8 in start_combat
          FoeHp,         \* the hp a foe may start with
          Blows,         \* weights of a blow, at least 1
          Rolls,         \* totals of an attack roll
          Defence,       \* what a roll must reach to hit the player
          Bonus,         \* defend_bonus
          PlayerHp,      \* the player's max_hp at level 1
          Boost,         \* hp and max_hp a level adds
          Potion,        \* hp a potion restores
          MaxFights, MaxLevels, MaxPotions   \* bounds

ASSUME CombatAssumption ==
    /\ FoesPerFight \in Nat \ {0} /\ FoeHp \subseteq Nat \ {0}
    /\ Blows \subseteq Nat \ {0} /\ Rolls \subseteq Nat
    /\ Defence \in Nat /\ Bonus \in Nat \ {0} /\ PlayerHp \in Nat \ {0}
    /\ Boost \in Nat /\ Potion \in Nat
    /\ MaxFights \in Nat /\ MaxLevels \in Nat /\ MaxPotions \in Nat

VARIABLES
    active, enemies, guard,          \* state_.combat
    hp, maxHp, potions,              \* state_.player, potions of the inventory
    turnInProgress,
    step,                            \* where the worker is
    request,                         \* pending_combat_, pending_combat_target_
    chosen,                          \* the vector of choose_enemy_actions
    frame, target,                   \* the frame on the screen, combat_target_
    outcome,                         \* history: how the last fight ended
    fights, levels                   \* history: counted for the bounds

combatVars == <<active, enemies, guard, outcome>>
playerVars == <<hp, maxHp, potions, levels>>
jobVars == <<turnInProgress, step, request, chosen>>
uiVars == <<frame, target>>
vars == <<combatVars, playerVars, jobVars, uiVars, fights>>

Names == (1..MaxFights) \X (1..FoesPerFight)
Foes == [name : Names, hp : FoeHp, maxHp : FoeHp]
NamesOf(s) == [i \in DOMAIN s |-> s[i].name]

\* A frame shows the foes and whether a job is running; NoFrame after a click.
NoFrame == [foes |-> <<>>, open |-> FALSE, busy |-> FALSE]

\* A request keeps, as history, the foe the player saw at the target.
NoRequest == [kind |-> "none", target |-> 0, meant |-> <<>>]

Init ==
    /\ active = FALSE /\ enemies = <<>> /\ guard = 0 /\ outcome = "none"
    /\ hp = PlayerHp /\ maxHp = PlayerHp /\ potions = 0 /\ levels = 0
    /\ turnInProgress = FALSE /\ step = "idle"
    /\ request = NoRequest /\ chosen = <<>>
    /\ frame = NoFrame /\ target = 0 /\ fights = 0

-----------------------------------------------------------------------------
(* The combat window.  It is drawn from a snapshot, and a click acts on    *)
(* what the snapshot showed.                                               *)

DrawFrame ==
    /\ active
    /\ frame' = [foes |-> NamesOf(enemies), open |-> TRUE, busy |-> turnInProgress]
    /\ target' = IF target >= Len(enemies) THEN 0 ELSE target
    /\ UNCHANGED <<combatVars, playerVars, jobVars, fights>>

\* The radio button of a foe; it is not disabled while a job runs.
SelectTarget ==
    /\ frame.open
    /\ \E i \in 1..Len(frame.foes) : target' = i - 1
    /\ frame' = NoFrame
    /\ UNCHANGED <<combatVars, playerVars, jobVars, fights>>

\* Mutant: the buttons stay enabled while a job runs.
EnabledAlways == frame.open

\* A button is disabled when the snapshot was taken while a job ran.
Enabled == frame.open /\ ~frame.busy

\* combat_action and combat_use_item: the claim, or an early return.
CombatAction(kind, at) ==
    /\ Enabled
    /\ frame' = NoFrame
    /\ IF turnInProgress \/ ~active
       THEN UNCHANGED <<turnInProgress, step, request>>
       ELSE /\ turnInProgress' = TRUE /\ step' = "act"
            /\ request' = [kind |-> kind, target |-> at,
                           meant |-> IF at < Len(frame.foes) THEN frame.foes[at + 1] ELSE <<>>]
    /\ UNCHANGED <<combatVars, playerVars, chosen, target, fights>>

ClickAttack == CombatAction("attack", target)
ClickDefend == CombatAction("defend", 0)
ClickFlee == CombatAction("flee", 0)
ClickPotion == potions > 0 /\ CombatAction("potion", 0)

\* The engage button of the story window opens the combat window.
Engage ==
    /\ active /\ ~turnInProgress
    /\ target' = 0 /\ frame' = NoFrame
    /\ UNCHANGED <<combatVars, playerVars, jobVars, fights>>

\* A story turn.  The story window offers none during a fight, but a skill check
\* that is due starts one (resolve_skill_check).  The click is another frame's.
SubmitTurn ==
    /\ ~turnInProgress
    /\ turnInProgress' = TRUE /\ step' = "story"
    /\ frame' = NoFrame
    /\ UNCHANGED <<combatVars, playerVars, request, chosen, target, fights>>

-----------------------------------------------------------------------------
(* A story turn: the game master's tools, in any order, then the end; and  *)
(* what the player may do between jobs.                                    *)

InStory == step = "story" /\ UNCHANGED <<jobVars, uiVars>>

\* The inspector offers some of the tools between jobs (apply_gm_tool).
Inspected == step = "idle" /\ frame' = NoFrame /\ UNCHANGED <<jobVars, target>>

\* apply_level_up: a reward may bring a level, which also adds hp.
Rewarded(health) ==
    \/ hp' = health /\ UNCHANGED <<maxHp, levels>>
    \/ /\ levels < MaxLevels
       /\ levels' = levels + 1
       /\ maxHp' = maxHp + Boost /\ hp' = health + Boost

\* start_combat replaces the fight there is; the guard is not touched.
StartCombat ==
    /\ InStory /\ fights < MaxFights
    /\ fights' = fights + 1
    /\ \E n \in 1..FoesPerFight : \E h \in [1..n -> FoeHp] :
        enemies' = [i \in 1..n |-> [name |-> <<fights + 1, i>>, hp |-> h[i], maxHp |-> h[i]]]
    /\ active' = TRUE /\ outcome' = "none"
    /\ UNCHANGED <<guard, playerVars>>

EndCombat ==
    /\ InStory
    /\ active' = FALSE /\ enemies' = <<>> /\ outcome' = "called"
    /\ Rewarded(hp)
    /\ UNCHANGED <<guard, potions, fights>>

\* hp is clamped to 0 .. max_hp before the reward is added.
ApplyStatChanges ==
    /\ InStory \/ Inspected
    /\ \E change \in {-d : d \in Blows} \cup Blows :
        Rewarded(Max({0, Min({maxHp, hp + change})}))
    /\ UNCHANGED <<combatVars, potions, fights>>

AddPotion ==
    /\ InStory \/ Inspected
    /\ potions < MaxPotions /\ potions' = potions + 1
    /\ UNCHANGED <<combatVars, hp, maxHp, levels, fights>>

RemovePotion ==
    /\ InStory \/ Inspected
    /\ potions > 0 /\ potions' = potions - 1
    /\ UNCHANGED <<combatVars, hp, maxHp, levels, fights>>

\* The inventory window: between jobs a potion costs no move.
PlayerConsume ==
    /\ Inspected
    /\ potions > 0 /\ potions' = potions - 1 /\ hp' = Min({maxHp, hp + Potion})
    /\ UNCHANGED <<combatVars, maxHp, levels, fights>>

EndStory ==
    /\ step = "story"
    /\ turnInProgress' = FALSE /\ step' = "idle"
    /\ UNCHANGED <<combatVars, playerVars, request, chosen, uiVars, fights>>

-----------------------------------------------------------------------------
(* run_combat: the player's action, under the lock.  A fight that goes on  *)
(* is answered (step "choose"), one that has ended is told (step "tell").  *)

Goes(next) == step' = next /\ UNCHANGED <<turnInProgress, request, chosen, uiVars, fights>>

FleeFails ==
    /\ step = "act" /\ request.kind = "flee"
    /\ guard' = 0
    /\ UNCHANGED <<active, enemies, outcome, playerVars>>
    /\ Goes("choose")

FleeSucceeds ==
    /\ step = "act" /\ request.kind = "flee"
    /\ guard' = 0 /\ active' = FALSE /\ enemies' = <<>> /\ outcome' = "fled"
    /\ UNCHANGED playerVars
    /\ Goes("tell")

Defend ==
    /\ step = "act" /\ request.kind = "defend"
    /\ guard' = Bonus
    /\ UNCHANGED <<active, enemies, outcome, playerVars>>
    /\ Goes("choose")

\* A target past the end is the first foe.
Aim == IF request.target >= Len(enemies) THEN 1 ELSE request.target + 1

AttackMisses ==
    /\ step = "act" /\ request.kind = "attack"
    /\ guard' = 0
    /\ UNCHANGED <<active, enemies, outcome, playerVars>>
    /\ Goes("choose")

AttackWounds ==
    /\ step = "act" /\ request.kind = "attack"
    /\ guard' = 0
    /\ \E blow \in Blows :
        /\ blow < enemies[Aim].hp
        /\ enemies' = [enemies EXCEPT ![Aim].hp = @ - blow]
    /\ UNCHANGED <<active, outcome, playerVars>>
    /\ Goes("choose")

\* Mutant: the defeated foe stays in the list.
AttackFellsInPlace ==
    /\ step = "act" /\ request.kind = "attack"
    /\ guard' = 0
    /\ \E blow \in Blows : blow >= enemies[Aim].hp
    /\ Rewarded(hp)
    /\ enemies' = [enemies EXCEPT ![Aim].hp = 0]
    /\ UNCHANGED <<active, outcome, potions>>
    /\ Goes("choose")

\* The last foe to fall ends the fight.
AttackFells ==
    /\ step = "act" /\ request.kind = "attack"
    /\ guard' = 0
    /\ \E blow \in Blows : blow >= enemies[Aim].hp
    /\ Rewarded(hp)
    /\ enemies' = RemoveAt(enemies, Aim)
    /\ IF enemies' = <<>>
       THEN active' = FALSE /\ outcome' = "victory" /\ Goes("tell")
       ELSE UNCHANGED <<active, outcome>> /\ Goes("choose")
    /\ UNCHANGED potions

\* A potion leaves the guard alone; without one the move is spent all the same.
UsePotion ==
    /\ step = "act" /\ request.kind = "potion"
    /\ IF potions > 0
       THEN potions' = potions - 1 /\ hp' = Min({maxHp, hp + Potion})
       ELSE UNCHANGED <<potions, hp>>
    /\ UNCHANGED <<combatVars, maxHp, levels>>
    /\ Goes("choose")

-----------------------------------------------------------------------------
(* The foes' moves are chosen by the model, without the lock, and carried  *)
(* out under it.                                                           *)

\* Mutant: a reply that is no choice is asked for again.
ChooseAgain ==
    /\ step = "choose"
    /\ chosen' \in {<<>>, <<"attack">>}
    /\ UNCHANGED <<step, combatVars, playerVars, turnInProgress, request, uiVars, fights>>

\* The prompt lists the foes in order, and the vector has one entry each; the
\* foes' phase applies it to the list by index.
ChooseEnemyActions ==
    /\ step = "choose"
    /\ chosen' \in [DOMAIN enemies -> {"attack", "defend"}]
    /\ step' = "foes"
    /\ UNCHANGED <<combatVars, playerVars, turnInProgress, request, uiVars, fights>>

Heal(max) == Max({1, max \div 10})
Recovered(foe, move) == IF move = "defend" THEN [foe EXCEPT !.hp = Min({@ + Heal(foe.maxHp), foe.maxHp})]
                        ELSE foe

\* Mutant: the guard is kept for the next round.
EnemyPhaseKeepsGuard ==
    /\ step = "foes"
    /\ UNCHANGED <<active, outcome, guard, hp>>
    /\ enemies' = [i \in DOMAIN enemies |-> Recovered(enemies[i], chosen[i])]
    /\ step' = "tell" /\ chosen' = <<>>
    /\ UNCHANGED <<maxHp, potions, levels, turnInProgress, request, uiVars, fights>>

\* Each foe recovers or strikes, in order; a hit that takes the player's last
\* hp ends the fight there.
EnemyPhase ==
    /\ step = "foes"
    /\ guard' = 0
    /\ \E roll \in [DOMAIN enemies -> Rolls], blow \in [DOMAIN enemies -> Blows] :
        LET hits == {i \in DOMAIN enemies :
                        chosen[i] = "attack" /\ roll[i] >= Defence + guard}
            damage == MapThenSumSet(LAMBDA i : blow[i], hits)
        IN IF hits # {} /\ damage >= hp
           THEN hp' = 0 /\ active' = FALSE /\ enemies' = <<>> /\ outcome' = "defeat"
           ELSE /\ hp' = hp - damage
                /\ enemies' = [i \in DOMAIN enemies |-> Recovered(enemies[i], chosen[i])]
                /\ UNCHANGED <<active, outcome>>
    /\ step' = "tell" /\ chosen' = <<>>
    /\ UNCHANGED <<maxHp, potions, levels, turnInProgress, request, uiVars, fights>>

\* seed_combat_outcome and the end of the job.
FinishCombat ==
    /\ step = "tell"
    /\ turnInProgress' = FALSE /\ step' = "idle" /\ request' = NoRequest
    /\ UNCHANGED <<combatVars, playerVars, chosen, uiVars, fights>>

-----------------------------------------------------------------------------
Clicks == ClickAttack \/ ClickDefend \/ ClickFlee \/ ClickPotion
Story == StartCombat \/ EndCombat \/ ApplyStatChanges \/ AddPotion \/ RemovePotion \/ EndStory
Fight == \/ FleeFails \/ FleeSucceeds \/ Defend
         \/ AttackMisses \/ AttackWounds \/ AttackFells \/ UsePotion
         \/ ChooseEnemyActions \/ EnemyPhase \/ FinishCombat

Next == \/ DrawFrame \/ SelectTarget \/ Engage \/ Clicks \/ PlayerConsume
        \/ SubmitTurn \/ Story \/ Fight

Spec == Init /\ [][Next]_vars

\* The worker goes on with a fight it has begun to resolve.
FairSpec == Spec /\ WF_vars(Fight)

-----------------------------------------------------------------------------
(* Properties.                                                             *)

\* Types.
TypeOK ==
    /\ active \in BOOLEAN /\ guard \in {0, Bonus}
    /\ DOMAIN enemies = 1..Len(enemies) /\ Len(enemies) <= FoesPerFight
    /\ \A i \in DOMAIN enemies : enemies[i].name \in Names /\ enemies[i].maxHp \in FoeHp
    /\ outcome \in {"none", "called", "victory", "defeat", "fled"}
    /\ maxHp \in Nat /\ hp \in 0..maxHp
    /\ potions \in 0..MaxPotions /\ levels \in 0..MaxLevels
    /\ turnInProgress \in BOOLEAN
    /\ step \in {"idle", "story", "act", "choose", "foes", "tell"}
    /\ request.kind \in {"none", "attack", "defend", "flee", "potion"}
    /\ target \in 0..FoesPerFight - 1 /\ fights \in 0..MaxFights

\* There is a fight exactly as long as a foe stands, and every foe in the list
\* stands, with no more hp than it came with (the list, active and the hp are
\* changed at five places of combat.cpp and two of tools.cpp).
FightHasFoes ==
    /\ active <=> enemies # <<>>
    /\ \A i \in DOMAIN enemies : enemies[i].hp \in 1..enemies[i].maxHp

\* A raised guard serves one answer of the foes and no more, although a potion
\* does not lower it and a new fight does not reset it (combat.cpp:207, 285).
GuardSpent == guard # 0 => step \in {"choose", "foes"} /\ request.kind = "defend"

\* An attack never touches another foe than the one the player saw at the target
\* when the button was pressed, although the engine is only told an index
\* (game_panels.cpp:1886, combat.cpp:226).
TargetMeant ==
    [][step = "act" /\ request.kind = "attack" =>
        \A i \in DOMAIN enemies :
            enemies[i].name # request.meant => enemies[i] \in {enemies'[j] : j \in DOMAIN enemies'}]_vars

\* A fight is an encounter: move and answer, one foe at a time, and an ending
\* that is what happened.
Promise == INSTANCE Encounter WITH
    side <- IF ~active THEN "none" ELSE IF step \in {"choose", "foes"} THEN "foes" ELSE "player",
    foes <- {enemies[i].name : i \in DOMAIN enemies},
    ending <- outcome
ImplementsEncounter == Promise!Spec

\* And the foes' move does come (the flag of a cancelled turn notwithstanding).
ImplementsFairEncounter == Promise!FairSpec
=============================================================================
