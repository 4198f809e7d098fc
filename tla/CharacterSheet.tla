--------------------------- MODULE CharacterSheet ---------------------------
(***************************************************************************)
(* The character: the items it carries and wears, the potions it drinks    *)
(* (rules/items), the experience it is given and the levels that brings    *)
(* (rules/leveling), and the attribute points it spends (rules/character), *)
(* as changed by the player's moves and by the game master's tools.        *)
(*                                                                         *)
(* Every operation holds state_mutex_ from its test to its last change, so *)
(* it is one step.  When it is accepted is the subject of EngineTurns.     *)
(* Ids are drawn at random by the code and are numbers in order here: two  *)
(* equal ids are not modelled.                                             *)
(***************************************************************************)
EXTENDS Integers, Sequences, FiniteSets, SequencesExt, FiniteSetsExt

CONSTANTS Kinds,          \* pairs of an item's kind and slot the tools accept
          Need,           \* xp_for_next_level, a sequence over the levels
          StartHp, StartEnergy,
          HpPerLevel, EnergyPerLevel, PointsPerLevel,
          Changes,        \* hp and energy changes of apply_stat_changes
          Potion,         \* what a potion restores
          MaxItems, MaxEarned   \* bounds

ASSUME SheetAssumption ==
    /\ Kinds \subseteq {"weapon", "armor", "potion", "elixir"} \X {"hand", "body", "consumable"}
    /\ Need \in Seq(Nat \ {0}) /\ Len(Need) > MaxEarned   \* more levels than can be paid
    /\ {StartHp, StartEnergy, HpPerLevel, EnergyPerLevel, PointsPerLevel, Potion} \subseteq Nat
    /\ Changes \subseteq Int
    /\ MaxItems \in Nat /\ MaxEarned \in Nat

VARIABLES
    inventory,      \* a sequence of items
    equipment,      \* by slot, the item worn: a set of at most one
    player,         \* level, xp, hp, max_hp, energy, max_energy, attribute_points
    made, gone,     \* history: items made so far, ids of those used up or removed
    earned, spent   \* history: experience given, points spent

itemVars == <<inventory, equipment, made, gone>>
vars == <<itemVars, player, earned, spent>>

Slots == {"hand", "body"}
Item(id, k) == [id |-> id, kind |-> k[1], slot |-> k[2]]
Items == {Item(id, k) : id \in 1..MaxItems, k \in Kinds}

\* The total of Need over the first levels, and over n of them from a given one.
Total[n \in 0..Len(Need)] == IF n = 0 THEN 0 ELSE Total[n - 1] + Need[n]
Cost(level, n) == Total[level + n - 1] - Total[level - 1]

Init ==
    /\ inventory = <<>> /\ equipment = [s \in Slots |-> {}]
    /\ player = [level |-> 1, xp |-> 0, hp |-> StartHp, maxHp |-> StartHp,
                 energy |-> StartEnergy, maxEnergy |-> StartEnergy, points |-> 0]
    /\ made = 0 /\ gone = {} /\ earned = 0 /\ spent = 0

-----------------------------------------------------------------------------
(* rules/items.                                                            *)

\* find_by_id: the place of an item in the inventory.
IsAt(id, i) == i \in DOMAIN inventory /\ inventory[i].id = id

\* make_item_from_json and push_back, for one item or a fight's loot.
GiveItems(n) ==
    /\ made + n <= MaxItems
    /\ made' = made + n
    /\ \E k \in [1..n -> Kinds] :
        inventory' = inventory \o [i \in 1..n |-> Item(made + i, k[i])]

AddItem ==
    /\ GiveItems(1)
    /\ UNCHANGED <<equipment, gone, player, earned, spent>>

RemoveItem ==
    /\ \E id \in 1..made, i \in DOMAIN inventory :
        /\ IsAt(id, i)
        /\ inventory' = RemoveAt(inventory, i) /\ gone' = gone \cup {id}
    /\ UNCHANGED <<equipment, made, player, earned, spent>>

\* Only a weapon for the hand and an armor for the body can be worn, whatever
\* slot a tool gave an item.
Wearable(item) == <<item.kind, item.slot>> \in {<<"weapon", "hand">>, <<"armor", "body">>}

\* Mutant: the item worn before is dropped.
EquipItemOver ==
    /\ \E id \in 1..made, i \in DOMAIN inventory :
        /\ IsAt(id, i) /\ Wearable(inventory[i])
        /\ inventory' = RemoveAt(inventory, i)
        /\ equipment' = [equipment EXCEPT ![inventory[i].slot] = {inventory[i]}]
    /\ UNCHANGED <<made, gone, player, earned, spent>>

\* The item worn before goes back to the end of the inventory.
EquipItem ==
    /\ \E id \in 1..made, i \in DOMAIN inventory :
        /\ IsAt(id, i) /\ Wearable(inventory[i])
        /\ inventory' = RemoveAt(inventory, i) \o SetToSeq(equipment[inventory[i].slot])
        /\ equipment' = [equipment EXCEPT ![inventory[i].slot] = {inventory[i]}]
    /\ UNCHANGED <<made, gone, player, earned, spent>>

UnequipSlot ==
    /\ \E s \in Slots : \E item \in equipment[s] :
        /\ inventory' = Append(inventory, item)
        /\ equipment' = [equipment EXCEPT ![s] = {}]
    /\ UNCHANGED <<made, gone, player, earned, spent>>

\* A potion restores hp, or energy when it was made so ("elixir" here).
ConsumeItem ==
    /\ \E id \in 1..made, i \in DOMAIN inventory :
        /\ IsAt(id, i) /\ inventory[i].kind \in {"potion", "elixir"}
        /\ player' = IF inventory[i].kind = "potion"
                     THEN [player EXCEPT !.hp = Min({player.maxHp, @ + Potion})]
                     ELSE [player EXCEPT !.energy = Min({player.maxEnergy, @ + Potion})]
        /\ inventory' = RemoveAt(inventory, i) /\ gone' = gone \cup {id}
    /\ UNCHANGED <<equipment, made, earned, spent>>

-----------------------------------------------------------------------------
(* rules/leveling and rules/character.                                     *)

\* Mutant: one level at most, whatever the experience.
LevelledOnce(p) ==
    LET n == IF p.xp >= Need[p.level] THEN 1 ELSE 0
    IN [p EXCEPT !.level = @ + n, !.xp = @ - Cost(p.level, n),
                 !.hp = @ + n * HpPerLevel, !.maxHp = @ + n * HpPerLevel,
                 !.energy = @ + n * EnergyPerLevel, !.maxEnergy = @ + n * EnergyPerLevel,
                 !.points = @ + n * PointsPerLevel]

\* apply_level_up: as many levels as the experience pays for, each with hp,
\* energy and points.  The loop stops at the first level it cannot pay.
Levelled(p) ==
    LET n == CHOOSE k \in 0..Len(Need) - p.level :
                /\ p.xp - Cost(p.level, k) < Need[p.level + k]
                /\ \A j \in 0..k - 1 : p.xp - Cost(p.level, j) >= Need[p.level + j]
    IN [p EXCEPT !.level = @ + n, !.xp = @ - Cost(p.level, n),
                 !.hp = @ + n * HpPerLevel, !.maxHp = @ + n * HpPerLevel,
                 !.energy = @ + n * EnergyPerLevel, !.maxEnergy = @ + n * EnergyPerLevel,
                 !.points = @ + n * PointsPerLevel]

\* Experience that is not positive changes nothing.
Given(p, xp) == IF xp > 0 THEN Levelled([p EXCEPT !.xp = @ + xp]) ELSE p

Clamp(x, low, high) == Max({low, Min({high, x})})

Changed(p, hp, energy) ==
    [p EXCEPT !.hp = Clamp(@ + hp, 0, p.maxHp), !.energy = Clamp(@ + energy, 0, p.maxEnergy)]

\* Hp and energy are clamped first, then the experience may raise both.
ApplyStatChanges ==
    /\ \E hp \in Changes, energy \in Changes, xp \in 0..MaxEarned - earned :
        /\ player' = Given(Changed(player, hp, energy), xp)
        /\ earned' = earned + xp
    /\ UNCHANGED <<itemVars, spent>>

\* A fight's reward: end_combat in victory (with loot), or a foe that fell.
RewardFight ==
    /\ \E xp \in 1..MaxEarned - earned, loot \in 0..2 :
        /\ player' = Given(player, xp) /\ earned' = earned + xp
        /\ GiveItems(loot)
    /\ UNCHANGED <<equipment, gone, spent>>

AllocateAttribute ==
    /\ player.points > 0
    /\ player' = [player EXCEPT !.points = @ - 1] /\ spent' = spent + 1
    /\ UNCHANGED <<itemVars, earned>>

-----------------------------------------------------------------------------
Next == \/ AddItem \/ RemoveItem \/ EquipItem \/ UnequipSlot \/ ConsumeItem
        \/ ApplyStatChanges \/ RewardFight \/ AllocateAttribute

Spec == Init /\ [][Next]_vars

-----------------------------------------------------------------------------
(* Properties.                                                             *)

\* Types; what is worn fits its slot.
TypeOK ==
    /\ \A i \in DOMAIN inventory : inventory[i] \in Items
    /\ \A s \in Slots : /\ Cardinality(equipment[s]) <= 1
                        /\ \A item \in equipment[s] : item \in Items /\ Wearable(item) /\ item.slot = s
    /\ player.level \in DOMAIN Need /\ player.xp \in Nat
    /\ player.hp \in 0..player.maxHp /\ player.energy \in 0..player.maxEnergy
    /\ player.points \in Nat

\* Every item that was made and not used up or removed is in exactly one place,
\* once: swapping what is worn neither loses nor doubles an item (items.cpp:141-189).
ItemsConserved ==
    LET carried == [i \in DOMAIN inventory |-> inventory[i].id]
        worn == {item.id : item \in UNION {equipment[s] : s \in Slots}}
    IN /\ IsInjective(carried)
       /\ Range(carried) \cap worn = {}
       /\ Cardinality(worn) = Cardinality({s \in Slots : equipment[s] # {}})
       /\ Range(carried) \cup worn = (1..made) \ gone

\* No experience is lost in a level-up, none that pays for a level is left, and the
\* points left and spent are those the levels brought
\* (leveling.cpp:14-27, reached from a tool, a fight's end and a fallen foe).
LevelsPaidFor ==
    /\ earned = Cost(1, player.level - 1) + player.xp
    /\ player.xp < Need[player.level]
    /\ player.points + spent = PointsPerLevel * (player.level - 1)
=============================================================================
