---------------------------- MODULE CombatProofs ----------------------------
(***************************************************************************)
(* Theorems about Combat, for every size of a fight, all dice and any      *)
(* number of fights.                                                       *)
(*                                                                         *)
(* The heart of the argument is FrameTrue with AimMeant: a frame whose     *)
(* buttons were enabled shows the foes as they are until it is clicked,    *)
(* and from the click to the blow no one else touches the list.  JobsMatch *)
(* is what makes both inductive: tools run in a story turn or between      *)
(* jobs, never inside a combat job.                                        *)
(***************************************************************************)
EXTENDS Combat, SequenceTheorems, TLAPS

\* A foe that stands.
Standing == {f \in [name : Names, hp : Nat, maxHp : Nat] : f.hp \in 1..f.maxHp}

\* The list holds foes that stand, each under a name of its own.
FoesStand ==
    /\ enemies \in Seq(Standing)
    /\ active \in BOOLEAN /\ (active <=> enemies # <<>>)
    /\ \A i, j \in DOMAIN enemies : enemies[i].name = enemies[j].name => i = j

\* The flag is up exactly while a job runs, and a move is made in a fight.
JobsMatch ==
    /\ turnInProgress \in BOOLEAN
    /\ step \in {"idle", "story", "act", "choose", "foes", "tell"}
    /\ turnInProgress <=> step # "idle"
    /\ step \in {"act", "choose", "foes"} => active
    /\ fights \in 0..MaxFights /\ target \in Nat /\ request.target \in Nat

\* A frame whose buttons are enabled shows the fight as it is.
FrameTrue ==
    /\ frame.open \in BOOLEAN /\ frame.busy \in BOOLEAN /\ frame.foes \in Seq(Names)
    /\ frame.open /\ ~frame.busy =>
        /\ ~turnInProgress /\ active
        /\ frame.foes = NamesOf(enemies) /\ target < Len(enemies)

\* An attack under way is aimed at the foe that was meant.
AimMeant == step = "act" /\ request.kind = "attack" =>
                /\ request.target < Len(enemies)
                /\ enemies[request.target + 1].name = request.meant

FightInv == FoesStand /\ JobsMatch /\ GuardSpent /\ FrameTrue /\ AimMeant

-----------------------------------------------------------------------------
(* Lemmas about the data.                                                  *)

\* What is left of a list from which one element is removed.
LEMMA Removed ==
    ASSUME NEW S, NEW s \in Seq(S), NEW k \in 1..Len(s)
    PROVE  /\ RemoveAt(s, k) \in Seq(S)
           /\ Len(RemoveAt(s, k)) = Len(s) - 1
           /\ \A i \in 1..Len(s) - 1 : RemoveAt(s, k)[i] = IF i < k THEN s[i] ELSE s[i + 1]
<1> DEFINE before == SubSeq(s, 1, k - 1)
           after == SubSeq(s, k + 1, Len(s))
<1>1. before \in Seq(S) /\ Len(before) = k - 1 /\ \A i \in 1..k - 1 : before[i] = s[i]
  OBVIOUS
<1>2. after \in Seq(S) /\ Len(after) = Len(s) - k
      /\ \A i \in 1..Len(s) - k : after[i] = s[k + i]
  OBVIOUS
<1>3. RemoveAt(s, k) = before \o after
  BY DEF RemoveAt
<1> HIDE DEF before, after
<1>4. before \o after \in Seq(S) /\ Len(before \o after) = Len(s) - 1
  BY <1>1, <1>2
<1>5. ASSUME NEW i \in 1..Len(s) - 1
      PROVE  (before \o after)[i] = IF i < k THEN s[i] ELSE s[i + 1]
  <2>1. CASE i < k
    BY <1>1, <1>2, <2>1
  <2>2. CASE ~(i < k)
    <3>1. (before \o after)[i] = after[i - (k - 1)]
      BY <1>1, <1>2, <2>2
    <3>2. i - (k - 1) \in 1..Len(s) - k
      BY <2>2
    <3> QED BY <1>2, <2>2, <3>1, <3>2
  <2> QED BY <2>1, <2>2
<1> QED BY <1>3, <1>4, <1>5

\* The smaller of two numbers.
LEMMA MinOfTwo ==
    ASSUME NEW a \in Int, NEW b \in Int
    PROVE  Min({a, b}) = IF a <= b THEN a ELSE b
BY DEF Min

\* The larger of two numbers.
LEMMA MaxOfTwo ==
    ASSUME NEW a \in Int, NEW b \in Int
    PROVE  Max({a, b}) = IF a >= b THEN a ELSE b
BY DEF Max

\* A foe that stands still stands, under its name, after it recovered or did not.
LEMMA RecoveredStands ==
    ASSUME NEW foe \in Standing, NEW move
    PROVE  Recovered(foe, move) \in Standing /\ Recovered(foe, move).name = foe.name
<1>1. foe.hp \in Nat /\ foe.maxHp \in Nat /\ 1 <= foe.hp /\ foe.hp <= foe.maxHp
  BY DEF Standing
<1>2. foe.maxHp \div 10 \in Nat
  BY <1>1
<1>3. Heal(foe.maxHp) \in Nat
  BY <1>2, MaxOfTwo DEF Heal
<1> DEFINE healed == Min({foe.hp + Heal(foe.maxHp), foe.maxHp})
<1>4. healed \in Nat /\ healed \in 1..foe.maxHp
  <2>1. foe.hp + Heal(foe.maxHp) \in Nat /\ foe.hp + Heal(foe.maxHp) >= 1
    BY <1>1, <1>3
  <2> QED BY <1>1, <2>1, MinOfTwo
<1>5. Recovered(foe, move) = IF move = "defend" THEN [foe EXCEPT !.hp = healed] ELSE foe
  BY DEF Recovered
<1> HIDE DEF healed
<1> QED BY <1>4, <1>5 DEF Standing

\* The empty list.
LEMMA NoFoes == <<>> \in Seq(Standing) /\ Len(<<>>) = 0 /\ DOMAIN <<>> = {}
BY EmptySeq

\* The names of a list are listed in its order.
LEMMA NamesInOrder ==
    ASSUME NEW s \in Seq(Standing)
    PROVE  NamesOf(s) \in Seq(Names) /\ Len(NamesOf(s)) = Len(s)
           /\ \A i \in 1..Len(s) : NamesOf(s)[i] = s[i].name
<1>1. NamesOf(s) \in Seq(Names)
  BY DEF NamesOf, Standing
<1> QED BY <1>1 DEF NamesOf

-----------------------------------------------------------------------------
(* The invariant.                                                          *)

\* The invariant holds before the first fight.
LEMMA FightInit == Init => FightInv
<1> SUFFICES ASSUME Init PROVE FightInv
    OBVIOUS
<1>1. FoesStand
  BY NoFoes DEF Init, FoesStand
<1>2. JobsMatch
  <2>1. MaxFights \in Nat
    BY CombatAssumption
  <2>2. fights \in 0..MaxFights
    BY <2>1 DEF Init
  <2> QED BY <2>2 DEF Init, JobsMatch, NoRequest
<1>3. GuardSpent /\ AimMeant
  BY DEF Init, GuardSpent, AimMeant
<1>4. FrameTrue
  BY DEF Init, FrameTrue, NoFrame
<1> QED BY <1>1, <1>2, <1>3, <1>4 DEF FightInv

\* What a frame, a click on a target or the engage button change is on the screen only.
LEMMA ScreenStep ==
    ASSUME FightInv, DrawFrame \/ SelectTarget \/ Engage
    PROVE  FightInv'
<1> USE DEF combatVars, playerVars, jobVars, FightInv
<1>1. UNCHANGED <<active, enemies, guard, turnInProgress, step, request, fights>>
  BY DEF DrawFrame, SelectTarget, Engage
<1>2. FoesStand' /\ GuardSpent' /\ AimMeant'
  BY <1>1 DEF FoesStand, GuardSpent, AimMeant
<1>3. target' \in Nat
  <2>1. CASE SelectTarget
    <3>1. PICK i \in 1..Len(frame.foes) : target' = i - 1
      BY <2>1 DEF SelectTarget
    <3>2. Len(frame.foes) \in Nat
      BY DEF FrameTrue
    <3> QED BY <3>1, <3>2
  <2> QED BY <2>1 DEF DrawFrame, Engage, JobsMatch
<1>4. JobsMatch'
  BY <1>1, <1>3 DEF JobsMatch
<1>5. FrameTrue'
  <2>1. CASE DrawFrame
    <3>1. enemies # <<>> /\ Len(enemies) > 0 /\ enemies' = enemies /\ active'
      BY <1>1, <2>1 DEF DrawFrame, FoesStand
    <3>2. target' < Len(enemies)
      BY <2>1, <3>1 DEF DrawFrame, JobsMatch, FoesStand
    <3>3. NamesOf(enemies) \in Seq(Names)
      BY NamesInOrder DEF FoesStand
    <3> QED BY <1>1, <2>1, <3>1, <3>2, <3>3 DEF DrawFrame, FrameTrue, JobsMatch
  <2>2. CASE SelectTarget \/ Engage
    <3>1. frame' = NoFrame
      BY <2>2 DEF SelectTarget, Engage
    <3> QED BY <3>1 DEF FrameTrue, NoFrame
  <2> QED BY <2>1, <2>2
<1> QED BY <1>2, <1>4, <1>5

\* A move is requested with the foe that the frame showed at the target.
LEMMA ClickStep ==
    ASSUME FightInv, NEW kind, NEW at \in Nat, CombatAction(kind, at),
           kind = "attack" => at = target
    PROVE  FightInv'
<1> USE DEF CombatAction, Enabled, combatVars, playerVars, FightInv
<1>1. FoesStand'
  BY DEF FoesStand
<1>2. FrameTrue'
  BY DEF FrameTrue, NoFrame
<1>3. CASE turnInProgress \/ ~active
  BY <1>1, <1>2, <1>3 DEF JobsMatch, GuardSpent, AimMeant
<1>4. CASE ~(turnInProgress \/ ~active)
  <2>1. step = "idle"
    BY <1>4 DEF JobsMatch
  <2>2. guard' = 0
    BY <2>1 DEF GuardSpent
  <2>3. request'.target = at /\ request'.kind = kind
    BY <1>4
  <2>4. JobsMatch'
    BY <1>4, <2>3 DEF JobsMatch
  <2>5. kind = "attack" => at < Len(enemies) /\ enemies[at + 1].name = request'.meant
    <3>1. HAVE kind = "attack"
    <3>2. at < Len(enemies) /\ frame.foes = NamesOf(enemies)
      BY <3>1 DEF FrameTrue
    <3>3. Len(frame.foes) = Len(enemies) /\ frame.foes[at + 1] = enemies[at + 1].name
      BY <3>2, NamesInOrder DEF FoesStand
    <3>4. request'.meant = frame.foes[at + 1]
      BY <1>4, <3>2, <3>3
    <3> QED BY <3>2, <3>3, <3>4
  <2>6. AimMeant'
    BY <2>3, <2>5 DEF AimMeant
  <2> QED BY <1>1, <1>2, <2>2, <2>4, <2>6 DEF GuardSpent
<1> QED BY <1>3, <1>4

\* The four buttons of the window.
LEMMA ClicksStep ==
    ASSUME FightInv, Clicks
    PROVE  FightInv'
<1>1. target \in Nat /\ 0 \in Nat
  BY DEF FightInv, JobsMatch
<1>2. CASE ClickAttack
  BY <1>1, <1>2, ClickStep DEF ClickAttack
<1>3. CASE ClickDefend
  BY <1>1, <1>3, ClickStep DEF ClickDefend
<1>4. CASE ClickFlee
  BY <1>1, <1>4, ClickStep DEF ClickFlee
<1>5. CASE ClickPotion
  BY <1>1, <1>5, ClickStep DEF ClickPotion
<1> QED BY <1>2, <1>3, <1>4, <1>5 DEF Clicks

\* What touches neither the fight nor the job leaves the invariant alone.
LEMMA AsideStep ==
    ASSUME FightInv, UNCHANGED <<combatVars, jobVars, target, fights>>,
           frame' = frame \/ frame' = NoFrame
    PROVE  FightInv'
<1> USE DEF combatVars, jobVars, FightInv
<1>1. FoesStand' /\ GuardSpent' /\ AimMeant'
  BY DEF FoesStand, GuardSpent, AimMeant
<1>2. JobsMatch'
  BY DEF JobsMatch
<1>3. FrameTrue'
  <2>1. CASE frame' = frame
    BY <2>1 DEF FrameTrue
  <2>2. CASE frame' = NoFrame
    BY <2>2 DEF FrameTrue, NoFrame
  <2> QED BY <2>1, <2>2
<1> QED BY <1>1, <1>2, <1>3

\* While a job runs, what is on the screen is not enabled and need not be true.
LEMMA FrameStays ==
    ASSUME FightInv, turnInProgress, UNCHANGED uiVars
    PROVE  FrameTrue'
BY DEF FightInv, FrameTrue, uiVars

\* A story turn begins without a raised guard, and ends without one.
LEMMA TurnStep ==
    ASSUME FightInv, SubmitTurn \/ EndStory
    PROVE  FightInv'
<1> USE DEF combatVars, playerVars, FightInv
<1>1. FoesStand'
  BY DEF SubmitTurn, EndStory, FoesStand
<1>2. JobsMatch'
  BY DEF SubmitTurn, EndStory, JobsMatch, uiVars
<1>3. GuardSpent' /\ AimMeant'
  BY DEF SubmitTurn, EndStory, JobsMatch, GuardSpent, AimMeant
<1>4. FrameTrue'
  <2>1. CASE SubmitTurn
    BY <2>1 DEF SubmitTurn, FrameTrue, NoFrame
  <2>2. CASE EndStory
    <3>1. turnInProgress
      BY <2>2 DEF EndStory, JobsMatch
    <3> QED BY <2>2, <3>1, FrameStays DEF EndStory
  <2> QED BY <2>1, <2>2
<1> QED BY <1>1, <1>2, <1>3, <1>4

\* A new fight has foes of its own, each under another name, whole.
LEMMA NewFoes ==
    ASSUME FightInv, StartCombat
    PROVE  FoesStand'
<1> USE DEF FightInv
<1>0. PICK n \in 1..FoesPerFight : \E h \in [1..n -> FoeHp] :
        enemies' = [i \in 1..n |-> [name |-> <<fights + 1, i>>, hp |-> h[i], maxHp |-> h[i]]]
  BY Zenon DEF StartCombat
<1>1. PICK h \in [1..n -> FoeHp] :
        enemies' = [i \in 1..n |-> [name |-> <<fights + 1, i>>, hp |-> h[i], maxHp |-> h[i]]]
  BY <1>0
<1>2. /\ MaxFights \in Nat /\ FoesPerFight \in Nat
      /\ \A x \in FoeHp : x \in Nat /\ x >= 1
  BY CombatAssumption
<1>3. fights + 1 \in 1..MaxFights
  BY <1>2 DEF StartCombat, JobsMatch
<1>4. ASSUME NEW i \in 1..n
      PROVE  /\ [name |-> <<fights + 1, i>>, hp |-> h[i], maxHp |-> h[i]] \in Standing
             /\ enemies'[i] = [name |-> <<fights + 1, i>>, hp |-> h[i], maxHp |-> h[i]]
  <2>1. h[i] \in Nat /\ h[i] \in 1..h[i]
    BY <1>2
  <2>2. <<fights + 1, i>> \in Names
    <3>1. i \in 1..FoesPerFight
      BY <1>2
    <3> QED BY <1>3, <3>1 DEF Names
  <2> QED BY <1>1, <2>1, <2>2 DEF Standing
<1>5. n \in Nat /\ n >= 1
  BY <1>2
<1>6. enemies' \in Seq(Standing) /\ Len(enemies') = n
  <2>1. enemies' \in [1..n -> Standing]
    BY <1>1, <1>4
  <2> QED BY <1>5, <2>1
<1>7. enemies' # <<>>
  BY <1>5, <1>6, NoFoes
<1>8. ASSUME NEW i \in DOMAIN enemies', NEW j \in DOMAIN enemies',
             enemies'[i].name = enemies'[j].name
      PROVE  i = j
  <2>1. i \in 1..n /\ j \in 1..n
    BY <1>1
  <2>2. /\ enemies'[i] = [name |-> <<fights + 1, i>>, hp |-> h[i], maxHp |-> h[i]]
        /\ enemies'[j] = [name |-> <<fights + 1, j>>, hp |-> h[j], maxHp |-> h[j]]
    BY <1>4, <2>1
  <2>3. enemies'[i].name = <<fights + 1, i>> /\ enemies'[j].name = <<fights + 1, j>>
    BY <2>2
  <2>4. <<fights + 1, i>> = <<fights + 1, j>>
    BY <1>8, <2>3
  <2> QED BY <2>4
<1>9. active' = TRUE
  BY DEF StartCombat
<1> QED BY <1>6, <1>7, <1>8, <1>9 DEF FoesStand

\* The tools of a story turn, and what the player does between jobs.
LEMMA ToolStep ==
    ASSUME FightInv, Story \/ PlayerConsume
    PROVE  FightInv'
<1> USE DEF FightInv
<1>1. CASE StartCombat \/ EndCombat
  <2>1. step = "story" /\ UNCHANGED <<jobVars, uiVars, guard>>
    BY <1>1 DEF StartCombat, EndCombat, InStory
  <2>2. FoesStand'
    <3>1. CASE EndCombat
      BY <3>1, NoFoes DEF EndCombat, FoesStand
    <3> QED BY <1>1, <3>1, NewFoes
  <2>3. JobsMatch'
    <3>1. fights' \in 0..MaxFights
      <4>1. CASE StartCombat
        <5>1. MaxFights \in Nat
          BY CombatAssumption
        <5> QED BY <4>1, <5>1 DEF StartCombat, JobsMatch
      <4>2. CASE EndCombat
        BY <4>2 DEF EndCombat, JobsMatch
      <4> QED BY <1>1, <4>1, <4>2
    <3> QED BY <2>1, <3>1 DEF JobsMatch, jobVars, uiVars
  <2>4. GuardSpent' /\ AimMeant'
    BY <2>1 DEF GuardSpent, AimMeant, jobVars
  <2>5. FrameTrue'
    BY <2>1, FrameStays DEF JobsMatch
  <2> QED BY <2>2, <2>3, <2>4, <2>5
<1>2. CASE ApplyStatChanges \/ AddPotion \/ RemovePotion \/ PlayerConsume
  <2>1. UNCHANGED <<combatVars, jobVars, target, fights>> /\ (frame' = frame \/ frame' = NoFrame)
    BY <1>2 DEF ApplyStatChanges, AddPotion, RemovePotion, PlayerConsume, InStory, Inspected, uiVars
  <2> QED BY <2>1, AsideStep
<1>3. CASE EndStory
  BY <1>3, TurnStep
<1> QED BY <1>1, <1>2, <1>3 DEF Story

\* An attack is aimed at the foe that was meant, and that foe stands.
LEMMA AimIsTrue ==
    ASSUME FightInv, step = "act", request.kind = "attack"
    PROVE  /\ Aim \in 1..Len(enemies) /\ Len(enemies) \in Nat
           /\ enemies[Aim].name = request.meant
<1>1. request.target < Len(enemies) /\ request.target \in Nat /\ Len(enemies) \in Nat
  BY DEF FightInv, AimMeant, JobsMatch, FoesStand
<1>2. Aim = request.target + 1
  BY <1>1 DEF Aim
<1> QED BY <1>1, <1>2 DEF FightInv, AimMeant

\* A wound leaves every foe standing, under its name, the others as they were.
LEMMA Wounded ==
    ASSUME FightInv, AttackWounds
    PROVE  /\ FoesStand'
           /\ DOMAIN enemies' = DOMAIN enemies
           /\ \A i \in DOMAIN enemies : /\ enemies'[i].name = enemies[i].name
                                        /\ i # Aim => enemies'[i] = enemies[i]
<1>1. Aim \in 1..Len(enemies) /\ Len(enemies) \in Nat
  BY AimIsTrue DEF AttackWounds
<1>2. PICK blow \in Blows : /\ blow < enemies[Aim].hp
                           /\ enemies' = [enemies EXCEPT ![Aim].hp = @ - blow]
  BY DEF AttackWounds
<1>3. enemies \in Seq(Standing) /\ DOMAIN enemies = 1..Len(enemies)
  BY DEF FightInv, FoesStand
<1> DEFINE wounded == [enemies[Aim] EXCEPT !.hp = @ - blow]
<1>4. wounded \in Standing /\ wounded.name = enemies[Aim].name
  <2>1. enemies[Aim] \in Standing
    BY <1>1, <1>3
  <2>2. blow \in Nat /\ blow >= 1
    BY CombatAssumption
  <2>3. enemies[Aim].hp - blow \in 1..enemies[Aim].maxHp /\ enemies[Aim].hp - blow \in Nat
    BY <1>2, <2>1, <2>2 DEF Standing
  <2> QED BY <2>1, <2>3 DEF Standing
<1>5. enemies' = [enemies EXCEPT ![Aim] = wounded]
  BY <1>2
<1> HIDE DEF wounded
<1>6. enemies' \in Seq(Standing) /\ Len(enemies') = Len(enemies) /\ DOMAIN enemies' = DOMAIN enemies
  BY <1>1, <1>3, <1>4, <1>5
<1>7. ASSUME NEW i \in DOMAIN enemies
      PROVE  enemies'[i].name = enemies[i].name /\ (i # Aim => enemies'[i] = enemies[i])
  BY <1>4, <1>5
<1>8. enemies' # <<>> /\ active'
  <2>1. active' = active /\ active
    BY DEF AttackWounds, FightInv, JobsMatch
  <2>2. Len(enemies') # 0
    BY <1>1, <1>6
  <2> QED BY <2>1, <2>2, NoFoes
<1>9. \A i, j \in DOMAIN enemies' : enemies'[i].name = enemies'[j].name => i = j
  BY <1>6, <1>7 DEF FightInv, FoesStand
<1> QED BY <1>6, <1>7, <1>8, <1>9 DEF FoesStand

\* A foe that falls leaves the list, and the others keep their order.
LEMMA Felled ==
    ASSUME FightInv, AttackFells
    PROVE  /\ enemies' \in Seq(Standing) /\ Len(enemies') = Len(enemies) - 1
           /\ \A i \in DOMAIN enemies' :
                enemies'[i] = IF i < Aim THEN enemies[i] ELSE enemies[i + 1]
           /\ FoesStand'
<1>1. Aim \in 1..Len(enemies) /\ Len(enemies) \in Nat
  BY AimIsTrue DEF AttackFells
<1>2. enemies \in Seq(Standing) /\ DOMAIN enemies = 1..Len(enemies)
  BY DEF FightInv, FoesStand
<1>3. enemies' = RemoveAt(enemies, Aim)
  BY DEF AttackFells
<1>4. /\ enemies' \in Seq(Standing) /\ Len(enemies') = Len(enemies) - 1
      /\ \A i \in 1..Len(enemies) - 1 :
            enemies'[i] = IF i < Aim THEN enemies[i] ELSE enemies[i + 1]
  BY <1>1, <1>2, <1>3, Removed
<1>5. DOMAIN enemies' = 1..Len(enemies) - 1
  BY <1>4
<1>6. active' \in BOOLEAN /\ (active' <=> enemies' # <<>>)
  BY DEF AttackFells, FightInv, JobsMatch
<1>7. ASSUME NEW i \in DOMAIN enemies', NEW j \in DOMAIN enemies',
             enemies'[i].name = enemies'[j].name
      PROVE  i = j
  <2>1. i \in 1..Len(enemies) - 1 /\ j \in 1..Len(enemies) - 1
    BY <1>5
  <2> DEFINE was(x) == IF x < Aim THEN x ELSE x + 1
  <2>2. /\ was(i) \in 1..Len(enemies) /\ was(j) \in 1..Len(enemies)
        /\ enemies'[i] = enemies[was(i)] /\ enemies'[j] = enemies[was(j)]
    BY <1>1, <1>4, <2>1
  <2>3. was(i) = was(j)
    <3> HIDE DEF was
    <3> QED BY <1>2, <1>7, <2>2 DEF FightInv, FoesStand
  <2> QED BY <1>1, <2>1, <2>3
<1> QED BY <1>4, <1>5, <1>6, <1>7 DEF FoesStand

\* The foes' phase leaves the foes as they were, recovered or not, or ends the fight.
LEMMA Answered ==
    ASSUME FightInv, EnemyPhase
    PROVE  /\ FoesStand'
           /\ \/ /\ active' = active /\ outcome' = outcome
                 /\ DOMAIN enemies' = DOMAIN enemies
                 /\ \A i \in DOMAIN enemies : enemies'[i].name = enemies[i].name
              \/ active' = FALSE /\ enemies' = <<>> /\ outcome' = "defeat"
<1>1. enemies \in Seq(Standing) /\ DOMAIN enemies = 1..Len(enemies) /\ Len(enemies) \in Nat
      /\ active /\ enemies # <<>>
  BY DEF FightInv, FoesStand, JobsMatch, EnemyPhase
<1>2. \/ active' = FALSE /\ enemies' = <<>> /\ outcome' = "defeat"
      \/ /\ enemies' = [i \in DOMAIN enemies |-> Recovered(enemies[i], chosen[i])]
         /\ active' = active /\ outcome' = outcome
  BY DEF EnemyPhase
<1>3. CASE active' = FALSE /\ enemies' = <<>> /\ outcome' = "defeat"
  BY <1>3, NoFoes DEF FoesStand
<1>4. CASE /\ enemies' = [i \in DOMAIN enemies |-> Recovered(enemies[i], chosen[i])]
           /\ active' = active /\ outcome' = outcome
  <2>1. ASSUME NEW i \in 1..Len(enemies)
        PROVE  enemies'[i] \in Standing /\ enemies'[i].name = enemies[i].name
    <3>1. enemies[i] \in Standing
      BY <1>1
    <3>2. enemies'[i] = Recovered(enemies[i], chosen[i])
      BY <1>1, <1>4
    <3> QED BY <3>1, <3>2, RecoveredStands
  <2>2. DOMAIN enemies' = 1..Len(enemies)
    BY <1>1, <1>4
  <2>3. enemies' \in [1..Len(enemies) -> Standing]
    BY <1>1, <1>4, <2>1, <2>2
  <2>4. enemies' \in Seq(Standing) /\ Len(enemies') = Len(enemies)
    BY <1>1, <2>3
  <2>5. enemies' # <<>>
    <3>1. Len(enemies) # 0
      BY <1>1
    <3> QED BY <2>4, <3>1, NoFoes
  <2>6. \A i, j \in DOMAIN enemies' : enemies'[i].name = enemies'[j].name => i = j
    BY <1>1, <2>1, <2>2 DEF FightInv, FoesStand
  <2> QED BY <1>1, <1>4, <2>1, <2>2, <2>4, <2>5, <2>6 DEF FoesStand
<1> QED BY <1>2, <1>3, <1>4

\* The steps of a combat job.
LEMMA JobStep ==
    ASSUME FightInv, Fight
    PROVE  FightInv'
<1> USE DEF FightInv, playerVars
<1>1. step \in {"act", "choose", "foes", "tell"} /\ turnInProgress /\ UNCHANGED <<uiVars, fights>>
  BY DEF Fight, FleeFails, FleeSucceeds, Defend, AttackMisses, AttackWounds, AttackFells,
         UsePotion, ChooseEnemyActions, EnemyPhase, FinishCombat, Goes, JobsMatch
<1>2. FrameTrue'
  BY <1>1, FrameStays
<1>3. FoesStand'
  <2>1. CASE AttackWounds \/ AttackFells \/ EnemyPhase
    BY <2>1, Wounded, Felled, Answered
  <2>2. CASE FleeSucceeds
    BY <2>2, NoFoes DEF FleeSucceeds, FoesStand
  <2>3. CASE \/ FleeFails \/ Defend \/ AttackMisses \/ UsePotion
             \/ ChooseEnemyActions \/ FinishCombat
    <3>1. UNCHANGED <<active, enemies>>
      BY <2>3 DEF FleeFails, Defend, AttackMisses, UsePotion, ChooseEnemyActions, FinishCombat,
                  combatVars
    <3> QED BY <3>1 DEF FoesStand
  <2> QED BY <2>1, <2>2, <2>3 DEF Fight
<1>4. step' \in {"choose", "foes", "tell", "idle"} /\ (turnInProgress' <=> step' # "idle")
      /\ turnInProgress' \in BOOLEAN
  BY <1>1 DEF Fight, FleeFails, FleeSucceeds, Defend, AttackMisses, AttackWounds, AttackFells,
         UsePotion, ChooseEnemyActions, EnemyPhase, FinishCombat, Goes
<1>5. step' \in {"choose", "foes"} => active'
  <2>1. CASE AttackFells
    BY <2>1 DEF AttackFells, Goes, JobsMatch
  <2>2. CASE FleeSucceeds \/ EnemyPhase \/ FinishCombat
    BY <2>2 DEF FleeSucceeds, EnemyPhase, FinishCombat, Goes
  <2>3. CASE \/ FleeFails \/ Defend \/ AttackMisses \/ AttackWounds \/ UsePotion
             \/ ChooseEnemyActions
    BY <2>3 DEF FleeFails, Defend, AttackMisses, AttackWounds, UsePotion, ChooseEnemyActions,
                combatVars, JobsMatch
  <2> QED BY <2>1, <2>2, <2>3 DEF Fight
<1>6. request'.target \in Nat /\ target' \in Nat /\ fights' \in 0..MaxFights
  <2>1. request' = request \/ request' = NoRequest
    BY DEF Fight, FleeFails, FleeSucceeds, Defend, AttackMisses, AttackWounds, AttackFells,
           UsePotion, ChooseEnemyActions, EnemyPhase, FinishCombat, Goes
  <2> QED BY <1>1, <2>1 DEF JobsMatch, NoRequest, uiVars
<1>7. JobsMatch'
  BY <1>4, <1>5, <1>6 DEF JobsMatch
<1>8. AimMeant'
  BY <1>4 DEF AimMeant
<1>9. GuardSpent'
  <2>1. CASE \/ FleeFails \/ FleeSucceeds \/ AttackMisses \/ AttackWounds \/ AttackFells
             \/ EnemyPhase
    BY <2>1 DEF FleeFails, FleeSucceeds, AttackMisses, AttackWounds, AttackFells, EnemyPhase,
                GuardSpent
  <2>2. CASE Defend
    BY <2>2 DEF Defend, Goes, GuardSpent
  <2>3. CASE UsePotion \/ FinishCombat
    BY <2>3 DEF UsePotion, FinishCombat, combatVars, GuardSpent
  <2>4. CASE ChooseEnemyActions
    BY <2>4 DEF ChooseEnemyActions, combatVars, GuardSpent
  <2> QED BY <2>1, <2>2, <2>3, <2>4 DEF Fight
<1> QED BY <1>2, <1>3, <1>7, <1>8, <1>9

\* Every step preserves the invariant.
LEMMA FightNext == FightInv /\ [Next]_vars => FightInv'
<1> SUFFICES ASSUME FightInv, [Next]_vars PROVE FightInv'
    OBVIOUS
<1>1. CASE DrawFrame \/ SelectTarget \/ Engage
  BY <1>1, ScreenStep
<1>2. CASE Clicks
  BY <1>2, ClicksStep
<1>3. CASE Story \/ PlayerConsume
  BY <1>3, ToolStep
<1>4. CASE SubmitTurn
  BY <1>4, TurnStep
<1>5. CASE Fight
  BY <1>5, JobStep
<1>6. CASE UNCHANGED vars
  BY <1>6, AsideStep DEF vars, uiVars
<1> QED BY <1>1, <1>2, <1>3, <1>4, <1>5, <1>6 DEF Next

-----------------------------------------------------------------------------
(* The theorems.                                                           *)

\* The inductive invariant of a fight (combat.cpp, run_combat and the window).
THEOREM FightInvariance == Spec => []FightInv
<1>1. Init => FightInv
  BY FightInit
<1>2. FightInv /\ [Next]_vars => FightInv'
  BY FightNext
<1> QED BY <1>1, <1>2, PTL DEF Spec

\* There is a fight exactly as long as a foe stands, however the list was changed
\* (the writes of active and enemies in combat.cpp and tools.cpp).
THEOREM FightsHaveFoes == Spec => []FightHasFoes
<1>1. FightInv => FightHasFoes
  <2> SUFFICES ASSUME FightInv PROVE FightHasFoes
      OBVIOUS
  <2>1. \A i \in DOMAIN enemies : enemies[i] \in Standing
    BY DEF FightInv, FoesStand
  <2> QED BY <2>1 DEF FightInv, FoesStand, FightHasFoes, Standing
<1> QED BY <1>1, FightInvariance, PTL

\* A raised guard serves one answer of the foes (guard in combat.cpp).
THEOREM GuardIsSpent == Spec => []GuardSpent
<1>1. FightInv => GuardSpent
  BY DEF FightInv
<1> QED BY <1>1, FightInvariance, PTL

\* The index that a click sent still means the foe that the player saw
\* (combat_target_ and the attack of combat.cpp).
THEOREM TargetIsMeant == Spec => TargetMeant
<1> DEFINE A == step = "act" /\ request.kind = "attack" =>
                \A i \in DOMAIN enemies :
                    enemies[i].name # request.meant =>
                        enemies[i] \in {enemies'[j] : j \in DOMAIN enemies'}
<1>1. FightInv /\ [Next]_vars => [A]_vars
  <2> SUFFICES ASSUME FightInv, Next, step = "act", request.kind = "attack",
                      NEW i \in DOMAIN enemies, enemies[i].name # request.meant
               PROVE  \E j \in DOMAIN enemies' : enemies'[j] = enemies[i]
    OBVIOUS
  <2>1. Aim \in 1..Len(enemies) /\ Len(enemies) \in Nat /\ i # Aim
        /\ i \in 1..Len(enemies)
    BY AimIsTrue DEF FightInv, FoesStand
  <2>2. CASE AttackWounds
    BY <2>1, <2>2, Wounded
  <2>3. CASE AttackFells
    <3> DEFINE j == IF i < Aim THEN i ELSE i - 1
    <3>1. j \in 1..Len(enemies) - 1 /\ (IF j < Aim THEN j ELSE j + 1) = i
      BY <2>1
    <3>2. DOMAIN enemies' = 1..Len(enemies) - 1
      BY <2>3, Felled
    <3>3. enemies'[j] = IF j < Aim THEN enemies[j] ELSE enemies[j + 1]
      BY <2>3, <3>1, <3>2, Felled
    <3>4. enemies'[j] = enemies[i]
      BY <3>1, <3>3
    <3> QED BY <3>1, <3>2, <3>4
  <2>4. CASE ~AttackWounds /\ ~AttackFells
    <3>1. enemies' = enemies
      BY <2>4 DEF Next, DrawFrame, SelectTarget, Engage, Clicks, ClickAttack, ClickDefend,
            ClickFlee, ClickPotion, CombatAction, PlayerConsume, SubmitTurn, Story, StartCombat,
            EndCombat, ApplyStatChanges, AddPotion, RemovePotion, EndStory, InStory, Inspected,
            Fight, FleeFails, FleeSucceeds, Defend, AttackMisses, UsePotion, ChooseEnemyActions,
            EnemyPhase, FinishCombat, combatVars
    <3> QED BY <3>1
  <2> QED BY <2>2, <2>3, <2>4
<1>2. Spec => [][A]_vars
  BY <1>1, FightInvariance, PTL DEF Spec
<1> QED BY <1>2 DEF TargetMeant

-----------------------------------------------------------------------------
(* The refinement.                                                         *)

\* Who moves, and who stands, as Encounter sees them.
Side == IF ~active THEN "none" ELSE IF step \in {"choose", "foes"} THEN "foes" ELSE "player"
StandingNames == {enemies[i].name : i \in DOMAIN enemies}

\* The mapping in these terms.
LEMMA Mapping ==
    /\ Promise!Init <=> Side = "none" /\ StandingNames = {} /\ outcome = "none"
    /\ UNCHANGED Promise!vars <=> UNCHANGED <<Side, StandingNames, outcome>>
    /\ Promise!Begin(StandingNames') /\ Side' = "player" => Promise!Next
BY DEF Promise!Init, Promise!vars, Promise!Next, Side, StandingNames

\* A step that leaves the fight and whose move it is alone is none of an encounter's.
LEMMA QuietStep ==
    ASSUME UNCHANGED <<active, enemies, outcome>>, Side' = Side
    PROVE  UNCHANGED Promise!vars
<1>1. StandingNames' = StandingNames
  BY DEF StandingNames
<1> QED BY <1>1, Mapping

\* A list under the same names is the same foes.
LEMMA SameNames ==
    ASSUME DOMAIN enemies' = DOMAIN enemies,
           \A i \in DOMAIN enemies : enemies'[i].name = enemies[i].name
    PROVE  StandingNames' = StandingNames
BY DEF StandingNames

\* An empty list has no foes.
LEMMA NobodyStands == enemies' = <<>> => StandingNames' = {}
BY NoFoes DEF StandingNames

\* The player's move that fells nobody.
LEMMA PlainMove ==
    ASSUME FightInv, FleeFails \/ Defend \/ AttackMisses \/ AttackWounds \/ UsePotion
    PROVE  Promise!Next
<1>1. active /\ active' /\ step = "act" /\ step' = "choose" /\ outcome' = outcome
  BY DEF FightInv, JobsMatch, FleeFails, Defend, AttackMisses, AttackWounds, UsePotion, Goes,
         combatVars
<1>2. StandingNames' = StandingNames
  <2>1. CASE AttackWounds
    BY <2>1, Wounded, SameNames
  <2>2. CASE FleeFails \/ Defend \/ AttackMisses \/ UsePotion
    <3>1. enemies' = enemies
      BY <2>2 DEF FleeFails, Defend, AttackMisses, UsePotion, combatVars
    <3> QED BY <3>1 DEF StandingNames
  <2> QED BY <2>1, <2>2
<1>3. Promise!Move
  BY <1>1, <1>2 DEF Promise!Move, StandingNames
<1> QED BY <1>3 DEF Promise!Next

\* The player's move that fells one foe, the last one with victory.
LEMMA FellingMove ==
    ASSUME FightInv, AttackFells
    PROVE  Promise!Next
<1> DEFINE fallen == enemies[Aim].name
<1>1. Aim \in 1..Len(enemies) /\ Len(enemies) \in Nat /\ DOMAIN enemies = 1..Len(enemies)
      /\ active /\ step = "act"
  BY AimIsTrue DEF AttackFells, FightInv, FoesStand, JobsMatch
<1>2. DOMAIN enemies' = 1..Len(enemies) - 1
      /\ \A i \in 1..Len(enemies) - 1 :
            enemies'[i] = IF i < Aim THEN enemies[i] ELSE enemies[i + 1]
  BY <1>1, Felled
<1>3. StandingNames' = StandingNames \ {fallen}
  <2>1. ASSUME NEW n \in StandingNames' PROVE n \in StandingNames \ {fallen}
    <3>1. PICK i \in 1..Len(enemies) - 1 : n = enemies'[i].name
      BY <1>2 DEF StandingNames
    <3> DEFINE k == IF i < Aim THEN i ELSE i + 1
    <3>2. k \in 1..Len(enemies) /\ k # Aim /\ enemies'[i] = enemies[k]
      BY <1>1, <1>2
    <3> HIDE DEF k
    <3> QED BY <1>1, <3>1, <3>2 DEF StandingNames, FightInv, FoesStand
  <2>2. ASSUME NEW n \in StandingNames, n # fallen PROVE n \in StandingNames'
    <3>1. PICK k \in 1..Len(enemies) : n = enemies[k].name /\ k # Aim
      BY <1>1, <2>2 DEF StandingNames
    <3> DEFINE i == IF k < Aim THEN k ELSE k - 1
    <3>2. i \in 1..Len(enemies) - 1 /\ (IF i < Aim THEN i ELSE i + 1) = k
      BY <1>1, <3>1
    <3>3. enemies'[i] = enemies[k]
      BY <1>2, <3>2
    <3> HIDE DEF i
    <3> QED BY <1>2, <3>1, <3>2, <3>3 DEF StandingNames
  <2> QED BY <2>1, <2>2
<1>4. fallen \in StandingNames
  BY <1>1 DEF StandingNames
<1>5. CASE enemies' = <<>>
  <2>1. StandingNames' = {} /\ Side' = "none" /\ outcome' = "victory"
    BY <1>5, NobodyStands DEF AttackFells, Side
  <2> QED BY <1>1, <1>3, <1>4, <2>1 DEF Promise!Next, Promise!Fell, Side, StandingNames
<1>6. CASE enemies' # <<>>
  <2>1. Side' = "foes" /\ outcome' = outcome
    BY <1>1, <1>6 DEF AttackFells, Side, Goes
  <2>2. 1 \in DOMAIN enemies'
    <3>1. Len(enemies') \in Nat /\ Len(enemies') # 0 /\ DOMAIN enemies' = 1..Len(enemies')
      BY <1>6, Felled, EmptySeq
    <3> QED BY <3>1
  <2>3. StandingNames' # {}
    BY <2>2 DEF StandingNames
  <2> QED BY <1>1, <1>3, <1>4, <2>1, <2>3 DEF Promise!Next, Promise!Fell, Side, StandingNames
<1> QED BY <1>5, <1>6

\* The foes' answer, or the player's defeat.
LEMMA AnswerMove ==
    ASSUME FightInv, EnemyPhase
    PROVE  Promise!Next
<1>1. active /\ step = "foes" /\ step' = "tell"
  BY DEF FightInv, JobsMatch, EnemyPhase
<1>2. CASE active' = FALSE /\ enemies' = <<>> /\ outcome' = "defeat"
  <2>1. StandingNames' = {}
    BY <1>2, NobodyStands
  <2>2. Promise!Overcome
    BY <1>1, <1>2, <2>1 DEF Promise!Overcome, StandingNames
  <2> QED BY <2>2 DEF Promise!Next
<1>3. CASE /\ active' = active /\ outcome' = outcome
           /\ DOMAIN enemies' = DOMAIN enemies
           /\ \A i \in DOMAIN enemies : enemies'[i].name = enemies[i].name
  <2>1. StandingNames' = StandingNames
    BY <1>3, SameNames
  <2>2. Promise!Answer
    BY <1>1, <1>3, <2>1 DEF Promise!Answer, StandingNames
  <2> QED BY <2>2 DEF Promise!Next
<1> QED BY <1>2, <1>3, Answered

\* What ends or begins a fight otherwise: flight, and the game master's tools.
LEMMA OtherMove ==
    ASSUME FightInv, FleeSucceeds \/ StartCombat \/ EndCombat
    PROVE  Promise!Next
<1>1. CASE FleeSucceeds
  <2>1. active /\ step = "act" /\ ~active' /\ outcome' = "fled" /\ StandingNames' = {}
    BY <1>1, NobodyStands DEF FleeSucceeds, FightInv, JobsMatch
  <2>2. Promise!Flee
    BY <2>1 DEF Promise!Flee, StandingNames
  <2> QED BY <2>2 DEF Promise!Next
<1>2. CASE StartCombat
  <2>1. step = "story" /\ step' = "story" /\ active' = TRUE /\ outcome' = "none"
    BY <1>2 DEF StartCombat, InStory, jobVars
  <2>2. Side \in {"none", "player"} /\ Side' = "player"
    BY <2>1 DEF Side
  <2>3. StandingNames' # {}
    <3>1. FoesStand'
      BY <1>2, NewFoes
    <3>2. enemies' # <<>> /\ enemies' \in Seq(Standing)
      BY <2>1, <3>1 DEF FoesStand
    <3>3. 1 \in DOMAIN enemies'
      <4>1. Len(enemies') \in Nat /\ Len(enemies') # 0 /\ DOMAIN enemies' = 1..Len(enemies')
        BY <3>2, EmptySeq
      <4> QED BY <4>1
    <3> QED BY <3>3 DEF StandingNames
  <2>4. Promise!Begin(StandingNames')
    BY <2>1, <2>2, <2>3 DEF Promise!Begin, Side, StandingNames
  <2> QED BY <2>2, <2>4, Mapping
<1>3. CASE EndCombat
  <2>1. step = "story" /\ ~active' /\ outcome' = "called" /\ StandingNames' = {}
    BY <1>3, NobodyStands DEF EndCombat, InStory
  <2>2. Promise!CallOff
    BY <2>1 DEF Promise!CallOff, StandingNames
  <2> QED BY <2>2 DEF Promise!Next
<1> QED BY <1>1, <1>2, <1>3

\* Every other step is none of an encounter's.
LEMMA AsideMove ==
    ASSUME FightInv,
           \/ DrawFrame \/ SelectTarget \/ Engage \/ Clicks \/ PlayerConsume \/ SubmitTurn
           \/ ApplyStatChanges \/ AddPotion \/ RemovePotion \/ EndStory
           \/ ChooseEnemyActions \/ FinishCombat \/ UNCHANGED vars
    PROVE  UNCHANGED Promise!vars
<1>1. UNCHANGED <<active, enemies, outcome>>
  BY DEF DrawFrame, SelectTarget, Engage, Clicks, ClickAttack, ClickDefend, ClickFlee, ClickPotion,
         CombatAction, PlayerConsume, SubmitTurn, ApplyStatChanges, AddPotion, RemovePotion,
         EndStory, InStory, Inspected, ChooseEnemyActions, FinishCombat, combatVars, vars
<1>2. Side' = Side
  <2>1. CASE Clicks
    <3>1. \/ step' = step
          \/ ~turnInProgress /\ step' = "act"
      BY <2>1 DEF Clicks, ClickAttack, ClickDefend, ClickFlee, ClickPotion, CombatAction
    <3> QED BY <1>1, <3>1 DEF Side, FightInv, JobsMatch
  <2>2. CASE SubmitTurn \/ EndStory \/ ChooseEnemyActions \/ FinishCombat
    BY <1>1, <2>2 DEF SubmitTurn, EndStory, ChooseEnemyActions, FinishCombat, Side, FightInv,
                      JobsMatch
  <2>3. CASE \/ DrawFrame \/ SelectTarget \/ Engage \/ PlayerConsume
             \/ ApplyStatChanges \/ AddPotion \/ RemovePotion \/ UNCHANGED vars
    <3>1. step' = step
      BY <2>3 DEF DrawFrame, SelectTarget, Engage, PlayerConsume, ApplyStatChanges, AddPotion,
                  RemovePotion, InStory, Inspected, jobVars, vars
    <3> QED BY <1>1, <3>1 DEF Side
  <2> QED BY <2>1, <2>2, <2>3
<1> QED BY <1>1, <1>2, QuietStep

\* A fight is an encounter: move and answer, one foe at a time, and an ending that is
\* what happened (run_combat, combat.cpp, and the tools that begin and end a fight).
THEOREM Refinement == Spec => ImplementsEncounter
<1>1. Init => Promise!Init
  <2> SUFFICES ASSUME Init PROVE Promise!Init
      OBVIOUS
  <2>1. Side = "none" /\ outcome = "none"
    BY DEF Init, Side
  <2>2. StandingNames = {}
    BY NoFoes DEF Init, StandingNames
  <2> QED BY <2>1, <2>2, Mapping
<1>2. FightInv /\ [Next]_vars => [Promise!Next]_(Promise!vars)
  <2> SUFFICES ASSUME FightInv, [Next]_vars
               PROVE  Promise!Next \/ UNCHANGED Promise!vars
      OBVIOUS
  <2> QED BY PlainMove, FellingMove, AnswerMove, OtherMove, AsideMove DEF Next, Story, Fight
<1> QED BY <1>1, <1>2, FightInvariance, PTL DEF Spec, ImplementsEncounter, Promise!Spec

=============================================================================
