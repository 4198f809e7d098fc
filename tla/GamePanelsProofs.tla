-------------------------- MODULE GamePanelsProofs --------------------------
(***************************************************************************)
(* What the panels offer is true of the engine: theorems about GamePanels  *)
(* for every bound.                                                        *)
(*                                                                         *)
(* The heart of the argument is that a frame which showed an idle engine   *)
(* stays true until one of its widgets is clicked (IdleFrameTrue): only a  *)
(* click gives the worker something to do, and a frame handles one.  The   *)
(* other conjuncts of the inductive invariant are the types and the two    *)
(* facts that keep the counters within their bounds.                       *)
(***************************************************************************)
EXTENDS GamePanels, TLAPS

\* A frame that showed an idle engine and was not clicked shows the game as it is.
IdleFrameTrue ==
    frame # NoFrame /\ ~frame.busy /\ ~frame.clicked =>
        phase = "idle" /\ check = frame.check /\ combat = frame.combat

\* A roll is left for an armed check, a number for the outstanding suggestion.
BoundsHold == /\ check => rollSeq < MaxRolls
              /\ current = "autofill" => fillSeq < MaxFills

PanelInv == TypeOK /\ IdleFrameTrue /\ BoundsHold /\ OfferedIsTaken

\* What the assumption says, in the form the steps use.
LEMMA Bounds == MaxRolls \in Nat /\ 0 < MaxRolls /\ MaxFills \in Nat
BY PanelsAssumption

\* The counters start within their bounds.
LEMMA ZeroFits == 0 \in 0..MaxRolls /\ 0 \in 0..MaxFills
BY Bounds

\* A roll below the bound leaves the counter within it.
LEMMA OneMoreRoll ==
    ASSUME NEW n \in 0..MaxRolls, n < MaxRolls
    PROVE  n + 1 \in 0..MaxRolls
BY Bounds

\* The same where a roll is kept for the check that is armed.
LEMMA OneMoreRollKept ==
    ASSUME NEW n \in 0..MaxRolls, n + 1 < MaxRolls
    PROVE  n + 1 \in 0..MaxRolls
BY Bounds

\* A suggestion below the bound leaves its counter within it.
LEMMA OneMoreFill ==
    ASSUME NEW n \in 0..MaxFills, n < MaxFills
    PROVE  n + 1 \in 0..MaxFills
BY Bounds

\* No job in hand is not a request for a suggestion.
LEMMA NoJobIsNone == NoJob # "autofill"
BY PanelsAssumption DEF Jobs

\* A frame in which no call was made refuses nothing.
LEMMA NoCallIsFine ==
    NoCall.taken = TRUE /\ NoCall.idleShown = TRUE
BY DEF NoCall

\* The invariant holds when the program starts.
LEMMA PanelInit == Init => PanelInv
<1> SUFFICES ASSUME Init PROVE PanelInv
    OBVIOUS
<1> USE DEF Init, Gate!GateInit
<1>1. TypeOK
  <2>1. phase \in {"idle", "accepted", "running"} /\ current \in Jobs \cup {NoJob}
    OBVIOUS
  <2>2. /\ rollSeq \in 0..MaxRolls /\ skillBase \in 0..MaxRolls
        /\ fillSeq \in 0..MaxFills /\ lastFill \in 0..MaxFills
    BY ZeroFits
  <2>3. call.taken \in BOOLEAN /\ call.idleShown \in BOOLEAN
    BY NoCallIsFine
  <2> QED BY <2>1, <2>2, <2>3 DEF TypeOK
<1>2. IdleFrameTrue
  BY DEF IdleFrameTrue
<1>3. BoundsHold
  BY Bounds, NoJobIsNone DEF BoundsHold
<1>4. OfferedIsTaken
  BY NoCallIsFine DEF OfferedIsTaken
<1> QED BY <1>1, <1>2, <1>3, <1>4 DEF PanelInv

\* The frame loop preserves it.
LEMMA FrameStep ==
    ASSUME PanelInv, BeginFrame \/ EndFrame
    PROVE  PanelInv'
<1> USE DEF PanelInv, TypeOK, IdleFrameTrue, BoundsHold, OfferedIsTaken, gateVars, gameVars,
        skillVars, premiseVars
<1>1. CASE BeginFrame
  <2>1. Snapshot \in Frames
    BY DEF Snapshot, Frames, Jobs
  <2>2. TypeOK'
    BY <1>1, <2>1 DEF BeginFrame
  <2>3. IdleFrameTrue'
    BY <1>1 DEF BeginFrame, Snapshot
  <2> QED BY <1>1, <2>2, <2>3 DEF BeginFrame
<1>2. CASE EndFrame
  <2>1. premise' \in {"", "typed", "suggested"} /\ awaiting' \in BOOLEAN
        /\ lastFill' \in 0..MaxFills
    BY <1>2 DEF EndFrame, ApplySuggestion, Frames
  <2> QED BY <1>2, <2>1, NoCallIsFine DEF EndFrame
<1> QED BY <1>1, <1>2

-----------------------------------------------------------------------------
(* Clicks: what every handler shares, then one lemma for each kind of call. *)

EngineTyped ==
    /\ phase \in {"idle", "accepted", "running"} /\ current \in Jobs \cup {NoJob}
    /\ check \in BOOLEAN /\ combat \in BOOLEAN /\ rollSeq \in 0..MaxRolls
    /\ fill \in {"", "suggested"} /\ fillSeq \in 0..MaxFills

PanelsTyped ==
    /\ modal \in {"none", "forge", "combat"}
    /\ showSkill \in BOOLEAN /\ skillBase \in 0..MaxRolls
    /\ premise \in {"", "typed", "suggested"}
    /\ awaiting \in BOOLEAN /\ lastFill \in 0..MaxFills

CallHolds == call.taken \in BOOLEAN /\ call.idleShown \in BOOLEAN /\ OfferedIsTaken

\* The invariant in the parts that a click touches one by one.
LEMMA PanelParts ==
    PanelInv <=> /\ EngineTyped /\ PanelsTyped /\ CallHolds
                 /\ frame \in Frames \cup {NoFrame}
                 /\ IdleFrameTrue /\ BoundsHold
BY DEF PanelInv, TypeOK, EngineTyped, PanelsTyped, CallHolds

\* A clicked frame was drawn from the game as it is, if it showed an idle engine,
\* and claims nothing of the engine afterwards.
LEMMA ClickFacts ==
    ASSUME PanelInv, NEW window, ClickIn(window)
    PROVE  /\ frame \in Frames /\ frame' \in Frames
           /\ IdleFrameTrue'
           /\ ~frame.busy => phase = "idle" /\ check = frame.check /\ combat = frame.combat
<1>1. frame \in Frames
  BY DEF PanelInv, TypeOK, ClickIn
<1>2. frame' \in Frames /\ frame'.clicked = TRUE
  BY <1>1 DEF ClickIn, Frames
<1>3. IdleFrameTrue'
  BY <1>2 DEF IdleFrameTrue
<1>4. ~frame.busy => phase = "idle" /\ check = frame.check /\ combat = frame.combat
  BY DEF PanelInv, IdleFrameTrue, ClickIn
<1> QED BY <1>1, <1>2, <1>3, <1>4

\* A click that leaves the parts of the invariant in order leaves it in order.
LEMMA ClickStep ==
    ASSUME PanelInv, NEW window, ClickIn(window),
           EngineTyped', BoundsHold', CallHolds', PanelsTyped'
    PROVE  PanelInv'
BY ClickFacts DEF PanelInv, TypeOK, EngineTyped, CallHolds, PanelsTyped

\* A call is recorded as the engine took it: only a button that is not disabled
\* is refused, and only in a frame that showed a busy engine.
LEMMA MadeStep ==
    ASSUME frame \in Frames, NEW widget, NEW taken \in BOOLEAN, Made(widget, taken),
           ~taken => widget \in Ungated /\ frame.busy
    PROVE  CallHolds'
<1>1. call'.taken = taken /\ call'.widget = widget /\ call'.idleShown = (~frame.busy)
  BY DEF Made
<1>2. frame.busy \in BOOLEAN
  BY DEF Frames
<1> QED BY <1>1, <1>2 DEF CallHolds, OfferedIsTaken

\* A call refused because the engine is busy.
LEMMA RefusedStep ==
    ASSUME PanelInv, NEW window, ClickIn(window), NEW widget,
           widget \in Ungated \/ ~frame.busy, phase # "idle", Refused(widget)
    PROVE  EngineTyped' /\ BoundsHold' /\ CallHolds'
<1>1. frame.busy /\ frame \in Frames
  BY ClickFacts
<1>2. CallHolds'
  BY <1>1, MadeStep DEF Refused
<1>3. EngineTyped /\ BoundsHold
  BY PanelParts
<1> QED BY <1>2, <1>3 DEF Refused, EngineTyped, BoundsHold, gateVars, gameVars

\* A call that claims the engine for a job, taken or refused.
LEMMA ClaimStep ==
    ASSUME PanelInv, NEW window, ClickIn(window), NEW widget, NEW job \in Jobs,
           widget \in Ungated \/ ~frame.busy,
           job = "autofill" => fillSeq < MaxFills,
           Claim(widget, job)
    PROVE  EngineTyped' /\ BoundsHold' /\ CallHolds'
<1>1. CASE phase # "idle" /\ Refused(widget)
  BY <1>1, RefusedStep
<1>2. CASE Gate!Accept(job) /\ UNCHANGED gameVars /\ Made(widget, TRUE)
  <2>1. CallHolds'
    BY <1>2, ClickFacts, MadeStep
  <2>2. EngineTyped /\ BoundsHold
    BY PanelParts
  <2> QED BY <1>2, <2>1, <2>2 DEF EngineTyped, BoundsHold, gameVars, Gate!Accept
<1> QED BY <1>1, <1>2 DEF Claim

\* A move of a fight, taken or refused.
LEMMA ClaimCombatStep ==
    ASSUME PanelInv, NEW window, ClickIn(window), ~frame.busy, frame.combat, ClaimCombat
    PROVE  EngineTyped' /\ BoundsHold' /\ CallHolds'
<1>1. phase = "idle" /\ combat /\ frame \in Frames
  BY ClickFacts
<1>2. Gate!Accept("combat") /\ UNCHANGED gameVars /\ Made("combat", TRUE)
  BY <1>1 DEF ClaimCombat
<1>3. CallHolds'
  BY <1>1, <1>2, MadeStep
<1>4. EngineTyped /\ BoundsHold
  BY PanelParts
<1> QED BY <1>2, <1>3, <1>4 DEF EngineTyped, BoundsHold, gameVars, Gate!Accept, Jobs

\* The roll of an armed check, taken or refused.
LEMMA ResolveStep ==
    ASSUME PanelInv, NEW window, ClickIn(window), ~frame.busy, frame.check, ResolveSkillCheck
    PROVE  EngineTyped' /\ BoundsHold' /\ CallHolds'
<1>1. phase = "idle" /\ check /\ frame \in Frames
  BY ClickFacts
<1>2. /\ Gate!Accept("resolution")
      /\ check' = FALSE /\ rollSeq' = rollSeq + 1
      /\ UNCHANGED <<combat, fill, fillSeq>>
      /\ Made("roll", TRUE)
  BY <1>1 DEF ResolveSkillCheck
<1>3. CallHolds'
  BY <1>1, <1>2, MadeStep
<1>4. EngineTyped /\ BoundsHold
  BY PanelParts
<1>5. rollSeq' \in 0..MaxRolls
  <2>1. rollSeq < MaxRolls
    BY <1>1, <1>4 DEF BoundsHold
  <2>2. rollSeq \in 0..MaxRolls
    BY <1>4 DEF EngineTyped
  <2> QED BY <1>2, <2>1, <2>2, OneMoreRoll
<1> QED BY <1>2, <1>3, <1>4, <1>5 DEF EngineTyped, BoundsHold, Gate!Accept, Jobs

\* A call that replaces the game, taken or refused.
LEMMA SwitchGameStep ==
    ASSUME PanelInv, NEW window, ClickIn(window), NEW widget \in Ungated,
           NEW armed \in BOOLEAN, NEW fighting \in BOOLEAN, armed => rollSeq < MaxRolls,
           SwitchGame(widget, armed, fighting)
    PROVE  EngineTyped' /\ BoundsHold' /\ CallHolds'
<1>1. CASE phase # "idle" /\ Refused(widget)
  BY <1>1, RefusedStep
<1>2. CASE /\ phase = "idle"
           /\ check' = armed /\ combat' = fighting
           /\ UNCHANGED <<gateVars, rollSeq, fill, fillSeq>>
           /\ Made(widget, TRUE)
  <2>1. CallHolds'
    BY <1>2, ClickFacts, MadeStep
  <2>2. EngineTyped /\ BoundsHold
    BY PanelParts
  <2> QED BY <1>2, <2>1, <2>2 DEF EngineTyped, BoundsHold, gateVars
<1> QED BY <1>1, <1>2 DEF SwitchGame

\* A call that ends at once, taken or refused.
LEMMA CommandStep ==
    ASSUME PanelInv, NEW window, ClickIn(window), NEW widget,
           widget \in Ungated \/ ~frame.busy, Command(widget)
    PROVE  EngineTyped' /\ BoundsHold' /\ CallHolds'
<1>1. CASE phase # "idle" /\ Refused(widget)
  BY <1>1, RefusedStep
<1>2. CASE UNCHANGED <<gateVars, gameVars>> /\ Made(widget, TRUE)
  <2>1. CallHolds'
    BY <1>2, ClickFacts, MadeStep
  <2>2. EngineTyped /\ BoundsHold
    BY PanelParts
  <2> QED BY <1>2, <2>1, <2>2 DEF EngineTyped, BoundsHold, gateVars, gameVars
<1> QED BY <1>1, <1>2 DEF Command

-----------------------------------------------------------------------------
(* The clicks, window by window.                                           *)

\* The Story panel.
LEMMA StoryStep == ASSUME PanelInv, StoryClick PROVE PanelInv'
<1> USE DEF skillVars, premiseVars
<1>0. PanelsTyped /\ EngineTyped /\ BoundsHold /\ CallHolds
  BY PanelParts
<1>1. CASE QuickAction
  <2>1. ClickIn("none") /\ Claim("quick action", "turn") /\ ~frame.busy
    BY <1>1 DEF QuickAction
  <2>2. EngineTyped' /\ BoundsHold' /\ CallHolds'
    BY <2>1, ClaimStep DEF Jobs
  <2>3. PanelsTyped'
    BY <1>0, <1>1 DEF QuickAction, PanelsTyped
  <2> QED BY <2>1, <2>2, <2>3, ClickStep
<1>2. CASE Send
  <2>1. ClickIn("none") /\ Claim("send", "turn") /\ ~frame.busy
    BY <1>2 DEF Send
  <2>2. EngineTyped' /\ BoundsHold' /\ CallHolds'
    BY <2>1, ClaimStep DEF Jobs
  <2>3. PanelsTyped'
    BY <1>0, <1>2 DEF Send, PanelsTyped
  <2> QED BY <2>1, <2>2, <2>3, ClickStep
<1>3. CASE CancelTurn \/ EngageCombat \/ EngageSkill
  <2>1. ClickIn("none") /\ UNCHANGED <<gateVars, gameVars, call>>
    BY <1>3 DEF CancelTurn, EngageCombat, EngageSkill
  <2>2. EngineTyped' /\ BoundsHold'
    BY <1>0, <2>1 DEF EngineTyped, BoundsHold, gateVars, gameVars
  <2>3. CallHolds'
    BY <1>0, <2>1 DEF CallHolds, OfferedIsTaken
  <2>4. CASE CancelTurn
    <3>1. PanelsTyped' BY <1>0, <2>4 DEF CancelTurn, PanelsTyped
    <3> QED BY <2>1, <2>2, <2>3, <3>1, ClickStep
  <2>5. CASE EngageCombat
    <3>1. PanelsTyped' BY <1>0, <2>5 DEF EngageCombat, PanelsTyped
    <3> QED BY <2>1, <2>2, <2>3, <3>1, ClickStep
  <2>6. CASE EngageSkill
    <3>1. frame.roll \in 0..MaxRolls
      BY <2>1, ClickFacts DEF Frames
    <3>2. PanelsTyped' BY <1>0, <2>6, <3>1 DEF EngageSkill, PanelsTyped
    <3> QED BY <2>1, <2>2, <2>3, <3>2, ClickStep
  <2> QED BY <1>3, <2>4, <2>5, <2>6
<1> QED BY <1>1, <1>2, <1>3 DEF StoryClick

\* The Combat and Skill Check windows.
LEMMA RollStep == ASSUME PanelInv, RollClick PROVE PanelInv'
<1> USE DEF skillVars, premiseVars
<1>0. PanelsTyped /\ EngineTyped /\ BoundsHold /\ CallHolds
  BY PanelParts
<1>1. CASE CombatMove
  <2>1. ClickIn("combat") /\ ClaimCombat /\ ~frame.busy /\ frame.combat
    BY <1>1 DEF CombatMove
  <2>2. EngineTyped' /\ BoundsHold' /\ CallHolds'
    BY <2>1, ClaimCombatStep
  <2>3. PanelsTyped'
    BY <1>0, <1>1 DEF CombatMove, PanelsTyped
  <2> QED BY <2>1, <2>2, <2>3, ClickStep
<1>2. CASE RollTheDice
  <2>1. ClickIn("none") /\ ResolveSkillCheck /\ ~frame.busy /\ frame.check
    BY <1>2 DEF RollTheDice
  <2>2. EngineTyped' /\ BoundsHold' /\ CallHolds'
    BY <2>1, ResolveStep
  <2>3. PanelsTyped'
    BY <1>0, <1>2 DEF RollTheDice, PanelsTyped
  <2> QED BY <2>1, <2>2, <2>3, ClickStep
<1>3. CASE Continue \/ CloseSkillCheck
  <2>1. /\ ClickIn("none") /\ showSkill' = FALSE
        /\ UNCHANGED <<gateVars, gameVars, modal, skillBase, premiseVars, call>>
    BY <1>3 DEF Continue, CloseSkillCheck
  <2>2. EngineTyped' /\ BoundsHold'
    BY <1>0, <2>1 DEF EngineTyped, BoundsHold, gateVars, gameVars
  <2>3. CallHolds'
    BY <1>0, <2>1 DEF CallHolds, OfferedIsTaken
  <2>4. PanelsTyped'
    BY <1>0, <2>1 DEF PanelsTyped
  <2> QED BY <2>1, <2>2, <2>3, <2>4, ClickStep
<1> QED BY <1>1, <1>2, <1>3 DEF RollClick

\* The New Game dialog.
LEMMA ForgeStep == ASSUME PanelInv, ForgeClick PROVE PanelInv'
<1> USE DEF skillVars, premiseVars
<1>0. PanelsTyped /\ EngineTyped /\ BoundsHold /\ CallHolds
  BY PanelParts
<1>1. CASE OpenForge \/ TypePremise \/ CancelForge
  <2>1. (ClickIn("none") \/ ClickIn("forge")) /\ UNCHANGED <<gateVars, gameVars, call>>
    BY <1>1 DEF OpenForge, TypePremise, CancelForge
  <2>2. EngineTyped' /\ BoundsHold'
    BY <1>0, <2>1 DEF EngineTyped, BoundsHold, gateVars, gameVars
  <2>3. CallHolds'
    BY <1>0, <2>1 DEF CallHolds, OfferedIsTaken
  <2>4. PanelsTyped'
    BY <1>0, <1>1 DEF OpenForge, TypePremise, CancelForge, PanelsTyped
  <2> QED BY <2>1, <2>2, <2>3, <2>4, ClickStep
<1>2. CASE SuggestPremise
  <2>1. ClickIn("forge") /\ Claim("suggest", "autofill") /\ fillSeq < MaxFills
    BY <1>2 DEF SuggestPremise
  <2>2. EngineTyped' /\ BoundsHold' /\ CallHolds'
    BY <2>1, ClaimStep DEF Jobs, Ungated
  <2>3. frame.fillSeq \in 0..MaxFills
    BY <2>1, ClickFacts DEF Frames
  <2>4. PanelsTyped'
    BY <1>0, <1>2, <2>3 DEF SuggestPremise, PanelsTyped
  <2> QED BY <2>1, <2>2, <2>4, ClickStep
<1>3. CASE BeginAdventure
  <2>1. ClickIn("forge") /\ ~frame.busy
    BY <1>3 DEF BeginAdventure
  <2>2. phase = "idle" /\ frame \in Frames
    BY <2>1, ClickFacts
  <2>3. /\ Gate!Accept("worldgen")
        /\ check' = FALSE /\ combat' = FALSE
        /\ UNCHANGED <<rollSeq, fill, fillSeq>>
        /\ Made("begin", TRUE)
    BY <1>3, <2>2 DEF BeginAdventure
  <2>4. EngineTyped' /\ BoundsHold'
    BY <1>0, <2>3 DEF EngineTyped, BoundsHold, Gate!Accept, Jobs
  <2>5. CallHolds'
    BY <2>2, <2>3, MadeStep
  <2>6. PanelsTyped'
    BY <1>0, <1>3 DEF BeginAdventure, PanelsTyped
  <2> QED BY <2>1, <2>4, <2>5, <2>6, ClickStep
<1>4. CASE QuickStart
  <2>1. ClickIn("forge") /\ SwitchGame("quick start", FALSE, FALSE)
    BY <1>4 DEF QuickStart
  <2>2. EngineTyped' /\ BoundsHold' /\ CallHolds'
    BY <2>1, SwitchGameStep DEF Ungated
  <2>3. PanelsTyped'
    BY <1>0, <1>4 DEF QuickStart, PanelsTyped
  <2> QED BY <2>1, <2>2, <2>3, ClickStep
<1> QED BY <1>1, <1>2, <1>3, <1>4 DEF ForgeClick

\* The other windows.
LEMMA WindowStep == ASSUME PanelInv, WindowClick PROVE PanelInv'
<1>1. ClickIn("none") /\ UNCHANGED <<modal, skillVars, premiseVars>>
  BY DEF WindowClick, AllocateAttribute, CollectIncome, AcquireMount, AcquireFromRoster,
         UseInventory, ApplyGmTool, LoadSave, CreateCampaign
<1>2. EngineTyped' /\ BoundsHold' /\ CallHolds'
  <2>1. CASE AllocateAttribute
    BY <2>1, CommandStep DEF AllocateAttribute
  <2>2. CASE CollectIncome
    BY <2>2, CommandStep DEF CollectIncome
  <2>3. CASE AcquireMount
    BY <2>3, ClaimStep DEF AcquireMount, Jobs
  <2>4. CASE AcquireFromRoster
    BY <2>4, ClaimStep DEF AcquireFromRoster, Jobs, Ungated
  <2>5. CASE UseInventory
    BY <2>5, CommandStep DEF UseInventory, Ungated
  <2>6. CASE ApplyGmTool
    BY <2>6, CommandStep DEF ApplyGmTool, Ungated
  <2>7. CASE LoadSave
    BY <2>7, SwitchGameStep DEF LoadSave, Ungated
  <2>8. CASE CreateCampaign
    BY <2>8, SwitchGameStep DEF CreateCampaign, Ungated
  <2> QED BY <2>1, <2>2, <2>3, <2>4, <2>5, <2>6, <2>7, <2>8 DEF WindowClick
<1>3. PanelsTyped'
  BY <1>1, PanelParts DEF PanelsTyped, skillVars, premiseVars
<1> QED BY <1>1, <1>2, <1>3, ClickStep

-----------------------------------------------------------------------------
(* The worker moves only when the engine is not idle, so it leaves a frame  *)
(* that showed an idle engine true.                                        *)

\* Every step of the worker.
LEMMA WorkerStep == ASSUME PanelInv, Worker PROVE PanelInv'
<1>0. /\ PanelsTyped /\ EngineTyped /\ BoundsHold /\ CallHolds /\ IdleFrameTrue
      /\ frame \in Frames \cup {NoFrame}
  BY PanelParts
<1>1. UNCHANGED panelVars
  BY DEF Worker, StartJob, ToolCall, AttackRoll, CombatEnds, FinishJob
<1>2. PanelsTyped' /\ CallHolds' /\ frame' \in Frames \cup {NoFrame}
  BY <1>0, <1>1 DEF panelVars, skillVars, premiseVars, PanelsTyped, CallHolds, OfferedIsTaken
<1>3. phase # "idle"
  BY DEF Worker, StartJob, ToolCall, AttackRoll, CombatEnds, FinishJob, Gate!Start, Gate!Finish
<1>4. IdleFrameTrue'
  BY <1>0, <1>1, <1>3 DEF IdleFrameTrue, panelVars
<1>5. EngineTyped' /\ BoundsHold'
  <2>1. CASE StartJob
    BY <1>0, <2>1 DEF StartJob, Gate!Start, gameVars, EngineTyped, BoundsHold
  <2>2. CASE ToolCall
    <3>1. CASE check' = TRUE
      <4>1. rollSeq < MaxRolls /\ UNCHANGED <<gateVars, rollSeq, fill, fillSeq>>
        BY <1>0, <2>2, <3>1 DEF ToolCall, BoundsHold
      <4>2. combat' \in BOOLEAN
        BY <1>0, <2>2 DEF ToolCall, EngineTyped
      <4> QED BY <1>0, <3>1, <4>1, <4>2 DEF gateVars, EngineTyped, BoundsHold
    <3>2. CASE UNCHANGED check /\ combat' \in BOOLEAN
      <4>1. UNCHANGED <<gateVars, rollSeq, fill, fillSeq>>
        BY <2>2 DEF ToolCall
      <4> QED BY <1>0, <3>2, <4>1 DEF gateVars, EngineTyped, BoundsHold
    <3> QED BY <2>2, <3>1, <3>2 DEF ToolCall
  <2>3. CASE AttackRoll
    <3>1. CASE check
      <4>1. /\ rollSeq + 1 < MaxRolls /\ rollSeq' = rollSeq + 1
            /\ UNCHANGED <<gateVars, check, combat, fill, fillSeq>>
        BY <2>3, <3>1 DEF AttackRoll
      <4>2. rollSeq \in 0..MaxRolls
        BY <1>0 DEF EngineTyped
      <4>3. rollSeq' \in 0..MaxRolls /\ rollSeq' < MaxRolls
        BY <4>1, <4>2, OneMoreRollKept
      <4> QED BY <1>0, <4>1, <4>3 DEF gateVars, EngineTyped, BoundsHold
    <3>2. CASE ~check
      <4>1. /\ rollSeq + 0 < MaxRolls /\ rollSeq' = rollSeq + 1
            /\ UNCHANGED <<gateVars, check, combat, fill, fillSeq>>
        BY <2>3, <3>2 DEF AttackRoll
      <4>2. rollSeq \in 0..MaxRolls
        BY <1>0 DEF EngineTyped
      <4>3. rollSeq < MaxRolls
        BY <4>1, <4>2
      <4>4. rollSeq' \in 0..MaxRolls
        BY <4>1, <4>2, <4>3, OneMoreRoll
      <4> QED BY <1>0, <3>2, <4>1, <4>4 DEF gateVars, EngineTyped, BoundsHold
    <3> QED BY <3>1, <3>2
  <2>4. CASE CombatEnds
    BY <1>0, <2>4 DEF CombatEnds, gateVars, EngineTyped, BoundsHold
  <2>5. CASE FinishJob
    <3>1. /\ phase' = "idle" /\ current' = NoJob
          /\ check' = (check /\ current # "resolution")
          /\ UNCHANGED <<combat, rollSeq>>
      BY <2>5 DEF FinishJob, Gate!Finish
    <3>2. fill' \in {"", "suggested"} /\ fillSeq' \in 0..MaxFills
      BY <1>0, <2>5, OneMoreFill DEF FinishJob, EngineTyped, BoundsHold
    <3> QED BY <1>0, <3>1, <3>2, NoJobIsNone DEF EngineTyped, BoundsHold
  <2> QED BY <2>1, <2>2, <2>3, <2>4, <2>5 DEF Worker
<1> QED BY <1>2, <1>4, <1>5 DEF PanelInv, TypeOK, EngineTyped, PanelsTyped, CallHolds

-----------------------------------------------------------------------------
(* The theorems.                                                           *)

\* Every step leaves the invariant in order, one that changes nothing included.
LEMMA PanelStep == PanelInv /\ [Next]_vars => PanelInv'
<1> SUFFICES ASSUME PanelInv, [Next]_vars PROVE PanelInv'
    OBVIOUS
<1>1. CASE UNCHANGED vars
  <2> USE <1>1 DEF PanelInv, vars, gateVars, gameVars, skillVars, premiseVars
  <2>1. TypeOK'
    <3>1. EngineTyped'
      BY DEF EngineTyped, TypeOK
    <3>2. PanelsTyped'
      BY DEF PanelsTyped, TypeOK
    <3>3. /\ frame' \in Frames \cup {NoFrame}
          /\ call'.taken \in BOOLEAN /\ call'.idleShown \in BOOLEAN
      BY DEF TypeOK
    <3> QED BY <3>1, <3>2, <3>3 DEF TypeOK, EngineTyped, PanelsTyped
  <2>2. IdleFrameTrue'
    BY DEF IdleFrameTrue
  <2>3. BoundsHold'
    BY DEF BoundsHold
  <2>4. OfferedIsTaken'
    BY DEF OfferedIsTaken
  <2> QED BY <2>1, <2>2, <2>3, <2>4
<1>2. CASE Next
  BY <1>2, FrameStep, StoryStep, RollStep, ForgeStep, WindowStep, WorkerStep DEF Next
<1> QED BY <1>1, <1>2

\* In every state of every behaviour, whatever the bounds: the variables keep their
\* types, and a frame that showed an idle engine and was not clicked is still true of
\* the game (game_panels.cpp:673-679; the snapshot is a copy taken before drawing).
THEOREM PanelsInvariance == Spec => []PanelInv
<1>1. Init => PanelInv
  BY PanelInit
<1>2. PanelInv /\ [Next]_vars => PanelInv'
  BY PanelStep
<1> QED BY <1>1, <1>2, PTL DEF Spec

\* No click on a button that was offered is dropped by the engine without a word,
\* unless the frame showed it busy and the panels left the button enabled.
THEOREM OfferedClicksAreTaken == Spec => []OfferedIsTaken
<1>1. PanelInv => OfferedIsTaken
  BY DEF PanelInv
<1> QED BY <1>1, PanelsInvariance, PTL

\* The only two clicks that ask for a turn of the player's own were drawn without a
\* pending roll, and what they were drawn from still holds.
LEMMA TurnStep ==
    ASSUME PanelInv, Next, phase = "idle", phase' = "accepted", current' = "turn"
    PROVE  ~check /\ ~combat
<1>1. CASE StoryClick
  <2>1. QuickAction \/ Send
    BY <1>1 DEF StoryClick, CancelTurn, EngageCombat, EngageSkill, gateVars
  <2>2. ClickIn("none") /\ ~frame.busy /\ ~frame.check /\ ~frame.combat
    BY <2>1 DEF QuickAction, Send, PendingRoll
  <2> QED BY <2>2, ClickFacts
<1>2. CASE RollClick
  BY <1>2 DEF RollClick, CombatMove, ClaimCombat, RollTheDice, ResolveSkillCheck, Continue,
              CloseSkillCheck, Refused, gateVars, Gate!Accept
<1>3. CASE ForgeClick
  BY <1>3 DEF ForgeClick, OpenForge, TypePremise, SuggestPremise, BeginAdventure, QuickStart,
              CancelForge, Claim, SwitchGame, Refused, gateVars, Gate!Accept
<1>4. CASE WindowClick
  BY <1>4 DEF WindowClick, AllocateAttribute, CollectIncome, AcquireMount, AcquireFromRoster,
              UseInventory, ApplyGmTool, LoadSave, CreateCampaign, Claim, SwitchGame, Command,
              Refused, gateVars, Gate!Accept
<1>5. CASE BeginFrame \/ EndFrame \/ Worker
  BY <1>5 DEF BeginFrame, EndFrame, Worker, StartJob, ToolCall, AttackRoll, CombatEnds,
              FinishJob, gateVars, Gate!Start, Gate!Finish
<1> QED BY <1>1, <1>2, <1>3, <1>4, <1>5 DEF Next

\* The story does not go on past a pending roll.
THEOREM TurnsWait == Spec => TurnsWaitForRolls
<1>1. PanelInv /\ [Next]_vars =>
        [phase = "idle" /\ phase' = "accepted" /\ current' = "turn" => ~check /\ ~combat]_vars
  BY TurnStep
<1> QED BY <1>1, PanelsInvariance, PTL DEF Spec, TurnsWaitForRolls
=============================================================================
