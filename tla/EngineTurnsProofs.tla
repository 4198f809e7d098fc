-------------------------- MODULE EngineTurnsProofs --------------------------
(***************************************************************************)
(* Proofs about EngineTurns, for every set of campaigns and settings and   *)
(* every iteration limit.                                                  *)
(*                                                                         *)
(* The argument has one inductive invariant, IndInv.  Its core is OneJob   *)
(* with CheckedFlagHolds: turn_in_progress_ says exactly whether a job is  *)
(* in the caller's hands, in a slot or with the worker.  Everything else   *)
(* (who owns the game state, which agent a turn uses, whether a check may  *)
(* be armed) follows the job through those three places.                   *)
(***************************************************************************)
EXTENDS EngineTurns, TLAPS

USE DEF vars, gameVars, flagVars, configVars, queueVars, agentVars, workerVars,
        uiVars, ghostVars


\* Where the resolution flag is on its way from resolve_skill_check to the
\* turn it is meant for, and that no check is armed while it is on its way.
ResolutionTracked ==
    /\ turnInProgress /\ resolution => ujob = "turn"
    /\ ~turnInProgress => ~resolvingCheck
    /\ turnInProgress /\ (~InService \/ wpc \in {"start", "reload"}) =>
          (resolvingCheck <=> resolution)
    /\ InService /\ wpc \notin {"start", "reload"} =>
          (resolvingTurn <=> resolution) /\ ~resolvingCheck
    /\ wpc \in {"start", "reload"} => ~resolvingTurn
    /\ wpc \in {"reload", "ensure", "nokey", "frame", "chat", "tools", "commit"} =>
          job \in {"turn", "worldgen"}
    /\ wpc \in {"pick", "call", "player", "enemies", "seed", "finish"} => job # "turn"
    /\ upc \in {"rsave", "rclaim"} => ~skillCheck
    /\ /\ turnInProgress /\ resolution
       /\ ~InService \/ wpc \in {"start", "reload", "ensure", "nokey", "frame"}
       => ~skillCheck

\* An agent about to be used or completed is current already.
AgentBeingBuilt ==
    /\ wpc = "ensure" => agent \in {campaign, NoCampaign}
    /\ wpc = "frame" => (llm = setting \/ reloadAgent)

\* A combat job on its way to the worker; a cancel flag a running job may see.
CombatRequested ==
    turnInProgress /\ ujob = "combat" /\ (~InService \/ wpc \in {"start", "player"})
        => combatActive

CancelMeant ==
    InService /\ wpc # "start" /\ job \in {"turn", "worldgen", "combat"} /\ cancelFlag
        => asked

FreshVerdict == wpc = "start" => verdict = "none"

IndInv ==
    /\ TypeOK /\ OneJob /\ CheckedFlagHolds
    /\ AgentCurrent /\ AgentBeingBuilt
    /\ NoLostWakeup /\ NoMissedIdle
    /\ CombatRequested
    /\ NoStrayCancel /\ CancelMeant /\ FreshVerdict
    /\ ResolutionTracked


-----------------------------------------------------------------------------
(* Each part of the invariant is preserved by every step.                  *)

\* The Boolean variables keep their type.
LEMMA FlagsStep ==
    FlagsTyped /\ [Next]_vars
      => FlagsTyped'
  <1> SUFFICES ASSUME FlagsTyped,
                      [Next]_vars
               PROVE  FlagsTyped'
    OBVIOUS
  <1> USE DEF FlagsTyped
  <1>1. CASE SubmitTurn      BY <1>1, Zenon DEF SubmitTurn, Claim
  <1>2. CASE RequestAutofill BY <1>2, Zenon DEF RequestAutofill, Claim
  <1>3. CASE AcquireMount    BY <1>3, Zenon DEF AcquireMount, Claim
  <1>4. CASE GenerateWorld   BY <1>4, Zenon DEF GenerateWorld, Claim
  <1>5. CASE CombatAction    BY <1>5, Zenon DEF CombatAction, Claim
  <1>6. CASE RollCheck       BY <1>6, Zenon DEF RollCheck
  <1>7. CASE CheckGmTool     BY <1>7, Zenon DEF CheckGmTool
  <1>8. CASE NewGame         BY <1>8, Zenon DEF NewGame, SwitchGame
  <1>9. CASE LoadSave        BY <1>9, Zenon DEF LoadSave, SwitchGame
  <1>10. CASE SetModel       BY <1>10, Zenon DEF SetModel, ChangeSetting
  <1>11. CASE SetApiKey      BY <1>11, Zenon DEF SetApiKey, ChangeSetting
  <1>12. CASE CancelTurn     BY <1>12, Zenon DEF CancelTurn
  <1>13. CASE WaitIdle       BY <1>13, Zenon DEF WaitIdle
  <1>14. CASE SetStop        BY <1>14, Zenon DEF SetStop
  <1>15. CASE Enqueue        BY <1>15, Zenon DEF Enqueue
  <1>16. CASE NotifyWorker   BY <1>16, Zenon DEF NotifyWorker, Woken
  <1>17. CASE SaveRoll       BY <1>17, Zenon DEF SaveRoll
  <1>18. CASE ClaimResolution BY <1>18, Zenon DEF ClaimResolution
  <1>19. CASE ApplyGmTool    BY <1>19, Zenon DEF ApplyGmTool, ToolEffect
  <1>20. CASE RecheckIdle    BY <1>20, Zenon DEF RecheckIdle
  <1>21. CASE CancelForClose BY <1>21, Zenon DEF CancelForClose
  <1>22. CASE NotifyClose    BY <1>22, Zenon DEF NotifyClose, Woken
  <1>23. CASE Join           BY <1>23, Zenon DEF Join
  <1>24. CASE WorkerSleep    BY <1>24, Zenon DEF WorkerSleep
  <1>25. CASE WorkerExit     BY <1>25, Zenon DEF WorkerExit
  <1>26. CASE Dequeue        BY <1>26, Zenon DEF Dequeue
  <1>27. CASE ResetCancel    BY <1>27, Zenon DEF ResetCancel, Goto
  <1>28. CASE StartRequest   BY <1>28, Zenon DEF StartRequest, Goto
  <1>29. CASE TakeReload     BY <1>29, Zenon DEF TakeReload, Goto
  <1>30. CASE ReuseAgent     BY <1>30, Zenon DEF ReuseAgent, Goto
  <1>31. CASE BuildClient    BY <1>31, Zenon DEF BuildClient, Goto
  <1>32. CASE FrameAgent     BY <1>32, Zenon DEF FrameAgent, Goto
  <1>33. CASE GiveUpNoKey    BY <1>33, Zenon DEF GiveUpNoKey, Goto
  <1>34. CASE ModelReply     BY <1>34, Zenon DEF ModelReply
  <1>35. CASE DispatchTool   BY <1>35, Zenon DEF DispatchTool, ToolEffect
  <1>36. CASE CommitTurn     BY <1>36, Zenon DEF CommitTurn, Goto
  <1>37. CASE PickMount      BY <1>37, Zenon DEF PickMount
  <1>38. CASE StructuredCall BY <1>38, Zenon DEF StructuredCall, Goto
  <1>39. CASE PlayerPhase    BY <1>39, Zenon DEF PlayerPhase
  <1>40. CASE EnemyPhase     BY <1>40, Zenon DEF EnemyPhase
  <1>41. CASE SeedOutcome    BY <1>41, Zenon DEF SeedOutcome, Goto
  <1>42. CASE FinishRequest  BY <1>42, Zenon DEF FinishRequest, Goto
  <1>43. CASE WorkerSave     BY <1>43, Zenon DEF WorkerSave, Goto
  <1>44. CASE NotifyIdle     BY <1>44, Zenon DEF NotifyIdle, Goto
  <1>45. CASE Closed         BY <1>45, Zenon DEF Closed
  <1>46. CASE UNCHANGED vars BY <1>46, Zenon
  <1> QED
    BY <1>1, <1>2, <1>3, <1>4, <1>5, <1>6, <1>7, <1>8, <1>9, <1>10, <1>11, <1>12, <1>13,
       <1>14, <1>15, <1>16, <1>17, <1>18, <1>19, <1>20, <1>21, <1>22, <1>23, <1>24,
       <1>25, <1>26, <1>27, <1>28, <1>29, <1>30, <1>31, <1>32, <1>33, <1>34, <1>35,
       <1>36, <1>37, <1>38, <1>39, <1>40, <1>41, <1>42, <1>43, <1>44, <1>45, <1>46 DEF
       Next, UiCall, UiContinue, WorkerStep

\* The other variables keep theirs.
LEMMA DataStep ==
    DataTyped /\ [Next]_vars
      => DataTyped'
  <1> SUFFICES ASSUME DataTyped,
                      [Next]_vars
               PROVE  DataTyped'
    OBVIOUS
  <1> USE ConstantsAssumption DEF DataTyped, Jobs, UiPc, WorkerPc, Running
  <1>1. CASE SubmitTurn      BY <1>1 DEF SubmitTurn, Claim
  <1>2. CASE RequestAutofill BY <1>2 DEF RequestAutofill, Claim
  <1>3. CASE AcquireMount    BY <1>3 DEF AcquireMount, Claim
  <1>4. CASE GenerateWorld   BY <1>4 DEF GenerateWorld, Claim
  <1>5. CASE CombatAction    BY <1>5 DEF CombatAction, Claim
  <1>6. CASE RollCheck       BY <1>6 DEF RollCheck
  <1>7. CASE CheckGmTool     BY <1>7 DEF CheckGmTool
  <1>8. CASE NewGame         BY <1>8 DEF NewGame, SwitchGame
  <1>9. CASE LoadSave        BY <1>9 DEF LoadSave, SwitchGame
  <1>10. CASE SetModel       BY <1>10 DEF SetModel, ChangeSetting
  <1>11. CASE SetApiKey      BY <1>11 DEF SetApiKey, ChangeSetting
  <1>12. CASE CancelTurn     BY <1>12 DEF CancelTurn
  <1>13. CASE WaitIdle       BY <1>13 DEF WaitIdle
  <1>14. CASE SetStop        BY <1>14 DEF SetStop
  <1>15. CASE Enqueue        BY <1>15 DEF Enqueue
  <1>16. CASE NotifyWorker   BY <1>16 DEF NotifyWorker, Woken
  <1>17. CASE SaveRoll       BY <1>17 DEF SaveRoll
  <1>18. CASE ClaimResolution BY <1>18 DEF ClaimResolution
  <1>19. CASE ApplyGmTool    BY <1>19 DEF ApplyGmTool, ToolEffect
  <1>20. CASE RecheckIdle    BY <1>20 DEF RecheckIdle
  <1>21. CASE CancelForClose BY <1>21 DEF CancelForClose
  <1>22. CASE NotifyClose    BY <1>22 DEF NotifyClose, Woken
  <1>23. CASE Join           BY <1>23 DEF Join
  <1>24. CASE WorkerSleep    BY <1>24 DEF WorkerSleep
  <1>25. CASE WorkerExit     BY <1>25 DEF WorkerExit
  <1>26. CASE Dequeue        BY <1>26 DEF Dequeue
  <1>27. CASE ResetCancel    BY <1>27 DEF ResetCancel, Goto
  <1>28. CASE StartRequest   BY <1>28 DEF StartRequest, Goto
  <1>29. CASE TakeReload     BY <1>29 DEF TakeReload, Goto
  <1>30. CASE ReuseAgent     BY <1>30 DEF ReuseAgent, Goto
  <1>31. CASE BuildClient    BY <1>31 DEF BuildClient, Goto
  <1>32. CASE FrameAgent     BY <1>32 DEF FrameAgent, Goto
  <1>33. CASE GiveUpNoKey    BY <1>33 DEF GiveUpNoKey, Goto
  <1>34. CASE ModelReply     BY <1>34 DEF ModelReply
  <1>35. CASE DispatchTool   BY <1>35 DEF DispatchTool, ToolEffect
  <1>36. CASE CommitTurn     BY <1>36 DEF CommitTurn, Goto
  <1>37. CASE PickMount      BY <1>37 DEF PickMount
  <1>38. CASE StructuredCall BY <1>38 DEF StructuredCall, Goto
  <1>39. CASE PlayerPhase    BY <1>39 DEF PlayerPhase
  <1>40. CASE EnemyPhase     BY <1>40 DEF EnemyPhase
  <1>41. CASE SeedOutcome    BY <1>41 DEF SeedOutcome, Goto
  <1>42. CASE FinishRequest  BY <1>42 DEF FinishRequest, Goto
  <1>43. CASE WorkerSave     BY <1>43 DEF WorkerSave, Goto
  <1>44. CASE NotifyIdle     BY <1>44 DEF NotifyIdle, Goto
  <1>45. CASE Closed         BY <1>45 DEF Closed
  <1>46. CASE UNCHANGED vars BY <1>46
  <1> QED
    BY <1>1, <1>2, <1>3, <1>4, <1>5, <1>6, <1>7, <1>8, <1>9, <1>10, <1>11, <1>12, <1>13,
       <1>14, <1>15, <1>16, <1>17, <1>18, <1>19, <1>20, <1>21, <1>22, <1>23, <1>24,
       <1>25, <1>26, <1>27, <1>28, <1>29, <1>30, <1>31, <1>32, <1>33, <1>34, <1>35,
       <1>36, <1>37, <1>38, <1>39, <1>40, <1>41, <1>42, <1>43, <1>44, <1>45, <1>46 DEF
       Next, UiCall, UiContinue, WorkerStep

\* A job moves from the call to the slot to the worker and is never copied;
\* taking the flag untested is safe because the UI thread alone takes it.
LEMMA OneJobStep ==
    OneJob /\ CheckedFlagHolds /\ [Next]_vars
      => (OneJob /\ CheckedFlagHolds)'
  <1> SUFFICES ASSUME OneJob, CheckedFlagHolds,
                      [Next]_vars
               PROVE  (OneJob /\ CheckedFlagHolds)'
    OBVIOUS
  <1> USE DEF OneJob, CheckedFlagHolds,
             InCall, InSlot, InService, Running
  <1>1. CASE SubmitTurn      BY <1>1 DEF SubmitTurn, Claim
  <1>2. CASE RequestAutofill BY <1>2 DEF RequestAutofill, Claim
  <1>3. CASE AcquireMount    BY <1>3 DEF AcquireMount, Claim
  <1>4. CASE GenerateWorld   BY <1>4 DEF GenerateWorld, Claim
  <1>5. CASE CombatAction    BY <1>5 DEF CombatAction, Claim
  <1>6. CASE RollCheck       BY <1>6 DEF RollCheck
  <1>7. CASE CheckGmTool     BY <1>7 DEF CheckGmTool
  <1>8. CASE NewGame         BY <1>8 DEF NewGame, SwitchGame
  <1>9. CASE LoadSave        BY <1>9 DEF LoadSave, SwitchGame
  <1>10. CASE SetModel       BY <1>10 DEF SetModel, ChangeSetting
  <1>11. CASE SetApiKey      BY <1>11 DEF SetApiKey, ChangeSetting
  <1>12. CASE CancelTurn     BY <1>12 DEF CancelTurn
  <1>13. CASE WaitIdle       BY <1>13 DEF WaitIdle
  <1>14. CASE SetStop        BY <1>14 DEF SetStop
  <1>15. CASE Enqueue        BY <1>15 DEF Enqueue
  <1>16. CASE NotifyWorker   BY <1>16 DEF NotifyWorker, Woken
  <1>17. CASE SaveRoll       BY <1>17 DEF SaveRoll
  <1>18. CASE ClaimResolution BY <1>18 DEF ClaimResolution
  <1>19. CASE ApplyGmTool    BY <1>19 DEF ApplyGmTool, ToolEffect
  <1>20. CASE RecheckIdle    BY <1>20 DEF RecheckIdle
  <1>21. CASE CancelForClose BY <1>21 DEF CancelForClose
  <1>22. CASE NotifyClose    BY <1>22 DEF NotifyClose, Woken
  <1>23. CASE Join           BY <1>23 DEF Join
  <1>24. CASE WorkerSleep    BY <1>24 DEF WorkerSleep
  <1>25. CASE WorkerExit     BY <1>25 DEF WorkerExit
  <1>26. CASE Dequeue        BY <1>26 DEF Dequeue
  <1>27. CASE ResetCancel    BY <1>27 DEF ResetCancel, Goto
  <1>28. CASE StartRequest   BY <1>28 DEF StartRequest, Goto
  <1>29. CASE TakeReload     BY <1>29 DEF TakeReload, Goto
  <1>30. CASE ReuseAgent     BY <1>30 DEF ReuseAgent, Goto
  <1>31. CASE BuildClient    BY <1>31 DEF BuildClient, Goto
  <1>32. CASE FrameAgent     BY <1>32 DEF FrameAgent, Goto
  <1>33. CASE GiveUpNoKey    BY <1>33 DEF GiveUpNoKey, Goto
  <1>34. CASE ModelReply     BY <1>34 DEF ModelReply
  <1>35. CASE DispatchTool   BY <1>35 DEF DispatchTool, ToolEffect
  <1>36. CASE CommitTurn     BY <1>36 DEF CommitTurn, Goto
  <1>37. CASE PickMount      BY <1>37 DEF PickMount
  <1>38. CASE StructuredCall BY <1>38 DEF StructuredCall, Goto
  <1>39. CASE PlayerPhase    BY <1>39 DEF PlayerPhase
  <1>40. CASE EnemyPhase     BY <1>40 DEF EnemyPhase
  <1>41. CASE SeedOutcome    BY <1>41 DEF SeedOutcome, Goto
  <1>42. CASE FinishRequest  BY <1>42 DEF FinishRequest, Goto
  <1>43. CASE WorkerSave     BY <1>43 DEF WorkerSave, Goto
  <1>44. CASE NotifyIdle     BY <1>44 DEF NotifyIdle, Goto
  <1>45. CASE Closed         BY <1>45 DEF Closed
  <1>46. CASE UNCHANGED vars BY <1>46
  <1> QED
    BY <1>1, <1>2, <1>3, <1>4, <1>5, <1>6, <1>7, <1>8, <1>9, <1>10, <1>11, <1>12, <1>13,
       <1>14, <1>15, <1>16, <1>17, <1>18, <1>19, <1>20, <1>21, <1>22, <1>23, <1>24,
       <1>25, <1>26, <1>27, <1>28, <1>29, <1>30, <1>31, <1>32, <1>33, <1>34, <1>35,
       <1>36, <1>37, <1>38, <1>39, <1>40, <1>41, <1>42, <1>43, <1>44, <1>45, <1>46 DEF
       Next, UiCall, UiContinue, WorkerStep

\* Between the reload and the turn nothing but the settings can change, and a
\* change of those sets the reload flag again.
LEMMA AgentStep ==
    AgentCurrent /\ AgentBeingBuilt /\ OneJob /\ CheckedFlagHolds /\ [Next]_vars
      => (AgentCurrent /\ AgentBeingBuilt)'
  <1> SUFFICES ASSUME AgentCurrent, AgentBeingBuilt, OneJob, CheckedFlagHolds,
                      [Next]_vars
               PROVE  (AgentCurrent /\ AgentBeingBuilt)'
    OBVIOUS
  <1> USE DEF AgentCurrent, AgentBeingBuilt, OneJob, CheckedFlagHolds,
             InCall, InSlot, InService, Running
  <1>1. CASE SubmitTurn      BY <1>1 DEF SubmitTurn, Claim
  <1>2. CASE RequestAutofill BY <1>2 DEF RequestAutofill, Claim
  <1>3. CASE AcquireMount    BY <1>3 DEF AcquireMount, Claim
  <1>4. CASE GenerateWorld   BY <1>4 DEF GenerateWorld, Claim
  <1>5. CASE CombatAction    BY <1>5 DEF CombatAction, Claim
  <1>6. CASE RollCheck       BY <1>6 DEF RollCheck
  <1>7. CASE CheckGmTool     BY <1>7 DEF CheckGmTool
  <1>8. CASE NewGame         BY <1>8 DEF NewGame, SwitchGame
  <1>9. CASE LoadSave        BY <1>9 DEF LoadSave, SwitchGame
  <1>10. CASE SetModel       BY <1>10 DEF SetModel, ChangeSetting
  <1>11. CASE SetApiKey      BY <1>11 DEF SetApiKey, ChangeSetting
  <1>12. CASE CancelTurn     BY <1>12 DEF CancelTurn
  <1>13. CASE WaitIdle       BY <1>13 DEF WaitIdle
  <1>14. CASE SetStop        BY <1>14 DEF SetStop
  <1>15. CASE Enqueue        BY <1>15 DEF Enqueue
  <1>16. CASE NotifyWorker   BY <1>16 DEF NotifyWorker, Woken
  <1>17. CASE SaveRoll       BY <1>17 DEF SaveRoll
  <1>18. CASE ClaimResolution BY <1>18 DEF ClaimResolution
  <1>19. CASE ApplyGmTool    BY <1>19 DEF ApplyGmTool, ToolEffect
  <1>20. CASE RecheckIdle    BY <1>20 DEF RecheckIdle
  <1>21. CASE CancelForClose BY <1>21 DEF CancelForClose
  <1>22. CASE NotifyClose    BY <1>22 DEF NotifyClose, Woken
  <1>23. CASE Join           BY <1>23 DEF Join
  <1>24. CASE WorkerSleep    BY <1>24 DEF WorkerSleep
  <1>25. CASE WorkerExit     BY <1>25 DEF WorkerExit
  <1>26. CASE Dequeue        BY <1>26 DEF Dequeue
  <1>27. CASE ResetCancel    BY <1>27 DEF ResetCancel, Goto
  <1>28. CASE StartRequest   BY <1>28 DEF StartRequest, Goto
  <1>29. CASE TakeReload     BY <1>29 DEF TakeReload, Goto
  <1>30. CASE ReuseAgent     BY <1>30 DEF ReuseAgent, Goto
  <1>31. CASE BuildClient    BY <1>31 DEF BuildClient, Goto
  <1>32. CASE FrameAgent     BY <1>32 DEF FrameAgent, Goto
  <1>33. CASE GiveUpNoKey    BY <1>33 DEF GiveUpNoKey, Goto
  <1>34. CASE ModelReply     BY <1>34 DEF ModelReply
  <1>35. CASE DispatchTool   BY <1>35 DEF DispatchTool, ToolEffect
  <1>36. CASE CommitTurn     BY <1>36 DEF CommitTurn, Goto
  <1>37. CASE PickMount      BY <1>37 DEF PickMount
  <1>38. CASE StructuredCall BY <1>38 DEF StructuredCall, Goto
  <1>39. CASE PlayerPhase    BY <1>39 DEF PlayerPhase
  <1>40. CASE EnemyPhase     BY <1>40 DEF EnemyPhase
  <1>41. CASE SeedOutcome    BY <1>41 DEF SeedOutcome, Goto
  <1>42. CASE FinishRequest  BY <1>42 DEF FinishRequest, Goto
  <1>43. CASE WorkerSave     BY <1>43 DEF WorkerSave, Goto
  <1>44. CASE NotifyIdle     BY <1>44 DEF NotifyIdle, Goto
  <1>45. CASE Closed         BY <1>45 DEF Closed
  <1>46. CASE UNCHANGED vars BY <1>46
  <1> QED
    BY <1>1, <1>2, <1>3, <1>4, <1>5, <1>6, <1>7, <1>8, <1>9, <1>10, <1>11, <1>12, <1>13,
       <1>14, <1>15, <1>16, <1>17, <1>18, <1>19, <1>20, <1>21, <1>22, <1>23, <1>24,
       <1>25, <1>26, <1>27, <1>28, <1>29, <1>30, <1>31, <1>32, <1>33, <1>34, <1>35,
       <1>36, <1>37, <1>38, <1>39, <1>40, <1>41, <1>42, <1>43, <1>44, <1>45, <1>46 DEF
       Next, UiCall, UiContinue, WorkerStep

\* Whoever makes a wait's predicate true still has the notification to send.
LEMMA WakeupStep ==
    NoLostWakeup /\ NoMissedIdle /\ [Next]_vars
      => (NoLostWakeup /\ NoMissedIdle)'
  <1> SUFFICES ASSUME NoLostWakeup, NoMissedIdle,
                      [Next]_vars
               PROVE  (NoLostWakeup /\ NoMissedIdle)'
    OBVIOUS
  <1> USE DEF NoLostWakeup, NoMissedIdle
  <1>1. CASE SubmitTurn      BY <1>1 DEF SubmitTurn, Claim
  <1>2. CASE RequestAutofill BY <1>2 DEF RequestAutofill, Claim
  <1>3. CASE AcquireMount    BY <1>3 DEF AcquireMount, Claim
  <1>4. CASE GenerateWorld   BY <1>4 DEF GenerateWorld, Claim
  <1>5. CASE CombatAction    BY <1>5 DEF CombatAction, Claim
  <1>6. CASE RollCheck       BY <1>6 DEF RollCheck
  <1>7. CASE CheckGmTool     BY <1>7 DEF CheckGmTool
  <1>8. CASE NewGame         BY <1>8 DEF NewGame, SwitchGame
  <1>9. CASE LoadSave        BY <1>9 DEF LoadSave, SwitchGame
  <1>10. CASE SetModel       BY <1>10 DEF SetModel, ChangeSetting
  <1>11. CASE SetApiKey      BY <1>11 DEF SetApiKey, ChangeSetting
  <1>12. CASE CancelTurn     BY <1>12 DEF CancelTurn
  <1>13. CASE WaitIdle       BY <1>13 DEF WaitIdle
  <1>14. CASE SetStop        BY <1>14 DEF SetStop
  <1>15. CASE Enqueue        BY <1>15 DEF Enqueue
  <1>16. CASE NotifyWorker   BY <1>16 DEF NotifyWorker, Woken
  <1>17. CASE SaveRoll       BY <1>17 DEF SaveRoll
  <1>18. CASE ClaimResolution BY <1>18 DEF ClaimResolution
  <1>19. CASE ApplyGmTool    BY <1>19 DEF ApplyGmTool, ToolEffect
  <1>20. CASE RecheckIdle    BY <1>20 DEF RecheckIdle
  <1>21. CASE CancelForClose BY <1>21 DEF CancelForClose
  <1>22. CASE NotifyClose    BY <1>22 DEF NotifyClose, Woken
  <1>23. CASE Join           BY <1>23 DEF Join
  <1>24. CASE WorkerSleep    BY <1>24 DEF WorkerSleep
  <1>25. CASE WorkerExit     BY <1>25 DEF WorkerExit
  <1>26. CASE Dequeue        BY <1>26 DEF Dequeue
  <1>27. CASE ResetCancel    BY <1>27 DEF ResetCancel, Goto
  <1>28. CASE StartRequest   BY <1>28 DEF StartRequest, Goto
  <1>29. CASE TakeReload     BY <1>29 DEF TakeReload, Goto
  <1>30. CASE ReuseAgent     BY <1>30 DEF ReuseAgent, Goto
  <1>31. CASE BuildClient    BY <1>31 DEF BuildClient, Goto
  <1>32. CASE FrameAgent     BY <1>32 DEF FrameAgent, Goto
  <1>33. CASE GiveUpNoKey    BY <1>33 DEF GiveUpNoKey, Goto
  <1>34. CASE ModelReply     BY <1>34 DEF ModelReply
  <1>35. CASE DispatchTool   BY <1>35 DEF DispatchTool, ToolEffect
  <1>36. CASE CommitTurn     BY <1>36 DEF CommitTurn, Goto
  <1>37. CASE PickMount      BY <1>37 DEF PickMount
  <1>38. CASE StructuredCall BY <1>38 DEF StructuredCall, Goto
  <1>39. CASE PlayerPhase    BY <1>39 DEF PlayerPhase
  <1>40. CASE EnemyPhase     BY <1>40 DEF EnemyPhase
  <1>41. CASE SeedOutcome    BY <1>41 DEF SeedOutcome, Goto
  <1>42. CASE FinishRequest  BY <1>42 DEF FinishRequest, Goto
  <1>43. CASE WorkerSave     BY <1>43 DEF WorkerSave, Goto
  <1>44. CASE NotifyIdle     BY <1>44 DEF NotifyIdle, Goto
  <1>45. CASE Closed         BY <1>45 DEF Closed
  <1>46. CASE UNCHANGED vars BY <1>46
  <1> QED
    BY <1>1, <1>2, <1>3, <1>4, <1>5, <1>6, <1>7, <1>8, <1>9, <1>10, <1>11, <1>12, <1>13,
       <1>14, <1>15, <1>16, <1>17, <1>18, <1>19, <1>20, <1>21, <1>22, <1>23, <1>24,
       <1>25, <1>26, <1>27, <1>28, <1>29, <1>30, <1>31, <1>32, <1>33, <1>34, <1>35,
       <1>36, <1>37, <1>38, <1>39, <1>40, <1>41, <1>42, <1>43, <1>44, <1>45, <1>46 DEF
       Next, UiCall, UiContinue, WorkerStep

\* Nobody ends the combat between the request and the job.
LEMMA CombatStep ==
    CombatRequested /\ OneJob /\ CheckedFlagHolds /\ [Next]_vars
      => CombatRequested'
  <1> SUFFICES ASSUME CombatRequested, OneJob, CheckedFlagHolds,
                      [Next]_vars
               PROVE  CombatRequested'
    OBVIOUS
  <1> USE DEF CombatRequested, OneJob, CheckedFlagHolds,
             InCall, InSlot, InService, Running
  <1>1. CASE SubmitTurn      BY <1>1 DEF SubmitTurn, Claim
  <1>2. CASE RequestAutofill BY <1>2 DEF RequestAutofill, Claim
  <1>3. CASE AcquireMount    BY <1>3 DEF AcquireMount, Claim
  <1>4. CASE GenerateWorld   BY <1>4 DEF GenerateWorld, Claim
  <1>5. CASE CombatAction    BY <1>5 DEF CombatAction, Claim
  <1>6. CASE RollCheck       BY <1>6 DEF RollCheck
  <1>7. CASE CheckGmTool     BY <1>7 DEF CheckGmTool
  <1>8. CASE NewGame         BY <1>8 DEF NewGame, SwitchGame
  <1>9. CASE LoadSave        BY <1>9 DEF LoadSave, SwitchGame
  <1>10. CASE SetModel       BY <1>10 DEF SetModel, ChangeSetting
  <1>11. CASE SetApiKey      BY <1>11 DEF SetApiKey, ChangeSetting
  <1>12. CASE CancelTurn     BY <1>12 DEF CancelTurn
  <1>13. CASE WaitIdle       BY <1>13 DEF WaitIdle
  <1>14. CASE SetStop        BY <1>14 DEF SetStop
  <1>15. CASE Enqueue        BY <1>15 DEF Enqueue
  <1>16. CASE NotifyWorker   BY <1>16 DEF NotifyWorker, Woken
  <1>17. CASE SaveRoll       BY <1>17 DEF SaveRoll
  <1>18. CASE ClaimResolution BY <1>18 DEF ClaimResolution
  <1>19. CASE ApplyGmTool    BY <1>19 DEF ApplyGmTool, ToolEffect
  <1>20. CASE RecheckIdle    BY <1>20 DEF RecheckIdle
  <1>21. CASE CancelForClose BY <1>21 DEF CancelForClose
  <1>22. CASE NotifyClose    BY <1>22 DEF NotifyClose, Woken
  <1>23. CASE Join           BY <1>23 DEF Join
  <1>24. CASE WorkerSleep    BY <1>24 DEF WorkerSleep
  <1>25. CASE WorkerExit     BY <1>25 DEF WorkerExit
  <1>26. CASE Dequeue        BY <1>26 DEF Dequeue
  <1>27. CASE ResetCancel    BY <1>27 DEF ResetCancel, Goto
  <1>28. CASE StartRequest   BY <1>28 DEF StartRequest, Goto
  <1>29. CASE TakeReload     BY <1>29 DEF TakeReload, Goto
  <1>30. CASE ReuseAgent     BY <1>30 DEF ReuseAgent, Goto
  <1>31. CASE BuildClient    BY <1>31 DEF BuildClient, Goto
  <1>32. CASE FrameAgent     BY <1>32 DEF FrameAgent, Goto
  <1>33. CASE GiveUpNoKey    BY <1>33 DEF GiveUpNoKey, Goto
  <1>34. CASE ModelReply     BY <1>34 DEF ModelReply
  <1>35. CASE DispatchTool   BY <1>35 DEF DispatchTool, ToolEffect
  <1>36. CASE CommitTurn     BY <1>36 DEF CommitTurn, Goto
  <1>37. CASE PickMount      BY <1>37 DEF PickMount
  <1>38. CASE StructuredCall BY <1>38 DEF StructuredCall, Goto
  <1>39. CASE PlayerPhase    BY <1>39 DEF PlayerPhase
  <1>40. CASE EnemyPhase     BY <1>40 DEF EnemyPhase
  <1>41. CASE SeedOutcome    BY <1>41 DEF SeedOutcome, Goto
  <1>42. CASE FinishRequest  BY <1>42 DEF FinishRequest, Goto
  <1>43. CASE WorkerSave     BY <1>43 DEF WorkerSave, Goto
  <1>44. CASE NotifyIdle     BY <1>44 DEF NotifyIdle, Goto
  <1>45. CASE Closed         BY <1>45 DEF Closed
  <1>46. CASE UNCHANGED vars BY <1>46
  <1> QED
    BY <1>1, <1>2, <1>3, <1>4, <1>5, <1>6, <1>7, <1>8, <1>9, <1>10, <1>11, <1>12, <1>13,
       <1>14, <1>15, <1>16, <1>17, <1>18, <1>19, <1>20, <1>21, <1>22, <1>23, <1>24,
       <1>25, <1>26, <1>27, <1>28, <1>29, <1>30, <1>31, <1>32, <1>33, <1>34, <1>35,
       <1>36, <1>37, <1>38, <1>39, <1>40, <1>41, <1>42, <1>43, <1>44, <1>45, <1>46 DEF
       Next, UiCall, UiContinue, WorkerStep

\* After the reset at its start, a job sees only cancels made for it.
LEMMA CancelStep ==
    NoStrayCancel /\ CancelMeant /\ FreshVerdict /\ OneJob /\ CheckedFlagHolds /\ [Next]_vars
      => (NoStrayCancel /\ CancelMeant /\ FreshVerdict)'
  <1> SUFFICES ASSUME NoStrayCancel, CancelMeant, FreshVerdict, OneJob, CheckedFlagHolds,
                      [Next]_vars
               PROVE  (NoStrayCancel /\ CancelMeant /\ FreshVerdict)'
    OBVIOUS
  <1> USE DEF NoStrayCancel, CancelMeant, FreshVerdict, OneJob, CheckedFlagHolds,
             InCall, InSlot, InService, Running
  <1>1. CASE SubmitTurn      BY <1>1 DEF SubmitTurn, Claim
  <1>2. CASE RequestAutofill BY <1>2 DEF RequestAutofill, Claim
  <1>3. CASE AcquireMount    BY <1>3 DEF AcquireMount, Claim
  <1>4. CASE GenerateWorld   BY <1>4 DEF GenerateWorld, Claim
  <1>5. CASE CombatAction    BY <1>5 DEF CombatAction, Claim
  <1>6. CASE RollCheck       BY <1>6 DEF RollCheck
  <1>7. CASE CheckGmTool     BY <1>7 DEF CheckGmTool
  <1>8. CASE NewGame         BY <1>8 DEF NewGame, SwitchGame
  <1>9. CASE LoadSave        BY <1>9 DEF LoadSave, SwitchGame
  <1>10. CASE SetModel       BY <1>10 DEF SetModel, ChangeSetting
  <1>11. CASE SetApiKey      BY <1>11 DEF SetApiKey, ChangeSetting
  <1>12. CASE CancelTurn     BY <1>12 DEF CancelTurn
  <1>13. CASE WaitIdle       BY <1>13 DEF WaitIdle
  <1>14. CASE SetStop        BY <1>14 DEF SetStop
  <1>15. CASE Enqueue        BY <1>15 DEF Enqueue
  <1>16. CASE NotifyWorker   BY <1>16 DEF NotifyWorker, Woken
  <1>17. CASE SaveRoll       BY <1>17 DEF SaveRoll
  <1>18. CASE ClaimResolution BY <1>18 DEF ClaimResolution
  <1>19. CASE ApplyGmTool    BY <1>19 DEF ApplyGmTool, ToolEffect
  <1>20. CASE RecheckIdle    BY <1>20 DEF RecheckIdle
  <1>21. CASE CancelForClose BY <1>21 DEF CancelForClose
  <1>22. CASE NotifyClose    BY <1>22 DEF NotifyClose, Woken
  <1>23. CASE Join           BY <1>23 DEF Join
  <1>24. CASE WorkerSleep    BY <1>24 DEF WorkerSleep
  <1>25. CASE WorkerExit     BY <1>25 DEF WorkerExit
  <1>26. CASE Dequeue        BY <1>26 DEF Dequeue
  <1>27. CASE ResetCancel    BY <1>27 DEF ResetCancel, Goto
  <1>28. CASE StartRequest   BY <1>28 DEF StartRequest, Goto
  <1>29. CASE TakeReload     BY <1>29 DEF TakeReload, Goto
  <1>30. CASE ReuseAgent     BY <1>30 DEF ReuseAgent, Goto
  <1>31. CASE BuildClient    BY <1>31 DEF BuildClient, Goto
  <1>32. CASE FrameAgent     BY <1>32 DEF FrameAgent, Goto
  <1>33. CASE GiveUpNoKey    BY <1>33 DEF GiveUpNoKey, Goto
  <1>34. CASE ModelReply     BY <1>34 DEF ModelReply
  <1>35. CASE DispatchTool   BY <1>35 DEF DispatchTool, ToolEffect
  <1>36. CASE CommitTurn     BY <1>36 DEF CommitTurn, Goto
  <1>37. CASE PickMount      BY <1>37 DEF PickMount
  <1>38. CASE StructuredCall BY <1>38 DEF StructuredCall, Goto
  <1>39. CASE PlayerPhase    BY <1>39 DEF PlayerPhase
  <1>40. CASE EnemyPhase     BY <1>40 DEF EnemyPhase
  <1>41. CASE SeedOutcome    BY <1>41 DEF SeedOutcome, Goto
  <1>42. CASE FinishRequest  BY <1>42 DEF FinishRequest, Goto
  <1>43. CASE WorkerSave     BY <1>43 DEF WorkerSave, Goto
  <1>44. CASE NotifyIdle     BY <1>44 DEF NotifyIdle, Goto
  <1>45. CASE Closed         BY <1>45 DEF Closed
  <1>46. CASE UNCHANGED vars BY <1>46
  <1> QED
    BY <1>1, <1>2, <1>3, <1>4, <1>5, <1>6, <1>7, <1>8, <1>9, <1>10, <1>11, <1>12, <1>13,
       <1>14, <1>15, <1>16, <1>17, <1>18, <1>19, <1>20, <1>21, <1>22, <1>23, <1>24,
       <1>25, <1>26, <1>27, <1>28, <1>29, <1>30, <1>31, <1>32, <1>33, <1>34, <1>35,
       <1>36, <1>37, <1>38, <1>39, <1>40, <1>41, <1>42, <1>43, <1>44, <1>45, <1>46 DEF
       Next, UiCall, UiContinue, WorkerStep

\* The resolution flag reaches the turn it was set for, and no other job.
LEMMA ResolutionStep ==
    ResolutionTracked /\ OneJob /\ CheckedFlagHolds /\ [Next]_vars
      => ResolutionTracked'
  <1> SUFFICES ASSUME ResolutionTracked, OneJob, CheckedFlagHolds,
                      [Next]_vars
               PROVE  ResolutionTracked'
    OBVIOUS
  <1> USE DEF ResolutionTracked, OneJob, CheckedFlagHolds,
             InCall, InSlot, InService, Running
  <1>1. CASE SubmitTurn      BY <1>1 DEF SubmitTurn, Claim
  <1>2. CASE RequestAutofill BY <1>2 DEF RequestAutofill, Claim
  <1>3. CASE AcquireMount    BY <1>3 DEF AcquireMount, Claim
  <1>4. CASE GenerateWorld   BY <1>4 DEF GenerateWorld, Claim
  <1>5. CASE CombatAction    BY <1>5 DEF CombatAction, Claim
  <1>6. CASE RollCheck       BY <1>6 DEF RollCheck
  <1>7. CASE CheckGmTool     BY <1>7 DEF CheckGmTool
  <1>8. CASE NewGame         BY <1>8 DEF NewGame, SwitchGame
  <1>9. CASE LoadSave        BY <1>9 DEF LoadSave, SwitchGame
  <1>10. CASE SetModel       BY <1>10 DEF SetModel, ChangeSetting
  <1>11. CASE SetApiKey      BY <1>11 DEF SetApiKey, ChangeSetting
  <1>12. CASE CancelTurn     BY <1>12 DEF CancelTurn
  <1>13. CASE WaitIdle       BY <1>13 DEF WaitIdle
  <1>14. CASE SetStop        BY <1>14 DEF SetStop
  <1>15. CASE Enqueue        BY <1>15 DEF Enqueue
  <1>16. CASE NotifyWorker   BY <1>16 DEF NotifyWorker, Woken
  <1>17. CASE SaveRoll       BY <1>17 DEF SaveRoll
  <1>18. CASE ClaimResolution BY <1>18 DEF ClaimResolution
  <1>19. CASE ApplyGmTool    BY <1>19 DEF ApplyGmTool, ToolEffect
  <1>20. CASE RecheckIdle    BY <1>20 DEF RecheckIdle
  <1>21. CASE CancelForClose BY <1>21 DEF CancelForClose
  <1>22. CASE NotifyClose    BY <1>22 DEF NotifyClose, Woken
  <1>23. CASE Join           BY <1>23 DEF Join
  <1>24. CASE WorkerSleep    BY <1>24 DEF WorkerSleep
  <1>25. CASE WorkerExit     BY <1>25 DEF WorkerExit
  <1>26. CASE Dequeue        BY <1>26 DEF Dequeue
  <1>27. CASE ResetCancel    BY <1>27 DEF ResetCancel, Goto
  <1>28. CASE StartRequest   BY <1>28 DEF StartRequest, Goto
  <1>29. CASE TakeReload     BY <1>29 DEF TakeReload, Goto
  <1>30. CASE ReuseAgent     BY <1>30 DEF ReuseAgent, Goto
  <1>31. CASE BuildClient    BY <1>31 DEF BuildClient, Goto
  <1>32. CASE FrameAgent     BY <1>32 DEF FrameAgent, Goto
  <1>33. CASE GiveUpNoKey    BY <1>33 DEF GiveUpNoKey, Goto
  <1>34. CASE ModelReply     BY <1>34 DEF ModelReply
  <1>35. CASE DispatchTool   BY <1>35 DEF DispatchTool, ToolEffect
  <1>36. CASE CommitTurn     BY <1>36 DEF CommitTurn, Goto
  <1>37. CASE PickMount      BY <1>37 DEF PickMount
  <1>38. CASE StructuredCall BY <1>38 DEF StructuredCall, Goto
  <1>39. CASE PlayerPhase    BY <1>39 DEF PlayerPhase
  <1>40. CASE EnemyPhase     BY <1>40 DEF EnemyPhase
  <1>41. CASE SeedOutcome    BY <1>41 DEF SeedOutcome, Goto
  <1>42. CASE FinishRequest  BY <1>42 DEF FinishRequest, Goto
  <1>43. CASE WorkerSave     BY <1>43 DEF WorkerSave, Goto
  <1>44. CASE NotifyIdle     BY <1>44 DEF NotifyIdle, Goto
  <1>45. CASE Closed         BY <1>45 DEF Closed
  <1>46. CASE UNCHANGED vars BY <1>46
  <1> QED
    BY <1>1, <1>2, <1>3, <1>4, <1>5, <1>6, <1>7, <1>8, <1>9, <1>10, <1>11, <1>12, <1>13,
       <1>14, <1>15, <1>16, <1>17, <1>18, <1>19, <1>20, <1>21, <1>22, <1>23, <1>24,
       <1>25, <1>26, <1>27, <1>28, <1>29, <1>30, <1>31, <1>32, <1>33, <1>34, <1>35,
       <1>36, <1>37, <1>38, <1>39, <1>40, <1>41, <1>42, <1>43, <1>44, <1>45, <1>46 DEF
       Next, UiCall, UiContinue, WorkerStep

-----------------------------------------------------------------------------
\* The initial state satisfies the invariant.
LEMMA InitInv == Init => IndInv
  <1> SUFFICES ASSUME Init PROVE IndInv
    OBVIOUS
  <1> USE DEF Init
  <1>1. FlagsTyped
    BY Zenon DEF FlagsTyped
  <1>2. DataTyped
    BY ConstantsAssumption DEF DataTyped, Jobs, UiPc, WorkerPc, Running
  <1>3. OneJob /\ CheckedFlagHolds
    BY DEF OneJob, CheckedFlagHolds, InCall, InSlot, InService, Running
  <1>4. AgentCurrent /\ AgentBeingBuilt /\ NoLostWakeup /\ NoMissedIdle /\ CombatRequested
    BY DEF AgentCurrent, AgentBeingBuilt, NoLostWakeup, NoMissedIdle, CombatRequested
  <1>5. NoStrayCancel /\ CancelMeant /\ FreshVerdict /\ ResolutionTracked
    BY DEF NoStrayCancel, CancelMeant, FreshVerdict, ResolutionTracked, InService, Running
  <1> QED
    BY <1>1, <1>2, <1>3, <1>4, <1>5 DEF IndInv, TypeOK

\* Every step preserves the invariant.
LEMMA NextInv == IndInv /\ [Next]_vars => IndInv'
  BY FlagsStep, DataStep, OneJobStep, AgentStep, WakeupStep, CombatStep, CancelStep,
     ResolutionStep DEF IndInv, TypeOK

\* The inductive invariant holds in every reachable state.
THEOREM Invariance == Spec => []IndInv
  BY InitInv, NextInv, PTL DEF Spec

-----------------------------------------------------------------------------
(* The properties that follow from the invariant.                          *)

\* Every variable of both threads keeps its type.
THEOREM TypeCorrect == Spec => []TypeOK
  BY Invariance, PTL DEF IndInv

\* turn_in_progress_ is set exactly while one job is outstanding, in one place.
THEOREM OneJobAtATime == Spec => []OneJob
  BY Invariance, PTL DEF IndInv

\* A method that tested the flag earlier still finds it clear when it acts.
THEOREM CheckedFlagStays == Spec => []CheckedFlagHolds
  BY Invariance, PTL DEF IndInv

\* A turn's agent is the active campaign's, and no settings change is forgotten.
THEOREM AgentStaysCurrent == Spec => []AgentCurrent
  BY Invariance, PTL DEF IndInv

\* Neither condition variable loses a notification that is needed.
THEOREM WakeupsArrive == Spec => [](NoLostWakeup /\ NoMissedIdle)
  BY Invariance, PTL DEF IndInv

\* A cancel ends only the turn it was meant for.
THEOREM CancelsAreMeant == Spec => []NoStrayCancel
  BY Invariance, PTL DEF IndInv

\* run_combat's own test of combat.active never fails.
THEOREM CombatIsFound == Spec => []CombatJobFindsCombat
  <1>1. IndInv => CombatJobFindsCombat
    BY DEF IndInv, CombatRequested, CombatJobFindsCombat, OneJob, InService, Running
  <1> QED
    BY <1>1, Invariance, PTL

-----------------------------------------------------------------------------
(* The action properties.                                                  *)

\* No step of the UI thread changes the game under a job.
LEMMA UiLeavesGame ==
    OneJob /\ CheckedFlagHolds /\ turnInProgress
      /\ (UiCall \/ UiContinue \/ Closed \/ UNCHANGED vars)
      => UNCHANGED gameVars
  <1> SUFFICES ASSUME OneJob, CheckedFlagHolds, turnInProgress,
                      UiCall \/ UiContinue \/ Closed \/ UNCHANGED vars
               PROVE  UNCHANGED gameVars
    OBVIOUS
  <1> USE DEF CheckedFlagHolds
  <1>1. CASE SubmitTurn      BY <1>1 DEF SubmitTurn, Claim
  <1>2. CASE RequestAutofill BY <1>2 DEF RequestAutofill, Claim
  <1>3. CASE AcquireMount    BY <1>3 DEF AcquireMount, Claim
  <1>4. CASE GenerateWorld   BY <1>4 DEF GenerateWorld, Claim
  <1>5. CASE CombatAction    BY <1>5 DEF CombatAction, Claim
  <1>6. CASE RollCheck       BY <1>6 DEF RollCheck
  <1>7. CASE CheckGmTool     BY <1>7 DEF CheckGmTool
  <1>8. CASE NewGame         BY <1>8 DEF NewGame, SwitchGame
  <1>9. CASE LoadSave        BY <1>9 DEF LoadSave, SwitchGame
  <1>10. CASE SetModel        BY <1>10 DEF SetModel, ChangeSetting
  <1>11. CASE SetApiKey       BY <1>11 DEF SetApiKey, ChangeSetting
  <1>12. CASE CancelTurn      BY <1>12 DEF CancelTurn
  <1>13. CASE WaitIdle        BY <1>13 DEF WaitIdle
  <1>14. CASE SetStop         BY <1>14 DEF SetStop
  <1>15. CASE Enqueue         BY <1>15 DEF Enqueue
  <1>16. CASE NotifyWorker    BY <1>16 DEF NotifyWorker, Woken
  <1>17. CASE SaveRoll        BY <1>17 DEF SaveRoll
  <1>18. CASE ClaimResolution BY <1>18 DEF ClaimResolution
  <1>19. CASE ApplyGmTool     BY <1>19 DEF ApplyGmTool, ToolEffect
  <1>20. CASE RecheckIdle     BY <1>20 DEF RecheckIdle
  <1>21. CASE CancelForClose  BY <1>21 DEF CancelForClose
  <1>22. CASE NotifyClose     BY <1>22 DEF NotifyClose, Woken
  <1>23. CASE Join            BY <1>23 DEF Join
  <1>24. CASE Closed          BY <1>24 DEF Closed
  <1>25. CASE UNCHANGED vars  BY <1>25
  <1> QED
    BY <1>1, <1>2, <1>3, <1>4, <1>5, <1>6, <1>7, <1>8, <1>9, <1>10, <1>11, <1>12,
       <1>13, <1>14, <1>15, <1>16, <1>17, <1>18, <1>19, <1>20, <1>21, <1>22, <1>23,
       <1>24, <1>25
       DEF UiCall, UiContinue

\* The worker changes the game it was given and does not switch to another.
LEMMA WorkerKeepsCampaign == WorkerStep => campaign' = campaign
  <1> SUFFICES ASSUME WorkerStep PROVE campaign' = campaign
    OBVIOUS
  <1>1. CASE WorkerSleep     BY <1>1 DEF WorkerSleep
  <1>2. CASE WorkerExit      BY <1>2 DEF WorkerExit
  <1>3. CASE Dequeue         BY <1>3 DEF Dequeue
  <1>4. CASE ResetCancel     BY <1>4 DEF ResetCancel, Goto
  <1>5. CASE StartRequest    BY <1>5 DEF StartRequest, Goto
  <1>6. CASE TakeReload      BY <1>6 DEF TakeReload, Goto
  <1>7. CASE ReuseAgent      BY <1>7 DEF ReuseAgent, Goto
  <1>8. CASE BuildClient     BY <1>8 DEF BuildClient, Goto
  <1>9. CASE FrameAgent      BY <1>9 DEF FrameAgent, Goto
  <1>10. CASE GiveUpNoKey     BY <1>10 DEF GiveUpNoKey, Goto
  <1>11. CASE ModelReply      BY <1>11 DEF ModelReply
  <1>12. CASE DispatchTool    BY <1>12 DEF DispatchTool, ToolEffect
  <1>13. CASE CommitTurn      BY <1>13 DEF CommitTurn, Goto
  <1>14. CASE PickMount       BY <1>14 DEF PickMount
  <1>15. CASE StructuredCall  BY <1>15 DEF StructuredCall, Goto
  <1>16. CASE PlayerPhase     BY <1>16 DEF PlayerPhase
  <1>17. CASE EnemyPhase      BY <1>17 DEF EnemyPhase
  <1>18. CASE SeedOutcome     BY <1>18 DEF SeedOutcome, Goto
  <1>19. CASE FinishRequest   BY <1>19 DEF FinishRequest, Goto
  <1>20. CASE WorkerSave      BY <1>20 DEF WorkerSave, Goto
  <1>21. CASE NotifyIdle      BY <1>21 DEF NotifyIdle, Goto
  <1> QED
    BY <1>1, <1>2, <1>3, <1>4, <1>5, <1>6, <1>7, <1>8, <1>9, <1>10, <1>11, <1>12,
       <1>13, <1>14, <1>15, <1>16, <1>17, <1>18, <1>19, <1>20, <1>21
       DEF WorkerStep

\* While a job is outstanding, only the worker changes the game.
THEOREM WorkerIsOnlyWriter == Spec => WorkerOwnsGame
  <1>1. IndInv /\ [Next]_vars =>
           [turnInProgress /\ gameVars' # gameVars => WorkerStep /\ UNCHANGED campaign]_vars
    BY UiLeavesGame, WorkerKeepsCampaign DEF IndInv, Next
  <1> QED
    BY <1>1, Invariance, PTL DEF Spec, WorkerOwnsGame

\* The step that ends a job drops a check exactly when the job resolves one.
LEMMA SuppressionStep ==
    FlagsTyped /\ ResolutionTracked /\ OneJob /\ [Next]_vars
      => (turnInProgress /\ ~turnInProgress' => skillCheck' = (skillCheck /\ ~resolution))
  <1> SUFFICES ASSUME FlagsTyped, ResolutionTracked, OneJob,
                      [Next]_vars
               PROVE  (turnInProgress /\ ~turnInProgress' => skillCheck' = (skillCheck /\ ~resolution))
    OBVIOUS
  <1> USE DEF FlagsTyped, ResolutionTracked, OneJob, InService, Running
  <1>1. CASE SubmitTurn      BY <1>1 DEF SubmitTurn, Claim
  <1>2. CASE RequestAutofill BY <1>2 DEF RequestAutofill, Claim
  <1>3. CASE AcquireMount    BY <1>3 DEF AcquireMount, Claim
  <1>4. CASE GenerateWorld   BY <1>4 DEF GenerateWorld, Claim
  <1>5. CASE CombatAction    BY <1>5 DEF CombatAction, Claim
  <1>6. CASE RollCheck       BY <1>6 DEF RollCheck
  <1>7. CASE CheckGmTool     BY <1>7 DEF CheckGmTool
  <1>8. CASE NewGame         BY <1>8 DEF NewGame, SwitchGame
  <1>9. CASE LoadSave        BY <1>9 DEF LoadSave, SwitchGame
  <1>10. CASE SetModel       BY <1>10 DEF SetModel, ChangeSetting
  <1>11. CASE SetApiKey      BY <1>11 DEF SetApiKey, ChangeSetting
  <1>12. CASE CancelTurn     BY <1>12 DEF CancelTurn
  <1>13. CASE WaitIdle       BY <1>13 DEF WaitIdle
  <1>14. CASE SetStop        BY <1>14 DEF SetStop
  <1>15. CASE Enqueue        BY <1>15 DEF Enqueue
  <1>16. CASE NotifyWorker   BY <1>16 DEF NotifyWorker, Woken
  <1>17. CASE SaveRoll       BY <1>17 DEF SaveRoll
  <1>18. CASE ClaimResolution BY <1>18 DEF ClaimResolution
  <1>19. CASE ApplyGmTool    BY <1>19 DEF ApplyGmTool, ToolEffect
  <1>20. CASE RecheckIdle    BY <1>20 DEF RecheckIdle
  <1>21. CASE CancelForClose BY <1>21 DEF CancelForClose
  <1>22. CASE NotifyClose    BY <1>22 DEF NotifyClose, Woken
  <1>23. CASE Join           BY <1>23 DEF Join
  <1>24. CASE WorkerSleep    BY <1>24 DEF WorkerSleep
  <1>25. CASE WorkerExit     BY <1>25 DEF WorkerExit
  <1>26. CASE Dequeue        BY <1>26 DEF Dequeue
  <1>27. CASE ResetCancel    BY <1>27 DEF ResetCancel, Goto
  <1>28. CASE StartRequest   BY <1>28 DEF StartRequest, Goto
  <1>29. CASE TakeReload     BY <1>29 DEF TakeReload, Goto
  <1>30. CASE ReuseAgent     BY <1>30 DEF ReuseAgent, Goto
  <1>31. CASE BuildClient    BY <1>31 DEF BuildClient, Goto
  <1>32. CASE FrameAgent     BY <1>32 DEF FrameAgent, Goto
  <1>33. CASE GiveUpNoKey    BY <1>33 DEF GiveUpNoKey, Goto
  <1>34. CASE ModelReply     BY <1>34 DEF ModelReply
  <1>35. CASE DispatchTool   BY <1>35 DEF DispatchTool, ToolEffect
  <1>36. CASE CommitTurn     BY <1>36 DEF CommitTurn, Goto
  <1>37. CASE PickMount      BY <1>37 DEF PickMount
  <1>38. CASE StructuredCall BY <1>38 DEF StructuredCall, Goto
  <1>39. CASE PlayerPhase    BY <1>39 DEF PlayerPhase
  <1>40. CASE EnemyPhase     BY <1>40 DEF EnemyPhase
  <1>41. CASE SeedOutcome    BY <1>41 DEF SeedOutcome, Goto
  <1>42. CASE FinishRequest  BY <1>42 DEF FinishRequest, Goto
  <1>43. CASE WorkerSave     BY <1>43 DEF WorkerSave, Goto
  <1>44. CASE NotifyIdle     BY <1>44 DEF NotifyIdle, Goto
  <1>45. CASE Closed         BY <1>45 DEF Closed
  <1>46. CASE UNCHANGED vars BY <1>46
  <1> QED
    BY <1>1, <1>2, <1>3, <1>4, <1>5, <1>6, <1>7, <1>8, <1>9, <1>10, <1>11, <1>12, <1>13,
       <1>14, <1>15, <1>16, <1>17, <1>18, <1>19, <1>20, <1>21, <1>22, <1>23, <1>24,
       <1>25, <1>26, <1>27, <1>28, <1>29, <1>30, <1>31, <1>32, <1>33, <1>34, <1>35,
       <1>36, <1>37, <1>38, <1>39, <1>40, <1>41, <1>42, <1>43, <1>44, <1>45, <1>46 DEF
       Next, UiCall, UiContinue, WorkerStep

\* The turn that narrates a resolved check leaves none armed, and only that one.
THEOREM ChecksAreSuppressed == Spec => CheckSuppression
  <1>1. IndInv /\ [Next]_vars =>
           [turnInProgress /\ ~turnInProgress' =>
              skillCheck' = (skillCheck /\ ~resolution)]_vars
    BY SuppressionStep DEF IndInv, TypeOK
  <1> QED
    BY <1>1, Invariance, PTL DEF Spec, CheckSuppression

-----------------------------------------------------------------------------
(* The refinement.                                                         *)

\* Claiming maps to Accept, the dequeue to Start, clearing the flag to Finish,
\* the worker's exit to Close, and every other step to a stutter.
LEMMA GateStep ==
    DataTyped /\ OneJob /\ CheckedFlagHolds /\ [Next]_vars
      => [Gate!GateNext]_(Gate!gateVars)
  <1> SUFFICES ASSUME DataTyped, OneJob, CheckedFlagHolds,
                      [Next]_vars
               PROVE  [Gate!GateNext]_(Gate!gateVars)
    OBVIOUS
  <1> USE DEF DataTyped, GatePhase, GateCurrent, OneJob, CheckedFlagHolds,
             InCall, InSlot, InService, Running,
             Gate!GateNext, Gate!gateVars, Gate!Accept, Gate!Start, Gate!Finish, Gate!Close
  <1>1. CASE SubmitTurn      BY <1>1 DEF SubmitTurn, Claim, Jobs
  <1>2. CASE RequestAutofill BY <1>2 DEF RequestAutofill, Claim, Jobs
  <1>3. CASE AcquireMount    BY <1>3 DEF AcquireMount, Claim, Jobs
  <1>4. CASE GenerateWorld   BY <1>4 DEF GenerateWorld, Claim, Jobs
  <1>5. CASE CombatAction    BY <1>5 DEF CombatAction, Claim, Jobs
  <1>6. CASE RollCheck       BY <1>6 DEF RollCheck
  <1>7. CASE CheckGmTool     BY <1>7 DEF CheckGmTool
  <1>8. CASE NewGame         BY <1>8 DEF NewGame, SwitchGame
  <1>9. CASE LoadSave        BY <1>9 DEF LoadSave, SwitchGame
  <1>10. CASE SetModel       BY <1>10 DEF SetModel, ChangeSetting
  <1>11. CASE SetApiKey      BY <1>11 DEF SetApiKey, ChangeSetting
  <1>12. CASE CancelTurn     BY <1>12 DEF CancelTurn
  <1>13. CASE WaitIdle       BY <1>13 DEF WaitIdle
  <1>14. CASE SetStop        BY <1>14 DEF SetStop
  <1>15. CASE Enqueue        BY <1>15 DEF Enqueue
  <1>16. CASE NotifyWorker   BY <1>16 DEF NotifyWorker, Woken
  <1>17. CASE SaveRoll       BY <1>17 DEF SaveRoll
  <1>18. CASE ClaimResolution BY <1>18 DEF ClaimResolution, Jobs
  <1>19. CASE ApplyGmTool    BY <1>19 DEF ApplyGmTool, ToolEffect
  <1>20. CASE RecheckIdle    BY <1>20 DEF RecheckIdle
  <1>21. CASE CancelForClose BY <1>21 DEF CancelForClose
  <1>22. CASE NotifyClose    BY <1>22 DEF NotifyClose, Woken
  <1>23. CASE Join           BY <1>23 DEF Join
  <1>24. CASE WorkerSleep    BY <1>24 DEF WorkerSleep
  <1>25. CASE WorkerExit     BY <1>25 DEF WorkerExit
  <1>26. CASE Dequeue        BY <1>26 DEF Dequeue
  <1>27. CASE ResetCancel    BY <1>27 DEF ResetCancel, Goto
  <1>28. CASE StartRequest   BY <1>28 DEF StartRequest, Goto
  <1>29. CASE TakeReload     BY <1>29 DEF TakeReload, Goto
  <1>30. CASE ReuseAgent     BY <1>30 DEF ReuseAgent, Goto
  <1>31. CASE BuildClient    BY <1>31 DEF BuildClient, Goto
  <1>32. CASE FrameAgent     BY <1>32 DEF FrameAgent, Goto
  <1>33. CASE GiveUpNoKey    BY <1>33 DEF GiveUpNoKey, Goto
  <1>34. CASE ModelReply     BY <1>34 DEF ModelReply
  <1>35. CASE DispatchTool   BY <1>35 DEF DispatchTool, ToolEffect
  <1>36. CASE CommitTurn     BY <1>36 DEF CommitTurn, Goto
  <1>37. CASE PickMount      BY <1>37 DEF PickMount
  <1>38. CASE StructuredCall BY <1>38 DEF StructuredCall, Goto
  <1>39. CASE PlayerPhase    BY <1>39 DEF PlayerPhase
  <1>40. CASE EnemyPhase     BY <1>40 DEF EnemyPhase
  <1>41. CASE SeedOutcome    BY <1>41 DEF SeedOutcome, Goto
  <1>42. CASE FinishRequest  BY <1>42 DEF FinishRequest, Goto
  <1>43. CASE WorkerSave     BY <1>43 DEF WorkerSave, Goto
  <1>44. CASE NotifyIdle     BY <1>44 DEF NotifyIdle, Goto
  <1>45. CASE Closed         BY <1>45 DEF Closed
  <1>46. CASE UNCHANGED vars BY <1>46
  <1> QED
    BY <1>1, <1>2, <1>3, <1>4, <1>5, <1>6, <1>7, <1>8, <1>9, <1>10, <1>11, <1>12, <1>13,
       <1>14, <1>15, <1>16, <1>17, <1>18, <1>19, <1>20, <1>21, <1>22, <1>23, <1>24,
       <1>25, <1>26, <1>27, <1>28, <1>29, <1>30, <1>31, <1>32, <1>33, <1>34, <1>35,
       <1>36, <1>37, <1>38, <1>39, <1>40, <1>41, <1>42, <1>43, <1>44, <1>45, <1>46 DEF
       Next, UiCall, UiContinue, WorkerStep

\* The two threads implement the one-job gate.
THEOREM Refinement == Spec => ImplementsGate
  <1>1. Init => Gate!GateInit
    BY DEF Init, Gate!GateInit, GatePhase, GateCurrent
  <1>2. IndInv /\ [Next]_vars => [Gate!GateNext]_(Gate!gateVars)
    BY GateStep DEF IndInv, TypeOK
  <1> QED
    BY <1>1, <1>2, Invariance, PTL DEF Spec, ImplementsGate, Gate!GateSpec
=============================================================================
