----------------------------- MODULE EngineTurns ----------------------------
(***************************************************************************)
(* The two threads of oce::Engine (engine/src/engine.cpp).                 *)
(*                                                                         *)
(* The UI thread calls the public methods, one at a time; the worker owns  *)
(* the agent and runs one job at a time.  An action is one critical        *)
(* section of a method (or one unlocked write of a shared field), so every *)
(* interleaving the two mutexes allow is a behaviour of this module.       *)
(* turn_in_progress_ is what keeps the UI thread's methods away from the   *)
(* game state while a job runs: methods test it, release the mutex, and    *)
(* some of them act on the answer in a later critical section.             *)
(*                                                                         *)
(* A method whose early return is taken changes nothing and is no action.  *)
(* Of the game state the module keeps what the control flow reads: the     *)
(* active campaign, whether a skill check is armed and whether combat is   *)
(* active.  The store (save, load) is the subject of SaveProtocol.         *)
(***************************************************************************)
EXTENDS Naturals

CONSTANTS Campaigns,      \* campaign ids a game can be framed for
          Settings,       \* values of (base URL, model, API key)
          NoCampaign,     \* "no agent has been built"
          NoSetting,      \* "no client has been built"
          NoJob,
          MaxIterations   \* oce_agent's iteration limit for one run

ASSUME ConstantsAssumption ==
    /\ Campaigns # {} /\ NoCampaign \notin Campaigns
    /\ Settings # {} /\ NoSetting \notin Settings
    /\ MaxIterations \in Nat \ {0}
    /\ NoJob \notin {"turn", "worldgen", "autofill", "combat", "mount"}

\* worker_main's Job enumeration.
Jobs == {"turn", "worldgen", "autofill", "combat", "mount"}

VARIABLES
    \* guarded by state_mutex_
    turnInProgress,
    reloadAgent,      \* the agent must be rebuilt before the next turn
    resolvingCheck,   \* the next turn narrates a check just resolved
    skillCheck,       \* state_.skill_check.active
    combatActive,     \* state_.combat.active
    campaign,         \* campaign_id_ (with the state_ that belongs to it)
    setting,          \* base_url_, model_ and the stored API key
    keyUsable,        \* oce_secrets_get would return a key that fits
    \* guarded by turn_mutex_
    hasJob,           \* the has_*_ flags that are set
    stop,
    \* written by both threads without a lock
    cancelFlag,
    \* owned by the worker thread
    llm,              \* the settings the live client was built from
    agent,            \* the campaign the live agent was framed for
    wpc, job, iter, verdict, resolvingTurn,
    \* the UI thread: the call in progress and the job it claimed
    upc, ujob,
    \* history, read by properties only
    asked,            \* cancel_turn was called since the last job was claimed
    resolution,       \* the last claimed job continues a resolved skill check
    outcome           \* what became of the last combat's outcome message

gameVars   == <<skillCheck, combatActive, campaign>>
flagVars   == <<turnInProgress, reloadAgent, resolvingCheck>>
configVars == <<setting, keyUsable>>
queueVars  == <<hasJob, stop>>
agentVars  == <<llm, agent>>
workerVars == <<wpc, job, iter, verdict, resolvingTurn>>
uiVars     == <<upc, ujob>>
ghostVars  == <<asked, resolution, outcome>>
vars == <<gameVars, flagVars, configVars, queueVars, cancelFlag, agentVars,
          workerVars, uiVars, ghostVars>>

\* Where the worker is while a job owns the game state.
Running == {"start", "reload", "ensure", "nokey", "frame", "chat", "tools",
            "commit", "pick", "call", "player", "enemies", "seed", "finish"}

UiPc == {"idle", "enqueue", "notify", "rsave", "rclaim", "tool", "waiting", "recheck",
         "closeCancel", "closeNotify", "join", "closed"}

WorkerPc == Running \cup {"check", "asleep", "save", "idleNotify", "exit"}

-----------------------------------------------------------------------------
(* The constructor: the active campaign is resumed from the store, with    *)
(* whatever check or combat was saved; no agent is live.                   *)
Init ==
    /\ turnInProgress = FALSE /\ reloadAgent = FALSE /\ resolvingCheck = FALSE
    /\ skillCheck \in BOOLEAN /\ combatActive \in BOOLEAN
    /\ campaign \in Campaigns
    /\ setting \in Settings /\ keyUsable \in BOOLEAN
    /\ hasJob = {} /\ stop = FALSE /\ cancelFlag = FALSE
    /\ llm = NoSetting /\ agent = NoCampaign
    /\ wpc = "check" /\ job = NoJob /\ iter = 0 /\ verdict = "none"
    /\ resolvingTurn = FALSE
    /\ upc = "idle" /\ ujob = NoJob
    /\ asked = FALSE /\ resolution = FALSE /\ outcome = "none"

-----------------------------------------------------------------------------
(* UI thread: the methods that hand a job to the worker.                   *)

\* Mutant: the flag is taken without being tested.
ClaimUntested(j) ==
    /\ upc = "idle"
    /\ turnInProgress' = TRUE
    /\ upc' = "enqueue" /\ ujob' = j
    /\ asked' = FALSE /\ resolution' = FALSE
    /\ UNCHANGED <<gameVars, resolvingCheck, configVars, queueVars, cancelFlag,
                   agentVars, workerVars, outcome>>

\* The first critical section: test the flag, take it.
Claim(j) ==
    /\ upc = "idle"
    /\ ~turnInProgress
    /\ turnInProgress' = TRUE
    /\ upc' = "enqueue" /\ ujob' = j
    /\ asked' = FALSE /\ resolution' = FALSE
    /\ UNCHANGED <<gameVars, resolvingCheck, configVars, queueVars, cancelFlag,
                   agentVars, workerVars, outcome>>

SubmitTurn == Claim("turn") /\ UNCHANGED reloadAgent

RequestAutofill == Claim("autofill") /\ UNCHANGED reloadAgent

AcquireMount == Claim("mount") /\ UNCHANGED reloadAgent

\* A generated world starts a fresh conversation.
GenerateWorld == Claim("worldgen") /\ reloadAgent' = TRUE

\* combat_action and combat_use_item.
CombatAction == combatActive /\ Claim("combat") /\ UNCHANGED reloadAgent

\* The second critical section: publish the job to the worker.
Enqueue ==
    /\ upc = "enqueue"
    /\ hasJob' = hasJob \cup {ujob}
    /\ upc' = "notify"
    /\ UNCHANGED <<gameVars, flagVars, configVars, stop, cancelFlag, agentVars,
                   workerVars, ujob, ghostVars>>

\* A notification wakes a worker that waits and is lost otherwise.
Woken == IF wpc = "asleep" THEN "check" ELSE wpc

\* Mutant: the job is published without a notification.
NotifyNobody ==
    /\ upc = "notify"
    /\ upc' = "idle"
    /\ UNCHANGED <<gameVars, flagVars, configVars, queueVars, cancelFlag, agentVars,
                   workerVars, ujob, ghostVars>>

\* turn_cv_.notify_one() after the lock was released.
NotifyWorker ==
    /\ upc = "notify"
    /\ wpc' = Woken
    /\ upc' = "idle"
    /\ UNCHANGED <<gameVars, flagVars, configVars, queueVars, cancelFlag, agentVars,
                   job, iter, verdict, resolvingTurn, ujob, ghostVars>>

-----------------------------------------------------------------------------
(* UI thread: resolve_skill_check, in three sections with a save between.  *)

\* Mutant: a check is rolled while a turn runs.
RollCheckAnytime ==
    /\ upc = "idle"
    /\ skillCheck
    /\ skillCheck' = FALSE
    /\ upc' = "rsave"
    /\ UNCHANGED <<combatActive, campaign, flagVars, configVars, queueVars, cancelFlag,
                   agentVars, workerVars, ujob, ghostVars>>

RollCheck ==
    /\ upc = "idle"
    /\ ~turnInProgress /\ skillCheck
    /\ skillCheck' = FALSE
    /\ upc' = "rsave"
    /\ UNCHANGED <<combatActive, campaign, flagVars, configVars, queueVars, cancelFlag,
                   agentVars, workerVars, ujob, ghostVars>>

SaveRoll ==
    /\ upc = "rsave"
    /\ upc' = "rclaim"
    /\ UNCHANGED <<gameVars, flagVars, configVars, queueVars, cancelFlag, agentVars,
                   workerVars, ujob, ghostVars>>

\* The flag is taken without testing it again.
ClaimResolution ==
    /\ upc = "rclaim"
    /\ turnInProgress' = TRUE /\ resolvingCheck' = TRUE
    /\ upc' = "enqueue" /\ ujob' = "turn"
    /\ asked' = FALSE /\ resolution' = TRUE
    /\ UNCHANGED <<gameVars, reloadAgent, configVars, queueVars, cancelFlag, agentVars,
                   workerVars, outcome>>

-----------------------------------------------------------------------------
(* What a game-master tool does to the fields kept here: set_skill_check,  *)
(* start_combat, end_combat, or none of them.                              *)
ToolEffect ==
    \/ skillCheck' = TRUE /\ UNCHANGED combatActive
    \/ combatActive' = TRUE /\ UNCHANGED skillCheck
    \/ combatActive' = FALSE /\ UNCHANGED skillCheck
    \/ UNCHANGED <<skillCheck, combatActive>>

\* apply_gm_tool tests the flag in one critical section ...
CheckGmTool ==
    /\ upc = "idle"
    /\ ~turnInProgress
    /\ upc' = "tool"
    /\ UNCHANGED <<gameVars, flagVars, configVars, queueVars, cancelFlag, agentVars,
                   workerVars, ujob, ghostVars>>

\* ... and applies the tool in another.
ApplyGmTool ==
    /\ upc = "tool"
    /\ ToolEffect
    /\ upc' = "idle"
    /\ UNCHANGED <<campaign, flagVars, configVars, queueVars, cancelFlag, agentVars,
                   workerVars, ujob, ghostVars>>

-----------------------------------------------------------------------------
(* UI thread: methods that finish in one critical section.                 *)

\* Mutant: the game is replaced while a turn runs.
SwitchGameAnytime(c, check, fight) ==
    /\ upc = "idle"
    /\ campaign' = c /\ skillCheck' = check /\ combatActive' = fight
    /\ reloadAgent' = TRUE
    /\ outcome' = "none"
    /\ UNCHANGED <<turnInProgress, resolvingCheck, configVars, queueVars, cancelFlag,
                   agentVars, workerVars, uiVars, asked, resolution>>

\* Mutant: the live agent is kept.
SwitchGameQuietly(c, check, fight) ==
    /\ upc = "idle"
    /\ ~turnInProgress
    /\ campaign' = c /\ skillCheck' = check /\ combatActive' = fight
    /\ outcome' = "none"
    /\ UNCHANGED <<flagVars, configVars, queueVars, cancelFlag, agentVars, workerVars,
                   uiVars, asked, resolution>>

\* new_game, new_campaign and load_save replace the game; a loaded one may
\* hold an armed check or an active combat.
SwitchGame(c, check, fight) ==
    /\ upc = "idle"
    /\ ~turnInProgress
    /\ campaign' = c /\ skillCheck' = check /\ combatActive' = fight
    /\ reloadAgent' = TRUE
    /\ outcome' = "none"
    /\ UNCHANGED <<turnInProgress, resolvingCheck, configVars, queueVars, cancelFlag,
                   agentVars, workerVars, uiVars, asked, resolution>>

NewGame == \E c \in Campaigns : SwitchGame(c, FALSE, FALSE)

LoadSave == \E c \in Campaigns, check, fight \in BOOLEAN : SwitchGame(c, check, fight)

\* set_model, set_base_url and set_api_key are accepted while a job runs.
ChangeSetting(s, usable) ==
    /\ upc = "idle"
    /\ setting' = s /\ keyUsable' = usable
    /\ reloadAgent' = TRUE
    /\ UNCHANGED <<gameVars, turnInProgress, resolvingCheck, queueVars, cancelFlag,
                   agentVars, workerVars, uiVars, ghostVars>>

SetModel == \E s \in Settings : ChangeSetting(s, keyUsable)

\* A key too long for the buffer it is read into is stored and not usable.
SetApiKey == \E s \in Settings, usable \in BOOLEAN : ChangeSetting(s, usable)

CancelTurn ==
    /\ upc = "idle"
    /\ cancelFlag' = TRUE
    /\ asked' = TRUE
    /\ UNCHANGED <<gameVars, flagVars, configVars, queueVars, agentVars, workerVars,
                   uiVars, resolution, outcome>>

\* wait_idle: block while the flag is set, test it again when notified.
WaitIdle ==
    /\ upc = "idle"
    /\ turnInProgress
    /\ upc' = "waiting"
    /\ UNCHANGED <<gameVars, flagVars, configVars, queueVars, cancelFlag, agentVars,
                   workerVars, ujob, ghostVars>>

RecheckIdle ==
    /\ upc = "recheck"
    /\ upc' = IF turnInProgress THEN "waiting" ELSE "idle"
    /\ UNCHANGED <<gameVars, flagVars, configVars, queueVars, cancelFlag, agentVars,
                   workerVars, ujob, ghostVars>>

-----------------------------------------------------------------------------
(* UI thread: the destructor.                                              *)

SetStop ==
    /\ upc = "idle"
    /\ stop' = TRUE
    /\ upc' = "closeCancel"
    /\ UNCHANGED <<gameVars, flagVars, configVars, hasJob, cancelFlag, agentVars,
                   workerVars, ujob, ghostVars>>

CancelForClose ==
    /\ upc = "closeCancel"
    /\ cancelFlag' = TRUE
    /\ asked' = TRUE
    /\ upc' = "closeNotify"
    /\ UNCHANGED <<gameVars, flagVars, configVars, queueVars, agentVars, workerVars,
                   ujob, resolution, outcome>>

\* Mutant: the destructor joins without a notification.
CloseQuietly ==
    /\ upc = "closeNotify"
    /\ upc' = "join"
    /\ UNCHANGED <<gameVars, flagVars, configVars, queueVars, cancelFlag, agentVars,
                   workerVars, ujob, ghostVars>>

NotifyClose ==
    /\ upc = "closeNotify"
    /\ wpc' = Woken
    /\ upc' = "join"
    /\ UNCHANGED <<gameVars, flagVars, configVars, queueVars, cancelFlag, agentVars,
                   job, iter, verdict, resolvingTurn, ujob, ghostVars>>

\* The worker is joined, then its handles are freed.
Join ==
    /\ upc = "join" /\ wpc = "exit"
    /\ upc' = "closed"
    /\ agent' = NoCampaign /\ llm' = NoSetting
    /\ UNCHANGED <<gameVars, flagVars, configVars, queueVars, cancelFlag,
                   workerVars, ujob, ghostVars>>

Closed == upc = "closed" /\ UNCHANGED vars

-----------------------------------------------------------------------------
(* Worker thread: worker_main's wait and dequeue, under turn_mutex_.       *)

\* The predicate is false: release the mutex and sleep, atomically.
WorkerSleep ==
    /\ wpc = "check"
    /\ hasJob = {} /\ ~stop
    /\ wpc' = "asleep"
    /\ UNCHANGED <<gameVars, flagVars, configVars, queueVars, cancelFlag, agentVars,
                   job, iter, verdict, resolvingTurn, uiVars, ghostVars>>

WorkerExit ==
    /\ wpc = "check" /\ stop
    /\ wpc' = "exit"
    /\ UNCHANGED <<gameVars, flagVars, configVars, queueVars, cancelFlag, agentVars,
                   job, iter, verdict, resolvingTurn, uiVars, ghostVars>>

\* The order in which the has_*_ flags are tested.
Priority == [combat |-> 1, mount |-> 2, worldgen |-> 3, autofill |-> 4, turn |-> 5]

Dequeue ==
    /\ wpc = "check" /\ ~stop
    /\ \E j \in hasJob :
        /\ \A k \in hasJob : Priority[j] <= Priority[k]
        /\ job' = j
        /\ hasJob' = hasJob \ {j}
    /\ wpc' = "start" /\ verdict' = "none" /\ iter' = 0 /\ resolvingTurn' = FALSE
    /\ UNCHANGED <<gameVars, flagVars, configVars, stop, cancelFlag, agentVars,
                   uiVars, ghostVars>>

\* A step of the worker that moves from one place to another.
Goto(from, to) == wpc = from /\ wpc' = to

\* Mutant: the flag of an earlier cancel is kept.
KeepCancel ==
    /\ job \in {"turn", "worldgen", "combat"}
    /\ Goto("start", IF job = "combat" THEN "player" ELSE "reload")
    /\ UNCHANGED <<gameVars, flagVars, configVars, queueVars, cancelFlag, agentVars,
                   job, iter, verdict, resolvingTurn, uiVars, ghostVars>>

\* run_turn, run_worldgen and run_combat clear the cancel flag first.
ResetCancel ==
    /\ job \in {"turn", "worldgen", "combat"}
    /\ Goto("start", IF job = "combat" THEN "player" ELSE "reload")
    /\ cancelFlag' = FALSE
    /\ UNCHANGED <<gameVars, flagVars, configVars, queueVars, agentVars,
                   job, iter, verdict, resolvingTurn, uiVars, ghostVars>>

\* run_autofill and run_acquire_mount do not.
StartRequest ==
    /\ job \in {"autofill", "mount"}
    /\ Goto("start", IF job = "mount" THEN "pick" ELSE "call")
    /\ UNCHANGED <<gameVars, flagVars, configVars, queueVars, cancelFlag, agentVars,
                   job, iter, verdict, resolvingTurn, uiVars, ghostVars>>

-----------------------------------------------------------------------------
(* Worker thread: run_turn and run_worldgen.                               *)

\* Mutant: resolving_check_ is read and not cleared.
TakeReloadOnly ==
    /\ Goto("reload", "ensure")
    /\ reloadAgent' = FALSE
    /\ resolvingTurn' = (job = "turn" /\ resolvingCheck)
    /\ IF reloadAgent
       THEN /\ agent' = NoCampaign /\ llm' = NoSetting
            /\ outcome' = IF outcome = "seeded" THEN "lost" ELSE outcome
       ELSE UNCHANGED <<agentVars, outcome>>
    /\ UNCHANGED <<gameVars, turnInProgress, resolvingCheck, configVars, queueVars,
                   cancelFlag, job, iter, verdict, uiVars, asked, resolution>>

\* Take the reload and (in a turn) the resolution flag; drop the old agent.
TakeReload ==
    /\ Goto("reload", "ensure")
    /\ reloadAgent' = FALSE
    /\ resolvingTurn' = (job = "turn" /\ resolvingCheck)
    /\ resolvingCheck' = (job # "turn" /\ resolvingCheck)
    /\ IF reloadAgent
       THEN /\ agent' = NoCampaign /\ llm' = NoSetting
            /\ outcome' = IF outcome = "seeded" THEN "lost" ELSE outcome
       ELSE UNCHANGED <<agentVars, outcome>>
    /\ UNCHANGED <<gameVars, turnInProgress, configVars, queueVars, cancelFlag,
                   job, iter, verdict, uiVars, asked, resolution>>

\* ensure_agent: a live agent is used as it is.
ReuseAgent ==
    /\ agent # NoCampaign
    /\ Goto("ensure", "chat")
    /\ UNCHANGED <<gameVars, flagVars, configVars, queueVars, cancelFlag, agentVars,
                   job, iter, verdict, resolvingTurn, uiVars, ghostVars>>

\* ensure_agent: without one, read key and settings and build a client.
BuildClient ==
    /\ agent = NoCampaign
    /\ Goto("ensure", IF keyUsable THEN "frame" ELSE "nokey")
    /\ llm' = IF keyUsable THEN setting ELSE llm
    /\ UNCHANGED <<gameVars, flagVars, configVars, queueVars, cancelFlag, agent,
                   job, iter, verdict, resolvingTurn, uiVars, ghostVars>>

\* ensure_agent: frame the prompt for the campaign and prime it with its story.
\* Two critical sections that read only state_, which the job owns.
FrameAgent ==
    /\ Goto("frame", "chat")
    /\ agent' = campaign
    /\ UNCHANGED <<gameVars, flagVars, configVars, queueVars, cancelFlag, llm,
                   job, iter, verdict, resolvingTurn, uiVars, ghostVars>>

\* ensure_agent failed: the job ends without a save.
GiveUpNoKey ==
    /\ Goto("nokey", "idleNotify")
    /\ turnInProgress' = FALSE
    /\ UNCHANGED <<gameVars, reloadAgent, resolvingCheck, configVars, queueVars,
                   cancelFlag, agentVars, job, iter, verdict, resolvingTurn, uiVars,
                   ghostVars>>

\* Mutant: the limit is off by one.
ModelReplyTooMany ==
    /\ wpc = "chat"
    /\ \/ /\ iter > MaxIterations
          /\ wpc' = "commit" /\ verdict' = "limit" /\ UNCHANGED iter
       \/ /\ iter <= MaxIterations
          /\ wpc' = "commit" /\ verdict' = "ok" /\ iter' = iter + 1
       \/ /\ iter <= MaxIterations /\ ~cancelFlag
          /\ wpc' = "tools" /\ iter' = iter + 1 /\ UNCHANGED verdict
    /\ UNCHANGED <<gameVars, flagVars, configVars, queueVars, cancelFlag, agentVars,
                   job, resolvingTurn, uiVars, ghostVars>>

\* One iteration of oce_agent_run: a chat call returned.  A set cancel flag
\* wins over whatever the model answered; reaching the limit ends the run.
ModelReply ==
    /\ wpc = "chat"
    /\ \/ /\ iter >= MaxIterations
          /\ wpc' = "commit" /\ verdict' = "limit" /\ UNCHANGED iter
       \/ /\ iter < MaxIterations /\ cancelFlag
          /\ wpc' = "commit" /\ verdict' = "cancelled" /\ iter' = iter + 1
       \/ /\ iter < MaxIterations /\ ~cancelFlag
          /\ wpc' = "commit" /\ verdict' \in {"ok", "error"} /\ iter' = iter + 1
       \/ /\ iter < MaxIterations /\ ~cancelFlag
          /\ wpc' = "tools" /\ iter' = iter + 1 /\ UNCHANGED verdict
    /\ UNCHANGED <<gameVars, flagVars, configVars, queueVars, cancelFlag, agentVars,
                   job, resolvingTurn, uiVars, ghostVars>>

\* A tool call is dispatched; the iteration has more calls, ends in a
\* terminal tool, or goes back to the model.
DispatchTool ==
    /\ wpc = "tools"
    /\ ToolEffect
    /\ \/ wpc' \in {"tools", "chat"} /\ UNCHANGED verdict
       \/ wpc' = "commit" /\ verdict' = "ok"
    /\ UNCHANGED <<campaign, flagVars, configVars, queueVars, cancelFlag, agentVars,
                   job, iter, resolvingTurn, uiVars, ghostVars>>

\* The final critical section: narration, income, the skill-check backstop,
\* and the flag.  The game master has now seen the outcome it was seeded.
CommitTurn ==
    /\ Goto("commit", "save")
    /\ skillCheck' = (skillCheck /\ ~resolvingTurn)
    /\ turnInProgress' = FALSE
    /\ outcome' = "none"
    /\ UNCHANGED <<combatActive, campaign, reloadAgent, resolvingCheck, configVars,
                   queueVars, cancelFlag, agentVars, job, iter, verdict, resolvingTurn,
                   uiVars, asked, resolution>>

-----------------------------------------------------------------------------
(* Worker thread: run_acquire_mount, run_autofill and run_combat.          *)

\* Mutant: the flag is cleared before the model is asked.
PickMountEarly ==
    /\ wpc = "pick"
    /\ wpc' \in {"call", "idleNotify"}
    /\ turnInProgress' = FALSE
    /\ UNCHANGED <<gameVars, reloadAgent, resolvingCheck, configVars, queueVars,
                   cancelFlag, agentVars, job, iter, verdict, resolvingTurn, uiVars,
                   ghostVars>>

\* The roster for this world may be empty: the job ends without a save.
PickMount ==
    /\ wpc = "pick"
    /\ \/ /\ wpc' = "call" /\ UNCHANGED turnInProgress
       \/ /\ wpc' = "idleNotify" /\ turnInProgress' = FALSE
    /\ UNCHANGED <<gameVars, reloadAgent, resolvingCheck, configVars, queueVars,
                   cancelFlag, agentVars, job, iter, verdict, resolvingTurn, uiVars,
                   ghostVars>>

\* structured_call: one model call by a transient agent.  A set flag aborts it.
StructuredCall ==
    /\ Goto("call", IF job = "combat" THEN "enemies" ELSE "finish")
    /\ verdict' \in IF ~keyUsable THEN {"error"}
                    ELSE IF cancelFlag THEN {"cancelled"} ELSE {"ok", "error"}
    /\ UNCHANGED <<gameVars, flagVars, configVars, queueVars, cancelFlag, agentVars,
                   job, iter, resolvingTurn, uiVars, ghostVars>>

\* The player's half of a combat turn; it may end the combat.
PlayerPhase ==
    /\ wpc = "player"
    /\ IF ~combatActive
       THEN wpc' = "idleNotify" /\ turnInProgress' = FALSE /\ UNCHANGED combatActive
       ELSE /\ UNCHANGED turnInProgress
            /\ \/ wpc' = "seed" /\ combatActive' = FALSE
               \/ wpc' = "call" /\ UNCHANGED combatActive
    /\ UNCHANGED <<skillCheck, campaign, reloadAgent, resolvingCheck, configVars,
                   queueVars, cancelFlag, agentVars, job, iter, verdict, resolvingTurn,
                   uiVars, ghostVars>>

EnemyPhase ==
    /\ wpc = "enemies"
    /\ \/ wpc' = "seed" /\ combatActive' = FALSE
       \/ wpc' = "finish" /\ UNCHANGED combatActive
    /\ UNCHANGED <<skillCheck, campaign, flagVars, configVars, queueVars, cancelFlag,
                   agentVars, job, iter, verdict, resolvingTurn, uiVars, ghostVars>>

\* seed_combat_outcome: nothing is done without a live agent.
SeedOutcome ==
    /\ Goto("seed", "finish")
    /\ outcome' = IF agent # NoCampaign THEN "seeded" ELSE "lost"
    /\ UNCHANGED <<gameVars, flagVars, configVars, queueVars, cancelFlag, agentVars,
                   job, iter, verdict, resolvingTurn, uiVars, asked, resolution>>

\* The last critical section of these jobs; autofill does not save.
FinishRequest ==
    /\ Goto("finish", IF job = "autofill" THEN "idleNotify" ELSE "save")
    /\ turnInProgress' = FALSE
    /\ UNCHANGED <<gameVars, reloadAgent, resolvingCheck, configVars, queueVars,
                   cancelFlag, agentVars, job, iter, verdict, resolvingTurn, uiVars,
                   ghostVars>>

\* save() by the worker, after the flag was cleared.
WorkerSave ==
    /\ Goto("save", "idleNotify")
    /\ UNCHANGED <<gameVars, flagVars, configVars, queueVars, cancelFlag, agentVars,
                   job, iter, verdict, resolvingTurn, uiVars, ghostVars>>

\* Mutant: wait_idle's callers are not notified.
SkipNotifyIdle ==
    /\ Goto("idleNotify", "check")
    /\ job' = NoJob
    /\ UNCHANGED <<gameVars, flagVars, configVars, queueVars, cancelFlag, agentVars,
                   iter, verdict, resolvingTurn, uiVars, ghostVars>>

\* idle_cv_.notify_all(), then back to the dequeue loop.
NotifyIdle ==
    /\ Goto("idleNotify", "check")
    /\ job' = NoJob
    /\ upc' = IF upc = "waiting" THEN "recheck" ELSE upc
    /\ UNCHANGED <<gameVars, flagVars, configVars, queueVars, cancelFlag, agentVars,
                   iter, verdict, resolvingTurn, ujob, ghostVars>>

-----------------------------------------------------------------------------
\* A new call of the player's, which nothing obliges the player to make.
UiCall ==
    \/ SubmitTurn \/ RequestAutofill \/ AcquireMount \/ GenerateWorld \/ CombatAction
    \/ RollCheck \/ CheckGmTool \/ NewGame \/ LoadSave \/ SetModel \/ SetApiKey
    \/ CancelTurn \/ WaitIdle \/ SetStop

\* The rest of a call that has begun.
UiContinue ==
    \/ Enqueue \/ NotifyWorker \/ SaveRoll \/ ClaimResolution \/ ApplyGmTool
    \/ RecheckIdle \/ CancelForClose \/ NotifyClose \/ Join

WorkerStep ==
    \/ WorkerSleep \/ WorkerExit \/ Dequeue \/ ResetCancel \/ StartRequest
    \/ TakeReload \/ ReuseAgent \/ BuildClient \/ FrameAgent \/ GiveUpNoKey
    \/ ModelReply \/ DispatchTool \/ CommitTurn
    \/ PickMount \/ StructuredCall \/ PlayerPhase \/ EnemyPhase \/ SeedOutcome
    \/ FinishRequest \/ WorkerSave \/ NotifyIdle

Next == UiCall \/ UiContinue \/ WorkerStep \/ Closed

Spec == Init /\ [][Next]_vars

(* Both threads are scheduled: a call that began runs on, and so does the  *)
(* worker.  An iteration holds finitely many tool calls (16 at most), so   *)
(* the worker does not stay in "tools" for ever: the step that leaves it   *)
(* is fair on its own.  The player's calls are not fair.                   *)
LeaveTools == DispatchTool /\ wpc' # "tools"

Fairness == WF_vars(UiContinue) /\ WF_vars(WorkerStep) /\ WF_vars(LeaveTools)

FairSpec == Spec /\ Fairness

-----------------------------------------------------------------------------
(* Properties.                                                             *)

FlagsTyped ==
    /\ turnInProgress \in BOOLEAN /\ reloadAgent \in BOOLEAN /\ resolvingCheck \in BOOLEAN
    /\ skillCheck \in BOOLEAN /\ combatActive \in BOOLEAN /\ keyUsable \in BOOLEAN
    /\ stop \in BOOLEAN /\ cancelFlag \in BOOLEAN /\ resolvingTurn \in BOOLEAN
    /\ asked \in BOOLEAN /\ resolution \in BOOLEAN

DataTyped ==
    /\ campaign \in Campaigns /\ setting \in Settings
    /\ llm \in Settings \cup {NoSetting} /\ agent \in Campaigns \cup {NoCampaign}
    /\ hasJob \subseteq Jobs
    /\ upc \in UiPc /\ ujob \in Jobs \cup {NoJob}
    /\ upc = "enqueue" => ujob \in Jobs
    /\ wpc \in WorkerPc /\ job \in Jobs \cup {NoJob} /\ iter \in 0..MaxIterations
    /\ verdict \in {"none", "ok", "error", "cancelled", "limit"}
    /\ outcome \in {"none", "seeded", "lost"}

\* Every variable has its type.
TypeOK == FlagsTyped /\ DataTyped

\* The three places an outstanding job can be in.
InCall    == upc = "enqueue"
InSlot    == hasJob # {}
InService == wpc \in Running

\* turn_in_progress_ is set exactly while one job is outstanding, in one
\* place only: no job is lost, run twice or overtaken by another, although
\* resolve_skill_check takes the flag without testing it.
OneJob ==
    /\ turnInProgress <=> (InCall \/ InSlot \/ InService)
    /\ ~(InCall /\ InSlot) /\ ~(InCall /\ InService) /\ ~(InSlot /\ InService)
    /\ InSlot => hasJob = {ujob}
    /\ InService => job = ujob

\* A method that saw the flag clear and acts on it in a later critical section
\* (resolve_skill_check, apply_gm_tool) still finds it clear.
CheckedFlagHolds == upc \in {"rsave", "rclaim", "tool"} => ~turnInProgress

\* While a turn runs, its agent was framed for the active campaign, and a
\* change of model, URL or key that the client does not have is still
\* recorded for the next turn.
AgentCurrent ==
    /\ (wpc \in {"chat", "tools", "commit"}) => agent = campaign
    /\ agent # NoCampaign => (llm = setting \/ reloadAgent)
    /\ agent # NoCampaign => (agent = campaign \/ reloadAgent)

\* The worker does not sleep on a job or on the stop flag unless the
\* notification that will wake it is still to come.
NoLostWakeup ==
    wpc = "asleep" => \/ hasJob = {} /\ ~stop
                      \/ upc \in {"notify", "closeCancel", "closeNotify"}

\* A caller blocked in wait_idle will be notified.
NoMissedIdle == upc = "waiting" => (turnInProgress \/ wpc \in {"save", "idleNotify"})

\* A combat job finds the combat it was requested for still active.
CombatJobFindsCombat == (job = "combat" /\ wpc \in {"start", "player"}) => combatActive

\* A cancel ends only the turn it was meant for: a turn, a world generation or
\* a combat action that is cancelled was cancelled after it was requested.
NoStrayCancel ==
    (InService /\ job \in {"turn", "worldgen", "combat"} /\ verdict = "cancelled") => asked

\* The same for the two requests that do not clear the flag.
NoStrayCancelRequest ==
    (InService /\ job \in {"autofill", "mount"} /\ verdict = "cancelled") => asked

\* When the next turn is narrated, the game master has been told how the last
\* combat ended.  Not so: it is lost without a live agent, and when the agent it was
\* told is rebuilt before the next turn (engine.cpp:1312).
OutcomeReachesGameMaster == (wpc = "chat" /\ job = "turn") => outcome # "lost"

\* From the moment a job is claimed until it ends, only the worker's own steps
\* change the game, and they do not switch to another campaign.
WorkerOwnsGame ==
    [][turnInProgress /\ gameVars' # gameVars => WorkerStep /\ UNCHANGED campaign]_vars

\* The turn that narrates a resolved skill check leaves none armed; every
\* other job leaves an armed one armed.
CheckSuppression ==
    [][turnInProgress /\ ~turnInProgress' =>
        skillCheck' = (skillCheck /\ ~resolution)]_vars

\* The destructor returns.
ShutdownCompletes == stop ~> upc = "closed"

\* wait_idle returns.
WaitReturns == upc = "waiting" ~> upc = "idle"

-----------------------------------------------------------------------------
(* The engine implements the gate: a job is accepted where the flag is     *)
(* taken and finished where it is cleared, before the worker saves.        *)
GatePhase == IF wpc = "exit" THEN "closed"
             ELSE IF ~turnInProgress THEN "idle"
             ELSE IF InService THEN "running" ELSE "accepted"

GateCurrent == IF GatePhase = "running" THEN job
               ELSE IF GatePhase = "accepted" THEN ujob ELSE NoJob

Gate == INSTANCE TurnGate WITH phase <- GatePhase, current <- GateCurrent

\* Every behaviour of the two threads is one of the gate.
ImplementsGate == Gate!GateSpec

\* With both threads scheduled, the gate's own progress holds too.
ImplementsFairGate == Gate!FairGateSpec
=============================================================================
