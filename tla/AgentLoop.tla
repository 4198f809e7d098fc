----------------------------- MODULE AgentLoop ------------------------------
(***************************************************************************)
(* One game master (oce_agent, llm/agent) over several turns: the history  *)
(* it sends to the model, the loop of chat calls and tool dispatches, and  *)
(* what Engine::run_turn commits of it to the story.                       *)
(*                                                                         *)
(* Replies are numbered.  A text is the sequence of the numbers of the     *)
(* replies it is made of, so <<>> is the empty string and concatenation is *)
(* \o.  A reply streams its text first, in one piece here; its tool calls  *)
(* are handed over when the stream has ended.  The cancel flag may be set  *)
(* at any time.  How a turn reaches the worker is the subject of           *)
(* EngineTurns.                                                            *)
(***************************************************************************)
EXTENDS Naturals, Sequences, SequencesExt

CONSTANTS Tools, TerminalTools,
          MaxIterations,   \* chat calls of one run
          MaxCalls,        \* OCE_AGENT_MAX_TOOL_CALLS: the calls kept of a reply
          Window,          \* story entries a fresh agent is primed with
          MaxOffered,      \* bound on the calls a reply offers
          MaxTurns         \* bound on the turns

ASSUME AgentAssumption ==
    /\ TerminalTools \subseteq Tools
    /\ MaxIterations \in Nat \ {0} /\ MaxCalls \in Nat \ {0} /\ Window \in Nat
    /\ MaxOffered \in Nat /\ MaxTurns \in Nat

VARIABLES
    history,     \* the messages of the live agent, after the system prompt
    live,        \* is there an agent?
    story,       \* state_.story
    streamed,    \* streaming_text_
    cancel,
    pc, iter, verdict,
    text,        \* the current reply's text so far
    pending,     \* its tool calls still to be dispatched
    ended,       \* one of its calls was a terminal tool's
    reply, turn, \* replies and turns so far (they name texts and lines)
    first        \* history: the first reply of the turn

turnVars == <<turn, first>>
loopVars == <<iter, verdict, text, pending, ended, reply>>
vars == <<history, live, story, streamed, cancel, pc, loopVars, turnVars>>

\* Messages of the history and of the story.
Line(role, content) == [role |-> role, content |-> content, calls |-> <<>>]
Assistant(content, calls) == [role |-> "assistant", content |-> content, calls |-> calls]
ToolResult(call) == [role |-> "tool", content |-> <<>>, calls |-> <<call>>]
Entry(sender, content) == [sender |-> sender, content |-> content]

Init ==
    /\ history = <<>> /\ live = FALSE
    /\ story = <<>> /\ streamed = <<>>
    /\ cancel = FALSE
    /\ pc = "idle" /\ iter = 0 /\ verdict = "none"
    /\ text = <<>> /\ pending = <<>> /\ ended = FALSE
    /\ reply = 0 /\ turn = 0 /\ first = 1

-----------------------------------------------------------------------------
\* submit_turn: the player's line enters the story.
SubmitTurn ==
    /\ pc = "idle" /\ turn < MaxTurns
    /\ story' = Append(story, Entry("player", <<>>))
    /\ streamed' = <<>>
    /\ turn' = turn + 1 /\ first' = reply + 1
    /\ pc' = "start"
    /\ UNCHANGED <<history, live, cancel, loopVars>>

\* The game tells the player something between turns, such as what the holdings paid.
TellPlayer ==
    /\ pc = "idle" /\ turn < MaxTurns
    /\ story # <<>> => Last(story).sender # "system"   \* bound: one line at a time
    /\ story' = Append(story, Entry("system", <<>>))
    /\ UNCHANGED <<history, live, streamed, cancel, pc, loopVars, turnVars>>

CancelTurn ==
    /\ ~cancel
    /\ cancel' = TRUE
    /\ UNCHANGED <<history, live, story, streamed, pc, loopVars, turnVars>>

\* The end of a combat is told to a live agent.
SeedOutcome ==
    /\ pc = "idle" /\ live
    /\ history # <<>> /\ Last(history).role # "system"   \* bound: once between turns
    /\ history' = Append(history, Line("system", <<>>))
    /\ UNCHANGED <<live, story, streamed, cancel, pc, loopVars, turnVars>>

\* ensure_agent primes a fresh agent with the end of the story, the player's
\* new line included.
Role(sender) == CASE sender = "player" -> "user"
                  [] sender = "system" -> "system"
                  [] OTHER -> "assistant"
Primed == LET seen == SubSeq(story, IF Len(story) > Window THEN Len(story) - Window + 1 ELSE 1,
                             Len(story))
          IN [i \in 1..Len(seen) |-> Line(Role(seen[i].sender), seen[i].content)]

\* run_turn up to oce_agent_run's loop: the flag is cleared, the agent may have
\* to be built anew, and the turn's message is appended.
StartRun ==
    /\ pc = "start"
    /\ cancel' = FALSE
    /\ \E old \in {history, Primed} :
        /\ ~live => old = Primed
        /\ history' = Append(old, Line("user", <<>>))
    /\ live' = TRUE
    /\ iter' = 0 /\ verdict' = "none"
    /\ pc' = "chat"
    /\ UNCHANGED <<story, streamed, text, pending, ended, reply, turnVars>>

-----------------------------------------------------------------------------
(* oce_agent_run's loop.                                                   *)

EndRun(v) == verdict' = v /\ pc' = "commit"

\* The limit is tested before a chat call is made.
LimitReached ==
    /\ pc = "chat" /\ iter >= MaxIterations
    /\ EndRun("limit")
    /\ UNCHANGED <<history, live, story, streamed, cancel, iter, text, pending, ended,
                   reply, turnVars>>

BeginChat ==
    /\ pc = "chat" /\ iter < MaxIterations
    /\ iter' = iter + 1 /\ reply' = reply + 1
    /\ text' = <<>> /\ ended' = FALSE
    /\ pc' = "stream"
    /\ UNCHANGED <<history, live, story, streamed, cancel, verdict, pending, turnVars>>

\* A text delta: shown to the player as it comes, unless the flag is set.
StreamText ==
    /\ pc = "stream" /\ text = <<>> /\ ~cancel
    /\ text' = <<reply>>
    /\ streamed' = streamed \o <<reply>>
    /\ UNCHANGED <<history, live, story, cancel, pc, iter, verdict, pending, ended,
                   reply, turnVars>>

\* The chat call returns with the flag set: the reply is dropped.
ReplyCancelled ==
    /\ pc = "stream" /\ cancel
    /\ EndRun("cancelled")
    /\ UNCHANGED <<history, live, story, streamed, cancel, iter, text, pending, ended,
                   reply, turnVars>>

\* The call fails, before or after some text: the reply is dropped.
ReplyFailed ==
    /\ pc = "stream" /\ ~cancel
    /\ EndRun("error")
    /\ UNCHANGED <<history, live, story, streamed, cancel, iter, text, pending, ended,
                   reply, turnVars>>

\* agent_on_tool_call keeps the first calls of a reply.
Kept(offered) == SubSeq(offered, 1, IF Len(offered) < MaxCalls THEN Len(offered) ELSE MaxCalls)

\* Mutant: the history shows all offered calls, and only the kept ones are run.
ReplyDoneAllCalls ==
    /\ pc = "stream" /\ ~cancel
    /\ \E offered \in SeqOf(Tools, MaxOffered) :
        /\ history' = Append(history, Assistant(text, offered))
        /\ pending' = Kept(offered)
        /\ IF offered = <<>> THEN EndRun("ok") ELSE pc' = "dispatch" /\ UNCHANGED verdict
    /\ UNCHANGED <<live, story, streamed, cancel, iter, text, ended, reply, turnVars>>

\* A whole reply: it joins the history; without calls the run is over.
ReplyDone ==
    /\ pc = "stream" /\ ~cancel
    /\ \E offered \in SeqOf(Tools, MaxOffered) :
        LET calls == Kept(offered)
        IN /\ history' = Append(history, Assistant(text, calls))
           /\ pending' = calls
           /\ IF calls = <<>> THEN EndRun("ok") ELSE pc' = "dispatch" /\ UNCHANGED verdict
    /\ UNCHANGED <<live, story, streamed, cancel, iter, text, ended, reply, turnVars>>

\* Mutant: only the last call is tested for a terminal tool.
DispatchLastDecides ==
    /\ pc = "dispatch"
    /\ history' = Append(history, ToolResult(Head(pending)))
    /\ pending' = Tail(pending)
    /\ ended' = (Head(pending) \in TerminalTools)
    /\ IF pending' # <<>> THEN UNCHANGED <<pc, verdict>>
       ELSE IF ended' THEN EndRun("ok")
       ELSE pc' = "chat" /\ UNCHANGED verdict
    /\ UNCHANGED <<live, story, streamed, cancel, iter, text, reply, turnVars>>

\* The calls are dispatched in order whatever the flag says; then a terminal
\* tool ends the run, or the model is asked again.
DispatchTool ==
    /\ pc = "dispatch"
    /\ history' = Append(history, ToolResult(Head(pending)))
    /\ pending' = Tail(pending)
    /\ ended' = (ended \/ Head(pending) \in TerminalTools)
    /\ IF pending' # <<>> THEN UNCHANGED <<pc, verdict>>
       ELSE IF ended' THEN EndRun("ok")
       ELSE pc' = "chat" /\ UNCHANGED verdict
    /\ UNCHANGED <<live, story, streamed, cancel, iter, text, reply, turnVars>>

-----------------------------------------------------------------------------
\* Mutant: messages without text are passed over.
LastNonEmptyText ==
    LET said == {i \in DOMAIN history : history[i].role = "assistant" /\ history[i].content # <<>>}
    IN IF said = {} THEN <<>> ELSE history[Max(said)].content

\* oce_agent_last_text: the newest assistant message's text, of whatever turn.
LastText ==
    LET said == {i \in DOMAIN history : history[i].role = "assistant"}
    IN IF said = {} THEN <<>> ELSE history[Max(said)].content

\* What the turn adds to the story; nothing when it is empty.
Narration == IF LastText # <<>> THEN LastText ELSE streamed

\* Mutant: a turn without a narration returns early.
CommitNarrated ==
    /\ pc = "commit" /\ Narration # <<>>
    /\ story' = Append(story, Entry("narrator", Narration))
    /\ streamed' = <<>>
    /\ pc' = "idle"
    /\ UNCHANGED <<history, live, cancel, loopVars, turnVars>>

\* The narration, and a line of the game's when the holdings paid something.
CommitTurn ==
    /\ pc = "commit"
    /\ \E income \in {<<>>, <<Entry("system", <<>>)>>} :
        story' = (IF Narration = <<>> THEN story
                  ELSE Append(story, Entry("narrator", Narration))) \o income
    /\ streamed' = <<>>
    /\ pc' = "idle"
    /\ UNCHANGED <<history, live, cancel, loopVars, turnVars>>

Finished == pc = "idle" /\ turn = MaxTurns /\ UNCHANGED vars

Run == \/ StartRun \/ LimitReached \/ BeginChat \/ StreamText \/ ReplyCancelled
       \/ ReplyFailed \/ ReplyDone \/ DispatchTool \/ CommitTurn

Next == SubmitTurn \/ TellPlayer \/ CancelTurn \/ SeedOutcome \/ Run \/ Finished

Spec == Init /\ [][Next]_vars

\* The worker runs on, and a chat call returns: curl's timeouts bound it.
FairSpec == Spec /\ WF_vars(Run)

-----------------------------------------------------------------------------
(* Properties.                                                             *)

Messages == [role : {"user", "assistant", "system", "tool"},
             content : Seq(1..reply), calls : Seq(Tools)]

\* Every variable has its type.
TypeOK ==
    /\ history \in Seq(Messages) /\ live \in BOOLEAN
    /\ story \in Seq([sender : {"player", "narrator", "system"}, content : Seq(1..reply)])
    /\ streamed \in Seq(1..reply) /\ cancel \in BOOLEAN
    /\ pc \in {"idle", "start", "chat", "stream", "dispatch", "commit"}
    /\ iter \in 0..MaxIterations /\ verdict \in {"none", "ok", "error", "cancelled", "limit"}
    /\ text \in Seq(1..reply) /\ pending \in Seq(Tools) /\ ended \in BOOLEAN
    /\ reply \in Nat /\ turn \in 0..MaxTurns /\ first \in 1..(reply + 1)

\* The calls of the message at i that have no answer in its place behind it.
Answered(i, k) ==
    /\ i + k <= Len(history)
    /\ history[i + k].role = "tool" /\ history[i + k].calls = <<history[i].calls[k]>>

\* What a chat endpoint demands of a conversation: whenever the model is asked,
\* each call of each reply is answered once, in order, right behind the reply,
\* and there is no other answer.  Cancelled and failed replies, replies with
\* more calls than are kept and messages seeded between turns leave it intact.
CallsAnswered ==
    pc \in {"chat", "stream", "idle"} =>
        \A i \in 1..Len(history) :
            /\ history[i].role = "assistant" =>
                  \A k \in 1..Len(history[i].calls) : Answered(i, k)
            /\ history[i].role = "tool" =>
                  \E j \in 1..(i - 1) : /\ history[j].role = "assistant"
                                        /\ i - j <= Len(history[j].calls)

\* The messages of the turn's own run.
ThisRun(i) == \A j \in i..Len(history) : history[j].role \in {"assistant", "tool"}

\* Once a terminal tool has run, the model is not asked again in this turn.
TerminalToolEnds ==
    pc \in {"chat", "stream"} =>
        \A i \in 1..Len(history) :
            ThisRun(i) /\ history[i].role = "tool" => history[i].calls[1] \notin TerminalTools

\* A run that asked the model and was answered (it ended well, or at the limit)
\* is narrated with its own replies' text: the last reply's alone if it has
\* any, all that was streamed otherwise.
AnsweredTurnNarratesItself ==
    pc = "commit" /\ verdict \in {"ok", "limit"} =>
        /\ Narration \in {<<reply>>, streamed}
        /\ Range(Narration) \subseteq first..reply

\* The same for the turns that were cancelled or failed.
NarrationIsThisTurns ==
    pc = "commit" => Range(Narration) \subseteq first..reply

\* Every turn ends.
TurnsEnd == pc # "idle" ~> pc = "idle"
=============================================================================
