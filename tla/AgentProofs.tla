----------------------------- MODULE AgentProofs -----------------------------
(***************************************************************************)
(* What the game master's history is, for any tools, any limits and any    *)
(* number of turns, and what a reply of the model is, however it comes in: *)
(* theorems about AgentLoop and ReplyStream.                               *)
(*                                                                         *)
(* Each call of each reply is either answered in its place or still to be  *)
(* dispatched at that place (CallsInPlace); while calls are dispatched the *)
(* reply they belong to can be named (PendingBelongs); and once the model  *)
(* has answered, the last assistant message is this turn's (LastReply).    *)
(***************************************************************************)
EXTENDS AgentLoop, ReplyStream, SequenceTheorems, WellFoundedInduction, TLAPS

\* Each call is answered where it should be, or its turn is still to come.
CallsInPlace ==
    \A i \in 1..Len(history) : history[i].role = "assistant" =>
        \A k \in 1..Len(history[i].calls) :
            \/ Answered(i, k)
            \/ /\ pc = "dispatch" /\ i + k > Len(history)
               /\ i + Len(history[i].calls) = Len(history) + Len(pending)
               /\ pending[i + k - Len(history)] = history[i].calls[k]

\* An answer stands behind the reply it belongs to.
AnswersBelong ==
    \A i \in 1..Len(history) : history[i].role = "tool" =>
        \E j \in 1..(i - 1) : /\ history[j].role = "assistant"
                              /\ i - j <= Len(history[j].calls)

\* The calls still to be dispatched are the end of one reply's.
PendingBelongs ==
    pc = "dispatch" =>
        /\ pending # <<>>
        /\ \E p \in 1..Len(history) :
              /\ history[p].role = "assistant"
              /\ p + Len(history[p].calls) = Len(history) + Len(pending)

\* A terminal tool that ran in this turn is remembered until its reply is done.
TerminalRemembered ==
    pc \in {"chat", "stream", "dispatch"} =>
        \A i \in 1..Len(history) : ThisRun(i) /\ history[i].role = "tool" =>
            \/ history[i].calls[1] \notin TerminalTools
            \/ pc = "dispatch" /\ ended

\* A reply that is being streamed is this turn's and has its own text or none.
ReplyIsOwn == pc = "stream" => ~ended /\ first <= reply /\ text \in {<<>>, <<reply>>}

\* Once the model has answered, the newest assistant message is this turn's last reply.
Answering == \/ pc = "dispatch" \/ (pc = "chat" /\ iter > 0)
             \/ (pc = "commit" /\ verdict \in {"ok", "limit"})
LastReply ==
    Answering =>
        /\ first <= reply
        /\ \E p \in 1..Len(history) :
              /\ history[p].role = "assistant" /\ history[p].content \in {<<>>, <<reply>>}
              /\ \A j \in (p + 1)..Len(history) : history[j].role = "tool"

\* What was streamed is of this turn.
StreamedIsOwn == Range(streamed) \subseteq first..reply

AgentInv ==
    /\ TypeOK /\ CallsInPlace /\ AnswersBelong /\ PendingBelongs /\ TerminalRemembered
    /\ ReplyIsOwn /\ LastReply /\ StreamedIsOwn

-----------------------------------------------------------------------------
(* Sequences and messages.                                                 *)

\* A message more leaves the others where they are.
LEMMA OneMore ==
    ASSUME NEW S, NEW s \in Seq(S), NEW m \in S
    PROVE  /\ Append(s, m) \in Seq(S)
           /\ Len(Append(s, m)) = Len(s) + 1 /\ Len(s) \in Nat
           /\ \A i \in 1..Len(s) : Append(s, m)[i] = s[i]
           /\ Append(s, m)[Len(s) + 1] = m
OBVIOUS

\* A set of numbers that is not empty has a least one.
LEMMA LeastNumber ==
    ASSUME NEW T, T \subseteq Nat, T # {}
    PROVE  \E x \in T : \A y \in T : x <= y
<1> DEFINE R == {ss \in Nat \X Nat : ss[1] < ss[2]}
<1>1. IsWellFoundedOn(R, Nat)
  BY NatLessThanWellFounded DEF OpToRel
<1>2. \A x, y \in Nat : x < y => <<x, y>> \in R
  OBVIOUS
<1> HIDE DEF R
<1>3. PICK x \in T : \A y \in T : ~ (<<y, x>> \in R)
  BY <1>1, WFMin
<1>4. \A y \in T : ~(y < x) /\ y \in Nat /\ x \in Nat
  BY <1>2, <1>3
<1>5. \A y \in T : x <= y
  BY <1>4
<1> QED BY <1>5

\* A set of places in a sequence has a last one, which Max finds.
LEMMA LastPlace ==
    ASSUME NEW n \in Nat, NEW T, T \subseteq 1..n, T # {}
    PROVE  Max(T) \in T
<1> DEFINE U == {k \in Nat : n - k \in T}
<1>1. \A y \in T : n - y \in U
  <2> TAKE y \in T
  <2>1. n - (n - y) = y /\ n - y \in Nat
    OBVIOUS
  <2> QED BY <2>1
<1>2. PICK k \in U : \A j \in U : k <= j
  <2>1. U \subseteq Nat /\ U # {}
    BY <1>1
  <2> HIDE DEF U
  <2> QED BY <2>1, LeastNumber
<1>3. \A y \in T : n - k >= y
  <2> TAKE y \in T
  <2>1. k <= n - y /\ k \in Nat /\ y \in Nat
    BY <1>1, <1>2
  <2> QED BY <2>1
<1>4. n - k \in T
  BY <1>2
<1> QED BY <1>3, <1>4, Zenon DEF Max

\* The bounded sequences are sequences.
LEMMA BoundedAreSeq == ASSUME NEW S, NEW n \in Nat PROVE SeqOf(S, n) \subseteq Seq(S)
BY SeqDef DEF SeqOf

\* The bounds are numbers.
LEMMA LimitsAreNat == /\ MaxIterations \in Nat /\ 0 < MaxIterations /\ MaxCalls \in Nat
                      /\ Window \in Nat /\ MaxOffered \in Nat /\ MaxTurns \in Nat
BY AgentAssumption

\* The calls that are kept are calls.
LEMMA KeptAreCalls ==
    ASSUME NEW offered \in SeqOf(Tools, MaxOffered)
    PROVE  Kept(offered) \in Seq(Tools)
<1>1. offered \in Seq(Tools)
  BY BoundedAreSeq, LimitsAreNat
<1> DEFINE n == IF Len(offered) < MaxCalls THEN Len(offered) ELSE MaxCalls
<1>2. n \in Int /\ n <= Len(offered) /\ Len(offered) \in Nat
  BY <1>1, LimitsAreNat
<1>3. \A i \in 1..n : offered[i] \in Tools
  BY <1>1, <1>2
<1> HIDE DEF n
<1>4. SubSeq(offered, 1, n) \in Seq(Tools)
  BY <1>2, <1>3, SubSeqProperties
<1> QED BY <1>4 DEF Kept, n

\* A message's text is of replies so far, its calls are of tools.
LEMMA MessageTyped ==
    ASSUME TypeOK, NEW i \in 1..Len(history)
    PROVE  /\ history[i].content \in Seq(1..reply) /\ history[i].calls \in Seq(Tools)
           /\ Len(history[i].calls) \in Nat
<1>1. history[i] \in Messages
  BY ElementOfSeq DEF TypeOK
<1>2. history[i].content \in Seq(1..reply) /\ history[i].calls \in Seq(Tools)
  BY <1>1 DEF Messages
<1> QED BY <1>2

\* A text of replies so far is one of replies so far when there are more.
LEMMA TextsGrow ==
    ASSUME NEW n \in Nat, NEW m \in Nat, n <= m
    PROVE  \A s \in Seq(1..n) : s \in Seq(1..m)
<1>1. 1..n \subseteq 1..m
  OBVIOUS
<1> QED BY <1>1, SeqMonotonic

\* The tests on a message of the story that Primed turns into one of the history.
LEMMA PrimedIsPlain ==
    ASSUME TypeOK
    PROVE  /\ Primed \in Seq(Messages)
           /\ \A i \in 1..Len(Primed) : /\ Primed[i].role \in {"user", "assistant", "system"}
                                        /\ Primed[i].calls = <<>>
<1> DEFINE S == [sender : {"player", "narrator", "system"}, content : Seq(1..reply)]
           from == IF Len(story) > Window THEN Len(story) - Window + 1 ELSE 1
           seen == SubSeq(story, from, Len(story))
           line(i) == Line(Role(seen[i].sender), seen[i].content)
<1>1. story \in Seq(S) /\ Len(story) \in Nat
  BY DEF TypeOK
<1>2. from \in Int /\ from >= 1
  BY <1>1, LimitsAreNat
<1>3. \A i \in from..Len(story) : story[i] \in S
  <2> HIDE DEF S, from
  <2> QED BY <1>1, <1>2
<1>4. seen \in Seq(S)
  <2> HIDE DEF S, from
  <2> QED BY <1>1, <1>2, <1>3, SubSeqProperties
<1>5. \A i \in 1..Len(seen) : /\ line(i) \in Messages
                              /\ line(i).role \in {"user", "assistant", "system"}
                              /\ line(i).calls = <<>>
  <2> HIDE DEF seen
  <2> TAKE i \in 1..Len(seen)
  <2>1. seen[i] \in S
    <3> HIDE DEF S
    <3> QED BY <1>4
  <2>2. Role(seen[i].sender) \in {"user", "assistant", "system"} /\ seen[i].content \in Seq(1..reply)
    BY <2>1 DEF Role
  <2>3. <<>> \in Seq(Tools)
    OBVIOUS
  <2> QED BY <2>2, <2>3 DEF Messages, Line
<1>6. Primed = [i \in 1..Len(seen) |-> line(i)]
  BY DEF Primed
<1>7. Len(seen) \in Nat
  <2> HIDE DEF seen
  <2> QED BY <1>4
<1> HIDE DEF seen, line
<1>8. Primed \in [1..Len(seen) -> Messages]
  BY <1>5, <1>6
<1>9. Primed \in Seq(Messages)
  BY <1>7, <1>8, SeqDef
<1>10. Len(Primed) = Len(seen)
  BY <1>6, <1>7
<1> QED BY <1>5, <1>6, <1>9, <1>10

-----------------------------------------------------------------------------
(* The initial state and the steps outside the loop.                       *)

\* The program starts with no agent and nothing said.
LEMMA AgentInit == Init => AgentInv
<1> SUFFICES ASSUME Init PROVE AgentInv
    OBVIOUS
<1> USE DEF Init
<1>1. TypeOK
  <2>1. /\ history \in Seq(Messages) /\ pending \in Seq(Tools)
        /\ streamed \in Seq(1..reply) /\ text \in Seq(1..reply)
        /\ story \in Seq([sender : {"player", "narrator", "system"}, content : Seq(1..reply)])
    OBVIOUS
  <2>2. reply = 0 /\ first \in 1..(reply + 1) /\ 0 \in 0..MaxIterations /\ 0 \in 0..MaxTurns
    BY LimitsAreNat
  <2>3. /\ pc \in {"idle", "start", "chat", "stream", "dispatch", "commit"}
        /\ verdict \in {"none", "ok", "error", "cancelled", "limit"} /\ reply \in Nat
    OBVIOUS
  <2>4. iter \in 0..MaxIterations /\ turn \in 0..MaxTurns
    BY <2>2
  <2>5. live \in BOOLEAN /\ cancel \in BOOLEAN /\ ended \in BOOLEAN
    BY Zenon
  <2> QED BY <2>1, <2>2, <2>3, <2>4, <2>5, Zenon DEF TypeOK
<1>2. CallsInPlace /\ AnswersBelong /\ PendingBelongs /\ TerminalRemembered
  BY DEF CallsInPlace, AnswersBelong, PendingBelongs, TerminalRemembered
<1>3. ReplyIsOwn /\ LastReply /\ StreamedIsOwn
  BY DEF ReplyIsOwn, LastReply, Answering, StreamedIsOwn, Range
<1> QED BY <1>1, <1>2, <1>3 DEF AgentInv

\* What only speaks of the history stays while the history, the place in the loop
\* and the calls in hand stay.
LEMMA HistoryUntouched ==
    ASSUME CallsInPlace, AnswersBelong, UNCHANGED history, pc # "dispatch", pc' # "dispatch"
    PROVE  CallsInPlace' /\ AnswersBelong' /\ PendingBelongs'
BY DEF CallsInPlace, AnswersBelong, PendingBelongs, Answered

\* Texts and messages keep their types while no reply is taken back.
LEMMA TypesGrow ==
    ASSUME TypeOK, reply' \in Nat, reply <= reply'
    PROVE  /\ history \in Seq(Messages') /\ streamed \in Seq(1..reply')
           /\ text \in Seq(1..reply')
           /\ story \in Seq([sender : {"player", "narrator", "system"}, content : Seq(1..reply')])
<1>1. reply \in Nat
  BY DEF TypeOK
<1>2. \A s \in Seq(1..reply) : s \in Seq(1..reply')
  BY <1>1, TextsGrow
<1> DEFINE S == [sender : {"player", "narrator", "system"}, content : Seq(1..reply)]
           T == [sender : {"player", "narrator", "system"}, content : Seq(1..reply')]
<1>3. S \subseteq T
  BY <1>2
<1>4. Messages \subseteq Messages'
  BY <1>2 DEF Messages
<1>5. history \in Seq(Messages) /\ story \in Seq(S)
  BY DEF TypeOK
<1>6. story \in Seq(T)
  <2> HIDE DEF S, T
  <2> QED BY <1>3, <1>5, SeqMonotonic
<1>7. history \in Seq(Messages')
  BY <1>4, <1>5, SeqMonotonic
<1> QED BY <1>2, <1>6, <1>7 DEF TypeOK

\* The steps that change neither the history nor the replies keep the types.
LEMMA PlainTypes ==
    ASSUME TypeOK, UNCHANGED <<history, live, reply, text, pending>>,
           story' \in Seq([sender : {"player", "narrator", "system"}, content : Seq(1..reply)]),
           streamed' \in Seq(1..reply), cancel' \in BOOLEAN,
           pc' \in {"idle", "start", "chat", "stream", "dispatch", "commit"},
           iter' = iter, verdict' \in {"none", "ok", "error", "cancelled", "limit"},
           ended' = ended, turn' \in 0..MaxTurns, first' \in 1..(reply + 1)
    PROVE  TypeOK'
BY DEF TypeOK, Messages

\* A turn is submitted: nothing of it is streamed yet.
LEMMA SubmitStep ==
    ASSUME AgentInv, SubmitTurn
    PROVE  AgentInv'
<1> USE DEF AgentInv
<1>1. /\ UNCHANGED <<history, live, cancel, iter, verdict, text, pending, ended, reply>>
      /\ streamed' = <<>> /\ pc = "idle" /\ pc' = "start"
      /\ story' = Append(story, Entry("player", <<>>))
      /\ turn' = turn + 1 /\ turn < MaxTurns /\ first' = reply + 1
  BY DEF SubmitTurn, loopVars
<1>2. TypeOK'
  <2>1. reply \in Nat /\ turn \in Nat
    BY DEF TypeOK
  <2>2. first' \in 1..(reply + 1) /\ turn' \in 0..MaxTurns
    BY <1>1, <2>1, LimitsAreNat
  <2> DEFINE S == [sender : {"player", "narrator", "system"}, content : Seq(1..reply)]
  <2>3. Entry("player", <<>>) \in S
    BY DEF Entry
  <2>4. story \in Seq(S)
    BY DEF TypeOK
  <2>5. story' \in Seq(S)
    <3> HIDE DEF S
    <3> QED BY <1>1, <2>3, <2>4, OneMore
  <2>6. streamed' \in Seq(1..reply)
    BY <1>1
  <2>7. cancel' \in BOOLEAN /\ verdict' \in {"none", "ok", "error", "cancelled", "limit"}
    BY <1>1 DEF TypeOK
  <2> QED BY <1>1, <2>2, <2>5, <2>6, <2>7, PlainTypes
<1>3. CallsInPlace' /\ AnswersBelong' /\ PendingBelongs'
  BY <1>1, HistoryUntouched
<1>4. TerminalRemembered' /\ ReplyIsOwn' /\ LastReply'
  BY <1>1 DEF TerminalRemembered, ReplyIsOwn, LastReply, Answering
<1>5. StreamedIsOwn'
  BY <1>1 DEF StreamedIsOwn, Range
<1> QED BY <1>2, <1>3, <1>4, <1>5

\* A line of the game's is told to the player, not to the agent.
LEMMA TellStep ==
    ASSUME AgentInv, TellPlayer
    PROVE  AgentInv'
<1> USE DEF AgentInv
<1>1. /\ UNCHANGED <<history, live, streamed, cancel, pc, iter, verdict, text, pending, ended,
                     reply, turn, first>>
      /\ pc = "idle" /\ story' = Append(story, Entry("system", <<>>))
  BY DEF TellPlayer, loopVars, turnVars
<1>2. TypeOK'
  <2> DEFINE S == [sender : {"player", "narrator", "system"}, content : Seq(1..reply)]
  <2>1. Entry("system", <<>>) \in S /\ story \in Seq(S)
    BY DEF Entry, TypeOK
  <2>2. story' \in Seq(S)
    <3> HIDE DEF S
    <3> QED BY <1>1, <2>1, OneMore
  <2> QED BY <1>1, <2>2 DEF TypeOK, Messages
<1>3. CallsInPlace' /\ AnswersBelong' /\ PendingBelongs'
  BY <1>1, HistoryUntouched
<1>4. TerminalRemembered' /\ ReplyIsOwn' /\ LastReply' /\ StreamedIsOwn'
  BY <1>1 DEF TerminalRemembered, ReplyIsOwn, LastReply, Answering, StreamedIsOwn
<1> QED BY <1>2, <1>3, <1>4

\* The cancel flag is nothing the history depends on.
LEMMA CancelStep ==
    ASSUME AgentInv, CancelTurn
    PROVE  AgentInv'
<1> USE DEF AgentInv
<1>1. UNCHANGED <<history, live, story, streamed, pc, iter, verdict, text, pending, ended,
                  reply, turn, first>> /\ cancel' = TRUE
  BY DEF CancelTurn, loopVars, turnVars
<1>2. TypeOK'
  BY <1>1 DEF TypeOK, Messages
<1>3. CallsInPlace' /\ AnswersBelong' /\ PendingBelongs'
  BY <1>1 DEF CallsInPlace, AnswersBelong, PendingBelongs, Answered
<1>4. TerminalRemembered' /\ ReplyIsOwn' /\ LastReply' /\ StreamedIsOwn'
  BY <1>1 DEF TerminalRemembered, ThisRun, ReplyIsOwn, LastReply, Answering, StreamedIsOwn
<1> QED BY <1>2, <1>3, <1>4

\* A message without calls that is no answer joins the history while no calls are
\* in hand.
LEMMA PlainMessage ==
    ASSUME AgentInv, NEW m \in Messages, history' = Append(history, m),
           m.role # "tool", m.role = "assistant" => m.calls = <<>>,
           pc # "dispatch", pc' # "dispatch"
    PROVE  CallsInPlace' /\ AnswersBelong' /\ PendingBelongs'
<1>1. /\ Len(history') = Len(history) + 1 /\ Len(history) \in Nat
      /\ \A i \in 1..Len(history) : history'[i] = history[i]
      /\ history'[Len(history) + 1] = m
  BY OneMore DEF AgentInv, TypeOK
<1>2. CallsInPlace'
  <2> SUFFICES ASSUME NEW i \in 1..Len(history'), history'[i].role = "assistant",
                      NEW k \in 1..Len(history'[i].calls)
               PROVE  Answered(i, k)'
      BY DEF CallsInPlace
  <2>1. i \in 1..Len(history)
    BY <1>1
  <2>2. Answered(i, k)
    BY <1>1, <2>1 DEF AgentInv, CallsInPlace
  <2>3. k \in Nat /\ k >= 1
    OBVIOUS
  <2> QED BY <1>1, <2>1, <2>2, <2>3 DEF Answered
<1>3. AnswersBelong'
  <2> SUFFICES ASSUME NEW i \in 1..Len(history'), history'[i].role = "tool"
               PROVE  \E j \in 1..(i - 1) : /\ history'[j].role = "assistant"
                                            /\ i - j <= Len(history'[j].calls)
      BY DEF AnswersBelong
  <2>1. i \in 1..Len(history) /\ history[i].role = "tool"
    BY <1>1
  <2>2. PICK j \in 1..(i - 1) : history[j].role = "assistant" /\ i - j <= Len(history[j].calls)
    BY <2>1 DEF AgentInv, AnswersBelong
  <2> QED BY <1>1, <2>1, <2>2
<1>4. PendingBelongs'
  BY DEF PendingBelongs
<1> QED BY <1>2, <1>3, <1>4

\* The result of a combat is told between turns.
LEMMA SeedStep ==
    ASSUME AgentInv, SeedOutcome
    PROVE  AgentInv'
<1> USE DEF AgentInv
<1>1. /\ UNCHANGED <<live, story, streamed, cancel, pc, iter, verdict, text, pending, ended,
                     reply, turn, first>>
      /\ pc = "idle" /\ history' = Append(history, Line("system", <<>>))
  BY DEF SeedOutcome, loopVars, turnVars
<1>2. Line("system", <<>>) \in Messages
  BY DEF Line, Messages
<1>3. TypeOK'
  <2>1. history' \in Seq(Messages)
    BY <1>1, <1>2, OneMore DEF TypeOK
  <2> QED BY <1>1, <2>1 DEF TypeOK, Messages
<1>4. CallsInPlace' /\ AnswersBelong' /\ PendingBelongs'
  BY <1>1, <1>2, PlainMessage DEF Line
<1>5. TerminalRemembered' /\ ReplyIsOwn' /\ LastReply' /\ StreamedIsOwn'
  BY <1>1 DEF TerminalRemembered, ReplyIsOwn, LastReply, Answering, StreamedIsOwn
<1> QED BY <1>3, <1>4, <1>5

-----------------------------------------------------------------------------
(* The run.                                                                *)

\* A fresh agent is primed with plain lines, so it has no calls and no answers.
LEMMA StartStep ==
    ASSUME AgentInv, StartRun
    PROVE  AgentInv'
<1> USE DEF AgentInv
<1>1. /\ UNCHANGED <<story, streamed, text, pending, ended, reply, turn, first>>
      /\ pc = "start" /\ pc' = "chat" /\ iter' = 0 /\ verdict' = "none" /\ live' = TRUE
      /\ cancel' = FALSE
  BY DEF StartRun, turnVars
<1>2. PICK old \in {history, Primed} : history' = Append(old, Line("user", <<>>))
  BY DEF StartRun
<1>3. Line("user", <<>>) \in Messages
  BY DEF Line, Messages
<1>4. old \in Seq(Messages)
  BY PrimedIsPlain DEF TypeOK
<1>5. /\ history' \in Seq(Messages)
      /\ Len(history') = Len(old) + 1 /\ Len(old) \in Nat
      /\ \A i \in 1..Len(old) : history'[i] = old[i]
      /\ history'[Len(old) + 1] = Line("user", <<>>)
  BY <1>2, <1>3, <1>4, OneMore
<1>6. TypeOK'
  <2>1. iter' \in 0..MaxIterations
    BY <1>1, LimitsAreNat
  <2>2. Messages' = Messages
    BY <1>1 DEF Messages
  <2> QED BY <1>1, <1>5, <2>1, <2>2 DEF TypeOK
<1>7. CallsInPlace' /\ AnswersBelong' /\ PendingBelongs'
  <2>1. CASE old = history
    BY <1>1, <1>2, <1>3, <2>1, PlainMessage DEF Line
  <2>2. CASE old = Primed
    <3>1. \A i \in 1..Len(history') : /\ history'[i].role \in {"user", "assistant", "system"}
                                      /\ history'[i].calls = <<>>
      BY <1>5, <2>2, PrimedIsPlain DEF Line
    <3> QED BY <1>1, <3>1 DEF CallsInPlace, AnswersBelong, PendingBelongs
  <2> QED BY <2>1, <2>2
<1>8. TerminalRemembered'
  <2>1. \A i \in 1..Len(history') : ~ThisRun(i)'
    <3> TAKE i \in 1..Len(history')
    <3>1. Len(history') \in i..Len(history') /\ history'[Len(history')].role = "user"
      BY <1>5 DEF Line
    <3> QED BY <3>1 DEF ThisRun
  <2> QED BY <2>1 DEF TerminalRemembered
<1>9. ReplyIsOwn' /\ LastReply' /\ StreamedIsOwn'
  BY <1>1 DEF ReplyIsOwn, LastReply, Answering, StreamedIsOwn
<1> QED BY <1>6, <1>7, <1>8, <1>9

\* The steps that end a run, or begin a chat call, leave the history alone.
LEMMA LimitStep ==
    ASSUME AgentInv, LimitReached
    PROVE  AgentInv'
<1> USE DEF AgentInv
<1>1. /\ UNCHANGED <<history, live, story, streamed, cancel, iter, text, pending, ended, reply,
                     turn, first>>
      /\ pc = "chat" /\ pc' = "commit" /\ verdict' = "limit" /\ iter >= MaxIterations
  BY DEF LimitReached, EndRun, turnVars
<1>2. TypeOK'
  BY <1>1 DEF TypeOK, Messages
<1>3. CallsInPlace' /\ AnswersBelong' /\ PendingBelongs'
  BY <1>1, HistoryUntouched
<1>4. iter > 0
  BY <1>1, LimitsAreNat DEF TypeOK
<1>5. TerminalRemembered' /\ ReplyIsOwn' /\ LastReply' /\ StreamedIsOwn'
  BY <1>1, <1>4 DEF TerminalRemembered, ReplyIsOwn, LastReply, Answering, StreamedIsOwn
<1> QED BY <1>2, <1>3, <1>5

\* A chat call begins: its reply has the next number.
LEMMA BeginStep ==
    ASSUME AgentInv, BeginChat
    PROVE  AgentInv'
<1> USE DEF AgentInv
<1>1. /\ UNCHANGED <<history, live, story, streamed, cancel, verdict, pending, turn, first>>
      /\ pc = "chat" /\ pc' = "stream" /\ iter < MaxIterations /\ iter' = iter + 1
      /\ reply' = reply + 1 /\ text' = <<>> /\ ended' = FALSE
  BY DEF BeginChat, turnVars
<1>2. reply \in Nat /\ reply' \in Nat /\ reply <= reply' /\ first \in 1..(reply + 1)
  BY <1>1 DEF TypeOK
<1>3. TypeOK'
  <2>1. /\ history' \in Seq(Messages') /\ streamed' \in Seq(1..reply')
        /\ story' \in Seq([sender : {"player", "narrator", "system"}, content : Seq(1..reply')])
    BY <1>1, <1>2, TypesGrow
  <2>2. text' \in Seq(1..reply') /\ iter' \in 0..MaxIterations /\ first' \in 1..(reply' + 1)
    BY <1>1, <1>2, LimitsAreNat DEF TypeOK
  <2> QED BY <1>1, <1>2, <2>1, <2>2 DEF TypeOK
<1>4. CallsInPlace' /\ AnswersBelong' /\ PendingBelongs'
  BY <1>1, HistoryUntouched
<1>5. TerminalRemembered'
  BY <1>1 DEF TerminalRemembered, ThisRun
<1>6. ReplyIsOwn' /\ LastReply'
  BY <1>1, <1>2 DEF ReplyIsOwn, LastReply, Answering
<1>7. StreamedIsOwn'
  <2>1. first..reply \subseteq first..reply'
    BY <1>1, <1>2
  <2> QED BY <1>1, <2>1 DEF StreamedIsOwn
<1> QED BY <1>3, <1>4, <1>5, <1>6, <1>7

\* Text comes in: it is the reply's own.
LEMMA StreamStep ==
    ASSUME AgentInv, StreamText
    PROVE  AgentInv'
<1> USE DEF AgentInv
<1>1. /\ UNCHANGED <<history, live, story, cancel, pc, iter, verdict, pending, ended, reply,
                     turn, first>>
      /\ pc = "stream" /\ text' = <<reply>> /\ streamed' = streamed \o <<reply>>
  BY DEF StreamText, turnVars
<1>2. first <= reply /\ reply \in Nat /\ first \in 1..(reply + 1) /\ streamed \in Seq(1..reply)
  BY <1>1 DEF ReplyIsOwn, TypeOK
<1>3. <<reply>> \in Seq(1..reply)
  BY <1>2
<1>4. /\ streamed' \in Seq(1..reply)
      /\ Len(streamed') = Len(streamed) + 1
      /\ \A i \in 1..(Len(streamed) + 1) :
            streamed'[i] = IF i <= Len(streamed) THEN streamed[i] ELSE reply
  <2>1. Len(<<reply>>) = 1 /\ <<reply>>[1] = reply /\ Len(streamed) \in Nat
    BY <1>2
  <2> QED BY <1>1, <1>2, <1>3, <2>1, ConcatProperties
<1>5. TypeOK'
  BY <1>1, <1>3, <1>4 DEF TypeOK, Messages
<1>6. CallsInPlace' /\ AnswersBelong' /\ PendingBelongs'
  BY <1>1, HistoryUntouched
<1>7. TerminalRemembered' /\ ReplyIsOwn' /\ LastReply'
  BY <1>1 DEF TerminalRemembered, ThisRun, ReplyIsOwn, LastReply, Answering
<1>8. StreamedIsOwn'
  <2> SUFFICES ASSUME NEW i \in DOMAIN streamed' PROVE streamed'[i] \in first..reply
      BY <1>1 DEF StreamedIsOwn, Range
  <2>1. i \in 1..(Len(streamed) + 1) /\ Len(streamed) \in Nat
    BY <1>2, <1>4
  <2>2. i <= Len(streamed) => streamed[i] \in first..reply
    BY <1>2, <2>1 DEF StreamedIsOwn, Range
  <2> QED BY <1>2, <1>4, <2>1, <2>2
<1> QED BY <1>5, <1>6, <1>7, <1>8

\* A reply that is cancelled or fails is dropped.
LEMMA DropStep ==
    ASSUME AgentInv, ReplyCancelled \/ ReplyFailed
    PROVE  AgentInv'
<1> USE DEF AgentInv
<1>1. /\ UNCHANGED <<history, live, story, streamed, cancel, iter, text, pending, ended, reply,
                     turn, first>>
      /\ pc = "stream" /\ pc' = "commit" /\ verdict' \in {"cancelled", "error"}
  BY DEF ReplyCancelled, ReplyFailed, EndRun, turnVars
<1>2. TypeOK'
  BY <1>1 DEF TypeOK, Messages
<1>3. CallsInPlace' /\ AnswersBelong' /\ PendingBelongs'
  BY <1>1, HistoryUntouched
<1>4. TerminalRemembered' /\ ReplyIsOwn' /\ LastReply' /\ StreamedIsOwn'
  BY <1>1 DEF TerminalRemembered, ReplyIsOwn, LastReply, Answering, StreamedIsOwn
<1> QED BY <1>2, <1>3, <1>4

\* A whole reply joins the history; its calls are in hand, in their places.
LEMMA ReplyStep ==
    ASSUME AgentInv, ReplyDone
    PROVE  AgentInv'
<1> USE DEF AgentInv
<1> DEFINE n == Len(history) + 1
<1>1. /\ UNCHANGED <<live, story, streamed, cancel, iter, text, ended, reply, turn, first>>
      /\ pc = "stream"
  BY DEF ReplyDone, turnVars
<1>2. PICK calls \in Seq(Tools) :
          /\ history' = Append(history, Assistant(text, calls)) /\ pending' = calls
          /\ \/ calls = <<>> /\ verdict' = "ok" /\ pc' = "commit"
             \/ calls # <<>> /\ verdict' = verdict /\ pc' = "dispatch"
  BY KeptAreCalls DEF ReplyDone, EndRun
<1>3. Assistant(text, calls) \in Messages
  BY DEF Assistant, Messages, TypeOK
<1>4. /\ history' \in Seq(Messages)
      /\ Len(history') = n /\ Len(history) \in Nat
      /\ \A i \in 1..Len(history) : history'[i] = history[i]
      /\ history'[n] = Assistant(text, calls)
  BY <1>2, <1>3, OneMore DEF TypeOK
<1>5. TypeOK'
  BY <1>1, <1>2, <1>4 DEF TypeOK, Messages
<1>6. history'[n].role = "assistant" /\ history'[n].calls = calls /\ history'[n].content = text
  BY <1>4 DEF Assistant
<1>7. CallsInPlace'
  <2> SUFFICES ASSUME NEW i \in 1..Len(history'), history'[i].role = "assistant",
                      NEW k \in 1..Len(history'[i].calls)
               PROVE  \/ Answered(i, k)'
                      \/ /\ pc' = "dispatch" /\ i + k > Len(history')
                         /\ i + Len(history'[i].calls) = Len(history') + Len(pending')
                         /\ pending'[i + k - Len(history')] = history'[i].calls[k]
      BY DEF CallsInPlace
  <2>1. CASE i \in 1..Len(history)
    <3>1. Answered(i, k)
      BY <1>1, <1>4, <2>1 DEF CallsInPlace
    <3> QED BY <1>4, <2>1, <3>1 DEF Answered
  <2>2. CASE i = n
    <3>1. k \in 1..Len(calls) /\ Len(calls) \in Nat
      BY <1>6, <2>2
    <3>2. calls # <<>>
      BY <3>1
    <3>3. n + k > n /\ n + k - n = k
      BY <1>4, <3>1
    <3> HIDE DEF n
    <3> QED BY <1>2, <1>4, <1>6, <2>2, <3>1, <3>2, <3>3
  <2> QED BY <1>4, <2>1, <2>2
<1>8. AnswersBelong'
  <2> SUFFICES ASSUME NEW i \in 1..Len(history'), history'[i].role = "tool"
               PROVE  \E j \in 1..(i - 1) : /\ history'[j].role = "assistant"
                                            /\ i - j <= Len(history'[j].calls)
      BY DEF AnswersBelong
  <2>1. i \in 1..Len(history) /\ history[i].role = "tool"
    BY <1>4, <1>6
  <2>2. PICK j \in 1..(i - 1) : history[j].role = "assistant" /\ i - j <= Len(history[j].calls)
    BY <2>1 DEF AnswersBelong
  <2> QED BY <1>4, <2>1, <2>2
<1>9. PendingBelongs'
  <2>1. n \in 1..Len(history')
    BY <1>4
  <2> HIDE DEF n
  <2> QED BY <1>2, <1>4, <1>6, <2>1 DEF PendingBelongs
<1>10. TerminalRemembered'
  <2> SUFFICES ASSUME NEW i \in 1..Len(history'), ThisRun(i)', history'[i].role = "tool"
               PROVE  history'[i].calls[1] \notin TerminalTools
      BY DEF TerminalRemembered
  <2>1. i \in 1..Len(history) /\ history[i].role = "tool"
    BY <1>4, <1>6
  <2>2. ThisRun(i)
    BY <1>4, <2>1 DEF ThisRun
  <2> QED BY <1>1, <1>4, <2>1, <2>2 DEF TerminalRemembered
<1>11. ReplyIsOwn' /\ StreamedIsOwn'
  BY <1>1, <1>2 DEF ReplyIsOwn, StreamedIsOwn
<1>12. LastReply'
  <2>1. first <= reply /\ text \in {<<>>, <<reply>>}
    BY <1>1 DEF ReplyIsOwn
  <2>2. \A j \in (n + 1)..Len(history') : history'[j].role = "tool"
    BY <1>4
  <2>3. n \in 1..Len(history')
    BY <1>4
  <2> HIDE DEF n
  <2> QED BY <1>1, <1>6, <2>1, <2>2, <2>3 DEF LastReply
<1> QED BY <1>5, <1>7, <1>8, <1>9, <1>10, <1>11, <1>12

\* A call is dispatched: its answer comes to stand at its place.
LEMMA DispatchStep ==
    ASSUME AgentInv, DispatchTool
    PROVE  AgentInv'
<1> USE DEF AgentInv
<1> DEFINE n == Len(history) + 1
           m == ToolResult(Head(pending))
<1>1. /\ UNCHANGED <<live, story, streamed, cancel, iter, text, reply, turn, first>>
      /\ pc = "dispatch" /\ history' = Append(history, m) /\ pending' = Tail(pending)
      /\ ended' = (ended \/ Head(pending) \in TerminalTools)
      /\ \/ pending' # <<>> /\ pc' = "dispatch" /\ verdict' = verdict
         \/ pending' = <<>> /\ ended' /\ pc' = "commit" /\ verdict' = "ok"
         \/ pending' = <<>> /\ ~ended' /\ pc' = "chat" /\ verdict' = verdict
  BY DEF DispatchTool, EndRun, turnVars
<1>2. pending \in Seq(Tools) /\ pending # <<>>
  BY <1>1 DEF TypeOK, PendingBelongs
<1>3. /\ Head(pending) \in Tools /\ Head(pending) = pending[1] /\ pending' \in Seq(Tools)
      /\ Len(pending') = Len(pending) - 1 /\ Len(pending) \in Nat /\ Len(pending) >= 1
      /\ \A i \in 1..Len(pending') : pending'[i] = pending[i + 1]
  BY <1>1, <1>2
<1>4. m \in Messages
  BY <1>3 DEF ToolResult, Messages
<1>5. m.role = "tool" /\ m.calls = <<pending[1]>>
  BY <1>3 DEF ToolResult
<1> HIDE DEF m
<1>6. /\ history' \in Seq(Messages)
      /\ Len(history') = n /\ Len(history) \in Nat
      /\ \A i \in 1..Len(history) : history'[i] = history[i]
      /\ history'[n] = m
  BY <1>1, <1>4, OneMore DEF TypeOK
<1>7. n \in Nat /\ n > Len(history)
  BY <1>6
<1> HIDE DEF n
<1>8. TypeOK'
  BY <1>1, <1>3, <1>6 DEF TypeOK, Messages
<1>9. PICK p \in 1..Len(history) : /\ history[p].role = "assistant"
                                   /\ p + Len(history[p].calls) = Len(history) + Len(pending)
  BY <1>1 DEF PendingBelongs
<1>10. n = Len(history) + 1 /\ Len(history[p].calls) \in Nat
  BY MessageTyped DEF n
<1>10a. Len(pending') + 1 = Len(pending) /\ Len(pending') \in Nat /\ Len(pending) \in Nat
  BY <1>3
<1>11. CallsInPlace'
  <2> SUFFICES ASSUME NEW i \in 1..Len(history'), history'[i].role = "assistant",
                      NEW k \in 1..Len(history'[i].calls)
               PROVE  \/ Answered(i, k)'
                      \/ /\ pc' = "dispatch" /\ i + k > Len(history')
                         /\ i + Len(history'[i].calls) = Len(history') + Len(pending')
                         /\ pending'[i + k - Len(history')] = history'[i].calls[k]
      BY DEF CallsInPlace
  <2>1. i \in 1..Len(history) /\ history'[i] = history[i] /\ k \in Nat
    BY <1>5, <1>6, <1>10
  <2>2. CASE Answered(i, k)
    BY <1>6, <1>10, <2>1, <2>2 DEF Answered
  <2>3. CASE /\ i + k > Len(history)
             /\ i + Len(history[i].calls) = Len(history) + Len(pending)
             /\ pending[i + k - Len(history)] = history[i].calls[k]
    <3>1. CASE i + k = n
      <4>1. pending[1] = history[i].calls[k]
        BY <1>6, <1>10, <2>1, <2>3, <3>1
      <4> QED BY <1>5, <1>6, <2>1, <3>1, <4>1 DEF Answered
    <3>2. CASE i + k > n
      <4>1. k <= Len(history[i].calls) /\ Len(history[i].calls) \in Nat
        BY <2>1, MessageTyped
      <4> HIDE DEF AgentInv
      <4>2. i + k - n \in 1..Len(pending')
        BY <1>6, <1>10, <1>10a, <2>1, <2>3, <3>2, <4>1
      <4>3. pending'[i + k - n] = pending[i + k - Len(history)]
        <5>1. (i + k - n) + 1 = i + k - Len(history)
          BY <1>6, <1>10, <2>1
        <5> QED BY <1>3, <4>2, <5>1
      <4>4. pending' # <<>>
        BY <1>3, <4>2
      <4>5. i + Len(history[i].calls) = n + Len(pending')
        <5>1. i \in Nat /\ Len(history) \in Nat
          BY <1>6, <2>1
        <5>2. i + Len(history[i].calls) = Len(history) + Len(pending)
          BY <2>3
        <5> QED BY <1>10, <1>10a, <4>1, <5>1, <5>2
      <4> QED BY <1>1, <1>6, <2>1, <2>3, <3>2, <4>3, <4>4, <4>5
    <3> QED BY <1>6, <1>10, <2>1, <2>3, <3>1, <3>2
  <2> QED BY <1>1, <2>1, <2>2, <2>3 DEF CallsInPlace
<1>12. AnswersBelong'
  <2> SUFFICES ASSUME NEW i \in 1..Len(history'), history'[i].role = "tool"
               PROVE  \E j \in 1..(i - 1) : /\ history'[j].role = "assistant"
                                            /\ i - j <= Len(history'[j].calls)
      BY DEF AnswersBelong
  <2>1. CASE i \in 1..Len(history)
    <3>1. PICK j \in 1..(i - 1) : history[j].role = "assistant" /\ i - j <= Len(history[j].calls)
      BY <1>6, <2>1 DEF AnswersBelong
    <3> QED BY <1>6, <2>1, <3>1
  <2>2. CASE i = n
    <3>1. p \in 1..(i - 1) /\ i - p <= Len(history[p].calls)
      BY <1>3, <1>6, <1>9, <1>10, <2>2
    <3> QED BY <1>6, <1>9, <3>1
  <2> QED BY <1>6, <1>10, <2>1, <2>2
<1>13. PendingBelongs'
  <2> SUFFICES ASSUME pc' = "dispatch" PROVE PendingBelongs'
      BY DEF PendingBelongs
  <2>1. p + Len(history[p].calls) = n + Len(pending')
    BY <1>6, <1>9, <1>10, <1>10a
  <2>2. p \in 1..Len(history') /\ history'[p] = history[p]
    BY <1>6, <1>10
  <2> QED BY <1>1, <1>6, <1>9, <2>1, <2>2 DEF PendingBelongs
<1>14. TerminalRemembered'
  <2> SUFFICES ASSUME pc' \in {"chat", "dispatch"},
                      NEW i \in 1..Len(history'), ThisRun(i)', history'[i].role = "tool"
               PROVE  \/ history'[i].calls[1] \notin TerminalTools
                      \/ pc' = "dispatch" /\ ended'
      BY <1>1 DEF TerminalRemembered
  <2>1. CASE i \in 1..Len(history)
    <3>1. ThisRun(i)
      BY <1>6, <1>10, <2>1 DEF ThisRun
    <3> QED BY <1>1, <1>6, <2>1, <3>1 DEF TerminalRemembered
  <2>2. CASE i = n
    <3>1. history'[i].calls[1] = Head(pending)
      BY <1>3, <1>5, <1>6, <2>2
    <3> QED BY <1>1, <3>1
  <2> QED BY <1>6, <1>10, <2>1, <2>2
<1>15. ReplyIsOwn' /\ StreamedIsOwn'
  BY <1>1 DEF ReplyIsOwn, StreamedIsOwn
<1>16. LastReply'
  <2>1. first <= reply
    BY <1>1 DEF LastReply, Answering
  <2>2. PICK q \in 1..Len(history) :
            /\ history[q].role = "assistant" /\ history[q].content \in {<<>>, <<reply>>}
            /\ \A j \in (q + 1)..Len(history) : history[j].role = "tool"
    BY <1>1 DEF LastReply, Answering
  <2>3. q \in 1..Len(history') /\ history'[q] = history[q]
    BY <1>6, <1>10
  <2>4. \A j \in (q + 1)..Len(history') : history'[j].role = "tool"
    <3> TAKE j \in (q + 1)..Len(history')
    <3>1. CASE j = n
      BY <1>5, <1>6, <3>1
    <3>2. CASE j \in (q + 1)..Len(history)
      BY <1>6, <2>2, <3>2
    <3> QED BY <1>6, <1>10, <3>1, <3>2
  <2> QED BY <1>1, <2>1, <2>2, <2>3, <2>4 DEF LastReply
<1> QED BY <1>8, <1>11, <1>12, <1>13, <1>14, <1>15, <1>16

\* The newest assistant message, where the loop has put it.
LEMMA LastTextIs ==
    ASSUME TypeOK, NEW p \in 1..Len(history), history[p].role = "assistant",
           \A j \in (p + 1)..Len(history) : history[j].role = "tool"
    PROVE  LastText = history[p].content
<1> DEFINE said == {i \in DOMAIN history : history[i].role = "assistant"}
<1>1. DOMAIN history = 1..Len(history) /\ Len(history) \in Nat
  BY DEF TypeOK
<1>2. p \in said /\ \A i \in said : i \in Nat /\ p >= i
  BY <1>1
<1> HIDE DEF said
<1>3. Max(said) = p
  <2>1. \E x \in said : \A y \in said : x >= y
    BY <1>2
  <2>2. Max(said) \in said /\ \A y \in said : Max(said) >= y
    BY <2>1, Zenon DEF Max
  <2>3. /\ Max(said) \in Nat /\ p >= Max(said)
        /\ Max(said) >= p /\ p \in Nat
    BY <1>2, <2>2, Zenon
  <2>4. \A a, b \in Nat : a >= b /\ b >= a => a = b
    OBVIOUS
  <2> QED BY <2>3, <2>4, Zenon
<1> QED BY <1>2, <1>3 DEF LastText, said

\* What is committed is made of replies.
LEMMA NarrationTyped == TypeOK => Narration \in Seq(1..reply)
<1> SUFFICES ASSUME TypeOK PROVE Narration \in Seq(1..reply)
    OBVIOUS
<1> DEFINE said == {i \in DOMAIN history : history[i].role = "assistant"}
<1>1. DOMAIN history = 1..Len(history) /\ Len(history) \in Nat
  BY DEF TypeOK
<1>2. said # {} => Max(said) \in 1..Len(history)
  <2>1. said \subseteq 1..Len(history)
    BY <1>1
  <2> HIDE DEF said
  <2> QED BY <1>1, <2>1, LastPlace
<1> HIDE DEF said
<1>3. LastText \in Seq(1..reply)
  <2>1. CASE said = {}
    BY <2>1 DEF LastText, said
  <2>2. CASE said # {}
    <3>1. LastText = history[Max(said)].content
      BY <2>2 DEF LastText, said
    <3> QED BY <1>2, <2>2, <3>1, MessageTyped
  <2> QED BY <2>1, <2>2
<1> QED BY <1>3 DEF Narration, TypeOK

\* The turn is committed; the history stays.
LEMMA CommitStep ==
    ASSUME AgentInv, CommitTurn
    PROVE  AgentInv'
<1> USE DEF AgentInv
<1> DEFINE S == [sender : {"player", "narrator", "system"}, content : Seq(1..reply)]
<1>1. /\ UNCHANGED <<history, live, cancel, iter, verdict, text, pending, ended, reply, turn,
                     first>>
      /\ pc = "commit" /\ pc' = "idle" /\ streamed' = <<>>
  BY DEF CommitTurn, loopVars, turnVars
<1>2. story' \in Seq(S)
  <2> DEFINE told == IF Narration = <<>> THEN story ELSE Append(story, Entry("narrator", Narration))
  <2>1. Entry("narrator", Narration) \in S /\ Entry("system", <<>>) \in S
    BY NarrationTyped DEF Entry
  <2>2. story \in Seq(S)
    BY DEF TypeOK
  <2>3. PICK income \in {<<>>, <<Entry("system", <<>>)>>} : story' = told \o income
    BY DEF CommitTurn
  <2> HIDE DEF S
  <2>4. told \in Seq(S)
    BY <2>1, <2>2, OneMore
  <2>5. income \in Seq(S)
    <3> DEFINE earned == Entry("system", <<>>)
    <3> HIDE DEF earned
    <3>1. earned \in S
      BY <2>1 DEF earned
    <3>2. <<earned>> \in Seq(S)
      BY <3>1
    <3>3. CASE income = <<>>
      BY <3>3
    <3>4. CASE income # <<>>
      BY <2>3, <3>2, <3>4, Zenon DEF earned
    <3> QED BY <3>3, <3>4
  <2> HIDE DEF told
  <2> QED BY <2>3, <2>4, <2>5
<1>3. TypeOK'
  <2>1. streamed' \in Seq(1..reply) /\ cancel' \in BOOLEAN
        /\ verdict' \in {"none", "ok", "error", "cancelled", "limit"}
        /\ turn' \in 0..MaxTurns /\ first' \in 1..(reply + 1)
    BY <1>1 DEF TypeOK
  <2> QED BY <1>1, <1>2, <2>1, PlainTypes
<1>4. CallsInPlace' /\ AnswersBelong' /\ PendingBelongs'
  BY <1>1, HistoryUntouched
<1>5. TerminalRemembered' /\ ReplyIsOwn' /\ LastReply'
  BY <1>1 DEF TerminalRemembered, ReplyIsOwn, LastReply, Answering
<1>6. StreamedIsOwn'
  BY <1>1 DEF StreamedIsOwn, Range
<1> QED BY <1>3, <1>4, <1>5, <1>6

\* Every step keeps the invariant.
LEMMA AgentStep == AgentInv /\ [Next]_vars => AgentInv'
<1> SUFFICES ASSUME AgentInv, [Next]_vars PROVE AgentInv'
    OBVIOUS
<1>1. CASE UNCHANGED vars
  <2>1. UNCHANGED <<history, live, story, streamed, cancel, pc, iter, verdict, text, pending,
                    ended, reply, turn, first>>
    BY <1>1 DEF vars, loopVars, turnVars
  <2>2. TypeOK'
    BY <2>1 DEF AgentInv, TypeOK, Messages
  <2>3. CallsInPlace' /\ AnswersBelong' /\ PendingBelongs'
    BY <2>1 DEF AgentInv, CallsInPlace, AnswersBelong, PendingBelongs, Answered
  <2>4. TerminalRemembered' /\ ReplyIsOwn' /\ LastReply' /\ StreamedIsOwn'
    BY <2>1 DEF AgentInv, TerminalRemembered, ThisRun, ReplyIsOwn, LastReply, Answering,
       StreamedIsOwn
  <2> QED BY <2>2, <2>3, <2>4 DEF AgentInv
<1>2. CASE Next
  <2>1. Finished => UNCHANGED vars
    BY DEF Finished
  <2> QED BY <1>1, <1>2, <2>1, SubmitStep, TellStep, CancelStep, SeedStep, StartStep, LimitStep,
     BeginStep, StreamStep, DropStep, ReplyStep, DispatchStep, CommitStep DEF Next, Run
<1> QED BY <1>1, <1>2

-----------------------------------------------------------------------------
(* The theorems.                                                           *)

\* The inductive invariant of the agent's loop.
THEOREM AgentInvariance == Spec => []AgentInv
BY AgentInit, AgentStep, PTL DEF Spec

\* Every variable keeps its type.
THEOREM TypeCorrect == Spec => []TypeOK
<1>1. AgentInv => TypeOK
  BY DEF AgentInv
<1> QED BY <1>1, AgentInvariance, PTL

\* Whenever the model is asked, each call of each reply is answered once, in order,
\* right behind the reply, and there is no other answer: whatever was cancelled,
\* failed, cut off at the limit or seeded between turns (oce_agent_run).
THEOREM ConversationIsWhole == Spec => []CallsAnswered
<1>1. AgentInv => CallsAnswered
  BY DEF AgentInv, CallsAnswered, CallsInPlace, AnswersBelong
<1> QED BY <1>1, AgentInvariance, PTL

\* Once a terminal tool has run, the model is not asked again in this turn, whichever
\* of the reply's calls it was.
THEOREM TerminalEnds == Spec => []TerminalToolEnds
<1>1. AgentInv => TerminalToolEnds
  BY DEF AgentInv, TerminalToolEnds, TerminalRemembered
<1> QED BY <1>1, AgentInvariance, PTL

\* A run that was answered is narrated with its own replies' text: oce_agent_last_text
\* looks through the whole history, but finds this turn's reply first.
THEOREM NarrationIsOwn == Spec => []AnsweredTurnNarratesItself
<1>1. AgentInv => AnsweredTurnNarratesItself
  <2> SUFFICES ASSUME AgentInv, pc = "commit", verdict \in {"ok", "limit"}
               PROVE  /\ Narration \in {<<reply>>, streamed}
                      /\ Range(Narration) \subseteq first..reply
      BY DEF AnsweredTurnNarratesItself
  <2>1. PICK p \in 1..Len(history) :
            /\ history[p].role = "assistant" /\ history[p].content \in {<<>>, <<reply>>}
            /\ \A j \in (p + 1)..Len(history) : history[j].role = "tool"
    BY DEF AgentInv, LastReply, Answering
  <2>2. LastText \in {<<>>, <<reply>>}
    BY <2>1, LastTextIs DEF AgentInv
  <2>3. first <= reply /\ reply \in Nat /\ first \in Nat
    BY DEF AgentInv, LastReply, Answering, TypeOK
  <2>4. Narration \in {<<reply>>, streamed}
    BY <2>2 DEF Narration
  <2>5. Range(<<reply>>) \subseteq first..reply
    BY <2>3 DEF Range
  <2> QED BY <2>4, <2>5 DEF AgentInv, StreamedIsOwn
<1> QED BY <1>1, AgentInvariance, PTL

-----------------------------------------------------------------------------
(* A reply on its way in (ReplyStream).  What is sent is laid out event by *)
(* event; a table says what the parser's buffers hold when j bytes of an   *)
(* event are in (LineAt, DataAt); and the stream's state holds what the    *)
(* events before it say (Taken).  At joins the two: it is the invariant,   *)
(* kept byte by byte (StepByte), so for chunks of any length (FeedChunk).  *)

\* A place behind x others.
LEMMA PlaceBehind ==
    \A x, w \in Nat : \A i \in 1..w : x + i \in 1..x + w
OBVIOUS

\* What a script is.
Kinds == {"text", "call", "usage", "junk", "done"}
Events == [what : Kinds, index : Nat, lines : {1, 2}]
LEMMA ScriptsAre ==
    /\ \A s \in Scripts : s \in Seq(Events) /\ \A e \in DOMAIN s : s[e].what = "done" => e = Len(s)
    /\ MaxIndex \in Nat \ {0} /\ MaxChunk \in Nat \ {0}
BY StreamAssumption DEF Events, Kinds

\* What an event of a script is.
LEMMA EventsAre ==
    ASSUME NEW s \in Scripts
    PROVE  /\ Len(s) \in Nat /\ DOMAIN s = 1..Len(s)
           /\ \A e \in 1..Len(s) : /\ e \in Nat /\ s[e] \in Events /\ s[e].lines \in {1, 2}
                                   /\ s[e].what \in Kinds /\ s[e].index \in Nat
<1>1. s \in Seq(Events)
  BY ScriptsAre
<1>2. Len(s) \in Nat /\ DOMAIN s = 1..Len(s)
  BY <1>1
<1>3. \A e \in 1..Len(s) : s[e] \in Events
  <2> HIDE DEF Events
  <2> QED BY <1>1, <1>2
<1>4. \A e \in 1..Len(s) : s[e].lines \in {1, 2} /\ s[e].what \in Kinds /\ s[e].index \in Nat
  BY <1>3 DEF Events
<1>5. \A e \in 1..Len(s) : e \in Nat
  OBVIOUS
<1> QED BY <1>2, <1>3, <1>4, <1>5

\* Two sequences of bytes, one behind the other.
LEMMA Joined ==
    ASSUME NEW V, NEW u \in Seq(V), NEW b \in Seq(V)
    PROVE  /\ Len(u \o b) = Len(u) + Len(b) /\ Len(u) \in Nat /\ Len(b) \in Nat
           /\ u \o b \in Seq(V)
           /\ \A k \in 1..Len(u) : (u \o b)[k] = u[k]
           /\ \A k \in 1..Len(b) : (u \o b)[Len(u) + k] = b[k]
<1>1. /\ Len(u) \in Nat /\ Len(b) \in Nat /\ Len(u \o b) = Len(u) + Len(b)
      /\ u \o b \in Seq(V)
      /\ \A i \in 1..Len(u) + Len(b) : (u \o b)[i] = IF i <= Len(u) THEN u[i] ELSE b[i - Len(u)]
  BY ConcatProperties
<1>2. \A k \in 1..Len(u) : k \in 1..Len(u) + Len(b) /\ k <= Len(u)
  BY <1>1
<1>3. \A k \in 1..Len(b) : /\ Len(u) + k \in 1..Len(u) + Len(b) /\ ~(Len(u) + k <= Len(u))
                           /\ (Len(u) + k) - Len(u) = k
  BY <1>1
<1> QED BY <1>1, <1>2, <1>3

\* A byte is an event and a part of it.
Parts == Nat \X Nat

\* The bytes of an event.
LEMMA BytesAre ==
    ASSUME NEW e \in Nat, NEW l \in {1, 2}
    PROVE  /\ Bytes(e, l) \in Seq(Parts) /\ Len(Bytes(e, l)) = IF l = 1 THEN 6 ELSE 7
           /\ Bytes(e, l)[1] = Colon /\ Bytes(e, l)[2] = NL /\ Bytes(e, l)[3] = <<e, 1>>
           /\ l = 1 => /\ Bytes(e, l)[4] = <<e, 2>>
                       /\ Bytes(e, l)[5] = NL /\ Bytes(e, l)[6] = NL
           /\ l = 2 => /\ Bytes(e, l)[4] = NL /\ Bytes(e, l)[5] = <<e, 2>>
                       /\ Bytes(e, l)[6] = NL /\ Bytes(e, l)[7] = NL
<1>1. Colon \in Parts /\ NL \in Parts /\ <<e, 1>> \in Parts /\ <<e, 2>> \in Parts
  BY DEF Colon, NL, Parts
<1> HIDE DEF Parts
<1>2. CASE l = 1
  BY <1>1, <1>2 DEF Bytes
<1>3. CASE l = 2
  BY <1>1, <1>3 DEF Bytes
<1> QED BY <1>2, <1>3

\* g is what is sent by the end of each of the first m events.
SentBy(g, s, m) == /\ DOMAIN g = 0..m /\ g = [e \in 0..m |-> g[e]] /\ g[0] = <<>>
                   /\ \A e \in 1..m : g[e] = g[e - 1] \o Bytes(e, s[e].lines)

\* There is such a function: by induction over m.
LEMMA SentExists ==
    ASSUME NEW s \in Scripts
    PROVE  \E g : SentBy(g, s, Len(s))
<1> PICK N \in Nat : N = Len(s)
    BY ScriptsAre
<1> DEFINE T == {m \in 0..N : ~ \E g : SentBy(g, s, m)}
<1>1. ASSUME T # {} PROVE FALSE
  <2>1. PICK m \in T : \A y \in T : m <= y
    <3>1. T \subseteq Nat
      OBVIOUS
    <3> HIDE DEF T
    <3> QED BY <1>1, <3>1, LeastNumber
  <2>2. m \in 0..N /\ ~ \E g : SentBy(g, s, m)
    OBVIOUS
  <2>3. CASE m = 0
    <3>1. SentBy([n \in 0..0 |-> <<>>], s, 0)
      BY DEF SentBy
    <3> QED BY <2>2, <2>3, <3>1
  <2>4. CASE m # 0
    <3>1. m - 1 \in 0..N /\ m - 1 \notin T /\ m \in 1..N
      BY <2>1, <2>2, <2>4
    <3>2. PICK g : SentBy(g, s, m - 1)
      BY <3>1
    <3> HIDE DEF T
    <3> DEFINE h == [n \in 0..m |-> IF n = m THEN g[m - 1] \o Bytes(m, s[m].lines) ELSE g[n]]
    <3>3. DOMAIN h = 0..m /\ h = [e \in 0..m |-> h[e]]
      OBVIOUS
    <3>4. h[0] = <<>>
      <4>1. 0 \in 0..m /\ 0 # m
        BY <3>1
      <4>2. g[0] = <<>>
        BY <3>2 DEF SentBy
      <4> QED BY <4>1, <4>2
    <3>5. \A n \in 1..m : h[n] = h[n - 1] \o Bytes(n, s[n].lines)
      <4> SUFFICES ASSUME NEW n \in 1..m PROVE h[n] = h[n - 1] \o Bytes(n, s[n].lines)
          OBVIOUS
      <4>1. n - 1 \in 0..m /\ n \in 0..m /\ n - 1 # m
        BY <3>1
      <4>2. h[n - 1] = g[n - 1]
        BY <4>1
      <4>3. CASE n = m
        BY <4>1, <4>2, <4>3
      <4>4. CASE n # m
        <5>1. n \in 1..m - 1
          BY <3>1, <4>4
        <5>2. g[n] = g[n - 1] \o Bytes(n, s[n].lines)
          BY <3>2, <5>1 DEF SentBy
        <5> QED BY <4>1, <4>2, <4>4, <5>2
      <4> QED BY <4>3, <4>4
    <3> HIDE DEF h
    <3>6. SentBy(h, s, m)
      BY <3>3, <3>4, <3>5 DEF SentBy
    <3> QED BY <2>2, <3>6
  <2> QED BY <2>3, <2>4
<1>2. N \notin T /\ N \in 0..N
  BY <1>1
<1> QED BY <1>2

\* What is sent, event by event.
LEMMA SentIs ==
    ASSUME NEW s \in Scripts
    PROVE  /\ Len(s) \in Nat /\ Sent(s)[0] = <<>> /\ Wire(s) = Sent(s)[Len(s)]
           /\ \A e \in 1..Len(s) : Sent(s)[e] = Sent(s)[e - 1] \o Bytes(e, s[e].lines)
<1> PICK N \in Nat : N = Len(s)
    BY ScriptsAre
<1> DEFINE Step(g) == [e \in 0..N |-> IF e = 0 THEN <<>> ELSE g[e - 1] \o Bytes(e, s[e].lines)]
           sent == CHOOSE g : g = Step(g)
<1>1. Sent(s) = sent
  BY DEF Sent
<1>2. PICK g : SentBy(g, s, N)
  BY SentExists
<1>3. g = Step(g)
  <2>1. \A e \in 0..N : g[e] = IF e = 0 THEN <<>> ELSE g[e - 1] \o Bytes(e, s[e].lines)
    <3> SUFFICES ASSUME NEW e \in 0..N, e # 0 PROVE g[e] = g[e - 1] \o Bytes(e, s[e].lines)
        BY <1>2 DEF SentBy
    <3>1. e \in 1..N
      OBVIOUS
    <3> QED BY <1>2, <3>1 DEF SentBy
  <2> QED BY <1>2, <2>1 DEF SentBy
<1>4. sent = Step(sent)
  <2> HIDE DEF Step
  <2> QED BY <1>3
<1> HIDE DEF sent
<1>5. \A e \in 0..N : sent[e] = IF e = 0 THEN <<>> ELSE sent[e - 1] \o Bytes(e, s[e].lines)
  BY <1>4
<1>6. sent[0] = <<>> /\ \A e \in 1..N : sent[e] = sent[e - 1] \o Bytes(e, s[e].lines)
  <2>1. 0 \in 0..N /\ \A e \in 1..N : e \in 0..N /\ e # 0
    OBVIOUS
  <2> QED BY <1>5, <2>1
<1> QED BY <1>1, <1>6 DEF Wire

\* It is a sequence of bytes, longer with each event.
LEMMA SentTyped ==
    ASSUME NEW s \in Scripts
    PROVE  \A e \in 0..Len(s) : Sent(s)[e] \in Seq(Parts)
<1> PICK N \in Nat : N = Len(s)
    BY ScriptsAre
<1> DEFINE T == {e \in 0..N : Sent(s)[e] \notin Seq(Parts)}
<1> SUFFICES ASSUME T # {} PROVE FALSE
    OBVIOUS
<1>1. PICK e \in T : \A y \in T : e <= y
  <2>1. T \subseteq Nat
    OBVIOUS
  <2> HIDE DEF T
  <2> QED BY <2>1, LeastNumber
<1>2. e \in 0..N /\ Sent(s)[e] \notin Seq(Parts)
  OBVIOUS
<1>3. e # 0
  <2>1. Sent(s)[0] = <<>>
    BY SentIs
  <2>2. <<>> \in Seq(Parts)
    OBVIOUS
  <2> QED BY <1>2, <2>1, <2>2
<1>4. e \in 1..N /\ e - 1 \in 0..N /\ e - 1 \notin T
  BY <1>1, <1>2, <1>3
<1>5. Sent(s)[e - 1] \in Seq(Parts)
  BY <1>4
<1>6. s[e].lines \in {1, 2}
  BY <1>4, EventsAre
<1>7. Bytes(e, s[e].lines) \in Seq(Parts)
  <2>1. e \in Nat
    BY <1>4
  <2> QED BY <1>6, <2>1, BytesAre
<1>8. Sent(s)[e] = Sent(s)[e - 1] \o Bytes(e, s[e].lines)
  BY <1>4, SentIs
<1> HIDE DEF T, Parts
<1>9. Sent(s)[e] \in Seq(Parts)
  BY <1>5, <1>7, <1>8
<1> QED BY <1>2, <1>9

\* What an event adds.
LEMMA SentGrows ==
    ASSUME NEW s \in Scripts, NEW e \in 1..Len(s)
    PROVE  /\ Len(Sent(s)[e - 1]) \in Nat /\ s[e].lines \in {1, 2} /\ e \in Nat
           /\ Len(Bytes(e, s[e].lines)) \in {6, 7}
           /\ Len(Sent(s)[e]) = Len(Sent(s)[e - 1]) + Len(Bytes(e, s[e].lines))
           /\ \A k \in 1..Len(Sent(s)[e - 1]) : Sent(s)[e][k] = Sent(s)[e - 1][k]
           /\ \A k \in 1..Len(Bytes(e, s[e].lines)) :
                Sent(s)[e][Len(Sent(s)[e - 1]) + k] = Bytes(e, s[e].lines)[k]
<1> PICK N \in Nat : N = Len(s)
    BY ScriptsAre
<1>1. e \in Nat /\ e - 1 \in 0..N /\ s[e].lines \in {1, 2}
  BY EventsAre
<1> PICK u, b : u = Sent(s)[e - 1] /\ b = Bytes(e, s[e].lines)
    OBVIOUS
<1>2. u \in Seq(Parts)
  BY <1>1, SentTyped
<1>3. b \in Seq(Parts) /\ Len(b) \in {6, 7}
  BY <1>1, BytesAre
<1>4. Sent(s)[e] = u \o b
  BY SentIs
<1> HIDE DEF Parts
<1>5. /\ Len(u \o b) = Len(u) + Len(b) /\ Len(u) \in Nat /\ Len(b) \in Nat
      /\ \A k \in 1..Len(u) : (u \o b)[k] = u[k]
      /\ \A k \in 1..Len(b) : (u \o b)[Len(u) + k] = b[k]
  <2>1. b \in Seq(Parts)
    BY <1>3
  <2>2. \A v, w \in Seq(Parts) :
          /\ Len(v \o w) = Len(v) + Len(w) /\ Len(v) \in Nat /\ Len(w) \in Nat
          /\ \A k \in 1..Len(v) : (v \o w)[k] = v[k]
          /\ \A k \in 1..Len(w) : (v \o w)[Len(v) + k] = w[k]
    BY Joined
  <2> QED BY <1>2, <2>1, <2>2
<1> QED BY <1>1, <1>3, <1>4, <1>5

\* What is sent by the end of an event stays at its place in what is sent later.
LEMMA SentStays ==
    ASSUME NEW s \in Scripts, NEW c \in 0..Len(s)
    PROVE  \A e \in c..Len(s) : /\ Len(Sent(s)[c]) <= Len(Sent(s)[e])
                                /\ Len(Sent(s)[c]) \in Nat /\ Len(Sent(s)[e]) \in Nat
                                /\ e # c => Len(Sent(s)[c]) < Len(Sent(s)[e])
                                /\ \A k \in 1..Len(Sent(s)[c]) : Sent(s)[e][k] = Sent(s)[c][k]
<1> PICK N \in Nat : N = Len(s)
    BY ScriptsAre
<1> DEFINE P(e) == /\ Len(Sent(s)[c]) <= Len(Sent(s)[e])
                   /\ Len(Sent(s)[c]) \in Nat /\ Len(Sent(s)[e]) \in Nat
                   /\ e # c => Len(Sent(s)[c]) < Len(Sent(s)[e])
                   /\ \A k \in 1..Len(Sent(s)[c]) : Sent(s)[e][k] = Sent(s)[c][k]
           T == {e \in c..N : ~P(e)}
<1> SUFFICES ASSUME T # {} PROVE FALSE
    OBVIOUS
<1>1. PICK e \in T : \A y \in T : e <= y
  <2>1. T \subseteq Nat
    OBVIOUS
  <2> HIDE DEF T
  <2> QED BY <2>1, LeastNumber
<1>2. e \in c..N /\ ~P(e)
  OBVIOUS
<1>3. Len(Sent(s)[c]) \in Nat
  <2>1. Sent(s)[c] \in Seq(Parts)
    BY SentTyped
  <2> QED BY <2>1
<1>4. e # c
  BY <1>2, <1>3
<1>5. e \in 1..N /\ e - 1 \in c..N /\ e - 1 \notin T
  BY <1>1, <1>2, <1>4
<1>6. P(e - 1)
  BY <1>5
<1>7. /\ Len(Bytes(e, s[e].lines)) \in {6, 7}
      /\ Len(Sent(s)[e]) = Len(Sent(s)[e - 1]) + Len(Bytes(e, s[e].lines))
      /\ \A k \in 1..Len(Sent(s)[e - 1]) : Sent(s)[e][k] = Sent(s)[e - 1][k]
  BY <1>5, SentGrows
<1>8. \A k \in 1..Len(Sent(s)[c]) : k \in 1..Len(Sent(s)[e - 1])
  BY <1>6
<1>9. P(e)
  <2>1. \A k \in 1..Len(Sent(s)[c]) : Sent(s)[e][k] = Sent(s)[c][k]
    BY <1>6, <1>7, <1>8
  <2>2. Len(Sent(s)[c]) < Len(Sent(s)[e]) /\ Len(Sent(s)[e]) \in Nat
    <3> PICK x, y, z, w : /\ x = Len(Sent(s)[c]) /\ y = Len(Sent(s)[e - 1])
                          /\ z = Len(Sent(s)[e]) /\ w = Len(Bytes(e, s[e].lines))
        OBVIOUS
    <3>1. x <= y /\ x \in Nat /\ y \in Nat
      BY <1>6
    <3>2. w \in {6, 7} /\ z = y + w
      BY <1>7
    <3>3. x < z /\ z \in Nat
      <4> HIDE DEF T, P
      <4>1. z = y + 6 \/ z = y + 7
        BY <3>2
      <4> QED BY <3>1, <4>1
    <3> QED BY <3>3
  <2> QED BY <1>3, <2>1, <2>2
<1> QED BY <1>2, <1>9

\* Where the bytes of an event are on the wire.
LEMMA WireAt ==
    ASSUME NEW s \in Scripts, NEW e \in 1..Len(s), NEW k \in 1..Len(Bytes(e, s[e].lines))
    PROVE  Wire(s)[Len(Sent(s)[e - 1]) + k] = Bytes(e, s[e].lines)[k]
<1> PICK N \in Nat : N = Len(s)
    BY ScriptsAre
<1>1. /\ Len(Sent(s)[e - 1]) \in Nat /\ Len(Bytes(e, s[e].lines)) \in {6, 7}
      /\ Len(Sent(s)[e]) = Len(Sent(s)[e - 1]) + Len(Bytes(e, s[e].lines))
      /\ Sent(s)[e][Len(Sent(s)[e - 1]) + k] = Bytes(e, s[e].lines)[k]
  BY SentGrows
<1>2. e \in 0..N /\ N \in e..N
  OBVIOUS
<1>3. \A i \in 1..Len(Sent(s)[e]) : Sent(s)[N][i] = Sent(s)[e][i]
  BY <1>2, SentStays
<1>4. Len(Sent(s)[e - 1]) + k \in 1..Len(Sent(s)[e])
  <2>1. \A x, w \in Nat : \A i \in 1..w : x + i \in 1..x + w
    BY PlaceBehind
  <2>2. Len(Bytes(e, s[e].lines)) \in Nat
    BY <1>1
  <2> QED BY <1>1, <2>1, <2>2
<1> QED BY <1>1, <1>3, <1>4, SentIs

-----------------------------------------------------------------------------
(* Lists.                                                                  *)

\* A list of no numbers, and a number put behind smaller ones.
LEMMA ListNone == Lists(<<>>, {})
<1>1. DOMAIN <<>> = {}
  OBVIOUS
<1> QED BY <1>1 DEF Lists, Range

LEMMA ListOne ==
    ASSUME NEW q \in Seq(Nat), NEW S, Lists(q, S), NEW x \in Nat, \A y \in S : y < x
    PROVE  Append(q, x) \in Seq(Nat) /\ Lists(Append(q, x), S \cup {x})
<1> PICK n \in Nat : n = Len(q)
    OBVIOUS
<1> PICK r : r = Append(q, x)
    OBVIOUS
<1>1. /\ r \in Seq(Nat) /\ DOMAIN r = 1..n + 1 /\ DOMAIN q = 1..n
      /\ r[n + 1] = x /\ \A i \in 1..n : r[i] = q[i]
  BY AppendProperties
<1>2. \A i \in 1..n + 1 : i = n + 1 \/ i \in 1..n
  OBVIOUS
<1>3. n + 1 \in 1..n + 1 /\ \A i \in 1..n : i \in 1..n + 1 /\ i < n + 1
  OBVIOUS
<1>4. \A i \in 1..n : q[i] \in S /\ q[i] < x
  BY <1>1 DEF Lists, Range
<1>5. Range(r) = S \cup {x}
  <2>1. Range(r) \subseteq S \cup {x}
    BY <1>1, <1>2, <1>4 DEF Range
  <2>2. x \in Range(r)
    BY <1>1, <1>3 DEF Range
  <2>3. ASSUME NEW y \in S PROVE y \in Range(r)
    <3>1. PICK i \in 1..n : y = q[i]
      BY <1>1, <2>3 DEF Lists, Range
    <3> QED BY <1>1, <1>3, <3>1 DEF Range
  <2> QED BY <2>1, <2>2, <2>3
<1>6. \A j, k \in 1..n + 1 : j < k => r[j] < r[k]
  <2> SUFFICES ASSUME NEW j \in 1..n + 1, NEW k \in 1..n + 1, j < k PROVE r[j] < r[k]
      OBVIOUS
  <2>1. j \in 1..n
    BY <1>2
  <2>2. CASE k = n + 1
    BY <1>1, <1>4, <2>1, <2>2
  <2>3. CASE k \in 1..n
    <3>1. q[j] < q[k]
      BY <1>1, <2>1, <2>3 DEF Lists
    <3> QED BY <1>1, <2>1, <2>3, <3>1
  <2> QED BY <1>2, <2>2, <2>3
<1> QED BY <1>1, <1>5, <1>6 DEF Lists

\* Every set of numbers below a bound has a list.
LEMMA ListExists ==
    ASSUME NEW M \in Nat, NEW S, S \subseteq 0..M - 1
    PROVE  \E q \in SeqOf(S, M) : Lists(q, S)
<1> DEFINE Low(m) == {x \in S : x < m}
           Good(m) == \E q \in Seq(Nat) : Len(q) <= m /\ Lists(q, Low(m))
           T == {m \in 0..M : ~Good(m)}
<1>0. \A x \in S : x \in Nat /\ x < M
  OBVIOUS
<1>1. ASSUME T # {} PROVE FALSE
  <2>1. PICK m \in T : \A y \in T : m <= y
    <3>1. T \subseteq Nat
      OBVIOUS
    <3> HIDE DEF T
    <3> QED BY <1>1, <3>1, LeastNumber
  <2>2. m \in 0..M /\ ~Good(m)
    OBVIOUS
  <2>3. Good(0)
    <3>1. \A x \in S : ~(x < 0)
      BY <1>0
    <3>2. Low(0) = {}
      BY <3>1
    <3>3. <<>> \in Seq(Nat) /\ Len(<<>>) <= 0
      OBVIOUS
    <3> QED BY <3>2, <3>3, ListNone
  <2>4. m - 1 \in 0..M /\ m - 1 \in Nat /\ m \in Nat /\ m - 1 \notin T
    <3>1. m # 0
      BY <2>2, <2>3
    <3>2. m - 1 \in 0..M /\ m - 1 \in Nat /\ m \in Nat /\ ~(m <= m - 1)
      BY <2>2, <3>1
    <3> HIDE DEF T
    <3> QED BY <2>1, <3>2
  <2>5. Good(m - 1)
    BY <2>4
  <2>6. PICK q \in Seq(Nat) : Len(q) <= m - 1 /\ Lists(q, Low(m - 1))
    BY <2>5
  <2>7. CASE m - 1 \in S
    <3>0. \A x \in S : x < m <=> (x < m - 1 \/ x = m - 1)
      BY <1>0, <2>4
    <3>1. Low(m) = Low(m - 1) \cup {m - 1}
      BY <2>7, <3>0
    <3>2. Append(q, m - 1) \in Seq(Nat) /\ Lists(Append(q, m - 1), Low(m - 1) \cup {m - 1})
      <4>1. \A y \in Low(m - 1) : y < m - 1
        OBVIOUS
      <4> HIDE DEF Low
      <4> QED BY <2>4, <2>6, <4>1, ListOne
    <3>3. Len(Append(q, m - 1)) <= m
      <4>1. Len(Append(q, m - 1)) = Len(q) + 1 /\ Len(q) \in Nat
        OBVIOUS
      <4> HIDE DEF T
      <4> QED BY <2>2, <2>6, <4>1
    <3> QED BY <2>2, <3>1, <3>2, <3>3
  <2>8. CASE m - 1 \notin S
    <3>0. \A x \in S : x < m <=> (x < m - 1 \/ x = m - 1)
      BY <1>0, <2>4
    <3>1. Low(m) = Low(m - 1)
      BY <2>8, <3>0
    <3>2. Len(q) <= m
      <4>1. Len(q) \in Nat
        OBVIOUS
      <4> HIDE DEF T
      <4> QED BY <2>2, <2>6, <4>1
    <3> QED BY <2>2, <2>6, <3>1, <3>2
  <2> QED BY <2>7, <2>8
<1>2. Good(M)
  <2>1. M \in 0..M
    OBVIOUS
  <2> HIDE DEF Good
  <2> QED BY <1>1, <2>1
<1>3. PICK q \in Seq(Nat) : Len(q) <= M /\ Lists(q, Low(M))
  BY <1>2
<1>4. Low(M) = S
  BY <1>0
<1>5. q \in [1..Len(q) -> S] /\ Len(q) \in 0..M
  <2>1. Len(q) \in Nat /\ DOMAIN q = 1..Len(q) /\ q = [i \in 1..Len(q) |-> q[i]]
    OBVIOUS
  <2>2. \A i \in 1..Len(q) : q[i] \in S
    <3>1. Range(q) = S
      BY <1>3, <1>4 DEF Lists
    <3> QED BY <2>1, <3>1 DEF Range
  <2> QED BY <1>3, <2>1, <2>2
<1>6. q \in SeqOf(S, M)
  BY <1>5 DEF SeqOf
<1> QED BY <1>3, <1>4, <1>6

-----------------------------------------------------------------------------
(* One byte.                                                               *)

Decoders == [line : Seq(Parts), data : Seq(Parts), pending : BOOLEAN, keep : BOOLEAN,
             text : Seq(Nat), tools : [0..MaxIndex - 1 -> [active : BOOLEAN, args : Seq(Nat)]],
             usage : Nat, finished : BOOLEAN]

\* The line and the data lines of event e when j of its bytes are in.
LineAt(e, l, j) == CASE j = 1 -> <<Colon>>
                     [] j = 3 -> <<<<e, 1>>>>
                     [] j = 4 /\ l = 1 -> <<<<e, 1>>, <<e, 2>>>>
                     [] j = 5 /\ l = 2 -> <<<<e, 2>>>>
                     [] OTHER -> <<>>
DataAt(e, l, j) == CASE (j = 5 /\ l = 1) \/ (j = 6 /\ l = 2) -> <<<<e, 1>>, <<e, 2>>>>
                     [] j \in {4, 5} /\ l = 2 -> <<<<e, 1>>>>
                     [] OTHER -> <<>>

Reading(d, e, l, j) == /\ d.line = LineAt(e, l, j) /\ d.data = DataAt(e, l, j)
                       /\ d.pending <=> DataAt(e, l, j) # <<>>

\* What the stream's state holds beside the parser's buffers is the same.
SameState(d, f) == /\ f.keep = d.keep /\ f.text = d.text /\ f.tools = d.tools
                   /\ f.usage = d.usage /\ f.finished = d.finished

\* The table, row by row.
LEMMA Table ==
    ASSUME NEW e \in Nat, NEW l \in {1, 2}
    PROVE  /\ LineAt(e, l, 0) = <<>> /\ LineAt(e, l, 1) = <<Colon>> /\ LineAt(e, l, 2) = <<>>
           /\ LineAt(e, l, 3) = <<<<e, 1>>>>
           /\ DataAt(e, l, 0) = <<>> /\ DataAt(e, l, 1) = <<>> /\ DataAt(e, l, 2) = <<>>
           /\ DataAt(e, l, 3) = <<>>
           /\ l = 1 => /\ LineAt(e, l, 4) = <<<<e, 1>>, <<e, 2>>>> /\ DataAt(e, l, 4) = <<>>
                       /\ LineAt(e, l, 5) = <<>> /\ DataAt(e, l, 5) = <<<<e, 1>>, <<e, 2>>>>
           /\ l = 2 => /\ LineAt(e, l, 4) = <<>> /\ DataAt(e, l, 4) = <<<<e, 1>>>>
                       /\ LineAt(e, l, 5) = <<<<e, 2>>>> /\ DataAt(e, l, 5) = <<<<e, 1>>>>
                       /\ LineAt(e, l, 6) = <<>> /\ DataAt(e, l, 6) = <<<<e, 1>>, <<e, 2>>>>
<1>1. CASE l = 1
  BY <1>1 DEF LineAt, DataAt
<1>2. CASE l = 2
  BY <1>2 DEF LineAt, DataAt
<1> QED BY <1>1, <1>2

\* A byte of a line, and the end of a line.
LEMMA ByteInLine ==
    ASSUME NEW d \in Decoders, d.keep, NEW b \in Parts, b # NL,
           NEW f, f = OnByte(d, b)
    PROVE  /\ f \in Decoders /\ f.line = Append(d.line, b) /\ f.data = d.data
           /\ f.pending = d.pending /\ SameState(d, f)
<1>1. f = [d EXCEPT !.line = Append(@, b)]
  BY DEF OnByte
<1>2. Append(d.line, b) \in Seq(Parts)
  <2>1. d.line \in Seq(Parts)
    BY DEF Decoders
  <2> HIDE DEF Parts
  <2> QED BY <2>1
<1> HIDE DEF Parts
<1> QED BY <1>1, <1>2 DEF Decoders, SameState

\* The end of a comment line: it is skipped.
LEMMA CommentLine ==
    ASSUME NEW d \in Decoders, d.keep, d.line = <<Colon>>,
           NEW f, f = OnByte(d, NL)
    PROVE  /\ f \in Decoders /\ f.line = <<>> /\ f.data = d.data
           /\ f.pending = d.pending /\ SameState(d, f)
<1>1. d.line # <<>> /\ d.line[1] = Colon
  OBVIOUS
<1>2. f = [d EXCEPT !.line = <<>>]
  BY <1>1 DEF OnByte, ProcessLine
<1>3. <<>> \in Seq(Parts)
  OBVIOUS
<1> HIDE DEF Parts
<1> QED BY <1>2, <1>3 DEF Decoders, SameState

\* The end of a data line: it adds up.
LEMMA DataLine ==
    ASSUME NEW d \in Decoders, d.keep, d.line # <<>>, d.line[1] # Colon,
           NEW f, f = OnByte(d, NL)
    PROVE  /\ f \in Decoders /\ f.line = <<>> /\ f.data = d.data \o d.line
           /\ f.pending /\ SameState(d, f)
<1>1. f = [d EXCEPT !.data = @ \o d.line, !.pending = TRUE, !.line = <<>>]
  BY DEF OnByte, ProcessLine
<1>2. d.data \o d.line \in Seq(Parts) /\ <<>> \in Seq(Parts)
  <2>1. d.line \in Seq(Parts) /\ d.data \in Seq(Parts)
    BY DEF Decoders
  <2> HIDE DEF Parts
  <2> QED BY <2>1
<1> HIDE DEF Parts
<1> QED BY <1>1, <1>2 DEF Decoders, SameState

\* The places before the last.
LEMMA Below == \A j \in Nat : (j + 1 < 6 => j \in 0..4) /\ (j + 1 < 7 => j \in 0..5)
OBVIOUS

\* Before the blank line that ends it, a byte of an event moves the parser on in
\* the table and nothing else.
LEMMA ReadByte ==
    ASSUME NEW d \in Decoders, d.keep, NEW e \in Nat, e # 0, NEW l \in {1, 2}, NEW j \in Nat,
           j + 1 < Len(Bytes(e, l)), Reading(d, e, l, j)
    PROVE  LET f == OnByte(d, Bytes(e, l)[j + 1])
           IN f \in Decoders /\ Reading(f, e, l, j + 1) /\ SameState(d, f)
<1> PICK b : b = Bytes(e, l)[j + 1]
    OBVIOUS
<1> PICK f : f = OnByte(d, b)
    OBVIOUS
<1> SUFFICES f \in Decoders /\ Reading(f, e, l, j + 1) /\ SameState(d, f)
    OBVIOUS
<1>3. /\ <<e, 1>> \in Parts /\ <<e, 2>> \in Parts /\ Colon \in Parts
      /\ <<e, 1>> # NL /\ <<e, 2>> # NL /\ Colon # NL /\ <<e, 1>> # Colon /\ <<e, 2>> # Colon
  BY DEF Parts, Colon, NL
<1>4. /\ Bytes(e, l)[1] = Colon /\ Bytes(e, l)[2] = NL /\ Bytes(e, l)[3] = <<e, 1>>
      /\ l = 1 => /\ Bytes(e, l)[4] = <<e, 2>> /\ Bytes(e, l)[5] = NL
      /\ l = 2 => /\ Bytes(e, l)[4] = NL /\ Bytes(e, l)[5] = <<e, 2>> /\ Bytes(e, l)[6] = NL
      /\ l = 1 => Len(Bytes(e, l)) = 6
      /\ l = 2 => Len(Bytes(e, l)) = 7
  BY BytesAre
<1>5. <<<<e, 1>>>> # <<>> /\ <<<<e, 1>>, <<e, 2>>>> # <<>>
  OBVIOUS
<1>6. Append(<<>>, <<e, 2>>) = <<<<e, 2>>>>
  OBVIOUS
<1>1. CASE l = 1
  <2>1. j \in 0..4
    BY <1>1, <1>4, Below
  <2>2. CASE j = 0
    <3>1. /\ d.line = LineAt(e, l, 0) /\ d.data = DataAt(e, l, 0)
          /\ (d.pending <=> DataAt(e, l, 0) # <<>>)
      BY <2>2 DEF Reading
    <3>2. b = Bytes(e, l)[1]
      BY <2>2
    <3>3. d.line = <<>> /\ d.data = <<>> /\ ~d.pending /\ b = Colon
      BY <1>1, <1>4, <3>1, <3>2, Table
    <3>4. /\ f \in Decoders /\ f.line = Append(d.line, b)
          /\ f.data = d.data /\ f.pending = d.pending /\ SameState(d, f)
      <4>1. b \in Parts /\ b # NL
        BY <1>3, <3>3
      <4> HIDE DEF Parts
      <4> QED BY <4>1, ByteInLine
    <3>5. f.line = <<Colon>> /\ f.data = <<>> /\ ~f.pending
      BY <1>3, <3>3, <3>4
    <3>6. Reading(f, e, l, 1)
      BY <1>1, <1>5, <3>5, Table DEF Reading
    <3>7. j + 1 = 1
      BY <2>2
    <3> QED BY <3>4, <3>6, <3>7
  <2>3. CASE j = 1
    <3>1. /\ d.line = LineAt(e, l, 1) /\ d.data = DataAt(e, l, 1)
          /\ (d.pending <=> DataAt(e, l, 1) # <<>>)
      BY <2>3 DEF Reading
    <3>2. b = Bytes(e, l)[2]
      BY <2>3
    <3>3. d.line = <<Colon>> /\ d.data = <<>> /\ ~d.pending /\ b = NL
      BY <1>1, <1>4, <3>1, <3>2, Table
    <3>4. /\ f \in Decoders /\ f.line = <<>>
          /\ f.data = <<>> /\ f.pending = d.pending /\ SameState(d, f)
      BY <1>3, <3>3, CommentLine
    <3>5. f.line = <<>> /\ f.data = <<>> /\ ~f.pending
      BY <1>3, <3>3, <3>4
    <3>6. Reading(f, e, l, 2)
      BY <1>1, <1>5, <3>5, Table DEF Reading
    <3>7. j + 1 = 2
      BY <2>3
    <3> QED BY <3>4, <3>6, <3>7
  <2>4. CASE j = 2
    <3>1. /\ d.line = LineAt(e, l, 2) /\ d.data = DataAt(e, l, 2)
          /\ (d.pending <=> DataAt(e, l, 2) # <<>>)
      BY <2>4 DEF Reading
    <3>2. b = Bytes(e, l)[3]
      BY <2>4
    <3>3. d.line = <<>> /\ d.data = <<>> /\ ~d.pending /\ b = <<e, 1>>
      BY <1>1, <1>4, <3>1, <3>2, Table
    <3>4. /\ f \in Decoders /\ f.line = Append(d.line, b)
          /\ f.data = d.data /\ f.pending = d.pending /\ SameState(d, f)
      <4>1. b \in Parts /\ b # NL
        BY <1>3, <3>3
      <4> HIDE DEF Parts
      <4> QED BY <4>1, ByteInLine
    <3>5. f.line = <<<<e, 1>>>> /\ f.data = <<>> /\ ~f.pending
      BY <1>3, <3>3, <3>4
    <3>6. Reading(f, e, l, 3)
      BY <1>1, <1>5, <3>5, Table DEF Reading
    <3>7. j + 1 = 3
      BY <2>4
    <3> QED BY <3>4, <3>6, <3>7
  <2>5. CASE j = 3
    <3>1. /\ d.line = LineAt(e, l, 3) /\ d.data = DataAt(e, l, 3)
          /\ (d.pending <=> DataAt(e, l, 3) # <<>>)
      BY <2>5 DEF Reading
    <3>2. b = Bytes(e, l)[4]
      BY <2>5
    <3>3. d.line = <<<<e, 1>>>> /\ d.data = <<>> /\ ~d.pending /\ b = <<e, 2>>
      BY <1>1, <1>4, <3>1, <3>2, Table
    <3>4. /\ f \in Decoders /\ f.line = Append(d.line, b)
          /\ f.data = d.data /\ f.pending = d.pending /\ SameState(d, f)
      <4>1. b \in Parts /\ b # NL
        BY <1>3, <3>3
      <4> HIDE DEF Parts
      <4> QED BY <4>1, ByteInLine
    <3>5. f.line = <<<<e, 1>>, <<e, 2>>>> /\ f.data = <<>> /\ ~f.pending
      BY <1>3, <3>3, <3>4
    <3>6. Reading(f, e, l, 4)
      BY <1>1, <1>5, <3>5, Table DEF Reading
    <3>7. j + 1 = 4
      BY <2>5
    <3> QED BY <3>4, <3>6, <3>7
  <2>6. CASE j = 4
    <3>1. /\ d.line = LineAt(e, l, 4) /\ d.data = DataAt(e, l, 4)
          /\ (d.pending <=> DataAt(e, l, 4) # <<>>)
      BY <2>6 DEF Reading
    <3>2. b = Bytes(e, l)[5]
      BY <2>6
    <3>3. d.line = <<<<e, 1>>, <<e, 2>>>> /\ d.data = <<>> /\ ~d.pending /\ b = NL
      BY <1>1, <1>4, <3>1, <3>2, Table
    <3>4. /\ f \in Decoders /\ f.line = <<>>
          /\ f.data = <<>> \o <<<<e, 1>>, <<e, 2>>>> /\ f.pending /\ SameState(d, f)
      <4>1. d.line # <<>> /\ d.line[1] # Colon
        BY <1>3, <3>3
      <4> QED BY <1>3, <3>3, <4>1, DataLine
    <3>5. f.line = <<>> /\ f.data = <<<<e, 1>>, <<e, 2>>>> /\ f.pending
      BY <1>3, <3>3, <3>4
    <3>6. Reading(f, e, l, 5)
      BY <1>1, <1>5, <3>5, Table DEF Reading
    <3>7. j + 1 = 5
      BY <2>6
    <3> QED BY <3>4, <3>6, <3>7
  <2> QED BY <2>1, <2>2, <2>3, <2>4, <2>5, <2>6
<1>2. CASE l = 2
  <2>1. j \in 0..5
    BY <1>2, <1>4, Below
  <2>2. CASE j = 0
    <3>1. /\ d.line = LineAt(e, l, 0) /\ d.data = DataAt(e, l, 0)
          /\ (d.pending <=> DataAt(e, l, 0) # <<>>)
      BY <2>2 DEF Reading
    <3>2. b = Bytes(e, l)[1]
      BY <2>2
    <3>3. d.line = <<>> /\ d.data = <<>> /\ ~d.pending /\ b = Colon
      BY <1>2, <1>4, <3>1, <3>2, Table
    <3>4. /\ f \in Decoders /\ f.line = Append(d.line, b)
          /\ f.data = d.data /\ f.pending = d.pending /\ SameState(d, f)
      <4>1. b \in Parts /\ b # NL
        BY <1>3, <3>3
      <4> HIDE DEF Parts
      <4> QED BY <4>1, ByteInLine
    <3>5. f.line = <<Colon>> /\ f.data = <<>> /\ ~f.pending
      BY <1>3, <3>3, <3>4
    <3>6. Reading(f, e, l, 1)
      BY <1>2, <1>5, <3>5, Table DEF Reading
    <3>7. j + 1 = 1
      BY <2>2
    <3> QED BY <3>4, <3>6, <3>7
  <2>3. CASE j = 1
    <3>1. /\ d.line = LineAt(e, l, 1) /\ d.data = DataAt(e, l, 1)
          /\ (d.pending <=> DataAt(e, l, 1) # <<>>)
      BY <2>3 DEF Reading
    <3>2. b = Bytes(e, l)[2]
      BY <2>3
    <3>3. d.line = <<Colon>> /\ d.data = <<>> /\ ~d.pending /\ b = NL
      BY <1>2, <1>4, <3>1, <3>2, Table
    <3>4. /\ f \in Decoders /\ f.line = <<>>
          /\ f.data = <<>> /\ f.pending = d.pending /\ SameState(d, f)
      BY <1>3, <3>3, CommentLine
    <3>5. f.line = <<>> /\ f.data = <<>> /\ ~f.pending
      BY <1>3, <3>3, <3>4
    <3>6. Reading(f, e, l, 2)
      BY <1>2, <1>5, <3>5, Table DEF Reading
    <3>7. j + 1 = 2
      BY <2>3
    <3> QED BY <3>4, <3>6, <3>7
  <2>4. CASE j = 2
    <3>1. /\ d.line = LineAt(e, l, 2) /\ d.data = DataAt(e, l, 2)
          /\ (d.pending <=> DataAt(e, l, 2) # <<>>)
      BY <2>4 DEF Reading
    <3>2. b = Bytes(e, l)[3]
      BY <2>4
    <3>3. d.line = <<>> /\ d.data = <<>> /\ ~d.pending /\ b = <<e, 1>>
      BY <1>2, <1>4, <3>1, <3>2, Table
    <3>4. /\ f \in Decoders /\ f.line = Append(d.line, b)
          /\ f.data = d.data /\ f.pending = d.pending /\ SameState(d, f)
      <4>1. b \in Parts /\ b # NL
        BY <1>3, <3>3
      <4> HIDE DEF Parts
      <4> QED BY <4>1, ByteInLine
    <3>5. f.line = <<<<e, 1>>>> /\ f.data = <<>> /\ ~f.pending
      BY <1>3, <3>3, <3>4
    <3>6. Reading(f, e, l, 3)
      BY <1>2, <1>5, <3>5, Table DEF Reading
    <3>7. j + 1 = 3
      BY <2>4
    <3> QED BY <3>4, <3>6, <3>7
  <2>5. CASE j = 3
    <3>1. /\ d.line = LineAt(e, l, 3) /\ d.data = DataAt(e, l, 3)
          /\ (d.pending <=> DataAt(e, l, 3) # <<>>)
      BY <2>5 DEF Reading
    <3>2. b = Bytes(e, l)[4]
      BY <2>5
    <3>3. d.line = <<<<e, 1>>>> /\ d.data = <<>> /\ ~d.pending /\ b = NL
      BY <1>2, <1>4, <3>1, <3>2, Table
    <3>4. /\ f \in Decoders /\ f.line = <<>>
          /\ f.data = <<>> \o <<<<e, 1>>>> /\ f.pending /\ SameState(d, f)
      <4>1. d.line # <<>> /\ d.line[1] # Colon
        BY <1>3, <3>3
      <4> QED BY <1>3, <3>3, <4>1, DataLine
    <3>5. f.line = <<>> /\ f.data = <<<<e, 1>>>> /\ f.pending
      BY <1>3, <3>3, <3>4
    <3>6. Reading(f, e, l, 4)
      BY <1>2, <1>5, <3>5, Table DEF Reading
    <3>7. j + 1 = 4
      BY <2>5
    <3> QED BY <3>4, <3>6, <3>7
  <2>6. CASE j = 4
    <3>1. /\ d.line = LineAt(e, l, 4) /\ d.data = DataAt(e, l, 4)
          /\ (d.pending <=> DataAt(e, l, 4) # <<>>)
      BY <2>6 DEF Reading
    <3>2. b = Bytes(e, l)[5]
      BY <2>6
    <3>3. d.line = <<>> /\ d.data = <<<<e, 1>>>> /\ d.pending /\ b = <<e, 2>>
      BY <1>2, <1>4, <1>5, <3>1, <3>2, Table
    <3>4. /\ f \in Decoders /\ f.line = Append(d.line, b)
          /\ f.data = d.data /\ f.pending = d.pending /\ SameState(d, f)
      <4>1. b \in Parts /\ b # NL
        BY <1>3, <3>3
      <4> HIDE DEF Parts
      <4> QED BY <4>1, ByteInLine
    <3>5. f.line = <<<<e, 2>>>> /\ f.data = <<<<e, 1>>>> /\ f.pending
      BY <1>6, <3>3, <3>4
    <3>6. Reading(f, e, l, 5)
      BY <1>2, <1>5, <3>5, Table DEF Reading
    <3>7. j + 1 = 5
      BY <2>6
    <3> QED BY <3>4, <3>6, <3>7
  <2>7. CASE j = 5
    <3>1. /\ d.line = LineAt(e, l, 5) /\ d.data = DataAt(e, l, 5)
          /\ (d.pending <=> DataAt(e, l, 5) # <<>>)
      BY <2>7 DEF Reading
    <3>2. b = Bytes(e, l)[6]
      BY <2>7
    <3>3. d.line = <<<<e, 2>>>> /\ d.data = <<<<e, 1>>>> /\ d.pending /\ b = NL
      BY <1>2, <1>4, <1>5, <3>1, <3>2, Table
    <3>4. /\ f \in Decoders /\ f.line = <<>>
          /\ f.data = <<<<e, 1>>>> \o <<<<e, 2>>>> /\ f.pending /\ SameState(d, f)
      <4>1. d.line # <<>> /\ d.line[1] # Colon
        BY <1>3, <3>3
      <4> QED BY <1>3, <3>3, <4>1, DataLine
    <3>5. f.line = <<>> /\ f.data = <<<<e, 1>>, <<e, 2>>>> /\ f.pending
      BY <1>3, <3>3, <3>4
    <3>6. Reading(f, e, l, 6)
      BY <1>2, <1>5, <3>5, Table DEF Reading
    <3>7. j + 1 = 6
      BY <2>7
    <3> QED BY <3>4, <3>6, <3>7
  <2> QED BY <2>1, <2>2, <2>3, <2>4, <2>5, <2>6, <2>7
<1> QED BY <1>1, <1>2

-----------------------------------------------------------------------------
(* One event.                                                              *)

\* The events of a kind among the first c, and the fragments of a call.
Kind(s, what, c) == {e \in 1..c : s[e].what = what}
Fragments(s, i, c) == {e \in Kind(s, "call", c) : s[e].index = i}

\* d holds what the first c events say.
Taken(s, d, c) ==
    /\ Lists(d.text, Kind(s, "text", c))
    /\ \A i \in 0..MaxIndex - 1 :
        /\ Lists(d.tools[i].args, Fragments(s, i, c))
        /\ d.tools[i].active <=> Fragments(s, i, c) # {}
    /\ d.usage \in {0} \cup Kind(s, "usage", c) /\ \A e \in Kind(s, "usage", c) : e <= d.usage
    /\ d.finished => Kind(s, "done", c) # {}

\* The sets grow by the event that comes.
LEMMA KindGrows ==
    ASSUME NEW s, NEW e \in Nat, e # 0, NEW what
    PROVE  /\ Kind(s, what, e) = IF s[e].what = what THEN Kind(s, what, e - 1) \cup {e}
                                                     ELSE Kind(s, what, e - 1)
           /\ \A y \in Kind(s, what, e - 1) : y \in Nat /\ y < e
<1>1. \A y \in 1..e : y = e \/ y \in 1..e - 1
  OBVIOUS
<1>2. e \in 1..e /\ \A y \in 1..e - 1 : y \in 1..e /\ y < e /\ y \in Nat
  OBVIOUS
<1> QED BY <1>1, <1>2 DEF Kind

\* The same of the fragments of one call.
LEMMA FragmentsGrow ==
    ASSUME NEW s, NEW e \in Nat, e # 0, NEW i
    PROVE  /\ Fragments(s, i, e) = IF s[e].what = "call" /\ s[e].index = i
                                   THEN Fragments(s, i, e - 1) \cup {e}
                                   ELSE Fragments(s, i, e - 1)
           /\ \A y \in Fragments(s, i, e - 1) : y \in Nat /\ y < e
BY KindGrows DEF Fragments

\* Field by field, what an event changes.
LEMMA EventTaken ==
    ASSUME NEW d \in Decoders, NEW e \in Nat, e # 0,
           script[e].what \in Kinds, script[e].index \in Nat,
           d.keep, ~cancelFlag, Taken(script, d, e - 1),
           NEW g, g = OnEvent(d, e)
    PROVE  g \in Decoders /\ g.keep /\ g.line = d.line /\ Taken(script, g, e)
<1> PICK w, x : w = script[e].what /\ x = script[e].index
    OBVIOUS
<1> DEFINE K(what) == Kind(script, what, e - 1)
           F(i) == Fragments(script, i, e - 1)
<1>0. /\ d.text \in Seq(Nat) /\ d.usage \in Nat /\ d.finished \in BOOLEAN
      /\ \A i \in 0..MaxIndex - 1 : d.tools[i].args \in Seq(Nat) /\ d.tools[i].active \in BOOLEAN
      /\ DOMAIN d.tools = 0..MaxIndex - 1
  BY DEF Decoders
<1>1. /\ Lists(d.text, K("text"))
      /\ \A i \in 0..MaxIndex - 1 : Lists(d.tools[i].args, F(i)) /\ (d.tools[i].active <=> F(i) # {})
      /\ d.usage \in {0} \cup K("usage") /\ \A y \in K("usage") : y <= d.usage
      /\ d.finished => K("done") # {}
  BY DEF Taken
<1>2. \A what : /\ Kind(script, what, e) = IF w = what THEN K(what) \cup {e} ELSE K(what)
                /\ \A y \in K(what) : y \in Nat /\ y < e
  BY KindGrows
<1>3. \A i : /\ Fragments(script, i, e) = IF w = "call" /\ x = i THEN F(i) \cup {e} ELSE F(i)
             /\ \A y \in F(i) : y \in Nat /\ y < e
  BY FragmentsGrow
<1> HIDE DEF K, F
<1>4. CASE w = "done"
  <2>1. g = [d EXCEPT !.finished = TRUE]
    BY <1>4 DEF OnEvent
  <2>2. /\ g \in Decoders /\ g.keep /\ g.line = d.line /\ g.text = d.text /\ g.tools = d.tools
        /\ g.usage = d.usage
    <3> HIDE DEF Parts
    <3> QED BY <2>1 DEF Decoders
  <2>3. /\ Kind(script, "text", e) = K("text") /\ Kind(script, "usage", e) = K("usage")
        /\ Kind(script, "done", e) # {} /\ \A i : Fragments(script, i, e) = F(i)
    BY <1>2, <1>3, <1>4
  <2> QED BY <1>1, <2>2, <2>3 DEF Taken
<1>5. CASE w = "text"
  <2>1. g = [d EXCEPT !.text = Append(@, e)]
    BY <1>5 DEF OnEvent
  <2>2. Append(d.text, e) \in Seq(Nat) /\ Lists(Append(d.text, e), K("text") \cup {e})
    BY <1>0, <1>1, <1>2, ListOne
  <2>3. /\ g \in Decoders /\ g.keep /\ g.line = d.line /\ g.text = Append(d.text, e)
        /\ g.tools = d.tools /\ g.usage = d.usage /\ g.finished = d.finished
    <3> HIDE DEF Parts
    <3> QED BY <2>1, <2>2 DEF Decoders
  <2>4. /\ Kind(script, "text", e) = K("text") \cup {e} /\ Kind(script, "usage", e) = K("usage")
        /\ Kind(script, "done", e) = K("done") /\ \A i : Fragments(script, i, e) = F(i)
    BY <1>2, <1>3, <1>5
  <2> QED BY <1>1, <2>2, <2>3, <2>4 DEF Taken
<1>6. CASE w = "usage"
  <2>1. g = [d EXCEPT !.usage = e]
    BY <1>6 DEF OnEvent
  <2>2. /\ g \in Decoders /\ g.keep /\ g.line = d.line /\ g.text = d.text
        /\ g.tools = d.tools /\ g.usage = e /\ g.finished = d.finished
    <3> HIDE DEF Parts
    <3> QED BY <2>1 DEF Decoders
  <2>3. /\ Kind(script, "text", e) = K("text") /\ Kind(script, "usage", e) = K("usage") \cup {e}
        /\ Kind(script, "done", e) = K("done") /\ \A i : Fragments(script, i, e) = F(i)
    BY <1>2, <1>3, <1>6
  <2>4. \A y \in K("usage") \cup {e} : y <= e
    BY <1>2
  <2> QED BY <1>1, <2>2, <2>3, <2>4 DEF Taken
<1>7. CASE w = "junk"
  <2>1. g = d
    BY <1>7 DEF OnEvent
  <2>2. /\ Kind(script, "text", e) = K("text") /\ Kind(script, "usage", e) = K("usage")
        /\ Kind(script, "done", e) = K("done") /\ \A i : Fragments(script, i, e) = F(i)
    BY <1>2, <1>3, <1>7
  <2> QED BY <1>1, <2>1, <2>2 DEF Taken
<1>8. CASE w = "call" /\ x \notin 0..MaxIndex - 1
  <2>1. g = d
    BY <1>0, <1>8 DEF OnEvent, WithCall
  <2>2. /\ Kind(script, "text", e) = K("text") /\ Kind(script, "usage", e) = K("usage")
        /\ Kind(script, "done", e) = K("done")
        /\ \A i \in 0..MaxIndex - 1 : Fragments(script, i, e) = F(i)
    BY <1>2, <1>3, <1>8
  <2> QED BY <1>1, <2>1, <2>2 DEF Taken
<1>9. CASE w = "call" /\ x \in 0..MaxIndex - 1
  <2>1. g = [d EXCEPT !.tools[x] = [active |-> TRUE, args |-> Append(@.args, e)]]
    BY <1>0, <1>9 DEF OnEvent, WithCall
  <2>2. Append(d.tools[x].args, e) \in Seq(Nat) /\ Lists(Append(d.tools[x].args, e), F(x) \cup {e})
    <3>1. d.tools[x].args \in Seq(Nat) /\ Lists(d.tools[x].args, F(x)) /\ \A y \in F(x) : y < e
      BY <1>0, <1>1, <1>3, <1>9
    <3> QED BY <3>1, ListOne
  <2>3. /\ g \in Decoders /\ g.keep /\ g.line = d.line /\ g.text = d.text
        /\ g.usage = d.usage /\ g.finished = d.finished
        /\ g.tools[x].active /\ g.tools[x].args = Append(d.tools[x].args, e)
        /\ \A i \in 0..MaxIndex - 1 : i # x => g.tools[i] = d.tools[i]
    <3> HIDE DEF Parts
    <3> PICK t : t = [active |-> TRUE, args |-> Append(d.tools[x].args, e)]
        OBVIOUS
    <3> PICK ts : ts = [d.tools EXCEPT ![x] = t]
        OBVIOUS
    <3>1. t \in [active : BOOLEAN, args : Seq(Nat)] /\ t.active /\ t.args = Append(d.tools[x].args, e)
      BY <2>2
    <3>2. /\ ts \in [0..MaxIndex - 1 -> [active : BOOLEAN, args : Seq(Nat)]]
          /\ ts[x] = t /\ \A i \in 0..MaxIndex - 1 : i # x => ts[i] = d.tools[i]
      BY <1>9, <3>1 DEF Decoders
    <3>3. g = [d EXCEPT !.tools = ts]
      BY <2>1
    <3>4. /\ g \in Decoders /\ g.keep /\ g.line = d.line /\ g.text = d.text
          /\ g.usage = d.usage /\ g.finished = d.finished /\ g.tools = ts
      BY <3>2, <3>3 DEF Decoders
    <3>5. g.tools[x] = t /\ \A i \in 0..MaxIndex - 1 : i # x => g.tools[i] = d.tools[i]
      <4>1. g.tools = ts
        BY <3>4
      <4>2. \A u, v : u = v => (u[x] = v[x] /\ \A i : u[i] = v[i])
        OBVIOUS
      <4> QED BY <3>2, <4>1, <4>2
    <3> QED BY <3>1, <3>4, <3>5, Zenon
  <2>4. /\ Kind(script, "text", e) = K("text") /\ Kind(script, "usage", e) = K("usage")
        /\ Kind(script, "done", e) = K("done") /\ Fragments(script, x, e) = F(x) \cup {e}
        /\ \A i : i # x => Fragments(script, i, e) = F(i)
    BY <1>2, <1>3, <1>9
  <2>5. \A i \in 0..MaxIndex - 1 : /\ Lists(g.tools[i].args, Fragments(script, i, e))
                                   /\ g.tools[i].active <=> Fragments(script, i, e) # {}
    BY <1>1, <2>2, <2>3, <2>4
  <2> QED BY <1>1, <2>3, <2>4, <2>5 DEF Taken
<1> QED BY <1>4, <1>5, <1>6, <1>7, <1>8, <1>9 DEF Kinds

\* An event after a cancel ends the stream and shows nothing (oce_llm.c:202-205).
LEMMA EventCancelled ==
    ASSUME NEW d \in Decoders, cancelFlag, NEW e, NEW g, g = OnEvent(d, e)
    PROVE  g \in Decoders /\ ~g.keep /\ g.line = d.line /\ g.text = d.text
<1>1. g = [d EXCEPT !.keep = FALSE]
  BY DEF OnEvent
<1> HIDE DEF Parts
<1> QED BY <1>1 DEF Decoders

\* The blank line that ends an event.
LEMMA EventEnds ==
    ASSUME NEW d \in Decoders, d.keep, NEW e, d.line = <<>>, d.data = <<<<e, 1>>, <<e, 2>>>>, d.pending,
           NEW f, f = OnByte(d, NL), NEW g, g = OnEvent(d, e), g \in Decoders
    PROVE  f \in Decoders /\ f.line = <<>> /\ f.data = <<>> /\ ~f.pending /\ SameState(g, f)
<1>1. d.data[1][1] = e
  OBVIOUS
<1>2. Dispatch(d) = [g EXCEPT !.data = <<>>, !.pending = FALSE]
  BY <1>1 DEF Dispatch
<1>3. ProcessLine(d) = Dispatch(d)
  BY DEF ProcessLine
<1>4. f = [[g EXCEPT !.data = <<>>, !.pending = FALSE] EXCEPT !.line = <<>>]
  BY <1>2, <1>3 DEF OnByte
<1>5. <<>> \in Seq(Parts)
  OBVIOUS
<1> HIDE DEF Parts
<1> QED BY <1>4, <1>5 DEF Decoders, SameState

-----------------------------------------------------------------------------
(* A chunk.                                                                *)

\* d is the decoder of the first n bytes of what is sent.
At(s, d, n) ==
    \E c \in 0..Len(s), j \in 0..6 :
        /\ n = Len(Sent(s)[c]) + j /\ Taken(s, d, c)
        /\ j = 0 => d.line = <<>> /\ d.data = <<>> /\ ~d.pending
        /\ j # 0 => /\ c < Len(s) /\ j < Len(Bytes(c + 1, s[c + 1].lines))
                    /\ Reading(d, c + 1, s[c + 1].lines, j)

\* What was taken does not depend on the buffers.
LEMMA TakenSame ==
    ASSUME NEW s, NEW d, NEW f, NEW c, SameState(d, f), Taken(s, d, c)
    PROVE  Taken(s, f, c)
BY DEF SameState, Taken

\* How many bytes an event has.
LEMMA BytesLength ==
    ASSUME NEW e \in Nat, NEW l \in {1, 2}
    PROVE  (l = 1 => Len(Bytes(e, l)) = 6) /\ (l = 2 => Len(Bytes(e, l)) = 7)
BY BytesAre

\* What is read when only the blank line that ends the event is still to come.
LEMMA EventRead ==
    ASSUME NEW d, NEW e \in Nat, NEW l \in {1, 2}, NEW j \in {5, 6},
           l = 1 => j = 5, l = 2 => j = 6, Reading(d, e, l, j)
    PROVE  /\ d.line = <<>> /\ d.data = <<<<e, 1>>, <<e, 2>>>> /\ d.pending
           /\ Bytes(e, l)[j + 1] = NL
<1>1. <<<<e, 1>>, <<e, 2>>>> # <<>>
  OBVIOUS
<1>2. CASE l = 1
  <2>1. Reading(d, e, 1, 5) /\ j + 1 = 6
    BY <1>2
  <2>2. LineAt(e, 1, 5) = <<>> /\ DataAt(e, 1, 5) = <<<<e, 1>>, <<e, 2>>>>
    BY Table
  <2>3. Bytes(e, 1)[6] = NL
    BY BytesAre
  <2> QED BY <1>1, <1>2, <2>1, <2>2, <2>3 DEF Reading
<1>3. CASE l = 2
  <2>1. Reading(d, e, 2, 6) /\ j + 1 = 7
    BY <1>3
  <2>2. LineAt(e, 2, 6) = <<>> /\ DataAt(e, 2, 6) = <<<<e, 1>>, <<e, 2>>>>
    BY Table
  <2>3. Bytes(e, 2)[7] = NL
    BY BytesAre
  <2> QED BY <1>1, <1>3, <2>1, <2>2, <2>3 DEF Reading
<1> QED BY <1>2, <1>3

\* Where the next byte is, by numbers.
LEMMA Places ==
    \A j \in 0..6, L \in {6, 7} :
        (j # 0 => j < L) => /\ j \in Nat /\ j < L /\ j + 1 \in 1..L
                            /\ j + 1 < L => j + 1 \in 0..6 /\ j + 1 # 0
                            /\ j + 1 = 6 => j = 5
                            /\ j + 1 = 7 => j = 6
                            /\ ~(j + 1 < L) => j + 1 = L
OBVIOUS

\* Sums.
LEMMA PlusOne ==
    \A u, v \in Nat : (u + v) + 1 = u + (v + 1) /\ (u + v) + 0 = u + v
OBVIOUS

\* The next byte of the wire (oce_http_sse_feed).
LEMMA StepByte ==
    ASSUME script \in Scripts, NEW d \in Decoders, d.keep, NEW n \in Nat, n < Len(Wire(script)),
           At(script, d, n), NEW f, f = OnByte(d, Wire(script)[n + 1])
    PROVE  /\ f \in Decoders /\ (f.keep => At(script, f, n + 1))
           /\ cancelFlag => f.text = d.text
           /\ ~cancelFlag => f.keep
<1> PICK N \in Nat : N = Len(script)
    BY ScriptsAre
<1>1. PICK c \in 0..N, j \in 0..6 :
        /\ n = Len(Sent(script)[c]) + j /\ Taken(script, d, c)
        /\ j = 0 => d.line = <<>> /\ d.data = <<>> /\ ~d.pending
        /\ j # 0 => /\ c < N /\ j < Len(Bytes(c + 1, script[c + 1].lines))
                    /\ Reading(d, c + 1, script[c + 1].lines, j)
  BY DEF At
<1>2. c \in 0..N - 1 /\ c < N
  <2>1. c # N
    <3> SUFFICES ASSUME c = N PROVE FALSE
        OBVIOUS
    <3>1. j = 0
      BY <1>1
    <3>2. n = Len(Wire(script)) + j
      BY <1>1, SentIs
    <3> QED BY <3>1, <3>2
  <2> QED BY <2>1
<1> PICK e \in Nat : e = c + 1
    BY <1>2
<1> PICK l : l = script[e].lines
    OBVIOUS
<1>3. e \in 1..N /\ e - 1 = c /\ e \in 0..N /\ e # 0
  BY <1>2
<1>4. l \in {1, 2} /\ script[e].what \in Kinds /\ script[e].index \in Nat
  BY <1>3, EventsAre
<1> PICK L, m : L = Len(Bytes(e, l)) /\ m = Len(Sent(script)[c])
    OBVIOUS
<1>5. (l = 1 => L = 6) /\ (l = 2 => L = 7) /\ L \in {6, 7} /\ j \in Nat /\ j < L
  <2>1. (l = 1 => L = 6) /\ (l = 2 => L = 7)
    BY <1>4, BytesLength
  <2>2. L = 6 \/ L = 7
    BY <1>4, <2>1
  <2>3. j # 0 => j < L
    BY <1>1
  <2> QED BY <2>1, <2>2, <2>3, Places
<1>6. Reading(d, e, l, j)
  <2>1. CASE j = 0
    BY <1>1, <1>4, <2>1, Table DEF Reading
  <2>2. CASE j # 0
    BY <1>1, <2>2
  <2> QED BY <2>1, <2>2
<1> PICK k, b : k = j + 1 /\ b = Bytes(e, l)[k]
    OBVIOUS
<1>7. /\ k \in 1..L /\ (k < L => k \in 0..6 /\ k # 0) /\ (~(k < L) => k = L)
      /\ (k = 6 => j = 5) /\ (k = 7 => j = 6)
  BY <1>5, Places
<1>8. m \in Nat /\ Len(Sent(script)[e]) = m + L
  <2>1. Len(Sent(script)[e - 1]) \in Nat /\ Len(Sent(script)[e]) = Len(Sent(script)[e - 1]) + L
    BY <1>3, SentGrows
  <2> QED BY <1>3, <2>1
<1>12. n = m + j /\ n + 1 = m + k
  <2>1. n = m + j
    BY <1>1
  <2> QED BY <1>5, <1>8, <2>1, PlusOne
<1>9. f = OnByte(d, b)
  <2>1. Wire(script)[m + k] = b
    BY <1>3, <1>7, WireAt
  <2> QED BY <1>12, <2>1
<1>10. CASE k < L
  <2>1. f \in Decoders /\ Reading(f, e, l, k) /\ SameState(d, f)
    <3>1. j + 1 < Len(Bytes(e, l)) /\ b = Bytes(e, l)[j + 1]
      BY <1>10
    <3>2. f \in Decoders /\ Reading(f, e, l, j + 1) /\ SameState(d, f)
      <4>1. e # 0 /\ l \in {1, 2} /\ j \in Nat
        BY <1>3, <1>4, <1>5
      <4> PICK h : h = OnByte(d, Bytes(e, l)[j + 1])
          OBVIOUS
      <4>2. h \in Decoders /\ Reading(h, e, l, j + 1) /\ SameState(d, h)
        BY <1>6, <3>1, <4>1, ReadByte
      <4>3. f = h
        BY <1>9, <3>1
      <4> QED BY <4>2, <4>3
    <3> QED BY <3>2
  <2>2. Taken(script, f, c) /\ f.keep /\ f.text = d.text
    BY <1>1, <2>1, TakenSame DEF SameState
  <2>3. At(script, f, n + 1)
    <3>1. k \in 0..6 /\ k # 0 /\ c < N
      BY <1>1, <1>2, <1>7, <1>10
    <3> QED BY <1>10, <1>12, <2>1, <2>2, <3>1 DEF At
  <2> QED BY <2>1, <2>2, <2>3
<1>11. CASE k = L
  <2>1. d.line = <<>> /\ d.data = <<<<e, 1>>, <<e, 2>>>> /\ d.pending /\ b = NL
    <3>1. (l = 1 => j = 5) /\ (l = 2 => j = 6) /\ j \in {5, 6}
      BY <1>4, <1>5, <1>7, <1>11
    <3>2. /\ d.line = <<>> /\ d.data = <<<<e, 1>>, <<e, 2>>>> /\ d.pending
          /\ Bytes(e, l)[j + 1] = NL
      <4>1. l \in {1, 2} /\ j \in {5, 6}
        BY <1>4, <3>1
      <4>2. d.line = <<>> /\ d.data = <<<<e, 1>>, <<e, 2>>>> /\ d.pending
        BY <1>6, <3>1, <4>1, EventRead
      <4>3. Bytes(e, l)[j + 1] = NL
        BY <1>6, <3>1, <4>1, EventRead
      <4> QED BY <4>2, <4>3
    <3> QED BY <3>2
  <2> PICK g : g = OnEvent(d, e)
      OBVIOUS
  <2>2. n + 1 = Len(Sent(script)[e]) + 0
    <3>1. n + 1 = m + L /\ Len(Sent(script)[e]) = m + L
      BY <1>8, <1>11, <1>12
    <3>2. m + L \in Nat
      <4>1. \A u, v \in Nat : u + v \in Nat
        OBVIOUS
      <4>2. L \in Nat
        BY <1>5
      <4> QED BY <1>8, <4>1, <4>2
    <3>3. \A u \in Nat : u = u + 0
      OBVIOUS
    <3> QED BY <3>1, <3>2, <3>3
  <2>3. CASE cancelFlag
    <3>1. g \in Decoders /\ ~g.keep /\ g.text = d.text
      BY <2>3, EventCancelled
    <3>2. f \in Decoders /\ SameState(g, f)
      BY <1>9, <2>1, <3>1, EventEnds
    <3> QED BY <2>3, <3>1, <3>2 DEF SameState
  <2>4. CASE ~cancelFlag
    <3>1. g \in Decoders /\ g.keep /\ Taken(script, g, e)
      BY <1>1, <1>3, <1>4, <2>4, EventTaken
    <3>2. f \in Decoders /\ f.line = <<>> /\ f.data = <<>> /\ ~f.pending /\ SameState(g, f)
      BY <1>9, <2>1, <3>1, EventEnds
    <3>3. Taken(script, f, e) /\ f.keep
      BY <3>1, <3>2, TakenSame DEF SameState
    <3>4. At(script, f, n + 1)
      <4>1. 0 \in 0..6
        OBVIOUS
      <4> QED BY <1>3, <2>2, <3>2, <3>3, <4>1 DEF At
    <3> QED BY <2>4, <3>2, <3>3, <3>4
  <2> QED BY <2>3, <2>4
<1> QED BY <1>7, <1>10, <1>11, <1>5

\* g is the decoder after each of the first m bytes.
FedBy(g, d, bytes, m) == /\ g = [k \in 0..m |-> g[k]] /\ g[0] = d
                         /\ \A k \in 1..m : g[k] = OnByte(g[k - 1], bytes[k])

\* There is such a function: by induction over m.
LEMMA FedExists ==
    ASSUME NEW d, NEW bytes, NEW N \in Nat
    PROVE  \E g : FedBy(g, d, bytes, N)
<1> DEFINE T == {m \in 0..N : ~ \E g : FedBy(g, d, bytes, m)}
<1>1. ASSUME T # {} PROVE FALSE
  <2>1. PICK m \in T : \A y \in T : m <= y
    <3>1. T \subseteq Nat
      OBVIOUS
    <3> HIDE DEF T
    <3> QED BY <1>1, <3>1, LeastNumber
  <2>2. m \in 0..N /\ ~ \E g : FedBy(g, d, bytes, m)
    OBVIOUS
  <2>3. CASE m = 0
    <3>1. FedBy([k \in 0..0 |-> d], d, bytes, 0)
      BY DEF FedBy
    <3> QED BY <2>2, <2>3, <3>1
  <2>4. CASE m # 0
    <3>1. m - 1 \in 0..N /\ m - 1 \notin T /\ m \in 1..N
      BY <2>1, <2>2, <2>4
    <3>2. PICK g : FedBy(g, d, bytes, m - 1)
      BY <3>1
    <3> HIDE DEF T
    <3> DEFINE h == [k \in 0..m |-> IF k = m THEN OnByte(g[m - 1], bytes[m]) ELSE g[k]]
    <3>3. h = [k \in 0..m |-> h[k]]
      OBVIOUS
    <3>4. h[0] = d
      BY <3>1, <3>2 DEF FedBy
    <3>5. \A k \in 1..m : h[k] = OnByte(h[k - 1], bytes[k])
      <4> SUFFICES ASSUME NEW k \in 1..m PROVE h[k] = OnByte(h[k - 1], bytes[k])
          OBVIOUS
      <4>1. k - 1 \in 0..m /\ k \in 0..m /\ k - 1 # m
        BY <3>1
      <4>2. h[k - 1] = g[k - 1]
        BY <4>1
      <4>3. CASE k = m
        BY <4>1, <4>2, <4>3
      <4>4. CASE k # m
        <5>1. k \in 1..m - 1
          BY <3>1, <4>4
        <5>2. g[k] = OnByte(g[k - 1], bytes[k])
          BY <3>2, <5>1 DEF FedBy
        <5> QED BY <4>1, <4>2, <4>4, <5>2
      <4> QED BY <4>3, <4>4
    <3> HIDE DEF h
    <3>6. FedBy(h, d, bytes, m)
      BY <3>3, <3>4, <3>5 DEF FedBy
    <3> QED BY <2>2, <3>6
  <2> QED BY <2>3, <2>4
<1>2. N \notin T /\ N \in 0..N
  BY <1>1
<1> QED BY <1>2

\* Feed is its last value.
LEMMA FeedIs ==
    ASSUME NEW d, NEW bytes, NEW N \in Nat, N = Len(bytes)
    PROVE  \E g : FedBy(g, d, bytes, N) /\ Feed(d, bytes) = g[N]
<1> DEFINE Step(g) == [k \in 0..N |-> IF k = 0 THEN d ELSE OnByte(g[k - 1], bytes[k])]
           fed == CHOOSE g : g = Step(g)
<1>1. Feed(d, bytes) = fed[N]
  BY DEF Feed
<1>2. PICK g : FedBy(g, d, bytes, N)
  BY FedExists
<1>3. g = Step(g)
  <2>1. \A k \in 0..N : g[k] = IF k = 0 THEN d ELSE OnByte(g[k - 1], bytes[k])
    <3> SUFFICES ASSUME NEW k \in 0..N, k # 0 PROVE g[k] = OnByte(g[k - 1], bytes[k])
        BY <1>2 DEF FedBy
    <3>1. k \in 1..N
      OBVIOUS
    <3> QED BY <1>2, <3>1 DEF FedBy
  <2> QED BY <1>2, <2>1 DEF FedBy
<1>4. fed = Step(fed)
  <2> HIDE DEF Step
  <2> QED BY <1>3
<1> HIDE DEF fed
<1>5. \A k \in 0..N : fed[k] = IF k = 0 THEN d ELSE OnByte(fed[k - 1], bytes[k])
  BY <1>4
<1>6. fed = [k \in 0..N |-> fed[k]]
  BY <1>4
<1>7. fed[0] = d /\ \A k \in 1..N : fed[k] = OnByte(fed[k - 1], bytes[k])
  <2>1. 0 \in 0..N /\ \A k \in 1..N : k \in 0..N /\ k # 0
    OBVIOUS
  <2> QED BY <1>5, <2>1
<1>8. FedBy(fed, d, bytes, N)
  BY <1>6, <1>7 DEF FedBy
<1> QED BY <1>1, <1>8

\* However many bytes of the wire come at once, from byte m + 1 on.
ChunkOf(s, bytes, m, N) == /\ m + N <= Len(Wire(s)) /\ Len(bytes) = N
                           /\ \A k \in 1..N : bytes[k] = Wire(s)[m + k]

LEMMA FeedChunk ==
    ASSUME script \in Scripts, NEW d \in Decoders, d.keep, NEW m \in Nat, NEW N \in Nat,
           At(script, d, m), NEW bytes, ChunkOf(script, bytes, m, N)
    PROVE  LET f == Feed(d, bytes)
           IN /\ f \in Decoders /\ (f.keep => At(script, f, m + N))
              /\ cancelFlag => f.text = d.text
              /\ ~cancelFlag => f.keep
<1> PICK f : f = Feed(d, bytes)
    OBVIOUS
<1> SUFFICES /\ f \in Decoders /\ (f.keep => At(script, f, m + N))
             /\ cancelFlag => f.text = d.text
             /\ ~cancelFlag => f.keep
    OBVIOUS
<1>9. /\ m + N <= Len(Wire(script)) /\ Len(bytes) = N
      /\ \A k \in 1..N : bytes[k] = Wire(script)[m + k]
  BY DEF ChunkOf
<1>1. PICK g : FedBy(g, d, bytes, N) /\ f = g[N]
  BY <1>9, FeedIs
<1>2. g[0] = d /\ \A k \in 1..N : g[k] = OnByte(g[k - 1], bytes[k])
  BY <1>1 DEF FedBy
<1>0. Len(Wire(script)) \in Nat
  <2>1. Len(script) \in 0..Len(script)
    BY EventsAre
  <2>2. Wire(script) \in Seq(Parts)
    BY <2>1, SentTyped, SentIs
  <2> QED BY <2>2
<1> DEFINE P(k) == /\ g[k] \in Decoders /\ (g[k].keep => At(script, g[k], m + k))
                   /\ cancelFlag => g[k].text = d.text
                   /\ ~cancelFlag => g[k].keep
           T == {k \in 0..N : ~P(k)}
<1>3. ASSUME T # {} PROVE FALSE
  <2>1. PICK k \in T : \A y \in T : k <= y
    <3>1. T \subseteq Nat
      OBVIOUS
    <3> HIDE DEF T
    <3> QED BY <1>3, <3>1, LeastNumber
  <2>2. k \in 0..N /\ ~P(k)
    OBVIOUS
  <2>3. P(0)
    BY <1>2
  <2>4. k # 0
    BY <2>2, <2>3
  <2> PICK x : x = k - 1
      OBVIOUS
  <2>5. k \in 1..N /\ x \in 0..N /\ x \notin T
    <3>1. k \in 1..N /\ x \in 0..N /\ ~(k <= x)
      BY <2>2, <2>4
    <3> HIDE DEF T
    <3> QED BY <2>1, <3>1
  <2>6. P(x)
    BY <2>5
  <2> HIDE DEF T, P
  <2> PICK y : y = m + x
      OBVIOUS
  <2>7. y \in Nat /\ y + 1 = m + k /\ y < Len(Wire(script))
    BY <1>0, <1>9, <2>5
  <2>8. g[k] = OnByte(g[x], Wire(script)[y + 1])
    BY <1>2, <1>9, <2>5, <2>7
  <2>9. CASE g[x].keep
    <3>1. g[x] \in Decoders /\ At(script, g[x], y) /\ (cancelFlag => g[x].text = d.text)
      BY <2>6, <2>9 DEF P
    <3> PICK u, v : u = g[x] /\ v = g[k]
        OBVIOUS
    <3>2. /\ v \in Decoders /\ (v.keep => At(script, v, y + 1))
          /\ cancelFlag => v.text = u.text
          /\ ~cancelFlag => v.keep
      BY <2>7, <2>8, <2>9, <3>1, StepByte
    <3> QED BY <2>2, <2>7, <3>1, <3>2 DEF P
  <2>10. CASE ~g[x].keep
    <3>1. g[k] = g[x]
      BY <2>8, <2>10 DEF OnByte
    <3>2. \A y2 : g[x].keep => At(script, g[k], y2)
      BY <2>10
    <3>3. P(k)
      BY <2>6, <2>10, <3>1 DEF P
    <3> QED BY <2>2, <3>3
  <2> QED BY <2>9, <2>10
<1>4. P(N)
  <2>1. N \in 0..N
    OBVIOUS
  <2> HIDE DEF P
  <2> QED BY <1>3, <2>1
<1> QED BY <1>1, <1>4

-----------------------------------------------------------------------------
(* The invariant of a reply.                                               *)

Verdicts == {"none", "ok", "status", "http", "cancelled"}
ReplyInv ==
    /\ script \in Scripts /\ cancelFlag \in BOOLEAN /\ result \in Verdicts
    /\ arrived \in Seq(Parts) /\ Len(arrived) <= Len(Wire(script))
    /\ \A k \in 1..Len(arrived) : arrived[k] = Wire(script)[k]
    /\ decoder \in Decoders
    /\ decoder.keep => At(script, decoder, Len(arrived))
    /\ ~cancelFlag => decoder.keep
    /\ result # "none" => /\ delivered = IF decoder.keep THEN Calls(decoder) ELSE <<>>
                          /\ (result = "cancelled") = ~decoder.keep

\* All that is sent is a sequence of bytes.
LEMMA WireIs ==
    ASSUME NEW s \in Scripts
    PROVE  Wire(s) \in Seq(Parts) /\ Len(Wire(s)) \in Nat
<1>1. Len(s) \in 0..Len(s)
  BY EventsAre
<1>2. Wire(s) \in Seq(Parts)
  BY <1>1, SentTyped, SentIs
<1> HIDE DEF Parts
<1> QED BY <1>2

\* A call starts so (oce_llm_chat_stream).
LEMMA ReplyStarts == ReplyInit => ReplyInv
<1> SUFFICES ASSUME ReplyInit PROVE ReplyInv
    OBVIOUS
<1>1. script \in Scripts /\ cancelFlag \in BOOLEAN /\ result = "none"
  BY DEF ReplyInit
<1>2. arrived \in Seq(Parts) /\ Len(arrived) = 0 /\ \A k \in 1..Len(arrived) : FALSE
  <2>1. arrived = <<>>
    BY DEF ReplyInit
  <2> QED BY <2>1
<1>3. decoder \in Decoders /\ decoder.keep
  <2>1. <<>> \in Seq(Parts) /\ <<>> \in Seq(Nat)
    OBVIOUS
  <2>2. NoCall \in [active : BOOLEAN, args : Seq(Nat)]
    BY <2>1 DEF NoCall
  <2> HIDE DEF Parts, NoCall
  <2> QED BY <2>1, <2>2 DEF ReplyInit, Decoders
<1>4. Taken(script, decoder, 0)
  <2>1. \A what : Kind(script, what, 0) = {}
    BY DEF Kind
  <2>2. \A i : Fragments(script, i, 0) = {}
    BY <2>1 DEF Fragments
  <2>3. /\ decoder.text = <<>> /\ decoder.usage = 0 /\ ~decoder.finished
        /\ \A i \in 0..MaxIndex - 1 : decoder.tools[i].args = <<>> /\ ~decoder.tools[i].active
    BY DEF ReplyInit, NoCall
  <2> QED BY <2>1, <2>2, <2>3, ListNone DEF Taken
<1>5. At(script, decoder, 0)
  <2>1. Len(Sent(script)[0]) = 0
    <3>1. Sent(script)[0] = <<>>
      BY <1>1, SentIs
    <3>2. Len(<<>>) = 0
      OBVIOUS
    <3> QED BY <3>1, <3>2
  <2>2. 0 \in 0..Len(script) /\ 0 \in 0..6
    BY <1>1, EventsAre
  <2>3. 0 = Len(Sent(script)[0]) + 0
    BY <2>1
  <2>4. decoder.line = <<>> /\ decoder.data = <<>> /\ ~decoder.pending
    BY DEF ReplyInit
  <2> QED BY <1>4, <2>2, <2>3, <2>4 DEF At
<1>6. Len(arrived) <= Len(Wire(script))
  BY <1>1, <1>2, WireIs
<1> QED BY <1>1, <1>2, <1>3, <1>5, <1>6 DEF ReplyInv, Verdicts

\* A chunk.
LEMMA ReceiveKeeps ==
    ASSUME ReplyInv, Receive
    PROVE  ReplyInv' /\ (cancelFlag => decoder'.text = decoder.text)
<1>1. PICK n \in 1..MaxChunk :
        /\ Len(arrived) + n <= Len(Wire(script))
        /\ arrived' = arrived \o SubSeq(Wire(script), Len(arrived) + 1, Len(arrived) + n)
        /\ decoder' = Feed(decoder, SubSeq(Wire(script), Len(arrived) + 1, Len(arrived) + n))
  BY DEF Receive
<1>2. /\ decoder.keep /\ result = "none"
      /\ UNCHANGED <<script, cancelFlag, delivered, result>>
  BY DEF Receive, Open
<1> PICK m, w, chunk : /\ m = Len(arrived) /\ w = Len(Wire(script))
                       /\ chunk = SubSeq(Wire(script), Len(arrived) + 1, Len(arrived) + n)
    OBVIOUS
<1>3. script \in Scripts /\ decoder \in Decoders /\ At(script, decoder, m)
  BY <1>2 DEF ReplyInv
<1>4. arrived \in Seq(Parts) /\ m \in Nat /\ \A k \in 1..m : arrived[k] = Wire(script)[k]
  <2>1. arrived \in Seq(Parts)
    BY DEF ReplyInv
  <2>2. Len(arrived) \in Nat
    <3> HIDE DEF Parts
    <3> QED BY <2>1
  <2> QED BY <2>1, <2>2 DEF ReplyInv
<1>5. n \in Nat /\ m + n <= w /\ w \in Nat
  <2>1. MaxChunk \in Nat
    BY ScriptsAre
  <2>2. w \in Nat
    BY <1>3, WireIs
  <2> QED BY <1>1, <2>1, <2>2
<1>6. chunk \in Seq(Parts) /\ Len(chunk) = n /\ \A k \in 1..n : chunk[k] = Wire(script)[m + k]
  <2>1. \A u \in Seq(Parts) : \A x, y \in Nat : x + y <= Len(u) =>
          /\ SubSeq(u, x + 1, x + y) \in Seq(Parts) /\ Len(SubSeq(u, x + 1, x + y)) = y
          /\ \A k \in 1..y : SubSeq(u, x + 1, x + y)[k] = u[x + k]
    BY SubSeqProperties
  <2>2. Wire(script) \in Seq(Parts)
    BY <1>3, WireIs
  <2> QED BY <1>4, <1>5, <2>1, <2>2
<1>7. /\ decoder' \in Decoders /\ (decoder'.keep => At(script, decoder', m + n))
      /\ cancelFlag => decoder'.text = decoder.text
      /\ ~cancelFlag => decoder'.keep
  <2> PICK d, f : d = decoder /\ f = Feed(decoder, chunk)
      OBVIOUS
  <2>1. /\ f \in Decoders /\ (f.keep => At(script, f, m + n))
        /\ cancelFlag => f.text = d.text
        /\ ~cancelFlag => f.keep
    <3>1. m + n <= Len(Wire(script))
      BY <1>5
    <3>2. Len(chunk) = n /\ \A k \in 1..n : chunk[k] = Wire(script)[m + k]
      BY <1>6
    <3>3. m \in Nat /\ n \in Nat /\ decoder.keep
      BY <1>2, <1>4, <1>5
    <3>4. ChunkOf(script, chunk, m, n)
      BY <3>1, <3>2 DEF ChunkOf
    <3>5. Feed(d, chunk) \in Decoders
      BY <1>3, <3>3, <3>4, FeedChunk
    <3>6. Feed(d, chunk).keep => At(script, Feed(d, chunk), m + n)
      BY <1>3, <3>3, <3>4, FeedChunk
    <3>7. cancelFlag => Feed(d, chunk).text = d.text
      BY <1>3, <3>3, <3>4, FeedChunk
    <3>8. ~cancelFlag => Feed(d, chunk).keep
      BY <1>3, <3>3, <3>4, FeedChunk
    <3> QED BY <3>5, <3>6, <3>7, <3>8
  <2>2. decoder' = f
    BY <1>1
  <2> QED BY <2>1, <2>2
<1>8. /\ arrived' \in Seq(Parts) /\ Len(arrived') = m + n
      /\ \A k \in 1..m + n : arrived'[k] = Wire(script)[k]
  <2> PICK a, v : a = arrived /\ v = arrived \o chunk
      OBVIOUS
  <2>1. /\ v \in Seq(Parts) /\ Len(v) = m + n
        /\ \A k \in 1..m : v[k] = a[k]
        /\ \A k \in 1..n : v[m + k] = chunk[k]
    <3> HIDE DEF Parts
    <3>1. \A p, q \in Seq(Parts) :
            /\ p \o q \in Seq(Parts) /\ Len(p \o q) = Len(p) + Len(q)
            /\ \A k \in 1..Len(p) : (p \o q)[k] = p[k]
            /\ \A k \in 1..Len(q) : (p \o q)[Len(p) + k] = q[k]
      BY Joined
    <3>2. a \in Seq(Parts) /\ chunk \in Seq(Parts) /\ Len(a) = m /\ Len(chunk) = n
      BY <1>4, <1>6
    <3>3. /\ a \o chunk \in Seq(Parts) /\ Len(a \o chunk) = Len(a) + Len(chunk)
          /\ \A k \in 1..Len(a) : (a \o chunk)[k] = a[k]
          /\ \A k \in 1..Len(chunk) : (a \o chunk)[Len(a) + k] = chunk[k]
      BY <3>1, <3>2
    <3>4. v = a \o chunk
      OBVIOUS
    <3> QED BY <3>2, <3>3, <3>4
  <2>2. \A k \in 1..m + n : k \in 1..m \/ \E x \in 1..n : k = m + x
    <3>1. \A k \in 1..m + n : k \in 1..m \/ (k - m \in 1..n /\ k = m + (k - m))
      BY <1>4, <1>5
    <3> QED BY <3>1
  <2>3. \A k \in 1..m + n : v[k] = Wire(script)[k]
    BY <1>4, <1>6, <2>1, <2>2
  <2>4. arrived' = v
    BY <1>1
  <2> QED BY <2>1, <2>3, <2>4
<1>9. Len(arrived') <= Len(Wire(script))
  BY <1>5, <1>8
<1>10. (cancelFlag \in BOOLEAN /\ result \in Verdicts)'
  BY <1>2 DEF ReplyInv
<1> QED BY <1>2, <1>3, <1>7, <1>8, <1>9, <1>10 DEF ReplyInv

\* The end of the call.
LEMMA EndKeeps ==
    ASSUME ReplyInv, NEW how \in Verdicts \ {"none", "cancelled"}, End(how)
    PROVE  ReplyInv' /\ decoder' = decoder
<1>1. UNCHANGED <<script, cancelFlag, arrived, decoder>>
  BY DEF End
<1>2. delivered' = IF decoder.keep THEN Calls(decoder) ELSE <<>>
  BY DEF End, Emit
<1>3. result' = IF decoder.keep THEN how ELSE "cancelled"
  BY DEF End
<1>4. result' \in Verdicts /\ ((result' = "cancelled") = ~decoder.keep)
  BY <1>3 DEF Verdicts
<1>5. /\ script \in Scripts /\ cancelFlag \in BOOLEAN
      /\ arrived \in Seq(Parts) /\ Len(arrived) <= Len(Wire(script))
      /\ \A k \in 1..Len(arrived) : arrived[k] = Wire(script)[k]
      /\ decoder \in Decoders
      /\ decoder.keep => At(script, decoder, Len(arrived))
      /\ ~cancelFlag => decoder.keep
  BY DEF ReplyInv
<1> QED BY <1>1, <1>2, <1>4, <1>5 DEF ReplyInv

\* Each step of the transport or the player keeps the invariant, and no text is
\* added after a cancel.
LEMMA ReplyStreamStep ==
    ASSUME ReplyInv, [ReplyNext]_replyVars
    PROVE  ReplyInv' /\ (cancelFlag => decoder'.text = decoder.text)
<1>1. CASE CancelReply
  <2>1. /\ cancelFlag' = TRUE /\ result = "none"
        /\ UNCHANGED <<script, arrived, decoder, delivered, result>>
    BY <1>1 DEF CancelReply, Open
  <2> QED BY <2>1 DEF ReplyInv
<1>2. CASE Receive
  BY <1>2, ReceiveKeeps
<1>3. CASE Abort
  BY <1>3, EndKeeps DEF Abort, Verdicts
<1>4. CASE CloseOK
  BY <1>4, EndKeeps DEF CloseOK, Verdicts
<1>5. CASE CloseStatus
  BY <1>5, EndKeeps DEF CloseStatus, Verdicts
<1>6. CASE Fail
  BY <1>6, EndKeeps DEF Fail, Verdicts
<1>7. CASE UNCHANGED replyVars
  BY <1>7 DEF ReplyInv, replyVars
<1> QED BY <1>1, <1>2, <1>3, <1>4, <1>5, <1>6, <1>7 DEF ReplyNext, Transport

\* The invariant holds: the decoder is always where the bytes that arrived put it
\* (oce_http.c:121-197, oce_llm.c:167-249).
THEOREM ReplyInvariance == ReplySpec => []ReplyInv
<1>1. ReplyInv /\ [ReplyNext]_replyVars => ReplyInv'
  BY ReplyStreamStep
<1> QED BY ReplyStarts, <1>1, PTL DEF ReplySpec

-----------------------------------------------------------------------------
(* What follows.                                                           *)

\* The types of ReplyStream hold.
THEOREM ReplyTypeCorrect == ReplySpec => []ReplyTypeOK
<1>1. ASSUME ReplyInv PROVE ReplyTypeOK
  <2>1. script \in Scripts /\ cancelFlag \in BOOLEAN /\ result \in Verdicts /\ decoder \in Decoders
    BY <1>1 DEF ReplyInv
  <2>2. /\ decoder.pending \in BOOLEAN /\ decoder.keep \in BOOLEAN /\ decoder.finished \in BOOLEAN
        /\ DOMAIN decoder.tools = 0..MaxIndex - 1
    BY <2>1 DEF Decoders
  <2>3. IsPrefix(arrived, Wire(script))
    <3>1. \A u, v \in Seq(Parts) : Len(u) <= Len(v) /\ (\A k \in 1..Len(u) : u[k] = v[k])
                                     => SubSeq(u, 1, Len(u)) = SubSeq(v, 1, Len(u))
      <4> HIDE DEF Parts
      <4> QED OBVIOUS
    <3>2. /\ arrived \in Seq(Parts) /\ Len(arrived) <= Len(Wire(script))
          /\ \A k \in 1..Len(arrived) : arrived[k] = Wire(script)[k]
      BY <1>1 DEF ReplyInv
    <3> QED BY <2>1, <3>1, <3>2, WireIs DEF IsPrefix
  <2> QED BY <2>1, <2>2, <2>3 DEF ReplyTypeOK, Verdicts
<1> QED BY <1>1, ReplyInvariance, PTL

\* The events that are in when the first c and j bytes more are.
LEMMA EventsIn ==
    ASSUME script \in Scripts, NEW n, NEW c \in 0..Len(script), NEW j \in 0..6,
           n = Len(Sent(script)[c]) + j,
           j # 0 => c < Len(script) /\ j < Len(Bytes(c + 1, script[c + 1].lines))
    PROVE  \A what : EventsOf(what, n) = Kind(script, what, c)
<1> PICK N \in Nat : N = Len(script)
    BY ScriptsAre
<1> PICK m : m = Len(Sent(script)[c])
    OBVIOUS
<1>1. DOMAIN script = 1..N
  BY EventsAre
<1>2. \A e \in c..N : m <= Len(Sent(script)[e]) /\ m \in Nat
  BY SentStays
<1>3. \A e \in 1..N : e <= c => Len(Sent(script)[e]) <= n
  <2> SUFFICES ASSUME NEW e \in 1..N, e <= c PROVE Len(Sent(script)[e]) <= n
      OBVIOUS
  <2>1. e \in 0..N /\ c \in e..N /\ c \in c..N
    OBVIOUS
  <2>2. Len(Sent(script)[e]) <= m /\ Len(Sent(script)[e]) \in Nat /\ m \in Nat
    BY <1>2, <2>1, SentStays
  <2>3. \A u, v \in Nat : u <= v => u <= v + j
    OBVIOUS
  <2> QED BY <2>2, <2>3
<1>4. \A e \in 1..N : ~(e <= c) => ~(Len(Sent(script)[e]) <= n)
  <2> SUFFICES ASSUME NEW e \in 1..N, ~(e <= c) PROVE ~(Len(Sent(script)[e]) <= n)
      OBVIOUS
  <2> PICK b : b = c + 1
      OBVIOUS
  <2>1. b \in 1..N /\ b - 1 = c /\ e \in b..N /\ b \in 0..N
    OBVIOUS
  <2> PICK L, x, y : /\ L = Len(Bytes(b, script[b].lines)) /\ x = Len(Sent(script)[b])
                     /\ y = Len(Sent(script)[e])
      OBVIOUS
  <2>2. L \in {6, 7} /\ m \in Nat /\ x = m + L
    <3>1. /\ Len(Sent(script)[b - 1]) \in Nat /\ Len(Bytes(b, script[b].lines)) \in {6, 7}
          /\ Len(Sent(script)[b]) = Len(Sent(script)[b - 1]) + Len(Bytes(b, script[b].lines))
      BY <2>1, SentGrows
    <3> QED BY <2>1, <3>1
  <2>3. x <= y /\ y \in Nat
    BY <2>1, SentStays
  <2>4. j # 0 => j < L
    OBVIOUS
  <2>5. \A u, v \in Nat : \A i \in 0..6, k \in {6, 7} :
          (i # 0 => i < k) /\ u + k <= v => ~(v <= u + i)
    OBVIOUS
  <2> QED BY <2>2, <2>3, <2>4, <2>5
<1>5. \A e : e \in 1..c <=> e \in 1..N /\ e <= c
  OBVIOUS
<1> QED BY <1>1, <1>3, <1>4, <1>5 DEF EventsOf, Kind

\* However the network cuts a reply, the text, the fragments of each call and the
\* usage are those of the events that are in (oce_http.c:178-197, oce_llm.c:167-249).
THEOREM ChunksDoNotShow == ReplySpec => []ChunkingIsInvisible
<1>1. ASSUME ReplyInv PROVE ChunkingIsInvisible
  <2> SUFFICES ASSUME ~cancelFlag
               PROVE  /\ Lists(decoder.text, EventsOf("text", Len(arrived)))
                      /\ \A i \in DOMAIN decoder.tools :
                            Lists(decoder.tools[i].args,
                                  {e \in EventsOf("call", Len(arrived)) : script[e].index = i})
                      /\ decoder.usage = Max({0} \cup EventsOf("usage", Len(arrived)))
      BY DEF ChunkingIsInvisible
  <2>1. script \in Scripts /\ decoder \in Decoders /\ At(script, decoder, Len(arrived))
    BY <1>1 DEF ReplyInv
  <2>2. PICK c \in 0..Len(script), j \in 0..6 :
          /\ Len(arrived) = Len(Sent(script)[c]) + j /\ Taken(script, decoder, c)
          /\ j # 0 => c < Len(script) /\ j < Len(Bytes(c + 1, script[c + 1].lines))
    BY <2>1 DEF At
  <2>3. \A what : EventsOf(what, Len(arrived)) = Kind(script, what, c)
    BY <2>1, <2>2, EventsIn
  <2>4. DOMAIN decoder.tools = 0..MaxIndex - 1 /\ decoder.usage \in Nat
    BY <2>1 DEF Decoders
  <2>5. \A i \in 0..MaxIndex - 1 : Lists(decoder.tools[i].args, Fragments(script, i, c))
    BY <2>2 DEF Taken
  <2>6. decoder.usage = Max({0} \cup Kind(script, "usage", c))
    <3>1. /\ decoder.usage \in {0} \cup Kind(script, "usage", c)
          /\ \A e \in {0} \cup Kind(script, "usage", c) : e <= decoder.usage /\ e \in Nat
      <4>1. \A e \in Kind(script, "usage", c) : e \in Nat
        BY DEF Kind
      <4> QED BY <2>2, <2>4, <4>1 DEF Taken
    <3>2. \A S : \A u \in S : (\A e \in S : e <= u /\ e \in Nat) => u = Max(S)
      <4> SUFFICES ASSUME NEW S, NEW u \in S, \A e \in S : e <= u /\ e \in Nat PROVE u = Max(S)
          OBVIOUS
      <4> PICK v : v = CHOOSE x \in S : \A y \in S : x >= y
          OBVIOUS
      <4>1. v \in S /\ \A y \in S : v >= y
        OBVIOUS
      <4>2. u = v
        BY <4>1
      <4> QED BY <4>2 DEF Max
    <3> QED BY <3>1, <3>2
  <2> QED BY <2>2, <2>3, <2>4, <2>5, <2>6 DEF Taken, Fragments
<1> QED BY <1>1, ReplyInvariance, PTL

\* What Calls gives.
LEMMA CallsAre ==
    ASSUME NEW d \in Decoders
    PROVE  \E q : /\ Lists(q, {i \in 0..MaxIndex - 1 : d.tools[i].active})
                  /\ q = [k \in DOMAIN q |-> q[k]]
                  /\ Calls(d) = [k \in DOMAIN q |-> [index |-> q[k], args |-> d.tools[q[k]].args]]
<1> DEFINE begun == {i \in DOMAIN d.tools : d.tools[i].active}
           order == CHOOSE q \in SeqOf(begun, MaxIndex) : Lists(q, begun)
<1>1. DOMAIN d.tools = 0..MaxIndex - 1
  BY DEF Decoders
<1>2. begun = {i \in 0..MaxIndex - 1 : d.tools[i].active}
  BY <1>1
<1>3. Calls(d) = [k \in DOMAIN order |-> [index |-> order[k], args |-> d.tools[order[k]].args]]
  BY DEF Calls
<1>4. begun \subseteq 0..MaxIndex - 1 /\ MaxIndex \in Nat
  BY <1>2, ScriptsAre
<1> HIDE DEF begun
<1>5. \E q \in SeqOf(begun, MaxIndex) : Lists(q, begun)
  BY <1>4, ListExists
<1>6. order \in SeqOf(begun, MaxIndex) /\ Lists(order, begun)
  BY <1>5
<1> HIDE DEF order
<1>7. order = [k \in DOMAIN order |-> order[k]]
  <2>1. PICK m \in 0..MaxIndex : order \in [1..m -> begun]
    BY <1>6 DEF SeqOf
  <2> QED BY <2>1
<1> QED BY <1>2, <1>3, <1>6, <1>7

\* A reply seen to its end marker yields every call whole, once, in the order of the
\* indices, for any script and table (oce_llm.c:251-268).
THEOREM CallsComeWhole == ReplySpec => []FinishedCallsWhole
<1>1. ASSUME ReplyInv PROVE FinishedCallsWhole
  <2> SUFFICES ASSUME result \in {"ok", "status", "http"}, decoder.finished
               PROVE  /\ \A k \in DOMAIN delivered : Lists(delivered[k].args, Meant(delivered[k].index))
                      /\ Lists([k \in DOMAIN delivered |-> delivered[k].index],
                               {i \in 0..MaxIndex - 1 : Meant(i) # {}})
      BY DEF FinishedCallsWhole
  <2>1. /\ script \in Scripts /\ decoder \in Decoders /\ decoder.keep
        /\ At(script, decoder, Len(arrived)) /\ delivered = Calls(decoder)
    BY <1>1 DEF ReplyInv, Decoders
  <2> PICK N \in Nat : N = Len(script)
      BY <2>1, ScriptsAre
  <2>2. PICK c \in 0..N : Taken(script, decoder, c)
    BY <2>1 DEF At
  <2>3. c = N
    <3>1. PICK e \in Kind(script, "done", c) : TRUE
      BY <2>2 DEF Taken
    <3>2. e \in 1..c /\ script[e].what = "done"
      BY DEF Kind
    <3>3. e \in DOMAIN script
      BY <2>1, <3>2, EventsAre
    <3>4. e = N
      BY <2>1, <3>2, <3>3, ScriptsAre
    <3> QED BY <3>2, <3>4
  <2>4. \A i : Meant(i) = Fragments(script, i, N)
    <3>1. N \in 0..N /\ 0 \in 0..6
      OBVIOUS
    <3>2. Len(Wire(script)) = Len(Sent(script)[N]) + 0
      <4>1. Len(Wire(script)) = Len(Sent(script)[N]) /\ Len(Wire(script)) \in Nat
        BY <2>1, SentIs, WireIs
      <4> QED BY <4>1
    <3>3. \A what : EventsOf(what, Len(Wire(script))) = Kind(script, what, N)
      BY <2>1, <3>1, <3>2, EventsIn
    <3> QED BY <3>3 DEF Meant, Fragments
  <2>5. \A i \in 0..MaxIndex - 1 : /\ Lists(decoder.tools[i].args, Meant(i))
                                   /\ decoder.tools[i].active <=> Meant(i) # {}
    BY <2>2, <2>3, <2>4 DEF Taken
  <2>6. PICK q : /\ Lists(q, {i \in 0..MaxIndex - 1 : decoder.tools[i].active})
                 /\ q = [k \in DOMAIN q |-> q[k]]
                 /\ delivered = [k \in DOMAIN q |-> [index |-> q[k], args |-> decoder.tools[q[k]].args]]
    BY <2>1, CallsAre
  <2>7. {i \in 0..MaxIndex - 1 : decoder.tools[i].active} = {i \in 0..MaxIndex - 1 : Meant(i) # {}}
    BY <2>5
  <2>8. \A k \in DOMAIN q : q[k] \in 0..MaxIndex - 1
    BY <2>6 DEF Lists, Range
  <2>9. /\ DOMAIN delivered = DOMAIN q
        /\ \A k \in DOMAIN q : delivered[k].index = q[k] /\ delivered[k].args = decoder.tools[q[k]].args
    BY <2>6
  <2>10. [k \in DOMAIN delivered |-> delivered[k].index] = q
    BY <2>6, <2>9
  <2> QED BY <2>5, <2>6, <2>7, <2>8, <2>9, <2>10
<1> QED BY <1>1, ReplyInvariance, PTL

\* After a cancel no text is shown and, once the stream was stopped, no call is
\* handed on and the verdict is "cancelled" (oce_llm.c:202-205, 253, 447-455).
THEOREM CancelPrevails == ReplySpec => CancelStops
<1>1. ASSUME ReplyInv, ReplyInv', [ReplyNext]_replyVars
      PROVE  [/\ cancelFlag => decoder'.text = decoder.text
              /\ result' # "none" /\ ~decoder'.keep => delivered' = <<>> /\ result' = "cancelled"]_replyVars
  <2>1. cancelFlag => decoder'.text = decoder.text
    BY <1>1, ReplyStreamStep
  <2>2. result' # "none" /\ ~decoder'.keep => delivered' = <<>> /\ result' = "cancelled"
    BY <1>1 DEF ReplyInv
  <2> QED BY <2>1, <2>2
<1> QED BY <1>1, ReplyInvariance, PTL DEF ReplySpec, CancelStops
=============================================================================
