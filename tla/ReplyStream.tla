---------------------------- MODULE ReplyStream -----------------------------
(***************************************************************************)
(* One reply of the model on its way in (oce_llm_chat_stream): the server  *)
(* sends events, the network cuts their bytes into chunks and may lose the *)
(* end, the Server-Sent Events parser (oce_http) frames them again, and    *)
(* the decoder (oce_llm) hands on text as it comes and, at the end, the    *)
(* tool calls it has put together.                                         *)
(*                                                                         *)
(* A script is what the server means to send.  A byte is a part of an      *)
(* event, written <<event, part>>, an end of line, or a comment's byte.    *)
(* An event's JSON has two parts; they are two pieces of one data line or  *)
(* two data lines.  The text of an event is its number.                    *)
(***************************************************************************)
EXTENDS Integers, Sequences, FiniteSets, SequencesExt

CONSTANTS Scripts,     \* what the server may send: sequences of events
          MaxIndex,    \* OCE_LLM_MAX_TOOL_CALLS
          MaxChunk     \* bound on the bytes that arrive at once

ASSUME StreamAssumption ==
    /\ MaxIndex \in Nat \ {0} /\ MaxChunk \in Nat \ {0}
    /\ \A s \in Scripts :
        /\ s \in Seq([what : {"text", "call", "usage", "junk", "done"}, index : Nat, lines : {1, 2}])
        /\ \A e \in DOMAIN s : s[e].what = "done" => e = Len(s)   \* the end marker is the end

VARIABLES
    script, cancelFlag,
    arrived,       \* bytes handed to the parser, in order
    decoder,       \* the parser's buffers and stream_state
    delivered,     \* the calls given to on_tool_call
    result         \* what oce_llm_chat_stream returns

replyVars == <<script, cancelFlag, arrived, decoder, delivered, result>>

NL == <<0, 0>>
Colon == <<0, 1>>

\* The bytes of an event; the blank line ends it.  A keep-alive precedes each.
Bytes(e, lines) == IF lines = 1 THEN <<Colon, NL, <<e, 1>>, <<e, 2>>, NL, NL>>
                                ELSE <<Colon, NL, <<e, 1>>, NL, <<e, 2>>, NL, NL>>

\* What is sent by the end of each event, and in all.
Sent(s) == LET sent[e \in 0..Len(s)] == IF e = 0 THEN <<>> ELSE sent[e - 1] \o Bytes(e, s[e].lines)
           IN sent
Wire(s) == Sent(s)[Len(s)]

NoCall == [active |-> FALSE, args |-> <<>>]

ReplyInit ==
    /\ script \in Scripts /\ cancelFlag = FALSE
    /\ arrived = <<>>
    /\ decoder = [line |-> <<>>, data |-> <<>>, pending |-> FALSE, keep |-> TRUE,
                  text |-> <<>>, tools |-> [i \in 0..MaxIndex - 1 |-> NoCall],
                  usage |-> 0, finished |-> FALSE]   \* finished: the end marker came (only the properties ask)
    /\ delivered = <<>> /\ result = "none"

-----------------------------------------------------------------------------
(* The decoder.                                                            *)

\* Mutant: a fragment replaces what came before.
WithCallLatest(d, e) ==
    IF script[e].index \notin DOMAIN d.tools THEN d
    ELSE [d EXCEPT !.tools[script[e].index] = [active |-> TRUE, args |-> <<e>>]]

\* decode_tool_calls: an index past the table is skipped, arguments are joined.
WithCall(d, e) ==
    IF script[e].index \notin DOMAIN d.tools THEN d
    ELSE [d EXCEPT !.tools[script[e].index] = [active |-> TRUE, args |-> Append(@.args, e)]]

\* Mutant: the flag is looked at once the reply is over.
OnEventLateCancel(d, e) ==
    CASE script[e].what = "text" -> [d EXCEPT !.text = Append(@, e)]
      [] script[e].what = "call" -> WithCall(d, e)
      [] script[e].what = "usage" -> [d EXCEPT !.usage = e]
      [] OTHER -> d

\* llm_on_sse for a whole event; what is no JSON is tolerated.
OnEvent(d, e) ==
    IF cancelFlag THEN [d EXCEPT !.keep = FALSE]
    ELSE CASE script[e].what = "done" -> [d EXCEPT !.finished = TRUE]
           [] script[e].what = "text" -> [d EXCEPT !.text = Append(@, e)]
           [] script[e].what = "call" -> WithCall(d, e)
           [] script[e].what = "usage" -> [d EXCEPT !.usage = e]
           [] OTHER -> d

\* sse_dispatch: the data lines of one event, its parts in order.
Dispatch(d) ==
    LET e == d.data[1][1]
        next == IF d.data = <<<<e, 1>>, <<e, 2>>>> THEN OnEvent(d, e)
                ELSE IF cancelFlag THEN [d EXCEPT !.keep = FALSE] ELSE d
    IN [next EXCEPT !.data = <<>>, !.pending = FALSE]

\* Mutant: every data line is an event.
ProcessLineEager(d) ==
    CASE d.line = <<>> -> IF d.pending THEN Dispatch(d) ELSE d
      [] d.line # <<>> /\ d.line[1] = Colon -> d
      [] OTHER -> Dispatch([d EXCEPT !.data = @ \o d.line])

\* sse_process_line: a blank line ends an event, a comment is skipped, data
\* lines add up.
ProcessLine(d) ==
    CASE d.line = <<>> -> IF d.pending THEN Dispatch(d) ELSE d
      [] d.line # <<>> /\ d.line[1] = Colon -> d
      [] OTHER -> [d EXCEPT !.data = @ \o d.line, !.pending = TRUE]

\* One byte, unless the callback has asked to stop.
OnByte(d, byte) ==
    CASE ~d.keep -> d
      [] d.keep /\ byte = NL -> [ProcessLine(d) EXCEPT !.line = <<>>]
      [] OTHER -> [d EXCEPT !.line = Append(@, byte)]

\* Mutant: a line begins anew with each chunk.
FeedForgetful(d, bytes) ==
    LET fed[k \in 0..Len(bytes)] == IF k = 0 THEN [d EXCEPT !.line = <<>>]
                                    ELSE OnByte(fed[k - 1], bytes[k])
    IN fed[Len(bytes)]

\* oce_http_sse_feed, byte by byte.
Feed(d, bytes) ==
    LET fed[k \in 0..Len(bytes)] == IF k = 0 THEN d ELSE OnByte(fed[k - 1], bytes[k])
    IN fed[Len(bytes)]

-----------------------------------------------------------------------------
(* The transport and the end of the call.                                  *)

Open == result = "none"

CancelReply ==
    /\ Open /\ ~cancelFlag
    /\ cancelFlag' = TRUE
    /\ UNCHANGED <<script, arrived, decoder, delivered, result>>

\* write_cb: a chunk of any length is fed.
Receive ==
    /\ Open /\ decoder.keep
    /\ \E n \in 1..MaxChunk :
        /\ Len(arrived) + n <= Len(Wire(script))
        /\ LET chunk == SubSeq(Wire(script), Len(arrived) + 1, Len(arrived) + n)
           IN arrived' = arrived \o chunk /\ decoder' = Feed(decoder, chunk)
    /\ UNCHANGED <<script, cancelFlag, delivered, result>>

\* The sequence q lists the numbers of S from the least to the greatest.
Lists(q, S) == Range(q) = S /\ \A j, k \in DOMAIN q : j < k => q[j] < q[k]

\* emit_results: the calls that were begun, by index; none after a cancel.
Calls(d) == LET begun == {i \in DOMAIN d.tools : d.tools[i].active}
                order == CHOOSE q \in SeqOf(begun, MaxIndex) : Lists(q, begun)
            IN [k \in DOMAIN order |-> [index |-> order[k], args |-> d.tools[order[k]].args]]

Emit(d) == delivered' = IF d.keep THEN Calls(d) ELSE <<>>

\* Mutant: the transport's verdict is all that counts.
EndTransport(verdict) ==
    /\ Emit(decoder)
    /\ result' = verdict
    /\ UNCHANGED <<script, cancelFlag, arrived, decoder>>

\* Mutant: a stopped transfer is taken up again.
EndRetry(verdict) ==
    /\ Emit(decoder)
    /\ result' = IF decoder.keep THEN verdict ELSE result
    /\ UNCHANGED <<script, cancelFlag, arrived, decoder>>

\* The verdict of a cancel prevails over the transport's.
End(verdict) ==
    /\ Emit(decoder)
    /\ result' = IF decoder.keep THEN verdict ELSE "cancelled"
    /\ UNCHANGED <<script, cancelFlag, arrived, decoder>>

\* The callback asked to stop: curl aborts the transfer.
Abort == Open /\ ~decoder.keep /\ End("http")

\* The server closes, after all it had to say or before; curl calls both OK
\* when the length was not announced.
CloseOK == Open /\ decoder.keep /\ End("ok")

\* A status that is not 2xx.
CloseStatus == Open /\ decoder.keep /\ End("status")

\* A timeout, a lost connection, or an event past the parser's limit.
Fail == Open /\ decoder.keep /\ End("http")

-----------------------------------------------------------------------------
Transport == Receive \/ Abort \/ CloseOK \/ CloseStatus \/ Fail

ReplyNext == CancelReply \/ Transport

ReplySpec == ReplyInit /\ [][ReplyNext]_replyVars

\* The total timeout ends every transfer.
FairReplySpec == ReplySpec /\ WF_replyVars(Transport)

-----------------------------------------------------------------------------
(* Properties.                                                             *)

\* Types.
ReplyTypeOK ==
    /\ script \in Scripts /\ cancelFlag \in BOOLEAN
    /\ IsPrefix(arrived, Wire(script))
    /\ decoder.pending \in BOOLEAN /\ decoder.keep \in BOOLEAN /\ decoder.finished \in BOOLEAN
    /\ DOMAIN decoder.tools = 0..MaxIndex - 1
    /\ result \in {"none", "ok", "status", "http", "cancelled"}

\* The reference: the events of a kind whose blank line is among the first n bytes.
EventsOf(what, n) == {e \in DOMAIN script : Len(Sent(script)[e]) <= n /\ script[e].what = what}

\* Without a cancel, what was decoded is a function of the bytes that arrived, not
\* of how the network cut them: the text, each call's fragments in order, the usage
\* (oce_http.c:178-197, oce_llm.c:167-249).
ChunkingIsInvisible ==
    ~cancelFlag =>
        LET n == Len(arrived)
        IN /\ Lists(decoder.text, EventsOf("text", n))
           /\ \A i \in DOMAIN decoder.tools :
                Lists(decoder.tools[i].args, {e \in EventsOf("call", n) : script[e].index = i})
           /\ decoder.usage = Max({0} \cup EventsOf("usage", n))

\* The fragments of a call that the server means to send.
Meant(i) == {e \in EventsOf("call", Len(Wire(script))) : script[e].index = i}

\* A reply that was seen to its end marker yields every call whole, once, in the
\* order of the indices (oce_llm.c:251-268).
FinishedCallsWhole ==
    result \in {"ok", "status", "http"} /\ decoder.finished =>
        /\ \A k \in DOMAIN delivered : Lists(delivered[k].args, Meant(delivered[k].index))
        /\ Lists([k \in DOMAIN delivered |-> delivered[k].index],
                 {i \in 0..MaxIndex - 1 : Meant(i) # {}})

\* Once the player has cancelled, no more text is shown, also of events that came
\* in the same chunk (oce_llm.c:202-205); and a reply that the callback stopped hands
\* on no call and is reported as cancelled, whatever the transport says of the
\* transfer (oce_llm.c:253, 447-455).
CancelStops ==
    [][/\ cancelFlag => decoder'.text = decoder.text
       /\ result' # "none" /\ ~decoder'.keep => delivered' = <<>> /\ result' = "cancelled"]_replyVars

\* "whole tool calls are delivered via handlers->on_tool_call after assembly"
\* (oce_llm.h).  Refuted: a transfer that ends early hands on what it has
\* (README, "What the code does not keep").
OnlyWholeCalls ==
    \A k \in DOMAIN delivered : Lists(delivered[k].args, Meant(delivered[k].index))

\* Every chat call returns: nobody but the transport ends one (oce_http.c:371).
CallReturns == <>(result # "none")
=============================================================================
