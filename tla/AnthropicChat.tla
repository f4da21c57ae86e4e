---------------------------- MODULE AnthropicChat ----------------------------
(***************************************************************************)
(* anthropicChatStream (internal/app/chat_anthropic.go): a Messages stream *)
(* is told to a Chat client.                                               *)
(***************************************************************************)
EXTENDS StreamWire, FiniteSets

\* Blocks with what the start gave (input) and what deltas added (n); without
\* custom, the input of custom tools is left as it is.
New(custom) == [custom |-> custom, started |-> FALSE, stopped |-> FALSE, finish |-> "", blocks |-> <<>>]

Block(b) == [kind |-> b.kind, id |-> b.id, name |-> b.name, input |-> b.n, n |-> 0, closed |-> FALSE]

Tools(s) == {i \in DOMAIN s.blocks : s.blocks[i].kind = "tool"}
ToolIndex(s, at) == Cardinality({i \in Tools(s) : i < at})

StartBlock(s, b) ==
    LET next == [s EXCEPT !.blocks = Append(@, Block(b))]
    IN IF s.finish # "" \/ b.at # Len(s.blocks) + 1 \/ (s.blocks # <<>> /\ ~Last(s.blocks).closed) THEN Refuse(s)
       ELSE CASE b.kind \in {"text", "think"} -> Ok(next, <<ChatText(b.kind, b.n)>>)
              [] b.kind = "redacted" -> Ok(next, <<>>)
              [] b.kind = "tool" /\ \A i \in Tools(s) : s.blocks[i].id # b.id ->
                   Ok(next, <<ChatCall(Cardinality(Tools(s)), b.id, b.name, 0)>>)
              [] OTHER -> Refuse(s)

\* Arguments are complete: those of deltas were passed on, unless the tool is
\* a custom one.
StopBlock(s, at) ==
    LET b == s.blocks[at]
        custom == s.custom /\ b.name = "custom"
        args == IF b.n > 0 THEN b.n ELSE Args(b.input)
        next == [s EXCEPT !.blocks[at].closed = TRUE, !.blocks[at].input = args]
    IN IF at \notin DOMAIN s.blocks \/ b.closed THEN Refuse(s)
       ELSE IF b.kind # "tool" THEN Ok([s EXCEPT !.blocks[at].closed = TRUE], <<>>)
       ELSE IF ~ValidArgs(args) \/ (custom /\ b.n + b.input = 0) THEN Refuse(s)
       ELSE Ok(next, IF b.n > 0 /\ ~custom THEN <<>> ELSE <<ChatCall(ToolIndex(s, at), "", "", args)>>)

BlockDeltas(s, e) ==
    LET b == s.blocks[e.at]
        next == [s EXCEPT !.blocks[e.at].n = @ + e.n]
    IN IF e.at \notin DOMAIN s.blocks \/ b.closed \/ s.finish # "" THEN Refuse(s)
       ELSE IF e.kind = "other" \/ (e.kind = "signature" /\ b.kind = "think") THEN Ok(s, <<>>)
       ELSE IF e.kind \notin {"text", "think", "tool"} \/ e.kind # b.kind THEN Refuse(s)
       ELSE IF e.kind # "tool" THEN Ok(next, <<ChatText(e.kind, e.n)>>)
       ELSE IF b.n = 0 /\ b.input > 0 THEN Refuse(s)
       ELSE Ok(next, IF s.custom /\ b.name = "custom" THEN <<>> ELSE <<ChatCall(ToolIndex(s, e.at), "", "", e.n)>>)

FinishOf(why) ==
    CASE why \in {"end_turn", "stop_sequence", "pause_turn"} -> "stop"
      [] why = "tool_use" -> "tool_calls"
      [] why = "max_tokens" -> "length"
      [] why = "refusal" -> "content_filter"
      [] OTHER -> "unknown"

SetFinish(s, why) ==
    IF why = "" THEN Ok(s, <<>>)
    ELSE IF (\E i \in DOMAIN s.blocks : ~s.blocks[i].closed) \/ FinishOf(why) = "unknown" \/ s.finish \notin {"", FinishOf(why)}
    THEN Refuse(s) ELSE Ok([s EXCEPT !.finish = FinishOf(why)], <<>>)

Event(s, e) ==
    IF s.stopped \/ e.e = "bad" THEN Refuse(s)
    ELSE
    CASE e.e = "ping" -> Ok(s, <<>>)
      [] e.e = "start" -> IF s.started THEN Refuse(s) ELSE Ok([s EXCEPT !.started = TRUE], <<ChatRole>>)
      [] OTHER ->
           IF ~s.started THEN Refuse(s)
           ELSE CASE e.e = "bstart" -> StartBlock(s, e)
                  [] e.e = "bstop" -> StopBlock(s, e.at)
                  [] e.e = "bdelta" -> BlockDeltas(s, e)
                  [] e.e = "mdelta" -> SetFinish(s, e.why)
                  [] e.e = "mstop" -> IF s.finish = "" THEN Refuse(s)
                                      ELSE Ok([s EXCEPT !.stopped = TRUE], <<ChatFinish(s.finish), ChatUsage, ChatDone>>)
                  [] OTHER -> Refuse(s)
=============================================================================
