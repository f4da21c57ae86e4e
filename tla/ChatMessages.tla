---------------------------- MODULE ChatMessages ----------------------------
(***************************************************************************)
(* chatMessagesStream (internal/app/messages_chat.go): a Chat stream is    *)
(* told to a Messages client, by way of the parts a chatResponsesStream    *)
(* collects.                                                               *)
(***************************************************************************)
EXTENDS StreamWire

Parts == INSTANCE ChatResponses

\* The collected parts, how much of each is sent, the kind of the open block
\* and the number of blocks.
New == [chat |-> Parts!New, started |-> FALSE, sent |-> <<>>, active |-> "", blocks |-> 0]

BlockKind(kind) == IF kind = "think" THEN "think" ELSE "text"

\* What is new in part i; text and refusals share a block.
Show(s, i) ==
    LET p == s.chat.parts[i]
        kind == BlockKind(p.kind)
        fresh == s.active # kind
        at == IF fresh THEN s.blocks + 1 ELSE s.blocks
    IN IF p.kind = "tool" \/ p.n = s.sent[i] THEN Ok(s, <<>>)
       ELSE Ok([s EXCEPT !.sent[i] = p.n, !.active = kind, !.blocks = at],
               (IF fresh /\ s.active # "" THEN <<BlockStop(s.blocks)>> ELSE <<>>)
               \o (IF fresh THEN <<BlockStart(at, kind, "", "", 0)>> ELSE <<>>)
               \o <<BlockDelta(at, kind, p.n - s.sent[i])>>)

Observe(s, c) ==
    LET chat == Parts!Observe(s.chat, c)
        n == Len(chat.s.parts)
        seen == [s EXCEPT !.chat = chat.s, !.started = TRUE,
                          !.sent = [i \in 1..n |-> IF i <= Len(s.sent) THEN s.sent[i] ELSE 0]]
    IN IF chat.err THEN Refuse(s)
       ELSE FoldLeft(LAMBDA r, i : Then(r, LAMBDA t : Show(t, i)),
                     Ok(seen, IF s.started THEN <<>> ELSE <<MessageStart>>), [i \in 1..n |-> i])

StopReason(s) ==
    CASE s.chat.finish = "length" -> "max_tokens"
      [] s.chat.finish = "content_filter" -> "refusal"
      [] /\ s.chat.finish \notin {"length", "content_filter"}
         /\ s.chat.finish = "tool_calls" \/ \E i \in DOMAIN s.chat.parts : s.chat.parts[i].kind = "tool" -> "tool_use"
      [] OTHER -> "end_turn"

\* The open block is closed before the tools are shown, which are known in
\* full by now.
Finish(s) ==
    LET tools == SelectSeq(s.chat.parts, LAMBDA p : p.kind = "tool")
        show(p, at) == <<BlockStart(at, "tool", p.id, p.name, 0), BlockDelta(at, "tool", Args(p.n)), BlockStop(at)>>
    IN IF s.chat.finish = "" \/ \E i \in DOMAIN tools : tools[i].id = "" \/ tools[i].name = "" \/ ~ValidArgs(tools[i].n)
       THEN Refuse(s)
       ELSE Ok(s, (IF s.active # "" THEN <<BlockStop(s.blocks)>> ELSE <<>>)
                  \o FlattenSeq([i \in DOMAIN tools |-> show(tools[i], s.blocks + i)])
                  \o <<MessageDelta(StopReason(s)), MessageStop>>)
=============================================================================
