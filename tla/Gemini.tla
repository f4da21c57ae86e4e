------------------------------- MODULE Gemini -------------------------------
(***************************************************************************)
(* geminiChatStream (internal/app/chat_gemini.go) tells a Gemini stream to *)
(* a Chat client, and geminiMessagesStream (messages_gemini.go) to a       *)
(* Messages client, a block for each part.  A chunk has at most one part   *)
(* of the one candidate.                                                   *)
(***************************************************************************)
EXTENDS StreamWire

\* told: parts are told by another converter, as they come.
New(told, custom) == [told |-> told, custom |-> custom, role |-> FALSE, finish |-> "", tools |-> <<>>]

Role(s) == Ok([s EXCEPT !.role = ~s.told], IF s.role \/ s.told THEN <<>> ELSE <<ChatRole>>)

\* Tools are shown when the stream ends; a call without an id gets a new one.
Tool(s, p) ==
    IF \/ ~ValidArgs(p.n) \/ (s.custom /\ p.name = "custom" /\ p.n = 0)
       \/ \E i \in DOMAIN s.tools : s.tools[i].id = p.id
    THEN Refuse(s)
    ELSE Ok([s EXCEPT !.tools = Append(@, [id |-> p.id, name |-> p.name, n |-> Args(p.n)])], <<>>)

\* Images become text.
ReadPart(s, p) ==
    CASE p.p = "none" -> Ok(s, <<>>)
      [] p.p \in {"text", "image"} -> Ok(s, IF s.told THEN <<>> ELSE <<ChatText("text", p.n)>>)
      [] p.p = "think" -> Ok(s, IF s.told THEN <<>> ELSE <<ChatText("think", p.n)>>)
      [] p.p = "tool" -> Tool(s, p)
      [] p.p = "signature" /\ s.told -> Ok(s, <<>>)
      [] OTHER -> Refuse(s)

FinishOf(s, why) ==
    CASE why = "STOP" -> IF s.tools = <<>> THEN "stop" ELSE "tool_calls"
      [] why = "MAX_TOKENS" -> "length"
      [] why \in {"SAFETY", "BLOCK"} -> "content_filter"
      [] OTHER -> "unknown"

SetFinish(s, why) ==
    IF why = "" THEN Ok(s, <<>>)
    ELSE IF FinishOf(s, why) = "unknown" THEN Refuse(s)
    ELSE Ok([s EXCEPT !.finish = FinishOf(s, why)], <<>>)

\* A chunk that is not JSON, has several candidates or too much content is
\* "bad"; a blocked prompt has no candidate.
Observe(s, c) ==
    IF c.p = "bad" \/ (s.finish # "" /\ (c.p # "none" \/ c.why # "")) \/ (c.why = "BLOCK" /\ c.p # "none")
    THEN Refuse(s)
    ELSE Then(Then(Role(s), LAMBDA t : ReadPart(t, c)), LAMBDA t : SetFinish(t, c.why))

Finish(s) ==
    IF s.finish = "" THEN Refuse(s)
    ELSE Ok(s, [i \in DOMAIN s.tools |-> ChatCall(i - 1, s.tools[i].id, s.tools[i].name, s.tools[i].n)]
               \o <<ChatFinish(s.finish), ChatUsage, ChatDone>>)

\* held: a tool has appeared, and what follows is pending.
NewMessages == [native |-> New(TRUE, FALSE), started |-> FALSE, blocks |-> 0, held |-> FALSE, pending |-> <<>>]

BlockOf(p, at) ==
    IF p.p = "tool" THEN <<BlockStart(at, "tool", p.id, p.name, 0), BlockDelta(at, "tool", Args(p.n)), BlockStop(at)>>
    ELSE IF p.p \in {"think", "signature"}
    THEN <<BlockStart(at, "think", "", "", 0), BlockDelta(at, "think", p.n), BlockStop(at)>>
    ELSE IF p.signed THEN <<BlockStart(at, "text", "", "", p.n), BlockStop(at)>>
    ELSE IF p.n = 0 THEN <<>>
    ELSE <<BlockStart(at, "text", "", "", 0), BlockDelta(at, "text", p.n), BlockStop(at)>>

\* Mutant: only the tool itself waits.
TellHoldsTools(s, p) ==
    LET wire == BlockOf(p, s.blocks + 1)
        next == [s EXCEPT !.held = s.held \/ p.p = "tool", !.blocks = @ + (IF wire = <<>> THEN 0 ELSE 1)]
    IN IF p.p = "none" THEN Ok(s, <<>>)
       ELSE IF p.p = "tool" THEN Ok([next EXCEPT !.pending = @ \o wire], <<>>) ELSE Ok(next, wire)

\* Once a tool appears, all following blocks wait for settlement.
Tell(s, p) ==
    LET wire == BlockOf(p, s.blocks + 1)
        next == [s EXCEPT !.held = s.held \/ p.p = "tool", !.blocks = @ + (IF wire = <<>> THEN 0 ELSE 1)]
    IN IF p.p = "none" THEN Ok(s, <<>>)
       ELSE IF next.held THEN Ok([next EXCEPT !.pending = @ \o wire], <<>>) ELSE Ok(next, wire)

ObserveMessages(s, c) ==
    LET native == Observe(s.native, c) IN
    IF native.err THEN Refuse(s)
    ELSE Then(Ok([s EXCEPT !.started = TRUE, !.native = native.s], IF s.started THEN <<>> ELSE <<MessageStart>>),
              LAMBDA t : Tell(t, c))

StopReason(finish) ==
    CASE finish = "stop" -> "end_turn" [] finish = "tool_calls" -> "tool_use"
      [] finish = "length" -> "max_tokens" [] finish = "content_filter" -> "refusal"

FinishMessages(s) ==
    IF s.native.finish = "" THEN Refuse(s)
    ELSE Ok(s, s.pending \o <<MessageDelta(StopReason(s.native.finish)), MessageStop>>)
=============================================================================
