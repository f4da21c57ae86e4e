------------------------- MODULE AnthropicResponses -------------------------
(***************************************************************************)
(* anthropicResponsesStream (internal/app/responses_anthropic.go): a       *)
(* Messages stream is checked by an anthropicChatStream and told to a      *)
(* Responses client with the parts of a chatResponsesStream, one for each  *)
(* block.                                                                  *)
(***************************************************************************)
EXTENDS StreamWire, TLC

Native == INSTANCE AnthropicChat
Out == INSTANCE ChatResponses

\* at: the part that tells a block.
New == [native |-> Native!New(FALSE), out |-> Out!New, at |-> <<>>]

\* A part of its own for every text, thought and tool.
BeginBlock(out, b) ==
    CASE b.kind \in {"text", "think"} ->
           Then(Out!AppendText([out EXCEPT !.at[b.kind] = 0], b.kind, b.n), LAMBDA t :
             IF t.at[b.kind] = 0 THEN Out!OpenPart(t, b.kind) ELSE Ok(t, <<>>))
      [] b.kind = "tool" ->
           Ok(Out!Add(out, [Out!Part("tool", 0) EXCEPT !.id = b.id, !.name = b.name]),
              <<ItemAdded(Len(out.parts) + 1, "tool", b.id)>>)
      [] OTHER -> Ok(out, <<>>)

ToolInput(out, at, n) ==
    Ok([out EXCEPT !.parts[at].n = @ + n],
       IF Out!Rewritten(out.parts[at].name) THEN <<>> ELSE <<Delta(at, "tool", n)>>)

BlockDeltas(out, at, e) ==
    CASE e.kind \in {"text", "think"} -> Out!AppendText([out EXCEPT !.at[e.kind] = at], e.kind, e.n)
      [] e.kind = "tool" -> ToolInput(out, at, e.n)
      [] OTHER -> Ok(out, <<>>)

\* What the event does to the output once the native converter accepted it.
Tell(s, native, e) ==
    CASE e.e = "start" -> Out!Start(s.out)
      [] e.e = "bstart" -> BeginBlock(s.out, e)
      [] e.e = "bdelta" /\ e.at \in DOMAIN s.at -> BlockDeltas(s.out, s.at[e.at], e)
      [] e.e = "bstop" /\ e.at \in DOMAIN s.at ->
           LET p == s.out.parts[s.at[e.at]] IN
           IF p.kind = "tool" /\ p.n = 0 THEN ToolInput(s.out, s.at[e.at], native.blocks[e.at].input) ELSE Ok(s.out, <<>>)
      [] e.e = "mstop" -> Out!Finish([s.out EXCEPT !.finish = native.finish])
      [] OTHER -> Ok(s.out, <<>>)

Event(s, e) ==
    LET native == Native!Event(s.native, e)
        told == Tell(s, native.s, e)
        at == IF e.e = "bstart" /\ e.kind # "redacted" THEN Assign(s.at, e.at, Len(told.s.parts)) ELSE s.at
    IN IF native.err \/ told.err THEN Refuse(s)
       ELSE Ok([native |-> native.s, out |-> told.s, at |-> at], told.wire)
=============================================================================
