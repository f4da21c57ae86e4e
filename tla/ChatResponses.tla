---------------------------- MODULE ChatResponses ----------------------------
(***************************************************************************)
(* chatResponsesStream (internal/app/responses_chat.go): a Chat stream is  *)
(* told to a Responses client.                                             *)
(***************************************************************************)
EXTENDS StreamWire

\* The parts in the order of their first fragment, and which of them takes
\* more text of a kind.
New == [started |-> FALSE, finish |-> "", parts |-> <<>>, at |-> [text |-> 0, think |-> 0, refusal |-> 0]]

Part(kind, ix) == [kind |-> kind, ix |-> ix, n |-> 0, id |-> "", name |-> "", announced |-> FALSE]

Start(s) == Ok([s EXCEPT !.started = TRUE], IF s.started THEN <<>> ELSE <<Created>>)

Add(s, part) == [s EXCEPT !.parts = Append(@, part)]

OpenPart(s, kind) ==
    LET at == Len(s.parts) + 1 IN
    Ok([Add(s, Part(kind, 0)) EXCEPT !.at[kind] = at], <<ItemAdded(at, kind, ""), PartAdded(at)>>)

AppendText(s, kind, n) ==
    IF n = 0 THEN Ok(s, <<>>)
    ELSE Then(IF s.at[kind] = 0 THEN OpenPart(s, kind) ELSE Ok(s, <<>>), LAMBDA t :
           Ok([t EXCEPT !.parts[t.at[kind]].n = @ + n], <<Delta(t.at[kind], kind, n)>>))

\* Tools whose arguments are rewritten when they are complete.
Rewritten(name) == name \in {"custom", "tool_search"}

\* The part of the tool of an index, or 0.
ToolAt(s, ix) == SelectInSeq(s.parts, LAMBDA p : p.kind = "tool" /\ p.ix = ix)

\* A tool is announced once its id and its name are known, with all the
\* arguments that came before.
Call(s, c) ==
    LET i == ToolAt(s, c.ix)
        at == IF i = 0 THEN Len(s.parts) + 1 ELSE i
        parts == IF i = 0 THEN Append(s.parts, Part("tool", c.ix)) ELSE s.parts
        p == parts[at]
        q == [p EXCEPT !.id = IF c.id = "" THEN @ ELSE c.id,
                       !.name = IF c.name = "" THEN @ ELSE c.name,
                       !.n = @ + c.n]
        known == q.id # "" /\ q.name # ""
        n == IF p.announced THEN c.n ELSE q.n
    IN IF \/ c.id # "" /\ p.id \notin {"", c.id}
          \/ c.id # "" /\ \E j \in DOMAIN parts \ {at} : parts[j].id = c.id
          \/ c.name # "" /\ p.name \notin {"", c.name}
       THEN Refuse(s)
       ELSE Ok([s EXCEPT !.parts = [parts EXCEPT ![at] = [q EXCEPT !.announced = known]]],
               (IF known /\ ~p.announced THEN <<ItemAdded(at, "tool", q.id)>> ELSE <<>>)
               \o (IF known /\ n > 0 /\ ~Rewritten(q.name) THEN <<Delta(at, "tool", n)>> ELSE <<>>))

SetFinish(s, why) ==
    IF why \notin {"stop", "tool_calls", "length", "content_filter"} \/ s.finish \notin {"", why}
    THEN Refuse(s) ELSE Ok([s EXCEPT !.finish = why], <<>>)

\* A chunk that is not JSON, has a choice other than the first, another id or
\* too much content is "bad".
Observe(s, c) ==
    IF c.k = "bad" \/ (s.finish # "" /\ c.k \in {"text", "think", "refusal", "call"}) THEN Refuse(s)
    ELSE Then(Start(s), LAMBDA t :
           CASE c.k \in {"text", "think", "refusal"} -> AppendText(t, c.k, c.n)
             [] c.k = "call" -> Call(t, c)
             [] c.k = "finish" -> SetFinish(t, c.why)
             [] OTHER -> Ok(t, <<>>))

\* item for a complete part.
Complete(p) ==
    p.kind = "tool" => p.id # "" /\ p.name # "" /\ ValidArgs(p.n) /\ (p.name = "custom" => p.n > 0)

Value(p) == IF p.kind = "tool" THEN Args(p.n) ELSE p.n

Close(p, at) ==
    CASE p.kind = "tool" /\ p.name = "tool_search" -> <<>>
      [] p.kind = "tool" /\ p.name = "custom" -> <<Delta(at, "tool", p.n), TextDone(at, "tool", p.n)>>
      [] p.kind = "tool" /\ ~Rewritten(p.name) -> <<TextDone(at, "tool", Value(p))>>
      [] OTHER -> <<TextDone(at, p.kind, p.n), PartDone(at)>>

CloseItem(p, at) == Close(p, at) \o <<ItemDone(at, p.kind, p.id, Value(p))>>

\* Every part is closed in order; an empty response has one empty message.
Finish(s) ==
    LET status == IF s.finish \in {"length", "content_filter"} THEN "incomplete" ELSE "completed"
        end(t) == Ended(status, [i \in DOMAIN t.parts |-> [kind |-> t.parts[i].kind, id |-> t.parts[i].id, n |-> Value(t.parts[i])]])
    IN IF s.finish = "" \/ \E i \in DOMAIN s.parts : ~Complete(s.parts[i]) THEN Refuse(s)
       ELSE Then(Then(Start(s), LAMBDA t : IF t.parts = <<>> THEN OpenPart(t, "text") ELSE Ok(t, <<>>)), LAMBDA t :
              Ok(t, FlattenSeq([i \in DOMAIN t.parts |-> CloseItem(t.parts[i], i)]) \o <<end(t)>>))
=============================================================================
