-------------------------- MODULE ResponsesMessages --------------------------
(***************************************************************************)
(* responsesMessagesStream (internal/app/messages_responses.go): a         *)
(* Responses stream is told to a Messages client, item after item.  An     *)
(* item has one part; its provider id is its place in the output.          *)
(***************************************************************************)
EXTENDS StreamWire, FiniteSets, TLC

\* The items seen; the one that is rendered and how much of it is sent; the
\* number of closed blocks and whether one is open.
New == [started |-> FALSE, stopped |-> FALSE, slots |-> <<>>, current |-> 1, sent |-> 0, blocks |-> 0, open |-> FALSE]

Kinds == {"text", "think", "tool"}

\* A snapshot of an item: its identity stays, its content only grows, and a
\* complete item does not change.  An announcement of text has no content.
Put(s, at, item, done) ==
    LET known == at \in DOMAIN s.slots
        old == IF known THEN s.slots[at] ELSE [kind |-> item.kind, id |-> item.id, n |-> 0, done |-> FALSE]
    IN IF \/ item.kind \notin Kinds \/ old.kind # item.kind \/ old.id # item.id
          \/ old.done /\ item.n # old.n
          \/ item.n < old.n /\ (done \/ item.kind = "tool")
       THEN Refuse(s)
       ELSE Ok([s EXCEPT !.slots = Assign(@, at, [old EXCEPT !.n = IF item.n > @ THEN item.n ELSE @, !.done = @ \/ done])], <<>>)

\* More content, or all of it, for an open item.
SetText(s, e) ==
    IF e.at \notin DOMAIN s.slots \/ s.slots[e.at].done \/ s.slots[e.at].kind # e.kind THEN Refuse(s)
    ELSE LET n == IF e.e = "delta" THEN s.slots[e.at].n + e.n ELSE e.n IN
         IF n < s.slots[e.at].n THEN Refuse(s) ELSE Ok([s EXCEPT !.slots[e.at].n = n], <<>>)

CloseBlock(s) ==
    IF s.open THEN Ok([s EXCEPT !.open = FALSE, !.blocks = @ + 1], <<BlockStop(s.blocks + 1)>>) ELSE Ok(s, <<>>)

\* The text of the current item that is not sent yet.
SendText(s, item) ==
    LET at == s.blocks + 1 IN
    IF item.kind = "tool" \/ item.n = s.sent THEN Ok(s, <<>>)
    ELSE Ok([s EXCEPT !.sent = item.n, !.open = TRUE],
            (IF s.open THEN <<>> ELSE <<BlockStart(at, item.kind, "", "", 0)>>)
            \o <<BlockDelta(at, item.kind, item.n - s.sent)>>)

ToolBlock(s, item) ==
    LET at == s.blocks + 1 IN
    Ok([s EXCEPT !.blocks = at],
       <<BlockStart(at, "tool", item.id, "f", 0), BlockDelta(at, "tool", item.n), BlockStop(at)>>)

Advance(s) == Ok([s EXCEPT !.current = @ + 1, !.sent = 0], <<>>)

\* Mutant: a complete tool is shown at once.
RenderItemEarly(s, final) ==
    LET item == s.slots[s.current] IN
    IF s.current \notin DOMAIN s.slots THEN Ok(s, <<>>)
    ELSE Then(SendText(s, item), LAMBDA t :
           IF ~item.done THEN Ok(t, <<>>)
           ELSE Then(IF item.kind = "tool" THEN ToolBlock(t, item) ELSE CloseBlock(t), Advance))

\* One turn of the loop of render; it repeats without effect where it stops.
\* Tool calls and what follows them wait for the end.
RenderItem(s, final) ==
    LET item == s.slots[s.current] IN
    IF s.current \notin DOMAIN s.slots \/ (item.kind = "tool" /\ ~final) THEN Ok(s, <<>>)
    ELSE Then(SendText(s, item), LAMBDA t :
           IF ~item.done THEN Ok(t, <<>>)
           ELSE Then(IF item.kind = "tool" THEN ToolBlock(t, item) ELSE CloseBlock(t), Advance))

Render(s, final) ==
    FoldLeft(LAMBDA r, i : Then(r, LAMBDA t : RenderItem(t, final)), Ok(s, <<>>),
             [i \in 1..Cardinality(DOMAIN s.slots) |-> i])

\* Tools need arguments here, and call ids of their own.
ToolsValid(items) ==
    LET tools == {i \in DOMAIN items : items[i].kind = "tool"} IN
    /\ \A i \in tools : items[i].n > 0 /\ ValidArgs(items[i].n)
    /\ \A i, j \in tools : items[i].id = items[j].id => i = j

\* A status other than "completed" is the reason of an incomplete response.
StopReason(status, items) ==
    CASE status = "length" -> "max_tokens"
      [] status = "content_filter" -> "refusal"
      [] status = "completed" /\ \E i \in DOMAIN items : items[i].kind = "tool" -> "tool_use"
      [] OTHER -> "end_turn"

Finish(s, e) ==
    LET put == FoldLeft(LAMBDA r, i : Then(r, LAMBDA t : Put(t, i, e.items[i], TRUE)), Ok(s, <<>>),
                        [i \in DOMAIN e.items |-> i])
    IN IF put.err \/ Cardinality(DOMAIN put.s.slots) # Len(e.items) \/ ~ToolsValid(e.items) THEN Refuse(s)
       ELSE Then(Then(Render(put.s, TRUE), CloseBlock), LAMBDA t :
              Ok([t EXCEPT !.stopped = TRUE], <<MessageDelta(StopReason(e.status, e.items)), MessageStop>>))

\* Only an event with the response can be the first.
Event(s, e) ==
    IF e.e = "bad" \/ s.stopped \/ (~s.started /\ e.e \notin {"created", "end"}) THEN Refuse(s)
    ELSE Then(Ok([s EXCEPT !.started = TRUE], IF s.started THEN <<>> ELSE <<MessageStart>>), LAMBDA t :
           CASE e.e = "end" -> Finish(t, e)
             [] e.e = "item" -> Then(Put(t, e.at, [kind |-> e.kind, id |-> e.id, n |-> 0], FALSE), LAMBDA u : Render(u, FALSE))
             [] e.e = "itemdone" -> Then(Put(t, e.at, e, TRUE), LAMBDA u : Render(u, FALSE))
             [] e.e \in {"delta", "text"} -> Then(SetText(t, e), LAMBDA u : Render(u, FALSE))
             [] OTHER -> Ok(t, <<>>))
=============================================================================
