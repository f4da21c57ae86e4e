---------------------------- MODULE ResponsesChat ----------------------------
(***************************************************************************)
(* responseChatStream (internal/app/chat_responses.go): a Responses stream *)
(* is told to a Chat client as it comes.                                   *)
(***************************************************************************)
EXTENDS StreamWire, FiniteSets, TLC

\* Whether the response was seen; what was sent of each kind at each place;
\* and the tools announced, with the index the client knows.
New == [known |-> FALSE, role |-> FALSE, sent |-> <<>>, tools |-> <<>>]

Sent(s, key) == IF key \in DOMAIN s.sent THEN s.sent[key] ELSE 0

\* Text, or all of the text so far: only what is new is sent.
Text(s, kind, at, n, full) ==
    LET key == <<kind, at>>
        old == Sent(s, key)
        all == IF full THEN n ELSE old + n
    IN IF all < old THEN Refuse(s)
       ELSE Ok([s EXCEPT !.sent = Assign(@, key, all)], IF all = old THEN <<>> ELSE <<ChatText(kind, all - old)>>)

\* A call is announced once and its arguments follow; n is all of them.
Tool(s, at, id, n) ==
    LET key == <<"tool", at>>
        old == Sent(s, key)
        known == at \in DOMAIN s.tools
        ix == IF known THEN s.tools[at].ix ELSE Cardinality(DOMAIN s.tools)
    IN IF id = "" \/ n < old \/ (known /\ s.tools[at].id # id) THEN Refuse(s)
       ELSE Ok([s EXCEPT !.tools = Assign(@, at, [id |-> id, ix |-> ix]), !.sent = Assign(@, key, n)],
               (IF known THEN <<>> ELSE <<ChatCall(ix, id, "f", 0)>>)
               \o (IF n = old THEN <<>> ELSE <<ChatCall(ix, "", "", n - old)>>))

\* An item without content has no parts to tell.
Item(s, at, item) ==
    CASE item.kind = "tool" -> Tool(s, at, item.id, item.n)
      [] item.kind # "tool" /\ item.n = 0 -> Ok(s, <<>>)
      [] item.kind # "tool" /\ item.n # 0 -> Text(s, item.kind, at, item.n, TRUE)

ToolText(s, e) ==
    IF e.at \notin DOMAIN s.tools THEN Refuse(s)
    ELSE Tool(s, e.at, s.tools[e.at].id, IF e.e = "delta" THEN Sent(s, <<"tool", e.at>>) + e.n ELSE e.n)

FinishOf(s, status) ==
    CASE status \in {"length", "content_filter"} -> status
      [] status = "completed" /\ s.tools # <<>> -> "tool_calls"
      [] OTHER -> "stop"

End(s, e) ==
    Then(FoldLeft(LAMBDA r, i : Then(r, LAMBDA t : Item(t, i, e.items[i])), Ok(s, <<>>), [i \in DOMAIN e.items |-> i]),
         LAMBDA t : Ok(t, <<ChatFinish(FinishOf(t, e.status)), ChatUsage, ChatDone>>))

\* Only an event with the response can be the first.
Event(s, e) ==
    IF e.e = "bad" \/ (~s.known /\ e.e \notin {"created", "end"}) THEN Refuse(s)
    ELSE Then(Ok([s EXCEPT !.known = TRUE, !.role = TRUE], IF s.role THEN <<>> ELSE <<ChatRole>>), LAMBDA t :
           CASE e.e = "end" -> End(t, e)
             [] e.e = "item" -> Item(t, e.at, [kind |-> e.kind, id |-> e.id, n |-> 0])
             [] e.e = "itemdone" -> Item(t, e.at, e)
             [] e.e \in {"delta", "text"} /\ e.kind = "tool" -> ToolText(t, e)
             [] e.e \in {"delta", "text"} /\ e.kind # "tool" -> Text(t, e.kind, e.at, e.n, e.e = "text")
             [] OTHER -> Ok(t, <<>>))
=============================================================================
