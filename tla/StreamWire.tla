----------------------------- MODULE StreamWire -----------------------------
(***************************************************************************)
(* The events of the three streaming protocols the gateway translates      *)
(* between, what an upstream has said with them and what a client of each  *)
(* protocol makes of a stream; a client also notices when a stream breaks  *)
(* the rules of its protocol.  Texts and arguments are lengths: a fragment *)
(* of arguments is half of a JSON object, so that an even number of them   *)
(* is valid.                                                               *)
(***************************************************************************)
EXTENDS Naturals, Sequences, FiniteSets, SequencesExt, FiniteSetsExt, TLC

\* What a converter does with an event: its next state and what it emits, or
\* an error, after which nothing it did matters.
Ok(s, wire) == [s |-> s, wire |-> wire, err |-> FALSE]
Refuse(s) == [s |-> s, wire |-> <<>>, err |-> TRUE]

\* One step of a converter after another.
Then(r, Op(_)) ==
    IF r.err THEN r ELSE LET q == Op(r.s) IN IF q.err THEN q ELSE [q EXCEPT !.wire = r.wire \o q.wire]

ValidArgs(n) == n % 2 = 0

\* Missing arguments are the empty object, "{" and "}".
Args(n) == IF n = 0 THEN 2 ELSE n

-----------------------------------------------------------------------------
(* Chat Completions: chunks with one aspect each                           *)

ChatText(kind, n) == [k |-> kind, n |-> n]   \* "text", "think" or "refusal"
ChatCall(ix, id, name, n) == [k |-> "call", ix |-> ix, id |-> id, name |-> name, n |-> n]
ChatFinish(why) == [k |-> "finish", why |-> why]
ChatRole == [k |-> "role"]
ChatUsage == [k |-> "usage"]
ChatDone == [k |-> "done"]

-----------------------------------------------------------------------------
(* Responses: items are counted from one                                   *)

Created == [e |-> "created"]
ItemAdded(at, kind, id) == [e |-> "item", at |-> at, kind |-> kind, id |-> id]
PartAdded(at) == [e |-> "part", at |-> at]
Delta(at, kind, n) == [e |-> "delta", at |-> at, kind |-> kind, n |-> n]
TextDone(at, kind, n) == [e |-> "text", at |-> at, kind |-> kind, n |-> n]
PartDone(at) == [e |-> "partdone", at |-> at]
ItemDone(at, kind, id, n) == [e |-> "itemdone", at |-> at, kind |-> kind, id |-> id, n |-> n]
\* The response in full: kind, call id and content of every item.
Ended(status, items) == [e |-> "end", status |-> status, items |-> items]

-----------------------------------------------------------------------------
(* Messages: blocks are counted from one                                   *)

MessageStart == [e |-> "start"]
BlockStart(at, kind, id, name, n) == [e |-> "bstart", at |-> at, kind |-> kind, id |-> id, name |-> name, n |-> n]
BlockDelta(at, kind, n) == [e |-> "bdelta", at |-> at, kind |-> kind, n |-> n]
BlockStop(at) == [e |-> "bstop", at |-> at]
MessageDelta(why) == [e |-> "mdelta", why |-> why]
MessageStop == [e |-> "mstop"]

-----------------------------------------------------------------------------
(* What is made of a stream: content is a function from <<kind, place>> to *)
(* the call id and the length                                              *)

\* f with v at k.
Assign(f, k, v) == [x \in DOMAIN f \cup {k} |-> IF x = k THEN v ELSE f[x]]

Entry(said, key) == IF key \in DOMAIN said THEN said[key] ELSE [id |-> "", n |-> 0]

\* n more, or all n, of what is at key.
AddTo(said, key, id, n) ==
    Assign(said, key, [id |-> IF id = "" THEN Entry(said, key).id ELSE id, n |-> Entry(said, key).n + n])
GrowTo(said, key, id, n) == AddTo(said, key, id, IF n > Entry(said, key).n THEN n - Entry(said, key).n ELSE 0)

Total(said, kinds) == MapThenSumSet(LAMBDA k : said[k].n, {k \in DOMAIN said : k[1] \in kinds})
Calls(said) == {k \in DOMAIN said : k[1] = "tool"}

\* The same text, the same thoughts, and the same calls with their arguments.
SameContent(a, b) ==
    /\ Total(a, {"text", "refusal"}) = Total(b, {"text", "refusal"})
    /\ Total(a, {"think"}) = Total(b, {"think"})
    /\ Cardinality(Calls(a)) = Cardinality(Calls(b))
    /\ {<<a[k].id, Args(a[k].n)>> : k \in Calls(a)} = {<<b[k].id, Args(b[k].n)>> : k \in Calls(b)}

-----------------------------------------------------------------------------
(* What upstream says                                                      *)

SaysChat(said, c) ==
    CASE c.k \in {"text", "think", "refusal"} -> AddTo(said, <<c.k, 0>>, "", c.n)
      [] c.k = "call" -> AddTo(said, <<"tool", c.ix>>, c.id, c.n)
      [] OTHER -> said

SaysMessages(said, e) ==
    CASE e.e \in {"bstart", "bdelta"} /\ e.kind \in {"text", "think", "tool"} ->
           AddTo(said, <<e.kind, e.at>>, IF e.e = "bstart" THEN e.id ELSE "", e.n)
      [] OTHER -> said

SaysResponses(said, e) ==
    CASE e.e = "item" /\ e.kind = "tool" -> AddTo(said, <<e.kind, e.at>>, e.id, 0)
      [] e.e = "delta" -> AddTo(said, <<e.kind, e.at>>, "", e.n)
      [] e.e = "text" -> GrowTo(said, <<e.kind, e.at>>, "", e.n)
      [] e.e = "itemdone" -> GrowTo(said, <<e.kind, e.at>>, e.id, e.n)
      [] e.e = "end" -> FoldLeft(LAMBDA t, i : GrowTo(t, <<e.items[i].kind, i>>, e.items[i].id, e.items[i].n),
                                 said, [i \in DOMAIN e.items |-> i])
      [] OTHER -> said

SaysGemini(said, c) ==
    LET at == Cardinality(DOMAIN said) IN
    CASE c.p \in {"text", "image"} -> AddTo(said, <<"text", at>>, "", c.n)
      [] c.p = "think" -> AddTo(said, <<"think", at>>, "", c.n)
      [] c.p = "tool" -> AddTo(said, <<"tool", at>>, c.id, c.n)
      [] OTHER -> AddTo(said, <<c.p, at>>, "", 0)

-----------------------------------------------------------------------------
(* What a client reads                                                     *)

NewClient == [bad |-> FALSE, started |-> FALSE, finished |-> FALSE, ended |-> FALSE, open |-> {}, said |-> <<>>]

Broken(c) == [c EXCEPT !.bad = TRUE]
Expect(rule, c, next) == IF rule THEN next ELSE Broken(c)

\* The role comes first; a call begins with its id and name and the next
\* index; nothing follows the finish but usage and the end.
ReadChat(c, e) ==
    CASE e.k = "role" -> Expect(~c.started, c, [c EXCEPT !.started = TRUE])
      [] e.k \in {"text", "think", "refusal"} -> Expect(c.started /\ ~c.finished, c, [c EXCEPT !.said = SaysChat(@, e)])
      [] e.k = "call" ->
           Expect(/\ c.started /\ ~c.finished
                  /\ IF <<"tool", e.ix>> \in DOMAIN c.said THEN e.id = ""
                     ELSE e.id # "" /\ e.name # "" /\ e.ix = Cardinality(Calls(c.said)),
                  c, [c EXCEPT !.said = SaysChat(@, e)])
      [] e.k = "finish" -> Expect(c.started /\ ~c.finished, c, [c EXCEPT !.finished = TRUE])
      [] e.k = "usage" -> Expect(c.finished /\ ~c.ended, c, c)
      [] e.k = "done" -> Expect(c.finished /\ ~c.ended, c, [c EXCEPT !.ended = TRUE])

\* Blocks come one after the other, with the next index, and are closed
\* before the stop reason.
ReadMessages(c, e) ==
    CASE e.e = "start" -> Expect(~c.started, c, [c EXCEPT !.started = TRUE])
      [] e.e = "bstart" ->
           Expect(c.started /\ ~c.finished /\ c.open = {} /\ e.at = Cardinality(DOMAIN c.said) + 1
                  /\ (e.kind = "tool" => e.id # "" /\ e.name # ""),
                  c, [c EXCEPT !.open = {<<e.kind, e.at>>}, !.said = SaysMessages(@, e)])
      [] e.e = "bdelta" -> Expect(<<e.kind, e.at>> \in c.open, c, [c EXCEPT !.said = SaysMessages(@, e)])
      [] e.e = "bstop" -> Expect(\E k \in c.open : k[2] = e.at, c, [c EXCEPT !.open = {}])
      [] e.e = "mdelta" -> Expect(c.started /\ ~c.finished /\ c.open = {}, c, [c EXCEPT !.finished = TRUE])
      [] e.e = "mstop" -> Expect(c.finished /\ ~c.ended, c, [c EXCEPT !.ended = TRUE])

\* An item is announced once, gets its content and is closed; what closes it
\* and the response in the end repeat that content exactly.  The arguments of
\* a call may come with the closing events alone.
ReadResponses(c, e) ==
    LET place == IF e.e \in {"created", "end"} THEN 0 ELSE e.at
        keys == {k \in DOMAIN c.said : k[2] = place}
        here == CHOOSE k \in keys : TRUE
        full(k, n) == n = c.said[k].n \/ (k[1] = "tool" /\ c.said[k].n = 0)
    IN CASE e.e = "created" -> Expect(~c.started, c, [c EXCEPT !.started = TRUE])
         [] e.e = "item" ->
              Expect(c.started /\ ~c.ended /\ keys = {} /\ (e.kind = "tool" => e.id # ""), c,
                     [c EXCEPT !.open = @ \cup {<<e.kind, e.at>>}, !.said = AddTo(@, <<e.kind, e.at>>, e.id, 0)])
         [] e.e \in {"part", "partdone"} -> Expect(keys # {} /\ here \in c.open, c, c)
         [] e.e = "delta" -> Expect(<<e.kind, e.at>> \in c.open, c, [c EXCEPT !.said = SaysResponses(@, e)])
         [] e.e = "text" ->
              Expect(<<e.kind, e.at>> \in c.open /\ full(<<e.kind, e.at>>, e.n), c, [c EXCEPT !.said = SaysResponses(@, e)])
         [] e.e = "itemdone" ->
              Expect(/\ <<e.kind, e.at>> \in c.open /\ full(<<e.kind, e.at>>, e.n)
                     /\ c.said[<<e.kind, e.at>>].id = e.id,
                     c, [c EXCEPT !.open = @ \ {<<e.kind, e.at>>}, !.said = SaysResponses(@, e)])
         [] e.e = "end" ->
              Expect(/\ c.started /\ ~c.ended /\ c.open = {}
                     /\ c.said = SaysResponses(<<>>, e),
                     c, [c EXCEPT !.finished = TRUE, !.ended = TRUE])
=============================================================================
