--------------------------- MODULE Streams_proofs ---------------------------
(***************************************************************************)
(* Proofs about GatewayStream, for any protocols and bounds.  Before       *)
(* settlement a client has read nothing that lets it go on: the frames it  *)
(* gets then are quiet (Quiet), whatever converter wrote them              *)
(* (ConvertTells), and reading quiet frames changes nothing that matters   *)
(* (ReadKeeps).  The converters and the client are folds over events;      *)
(* FoldKeeps says once what such a fold keeps, for the steps Turn lists.   *)
(***************************************************************************)
EXTENDS GatewayStream, Sums

\* Events of a protocol that let no client go on: neither the end of a stream
\* nor, for a client of Messages, a call to a tool.
Quiet(p, e) ==
    CASE p = "chat" -> e.k \in {"role", "text", "think", "refusal", "call", "finish", "usage"}
      [] p = "messages" -> e.e \in {"start", "bstop"} \/ (e.e \in {"bstart", "bdelta"} /\ e.kind \in {"text", "think"})
      [] p = "responses" -> e.e \in {"created", "item", "part", "partdone", "delta", "text", "itemdone"}
      [] p = "native" -> ~IsLast(e)

QuietWire(p, w) == \E S : w \in Seq(S) /\ \A e \in S : Quiet(p, e)

\* What a converter does with an event, if it lets no client go on.
Tells(p, r) == r = [s |-> r.s, wire |-> r.wire, err |-> r.err] /\ QuietWire(p, r.wire)

\* Quiet wires make a quiet wire.
LEMMA QuietJoined ==
  ASSUME NEW p, NEW v, NEW w, QuietWire(p, v), QuietWire(p, w)
  PROVE  QuietWire(p, v \o w)
<1>1. PICK S : v \in Seq(S) /\ \A e \in S : Quiet(p, e)
  BY DEF QuietWire
<1>2. PICK T : w \in Seq(T) /\ \A e \in T : Quiet(p, e)
  BY DEF QuietWire
<1>3. v \in Seq(S \cup T) /\ w \in Seq(S \cup T)
  BY <1>1, <1>2
<1>4. v \o w \in Seq(S \cup T)
  BY <1>3
<1> QED
  BY <1>1, <1>2, <1>4 DEF QuietWire

\* A wire of quiet events is quiet.
LEMMA QuietOf ==
  ASSUME NEW p, NEW S, NEW w \in Seq(S), \A e \in S : Quiet(p, e)
  PROVE  QuietWire(p, w)
BY DEF QuietWire

\* No event is quiet, and so is a quiet one, or two.
LEMMA QuietFew ==
  ASSUME NEW p
  PROVE  /\ QuietWire(p, <<>>)
         /\ \A e : Quiet(p, e) => QuietWire(p, <<e>>)
         /\ \A e, f : Quiet(p, e) /\ Quiet(p, f) => QuietWire(p, <<e, f>>)
<1>1. ASSUME NEW w, NEW S, w \in Seq(S), \A e \in S : Quiet(p, e)
      PROVE  QuietWire(p, w)
  BY <1>1, QuietOf
<1>2. QuietWire(p, <<>>)
  <2>1. PICK w : w = <<>>
    OBVIOUS
  <2>2. w \in Seq({}) /\ \A e \in {} : Quiet(p, e)
    BY <2>1
  <2>3. QuietWire(p, w)
    BY <1>1, <2>2
  <2> QED
    BY <2>1, <2>3
<1>3. ASSUME NEW e, Quiet(p, e) PROVE QuietWire(p, <<e>>)
  <2>1. <<e>> \in Seq({e})
    OBVIOUS
  <2> DEFINE w == <<e>>
  <2> HIDE DEF w
  <2> QED
    BY <1>1, <1>3, <2>1 DEF w
<1>4. ASSUME NEW e, NEW f, Quiet(p, e), Quiet(p, f) PROVE QuietWire(p, <<e, f>>)
  <2>1. <<e, f>> \in Seq({e, f})
    OBVIOUS
  <2> QED
    BY <1>1, <1>4, <2>1
<1> QED
  BY <1>2, <1>3, <1>4

\* One step after another (Then), the second being q.
Joined(r, q) == IF r.err THEN r ELSE IF q.err THEN q ELSE [q EXCEPT !.wire = r.wire \o q.wire]

\* A refusal tells nothing, and one thing after another tells what both tell.
LEMMA TellsBasics ==
  ASSUME NEW p
  PROVE  /\ \A s : Tells(p, Refuse(s))
         /\ \A s, w : QuietWire(p, w) => Tells(p, Ok(s, w))
         /\ \A s : Tells(p, Ok(s, <<>>))
         /\ \A s, e : Quiet(p, e) => Tells(p, Ok(s, <<e>>))
         /\ \A s, e, f : Quiet(p, e) /\ Quiet(p, f) => Tells(p, Ok(s, <<e, f>>))
<1>1. \A s : Tells(p, Refuse(s))
  BY QuietFew DEF Tells, Refuse
<1>2. \A s, w : QuietWire(p, w) => Tells(p, Ok(s, w))
  BY DEF Tells, Ok
<1> QED
  BY <1>1, <1>2, QuietFew

\* One thing after another tells what both tell.
LEMMA TellsJoined ==
  ASSUME NEW p, NEW r, NEW q, Tells(p, r), Tells(p, q)
  PROVE  Tells(p, Joined(r, q))
<1>1. QuietWire(p, r.wire \o q.wire)
  BY QuietJoined DEF Tells
<1> DEFINE x == r.wire \o q.wire
           t == [q EXCEPT !.wire = x]
<1>2. PICK a, b, c : q = [s |-> a, wire |-> b, err |-> c]
  BY DEF Tells
<1> HIDE DEF x
<1>3. [[s |-> a, wire |-> b, err |-> c] EXCEPT !.wire = x] = [s |-> a, wire |-> x, err |-> c]
  OBVIOUS
<1>4. t = [s |-> a, wire |-> x, err |-> c]
  BY <1>2, <1>3, Zenon
<1>5. Tells(p, t)
  <2> HIDE DEF t
  <2> QED
    BY <1>1, <1>4 DEF Tells, x
<1>6. Joined(r, q) = IF r.err THEN r ELSE IF q.err THEN q ELSE t
  BY DEF Joined, x
<1> QED
  BY <1>5, <1>6

\* A turn of the folds over events, by the name of the fold: what a client
\* reads, the chunks of Gemini told on, parts shown, items put and rendered.
Turn(f, r, x) ==
    CASE f.fold = "read" -> ReadEvent(r, x)
      [] f.fold = "feed" -> IF x = ChatDone THEN r ELSE Then(r, LAMBDA t : ChatToResponses!Observe(t, x))
      [] f.fold = "show" -> Then(r, LAMBDA t : ChatToMessages!Show(t, x))
      [] f.fold = "put" -> Then(r, LAMBDA t : ResponsesToMessages!Put(t, x, f.items[x], TRUE))
      [] f.fold = "render" -> Then(r, LAMBDA t : ResponsesToMessages!RenderItem(t, f.final))

TurnsSolve(f, b, n, g) ==
    g = [s \in SUBSET (1..n) |-> IF s = {} THEN b ELSE Turn(f, g[s \ {Max(s)}], f.seq[Max(s)])]

\* Some function satisfies the recursion of a fold.
LEMMA TurnsExist ==
  ASSUME NEW f, NEW b, NEW n \in Nat
  PROVE  \E g : TurnsSolve(f, b, n, g)
<1> DEFINE B == {m \in Nat : ~\E g : TurnsSolve(f, b, m, g)}
<1>1. SUFFICES ASSUME B # {} PROVE FALSE
  OBVIOUS
<1>2. PICK k \in B : \A m \in B : k <= m
  <2>1. B \subseteq Nat
    OBVIOUS
  <2> HIDE DEF B
  <2> QED
    BY <1>1, <2>1, LeastNumber
<1>3. CASE k = 0
  <2> DEFINE g == [s \in SUBSET (1..0) |-> b]
  <2>1. \A s \in SUBSET (1..0) : s = {}
    OBVIOUS
  <2>2. TurnsSolve(f, b, 0, g)
    BY <2>1 DEF TurnsSolve
  <2> QED
    BY <1>2, <1>3, <2>2
<1>4. CASE k # 0
  <2> DEFINE m == k - 1
  <2>1. m \in Nat /\ k = m + 1 /\ m \notin B
    BY <1>2, <1>4
  <2>2. PICK g : TurnsSolve(f, b, m, g)
    BY <2>1
  <2> HIDE DEF m, B
  <2>3. \A s \in SUBSET (1..m) : g[s] = IF s = {} THEN b ELSE Turn(f, g[s \ {Max(s)}], f.seq[Max(s)])
    BY <2>2 DEF TurnsSolve
  <2> DEFINE h == [s \in SUBSET (1..k) |-> IF k \in s THEN Turn(f, g[s \ {k}], f.seq[k]) ELSE g[s]]
             Step(s) == IF s = {} THEN b ELSE Turn(f, h[s \ {Max(s)}], f.seq[Max(s)])
  <2>4. ASSUME NEW s \in SUBSET (1..k) PROVE h[s] = Step(s)
    <3>1. CASE k \in s
      <4>1. \A x \in s : x \in Nat /\ k >= x
        BY <2>1
      <4>2. \A x \in s : (\A y \in s : x >= y) => x = k
        BY <2>1, <3>1, <4>1
      <4>3. Max(s) = k
        BY <3>1, <4>1, <4>2 DEF Max
      <4>4. s \ {k} \in SUBSET (1..k) /\ k \notin s \ {k}
        OBVIOUS
      <4> QED
        BY <3>1, <4>3, <4>4
    <3>2. CASE k \notin s
      <4>1. s \in SUBSET (1..m)
        BY <2>1, <3>2
      <4> DEFINE u == s \ {Max(s)}
      <4>2. u \in SUBSET (1..k) /\ k \notin u
        BY <3>2
      <4>3. h[u] = g[u]
        BY <4>2
      <4> HIDE DEF u
      <4> QED
        BY <2>3, <3>2, <4>1, <4>3 DEF u
    <3> QED
      BY <3>1, <3>2
  <2>5. h = [s \in SUBSET (1..k) |-> Step(s)]
    <3> HIDE DEF Step
    <3> QED
      BY <2>4
  <2>6. TurnsSolve(f, b, k, h)
    <3> HIDE DEF h
    <3> QED
      BY <2>5 DEF TurnsSolve
  <2> QED
    BY <1>2, <2>6 DEF B
<1> QED
  BY <1>3, <1>4

\* What has not been paid for: a client has not read the end, nor a call it
\* may act upon.
Unpaid(d) ==
    /\ "ended" \in DOMAIN d /\ d.ended = FALSE
    /\ "said" \in DOMAIN d /\ (Out = "messages" /\ In # "messages" => \A k \in DOMAIN d.said : k[1] # "tool")

\* The parts of a chatResponsesStream are a sequence, and so there are finitely
\* many to show; the items of a responsesMessagesStream are finitely many.
PartsOK(s) ==
    /\ s = [started |-> s.started, finish |-> s.finish, parts |-> s.parts, at |-> s.at]
    /\ \E S : s.parts \in Seq(S)
ShownOK(s) == "chat" \in DOMAIN s /\ PartsOK(s.chat)
SlotsOK(s) ==
    /\ "slots" \in DOMAIN s /\ IsFiniteSet(DOMAIN s.slots)
    /\ \A k \in DOMAIN s.slots : "kind" \in DOMAIN s.slots[k] /\ s.slots[k].kind \in {"text", "think", "tool"}

\* What the base of a fold has and every turn keeps.
Kept(f, r) ==
    CASE f.fold = "read" -> Unpaid(r)
      [] f.fold = "feed" -> Tells("responses", r)
      [] f.fold = "show" -> Tells("messages", r) /\ ShownOK(r.s)
      [] f.fold = "put" -> SlotsOK(r.s)
      [] f.fold = "render" -> /\ SlotsOK(r.s) /\ r = [s |-> r.s, wire |-> r.wire, err |-> r.err]
                               /\ (f.final \/ Tells("messages", r))

\* So it has it in the end.
LEMMA TurnsKeep ==
  ASSUME NEW f, NEW b, NEW n \in Nat, NEW g, TurnsSolve(f, b, n, g), Kept(f, b),
         \A r : \A i \in 1..n : Kept(f, r) => Kept(f, Turn(f, r, f.seq[i]))
  PROVE  Kept(f, g[1..n])
<1> DEFINE B == {m \in 0..n : ~Kept(f, g[1..m])}
<1>1. SUFFICES ASSUME B # {} PROVE FALSE
  BY n \in 0..n
<1>2. PICK k \in B : \A m \in B : k <= m
  <2>1. B \subseteq Nat
    OBVIOUS
  <2> HIDE DEF B
  <2> QED
    BY <1>1, <2>1, LeastNumber
<1>3. \A s \in SUBSET (1..n) : g[s] = IF s = {} THEN b ELSE Turn(f, g[s \ {Max(s)}], f.seq[Max(s)])
  BY DEF TurnsSolve
<1>4. CASE k = 0
  <2>1. 1..0 = {} /\ {} \in SUBSET (1..n)
    OBVIOUS
  <2>2. g[1..0] = b
    BY <1>3, <2>1
  <2> QED
    BY <1>2, <1>4, <2>2
<1>5. CASE k # 0
  <2> DEFINE s == 1..k
  <2>1. k \in 1..n /\ k - 1 \in 0..n /\ k - 1 \notin B
    BY <1>2, <1>5
  <2>2. /\ s \in SUBSET (1..n) /\ s # {} /\ k \in s
        /\ s \ {k} = 1..(k - 1)
        /\ \A x \in s : x \in Nat /\ x <= k
    <3>1. /\ 1..k \subseteq 1..n /\ k \in 1..k
          /\ (1..k) \ {k} = 1..(k - 1)
          /\ \A x \in 1..k : x \in Nat /\ x <= k
      <4>1. k \in Nat /\ 1 <= k /\ k <= n
        BY <2>1
      <4>2. k \in 1..k
        BY <4>1
      <4>3. ASSUME NEW x \in 1..k PROVE x \in 1..n /\ x \in Nat /\ x <= k
        BY <4>1
      <4>4. ASSUME NEW x \in (1..k) \ {k} PROVE x \in 1..(k - 1)
        BY <4>1
      <4>5. ASSUME NEW x \in 1..(k - 1) PROVE x \in (1..k) \ {k}
        BY <4>1
      <4> QED
        BY <4>2, <4>3, <4>4, <4>5
    <3>2. s = 1..k
      OBVIOUS
    <3> HIDE DEF B, s
    <3> QED
      BY <3>1, <3>2
  <2> HIDE DEF s
  <2>5. Max(s) = k
    <3>1. \A y \in s : k >= y
      BY <2>2
    <3>2. \A x \in s : (\A y \in s : x >= y) => x = k
      BY <2>2
    <3> QED
      BY <2>2, <3>1, <3>2 DEF Max
  <2>6. Kept(f, g[1..(k - 1)])
    BY <2>1
  <2>7. g[s] = Turn(f, g[1..(k - 1)], f.seq[k])
    BY <1>3, <2>2, <2>5
  <2>8. Kept(f, g[s])
    BY <2>1, <2>6, <2>7
  <2> QED
    BY <1>2, <2>8 DEF s
<1> QED
  BY <1>4, <1>5

\* The same of the function that the recursion defines.
LEMMA FoldKeeps ==
  ASSUME NEW f, NEW b, NEW n \in Nat, Kept(f, b),
         \A r : \A i \in 1..n : Kept(f, r) => Kept(f, Turn(f, r, f.seq[i]))
  PROVE  Kept(f, (CHOOSE g : TurnsSolve(f, b, n, g))[1..n])
<1> DEFINE g == CHOOSE h : TurnsSolve(f, b, n, h)
<1>1. TurnsSolve(f, b, n, g)
  BY TurnsExist
<1> HIDE DEF g
<1>2. Kept(f, g[1..n])
  BY <1>1, TurnsKeep
<1> QED
  BY <1>2 DEF g

\* chatResponsesStream ends no response before finish.
LEMMA ChatResponsesTells ==
  /\ \A s : Tells("responses", ChatToResponses!Start(s))
  /\ \A s, kind : Tells("responses", ChatToResponses!OpenPart(s, kind))
  /\ \A s, kind, n : Tells("responses", ChatToResponses!AppendText(s, kind, n))
  /\ \A s, c : Tells("responses", ChatToResponses!Call(s, c))
  /\ \A s, c : Tells("responses", ChatToResponses!Observe(s, c))
<1> DEFINE p == "responses"
<1>1. /\ Quiet(p, ChatToResponses!Created)
      /\ \A at, kind, id : Quiet(p, ChatToResponses!ItemAdded(at, kind, id))
      /\ \A at : Quiet(p, ChatToResponses!PartAdded(at))
      /\ \A at, kind, n : Quiet(p, ChatToResponses!Delta(at, kind, n))
  BY DEF Quiet, ChatToResponses!Created, ChatToResponses!ItemAdded, ChatToResponses!PartAdded, ChatToResponses!Delta
<1> HIDE DEF p
<1>2. /\ \A s, w : ChatToResponses!Ok(s, w) = Ok(s, w)
      /\ \A s : ChatToResponses!Refuse(s) = Refuse(s)
  BY DEF ChatToResponses!Ok, Ok, ChatToResponses!Refuse, Refuse
<1>3. ASSUME NEW s PROVE Tells(p, ChatToResponses!Start(s))
  <2>1. ChatToResponses!Start(s) = Ok([s EXCEPT !.started = TRUE], IF s.started THEN <<>> ELSE <<ChatToResponses!Created>>)
    BY <1>2 DEF ChatToResponses!Start
  <2> QED
    BY <1>1, <2>1, TellsBasics
<1>4. ASSUME NEW s, NEW kind PROVE Tells(p, ChatToResponses!OpenPart(s, kind))
  <2>1. PICK t, at : ChatToResponses!OpenPart(s, kind) =
                       Ok(t, <<ChatToResponses!ItemAdded(at, kind, ""), ChatToResponses!PartAdded(at)>>)
    BY <1>2 DEF ChatToResponses!OpenPart
  <2> QED
    BY <1>1, <2>1, TellsBasics
<1>5. ASSUME NEW s, NEW kind, NEW n PROVE Tells(p, ChatToResponses!AppendText(s, kind, n))
  <2> DEFINE r == IF s.at[kind] = 0 THEN ChatToResponses!OpenPart(s, kind) ELSE Ok(s, <<>>)
             q == Ok([r.s EXCEPT !.parts[r.s.at[kind]].n = @ + n], <<ChatToResponses!Delta(r.s.at[kind], kind, n)>>)
  <2>1. Tells(p, r)
    BY <1>4, TellsBasics
  <2>2. Tells(p, q)
    <3> HIDE DEF r
    <3> QED
      BY <1>1, TellsBasics
  <2>3. Tells(p, Ok(s, <<>>))
    BY TellsBasics
  <2>4. ChatToResponses!AppendText(s, kind, n) = IF n = 0 THEN Ok(s, <<>>) ELSE Joined(r, q)
    BY DEF ChatToResponses!AppendText, ChatToResponses!Then, Joined, ChatToResponses!Ok, Ok
  <2> HIDE DEF r, q
  <2> QED
    BY <2>1, <2>2, <2>3, <2>4, TellsJoined
<1>6. ASSUME NEW s, NEW c PROVE Tells(p, ChatToResponses!Call(s, c))
  <2> DEFINE i == ChatToResponses!ToolAt(s, c.ix)
             at == IF i = 0 THEN Len(s.parts) + 1 ELSE i
             parts == IF i = 0 THEN Append(s.parts, ChatToResponses!Part("tool", c.ix)) ELSE s.parts
             part == parts[at]
             o == [part EXCEPT !.id = IF c.id = "" THEN @ ELSE c.id,
                               !.name = IF c.name = "" THEN @ ELSE c.name,
                               !.n = @ + c.n]
             known == o.id # "" /\ o.name # ""
             n == IF part.announced THEN c.n ELSE o.n
             a == known /\ ~part.announced
             b == known /\ n > 0 /\ ~ChatToResponses!Rewritten(o.name)
             id == o.id
             t == [s EXCEPT !.parts = [parts EXCEPT ![at] = [o EXCEPT !.announced = known]]]
             w == (IF a THEN <<ChatToResponses!ItemAdded(at, "tool", id)>> ELSE <<>>)
                  \o (IF b THEN <<ChatToResponses!Delta(at, "tool", n)>> ELSE <<>>)
             no == \/ c.id # "" /\ part.id \notin {"", c.id}
                   \/ c.id # "" /\ \E j \in DOMAIN parts \ {at} : parts[j].id = c.id
                   \/ c.name # "" /\ part.name \notin {"", c.name}
  <2>1. ChatToResponses!Call(s, c) = IF no THEN Refuse(s) ELSE Ok(t, w)
    BY DEF ChatToResponses!Call, ChatToResponses!Ok, Ok, ChatToResponses!Refuse, Refuse
  <2> HIDE DEF i, at, parts, part, o, known, n, a, b, id, t, no
  <2>2. QuietWire(p, IF a THEN <<ChatToResponses!ItemAdded(at, "tool", id)>> ELSE <<>>)
    BY <1>1, QuietFew
  <2>3. QuietWire(p, IF b THEN <<ChatToResponses!Delta(at, "tool", n)>> ELSE <<>>)
    BY <1>1, QuietFew
  <2>4. QuietWire(p, w)
    BY <2>2, <2>3, QuietJoined
  <2> HIDE DEF w
  <2> QED
    BY <2>1, <2>4, TellsBasics
<1>7. ASSUME NEW s, NEW c PROVE Tells(p, ChatToResponses!Observe(s, c))
  <2> DEFINE r == ChatToResponses!Start(s)
             q == CASE c.k \in {"text", "think", "refusal"} -> ChatToResponses!AppendText(r.s, c.k, c.n)
                    [] c.k = "call" -> ChatToResponses!Call(r.s, c)
                    [] c.k = "finish" -> ChatToResponses!SetFinish(r.s, c.why)
                    [] OTHER -> Ok(r.s, <<>>)
             refused == c.k = "bad" \/ (s.finish # "" /\ c.k \in {"text", "think", "refusal", "call"})
  <2>1. Tells(p, ChatToResponses!SetFinish(r.s, c.why))
    <3> HIDE DEF r
    <3> QED
      BY <1>2, TellsBasics DEF ChatToResponses!SetFinish
  <2>2. Tells(p, q)
    <3> HIDE DEF r
    <3>1. \A x : Tells(p, Ok(x, <<>>))
      BY TellsBasics
    <3> QED
      BY <1>5, <1>6, <2>1, <3>1
  <2>3. ChatToResponses!Observe(s, c) = IF refused THEN Refuse(s) ELSE Joined(r, q)
    BY DEF ChatToResponses!Observe, ChatToResponses!Then, Joined, ChatToResponses!Ok, Ok, ChatToResponses!Refuse, Refuse
  <2>4. Tells(p, r)
    BY <1>3
  <2> HIDE DEF r, q, refused
  <2> QED
    BY <2>2, <2>3, <2>4, TellsBasics, TellsJoined
<1> QED
  BY <1>3, <1>4, <1>5, <1>6, <1>7 DEF p

\* What happens to the parts that are collected for a Messages client.
LEMMA PartsKept ==
  ASSUME NEW s, PartsOK(s), NEW c
  PROVE  PartsOK(ChatToMessages!Parts!Observe(s, c).s)
<1> DEFINE Row(x, y, z, w) == [started |-> x, finish |-> y, parts |-> z, at |-> w]
<1>1. ASSUME NEW x, NEW y, NEW z, NEW w, NEW S, z \in Seq(S) PROVE PartsOK(Row(x, y, z, w))
  BY <1>1 DEF PartsOK
<1>2. ASSUME NEW t, PartsOK(t)
      PROVE  \E x, y, z, w, S : t = Row(x, y, z, w) /\ z \in Seq(S)
  BY <1>2 DEF PartsOK
<1>3. ASSUME NEW S, NEW z \in Seq(S), NEW i, NEW v, NEW u, u = [z EXCEPT ![i] = v] PROVE \E T : u \in Seq(T)
  <2>1. z \in [1..Len(z) -> S \cup {v}] /\ Len(z) \in Nat
    OBVIOUS
  <2>2. u \in [1..Len(z) -> S \cup {v}]
    BY <1>3, <2>1
  <2>3. \A n \in Nat : \A f \in [1..n -> S \cup {v}] : f \in Seq(S \cup {v})
    OBVIOUS
  <2> QED
    BY <2>1, <2>2, <2>3
<1>4. /\ \A t, w : ChatToMessages!Parts!Ok(t, w).s = t
      /\ \A t : ChatToMessages!Parts!Refuse(t).s = t
  BY DEF ChatToMessages!Parts!Ok, ChatToMessages!Parts!Refuse
<1>5. ASSUME NEW t, PartsOK(t) PROVE PartsOK(ChatToMessages!Parts!Start(t).s)
  <2>1. PICK x, y, z, w, S : t = Row(x, y, z, w) /\ z \in Seq(S)
    BY <1>2, <1>5
  <2>2. ChatToMessages!Parts!Start(t).s = Row(TRUE, y, z, w)
    BY <2>1 DEF ChatToMessages!Parts!Start, ChatToMessages!Parts!Ok
  <2> HIDE DEF Row
  <2> QED
    BY <1>1, <2>1, <2>2
<1>6. ASSUME NEW t, PartsOK(t), NEW kind PROVE PartsOK(ChatToMessages!Parts!OpenPart(t, kind).s)
  <2>1. PICK x, y, z, w, S : t = Row(x, y, z, w) /\ z \in Seq(S)
    BY <1>2, <1>6
  <2> DEFINE v == ChatToMessages!Parts!Part(kind, 0)
             u == [w EXCEPT ![kind] = Len(z) + 1]
  <2>2. ChatToMessages!Parts!OpenPart(t, kind).s = Row(x, y, Append(z, v), u)
    BY <2>1 DEF ChatToMessages!Parts!OpenPart, ChatToMessages!Parts!Add, ChatToMessages!Parts!Ok
  <2> HIDE DEF v, u, Row
  <2>3. z \in Seq(S \cup {v})
    BY <2>1
  <2>4. Append(z, v) \in Seq(S \cup {v})
    BY <2>3
  <2> QED
    BY <1>1, <2>2, <2>4
<1>7. ASSUME NEW t, PartsOK(t), NEW kind, NEW n PROVE PartsOK(ChatToMessages!Parts!AppendText(t, kind, n).s)
  <2> DEFINE r == IF t.at[kind] = 0 THEN ChatToMessages!Parts!OpenPart(t, kind) ELSE ChatToMessages!Parts!Ok(t, <<>>)
             i == r.s.at[kind]
             v == [r.s.parts[i] EXCEPT !.n = @ + n]
             u == [r.s EXCEPT !.parts[i].n = @ + n]
  <2>1. PartsOK(r.s)
    BY <1>4, <1>6, <1>7
  <2>2. PartsOK(u)
    <3> HIDE DEF r, i
    <3>1. PICK x, y, z, w, S : r.s = Row(x, y, z, w) /\ z \in Seq(S)
      BY <1>2, <2>1
    <3> DEFINE z1 == [z EXCEPT ![i].n = @ + n]
               v1 == [z[i] EXCEPT !.n = @ + n]
    <3>2. u = Row(x, y, z1, w)
      <4>1. Row(x, y, z, w).parts = z
        OBVIOUS
      <4> DEFINE v2 == [z[i] EXCEPT !.n = z[i].n + n]
                 z2 == [z EXCEPT ![i] = v2]
      <4>2. z1 = z2
        OBVIOUS
      <4>3. u = [r.s EXCEPT !.parts = [r.s.parts EXCEPT ![i] = [r.s.parts[i] EXCEPT !.n = r.s.parts[i].n + n]]]
        OBVIOUS
      <4>4. r.s.parts = z
        BY <3>1, <4>1
      <4> HIDE DEF u, z1, v2
      <4>5. u = [r.s EXCEPT !.parts = z2]
        BY <4>3, <4>4 DEF v2
      <4> HIDE DEF z2
      <4>6. [Row(x, y, z, w) EXCEPT !.parts = z2] = Row(x, y, z2, w)
        OBVIOUS
      <4> HIDE DEF Row
      <4>7. u = Row(x, y, z2, w)
        BY <3>1, <4>5, <4>6, Zenon
      <4> QED
        BY <4>2, <4>7
    <3>3. z1 = [z EXCEPT ![i] = v1]
      OBVIOUS
    <3> HIDE DEF z1, v1, u, Row
    <3>4. \E T : z1 \in Seq(T)
      BY <1>3, <3>1, <3>3
    <3> QED
      BY <1>1, <3>2, <3>4
  <2>3. \/ ChatToMessages!Parts!AppendText(t, kind, n).s = t
        \/ ChatToMessages!Parts!AppendText(t, kind, n).s = r.s
        \/ ChatToMessages!Parts!AppendText(t, kind, n).s = u
    BY DEF ChatToMessages!Parts!AppendText, ChatToMessages!Parts!Then, ChatToMessages!Parts!Ok
  <2> HIDE DEF r, i, u
  <2> QED
    BY <1>7, <2>1, <2>2, <2>3
<1>8. ASSUME NEW t, PartsOK(t), NEW e PROVE PartsOK(ChatToMessages!Parts!Call(t, e).s)
  <2>1. PICK x, y, z, w, S : t = Row(x, y, z, w) /\ z \in Seq(S)
    BY <1>2, <1>8
  <2> DEFINE i == ChatToMessages!Parts!ToolAt(t, e.ix)
             part == ChatToMessages!Parts!Part("tool", e.ix)
             at == IF i = 0 THEN Len(z) + 1 ELSE i
             parts == IF i = 0 THEN Append(z, part) ELSE z
  <2>2. t.parts = z
    BY <2>1, SMTT(30)
  <2>3. \E v : \/ ChatToMessages!Parts!Call(t, e).s = t
               \/ ChatToMessages!Parts!Call(t, e).s = [t EXCEPT !.parts = [parts EXCEPT ![at] = v]]
    BY <2>2 DEF ChatToMessages!Parts!Call, ChatToMessages!Parts!Ok, ChatToMessages!Parts!Refuse
  <2>4. \E v, u : \/ ChatToMessages!Parts!Call(t, e).s = t
                  \/ ChatToMessages!Parts!Call(t, e).s = Row(x, y, u, w) /\ u = [parts EXCEPT ![at] = v]
    <3> HIDE DEF parts, at
    <3>1. PICK v : \/ ChatToMessages!Parts!Call(t, e).s = t
                   \/ ChatToMessages!Parts!Call(t, e).s = [t EXCEPT !.parts = [parts EXCEPT ![at] = v]]
      BY <2>3
    <3> DEFINE u == [parts EXCEPT ![at] = v]
    <3> HIDE DEF u
    <3>2. [t EXCEPT !.parts = u] = Row(x, y, u, w)
      BY <2>1
    <3>3. ChatToMessages!Parts!Call(t, e).s = t \/ ChatToMessages!Parts!Call(t, e).s = [t EXCEPT !.parts = u]
      BY <3>1 DEF u
    <3> HIDE DEF Row
    <3>4. ChatToMessages!Parts!Call(t, e).s = t \/ ChatToMessages!Parts!Call(t, e).s = Row(x, y, u, w)
      BY <3>2, <3>3, Zenon
    <3> QED
      BY <3>4 DEF u
  <2>5. parts \in Seq(S \cup {part})
    <3> HIDE DEF i, part
    <3>1. z \in Seq(S \cup {part})
      BY <2>1
    <3> QED
      BY <3>1
  <2> HIDE DEF parts, at, Row
  <2>6. PICK v, u : \/ ChatToMessages!Parts!Call(t, e).s = t
                    \/ ChatToMessages!Parts!Call(t, e).s = Row(x, y, u, w) /\ u = [parts EXCEPT ![at] = v]
    BY <2>4
  <2>7. CASE u = [parts EXCEPT ![at] = v]
    <3>1. \E T : u \in Seq(T)
      BY <1>3, <2>5, <2>7
    <3> QED
      BY <1>1, <1>8, <2>6, <3>1
  <2> QED
    BY <1>8, <2>6, <2>7
<1>9. ASSUME NEW t, PartsOK(t), NEW why PROVE PartsOK(ChatToMessages!Parts!SetFinish(t, why).s)
  <2>1. PICK x, y, z, w, S : t = Row(x, y, z, w) /\ z \in Seq(S)
    BY <1>2, <1>9
  <2>2. ChatToMessages!Parts!SetFinish(t, why).s = t \/ ChatToMessages!Parts!SetFinish(t, why).s = Row(x, why, z, w)
    BY <2>1 DEF ChatToMessages!Parts!SetFinish, ChatToMessages!Parts!Ok, ChatToMessages!Parts!Refuse
  <2> HIDE DEF Row
  <2> QED
    BY <1>1, <1>9, <2>1, <2>2
<1> DEFINE r == ChatToMessages!Parts!Start(s)
           q == CASE c.k \in {"text", "think", "refusal"} -> ChatToMessages!Parts!AppendText(r.s, c.k, c.n)
                  [] c.k = "call" -> ChatToMessages!Parts!Call(r.s, c)
                  [] c.k = "finish" -> ChatToMessages!Parts!SetFinish(r.s, c.why)
                  [] OTHER -> ChatToMessages!Parts!Ok(r.s, <<>>)
<1>10. PartsOK(r.s)
  BY <1>5
<1>11. PartsOK(q.s)
  <2> HIDE DEF r
  <2> QED
    BY <1>4, <1>7, <1>8, <1>9, <1>10
<1>12. q = [s |-> q.s, wire |-> q.wire, err |-> q.err]
  <2> HIDE DEF r
  <2> QED
    BY DEF ChatToMessages!Parts!AppendText, ChatToMessages!Parts!Call, ChatToMessages!Parts!SetFinish,
           ChatToMessages!Parts!Ok, ChatToMessages!Parts!Refuse, ChatToMessages!Parts!Then, ChatToMessages!Parts!OpenPart
<1>13. \/ ChatToMessages!Parts!Observe(s, c).s = s
       \/ ChatToMessages!Parts!Observe(s, c).s = r.s
       \/ ChatToMessages!Parts!Observe(s, c).s = q.s
       \/ ChatToMessages!Parts!Observe(s, c).s = [q EXCEPT !.wire = r.wire \o q.wire].s
  <2> HIDE DEF r
  <2> QED
    BY DEF ChatToMessages!Parts!Observe, ChatToMessages!Parts!Then, ChatToMessages!Parts!Refuse, r
<1>14. [q EXCEPT !.wire = r.wire \o q.wire].s = q.s
  <2> DEFINE u == r.wire \o q.wire
  <2> HIDE DEF q, u
  <2>1. [q EXCEPT !.wire = u].s = q.s
    BY <1>12
  <2> QED
    BY <2>1 DEF u
<1> HIDE DEF r, q
<1> QED
  BY <1>10, <1>11, <1>13, <1>14

\* A converter's step as a record.
Shaped(r) == r = [s |-> r.s, wire |-> r.wire, err |-> r.err]

\* The state after one step and another is that of either.
LEMMA JoinedShape ==
  ASSUME NEW r, NEW q, Shaped(q)
  PROVE  /\ Joined(r, q).s = r.s \/ Joined(r, q).s = q.s
         /\ Shaped(r) => Shaped(Joined(r, q))
<1> DEFINE x == r.wire \o q.wire
           t == [q EXCEPT !.wire = x]
<1>1. PICK e, f, g : q = [s |-> e, wire |-> f, err |-> g]
  BY DEF Shaped
<1>2. Joined(r, q) = IF r.err THEN r ELSE IF q.err THEN q ELSE t
  BY DEF Joined
<1> HIDE DEF x
<1>3. [[s |-> e, wire |-> f, err |-> g] EXCEPT !.wire = x] = [s |-> e, wire |-> x, err |-> g]
  OBVIOUS
<1>4. t = [s |-> e, wire |-> x, err |-> g]
  BY <1>1, <1>3, Zenon
<1> HIDE DEF t
<1>5. Shaped(t) /\ t.s = q.s
  BY <1>1, <1>4 DEF Shaped
<1> QED
  BY <1>2, <1>5

\* The same of what two of a converter's steps tell.
LEMMA JoinedState ==
  ASSUME NEW p, NEW r, NEW q, Tells(p, q)
  PROVE  Joined(r, q).s = r.s \/ Joined(r, q).s = q.s
BY JoinedShape DEF Tells, Shaped

\* A part that is shown lets no client of Messages go on.
LEMMA ShowTells ==
  ASSUME NEW s, ShownOK(s), NEW i
  PROVE  Tells("messages", ChatToMessages!Show(s, i)) /\ ShownOK(ChatToMessages!Show(s, i).s)
<1> DEFINE p == "messages"
           part == s.chat.parts[i]
           kind == ChatToMessages!BlockKind(part.kind)
           fresh == s.active # kind
           at == IF fresh THEN s.blocks + 1 ELSE s.blocks
           a == IF fresh /\ s.active # "" THEN <<ChatToMessages!BlockStop(s.blocks)>> ELSE <<>>
           b == IF fresh THEN <<ChatToMessages!BlockStart(at, kind, "", "", 0)>> ELSE <<>>
           c == <<ChatToMessages!BlockDelta(at, kind, part.n - s.sent[i])>>
           t == [s EXCEPT !.sent[i] = part.n, !.active = kind, !.blocks = at]
<1>1. ChatToMessages!Show(s, i) = IF part.kind = "tool" \/ part.n = s.sent[i] THEN Ok(s, <<>>) ELSE Ok(t, a \o b \o c)
  BY DEF ChatToMessages!Show, ChatToMessages!Ok, Ok
<1>2. ShownOK(t)
  <2> HIDE DEF part, kind, at
  <2>1. t.chat = s.chat /\ "chat" \in DOMAIN t
    BY DEF ShownOK
  <2> HIDE DEF t
  <2> QED
    BY <2>1 DEF ShownOK
<1>3. kind \in {"think", "text"}
  BY DEF ChatToMessages!BlockKind
<1> HIDE DEF kind, t, part
<1>4. /\ \A n : Quiet(p, ChatToMessages!BlockStop(n))
      /\ \A n : Quiet(p, ChatToMessages!BlockStart(n, kind, "", "", 0))
      /\ \A n, m : Quiet(p, ChatToMessages!BlockDelta(n, kind, m))
  BY <1>3 DEF Quiet, ChatToMessages!BlockStop, ChatToMessages!BlockStart, ChatToMessages!BlockDelta
<1> HIDE DEF p
<1>5. QuietWire(p, a) /\ QuietWire(p, b) /\ QuietWire(p, c)
  BY <1>4, QuietFew
<1> HIDE DEF a, b, c
<1>6. QuietWire(p, a \o b \o c)
  BY <1>5, QuietJoined
<1> DEFINE w == a \o b \o c
<1> HIDE DEF w
<1>7. Tells(p, Ok(t, w)) /\ Tells(p, Ok(s, <<>>))
  BY <1>6, TellsBasics DEF w
<1>8. Ok(t, w).s = t /\ Ok(s, <<>>).s = s
  BY DEF Ok
<1> QED
  BY <1>1, <1>2, <1>7, <1>8 DEF p, w

\* chatMessagesStream lets no client go on before finish.
LEMMA ChatMessagesTells ==
  ASSUME NEW s, ShownOK(s), NEW c
  PROVE  Tells("messages", ChatToMessages!Observe(s, c)) /\ ShownOK(ChatToMessages!Observe(s, c).s)
<1> DEFINE chat == ChatToMessages!Parts!Observe(s.chat, c)
           n == Len(chat.s.parts)
           id == [i \in 1..n |-> i]
           seen == [s EXCEPT !.chat = chat.s, !.started = TRUE,
                             !.sent = [i \in 1..n |-> IF i <= Len(s.sent) THEN s.sent[i] ELSE 0]]
           b == Ok(seen, IF s.started THEN <<>> ELSE <<ChatToMessages!MessageStart>>)
           f == [fold |-> "show", seq |-> id]
           T(r, x) == Then(r, LAMBDA t : ChatToMessages!Show(t, x))
           F == ChatToMessages!FoldLeft(LAMBDA r, i : ChatToMessages!Then(r, LAMBDA t : ChatToMessages!Show(t, i)), b, id)
<1>1. ChatToMessages!Observe(s, c) = IF chat.err THEN Refuse(s) ELSE F
  BY DEF ChatToMessages!Observe, ChatToMessages!Ok, Ok, ChatToMessages!Refuse, Refuse
<1>2. PartsOK(chat.s)
  BY PartsKept DEF ShownOK
<1> HIDE DEF chat
<1>3. n \in Nat
  BY <1>2 DEF PartsOK
<1> HIDE DEF n
<1>4. ShownOK(seen)
  <2> DEFINE w1 == [i \in 1..n |-> IF i <= Len(s.sent) THEN s.sent[i] ELSE 0]
  <2> HIDE DEF w1
  <2>1. seen.chat = chat.s /\ "chat" \in DOMAIN seen
    BY DEF ShownOK, w1
  <2> HIDE DEF seen
  <2> QED
    BY <1>2, <2>1 DEF ShownOK
<1> HIDE DEF seen
<1>5. Tells("messages", b) /\ b.s = seen
  <2>1. Quiet("messages", ChatToMessages!MessageStart)
    BY DEF Quiet, ChatToMessages!MessageStart
  <2>2. b.s = seen
    BY DEF Ok
  <2> QED
    BY <2>1, <2>2, TellsBasics
<1> HIDE DEF b
<1>6. Kept(f, b)
  BY <1>4, <1>5 DEF Kept
<1>7. \A r, x : Turn(f, r, x) = T(r, x)
  BY SMTT(30) DEF Turn
<1> DEFINE FoldIs(g) == g = [u \in SUBSET (1..n) |-> IF u = {} THEN b ELSE T(g[u \ {Max(u)}], id[Max(u)])]
<1>8. F = (CHOOSE g : FoldIs(g))[1..n]
  BY DEF ChatToMessages!FoldLeft, ChatToMessages!MapThenFoldSet, ChatToMessages!Then, Then, ChatToMessages!Max, Max
<1>9. \A r, x : T(r, x) = Joined(r, ChatToMessages!Show(r.s, x))
  BY DEF Then, Joined
<1> HIDE DEF T, F, id
<1>10. \A g : TurnsSolve(f, b, n, g) <=> FoldIs(g)
  BY <1>7 DEF TurnsSolve
<1> HIDE DEF FoldIs
<1>11. F = (CHOOSE g : TurnsSolve(f, b, n, g))[1..n]
  BY <1>8, <1>10
<1>12. ASSUME NEW r, NEW i \in 1..n, Kept(f, r) PROVE Kept(f, Turn(f, r, f.seq[i]))
  <2> DEFINE q == ChatToMessages!Show(r.s, f.seq[i])
  <2>1. Tells("messages", r) /\ ShownOK(r.s)
    BY <1>12 DEF Kept
  <2>2. Tells("messages", q) /\ ShownOK(q.s)
    BY <2>1, ShowTells
  <2>3. Turn(f, r, f.seq[i]) = Joined(r, q)
    BY <1>7, <1>9
  <2> HIDE DEF q
  <2>4. Tells("messages", Joined(r, q)) /\ ShownOK(Joined(r, q).s)
    BY <2>1, <2>2, TellsJoined, JoinedState
  <2> QED
    BY <2>3, <2>4 DEF Kept
<1>13. Kept(f, F)
  <2> HIDE DEF f
  <2> QED
    BY <1>3, <1>6, <1>11, <1>12, FoldKeeps
<1>14. Tells("messages", F) /\ ShownOK(F.s)
  BY <1>13 DEF Kept
<1>15. Tells("messages", Refuse(s)) /\ Refuse(s).s = s
  BY TellsBasics DEF Refuse
<1> QED
  BY <1>1, <1>14, <1>15

\* geminiChatStream tells text and thoughts before it finishes.
LEMMA GeminiTells == ASSUME NEW s, NEW c PROVE Tells("chat", FromGemini!Observe(s, c))
<1> DEFINE p == "chat"
<1>1. Quiet(p, FromGemini!ChatRole) /\ \A kind \in {"text", "think"} : \A n : Quiet(p, FromGemini!ChatText(kind, n))
  BY DEF Quiet, FromGemini!ChatRole, FromGemini!ChatText
<1> HIDE DEF p
<1>2. /\ \A t, w : FromGemini!Ok(t, w) = Ok(t, w)
      /\ \A t : FromGemini!Refuse(t) = Refuse(t)
  BY DEF FromGemini!Ok, Ok, FromGemini!Refuse, Refuse
<1>3. ASSUME NEW t PROVE Tells(p, FromGemini!Role(t))
  <2>1. FromGemini!Role(t) = Ok([t EXCEPT !.role = ~t.told], IF t.role \/ t.told THEN <<>> ELSE <<FromGemini!ChatRole>>)
    BY <1>2 DEF FromGemini!Role
  <2> QED
    BY <1>1, <2>1, TellsBasics
<1>4. ASSUME NEW t PROVE Tells(p, FromGemini!Tool(t, c))
  <2>1. \E u : FromGemini!Tool(t, c) = Refuse(t) \/ FromGemini!Tool(t, c) = Ok(u, <<>>)
    BY <1>2 DEF FromGemini!Tool
  <2> QED
    BY <2>1, TellsBasics
<1>5. ASSUME NEW t PROVE Tells(p, FromGemini!ReadPart(t, c))
  <2>1. \/ FromGemini!ReadPart(t, c) = FromGemini!Tool(t, c)
        \/ FromGemini!ReadPart(t, c) = Refuse(t)
        \/ FromGemini!ReadPart(t, c) = Ok(t, <<>>)
        \/ \E kind \in {"text", "think"} : FromGemini!ReadPart(t, c) = Ok(t, <<FromGemini!ChatText(kind, c.n)>>)
    BY <1>2 DEF FromGemini!ReadPart
  <2> QED
    BY <1>1, <1>4, <2>1, TellsBasics
<1>6. ASSUME NEW t PROVE Tells(p, FromGemini!SetFinish(t, c.why))
  <2>1. \E u : FromGemini!SetFinish(t, c.why) = Refuse(t) \/ FromGemini!SetFinish(t, c.why) = Ok(u, <<>>)
    BY <1>2 DEF FromGemini!SetFinish
  <2> QED
    BY <2>1, TellsBasics
<1> DEFINE r == FromGemini!Role(s)
           q == FromGemini!ReadPart(r.s, c)
           u == Joined(r, q)
           v == FromGemini!SetFinish(u.s, c.why)
<1>7. FromGemini!Observe(s, c) = Refuse(s) \/ FromGemini!Observe(s, c) = Joined(u, v)
  BY <1>2 DEF FromGemini!Observe, FromGemini!Then, Joined
<1>8. Tells(p, r) /\ Tells(p, q)
  BY <1>3, <1>5
<1> HIDE DEF r, q
<1>9. Tells(p, u)
  BY <1>8, TellsJoined
<1> HIDE DEF u
<1>10. Tells(p, v)
  BY <1>6
<1> HIDE DEF v
<1>11. Tells(p, Refuse(s)) /\ Tells(p, Joined(u, v))
  BY <1>9, <1>10, TellsBasics, TellsJoined
<1> QED
  BY <1>7, <1>11 DEF p

\* geminiMessagesStream holds back the tools and what follows them.
LEMMA GeminiMessagesTells ==
  ASSUME NEW s, "held" \in DOMAIN s, NEW c
  PROVE  Tells("messages", FromGemini!ObserveMessages(s, c)) /\ "held" \in DOMAIN FromGemini!ObserveMessages(s, c).s
<1> DEFINE p == "messages"
<1>1. /\ Quiet(p, FromGemini!MessageStart)
      /\ \A at : Quiet(p, FromGemini!BlockStop(at))
      /\ \A kind \in {"text", "think"} : \A at, n : Quiet(p, FromGemini!BlockStart(at, kind, "", "", n))
      /\ \A kind \in {"text", "think"} : \A at, n : Quiet(p, FromGemini!BlockDelta(at, kind, n))
  BY DEF Quiet, FromGemini!MessageStart, FromGemini!BlockStop, FromGemini!BlockStart, FromGemini!BlockDelta
<1> HIDE DEF p
<1>2. /\ \A t, w : FromGemini!Ok(t, w) = Ok(t, w)
      /\ \A t : FromGemini!Refuse(t) = Refuse(t)
      /\ \A t, w : Ok(t, w).s = t /\ Refuse(t).s = t
  BY DEF FromGemini!Ok, Ok, FromGemini!Refuse, Refuse
<1>3. ASSUME NEW at, c.p # "tool" PROVE QuietWire(p, FromGemini!BlockOf(c, at))
  <2>1. \A e, f, g : Quiet(p, e) /\ Quiet(p, f) /\ Quiet(p, g) => QuietWire(p, <<e, f, g>>)
    <3>1. ASSUME NEW e, NEW f, NEW g, Quiet(p, e), Quiet(p, f), Quiet(p, g) PROVE QuietWire(p, <<e, f, g>>)
      <4> DEFINE w == <<e, f, g>>
                 S == {e, f, g}
      <4>1. w \in Seq(S) /\ \A x \in S : Quiet(p, x)
        BY <3>1
      <4> HIDE DEF w, S
      <4>2. QuietWire(p, w)
        BY <4>1, QuietOf
      <4> QED
        BY <4>2 DEF w
    <3> QED
      BY <3>1
  <2> DEFINE three(kind) == <<FromGemini!BlockStart(at, kind, "", "", 0), FromGemini!BlockDelta(at, kind, c.n),
                              FromGemini!BlockStop(at)>>
             two == <<FromGemini!BlockStart(at, "text", "", "", c.n), FromGemini!BlockStop(at)>>
             thinks == c.p \in {"think", "signature"}
  <2>2. FromGemini!BlockOf(c, at) =
          IF thinks THEN three("think") ELSE IF c.signed THEN two ELSE IF c.n = 0 THEN <<>> ELSE three("text")
    BY <1>3 DEF FromGemini!BlockOf
  <2>3. ASSUME NEW kind \in {"think", "text"} PROVE QuietWire(p, three(kind))
    <3> DEFINE e == FromGemini!BlockStart(at, kind, "", "", 0)
               f == FromGemini!BlockDelta(at, kind, c.n)
               g == FromGemini!BlockStop(at)
    <3>1. Quiet(p, e) /\ Quiet(p, f) /\ Quiet(p, g)
      <4>1. kind \in {"text", "think"}
        OBVIOUS
      <4>2. Quiet(p, e)
        BY <1>1, <4>1
      <4>3. Quiet(p, f)
        BY <1>1, <4>1
      <4>4. Quiet(p, g)
        BY <1>1
      <4> QED
        BY <4>2, <4>3, <4>4
    <3> HIDE DEF e, f, g
    <3>2. QuietWire(p, <<e, f, g>>)
      BY <2>1, <3>1
    <3> QED
      BY <3>2 DEF e, f, g
  <2>4. QuietWire(p, two) /\ QuietWire(p, <<>>)
    <3> DEFINE e == FromGemini!BlockStart(at, "text", "", "", c.n)
               f == FromGemini!BlockStop(at)
    <3>1. Quiet(p, e) /\ Quiet(p, f)
      BY <1>1
    <3> HIDE DEF e, f
    <3>2. QuietWire(p, <<e, f>>) /\ QuietWire(p, <<>>)
      BY <3>1, QuietFew
    <3> QED
      BY <3>2 DEF e, f
  <2> HIDE DEF three, two, thinks
  <2> QED
    BY <2>2, <2>3, <2>4
<1>4. ASSUME NEW t, "held" \in DOMAIN t
      PROVE  Tells(p, FromGemini!Tell(t, c)) /\ "held" \in DOMAIN FromGemini!Tell(t, c).s
  <2> DEFINE wire == FromGemini!BlockOf(c, t.blocks + 1)
             next == [t EXCEPT !.held = t.held \/ c.p = "tool", !.blocks = @ + (IF wire = <<>> THEN 0 ELSE 1)]
             late == [next EXCEPT !.pending = @ \o wire]
  <2>1. \/ FromGemini!Tell(t, c) = Ok(t, <<>>)
        \/ FromGemini!Tell(t, c) = Ok(late, <<>>)
        \/ ~next.held /\ FromGemini!Tell(t, c) = Ok(next, wire)
    BY <1>2 DEF FromGemini!Tell
  <2> HIDE DEF wire
  <2>2. c.p = "tool" => next.held
    BY <1>4
  <2>3. "held" \in DOMAIN next
    BY <1>4
  <2> HIDE DEF next
  <2>4. "held" \in DOMAIN late
    BY <2>3
  <2> HIDE DEF late
  <2>5. c.p # "tool" => QuietWire(p, wire)
    BY <1>3 DEF wire
  <2>6. Tells(p, Ok(t, <<>>)) /\ Tells(p, Ok(late, <<>>)) /\ (QuietWire(p, wire) => Tells(p, Ok(next, wire)))
    BY TellsBasics
  <2>7. CASE ~next.held /\ FromGemini!Tell(t, c) = Ok(next, wire)
    BY <1>2, <2>2, <2>3, <2>5, <2>6, <2>7
  <2> QED
    BY <1>2, <1>4, <2>1, <2>4, <2>6, <2>7
<1> DEFINE n == FromGemini!Observe(s.native, c)
           begun == [s EXCEPT !.started = TRUE, !.native = n.s]
           r == Ok(begun, IF s.started THEN <<>> ELSE <<FromGemini!MessageStart>>)
           q == FromGemini!Tell(r.s, c)
<1>5. FromGemini!ObserveMessages(s, c) = Refuse(s) \/ FromGemini!ObserveMessages(s, c) = Joined(r, q)
  BY <1>2 DEF FromGemini!ObserveMessages, FromGemini!Then, Joined
<1> HIDE DEF n
<1>6. "held" \in DOMAIN begun
  OBVIOUS
<1> HIDE DEF begun
<1>7. Tells(p, r) /\ r.s = begun
  BY <1>1, <1>2, TellsBasics
<1> HIDE DEF r
<1>8. Tells(p, q) /\ "held" \in DOMAIN q.s
  BY <1>4, <1>6, <1>7
<1> HIDE DEF q
<1>9. Tells(p, Joined(r, q)) /\ "held" \in DOMAIN Joined(r, q).s
  BY <1>6, <1>7, <1>8, TellsJoined, JoinedState
<1>10. Tells(p, Refuse(s)) /\ "held" \in DOMAIN Refuse(s).s
  BY <1>2, TellsBasics
<1> QED
  BY <1>5, <1>9, <1>10 DEF p

\* What FeedChat tells of chunks ends no response.
LEMMA FeedTells ==
  ASSUME NEW out, NEW wire, NEW n \in Nat, DOMAIN wire = 1..n
  PROVE  Tells("responses", FeedChat(out, wire))
<1> DEFINE f == [fold |-> "feed", seq |-> wire]
           b == Ok(out, <<>>)
           T(r, x) == IF x = ChatDone THEN r ELSE Then(r, LAMBDA t : ChatToResponses!Observe(t, x))
           FoldIs(g) == g = [s \in SUBSET (1..n) |-> IF s = {} THEN b ELSE T(g[s \ {Max(s)}], wire[Max(s)])]
<1>1. \A r, x : Turn(f, r, x) = T(r, x)
  BY DEF Turn
<1>2. FeedChat(out, wire) = (CHOOSE g : FoldIs(g))[1..n]
  BY DEF FeedChat, FoldLeft, MapThenFoldSet
<1>3. \A r, x : T(r, x) = IF x = ChatDone THEN r ELSE Joined(r, ChatToResponses!Observe(r.s, x))
  BY DEF Then, Joined
<1>4. Tells("responses", b)
  BY TellsBasics
<1> HIDE DEF T, b
<1>5. \A g : TurnsSolve(f, b, n, g) <=> FoldIs(g)
  BY <1>1 DEF TurnsSolve
<1> HIDE DEF f, FoldIs
<1>6. FeedChat(out, wire) = (CHOOSE g : TurnsSolve(f, b, n, g))[1..n]
  BY <1>2, <1>5
<1> USE DEF f
<1>7. ASSUME NEW r, NEW i \in 1..n, Kept(f, r) PROVE Kept(f, Turn(f, r, f.seq[i]))
  <2> DEFINE x == f.seq[i]
             q == ChatToResponses!Observe(r.s, x)
  <2>1. Tells("responses", r)
    BY <1>7 DEF Kept
  <2>2. Tells("responses", q)
    BY ChatResponsesTells
  <2>3. Turn(f, r, x) = IF x = ChatDone THEN r ELSE Joined(r, q)
    BY <1>1, <1>3
  <2> HIDE DEF q, x
  <2>4. Tells("responses", Joined(r, q))
    BY <2>1, <2>2, TellsJoined
  <2>5. Tells("responses", Turn(f, r, x))
    BY <2>1, <2>3, <2>4
  <2> QED
    BY <2>5 DEF Kept, x
<1>8. Kept(f, b)
  BY <1>4 DEF Kept
<1>9. Kept(f, FeedChat(out, wire))
  <2> HIDE DEF f
  <2> QED
    BY <1>6, <1>7, <1>8, FoldKeeps
<1> QED
  BY <1>9 DEF Kept

\* Nor does a Gemini stream before it finishes.
LEMMA GeminiToResponsesTells == ASSUME NEW s, NEW c PROVE Tells("responses", GeminiToResponsesObserve(s, c))
<1> DEFINE native == FromGemini!Observe(s.native, c)
           fed == FeedChat(s.out, native.wire)
<1>1. Tells("chat", native)
  BY GeminiTells
<1>2. PICK S : native.wire \in Seq(S)
  BY <1>1 DEF Tells, QuietWire
<1>3. Len(native.wire) \in Nat /\ DOMAIN native.wire = 1..Len(native.wire)
  BY <1>2
<1> HIDE DEF native
<1>4. Tells("responses", fed)
  BY <1>3, FeedTells
<1>5. GeminiToResponsesObserve(s, c) = IF native.err \/ fed.err THEN Refuse(s) ELSE Ok([native |-> native.s, out |-> fed.s], fed.wire)
  BY DEF GeminiToResponsesObserve, native
<1> HIDE DEF fed
<1>6. QuietWire("responses", fed.wire)
  BY <1>4 DEF Tells
<1> QED
  BY <1>5, <1>6, TellsBasics

\* Before the end of a Messages stream, anthropicChatStream tells of content.
LEMMA MessagesChatTells ==
  ASSUME NEW s, NEW e, e.e # "mstop"
  PROVE  Tells("chat", MessagesToChat!Event(s, e))
<1> DEFINE p == "chat"
<1>1. /\ Quiet(p, MessagesToChat!ChatRole)
      /\ \A ix, id, name, n : Quiet(p, MessagesToChat!ChatCall(ix, id, name, n))
      /\ \A kind \in {"text", "think"} : \A n : Quiet(p, MessagesToChat!ChatText(kind, n))
  BY DEF Quiet, MessagesToChat!ChatRole, MessagesToChat!ChatCall, MessagesToChat!ChatText
<1> HIDE DEF p
<1>2. /\ \A t, w : MessagesToChat!Ok(t, w) = Ok(t, w)
      /\ \A t : MessagesToChat!Refuse(t) = Refuse(t)
  BY DEF MessagesToChat!Ok, Ok, MessagesToChat!Refuse, Refuse
<1>3. Tells(p, MessagesToChat!StartBlock(s, e))
  <2>1. \E u : \/ MessagesToChat!StartBlock(s, e) = Refuse(s)
               \/ \E kind \in {"text", "think"} : MessagesToChat!StartBlock(s, e) = Ok(u, <<MessagesToChat!ChatText(kind, e.n)>>)
               \/ MessagesToChat!StartBlock(s, e) = Ok(u, <<>>)
               \/ \E ix : MessagesToChat!StartBlock(s, e) = Ok(u, <<MessagesToChat!ChatCall(ix, e.id, e.name, 0)>>)
    BY <1>2 DEF MessagesToChat!StartBlock
  <2> QED
    BY <1>1, <2>1, TellsBasics
<1>4. Tells(p, MessagesToChat!StopBlock(s, e.at))
  <2>1. \E u : \/ MessagesToChat!StopBlock(s, e.at) = Refuse(s)
               \/ MessagesToChat!StopBlock(s, e.at) = Ok(u, <<>>)
               \/ \E ix, n : MessagesToChat!StopBlock(s, e.at) = Ok(u, <<MessagesToChat!ChatCall(ix, "", "", n)>>)
    BY <1>2 DEF MessagesToChat!StopBlock
  <2> QED
    BY <1>1, <2>1, TellsBasics, ZenonT(40)
<1>5. Tells(p, MessagesToChat!BlockDeltas(s, e))
  <2>1. \E u : \/ MessagesToChat!BlockDeltas(s, e) = Refuse(s)
               \/ MessagesToChat!BlockDeltas(s, e) = Ok(u, <<>>)
               \/ \E kind \in {"text", "think"} : MessagesToChat!BlockDeltas(s, e) = Ok(u, <<MessagesToChat!ChatText(kind, e.n)>>)
               \/ \E ix, n : MessagesToChat!BlockDeltas(s, e) = Ok(u, <<MessagesToChat!ChatCall(ix, "", "", n)>>)
    BY <1>2 DEF MessagesToChat!BlockDeltas
  <2> QED
    BY <1>1, <2>1, TellsBasics
<1>6. Tells(p, MessagesToChat!SetFinish(s, e.why))
  <2>1. \E u : MessagesToChat!SetFinish(s, e.why) = Refuse(s) \/ MessagesToChat!SetFinish(s, e.why) = Ok(u, <<>>)
    BY <1>2 DEF MessagesToChat!SetFinish
  <2> QED
    BY <2>1, TellsBasics
<1>7. \E u : \/ MessagesToChat!Event(s, e) = Refuse(s)
             \/ MessagesToChat!Event(s, e) = Ok(s, <<>>)
             \/ MessagesToChat!Event(s, e) = Ok(u, <<MessagesToChat!ChatRole>>)
             \/ MessagesToChat!Event(s, e) = MessagesToChat!StartBlock(s, e)
             \/ MessagesToChat!Event(s, e) = MessagesToChat!StopBlock(s, e.at)
             \/ MessagesToChat!Event(s, e) = MessagesToChat!BlockDeltas(s, e)
             \/ MessagesToChat!Event(s, e) = MessagesToChat!SetFinish(s, e.why)
  BY <1>2 DEF MessagesToChat!Event
<1>8. /\ Tells(p, Refuse(s)) /\ Tells(p, Ok(s, <<>>))
      /\ \A u : Tells(p, Ok(u, <<MessagesToChat!ChatRole>>))
  BY <1>1, TellsBasics
<1> QED
  BY <1>3, <1>4, <1>5, <1>6, <1>7, <1>8 DEF p

\* Nor does anthropicResponsesStream before the end of a Messages stream.
LEMMA MessagesResponsesTells ==
  ASSUME NEW s, NEW e, e.e # "mstop"
  PROVE  Tells("responses", MessagesToResponses!Event(s, e))
<1> DEFINE p == "responses"
<1>1. /\ Quiet(p, MessagesToResponses!Out!Created)
      /\ \A at, kind, id : Quiet(p, MessagesToResponses!Out!ItemAdded(at, kind, id))
      /\ \A at : Quiet(p, MessagesToResponses!Out!PartAdded(at))
      /\ \A at, kind, n : Quiet(p, MessagesToResponses!Out!Delta(at, kind, n))
      /\ \A at, kind, id : Quiet(p, MessagesToResponses!ItemAdded(at, kind, id))
      /\ \A at, kind, n : Quiet(p, MessagesToResponses!Delta(at, kind, n))
  BY DEF Quiet, MessagesToResponses!Out!Created, MessagesToResponses!Out!ItemAdded, MessagesToResponses!Out!PartAdded,
         MessagesToResponses!Out!Delta, MessagesToResponses!ItemAdded, MessagesToResponses!Delta
<1> HIDE DEF p
<1>2. /\ \A t, w : MessagesToResponses!Out!Ok(t, w) = Ok(t, w)
      /\ \A t : MessagesToResponses!Out!Refuse(t) = Refuse(t)
      /\ \A t, w : MessagesToResponses!Ok(t, w) = Ok(t, w)
      /\ \A t : MessagesToResponses!Refuse(t) = Refuse(t)
  BY DEF MessagesToResponses!Ok, MessagesToResponses!Out!Ok, Ok, MessagesToResponses!Refuse, MessagesToResponses!Out!Refuse, Refuse
<1>3. ASSUME NEW t PROVE Tells(p, MessagesToResponses!Out!Start(t))
  <2>1. MessagesToResponses!Out!Start(t) =
          Ok([t EXCEPT !.started = TRUE], IF t.started THEN <<>> ELSE <<MessagesToResponses!Out!Created>>)
    BY <1>2 DEF MessagesToResponses!Out!Start
  <2> QED
    BY <1>1, <2>1, TellsBasics
<1>4. ASSUME NEW t, NEW kind PROVE Tells(p, MessagesToResponses!Out!OpenPart(t, kind))
  <2>1. PICK u, at : MessagesToResponses!Out!OpenPart(t, kind) =
                       Ok(u, <<MessagesToResponses!Out!ItemAdded(at, kind, ""), MessagesToResponses!Out!PartAdded(at)>>)
    BY <1>2 DEF MessagesToResponses!Out!OpenPart
  <2> QED
    BY <1>1, <2>1, TellsBasics
<1>5. ASSUME NEW t, NEW kind, NEW n PROVE Tells(p, MessagesToResponses!Out!AppendText(t, kind, n))
  <2> DEFINE r == IF t.at[kind] = 0 THEN MessagesToResponses!Out!OpenPart(t, kind) ELSE Ok(t, <<>>)
             q == Ok([r.s EXCEPT !.parts[r.s.at[kind]].n = @ + n], <<MessagesToResponses!Out!Delta(r.s.at[kind], kind, n)>>)
  <2>1. Tells(p, r)
    BY <1>4, TellsBasics
  <2>2. Tells(p, q)
    <3> HIDE DEF r
    <3> QED
      BY <1>1, TellsBasics
  <2>3. Tells(p, Ok(t, <<>>))
    BY TellsBasics
  <2>4. MessagesToResponses!Out!AppendText(t, kind, n) = IF n = 0 THEN Ok(t, <<>>) ELSE Joined(r, q)
    BY DEF MessagesToResponses!Out!AppendText, MessagesToResponses!Out!Then, Joined, MessagesToResponses!Out!Ok, Ok
  <2> HIDE DEF r, q
  <2> QED
    BY <2>1, <2>2, <2>3, <2>4, TellsJoined
<1>6. ASSUME NEW out, NEW at, NEW n PROVE Tells(p, MessagesToResponses!ToolInput(out, at, n))
  <2>1. \E u : \/ MessagesToResponses!ToolInput(out, at, n) = Ok(u, <<>>)
               \/ MessagesToResponses!ToolInput(out, at, n) = Ok(u, <<MessagesToResponses!Delta(at, "tool", n)>>)
    BY <1>2 DEF MessagesToResponses!ToolInput
  <2> QED
    BY <1>1, <2>1, TellsBasics
<1>7. ASSUME NEW out PROVE Tells(p, MessagesToResponses!BeginBlock(out, e))
  <2> DEFINE r == MessagesToResponses!Out!AppendText([out EXCEPT !.at[e.kind] = 0], e.kind, e.n)
             q == IF r.s.at[e.kind] = 0 THEN MessagesToResponses!Out!OpenPart(r.s, e.kind) ELSE Ok(r.s, <<>>)
  <2>1. Tells(p, r)
    BY <1>5
  <2>2. \E u, at : \/ MessagesToResponses!BeginBlock(out, e) = Joined(r, q)
                   \/ MessagesToResponses!BeginBlock(out, e) = Ok(u, <<MessagesToResponses!ItemAdded(at, "tool", e.id)>>)
                   \/ MessagesToResponses!BeginBlock(out, e) = Ok(u, <<>>)
    <3>1. MessagesToResponses!Then(r, LAMBDA t :
             IF t.at[e.kind] = 0 THEN MessagesToResponses!Out!OpenPart(t, e.kind) ELSE MessagesToResponses!Ok(t, <<>>))
            = Joined(r, q)
      BY <1>2 DEF MessagesToResponses!Then, Joined
    <3> HIDE DEF r, q
    <3> QED
      BY <1>2, <3>1 DEF MessagesToResponses!BeginBlock, r
  <2> HIDE DEF r
  <2>3. Tells(p, q)
    BY <1>4, TellsBasics
  <2> HIDE DEF q
  <2>4. Tells(p, Joined(r, q))
    BY <2>1, <2>3, TellsJoined
  <2> QED
    BY <1>1, <2>2, <2>4, TellsBasics
<1>8. ASSUME NEW out, NEW at PROVE Tells(p, MessagesToResponses!BlockDeltas(out, at, e))
  <2>1. \E u : \/ MessagesToResponses!BlockDeltas(out, at, e) = MessagesToResponses!Out!AppendText(u, e.kind, e.n)
               \/ MessagesToResponses!BlockDeltas(out, at, e) = MessagesToResponses!ToolInput(out, at, e.n)
               \/ MessagesToResponses!BlockDeltas(out, at, e) = Ok(out, <<>>)
    BY <1>2 DEF MessagesToResponses!BlockDeltas
  <2> QED
    BY <1>5, <1>6, <2>1, TellsBasics
<1>9. ASSUME NEW native PROVE Tells(p, MessagesToResponses!Tell(s, native, e))
  <2>1. \E at, n : \/ MessagesToResponses!Tell(s, native, e) = MessagesToResponses!Out!Start(s.out)
                   \/ MessagesToResponses!Tell(s, native, e) = MessagesToResponses!BeginBlock(s.out, e)
                   \/ MessagesToResponses!Tell(s, native, e) = MessagesToResponses!BlockDeltas(s.out, at, e)
                   \/ MessagesToResponses!Tell(s, native, e) = MessagesToResponses!ToolInput(s.out, at, n)
                   \/ MessagesToResponses!Tell(s, native, e) = Ok(s.out, <<>>)
    BY <1>2 DEF MessagesToResponses!Tell
  <2> QED
    BY <1>3, <1>6, <1>7, <1>8, <2>1, TellsBasics
<1> DEFINE native == MessagesToResponses!Native!Event(s.native, e)
           told == MessagesToResponses!Tell(s, native.s, e)
<1>10. \E u : MessagesToResponses!Event(s, e) = Refuse(s) \/ MessagesToResponses!Event(s, e) = Ok(u, told.wire)
  BY <1>2 DEF MessagesToResponses!Event
<1>11. Tells(p, told)
  BY <1>9
<1> HIDE DEF told
<1>12. QuietWire(p, told.wire)
  BY <1>11 DEF Tells
<1> QED
  BY <1>10, <1>12, TellsBasics DEF p

\* Before the end of a Responses stream, responseChatStream tells of content.
LEMMA ResponsesChatTells ==
  ASSUME NEW s, NEW e, e.e # "end",
         e.e \in {"item", "itemdone", "delta", "text"} => e.kind \in {"text", "think", "tool"}
  PROVE  Tells("chat", ResponsesToChat!Event(s, e))
<1> DEFINE p == "chat"
<1>1. /\ Quiet(p, ResponsesToChat!ChatRole)
      /\ \A ix, id, name, n : Quiet(p, ResponsesToChat!ChatCall(ix, id, name, n))
      /\ \A kind \in {"text", "think"} : \A n : Quiet(p, ResponsesToChat!ChatText(kind, n))
  BY DEF Quiet, ResponsesToChat!ChatRole, ResponsesToChat!ChatCall, ResponsesToChat!ChatText
<1> HIDE DEF p
<1>2. /\ \A t, w : ResponsesToChat!Ok(t, w) = Ok(t, w)
      /\ \A t : ResponsesToChat!Refuse(t) = Refuse(t)
  BY DEF ResponsesToChat!Ok, Ok, ResponsesToChat!Refuse, Refuse
<1>3. ASSUME NEW t, NEW kind \in {"text", "think"}, NEW at, NEW n, NEW full
      PROVE  Tells(p, ResponsesToChat!Text(t, kind, at, n, full))
  <2>1. \E u, m : \/ ResponsesToChat!Text(t, kind, at, n, full) = Refuse(t)
                  \/ ResponsesToChat!Text(t, kind, at, n, full) = Ok(u, <<>>)
                  \/ ResponsesToChat!Text(t, kind, at, n, full) = Ok(u, <<ResponsesToChat!ChatText(kind, m)>>)
    BY <1>2 DEF ResponsesToChat!Text
  <2> QED
    BY <1>1, <2>1, TellsBasics
<1>4. ASSUME NEW t, NEW at, NEW id, NEW n PROVE Tells(p, ResponsesToChat!Tool(t, at, id, n))
  <2> DEFINE key == <<"tool", at>>
             old == ResponsesToChat!Sent(t, key)
             known == at \in DOMAIN t.tools
             ix == IF known THEN t.tools[at].ix ELSE Cardinality(DOMAIN t.tools)
             a == IF known THEN <<>> ELSE <<ResponsesToChat!ChatCall(ix, id, "f", 0)>>
             b == IF n = old THEN <<>> ELSE <<ResponsesToChat!ChatCall(ix, "", "", n - old)>>
  <2>1. \E u : ResponsesToChat!Tool(t, at, id, n) = Refuse(t) \/ ResponsesToChat!Tool(t, at, id, n) = Ok(u, a \o b)
    BY <1>2 DEF ResponsesToChat!Tool, ResponsesToChat!Cardinality, Cardinality
  <2> HIDE DEF key, old, known, ix
  <2>2. QuietWire(p, a) /\ QuietWire(p, b)
    BY <1>1, QuietFew
  <2> HIDE DEF a, b
  <2>3. QuietWire(p, a \o b)
    BY <2>2, QuietJoined
  <2> DEFINE w == a \o b
  <2> HIDE DEF w
  <2>4. QuietWire(p, w) /\ \E u : ResponsesToChat!Tool(t, at, id, n) = Refuse(t) \/ ResponsesToChat!Tool(t, at, id, n) = Ok(u, w)
    BY <2>1, <2>3 DEF w
  <2> QED
    BY <2>4, TellsBasics
<1>5. ASSUME NEW t, NEW at, NEW item, item.kind \in {"text", "think", "tool"} PROVE Tells(p, ResponsesToChat!Item(t, at, item))
  <2>1. \/ ResponsesToChat!Item(t, at, item) = ResponsesToChat!Tool(t, at, item.id, item.n)
        \/ ResponsesToChat!Item(t, at, item) = Ok(t, <<>>)
        \/ item.kind # "tool" /\ ResponsesToChat!Item(t, at, item) = ResponsesToChat!Text(t, item.kind, at, item.n, TRUE)
    <3>1. CASE item.kind = "tool"
      BY <1>2, <3>1 DEF ResponsesToChat!Item
    <3>2. CASE item.kind # "tool"
      BY <1>2, <1>5, <3>2 DEF ResponsesToChat!Item
    <3> QED
      BY <3>1, <3>2
  <2>2. item.kind # "tool" => item.kind \in {"text", "think"}
    BY <1>5
  <2> DEFINE kind == item.kind
  <2>3. kind \in {"text", "think"} => Tells(p, ResponsesToChat!Text(t, kind, at, item.n, TRUE))
    BY <1>3
  <2> QED
    BY <1>4, <2>1, <2>2, <2>3, TellsBasics
<1>6. ASSUME NEW t PROVE Tells(p, ResponsesToChat!ToolText(t, e))
  <2> DEFINE id == t.tools[e.at].id
             n == IF e.e = "delta" THEN ResponsesToChat!Sent(t, <<"tool", e.at>>) + e.n ELSE e.n
  <2>1. ResponsesToChat!ToolText(t, e) = IF e.at \notin DOMAIN t.tools THEN Refuse(t) ELSE ResponsesToChat!Tool(t, e.at, id, n)
    BY <1>2, Zenon DEF ResponsesToChat!ToolText
  <2> HIDE DEF id, n
  <2> QED
    BY <1>4, <2>1, TellsBasics
<1> DEFINE begun == [s EXCEPT !.known = TRUE, !.role = TRUE]
           r == Ok(begun, IF s.role THEN <<>> ELSE <<ResponsesToChat!ChatRole>>)
           announced == [kind |-> e.kind, id |-> e.id, n |-> 0]
           q == CASE e.e = "item" -> ResponsesToChat!Item(r.s, e.at, announced)
                  [] e.e = "itemdone" -> ResponsesToChat!Item(r.s, e.at, e)
                  [] e.e \in {"delta", "text"} /\ e.kind = "tool" -> ResponsesToChat!ToolText(r.s, e)
                  [] e.e \in {"delta", "text"} /\ e.kind # "tool" -> ResponsesToChat!Text(r.s, e.kind, e.at, e.n, e.e = "text")
                  [] OTHER -> Ok(r.s, <<>>)
<1>7. \/ ResponsesToChat!Event(s, e) = Refuse(s)
      \/ ResponsesToChat!Event(s, e) = Joined(r, q)
  BY <1>2 DEF ResponsesToChat!Event, ResponsesToChat!Then, Joined
<1> HIDE DEF begun
<1>8. Tells(p, r)
  BY <1>1, TellsBasics
<1> HIDE DEF r
<1>9. Tells(p, q)
  <2>1. CASE e.e = "item"
    <3>1. announced.kind \in {"text", "think", "tool"}
      BY <2>1
    <3> HIDE DEF announced
    <3>2. Tells(p, ResponsesToChat!Item(r.s, e.at, announced))
      BY <1>5, <3>1
    <3> QED
      BY <2>1, <3>2
  <2>2. CASE e.e = "itemdone"
    <3>1. Tells(p, ResponsesToChat!Item(r.s, e.at, e))
      BY <1>5, <2>2
    <3> QED
      BY <2>2, <3>1
  <2>3. CASE e.e \in {"delta", "text"} /\ e.kind = "tool"
    BY <1>6, <2>3
  <2>4. CASE e.e \in {"delta", "text"} /\ e.kind # "tool"
    <3> DEFINE kind == e.kind
               full == e.e = "text"
    <3>1. kind \in {"text", "think"}
      BY <2>4
    <3>2. q = ResponsesToChat!Text(r.s, kind, e.at, e.n, full)
      BY <2>4
    <3> HIDE DEF kind, full
    <3>3. Tells(p, ResponsesToChat!Text(r.s, kind, e.at, e.n, full))
      BY <1>3, <3>1
    <3> QED
      BY <3>2, <3>3
  <2>5. CASE e.e \notin {"item", "itemdone", "delta", "text"}
    <3>1. q = Ok(r.s, <<>>)
      BY <2>5
    <3> QED
      BY <3>1, TellsBasics
  <2> QED
    BY <2>1, <2>2, <2>3, <2>4, <2>5
<1> HIDE DEF q
<1>10. Tells(p, Joined(r, q)) /\ Tells(p, Refuse(s))
  BY <1>8, <1>9, TellsJoined, TellsBasics
<1> QED
  BY <1>7, <1>10 DEF p

\* A snapshot of an item or a change of its text keeps the items finitely many
\* and of the kinds there are, and tells nothing.
LEMMA PutKeeps ==
  ASSUME NEW s, SlotsOK(s), NEW at, NEW item, NEW done
  PROVE  /\ SlotsOK(ResponsesToMessages!Put(s, at, item, done).s)
         /\ Tells("messages", ResponsesToMessages!Put(s, at, item, done))
<1> DEFINE known == at \in DOMAIN s.slots
           old == IF known THEN s.slots[at] ELSE [kind |-> item.kind, id |-> item.id, n |-> 0, done |-> FALSE]
           new == [old EXCEPT !.n = IF item.n > @ THEN item.n ELSE @, !.done = @ \/ done]
           slots == ResponsesToMessages!Assign(s.slots, at, new)
           t == [s EXCEPT !.slots = slots]
<1>1. /\ \A u, w : ResponsesToMessages!Ok(u, w) = Ok(u, w) /\ Ok(u, w).s = u
      /\ \A u : ResponsesToMessages!Refuse(u) = Refuse(u) /\ Refuse(u).s = u
  BY DEF ResponsesToMessages!Ok, Ok, ResponsesToMessages!Refuse, Refuse
<1>2. \/ ResponsesToMessages!Put(s, at, item, done) = Refuse(s)
      \/ item.kind \in {"text", "think", "tool"} /\ old.kind = item.kind /\ ResponsesToMessages!Put(s, at, item, done) = Ok(t, <<>>)
  BY <1>1 DEF ResponsesToMessages!Put, ResponsesToMessages!Kinds
<1>3. slots = [x \in DOMAIN s.slots \cup {at} |-> IF x = at THEN new ELSE s.slots[x]]
  BY DEF ResponsesToMessages!Assign
<1>4. "kind" \in DOMAIN old
  BY DEF SlotsOK
<1> HIDE DEF old
<1>5. "kind" \in DOMAIN new /\ new.kind = old.kind
  BY <1>4
<1> HIDE DEF new, slots
<1>6. t.slots = slots /\ "slots" \in DOMAIN t
  BY DEF SlotsOK
<1> HIDE DEF t
<1>7. IsFiniteSet(DOMAIN s.slots \cup {at})
  BY FS_AddElement DEF SlotsOK
<1>8. CASE item.kind \in {"text", "think", "tool"} /\ old.kind = item.kind
  <2>1. new.kind \in {"text", "think", "tool"}
    BY <1>5, <1>8
  <2>2. \A k \in DOMAIN slots : "kind" \in DOMAIN slots[k] /\ slots[k].kind \in {"text", "think", "tool"}
    BY <1>3, <1>5, <2>1 DEF SlotsOK
  <2>3. IsFiniteSet(DOMAIN slots)
    BY <1>3, <1>7
  <2> QED
    BY <1>1, <1>2, <1>6, <2>2, <2>3, TellsBasics DEF SlotsOK
<1> QED
  BY <1>1, <1>2, <1>8, TellsBasics

\* So does a text that is repeated in full.
LEMMA SetTextKeeps ==
  ASSUME NEW s, SlotsOK(s), NEW e
  PROVE  /\ SlotsOK(ResponsesToMessages!SetText(s, e).s)
         /\ Tells("messages", ResponsesToMessages!SetText(s, e))
<1>1. /\ \A u, w : ResponsesToMessages!Ok(u, w) = Ok(u, w) /\ Ok(u, w).s = u
      /\ \A u : ResponsesToMessages!Refuse(u) = Refuse(u) /\ Refuse(u).s = u
  BY DEF ResponsesToMessages!Ok, Ok, ResponsesToMessages!Refuse, Refuse
<1>2. \/ ResponsesToMessages!SetText(s, e) = Refuse(s)
      \/ \E n : e.at \in DOMAIN s.slots /\ ResponsesToMessages!SetText(s, e) = Ok([s EXCEPT !.slots[e.at].n = n], <<>>)
  BY <1>1 DEF ResponsesToMessages!SetText
<1>3. ASSUME NEW n, e.at \in DOMAIN s.slots PROVE SlotsOK([s EXCEPT !.slots[e.at].n = n])
  <2> DEFINE t == [s EXCEPT !.slots[e.at].n = n]
             slots == [s.slots EXCEPT ![e.at].n = n]
             new == [s.slots[e.at] EXCEPT !.n = n]
  <2>1. t.slots = slots /\ "slots" \in DOMAIN t
    BY DEF SlotsOK
  <2>2. DOMAIN slots = DOMAIN s.slots /\ \A k \in DOMAIN s.slots : slots[k] = IF k = e.at THEN new ELSE s.slots[k]
    BY <1>3
  <2>3. "kind" \in DOMAIN new /\ new.kind = s.slots[e.at].kind
    BY <1>3 DEF SlotsOK
  <2> HIDE DEF t, slots, new
  <2>4. SlotsOK(t)
    BY <1>3, <2>1, <2>2, <2>3 DEF SlotsOK
  <2> QED
    BY <2>4 DEF t
<1> DEFINE X(n) == [s EXCEPT !.slots[e.at].n = n]
<1>4. \/ ResponsesToMessages!SetText(s, e) = Refuse(s)
      \/ \E n : SlotsOK(X(n)) /\ ResponsesToMessages!SetText(s, e) = Ok(X(n), <<>>)
  BY <1>2, <1>3
<1> HIDE DEF X
<1> QED
  BY <1>1, <1>4, TellsBasics

\* The current item is told a Messages client, a tool only in the end.
LEMMA RenderItemKeeps ==
  ASSUME NEW s, SlotsOK(s), NEW final
  PROVE  LET r == ResponsesToMessages!RenderItem(s, final) IN
         /\ SlotsOK(r.s)
         /\ Shaped(r)
         /\ final \/ Tells("messages", r)
<1> DEFINE p == "messages"
           item == s.slots[s.current]
<1>1. /\ \A at : Quiet(p, ResponsesToMessages!BlockStop(at))
      /\ \A kind \in {"text", "think"} : \A at, n : Quiet(p, ResponsesToMessages!BlockStart(at, kind, "", "", n))
      /\ \A kind \in {"text", "think"} : \A at, n : Quiet(p, ResponsesToMessages!BlockDelta(at, kind, n))
  BY DEF Quiet, ResponsesToMessages!BlockStop, ResponsesToMessages!BlockStart, ResponsesToMessages!BlockDelta
<1> HIDE DEF p
<1>2. /\ \A u, w : ResponsesToMessages!Ok(u, w) = Ok(u, w)
      /\ \A u, w : Ok(u, w).s = u /\ Shaped(Ok(u, w))
  BY DEF ResponsesToMessages!Ok, Ok, Shaped
<1>3. ASSUME NEW t, SlotsOK(t) PROVE Tells(p, ResponsesToMessages!CloseBlock(t)) /\ SlotsOK(ResponsesToMessages!CloseBlock(t).s)
  <2> DEFINE u == [t EXCEPT !.open = FALSE, !.blocks = @ + 1]
  <2>1. \/ ResponsesToMessages!CloseBlock(t) = Ok(u, <<ResponsesToMessages!BlockStop(t.blocks + 1)>>)
        \/ ResponsesToMessages!CloseBlock(t) = Ok(t, <<>>)
    BY <1>2 DEF ResponsesToMessages!CloseBlock
  <2>2. u.slots = t.slots /\ "slots" \in DOMAIN u
    BY <1>3 DEF SlotsOK
  <2> HIDE DEF u
  <2>3. SlotsOK(u)
    BY <1>3, <2>2 DEF SlotsOK
  <2> DEFINE e == ResponsesToMessages!BlockStop(t.blocks + 1)
  <2>4. Quiet(p, e)
    BY <1>1
  <2> HIDE DEF e
  <2>5. Tells(p, Ok(u, <<e>>)) /\ Tells(p, Ok(t, <<>>))
    BY <2>4, TellsBasics
  <2>6. ResponsesToMessages!CloseBlock(t) = Ok(u, <<e>>) \/ ResponsesToMessages!CloseBlock(t) = Ok(t, <<>>)
    BY <2>1 DEF e
  <2> QED
    BY <1>2, <1>3, <2>3, <2>5, <2>6
<1>4. ASSUME NEW t, SlotsOK(t), item.kind \in {"text", "think", "tool"}
      PROVE  Tells(p, ResponsesToMessages!SendText(t, item)) /\ SlotsOK(ResponsesToMessages!SendText(t, item).s)
  <2> DEFINE u == [t EXCEPT !.sent = item.n, !.open = TRUE]
             at == t.blocks + 1
             kind == item.kind
             a == IF t.open THEN <<>> ELSE <<ResponsesToMessages!BlockStart(at, kind, "", "", 0)>>
             b == <<ResponsesToMessages!BlockDelta(at, kind, item.n - t.sent)>>
             w == a \o b
  <2>1. \/ ResponsesToMessages!SendText(t, item) = Ok(t, <<>>)
        \/ kind # "tool" /\ ResponsesToMessages!SendText(t, item) = Ok(u, w)
    BY <1>2 DEF ResponsesToMessages!SendText
  <2>2. u.slots = t.slots /\ "slots" \in DOMAIN u
    BY <1>4 DEF SlotsOK
  <2> HIDE DEF u
  <2>3. SlotsOK(u)
    BY <1>4, <2>2 DEF SlotsOK
  <2>4. kind # "tool" => kind \in {"text", "think"}
    BY <1>4
  <2> HIDE DEF kind, at, item
  <2>5. kind # "tool" => QuietWire(p, a) /\ QuietWire(p, b)
    BY <1>1, <2>4, QuietFew
  <2> HIDE DEF a, b
  <2>6. kind # "tool" => QuietWire(p, w)
    BY <2>5, QuietJoined
  <2> HIDE DEF w
  <2>7. CASE kind # "tool" /\ ResponsesToMessages!SendText(t, item) = Ok(u, w)
    BY <1>2, <2>3, <2>6, <2>7, TellsBasics
  <2>8. CASE ResponsesToMessages!SendText(t, item) = Ok(t, <<>>)
    BY <1>2, <1>4, <2>8, TellsBasics
  <2> QED
    BY <2>1, <2>7, <2>8
<1>5. ASSUME NEW t, SlotsOK(t)
      PROVE  LET r == ResponsesToMessages!ToolBlock(t, item) IN
             SlotsOK(r.s) /\ Shaped(r)
  <2> DEFINE u == [t EXCEPT !.blocks = t.blocks + 1]
  <2>1. \E w : ResponsesToMessages!ToolBlock(t, item) = Ok(u, w)
    BY <1>2 DEF ResponsesToMessages!ToolBlock
  <2>2. u.slots = t.slots /\ "slots" \in DOMAIN u
    BY <1>5 DEF SlotsOK
  <2> HIDE DEF u, item
  <2>3. SlotsOK(u)
    BY <1>5, <2>2 DEF SlotsOK
  <2> QED
    BY <1>2, <2>1, <2>3
<1>6. ASSUME NEW t, SlotsOK(t) PROVE Tells(p, ResponsesToMessages!Advance(t)) /\ SlotsOK(ResponsesToMessages!Advance(t).s)
  <2> DEFINE u == [t EXCEPT !.current = @ + 1, !.sent = 0]
  <2>1. ResponsesToMessages!Advance(t) = Ok(u, <<>>)
    BY <1>2 DEF ResponsesToMessages!Advance
  <2>2. u.slots = t.slots /\ "slots" \in DOMAIN u
    BY <1>6 DEF SlotsOK
  <2> HIDE DEF u
  <2>3. SlotsOK(u)
    BY <1>6, <2>2 DEF SlotsOK
  <2> QED
    BY <1>2, <2>1, <2>3, TellsBasics
<1> DEFINE a == ResponsesToMessages!SendText(s, item)
           b == IF item.kind = "tool" THEN ResponsesToMessages!ToolBlock(a.s, item) ELSE ResponsesToMessages!CloseBlock(a.s)
           c == ResponsesToMessages!Advance(b.s)
           d == IF ~item.done THEN Ok(a.s, <<>>) ELSE Joined(b, c)
<1>7. \/ ResponsesToMessages!RenderItem(s, final) = Ok(s, <<>>)
      \/ /\ s.current \in DOMAIN s.slots /\ (item.kind = "tool" => final)
         /\ ResponsesToMessages!RenderItem(s, final) = Joined(a, d)
  BY <1>2 DEF ResponsesToMessages!RenderItem, ResponsesToMessages!Then, Joined
<1>8. CASE ResponsesToMessages!RenderItem(s, final) = Ok(s, <<>>)
  BY <1>2, <1>8, TellsBasics DEF p
<1>9. CASE /\ s.current \in DOMAIN s.slots /\ (item.kind = "tool" => final)
           /\ ResponsesToMessages!RenderItem(s, final) = Joined(a, d)
  <2>1. item.kind \in {"text", "think", "tool"}
    BY <1>9 DEF SlotsOK
  <2> HIDE DEF item
  <2>2. Tells(p, a) /\ SlotsOK(a.s)
    BY <1>4, <2>1
  <2> HIDE DEF a
  <2>3. SlotsOK(b.s) /\ Shaped(b) /\ (final \/ Tells(p, b))
    BY <1>3, <1>5, <1>9, <2>2 DEF Tells, Shaped
  <2> HIDE DEF b
  <2>4. Tells(p, c) /\ SlotsOK(c.s)
    BY <1>6, <2>3
  <2> HIDE DEF c
  <2>5. SlotsOK(Joined(b, c).s)
    BY <2>3, <2>4, JoinedState
  <2>7. SlotsOK(d.s) /\ Shaped(d) /\ (final \/ Tells(p, d))
    <3>1. Shaped(Joined(b, c)) /\ (final \/ Tells(p, Joined(b, c)))
      BY <2>3, <2>4, JoinedShape, TellsJoined DEF Tells, Shaped
    <3>2. Shaped(Ok(a.s, <<>>)) /\ Tells(p, Ok(a.s, <<>>)) /\ SlotsOK(Ok(a.s, <<>>).s)
      BY <1>2, <2>2, TellsBasics
    <3> QED
      BY <2>5, <3>1, <3>2
  <2> HIDE DEF d
  <2>8. SlotsOK(Joined(a, d).s) /\ Shaped(Joined(a, d)) /\ (final \/ Tells(p, Joined(a, d)))
    BY <2>2, <2>7, JoinedShape, TellsJoined DEF Tells, Shaped
  <2> QED
    BY <1>9, <2>8 DEF p
<1> QED
  BY <1>7, <1>8, <1>9

\* What render tells: content, and tools only in the end.
LEMMA RenderKeeps ==
  ASSUME NEW s, SlotsOK(s), NEW final
  PROVE  LET r == ResponsesToMessages!Render(s, final) IN SlotsOK(r.s) /\ Shaped(r) /\ (final \/ Tells("messages", r))
<1> DEFINE n == Cardinality(DOMAIN s.slots)
           id == [i \in 1..n |-> i]
           f == [fold |-> "render", seq |-> id, final |-> final]
           b == Ok(s, <<>>)
           T(r, x) == Then(r, LAMBDA t : ResponsesToMessages!RenderItem(t, final))
           F == ResponsesToMessages!FoldLeft(LAMBDA r, i : ResponsesToMessages!Then(r, LAMBDA t : ResponsesToMessages!RenderItem(t, final)), b, id)
<1>1. ResponsesToMessages!Render(s, final) = F
  BY DEF ResponsesToMessages!Render, ResponsesToMessages!Ok, Ok, ResponsesToMessages!Cardinality, Cardinality
<1>2. n \in Nat
  BY FS_CardinalityType DEF SlotsOK
<1> HIDE DEF n
<1>3. Tells("messages", b) /\ b.s = s
  BY TellsBasics DEF Ok
<1> HIDE DEF b
<1>4. Kept(f, b)
  BY <1>3 DEF Kept, Tells
<1>5. \A r, x : Turn(f, r, x) = T(r, x)
  BY DEF Turn
<1> DEFINE FoldIs(g) == g = [u \in SUBSET (1..n) |-> IF u = {} THEN b ELSE T(g[u \ {Max(u)}], id[Max(u)])]
<1>6. F = (CHOOSE g : FoldIs(g))[1..n]
  BY DEF ResponsesToMessages!FoldLeft, ResponsesToMessages!MapThenFoldSet, ResponsesToMessages!Then, Then, ResponsesToMessages!Max, Max
<1>7. \A r, x : T(r, x) = Joined(r, ResponsesToMessages!RenderItem(r.s, final))
  BY DEF Then, Joined
<1> HIDE DEF T, F, id
<1>8. \A g : TurnsSolve(f, b, n, g) <=> FoldIs(g)
  BY <1>5, ZenonT(40) DEF TurnsSolve
<1> HIDE DEF FoldIs
<1>9. F = (CHOOSE g : TurnsSolve(f, b, n, g))[1..n]
  BY <1>6, <1>8
<1>10. ASSUME NEW r, NEW i \in 1..n, Kept(f, r) PROVE Kept(f, Turn(f, r, f.seq[i]))
  <2> DEFINE q == ResponsesToMessages!RenderItem(r.s, final)
  <2>1. SlotsOK(r.s) /\ Shaped(r) /\ (final \/ Tells("messages", r))
    BY <1>10 DEF Kept, Shaped
  <2>2. SlotsOK(q.s) /\ Shaped(q) /\ (final \/ Tells("messages", q))
    BY <2>1, RenderItemKeeps
  <2>3. Turn(f, r, f.seq[i]) = Joined(r, q)
    BY <1>5, <1>7
  <2> HIDE DEF q
  <2>4. SlotsOK(Joined(r, q).s) /\ Shaped(Joined(r, q)) /\ (final \/ Tells("messages", Joined(r, q)))
    BY <2>1, <2>2, JoinedShape, TellsJoined
  <2>5. SlotsOK(Turn(f, r, f.seq[i]).s) /\ Shaped(Turn(f, r, f.seq[i])) /\ (final \/ Tells("messages", Turn(f, r, f.seq[i])))
    BY <2>3, <2>4
  <2> QED
    BY <2>5 DEF Kept, Shaped
<1>11. Kept(f, F)
  <2> HIDE DEF f
  <2> QED
    BY <1>2, <1>4, <1>9, <1>10, FoldKeeps
<1>12. SlotsOK(F.s) /\ Shaped(F) /\ (final \/ Tells("messages", F))
  BY <1>11 DEF Kept, Shaped
<1> QED
  BY <1>1, <1>12

\* The items stay finitely many when the response ends.
LEMMA FinishKeeps ==
  ASSUME NEW s, SlotsOK(s), NEW e, NEW S, e.items \in Seq(S)
  PROVE  LET r == ResponsesToMessages!Finish(s, e) IN SlotsOK(r.s) /\ Shaped(r)
<1> DEFINE n == Len(e.items)
           id == [i \in DOMAIN e.items |-> i]
           f == [fold |-> "put", seq |-> id, items |-> e.items]
           b == Ok(s, <<>>)
           T(r, x) == Then(r, LAMBDA t : ResponsesToMessages!Put(t, x, e.items[x], TRUE))
           F == ResponsesToMessages!FoldLeft(LAMBDA r, i : ResponsesToMessages!Then(r, LAMBDA t : ResponsesToMessages!Put(t, i, e.items[i], TRUE)), b, id)
<1>1. /\ \A u, w : ResponsesToMessages!Ok(u, w) = Ok(u, w)
      /\ \A u : ResponsesToMessages!Refuse(u) = Refuse(u)
      /\ \A u, w : Ok(u, w).s = u /\ Refuse(u).s = u
  BY DEF ResponsesToMessages!Ok, Ok, ResponsesToMessages!Refuse, Refuse
<1>2. DOMAIN e.items = 1..n /\ n \in Nat
  OBVIOUS
<1> HIDE DEF n
<1>3. DOMAIN id = 1..n
  BY <1>2
<1>4. Kept(f, b)
  BY <1>1 DEF Kept
<1>5. \A r, x : Turn(f, r, x) = T(r, x)
  BY DEF Turn
<1> DEFINE FoldIs(g) == g = [u \in SUBSET (1..n) |-> IF u = {} THEN b ELSE T(g[u \ {Max(u)}], id[Max(u)])]
<1>6. F = (CHOOSE g : FoldIs(g))[1..n]
  <2> HIDE DEF id
  <2> QED
    BY <1>3 DEF ResponsesToMessages!FoldLeft, ResponsesToMessages!MapThenFoldSet, ResponsesToMessages!Then, Then, ResponsesToMessages!Max, Max
<1>7. \A r, x : T(r, x) = Joined(r, ResponsesToMessages!Put(r.s, x, e.items[x], TRUE))
  BY DEF Then, Joined
<1> HIDE DEF T, F, id, b
<1>8. \A g : TurnsSolve(f, b, n, g) <=> FoldIs(g)
  BY <1>5, ZenonT(40) DEF TurnsSolve
<1> HIDE DEF FoldIs
<1>9. F = (CHOOSE g : TurnsSolve(f, b, n, g))[1..n]
  BY <1>6, <1>8
<1>10. ASSUME NEW r, NEW i \in 1..n, Kept(f, r) PROVE Kept(f, Turn(f, r, f.seq[i]))
  <2> DEFINE x == f.seq[i]
             q == ResponsesToMessages!Put(r.s, x, e.items[x], TRUE)
  <2>1. SlotsOK(r.s)
    BY <1>10 DEF Kept
  <2>2. SlotsOK(q.s) /\ Tells("messages", q)
    BY <2>1, PutKeeps
  <2>3. Turn(f, r, x) = Joined(r, q)
    BY <1>5, <1>7
  <2> HIDE DEF q, x
  <2>4. SlotsOK(Joined(r, q).s)
    BY <2>1, <2>2, JoinedState
  <2>5. SlotsOK(Turn(f, r, x).s)
    BY <2>3, <2>4
  <2> QED
    BY <2>5 DEF Kept, x
<1>11. Kept(f, F)
  <2> HIDE DEF f
  <2> QED
    BY <1>2, <1>4, <1>9, <1>10, FoldKeeps
<1>12. SlotsOK(F.s)
  BY <1>11 DEF Kept
<1> DEFINE v == ResponsesToMessages!Render(F.s, TRUE)
           c == ResponsesToMessages!CloseBlock(v.s)
           j == Joined(v, c)
           t == [j.s EXCEPT !.stopped = TRUE]
           w == <<ResponsesToMessages!MessageDelta(ResponsesToMessages!StopReason(e.status, e.items)), ResponsesToMessages!MessageStop>>
<1>13. \/ ResponsesToMessages!Finish(s, e) = Refuse(s)
       \/ ResponsesToMessages!Finish(s, e) = Joined(j, Ok(t, w))
  <2>1. ResponsesToMessages!Then(ResponsesToMessages!Render(F.s, TRUE), ResponsesToMessages!CloseBlock) = j
    BY DEF ResponsesToMessages!Then, Joined
  <2> DEFINE k == ResponsesToMessages!Then(ResponsesToMessages!Render(F.s, TRUE), ResponsesToMessages!CloseBlock)
  <2>2. ResponsesToMessages!Then(k, LAMBDA u : ResponsesToMessages!Ok([u EXCEPT !.stopped = TRUE], w)) =
          Joined(k, Ok([k.s EXCEPT !.stopped = TRUE], w))
    <3> HIDE DEF k, w
    <3> QED
      BY <1>1 DEF ResponsesToMessages!Then, Joined
  <2>3. \/ ResponsesToMessages!Finish(s, e) = ResponsesToMessages!Refuse(s)
        \/ ResponsesToMessages!Finish(s, e) = ResponsesToMessages!Then(k, LAMBDA u : ResponsesToMessages!Ok([u EXCEPT !.stopped = TRUE], w))
    BY <1>1 DEF ResponsesToMessages!Finish, F, b, id
  <2> HIDE DEF k, j, w
  <2> QED
    BY <1>1, <2>1, <2>2, <2>3 DEF k
<1>14. SlotsOK(v.s) /\ Shaped(v)
  BY <1>12, RenderKeeps
<1> HIDE DEF v
<1>15. SlotsOK(c.s) /\ Shaped(c)
  <2> DEFINE x == [v.s EXCEPT !.open = FALSE, !.blocks = @ + 1]
  <2>1. \E y : c = Ok(x, y) \/ c = Ok(v.s, <<>>)
    BY <1>1 DEF ResponsesToMessages!CloseBlock
  <2>2. x.slots = v.s.slots /\ "slots" \in DOMAIN x
    BY <1>14 DEF SlotsOK
  <2> HIDE DEF x
  <2>3. SlotsOK(x)
    BY <1>14, <2>2 DEF SlotsOK
  <2>4. \A y, z : Shaped(Ok(y, z))
    BY DEF Ok, Shaped
  <2> HIDE DEF c
  <2> QED
    BY <1>1, <1>14, <2>1, <2>3, <2>4
<1> HIDE DEF c
<1>16. SlotsOK(j.s) /\ Shaped(j)
  BY <1>14, <1>15, JoinedShape
<1> HIDE DEF j
<1>17. t.slots = j.s.slots /\ "slots" \in DOMAIN t
  BY <1>16 DEF SlotsOK
<1> HIDE DEF t, w
<1>18. SlotsOK(t)
  BY <1>16, <1>17 DEF SlotsOK
<1>19. Shaped(Ok(t, w)) /\ Ok(t, w).s = t /\ Shaped(Refuse(s)) /\ Refuse(s).s = s
  BY DEF Ok, Refuse, Shaped
<1>20. SlotsOK(Joined(j, Ok(t, w)).s) /\ Shaped(Joined(j, Ok(t, w)))
  BY <1>16, <1>18, <1>19, JoinedShape
<1> QED
  BY <1>13, <1>19, <1>20

\* responsesMessagesStream lets no client go on before the response ends.
LEMMA ResponsesMessagesTells ==
  ASSUME NEW s, SlotsOK(s), NEW e, e.e = "end" => \E S : e.items \in Seq(S)
  PROVE  LET r == ResponsesToMessages!Event(s, e) IN SlotsOK(r.s) /\ (e.e = "end" \/ Tells("messages", r))
<1> DEFINE p == "messages"
           begun == [s EXCEPT !.started = TRUE]
           r == Ok(begun, IF s.started THEN <<>> ELSE <<ResponsesToMessages!MessageStart>>)
           new == [kind |-> e.kind, id |-> e.id, n |-> 0]
           a == CASE e.e = "item" -> ResponsesToMessages!Put(r.s, e.at, new, FALSE)
                  [] e.e = "itemdone" -> ResponsesToMessages!Put(r.s, e.at, e, TRUE)
                  [] OTHER -> ResponsesToMessages!SetText(r.s, e)
           b == ResponsesToMessages!Render(a.s, FALSE)
           q == CASE e.e = "end" -> ResponsesToMessages!Finish(r.s, e)
                  [] e.e \in {"item", "itemdone", "delta", "text"} -> Joined(a, b)
                  [] OTHER -> Ok(r.s, <<>>)
<1>1. Quiet(p, ResponsesToMessages!MessageStart)
  BY DEF Quiet, ResponsesToMessages!MessageStart
<1> HIDE DEF p
<1>2. /\ \A u, w : ResponsesToMessages!Ok(u, w) = Ok(u, w)
      /\ \A u : ResponsesToMessages!Refuse(u) = Refuse(u)
      /\ \A u, w : Ok(u, w).s = u /\ Refuse(u).s = u
  BY DEF ResponsesToMessages!Ok, Ok, ResponsesToMessages!Refuse, Refuse
<1>3. ResponsesToMessages!Event(s, e) = Refuse(s) \/ ResponsesToMessages!Event(s, e) = Joined(r, q)
  <2> DEFINE X(t) == CASE e.e = "end" -> ResponsesToMessages!Finish(t, e)
                       [] e.e = "item" -> ResponsesToMessages!Then(ResponsesToMessages!Put(t, e.at, new, FALSE), LAMBDA u : ResponsesToMessages!Render(u, FALSE))
                       [] e.e = "itemdone" -> ResponsesToMessages!Then(ResponsesToMessages!Put(t, e.at, e, TRUE), LAMBDA u : ResponsesToMessages!Render(u, FALSE))
                       [] e.e \in {"delta", "text"} -> ResponsesToMessages!Then(ResponsesToMessages!SetText(t, e), LAMBDA u : ResponsesToMessages!Render(u, FALSE))
                       [] OTHER -> ResponsesToMessages!Ok(t, <<>>)
  <2>1. ResponsesToMessages!Event(s, e) = Refuse(s) \/ ResponsesToMessages!Event(s, e) = Joined(r, X(r.s))
    <3> DEFINE r0 == ResponsesToMessages!Ok(begun, IF s.started THEN <<>> ELSE <<ResponsesToMessages!MessageStart>>)
    <3>1. ResponsesToMessages!Event(s, e) =
            IF e.e = "bad" \/ s.stopped \/ (~s.started /\ e.e \notin {"created", "end"}) THEN ResponsesToMessages!Refuse(s)
            ELSE ResponsesToMessages!Then(r0, X)
      BY DEF ResponsesToMessages!Event
    <3>2. r0 = r
      BY <1>2
    <3> HIDE DEF X, r0, r
    <3>3. ResponsesToMessages!Then(r0, X) = Joined(r0, X(r0.s))
      BY DEF ResponsesToMessages!Then, Joined
    <3> DEFINE y == ResponsesToMessages!Then(r0, X)
    <3> HIDE DEF y
    <3>4. ResponsesToMessages!Event(s, e) = ResponsesToMessages!Refuse(s) \/ ResponsesToMessages!Event(s, e) = y
      BY <3>1 DEF y
    <3>5. y = Joined(r, X(r.s))
      BY <3>2, <3>3 DEF y
    <3> QED
      BY <1>2, <3>4, <3>5
  <2>2. \A x : ResponsesToMessages!Then(x, LAMBDA u : ResponsesToMessages!Render(u, FALSE)) = Joined(x, ResponsesToMessages!Render(x.s, FALSE))
    BY DEF ResponsesToMessages!Then, Joined
  <2> HIDE DEF r, new
  <2>3. X(r.s) = q
    <3>1. CASE e.e = "end"
      BY <3>1
    <3>2. CASE e.e = "item"
      BY <2>2, <3>2
    <3>3. CASE e.e = "itemdone"
      BY <2>2, <3>3
    <3>4. CASE e.e \in {"delta", "text"}
      BY <2>2, <3>4
    <3>5. CASE e.e \notin {"end", "item", "itemdone", "delta", "text"}
      BY <1>2, <3>5
    <3> QED
      BY <3>1, <3>2, <3>3, <3>4, <3>5
  <2> HIDE DEF X, q
  <2> QED
    BY <2>1, <2>3
<1>4. begun.slots = s.slots /\ "slots" \in DOMAIN begun
  BY DEF SlotsOK
<1> HIDE DEF begun
<1>5. SlotsOK(begun)
  BY <1>4 DEF SlotsOK
<1>6. Tells(p, r) /\ r.s = begun
  BY <1>1, <1>2, TellsBasics
<1> HIDE DEF r, new
<1>7. SlotsOK(a.s) /\ Tells(p, a)
  <2>1. CASE e.e = "item"
    BY <1>5, <1>6, <2>1, PutKeeps DEF p
  <2>2. CASE e.e = "itemdone"
    BY <1>5, <1>6, <2>2, PutKeeps DEF p
  <2>3. CASE e.e \notin {"item", "itemdone"}
    BY <1>5, <1>6, <2>3, SetTextKeeps DEF p
  <2> QED
    BY <2>1, <2>2, <2>3
<1> HIDE DEF a
<1>8. SlotsOK(b.s) /\ Tells(p, b)
  BY <1>7, RenderKeeps DEF p
<1> HIDE DEF b
<1>9. SlotsOK(Joined(a, b).s) /\ Tells(p, Joined(a, b))
  BY <1>7, <1>8, TellsJoined, JoinedState
<1>10. SlotsOK(q.s) /\ Shaped(q) /\ (e.e = "end" \/ Tells(p, q))
  <2>1. CASE e.e = "end"
    <3>1. PICK S : e.items \in Seq(S)
      BY <2>1
    <3> DEFINE f == ResponsesToMessages!Finish(r.s, e)
    <3>2. SlotsOK(f.s) /\ Shaped(f)
      BY <1>5, <1>6, <3>1, FinishKeeps
    <3> QED
      BY <2>1, <3>2
  <2>2. CASE e.e \in {"item", "itemdone", "delta", "text"}
    <3> DEFINE j == Joined(a, b)
    <3>1. q = j
      BY <2>2
    <3>2. SlotsOK(j.s) /\ Tells(p, j)
      BY <1>9
    <3> HIDE DEF j, q
    <3> QED
      BY <3>1, <3>2 DEF Tells, Shaped
  <2>3. CASE e.e \notin {"end", "item", "itemdone", "delta", "text"}
    <3> DEFINE j == Ok(r.s, <<>>)
    <3>1. q = j
      BY <2>3
    <3>2. SlotsOK(j.s) /\ Tells(p, j)
      BY <1>2, <1>5, <1>6, TellsBasics
    <3> HIDE DEF j, q
    <3> QED
      BY <3>1, <3>2 DEF Tells, Shaped
  <2> QED
    BY <2>1, <2>2, <2>3
<1> HIDE DEF q
<1>11. SlotsOK(Joined(r, q).s) /\ (e.e = "end" \/ Tells(p, Joined(r, q)))
  BY <1>5, <1>6, <1>10, JoinedShape, TellsJoined
<1>12. SlotsOK(Refuse(s).s) /\ Tells(p, Refuse(s))
  BY <1>2, TellsBasics
<1> QED
  BY <1>3, <1>11, <1>12 DEF p

\* What a client reads of quiet events leaves it without an end, and without
\* calls if it is a client of Messages.
LEMMA ReadKeeps ==
  ASSUME bridge \in Bridges, NEW d, Unpaid(d), NEW e, Quiet(IF In = Out THEN "native" ELSE Out, e)
  PROVE  Unpaid(ReadEvent(d, e))
<1> DEFINE NoCalls(w) == Out = "messages" /\ In # "messages" => \A k \in DOMAIN w : k[1] # "tool"
<1>1. ASSUME NEW t, "ended" \in DOMAIN t, t.ended = FALSE, "said" \in DOMAIN t, NoCalls(t.said) PROVE Unpaid(t)
  BY <1>1 DEF Unpaid
<1>2. "ended" \in DOMAIN d /\ d.ended = FALSE /\ "said" \in DOMAIN d /\ NoCalls(d.said)
  BY DEF Unpaid
<1>3. /\ In \in {"chat", "messages", "responses", "gemini"} /\ Out \in {"chat", "messages", "responses", "gemini"}
      /\ (Out = "gemini" => In = "gemini")
  BY BridgesAssumption DEF In, Out
<1>4. Unpaid(Broken(d))
  <2> DEFINE t == [d EXCEPT !.bad = TRUE]
  <2>1. t.ended = d.ended /\ t.said = d.said /\ DOMAIN t = DOMAIN d
    OBVIOUS
  <2> HIDE DEF t
  <2>2. Unpaid(t)
    BY <1>1, <1>2, <2>1
  <2> QED
    BY <2>2 DEF Broken, t
<1>5. CASE d.bad
  BY <1>5 DEF ReadEvent
<1>6. CASE ~d.bad /\ In = Out
  <2> DEFINE w == Says(d.said, e)
             t == [d EXCEPT !.said = w, !.ended = @ \/ IsLast(e)]
  <2>1. ~IsLast(e)
    BY <1>6 DEF Quiet
  <2>2. ReadEvent(d, e) = t
    BY <1>6 DEF ReadEvent
  <2> HIDE DEF w
  <2>3. t.ended = FALSE /\ t.said = w /\ DOMAIN t = DOMAIN d
    BY <1>2, <2>1
  <2>4. NoCalls(w)
    BY <1>6
  <2> HIDE DEF t
  <2> QED
    BY <1>1, <1>2, <2>2, <2>3, <2>4
<1>7. ASSUME NEW t, \/ t = [d EXCEPT !.started = TRUE]
                   \/ t = [d EXCEPT !.finished = TRUE]
                   \/ \E v : t = [d EXCEPT !.open = v]
      PROVE  Unpaid(t)
  <2>1. t.ended = d.ended /\ t.said = d.said /\ DOMAIN t = DOMAIN d
    <3>1. CASE t = [d EXCEPT !.started = TRUE]
      BY <3>1
    <3>2. CASE t = [d EXCEPT !.finished = TRUE]
      BY <3>2
    <3>3. CASE \E v : t = [d EXCEPT !.open = v]
      BY <3>3
    <3> QED
      BY <1>7, <3>1, <3>2, <3>3
  <2> QED
    BY <1>1, <1>2, <2>1
<1>8. ASSUME NEW t, NEW w, NoCalls(w), t = [d EXCEPT !.said = w] \/ \E v : t = [d EXCEPT !.open = v, !.said = w] PROVE Unpaid(t)
  <2>1. t.ended = d.ended /\ t.said = w /\ DOMAIN t = DOMAIN d
    BY <1>2, <1>8
  <2> QED
    BY <1>1, <1>2, <1>8, <2>1
<1>9. CASE ~d.bad /\ In # Out /\ Out = "chat"
  <2>1. ReadEvent(d, e) = ReadChat(d, e) /\ e.k \in {"role", "text", "think", "refusal", "call", "finish", "usage"}
    BY <1>9 DEF ReadEvent, Quiet
  <2>2. \A w : NoCalls(w)
    BY <1>9
  <2> DEFINE t == ReadChat(d, e)
  <2>3. \/ t = Broken(d) \/ t = d
        \/ t = [d EXCEPT !.started = TRUE]
        \/ t = [d EXCEPT !.finished = TRUE]
        \/ \E w : t = [d EXCEPT !.said = w]
    BY <2>1 DEF ReadChat, Expect
  <2> HIDE DEF t, NoCalls
  <2>4. Unpaid(t)
    <3>1. CASE t = Broken(d) \/ t = d
      BY <1>4, <3>1
    <3>2. CASE t = [d EXCEPT !.started = TRUE] \/ t = [d EXCEPT !.finished = TRUE]
      BY <1>7, <3>2
    <3>3. CASE \E w : t = [d EXCEPT !.said = w]
      <4>1. PICK w : t = [d EXCEPT !.said = w]
        BY <3>3
      <4> QED
        BY <1>8, <2>2, <4>1
    <3> QED
      BY <2>3, <3>1, <3>2, <3>3
  <2> QED
    BY <2>1, <2>4 DEF t
<1>10. CASE ~d.bad /\ In # Out /\ Out = "responses"
  <2>1. ReadEvent(d, e) = ReadResponses(d, e)
        /\ e.e \in {"created", "item", "part", "partdone", "delta", "text", "itemdone"}
    BY <1>10 DEF ReadEvent, Quiet
  <2>2. \A w : NoCalls(w)
    BY <1>10
  <2> DEFINE t == ReadResponses(d, e)
  <2>3. \/ t = Broken(d) \/ t = d
        \/ t = [d EXCEPT !.started = TRUE]
        \/ \E w : t = [d EXCEPT !.said = w]
        \/ \E v, w : t = [d EXCEPT !.open = v, !.said = w]
    <3>1. CASE e.e \in {"created", "item", "part"}
      BY <3>1, Zenon DEF ReadResponses, Expect
    <3>2. CASE e.e \in {"partdone", "delta", "text", "itemdone"}
      BY <3>2, Zenon DEF ReadResponses, Expect
    <3> QED
      BY <2>1, <3>1, <3>2
  <2> HIDE DEF t, NoCalls
  <2>4. Unpaid(t)
    <3>1. CASE t = Broken(d) \/ t = d
      BY <1>4, <3>1
    <3>2. CASE t = [d EXCEPT !.started = TRUE]
      BY <1>7, <3>2
    <3>3. CASE (\E w : t = [d EXCEPT !.said = w]) \/ \E v, w : t = [d EXCEPT !.open = v, !.said = w]
      <4>1. PICK v, w : t = [d EXCEPT !.said = w] \/ t = [d EXCEPT !.open = v, !.said = w]
        BY <3>3
      <4> QED
        BY <1>8, <2>2, <4>1
    <3> QED
      BY <2>3, <3>1, <3>2, <3>3
  <2> QED
    BY <2>1, <2>4 DEF t
<1>11. CASE ~d.bad /\ In # Out /\ Out = "messages"
  <2>1. ReadEvent(d, e) = ReadMessages(d, e)
        /\ (e.e \in {"start", "bstop"} \/ (e.e \in {"bstart", "bdelta"} /\ e.kind \in {"text", "think"}))
    BY <1>11 DEF ReadEvent, Quiet
  <2> DEFINE t == ReadMessages(d, e)
             w == SaysMessages(d.said, e)
  <2>2. e.e \in {"bstart", "bdelta"} /\ e.kind \in {"text", "think"} => NoCalls(w)
    <3>1. ASSUME NEW id, e.kind \in {"text", "think"} PROVE NoCalls(AddTo(d.said, <<e.kind, e.at>>, id, e.n))
      <4>1. DOMAIN AddTo(d.said, <<e.kind, e.at>>, id, e.n) = DOMAIN d.said \cup {<<e.kind, e.at>>}
        BY DEF AddTo, Assign
      <4> QED
        BY <1>2, <3>1, <4>1
    <3>2. e.e \in {"bstart", "bdelta"} /\ e.kind \in {"text", "think"} =>
            \E id : w = AddTo(d.said, <<e.kind, e.at>>, id, e.n)
      BY DEF SaysMessages
    <3> HIDE DEF w, NoCalls
    <3> QED
      BY <3>1, <3>2
  <2>3. \/ t = Broken(d)
        \/ t = [d EXCEPT !.started = TRUE]
        \/ \E v : t = [d EXCEPT !.open = v]
        \/ /\ e.e \in {"bstart", "bdelta"} /\ e.kind \in {"text", "think"}
           /\ t = [d EXCEPT !.said = w] \/ \E v : t = [d EXCEPT !.open = v, !.said = w]
    BY <2>1 DEF ReadMessages, Expect
  <2> HIDE DEF t, w, NoCalls
  <2>4. Unpaid(t)
    BY <1>4, <1>7, <1>8, <2>2, <2>3
  <2> QED
    BY <2>1, <2>4 DEF t
<1> QED
  BY <1>3, <1>5, <1>6, <1>9, <1>10, <1>11

\* The client's side of the converters: what upstream sends in the client's
\* own protocol is passed on.
Side == IF In = Out THEN "native" ELSE Out

\* Reading a quiet wire leaves a client without an end.
LEMMA ReadQuiet ==
  ASSUME bridge \in Bridges, NEW c, Unpaid(c), NEW w, QuietWire(Side, w)
  PROVE  Unpaid(Read(c, w))
<1> DEFINE f == [fold |-> "read", seq |-> w]
           n == Len(w)
<1>1. PICK S : w \in Seq(S) /\ \A e \in S : Quiet(Side, e)
  BY DEF QuietWire
<1>2. n \in Nat /\ DOMAIN w = 1..n /\ \A i \in 1..n : w[i] \in S
  BY <1>1
<1> HIDE DEF n
<1>3. \A r, x : Turn(f, r, x) = ReadEvent(r, x)
  BY DEF Turn
<1> DEFINE FoldIs(g) == g = [s \in SUBSET (1..n) |-> IF s = {} THEN c ELSE ReadEvent(g[s \ {Max(s)}], w[Max(s)])]
<1>4. Read(c, w) = (CHOOSE g : FoldIs(g))[1..n]
  BY <1>2 DEF Read, FoldLeft, MapThenFoldSet
<1>5. \A g : TurnsSolve(f, c, n, g) <=> FoldIs(g)
  BY <1>3 DEF TurnsSolve
<1> HIDE DEF FoldIs
<1>6. Read(c, w) = (CHOOSE g : TurnsSolve(f, c, n, g))[1..n]
  BY <1>4, <1>5
<1>7. Kept(f, c)
  BY DEF Kept
<1>8. ASSUME NEW r, NEW i \in 1..n, Kept(f, r) PROVE Kept(f, Turn(f, r, f.seq[i]))
  <2>1. Unpaid(r) /\ Quiet(Side, f.seq[i])
    BY <1>1, <1>2, <1>8 DEF Kept
  <2> DEFINE x == f.seq[i]
  <2>2. Unpaid(ReadEvent(r, x))
    BY <2>1, ReadKeeps DEF Side
  <2> HIDE DEF x
  <2>3. Unpaid(Turn(f, r, x))
    BY <1>3, <2>2
  <2> QED
    BY <2>3 DEF Kept, x
<1>9. Kept(f, Read(c, w))
  <2> HIDE DEF f
  <2> QED
    BY <1>2, <1>6, <1>7, <1>8, FoldKeeps
<1> QED
  BY <1>9 DEF Kept

\* What upstream sends: the end of a Chat stream, the kinds and the items of a
\* Responses stream.
LEMMA FrameFacts ==
  ASSUME NEW e \in Frames
  PROVE  /\ In = "chat" /\ e.k = "done" => e = ChatDone
         /\ In = "responses" /\ e.e \in {"item", "itemdone", "delta", "text"} => e.kind \in {"text", "think", "tool"}
         /\ In = "responses" /\ e.e = "end" => \E S : e.items \in Seq(S)
<1>1. CASE In = "chat"
  <2>1. e \in ChatFrames
    BY <1>1 DEF Frames
  <2>2. e.k = "done" => e = ChatDone
    <3>1. CASE e \in {ChatRole, ChatUsage, ChatDone, Bad}
      <4>1. ChatRole.k = "role" /\ ChatUsage.k = "usage" /\ Bad.k = "bad"
        BY DEF ChatRole, ChatUsage, Bad
      <4> QED
        BY <3>1, <4>1
    <3>2. CASE \E kind \in {"text", "think", "refusal"} : e = ChatText(kind, 1)
      BY <3>2 DEF ChatText
    <3>3. CASE \E why : e = ChatFinish(why)
      BY <3>3 DEF ChatFinish
    <3>4. CASE \E ix, id, name, n : e = ChatCall(ix, id, name, n)
      BY <3>4 DEF ChatCall
    <3>5. \/ e \in {ChatRole, ChatUsage, ChatDone, Bad} \/ (\E kind \in {"text", "think", "refusal"} : e = ChatText(kind, 1))
          \/ (\E why : e = ChatFinish(why)) \/ (\E ix, id, name, n : e = ChatCall(ix, id, name, n))
      <4>1. e \in {ChatRole, ChatUsage, ChatDone, Bad} \/ e \in {ChatText(kind, 1) : kind \in {"text", "think", "refusal"}}
            \/ e \in {ChatFinish(why) : why \in {"stop", "tool_calls", "length", "content_filter", "odd"}}
            \/ e \in {ChatCall(w[1] - 1, w[2][1], w[2][2], w[3]) :
                 w \in Places \X {<<"", "">>, <<"a", "">>, <<"", "f">>, <<"a", "f">>, <<"b", "f">>, <<"b", "custom">>, <<"b", "tool_search">>} \X (0..1)}
        BY <2>1, Zenon DEF ChatFrames
      <4>2. CASE e \in {ChatCall(w[1] - 1, w[2][1], w[2][2], w[3]) :
                 w \in Places \X {<<"", "">>, <<"a", "">>, <<"", "f">>, <<"a", "f">>, <<"b", "f">>, <<"b", "custom">>, <<"b", "tool_search">>} \X (0..1)}
        <5>1. \E w : e = ChatCall(w[1] - 1, w[2][1], w[2][2], w[3])
          BY <4>2, Zenon
        <5> QED
          BY <5>1
      <4> QED
        BY <4>1, <4>2
    <3> QED
      BY <3>1, <3>2, <3>3, <3>4, <3>5
  <2> QED
    BY <1>1, <2>2
<1>2. CASE In = "responses"
  <2>1. e \in ResponsesFrames
    BY <1>2 DEF Frames
  <2> DEFINE K == {"text", "think", "tool"}
  <2>2. \/ e \in {Created, Bad, [e |-> "other"]}
        \/ \E at, id : \E kind \in K : e = ItemAdded(at, kind, id)
        \/ \E at, n : \E kind \in K : e = Delta(at, kind, n)
        \/ \E at, n : \E kind \in K : e = TextDone(at, kind, n)
        \/ \E at, id, n : \E kind \in K : e = ItemDone(at, kind, id, n)
        \/ \E status : e = Ended(status, <<>>)
        \/ \E status, i : e = Ended(status, <<i>>)
        \/ \E status, i, j : e = Ended(status, <<i, j>>)
    <3>1. \A at : \A i \in ItemsAt(at) : i.kind \in K
      <4>1. ASSUME NEW at, NEW i \in ItemsAt(at) PROVE i.kind \in K
        <5> DEFINE N == UNION {Told(k, at) : k \in {"text", "think"}}
        <5>1. \/ i \in {[kind |-> w[1], id |-> "", n |-> w[2]] : w \in {"text", "think"} \X N}
              \/ i \in {[kind |-> "tool", id |-> w[1], n |-> w[2]] : w \in {"a", "b"} \X Told("tool", at)}
          BY <4>1, Zenon DEF ItemsAt
        <5> HIDE DEF N
        <5>2. (\E w \in {"text", "think"} \X N : i = [kind |-> w[1], id |-> "", n |-> w[2]])
              \/ \E w : i = [kind |-> "tool", id |-> w[1], n |-> w[2]]
          BY <5>1, Zenon
        <5>3. \A w \in {"text", "think"} \X N : w[1] \in {"text", "think"}
          OBVIOUS
        <5>4. \A x, y, z : [kind |-> x, id |-> y, n |-> z].kind = x
          OBVIOUS
        <5>5. CASE \E w \in {"text", "think"} \X N : i = [kind |-> w[1], id |-> "", n |-> w[2]]
          <6>1. PICK w \in {"text", "think"} \X N : i = [kind |-> w[1], id |-> "", n |-> w[2]]
            BY <5>5
          <6>2. i.kind = w[1]
            BY <6>1, <5>4
          <6> QED
            BY <6>2, <5>3
        <5>6. CASE \E w : i = [kind |-> "tool", id |-> w[1], n |-> w[2]]
          <6>1. i.kind = "tool"
            BY <5>6, <5>4
          <6> QED
            BY <6>1
        <5> QED
          BY <5>2, <5>5, <5>6
      <4> QED
        BY <4>1
    <3> DEFINE A == {Created, Bad, Ended("failed", <<>>), [e |-> "other"]}
               B == {ItemAdded(w[1], w[2], "") : w \in Places \X {"text", "think"}}
               C == {ItemAdded(w[1], "tool", w[2]) : w \in Places \X {"a", "b"}}
               D == {Delta(w[1], w[2], 1) : w \in Places \X {"text", "think", "tool"}}
               E == (UNION {{TextDone(w[1], w[2], n) : n \in Told(w[2], w[1]) \cup {0}} : w \in Places \X {"text", "think", "tool"}})
               F == (UNION {{ItemDone(at, i.kind, i.id, i.n) : i \in ItemsAt(at)} : at \in Places})
               G == {Ended(status, <<>>) : status \in {"completed", "length"}}
               H == {Ended(w[1], <<w[2]>>) : w \in {"completed", "content_filter", "odd"} \X ItemsAt(1)}
               I == {Ended("completed", <<w[1], w[2]>>) : w \in ItemsAt(1) \X ItemsAt(2)}
    <3>2. e \in A \cup B \cup C \cup D \cup E \cup F \cup G \cup H \cup I
      <4>1. ResponsesFrames = A \cup B \cup C \cup D \cup E \cup F \cup G \cup H \cup I
        BY Zenon DEF ResponsesFrames
      <4> HIDE DEF A, B, C, D, E, F, G, H, I
      <4> QED
        BY <2>1, <4>1
    <3>3. e \in A => e \in {Created, Bad, [e |-> "other"]} \/ e = Ended("failed", <<>>)
      OBVIOUS
    <3>4. e \in B \/ e \in C => \E at, id : \E kind \in K : e = ItemAdded(at, kind, id)
      <4>1. e \in B => \E w \in Places \X {"text", "think"} : e = ItemAdded(w[1], w[2], "")
        BY Zenon
      <4>2. e \in C => \E w : e = ItemAdded(w[1], "tool", w[2])
        BY Zenon
      <4> HIDE DEF B, C
      <4> QED
        BY <4>1, <4>2
    <3>5. e \in D => \E at, n : \E kind \in K : e = Delta(at, kind, n)
      <4>1. e \in D => \E w \in Places \X K : e = Delta(w[1], w[2], 1)
        BY Zenon
      <4> HIDE DEF D, K
      <4> QED
        BY <4>1
    <3>6. e \in E => \E at, n : \E kind \in K : e = TextDone(at, kind, n)
      <4>1. e \in E => \E w \in Places \X K : e \in {TextDone(w[1], w[2], n) : n \in Told(w[2], w[1]) \cup {0}}
        BY Zenon
      <4>2. \A w : e \in {TextDone(w[1], w[2], n) : n \in Told(w[2], w[1]) \cup {0}} => \E n : e = TextDone(w[1], w[2], n)
        BY Zenon
      <4> HIDE DEF E, K
      <4> QED
        BY <4>1, <4>2
    <3>7. e \in F => \E at, id, n : \E kind \in K : e = ItemDone(at, kind, id, n)
      <4>1. e \in F => \E at : e \in {ItemDone(at, i.kind, i.id, i.n) : i \in ItemsAt(at)}
        BY Zenon
      <4>2. \A at : e \in {ItemDone(at, i.kind, i.id, i.n) : i \in ItemsAt(at)} => \E i \in ItemsAt(at) : e = ItemDone(at, i.kind, i.id, i.n)
        BY Zenon
      <4> HIDE DEF F, K
      <4> QED
        BY <3>1, <4>1, <4>2
    <3>8. e \in G => \E status : e = Ended(status, <<>>)
      OBVIOUS
    <3>9. e \in H => \E status, i : e = Ended(status, <<i>>)
      <4>1. e \in H => \E w : e = Ended(w[1], <<w[2]>>)
        BY Zenon
      <4> HIDE DEF H
      <4> QED
        BY <4>1
    <3>10. e \in I => \E status, i, j : e = Ended(status, <<i, j>>)
      <4>1. e \in I => \E w : e = Ended("completed", <<w[1], w[2]>>)
        BY Zenon
      <4> HIDE DEF I
      <4> QED
        BY <4>1
    <3> HIDE DEF A, B, C, D, E, F, G, H, I, K
    <3> QED
      BY <3>2, <3>3, <3>4, <3>5, <3>6, <3>7, <3>8, <3>9, <3>10
  <2>3. CASE e \in {Created, Bad, [e |-> "other"]}
    <3>1. Created.e = "created" /\ Bad.e = "bad" /\ [e |-> "other"].e = "other"
      BY DEF Created, Bad
    <3>2. e.e \in {"created", "bad", "other"}
      BY <2>3, <3>1
    <3> QED
      BY <1>2, <3>2
  <2>4. CASE \E at, id : \E kind \in K : e = ItemAdded(at, kind, id)
    BY <1>2, <2>4 DEF ItemAdded
  <2>5. CASE \E at, n : \E kind \in K : e = Delta(at, kind, n)
    BY <1>2, <2>5 DEF Delta
  <2>6. CASE \E at, n : \E kind \in K : e = TextDone(at, kind, n)
    BY <1>2, <2>6 DEF TextDone
  <2>7. CASE \E at, id, n : \E kind \in K : e = ItemDone(at, kind, id, n)
    BY <1>2, <2>7 DEF ItemDone
  <2>8. CASE \E status, items : e = Ended(status, items) /\ \E S : items \in Seq(S)
    BY <1>2, <2>8 DEF Ended
  <2>9. /\ \A i, j : <<i>> \in Seq({i}) /\ <<i, j>> \in Seq({i, j})
        /\ <<>> \in Seq({1})
    OBVIOUS
  <2>10. ASSUME \/ \E status : e = Ended(status, <<>>)
                \/ \E status, i : e = Ended(status, <<i>>)
                \/ \E status, i, j : e = Ended(status, <<i, j>>)
         PROVE  \E status, items : e = Ended(status, items) /\ \E S : items \in Seq(S)
    BY <2>9, <2>10
  <2> HIDE DEF K
  <2> QED
    BY <2>2, <2>3, <2>4, <2>5, <2>6, <2>7, <2>8, <2>10
<1> QED
  BY <1>1, <1>2

\* What converters need of their state.
ConvOK(s) ==
    /\ bridge = <<"chat", "messages">> => ShownOK(s)
    /\ bridge = <<"gemini", "messages">> => "held" \in DOMAIN s
    /\ bridge = <<"responses", "messages">> => SlotsOK(s)

\* The events after which a converter tells the end.
LastEvent(e) ==
    \/ In = "messages" /\ e.e = "mstop"
    \/ In = "responses" /\ e.e = "end"
    \/ In = Out /\ IsLast(e)

\* New converters are in order.
LEMMA NewConverterOK == ConvOK(NewConverter(bridge))
<1>1. CASE bridge = <<"chat", "messages">>
  <2>1. NewConverter(bridge) = ChatToMessages!New
    BY <1>1 DEF NewConverter
  <2> DEFINE parts == ChatToMessages!Parts!New
  <2>2. parts = [started |-> parts.started, finish |-> parts.finish, parts |-> parts.parts, at |-> parts.at] /\ parts.parts = <<>>
    BY DEF ChatToMessages!Parts!New
  <2> HIDE DEF parts
  <2>3. PICK w : w = <<>>
    OBVIOUS
  <2>4. w \in Seq({})
    BY <2>3
  <2>5. PartsOK(parts)
    BY <2>2, <2>3, <2>4 DEF PartsOK
  <2>6. ChatToMessages!New.chat = parts /\ "chat" \in DOMAIN ChatToMessages!New
    BY DEF ChatToMessages!New, parts
  <2>7. ShownOK(ChatToMessages!New)
    BY <2>5, <2>6 DEF ShownOK
  <2> QED
    BY <1>1, <2>1, <2>7 DEF ConvOK
<1>2. CASE bridge = <<"gemini", "messages">>
  <2>1. NewConverter(bridge) = FromGemini!NewMessages
    BY <1>2 DEF NewConverter
  <2>2. "held" \in DOMAIN FromGemini!NewMessages
    BY DEF FromGemini!NewMessages
  <2> QED
    BY <1>2, <2>1, <2>2 DEF ConvOK
<1>3. CASE bridge = <<"responses", "messages">>
  <2>1. NewConverter(bridge) = ResponsesToMessages!New
    BY <1>3 DEF NewConverter
  <2> DEFINE n == ResponsesToMessages!New
  <2>2. "slots" \in DOMAIN n /\ n.slots = <<>>
    BY DEF ResponsesToMessages!New
  <2>3. DOMAIN n.slots = {}
    BY <2>2
  <2> HIDE DEF n
  <2>4. SlotsOK(n)
    BY <2>2, <2>3, FS_EmptySet DEF SlotsOK
  <2> QED
    BY <1>3, <2>1, <2>4 DEF ConvOK, n
<1> QED
  BY <1>1, <1>2, <1>3 DEF ConvOK

\* The protocols of a request.
LEMMA BridgeCases ==
  ASSUME bridge \in Bridges
  PROVE  /\ bridge = <<In, Out>>
         /\ In \in {"chat", "messages", "responses", "gemini"} /\ Out \in {"chat", "messages", "responses", "gemini"}
         /\ Out = "gemini" => In = "gemini"
BY BridgesAssumption DEF In, Out

\* Until the last event converters let no client go on, and they keep their
\* state in order.
LEMMA ConvertTells ==
  ASSUME bridge \in Bridges, NEW s, ConvOK(s), NEW e \in Frames
  PROVE  LET r == Convert(s, e) IN ConvOK(r.s) /\ (LastEvent(e) \/ Tells(Side, r))
<1> DEFINE r == Convert(s, e)
<1>0. /\ bridge = <<In, Out>>
      /\ In \in {"chat", "messages", "responses", "gemini"} /\ Out \in {"chat", "messages", "responses", "gemini"}
      /\ Out = "gemini" => In = "gemini"
  BY BridgeCases
<1>a. ASSUME NEW a, NEW b, In = a, Out = b PROVE bridge = <<a, b>> /\ (a # b => Side = b)
  BY <1>0, <1>a DEF Side
<1>b. \A x, y, z, t : <<x, y>> = <<z, t>> => x = z /\ y = t
  OBVIOUS
<1>1. CASE In = Out
  <2>1. r = Ok(s, <<e>>)
    BY <1>0, <1>1, <1>b DEF Convert
  <2>2. r.s = s
    BY <2>1 DEF Ok
  <2>3. ~LastEvent(e) => Quiet("native", e)
    BY <1>1 DEF LastEvent, Quiet
  <2>4. ~LastEvent(e) => Tells("native", Ok(s, <<e>>))
    BY <2>3, TellsBasics
  <2>5. Side = "native"
    BY <1>1 DEF Side
  <2> HIDE DEF r
  <2> QED
    BY <2>1, <2>2, <2>4, <2>5 DEF r
<1>2. CASE In = "chat" /\ Out = "responses"
  <2>1. bridge = <<"chat", "responses">> /\ Side = "responses"
    BY <1>a, <1>2
  <2>2. r = ChatToResponses!Observe(s, e)
    BY <2>1 DEF Convert
  <2>3. Tells("responses", r)
    BY <2>2, ChatResponsesTells
  <2>4. ConvOK(r.s)
    BY <2>1, <1>b DEF ConvOK
  <2> HIDE DEF r
  <2> QED
    BY <2>1, <2>3, <2>4 DEF r
<1>3. CASE In = "chat" /\ Out = "messages"
  <2>1. bridge = <<"chat", "messages">> /\ Side = "messages"
    BY <1>a, <1>3
  <2>2. r = ChatToMessages!Observe(s, e)
    BY <2>1 DEF Convert
  <2>3. ShownOK(s)
    BY <2>1 DEF ConvOK
  <2>4. Tells("messages", r) /\ ShownOK(r.s)
    BY <2>2, <2>3, ChatMessagesTells
  <2>5. ConvOK(r.s)
    BY <2>1, <2>4, <1>b DEF ConvOK
  <2> HIDE DEF r
  <2> QED
    BY <2>1, <2>4, <2>5 DEF r
<1>4. CASE In = "messages" /\ Out = "chat"
  <2>1. bridge = <<"messages", "chat">> /\ Side = "chat"
    BY <1>a, <1>4
  <2>2. r = MessagesToChat!Event(s, e)
    BY <2>1 DEF Convert
  <2>3. LastEvent(e) \/ Tells("chat", r)
    BY <1>4, <2>2, MessagesChatTells DEF LastEvent
  <2>4. ConvOK(r.s)
    BY <2>1, <1>b DEF ConvOK
  <2> HIDE DEF r
  <2> QED
    BY <2>1, <2>3, <2>4 DEF r
<1>5. CASE In = "messages" /\ Out = "responses"
  <2>1. bridge = <<"messages", "responses">> /\ Side = "responses"
    BY <1>a, <1>5
  <2>2. r = MessagesToResponses!Event(s, e)
    BY <2>1 DEF Convert
  <2>3. LastEvent(e) \/ Tells("responses", r)
    BY <1>5, <2>2, MessagesResponsesTells DEF LastEvent
  <2>4. ConvOK(r.s)
    BY <2>1, <1>b DEF ConvOK
  <2> HIDE DEF r
  <2> QED
    BY <2>1, <2>3, <2>4 DEF r
<1>6. CASE In = "gemini" /\ Out = "chat"
  <2>1. bridge = <<"gemini", "chat">> /\ Side = "chat"
    BY <1>a, <1>6
  <2>2. r = FromGemini!Observe(s, e)
    BY <2>1 DEF Convert
  <2>3. Tells("chat", r)
    BY <2>2, GeminiTells
  <2>4. ConvOK(r.s)
    BY <2>1, <1>b DEF ConvOK
  <2> HIDE DEF r
  <2> QED
    BY <2>1, <2>3, <2>4 DEF r
<1>7. CASE In = "gemini" /\ Out = "messages"
  <2>1. bridge = <<"gemini", "messages">> /\ Side = "messages"
    BY <1>a, <1>7
  <2>2. r = FromGemini!ObserveMessages(s, e)
    BY <2>1 DEF Convert
  <2>3. "held" \in DOMAIN s
    BY <2>1 DEF ConvOK
  <2>4. Tells("messages", r) /\ "held" \in DOMAIN r.s
    BY <2>2, <2>3, GeminiMessagesTells
  <2>5. ConvOK(r.s)
    BY <2>1, <2>4, <1>b DEF ConvOK
  <2> HIDE DEF r
  <2> QED
    BY <2>1, <2>4, <2>5 DEF r
<1>8. CASE In = "gemini" /\ Out = "responses"
  <2>1. bridge = <<"gemini", "responses">> /\ Side = "responses"
    BY <1>a, <1>8
  <2>2. r = GeminiToResponsesObserve(s, e)
    BY <2>1 DEF Convert
  <2>3. Tells("responses", r)
    BY <2>2, GeminiToResponsesTells
  <2>4. ConvOK(r.s)
    BY <2>1, <1>b DEF ConvOK
  <2> HIDE DEF r
  <2> QED
    BY <2>1, <2>3, <2>4 DEF r
<1>9. CASE In = "responses" /\ Out = "chat"
  <2>1. bridge = <<"responses", "chat">> /\ Side = "chat"
    BY <1>a, <1>9
  <2>2. r = ResponsesToChat!Event(s, e)
    BY <2>1 DEF Convert
  <2>3. LastEvent(e) \/ Tells("chat", r)
    BY <1>9, <2>2, ResponsesChatTells, FrameFacts DEF LastEvent
  <2>4. ConvOK(r.s)
    BY <2>1, <1>b DEF ConvOK
  <2> HIDE DEF r
  <2> QED
    BY <2>1, <2>3, <2>4 DEF r
<1>10. CASE In = "responses" /\ Out = "messages"
  <2>1. bridge = <<"responses", "messages">> /\ Side = "messages"
    BY <1>a, <1>10
  <2>2. r = ResponsesToMessages!Event(s, e)
    BY <2>1 DEF Convert
  <2>3. SlotsOK(s)
    BY <2>1 DEF ConvOK
  <2>4. SlotsOK(r.s) /\ (LastEvent(e) \/ Tells("messages", r))
    BY <1>10, <2>2, <2>3, ResponsesMessagesTells, FrameFacts DEF LastEvent
  <2>5. ConvOK(r.s)
    BY <2>1, <2>4, <1>b DEF ConvOK
  <2> HIDE DEF r
  <2> QED
    BY <2>1, <2>4, <2>5 DEF r
<1> QED
  BY <1>0, <1>1, <1>2, <1>3, <1>4, <1>5, <1>6, <1>7, <1>8, <1>9, <1>10

ObsOK(o) == "stopped" \in DOMAIN o

\* A frame of upstream's that may be the last is seen to be it.
LEMMA ObserveSees ==
  ASSUME bridge \in Bridges, NEW o, ObsOK(o), NEW e
  PROVE  LET seen == Observe(o, e) IN ObsOK(seen.s) /\ (LastEvent(e) /\ In # "chat" => seen.err \/ seen.s.stopped)
<1> DEFINE seen == Observe(o, e)
<1>0. In \in {"chat", "messages", "responses", "gemini"} /\ Out \in {"chat", "messages", "responses", "gemini"}
      /\ (Out = "gemini" => In = "gemini")
  BY BridgeCases
<1>1. \A s, w : Ok(s, w).s = s /\ Ok(s, w).err = FALSE /\ Refuse(s).s = s /\ Refuse(s).err = TRUE
  BY DEF Ok, Refuse
<1>2. CASE In = "chat"
  <2>1. seen = ObserveChat(o, e)
    BY <1>2 DEF Observe
  <2> DEFINE u == [o EXCEPT !.usage = @ \/ e.k = "usage",
                     !.seen = @ \/ e.k = "call" \/ (e.k \in {"text", "think", "refusal"} /\ e.n > 0) \/ e = ChatFinish("content_filter")]
  <2>2. seen = Refuse(o) \/ seen = Ok(u, <<>>)
    BY <2>1, Zenon DEF ObserveChat
  <2>3. DOMAIN u = DOMAIN o
    OBVIOUS
  <2> HIDE DEF u
  <2>4. DOMAIN seen.s = DOMAIN o
    BY <1>1, <2>2, <2>3
  <2> QED
    BY <1>2, <2>4 DEF ObsOK
<1>3. CASE In = "messages"
  <2>1. seen = ObserveMessages(o, e)
    BY <1>3 DEF Observe
  <2>2. \/ e.e # "mstop" /\ \E u : DOMAIN u = DOMAIN o /\ (seen = Refuse(u) \/ seen = Ok(u, <<>>))
        \/ e.e = "mstop" /\ \E u : DOMAIN u = DOMAIN o /\ seen = Refuse(u)
        \/ e.e = "mstop" /\ seen = Ok([o EXCEPT !.stopped = TRUE], <<>>)
    <3>1. CASE e.e = "bad"
      BY <2>1, <3>1 DEF ObserveMessages
    <3>2. CASE e.e = "start"
      <4> DEFINE u == [o EXCEPT !.started = TRUE, !.seen = FALSE, !.usage = @ \/ metered]
      <4>1. seen = Refuse(o) \/ seen = Ok(u, <<>>)
        BY <2>1, <3>2 DEF ObserveMessages
      <4>2. DOMAIN u = DOMAIN o
        OBVIOUS
      <4> HIDE DEF u
      <4> QED
        BY <3>2, <4>1, <4>2
    <3>3. CASE e.e \in {"bstart", "bdelta"}
      <4> DEFINE u == [o EXCEPT !.seen = TRUE]
      <4>1. seen = Ok(u, <<>>)
        BY <2>1, <3>3 DEF ObserveMessages
      <4>2. DOMAIN u = DOMAIN o
        OBVIOUS
      <4> HIDE DEF u
      <4> QED
        BY <3>3, <4>1, <4>2
    <3>4. CASE e.e = "mdelta"
      <4> DEFINE u == [o EXCEPT !.seen = @ \/ e.why = "refusal", !.usage = @ \/ metered]
      <4>1. seen = Refuse(o) \/ seen = Ok(u, <<>>)
        BY <2>1, <3>4 DEF ObserveMessages
      <4>2. DOMAIN u = DOMAIN o
        OBVIOUS
      <4> HIDE DEF u
      <4> QED
        BY <3>4, <4>1, <4>2
    <3>5. CASE e.e = "mstop"
      <4> DEFINE u == [o EXCEPT !.stopped = o.started]
      <4>1. seen = Refuse(u) \/ seen = Ok([o EXCEPT !.stopped = TRUE], <<>>)
        BY <2>1, <3>5 DEF ObserveMessages
      <4>2. DOMAIN u = DOMAIN o
        OBVIOUS
      <4> HIDE DEF u
      <4> QED
        BY <3>5, <4>1, <4>2
    <3>6. CASE ~(e.e \in {"bad", "start", "bstart", "bdelta", "mdelta", "mstop"})
      <4>1. seen = Ok(o, <<>>)
        BY <2>1, <3>6 DEF ObserveMessages
      <4> QED
        BY <3>6, <4>1
    <3> QED
      BY <3>1, <3>2, <3>3, <3>4, <3>5, <3>6
  <2>3. \A u : u = [o EXCEPT !.stopped = TRUE] => DOMAIN u = DOMAIN o /\ ("stopped" \in DOMAIN o => u.stopped)
    OBVIOUS
  <2> HIDE DEF seen
  <2>4. DOMAIN seen.s = DOMAIN o
    BY <1>1, <2>2, <2>3
  <2>5. e.e = "mstop" => seen.err \/ seen.s.stopped
    BY <1>1, <2>2, <2>3 DEF ObsOK
  <2>6. LastEvent(e) => e.e = "mstop"
    BY <1>3 DEF LastEvent, IsLast
  <2> QED
    BY <2>4, <2>5, <2>6 DEF ObsOK, seen
<1>4. CASE In = "responses"
  <2>1. seen = ObserveResponses(o, e)
    BY <1>4 DEF Observe
  <2> DEFINE ends == [o EXCEPT !.stopped = TRUE, !.usage = metered]
             fails == [o EXCEPT !.usage = metered]
             goes == [o EXCEPT !.stopped = FALSE]
  <2>2. \/ e.e # "end" /\ (seen = Refuse(o) \/ seen = Ok(goes, <<>>))
        \/ e.e = "end" /\ (seen = Refuse(fails) \/ seen = Ok(ends, <<>>))
    <3>1. CASE e.e = "bad"
      BY <2>1, <3>1 DEF ObserveResponses
    <3>2. CASE e.e = "end"
      BY <2>1, <3>2, Zenon DEF ObserveResponses
    <3>3. CASE ~(e.e \in {"bad", "end"})
      BY <2>1, <3>3 DEF ObserveResponses
    <3> QED
      BY <3>1, <3>2, <3>3
  <2>3. DOMAIN ends = DOMAIN o /\ DOMAIN fails = DOMAIN o /\ DOMAIN goes = DOMAIN o
    OBVIOUS
  <2>4. ends.stopped
    BY DEF ObsOK
  <2> HIDE DEF ends, fails, goes, seen
  <2>5. DOMAIN seen.s = DOMAIN o /\ (e.e = "end" => seen.err \/ seen.s.stopped)
    BY <1>1, <2>2, <2>3, <2>4
  <2>6. LastEvent(e) => e.e = "end"
    BY <1>4 DEF LastEvent, IsLast
  <2> QED
    BY <2>5, <2>6 DEF ObsOK, seen
<1>5. CASE In = "gemini"
  <2>1. seen = ObserveGemini(o, e)
    BY <1>5 DEF Observe
  <2> DEFINE u == [o EXCEPT !.stopped = @ \/ e.why # "", !.usage = metered]
  <2>2. seen = Refuse(o) \/ seen = Ok(u, <<>>)
    BY <2>1, Zenon DEF ObserveGemini
  <2>3. DOMAIN u = DOMAIN o /\ (e.why # "" => u.stopped)
    BY DEF ObsOK
  <2> HIDE DEF u, seen
  <2>4. DOMAIN seen.s = DOMAIN o /\ (e.why # "" => seen.err \/ seen.s.stopped)
    <3>1. CASE seen = Refuse(o)
      BY <1>1, <3>1
    <3>2. CASE seen = Ok(u, <<>>)
      <4>1. seen.s = u
        BY <1>1, <3>2
      <4> QED
        BY <2>3, <4>1
    <3> QED
      BY <2>2, <3>1, <3>2
  <2>5. LastEvent(e) => e.why # ""
    BY <1>5 DEF LastEvent, IsLast
  <2> QED
    BY <2>4, <2>5 DEF ObsOK, seen
<1> QED
  BY <1>0, <1>2, <1>3, <1>4, <1>5

\* While a stream is read nothing that lets its client go on is written.
LEMMA EmittedQuiet ==
  ASSUME bridge \in Bridges, ConvOK(conv), ObsOK(obs), NEW e \in Frames
  PROVE  LET f == Emit(e) IN QuietWire(Side, f.now) /\ ObsOK(f.obs) /\ (f.err \/ f.done \/ ConvOK(f.conv))
<1> DEFINE seen == Observe(obs, e)
           told == Convert(conv, e)
           last == FinishConverter(conv)
           f == Emitted(e, seen, told, last)
<1>1. ObsOK(seen.s) /\ (LastEvent(e) /\ In # "chat" => seen.err \/ seen.s.stopped)
  BY ObserveSees
<1>2. ConvOK(told.s) /\ (LastEvent(e) \/ Tells(Side, told))
  BY ConvertTells
<1>3. LastEvent(e) /\ In = "chat" => e = ChatDone
  BY FrameFacts DEF LastEvent, IsLast
<1>4. LastEvent(e) => bridge # <<"gemini", "responses">>
  BY BridgeCases DEF LastEvent
<1>5. QuietWire(Side, <<>>)
  BY QuietFew
<1>6. Tells(Side, told) => QuietWire(Side, told.wire)
  BY DEF Tells
<1> HIDE DEF seen, told, last
<1>8. CASE In = "chat" /\ e = ChatDone
  <2>1. f = Frame(obs, conv, <<>>, held, FALSE, TRUE) \/ f = Frame(obs, last.s, <<>>, last.wire, TRUE, FALSE)
    BY <1>8, Zenon DEF Emitted
  <2> HIDE DEF f
  <2>2. f.now = <<>> /\ f.obs = obs /\ (f.err \/ f.done)
    BY <2>1 DEF Frame
  <2> QED
    BY <1>5, <2>2 DEF f, seen, told, last, Emit
<1>9. CASE ~(In = "chat" /\ e = ChatDone) /\ (seen.err \/ told.err)
  <2>1. f = Frame(seen.s, conv, <<>>, held, FALSE, TRUE)
    BY <1>9, Zenon DEF Emitted
  <2> HIDE DEF f
  <2>2. f.now = <<>> /\ f.obs = seen.s /\ f.err
    BY <2>1 DEF Frame
  <2>3. QuietWire(Side, f.now) /\ ObsOK(f.obs) /\ f.err
    BY <1>1, <1>5, <2>2
  <2> QED
    BY <2>3 DEF f, seen, told, last, Emit
<1> DEFINE holds == In # "chat" /\ bridge # <<"gemini", "responses">> /\ told.wire # <<>> /\ (seen.s.stopped \/ held # <<>>)
<1>10. CASE ~(In = "chat" /\ e = ChatDone) /\ ~(seen.err \/ told.err) /\ holds
  <2>1. \E x, y, z : f = Frame(seen.s, told.s, <<>>, x, y, z)
    BY <1>10, Zenon DEF Emitted
  <2> HIDE DEF f
  <2>2. f.now = <<>> /\ f.obs = seen.s /\ f.conv = told.s
    BY <2>1 DEF Frame
  <2>3. QuietWire(Side, f.now) /\ ObsOK(f.obs) /\ ConvOK(f.conv)
    BY <1>1, <1>2, <1>5, <2>2
  <2> QED
    BY <2>3 DEF f, seen, told, last, Emit
<1>11. CASE ~(In = "chat" /\ e = ChatDone) /\ ~(seen.err \/ told.err) /\ ~holds
  <2>1. f = Frame(seen.s, told.s, told.wire, held, FALSE, FALSE)
    BY <1>11, Zenon DEF Emitted
  <2>2. QuietWire(Side, told.wire)
    <3>1. CASE LastEvent(e)
      <4>1. told.wire = <<>>
        BY <1>1, <1>3, <1>4, <1>11, <3>1
      <4> QED
        BY <1>5, <4>1
    <3> QED
      BY <1>2, <1>6, <3>1
  <2> HIDE DEF f, holds
  <2>3. f.now = told.wire /\ f.obs = seen.s /\ f.conv = told.s
    BY <2>1 DEF Frame
  <2>4. QuietWire(Side, f.now) /\ ObsOK(f.obs) /\ ConvOK(f.conv)
    BY <1>1, <1>2, <2>2, <2>3
  <2> QED
    BY <2>4 DEF f, seen, told, last, Emit
<1> QED
  BY <1>8, <1>9, <1>10, <1>11

\* Before settlement the client has read nothing that lets it go on.
StreamInv ==
    /\ bridge \in Bridges
    /\ pc \in {"reading", "settling", "binding", "returned"}
    /\ pc \in {"reading", "settling"} => paid = FALSE
    /\ pc = "binding" => paid = TRUE
    /\ paid \in BOOLEAN
    /\ ~paid => Unpaid(client)
    /\ pc = "reading" => ConvOK(conv) /\ ObsOK(obs)

\* A stream starts so.
LEMMA StreamInit == Init => StreamInv
<1> SUFFICES ASSUME Init PROVE StreamInv
  OBVIOUS
<1>1. ConvOK(conv)
  BY NewConverterOK DEF Init
<1>2. ObsOK(obs)
  BY DEF Init, NewObservation, ObsOK
<1>3. Unpaid(client)
  <2> DEFINE n == NewClient
  <2>1. "ended" \in DOMAIN n /\ n.ended = FALSE /\ "said" \in DOMAIN n /\ n.said = <<>>
    BY DEF NewClient
  <2>2. DOMAIN n.said = {}
    BY <2>1
  <2> HIDE DEF n
  <2>3. Unpaid(n)
    BY <2>1, <2>2 DEF Unpaid
  <2> QED
    BY <2>3 DEF Init, n
<1> QED
  BY <1>1, <1>2, <1>3 DEF Init, StreamInv

\* What holds of a state without variables holds of the next one.
LEMMA UnpaidNext ==
  ASSUME bridge' = bridge, NEW x, Unpaid(x), client' = x
  PROVE  Unpaid(client)'
BY DEF Unpaid, In, Out

\* No step breaks it.
LEMMA StreamStep == StreamInv /\ [Next]_vars => StreamInv'
<1> SUFFICES ASSUME StreamInv, [Next]_vars PROVE StreamInv'
  OBVIOUS
<1>1. ASSUME NEW e \in Frames, Receive(e) PROVE StreamInv'
  <2> DEFINE f == Emit(e)
  <2>1. /\ pc = "reading" /\ paid' = paid /\ bridge' = bridge
        /\ obs' = f.obs
        /\ (client' = Read(client, f.now) /\ err' = f.err) \/ (client' = client /\ err' = TRUE)
        /\ err' \/ conv' = f.conv
        /\ pc' = IF err' \/ f.done THEN "settling" ELSE "reading"
    <3>1. /\ pc = "reading" /\ UNCHANGED <<bridge, metered, paid>>
          /\ obs' = f.obs
          /\ \/ client' = Read(client, f.now) /\ err' = f.err /\ verdict' = verdict
             \/ f.now # <<>> /\ client' = client /\ err' = TRUE /\ verdict' = "gone"
          /\ IF err' THEN Forget ELSE conv' = f.conv /\ held' = f.held /\ said' = Says(said, e)
          /\ pc' = IF err' \/ f.done THEN "settling" ELSE "reading"
      BY <1>1, Zenon DEF Receive
    <3> HIDE DEF f
    <3>2. err' \/ conv' = f.conv
      BY <3>1, Zenon
    <3>3. (client' = Read(client, f.now) /\ err' = f.err) \/ (client' = client /\ err' = TRUE)
      BY <3>1, Zenon
    <3>4. paid' = paid /\ bridge' = bridge
      BY <3>1
    <3> QED
      BY <3>1, <3>2, <3>3, <3>4, Zenon
  <2>2. paid = FALSE /\ bridge \in Bridges /\ Unpaid(client) /\ ConvOK(conv) /\ ObsOK(obs)
    BY <2>1 DEF StreamInv
  <2>3. QuietWire(Side, f.now) /\ ObsOK(f.obs) /\ (f.err \/ f.done \/ ConvOK(f.conv))
    BY <2>2, EmittedQuiet
  <2> HIDE DEF f
  <2>4. Unpaid(Read(client, f.now))
    BY <2>2, <2>3, ReadQuiet
  <2>5. Unpaid(client)'
    BY <2>1, <2>2, <2>4, UnpaidNext
  <2>6. pc' = "reading" => ~err' /\ ~f.done
    BY <2>1
  <2>7. pc' = "reading" => ConvOK(conv)' /\ ObsOK(obs)'
    <3> SUFFICES ASSUME pc' = "reading" PROVE ConvOK(conv)' /\ ObsOK(obs)'
      OBVIOUS
    <3>1. ConvOK(f.conv) /\ conv' = f.conv
      BY <2>1, <2>3, <2>6
    <3>2. ConvOK(conv)'
      BY <2>1, <3>1 DEF ConvOK
    <3> QED
      BY <2>1, <2>3, <3>2 DEF ObsOK
  <2> QED
    BY <2>1, <2>2, <2>5, <2>7 DEF StreamInv
<1>2. CASE EndOfStream
  <2>1. pc = "reading" /\ pc' = "settling" /\ paid' = paid /\ bridge' = bridge /\ client' = client
    BY <1>2, Zenon DEF EndOfStream
  <2>2. paid = FALSE /\ bridge \in Bridges /\ Unpaid(client)
    BY <2>1 DEF StreamInv
  <2>3. Unpaid(client)'
    BY <2>1, <2>2, UnpaidNext
  <2> QED
    BY <2>1, <2>2, <2>3 DEF StreamInv
<1>3. CASE ReadFails
  <2>1. pc = "reading" /\ pc' = "settling" /\ paid' = paid /\ bridge' = bridge /\ client' = client
    BY <1>3 DEF ReadFails
  <2>2. paid = FALSE /\ bridge \in Bridges /\ Unpaid(client)
    BY <2>1 DEF StreamInv
  <2>3. Unpaid(client)'
    BY <2>1, <2>2, UnpaidNext
  <2> QED
    BY <2>1, <2>2, <2>3 DEF StreamInv
<1>4. CASE Settle
  <2>1. /\ pc = "settling" /\ client' = client /\ bridge' = bridge /\ paid' \in BOOLEAN
        /\ pc' = "returned" \/ (pc' = "binding" /\ paid')
    BY <1>4, Zenon DEF Settle, Fail
  <2>2. paid = FALSE /\ bridge \in Bridges /\ Unpaid(client)
    BY <2>1 DEF StreamInv
  <2>3. Unpaid(client)'
    BY <2>1, <2>2, UnpaidNext
  <2>4. pc' = "binding" => paid' = TRUE
    BY <2>1
  <2> QED
    BY <2>1, <2>2, <2>3, <2>4 DEF StreamInv
<1>5. CASE Deliver
  <2>1. pc = "binding" /\ pc' = "returned" /\ paid' = paid /\ bridge' = bridge
    BY <1>5 DEF Deliver, Fail
  <2>2. paid = TRUE /\ bridge \in Bridges
    BY <2>1 DEF StreamInv
  <2> QED
    BY <2>1, <2>2 DEF StreamInv
<1>6. CASE UNCHANGED vars
  <2>1. pc' = pc /\ paid' = paid /\ bridge' = bridge /\ client' = client /\ conv' = conv /\ obs' = obs
    BY <1>6 DEF vars
  <2>2. ~paid => Unpaid(client)'
    BY <2>1, UnpaidNext DEF StreamInv
  <2>3. ConvOK(conv) => ConvOK(conv)'
    BY <2>1 DEF ConvOK
  <2> QED
    BY <2>1, <2>2, <2>3 DEF StreamInv, ObsOK
<1> QED
  BY <1>1, <1>2, <1>3, <1>4, <1>5, <1>6 DEF Next, Done

\* Whatever upstream sends, and wherever the stream breaks off, no client has
\* read the end of a stream, and no client of Messages a call converted for it,
\* before the request was settled.
THEOREM EndsArePaid == Spec => []SettledBeforeEnd
<1>1. StreamInv => SettledBeforeEnd
  <2> SUFFICES ASSUME StreamInv, ~paid PROVE SettledBeforeEnd
    BY DEF SettledBeforeEnd, EndIsPaid, CallsWaitForSettlement
  <2>1. Unpaid(client)
    BY DEF StreamInv
  <2>2. ~client.ended
    BY <2>1 DEF Unpaid
  <2>3. Out = "messages" /\ In # "messages" => Calls(client.said) = {}
    BY <2>1 DEF Unpaid, Calls
  <2> QED
    BY <2>2, <2>3 DEF SettledBeforeEnd, EndIsPaid, CallsWaitForSettlement
<1> QED
  BY <1>1, StreamInit, StreamStep, PTL DEF Spec
=============================================================================
