---------------------------- MODULE GatewayStream ----------------------------
(***************************************************************************)
(* A streamed text request from the first byte of upstream's answer to the *)
(* last byte the client gets: the streaming half of textGateway            *)
(* (internal/app/gateway.go) with the observers of text_protocol.go,       *)
(* text_result.go and responses.go and the converter between upstream's    *)
(* protocol and the client's.  Upstream may break its protocol, stop or    *)
(* fall silent at any point, and the client may leave.                     *)
(***************************************************************************)
EXTENDS StreamWire

CONSTANTS
    Bridges,    \* pairs <<upstream's protocol, the client's protocol>>
    FrameLimit, \* how many events are held for the client at most
    Places,     \* bound: places in a response upstream uses
    MaxContents, \* bound: texts, thoughts and calls upstream says
    MaxSaid,    \* bound: fragments and parts in what upstream says
    MaxNative   \* the same where nothing is converted

\* Only accounts of Gemini serve clients of Gemini.
ASSUME BridgesAssumption ==
    /\ Bridges \subseteq ({"chat", "messages", "responses", "gemini"} \X {"chat", "messages", "responses", "gemini"})
    /\ \A b \in Bridges : b[2] = "gemini" => b[1] = "gemini"

VARIABLES
    bridge,     \* the protocols of this request
    metered,    \* whether upstream reports usage where its protocol does; a
                \* Chat stream has an event for it
    obs,        \* textObservation
    conv,       \* the converter's state
    held,       \* terminal: what the client gets after settlement
    said,       \* all that upstream has said
    client,     \* what the client has read
    pc,         \* "reading", "settling", "binding" or "returned"
    err,        \* forwardErr is set
    paid,       \* the receipt is saved
    verdict     \* what ended the stream for the client: "", "end", "error" or "gone"

vars == <<bridge, metered, obs, conv, held, said, client, pc, err, paid, verdict>>

In == bridge[1]
Out == bridge[2]

ChatToResponses == INSTANCE ChatResponses
ChatToMessages == INSTANCE ChatMessages
MessagesToChat == INSTANCE AnthropicChat
MessagesToResponses == INSTANCE AnthropicResponses
FromGemini == INSTANCE Gemini
ResponsesToChat == INSTANCE ResponsesChat
ResponsesToMessages == INSTANCE ResponsesMessages

\* responsesGeminiStream (responses_gemini.go): the Chat stream that a Gemini
\* stream becomes is told to a Responses client.
GeminiToResponsesNew == [native |-> FromGemini!New(FALSE, FALSE), out |-> ChatToResponses!New]

\* The role is a chunk with empty content; the end marker is not passed on.
FeedChat(out, wire) ==
    FoldLeft(LAMBDA r, c : IF c = ChatDone THEN r ELSE Then(r, LAMBDA t : ChatToResponses!Observe(t, c)),
             Ok(out, <<>>), wire)

GeminiToResponsesObserve(s, c) ==
    LET native == FromGemini!Observe(s.native, c)
        fed == FeedChat(s.out, native.wire)
    IN IF native.err \/ fed.err THEN Refuse(s) ELSE Ok([native |-> native.s, out |-> fed.s], fed.wire)

GeminiToResponsesFinish(s) ==
    LET native == FromGemini!Finish(s.native)
        fed == Then(FeedChat(s.out, native.wire), LAMBDA t : ChatToResponses!Finish(t))
    IN IF native.err \/ fed.err THEN Refuse(s) ELSE Ok([s EXCEPT !.out = fed.s], fed.wire)

NewConverter(b) ==
    CASE b = <<"chat", "responses">> -> ChatToResponses!New
      [] b = <<"chat", "messages">> -> ChatToMessages!New
      [] b = <<"messages", "chat">> -> MessagesToChat!New(TRUE)
      [] b = <<"messages", "responses">> -> MessagesToResponses!New
      [] b = <<"gemini", "chat">> -> FromGemini!New(FALSE, TRUE)
      [] b = <<"gemini", "messages">> -> FromGemini!NewMessages
      [] b = <<"gemini", "responses">> -> GeminiToResponsesNew
      [] b = <<"responses", "chat">> -> ResponsesToChat!New
      [] b = <<"responses", "messages">> -> ResponsesToMessages!New
      [] OTHER -> [native |-> TRUE]

\* A request in upstream's own protocol gets upstream's frames.
Convert(s, e) ==
    CASE bridge = <<"chat", "responses">> -> ChatToResponses!Observe(s, e)
      [] bridge = <<"chat", "messages">> -> ChatToMessages!Observe(s, e)
      [] bridge = <<"messages", "chat">> -> MessagesToChat!Event(s, e)
      [] bridge = <<"messages", "responses">> -> MessagesToResponses!Event(s, e)
      [] bridge = <<"gemini", "chat">> -> FromGemini!Observe(s, e)
      [] bridge = <<"gemini", "messages">> -> FromGemini!ObserveMessages(s, e)
      [] bridge = <<"gemini", "responses">> -> GeminiToResponsesObserve(s, e)
      [] bridge = <<"responses", "chat">> -> ResponsesToChat!Event(s, e)
      [] bridge = <<"responses", "messages">> -> ResponsesToMessages!Event(s, e)
      [] OTHER -> Ok(s, <<e>>)

\* The converters that do not see the end of the stream as an event.
FinishConverter(s) ==
    CASE bridge = <<"chat", "responses">> -> ChatToResponses!Finish(s)
      [] bridge = <<"chat", "messages">> -> ChatToMessages!Finish(s)
      [] bridge = <<"gemini", "chat">> -> FromGemini!Finish(s)
      [] bridge = <<"gemini", "messages">> -> FromGemini!FinishMessages(s)
      [] bridge = <<"gemini", "responses">> -> GeminiToResponsesFinish(s)
      [] bridge = <<"chat", "chat">> -> Ok(s, <<ChatDone>>)
      [] OTHER -> Ok(s, <<>>)

-----------------------------------------------------------------------------
(* The observers: has the stream started and stopped, was there a result   *)
(* and usage                                                               *)

NewObservation == [started |-> FALSE, stopped |-> FALSE, seen |-> FALSE, usage |-> FALSE]

ObserveChat(o, c) ==
    IF c.k = "bad" THEN Refuse(o)
    ELSE Ok([o EXCEPT !.usage = @ \/ c.k = "usage",
                      !.seen = @ \/ c.k = "call" \/ (c.k \in {"text", "think", "refusal"} /\ c.n > 0) \/ c = ChatFinish("content_filter")],
            <<>>)

ObserveMessages(o, e) ==
    CASE e.e = "bad" -> Refuse(o)
      [] e.e = "start" -> IF o.started THEN Refuse(o)
                          ELSE Ok([o EXCEPT !.started = TRUE, !.seen = FALSE, !.usage = @ \/ metered], <<>>)
      [] e.e \in {"bstart", "bdelta"} -> Ok([o EXCEPT !.seen = TRUE], <<>>)
      [] e.e = "mdelta" -> IF ~o.started THEN Refuse(o)
                           ELSE Ok([o EXCEPT !.seen = @ \/ e.why = "refusal", !.usage = @ \/ metered], <<>>)
      [] e.e = "mstop" -> IF ~o.started \/ ~o.seen THEN Refuse([o EXCEPT !.stopped = o.started])
                          ELSE Ok([o EXCEPT !.stopped = TRUE], <<>>)
      [] OTHER -> Ok(o, <<>>)

\* Usage is read before a failure is noticed.
ObserveResponses(o, e) ==
    CASE e.e = "bad" -> Refuse(o)
      [] e.e = "end" -> IF e.status = "failed" THEN Refuse([o EXCEPT !.usage = metered])
                        ELSE Ok([o EXCEPT !.stopped = TRUE, !.usage = metered], <<>>)
      [] OTHER -> Ok([o EXCEPT !.stopped = FALSE], <<>>)

\* complete: the candidate has a finish reason, or the prompt was blocked.
ObserveGemini(o, c) ==
    IF c.p = "bad" THEN Refuse(o)
    ELSE Ok([o EXCEPT !.stopped = @ \/ c.why # "", !.usage = metered], <<>>)

Observe(o, e) ==
    CASE In = "chat" -> ObserveChat(o, e)
      [] In = "messages" -> ObserveMessages(o, e)
      [] In = "responses" -> ObserveResponses(o, e)
      [] In = "gemini" -> ObserveGemini(o, e)

Says(s, e) ==
    CASE In = "chat" -> SaysChat(s, e)
      [] In = "messages" -> SaysMessages(s, e)
      [] In = "responses" -> SaysResponses(s, e)
      [] In = "gemini" -> SaysGemini(s, e)

IsLast(e) ==
    CASE In = "chat" -> e.k = "done"
      [] In = "messages" -> e.e = "mstop"
      [] In = "responses" -> e.e = "end"
      [] In = "gemini" -> e.why # ""

\* The client reads a wire; without a converter it reads upstream's frames.
ReadEvent(d, e) ==
    CASE d.bad -> d
      [] ~d.bad /\ In = Out -> [d EXCEPT !.said = Says(@, e), !.ended = @ \/ IsLast(e)]
      [] ~d.bad /\ In # Out /\ Out = "chat" -> ReadChat(d, e)
      [] ~d.bad /\ In # Out /\ Out = "messages" -> ReadMessages(d, e)
      [] ~d.bad /\ In # Out /\ Out = "responses" -> ReadResponses(d, e)

Read(c, wire) == FoldLeft(ReadEvent, c, wire)

-----------------------------------------------------------------------------
(* The stream                                                              *)

Init ==
    /\ bridge \in Bridges
    /\ metered \in (IF bridge[1] = "chat" THEN {FALSE} ELSE BOOLEAN)
    /\ obs = NewObservation
    /\ conv = NewConverter(bridge)
    /\ held = <<>> /\ said = <<>>
    /\ client = NewClient
    /\ pc = "reading"
    /\ err = FALSE /\ paid = FALSE
    /\ verdict = ""

\* What emit does with a frame: the observation, the converter, what is
\* written and what is held, whether it was the last, or an error.
Frame(o, s, now, later, done, bad) ==
    [obs |-> o, conv |-> s, now |-> now, held |-> later, done |-> done, err |-> bad]

\* The end of a Chat stream needs a result.  Any other complete stream is
\* held; a Gemini stream goes on to its end.  What the observer saw, what the
\* converter told and the converter's last words are given.
Emitted(e, seen, told, last) ==
    IF In = "chat" /\ e = ChatDone
    THEN IF ~obs.seen \/ last.err THEN Frame(obs, conv, <<>>, held, FALSE, TRUE)
         ELSE Frame(obs, last.s, <<>>, last.wire, TRUE, FALSE)
    ELSE IF seen.err \/ told.err THEN Frame(seen.s, conv, <<>>, held, FALSE, TRUE)
    ELSE IF In # "chat" /\ bridge # <<"gemini", "responses">> /\ told.wire # <<>> /\ (seen.s.stopped \/ held # <<>>)
    THEN Frame(seen.s, told.s, <<>>, held \o told.wire, In \in {"messages", "responses"},
               Len(held \o told.wire) > FrameLimit)
    ELSE Frame(seen.s, told.s, told.wire, held, FALSE, FALSE)

Emit(e) == Emitted(e, Observe(obs, e), Convert(conv, e), FinishConverter(conv))

Weight(s) == MapThenSumSet(LAMBDA k : s[k].n + 1, DOMAIN s)

\* After an error only the usage matters.
Forget == conv' = NewConverter(bridge) /\ held' = <<>> /\ said' = <<>>

\* A frame arrives; the client is there to take what is written, or gone.
Receive(e) ==
    /\ pc = "reading"
    /\ Cardinality(DOMAIN Says(said, e)) <= MaxContents
    /\ Weight(Says(said, e)) <= (IF In = Out THEN MaxNative ELSE MaxSaid)
    /\ \E f \in {Emit(e)} :
       /\ obs' = f.obs
       /\ \/ client' = Read(client, f.now) /\ err' = f.err /\ verdict' = verdict
          \/ f.now # <<>> /\ client' = client /\ err' = TRUE /\ verdict' = "gone"
       /\ IF err' THEN Forget ELSE conv' = f.conv /\ held' = f.held /\ said' = Says(said, e)
       /\ pc' = IF err' \/ f.done THEN "settling" ELSE "reading"
       /\ UNCHANGED <<bridge, metered, paid>>

\* Upstream closes the stream: only Gemini streams end this way.
EndOfStream ==
    /\ pc = "reading"
    /\ \E last \in {FinishConverter(conv)} :
       /\ err' = ~(In = "gemini" /\ obs.stopped /\ ~last.err)
       /\ IF err' THEN Forget ELSE conv' = last.s /\ held' = held \o last.wire /\ UNCHANGED said
    /\ pc' = "settling"
    /\ UNCHANGED <<bridge, metered, obs, client, paid, verdict>>

\* The connection breaks, a frame is too long, or nothing comes within the
\* stream's data interval.
ReadFails ==
    /\ pc = "reading"
    /\ err' = TRUE
    /\ Forget
    /\ pc' = "settling"
    /\ UNCHANGED <<bridge, metered, obs, client, paid, verdict>>

\* fail: an error instead of a status, or as the last event.
Fail ==
    /\ pc' = "returned"
    /\ verdict' = IF verdict = "gone" THEN "gone" ELSE "error"
    /\ UNCHANGED client

\* Known usage is settled, after an error too; it is an error when usage is
\* unknown, and when the receipt cannot be saved.
Settle ==
    /\ pc = "settling"
    /\ paid' \in (IF obs.usage THEN BOOLEAN ELSE {FALSE})
    /\ err' = (err \/ ~paid')
    /\ IF err' THEN Fail ELSE pc' = "binding" /\ UNCHANGED <<client, verdict>>
    /\ UNCHANGED <<bridge, metered, obs, conv, held, said>>

\* A stored response is bound to its account before the client learns its
\* end; then the client gets what was held.
Deliver ==
    /\ pc = "binding"
    /\ \/ Out = "responses" /\ Fail
       \/ pc' = "returned" /\ client' = Read(client, held) /\ verdict' = "end"
       \/ pc' = "returned" /\ client' = client /\ verdict' = "gone"
    /\ UNCHANGED <<bridge, metered, obs, conv, held, said, err, paid>>

-----------------------------------------------------------------------------
(* What upstream sends, well-formed or not                                 *)

Bad == [k |-> "bad", e |-> "bad", p |-> "bad", why |-> ""]

ChatFrames ==
    {ChatRole, ChatUsage, ChatDone, Bad}
    \cup {ChatText(kind, 1) : kind \in {"text", "think", "refusal"}}
    \cup {ChatFinish(why) : why \in {"stop", "tool_calls", "length", "content_filter", "odd"}}
    \cup {ChatCall(w[1] - 1, w[2][1], w[2][2], w[3]) :
            w \in Places \X {<<"", "">>, <<"a", "">>, <<"", "f">>, <<"a", "f">>, <<"b", "f">>, <<"b", "custom">>, <<"b", "tool_search">>} \X (0..1)}

MessagesFrames ==
    {MessageStart, MessageStop, Bad, [e |-> "ping"]}
    \cup {BlockStart(at, kind, "", "", n) : at \in Places, kind \in {"text", "think", "redacted"}, n \in 0..1}
    \cup {BlockStart(at, "tool", id, name, n) : at \in Places, id \in {"a", "b"}, name \in {"f", "custom"}, n \in {0, 2}}
    \cup {BlockDelta(at, kind, 1) : at \in Places, kind \in {"text", "think", "tool", "signature", "other"}}
    \cup {BlockStop(at) : at \in Places}
    \cup {MessageDelta(why) : why \in {"", "end_turn", "tool_use", "max_tokens", "refusal", "odd"}}

GeminiFrames ==
    {[p |-> w[1], id |-> "", name |-> "", n |-> w[2], signed |-> w[3], why |-> why] :
       w \in {<<"none", 0, FALSE>>, <<"text", 1, FALSE>>, <<"text", 0, TRUE>>, <<"text", 1, TRUE>>,
              <<"image", 1, FALSE>>, <<"think", 1, FALSE>>, <<"signature", 0, TRUE>>},
       why \in {"", "STOP", "MAX_TOKENS", "SAFETY", "odd"}}
    \cup {[p |-> "none", id |-> "", name |-> "", n |-> 0, signed |-> FALSE, why |-> "BLOCK"], Bad}
    \cup {[p |-> "tool", id |-> id, name |-> name, n |-> n, signed |-> FALSE, why |-> why] :
            id \in {"a", "b"}, name \in {"f", "custom"}, n \in 0..2, why \in {"", "STOP"}}

\* Upstream repeats what it has said, or changes it.
Told(kind, at) == {Entry(said, <<kind, at>>).n, Entry(said, <<kind, at>>).n + 1}
ItemsAt(at) ==
    {[kind |-> w[1], id |-> "", n |-> w[2]] : w \in {"text", "think"} \X UNION {Told(k, at) : k \in {"text", "think"}}}
    \cup {[kind |-> "tool", id |-> w[1], n |-> w[2]] : w \in {"a", "b"} \X Told("tool", at)}

ResponsesFrames ==
    {Created, Bad, Ended("failed", <<>>), [e |-> "other"]}
    \cup {ItemAdded(w[1], w[2], "") : w \in Places \X {"text", "think"}}
    \cup {ItemAdded(w[1], "tool", w[2]) : w \in Places \X {"a", "b"}}
    \cup {Delta(w[1], w[2], 1) : w \in Places \X {"text", "think", "tool"}}
    \cup (UNION {{TextDone(w[1], w[2], n) : n \in Told(w[2], w[1]) \cup {0}} : w \in Places \X {"text", "think", "tool"}})
    \cup (UNION {{ItemDone(at, i.kind, i.id, i.n) : i \in ItemsAt(at)} : at \in Places})
    \cup {Ended(status, <<>>) : status \in {"completed", "length"}}
    \cup {Ended(w[1], <<w[2]>>) : w \in {"completed", "content_filter", "odd"} \X ItemsAt(1)}
    \cup {Ended("completed", <<w[1], w[2]>>) : w \in ItemsAt(1) \X ItemsAt(2)}

Frames ==
    CASE In = "chat" -> ChatFrames
      [] In = "messages" -> MessagesFrames
      [] In = "gemini" -> GeminiFrames
      [] In = "responses" -> ResponsesFrames

Done == pc = "returned" /\ UNCHANGED vars

Next ==
    \/ \E e \in Frames : Receive(e)
    \/ EndOfStream
    \/ ReadFails
    \/ Settle
    \/ Deliver
    \/ Done

Spec == Init /\ [][Next]_vars

-----------------------------------------------------------------------------
(* Properties                                                              *)

\* Whatever upstream does, and however far the stream gets, what a converter
\* writes is a well-formed beginning of a stream of the client's protocol:
\* every event has a place it may have, calls are announced before their
\* arguments, and the closing events repeat exactly what was streamed.
StreamsWellFormed == ~client.bad

\* A stream that upstream reports usage for is paid before the client sees
\* its end: nobody gets a complete answer for nothing.
EndIsPaid == client.ended => paid

\* With a Messages client, no call to a tool is shown, and so none is made,
\* before the request is settled, unless upstream speaks Messages itself.
CallsWaitForSettlement == Out = "messages" /\ In # "messages" /\ Calls(client.said) # {} => paid

\* A client that got the end of the stream got all that upstream said: the
\* text, the thoughts and each call with all of its arguments.
ContentComplete == client.ended => SameContent(said, client.said)

\* When the handler returns, a client that is still there was told how the
\* stream ended: it has read the end of the stream, or an error and no end.
OneVerdict ==
    pc = "returned" => (verdict = "end" <=> client.ended) /\ verdict \in {"end", "error", "gone"}

\* What a client has read is a prefix of a well formed stream of its protocol;
\* if it read the end, it read all that upstream said and its calls are
\* complete; and it is told once how the stream ended.
StreamFaithful == StreamsWellFormed /\ ContentComplete /\ OneVerdict

\* Nothing that lets a client go on, the end of a stream or a tool call to act
\* upon, is sent before the request is settled.
SettledBeforeEnd == EndIsPaid /\ CallsWaitForSettlement
=============================================================================
