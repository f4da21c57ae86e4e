------------------------------ MODULE MCStreams ------------------------------
(***************************************************************************)
(* Instances for TLC of the answer to one request: how it is converted     *)
(* (GatewayStream), what it costs (Pricing), the searches that answer in a *)
(* provider's place (SearchQuota), and what failures make of the account   *)
(* that was asked (AccountHealth).  A behaviour is one of a single         *)
(* component.                                                              *)
(***************************************************************************)
EXTENDS GatewayStream, Pricing, SearchQuota, AccountHealth

VARIABLE focus

MCBridges ==
    {<<"chat", "responses">>, <<"chat", "messages">>, <<"messages", "chat">>, <<"messages", "responses">>,
     <<"gemini", "chat">>, <<"gemini", "messages">>, <<"gemini", "responses">>,
     <<"responses", "chat">>, <<"responses", "messages">>,
     <<"chat", "chat">>, <<"messages", "messages">>, <<"responses", "responses">>, <<"gemini", "gemini">>}

\* "md" is a dated name of the model "m".
MCNames(model) == IF model = "md" THEN <<"md", "m">> ELSE <<model>>

Tier(min, max, in, write, hour, factor) ==
    [min |-> min, max |-> max, in |-> in, write |-> write, hour |-> hour, each |-> NoPrice, factor |-> factor]
Card(pattern, in, write, hour, tiers, periods) ==
    [mode |-> "token", platform |-> "p", pattern |-> pattern, in |-> in, write |-> write, hour |-> hour,
     each |-> NoPrice, tiers |-> tiers, periods |-> periods]
PerRequest(pattern, each, tiers) ==
    [Card(pattern, NoPrice, NoPrice, NoPrice, tiers, <<>>) EXCEPT !.mode = "request", !.each = each]
Reference(platform, name, card) == [platform |-> platform, name |-> name, card |-> card]

Ladder == <<Tier(0, 2, NoPrice, NoPrice, NoPrice, 1), Tier(2, NoMax, NoPrice, NoPrice, NoPrice, 2)>>

MCFiles ==
    {{Reference("p", "m", Card("m", 1, 1, 2, Ladder, <<>>))},
     {Reference("p", "m", Card("m", 3, 2, NoPrice, <<>>, <<>>)), Reference("p", "md", Card("md", 2, 2, 2, <<>>, <<>>))},
     {Reference("q", "m", Card("m", 2, 3, 4, <<>>, <<>>)), Reference("r", "m", Card("m", 1, 1, 1, <<>>, <<>>)),
      Reference("q", "md", Card("md", 1, NoPrice, NoPrice, <<>>, <<>>))},
     {Reference("p", "m", Card("m", 1, 1, 2, <<Tier(0, NoMax, 5, NoPrice, NoPrice, 1)>>, <<>>))}}

Channel(cards, restrict, source) == [cards |-> cards, restrict |-> restrict, source |-> source]
Evening == <<[min |-> 1, max |-> 2, factor |-> 3]>>
MCChannels ==
    {Channel({}, FALSE, "requested"),
     Channel({Card("md", 0, 0, NoPrice, <<>>, <<>>), Card("m", 2, NoPrice, 4, <<>>, Evening)}, TRUE, "response_model"),
     Channel({Card("*", NoPrice, 2, NoPrice, <<Tier(2, NoMax, 3, 3, NoPrice, 1), Tier(0, 2, 1, NoPrice, NoPrice, 1)>>, <<>>)}, FALSE, "requested"),
     Channel({Card("*", 2, 2, 2, <<Tier(2, 4, 3, 3, 3, 1), Tier(0, NoMax, 1, NoPrice, 5, 1)>>, <<>>)}, FALSE, "requested"),
     Channel({Card("m", 1, 1, 1, <<>>, <<[min |-> 1, max |-> 2, factor |-> 3], [min |-> 0, max |-> 1, factor |-> 2]>>)}, FALSE, "response_model"),
     Channel({PerRequest("*", 1, <<Tier(2, NoMax, 1, NoPrice, NoPrice, 1)>>)}, FALSE, "requested")}
MCGroups ==
    {<<>>, <<Card("*", 1, 2, NoPrice, <<Tier(0, NoMax, 9, 9, 9, 1)>>, <<>>)>>,
     <<[Card("*", 2, NoPrice, NoPrice, <<>>, <<>>) EXCEPT !.platform = "q"], PerRequest("md", 4, <<>>)>>}

Used(in, write, five, hour) == [in |-> in, write |-> write, five |-> five, hour |-> hour]
MCUsages == {Used(1, 0, 0, 0), Used(0, 2, 1, 1), Used(1, 1, 1, 1), Used(1, 3, 2, 3), Used(2, 3, 0, 0), Used(0, 3, 0, 3), Used(0, 0, 0, 0)}

MCProviders == <<"brave", "tavily">>

StreamsInit ==
    /\ Init /\ PrInit /\ SqInit /\ HaInit /\ focus \in {"stream", "price", "search", "health"}
    /\ focus # "stream" => bridge = <<"chat", "chat">>
    /\ focus # "price" => prChannel.cards = {} /\ \E e \in prFile : e.card.tiers = Ladder
    /\ focus # "search" => sqLimit = [p \in Kinds |-> 1]

\* What happens after a request was priced does not matter; a request that was
\* priced, searches that have ended, and an account whose bounds are used up
\* remain so; a stream that cannot go on before it is delivered is a deadlock.
StreamsNext ==
    /\ UNCHANGED focus
    /\ \/ focus = "stream" /\ Next /\ UNCHANGED <<prVars, sqVars, haVars>>
       \/ focus = "price" /\ ((prReq.phase # "settled" /\ PrNext) \/ UNCHANGED prVars) /\ UNCHANGED <<vars, sqVars, haVars>>
       \/ focus = "search" /\ (SqNext \/ UNCHANGED sqVars) /\ UNCHANGED <<vars, prVars, haVars>>
       \/ focus = "health" /\ (HealthNext \/ UNCHANGED haVars) /\ UNCHANGED <<vars, prVars, sqVars>>

StreamsSpec == StreamsInit /\ [][StreamsNext]_<<focus, vars, prVars, sqVars, haVars>>
=============================================================================
