------------------------------- MODULE Pricing -------------------------------
(***************************************************************************)
(* What a request costs (pricing.go, reference_prices.go and the choice of *)
(* the billed model in settlement.go).  Three sources of price cards meet: *)
(* the published catalog of reference prices, which a worker replaces      *)
(* while requests run; the cards of the channel; the cards of the group.   *)
(* A request loads the catalog once, takes the cards with each account it  *)
(* is given, prices a probe before it is sent and its usage when it ends.  *)
(*                                                                         *)
(* A card has an input price (Output and CacheRead resolve as Input does), *)
(* prices for five-minute and one-hour cache writes, context tiers and     *)
(* periods of the day.  Prices and multipliers are small naturals.  The    *)
(* precision of decimals, service tiers, reasoning effort, image and video *)
(* units are left out.                                                     *)
(***************************************************************************)
EXTENDS Integers, Sequences, FiniteSets, FiniteSetsExt, Functions

CONSTANTS
    PrModels, PrPlatforms,
    PrPlatform,     \* the platform of the account
    PrNames(_),     \* priceNames: the name itself, then its canonical form
    PrFiles,        \* what the price file may hold: sets of entries [platform, name, card]
    PrChannels,     \* what an administrator may ask a channel to be
    PrGroups,       \* the same for the cards of a group, in order
    PrUsages,       \* [in, write, five, hour] as an upstream reports them
    PrDay,          \* the last instant
    PrMaxEdits      \* bound: edits of the file, the channel and the group

NoPrice == -1       \* an omitted price; also the outcome of pricing that fails
NoMax == -1         \* a tier without an upper end
NoCard == [mode |-> "none"]

Prices == Nat \cup {NoPrice}
Tiers == [min : Int, max : Int, in : Prices, write : Prices, hour : Prices, each : Prices, factor : Nat]
Periods == [min : Int, max : Int, factor : Nat]
Cards == [mode : {"token", "request"}, platform : STRING, pattern : STRING, in : Prices, write : Prices,
          hour : Prices, each : Prices, tiers : Seq(Tiers), periods : Seq(Periods)]

\* What JSON and its decoding admit. Lifetimes are a division of writes:
\* anthropicUsage makes their sum the writes where no writes are told.
ASSUME PrAssumption ==
    /\ \A f \in PrFiles : f \subseteq [platform : STRING, name : STRING, card : Cards]
    /\ PrChannels \subseteq [cards : SUBSET Cards, restrict : BOOLEAN, source : STRING]
    /\ PrGroups \subseteq Seq(Cards)
    /\ PrUsages \subseteq [in : Nat, write : Nat, five : Nat, hour : Nat]
    /\ \A u \in PrUsages : u.write = 0 => u.five + u.hour = 0
    /\ \A m \in PrModels : DOMAIN PrNames(m) \subseteq Nat

VARIABLES
    prFile,         \* the price file
    prCatalog,      \* App.prices
    prChannel,      \* table channels: [cards, restrict, source]
    prGroup,        \* model pricing of the group
    prClock,
    prReq,          \* the request
    prEdits

prVars == <<prFile, prCatalog, prChannel, prGroup, prClock, prReq, prEdits>>
-----------------------------------------------------------------------------
(* Validation                                                              *)

Overlap(p, q) == p = q \/ "*" \in {p, q}

\* The orders of tiers or periods by their lower ends.
Sortings(spans) ==
    {p \in Bijection(DOMAIN spans, DOMAIN spans) : \A i, j \in DOMAIN spans : i < j => spans[p[i]].min <= spans[p[j]].min}

\* Tiers are sorted by their lower end and compared with their neighbour.
ValidTiers(tiers) ==
    \E p \in Sortings(tiers) :
        \A i \in DOMAIN tiers : LET t == tiers[p[i]] IN
            /\ t.min >= 0 /\ (t.max = NoMax \/ t.max > t.min)
            /\ i > 1 => tiers[p[i - 1]].max # NoMax /\ tiers[p[i - 1]].max <= t.min

\* timePrice.validate does the same for periods, whose ends are required.
ValidPeriods(periods) ==
    \E p \in Sortings(periods) :
        \A i \in DOMAIN periods :
            /\ periods[p[i]].min < periods[p[i]].max
            /\ i > 1 => periods[p[i]].min >= periods[p[i - 1]].max

ValidCards(cards) ==
    /\ \A c \in cards :
          /\ c.mode = "request" => c.each # NoPrice \/ Len(c.tiers) > 0
          /\ c.mode # "token" => c.periods = <<>>
          /\ ValidPeriods(c.periods)
          /\ c.mode = "token" => ValidTiers(c.tiers)
    /\ \A c, d \in cards : c # d => ~Overlap(c.pattern, d.pattern)

\* The cards of a group may name the models of one platform each, so only cards
\* of the same platform are compared.
ValidGroupPrices(cards) ==
    /\ \A i \in DOMAIN cards : cards[i].periods = <<>>
    /\ \A p \in PrPlatforms : ValidCards({cards[i] : i \in {j \in DOMAIN cards : cards[j].platform = p}})

\* A catalog names each model once and its tiers scale prices, never set them.
ValidCatalog(file) ==
    /\ file # {}
    /\ \A e \in file :
          /\ ValidCards({e.card})
          /\ e.card.mode = "token" =>
                \A i \in DOMAIN e.card.tiers : LET t == e.card.tiers[i] IN {t.in, t.write, t.hour, t.each} = {NoPrice}
    /\ \A e, f \in file : e.platform = f.platform /\ e.name = f.name => e = f
-----------------------------------------------------------------------------
(* Resolution of the card                                                  *)

Matches(pattern, name) == pattern \in {name, "*"}

\* priceCatalog.lookup on one platform: the first name that has an entry.
LookupOn(catalog, platform, model) ==
    LET Entry(i) == {e \in catalog : e.platform = platform /\ e.name = PrNames(model)[i]}
        found == {i \in DOMAIN PrNames(model) : Entry(i) # {}}
    IN IF found = {} THEN NoCard ELSE (CHOOSE e \in Entry(Min(found)) : TRUE).card

\* And on any: the first name that has one, unless two platforms have it.
LookupAny(catalog, model) ==
    LET Entries(i) == {e \in catalog : e.name = PrNames(model)[i]}
        found == {i \in DOMAIN PrNames(model) : Entries(i) # {}}
    IN IF found = {} \/ \E e, f \in Entries(Min(found)) : e # f
       THEN NoCard ELSE (CHOOSE e \in Entries(Min(found)) : TRUE).card

MatchPrice(cards, model) ==
    LET Named(i) == {c \in cards : Matches(c.pattern, PrNames(model)[i])}
        found == {i \in DOMAIN PrNames(model) : Named(i) # {}}
    IN IF found = {} THEN NoCard ELSE CHOOSE c \in Named(Min(found)) : TRUE

\* The exact name wins; then the first pattern that matches.
GroupModelPrice(cards, model) ==
    LET exact == {i \in DOMAIN cards : cards[i].pattern = model}
        found == {i \in DOMAIN cards : Matches(cards[i].pattern, model)}
    IN IF exact # {} THEN cards[Min(exact)] ELSE IF found # {} THEN cards[Min(found)] ELSE NoCard

Or(price, fallback) == IF price # NoPrice THEN price ELSE fallback

\* An omitted price is the reference's. One price for cache writes is the price
\* of both lifetimes. Tiers of the card replace those of the reference.
Inherit(custom, base) ==
    [custom EXCEPT !.in = Or(@, base.in), !.write = Or(@, base.write),
                   !.hour = Or(@, Or(custom.write, base.hour)),
                   !.tiers = IF @ = <<>> THEN base.tiers ELSE @]

ResolvedModelPrice(catalog, custom, model) ==
    LET own == LookupOn(catalog, PrPlatform, model)
        base == IF own # NoCard THEN own ELSE LookupAny(catalog, model)
    IN CASE custom = NoCard -> base
         [] custom # NoCard /\ (custom.mode # "token" \/ base.mode # "token") -> custom
         [] OTHER -> Inherit(custom, base)

EffectiveModelPriceLayered(catalog, group, channel, model) ==
    LET card == GroupModelPrice(group, model)
        below == MatchPrice(channel.cards, model)
    IN IF channel.restrict /\ below = NoCard THEN NoCard
       ELSE IF card = NoCard THEN ResolvedModelPrice(catalog, below, model)
       ELSE ResolvedModelPrice(catalog,
                IF {card.mode, below.mode} = {"token"} THEN Inherit([card EXCEPT !.tiers = <<>>], below) ELSE card, model)

\* A card of the group replaces the channel's. Its own tiers do not apply.
EffectiveModelPrice(catalog, group, channel, model) ==
    LET card == GroupModelPrice(group, model)
        below == MatchPrice(channel.cards, model)
    IN IF channel.restrict /\ below = NoCard THEN NoCard
       ELSE IF card = NoCard THEN ResolvedModelPrice(catalog, below, model)
       ELSE ResolvedModelPrice(catalog, IF card.mode = "token" THEN [card EXCEPT !.tiers = <<>>] ELSE card, model)
-----------------------------------------------------------------------------
(* Calculation                                                             *)

InTier(t, context) == context > t.min /\ (t.max = NoMax \/ context <= t.max)

NoTier == [min |-> 0, max |-> NoMax, in |-> NoPrice, write |-> NoPrice, hour |-> NoPrice, each |-> NoPrice, factor |-> 1]

Interval(card, context) ==
    LET found == {i \in DOMAIN card.tiers : InTier(card.tiers[i], context)}
    IN IF found = {} THEN NoTier ELSE card.tiers[Min(found)]

ResolvedPrice(base, override, factor) ==
    IF override # NoPrice THEN override ELSE IF base = NoPrice THEN NoPrice ELSE base * factor

\* A tier that prices writes and not hours prices both.
TokenPrices(card, tier) ==
    [in |-> ResolvedPrice(card.in, tier.in, tier.factor),
     write |-> ResolvedPrice(card.write, tier.write, tier.factor),
     hour |-> IF tier.write # NoPrice /\ tier.hour = NoPrice THEN tier.write
              ELSE ResolvedPrice(Or(card.hour, card.write), tier.hour, tier.factor)]

Component(count, price) == IF count = 0 THEN 0 ELSE IF price = NoPrice THEN NoPrice ELSE count * price

MultiplierAt(periods, at) ==
    LET found == {i \in DOMAIN periods : at >= periods[i].min /\ at < periods[i].max}
    IN IF found = {} THEN 1 ELSE periods[Min(found)].factor

HalfUp(n, part, whole) == (n * part * 2 + whole) \div (2 * whole)

\* More writes by lifetime than in all are scaled down to the total.
Lifetimes(u) ==
    LET told == u.five + u.hour
        five == HalfUp(u.write, u.five, told)
    IN IF u.write > 0 /\ told > u.write
       THEN [five |-> five, hour |-> u.write - five]
       ELSE [five |-> u.five, hour |-> u.hour]

\* per_request cards: a price of the tier counts only when it is positive.
PriceRequest(card, u) ==
    LET tier == Interval(card, u.in + u.write) IN IF tier.each > 0 THEN tier.each ELSE card.each

PriceTokens(card, u, at, longContext) ==
    LET price == TokenPrices(card, Interval(card, IF longContext THEN u.in + u.write ELSE 1))
        split == card.hour # NoPrice \/ \E i \in DOMAIN card.tiers : card.tiers[i].hour # NoPrice
        life == Lifetimes(u)
        parts == IF split /\ (life.five > 0 \/ life.hour > 0)
                 THEN <<Component(u.in, price.in), Component(life.five, price.write), Component(life.hour, price.hour)>>
                 ELSE <<Component(u.in, price.in), Component(u.write, price.write), 0>>
    IN IF \E i \in 1..3 : parts[i] = NoPrice THEN NoPrice
       ELSE (parts[1] + parts[2] + parts[3]) * MultiplierAt(card.periods, at)

CalculatePrice(card, u, at, longContext) ==
    CASE card = NoCard -> NoPrice
      [] card.mode = "request" -> PriceRequest(card, u)
      [] OTHER -> PriceTokens(card, u, at, longContext)
-----------------------------------------------------------------------------
(* The request                                                             *)

\* preflightUsage of an Anthropic request.
Probe == [in |-> 1, write |-> 1, five |-> 0, hour |-> 0]

Idle == [phase |-> "idle"]

PrInit ==
    /\ prFile \in {f \in PrFiles : ValidCatalog(f)} /\ prCatalog = prFile
    /\ prChannel \in {c \in PrChannels : ValidCards(c.cards)}
    /\ prGroup = <<>>
    /\ prClock = 0 /\ prReq = Idle /\ prEdits = 0

EditPrices ==
    /\ prEdits < PrMaxEdits /\ prEdits' = prEdits + 1
    /\ \/ prFile' \in PrFiles /\ UNCHANGED <<prChannel, prGroup>>
       \/ prChannel' \in {c \in PrChannels : ValidCards(c.cards)} /\ UNCHANGED <<prFile, prGroup>>
       \/ prGroup' \in {g \in PrGroups : ValidGroupPrices(g)} /\ UNCHANGED <<prFile, prChannel>>
    /\ UNCHANGED <<prCatalog, prClock, prReq>>

\* The worker, once a minute: a file that does not parse leaves the catalog.
ReloadPrices ==
    /\ prFile # prCatalog
    /\ prCatalog' = IF ValidCatalog(prFile) THEN prFile ELSE prCatalog
    /\ UNCHANGED <<prFile, prChannel, prGroup, prClock, prReq, prEdits>>

TimePasses ==
    /\ prClock < PrDay /\ prClock' = prClock + 1
    /\ UNCHANGED <<prFile, prCatalog, prChannel, prGroup, prReq, prEdits>>

BeginRequest(model, longContext) ==
    /\ prReq = Idle
    /\ prReq' = [phase |-> "begun", model |-> model, long |-> longContext, at |-> prClock, catalog |-> prCatalog]
    /\ UNCHANGED <<prFile, prCatalog, prChannel, prGroup, prClock, prEdits>>

\* What the cards of a selection make a usage cost.
Cost(req, model, u) ==
    CalculatePrice(EffectiveModelPrice(req.catalog, req.group, req.channel, model), u, req.at, req.long)

\* chooseAccount and the preflight, again for every account that is tried. The
\* quote is what each usage of the requested model costs as things stand.
SelectAccount ==
    /\ prReq.phase \in {"begun", "selected"}
    /\ LET req == [phase |-> "selected", model |-> prReq.model, long |-> prReq.long, at |-> prReq.at,
                   catalog |-> prReq.catalog, group |-> prGroup, channel |-> prChannel]
       IN prReq' = IF Cost(req, req.model, Probe) = NoPrice THEN [phase |-> "refused"]
                   ELSE [phase |-> "selected", model |-> req.model, long |-> req.long, at |-> req.at,
                         catalog |-> req.catalog, group |-> prGroup, channel |-> prChannel,
                         quote |-> [u \in PrUsages |-> Cost(req, req.model, u)]]
    /\ UNCHANGED <<prFile, prCatalog, prChannel, prGroup, prClock, prEdits>>

\* makeReceipt: the channel says whose name is billed.
BilledModel(req, response) ==
    IF req.channel.source = "response_model" /\ response # "" THEN response ELSE req.model

\* A receipt that cannot be priced is left to review: its cost is NoPrice.
PriceReceipt(u, response) ==
    /\ prReq.phase = "selected"
    /\ \E billed \in {BilledModel(prReq, response)} :
         prReq' = [phase |-> "settled", model |-> prReq.model, long |-> prReq.long, at |-> prReq.at,
                   catalog |-> prReq.catalog, group |-> prReq.group, channel |-> prReq.channel, quote |-> prReq.quote,
                   billed |-> billed, usage |-> u, cost |-> Cost(prReq, billed, u)]
    /\ UNCHANGED <<prFile, prCatalog, prChannel, prGroup, prClock, prEdits>>

PrNext ==
    \/ EditPrices \/ ReloadPrices \/ TimePasses \/ SelectAccount
    \/ \E m \in PrModels, long \in BOOLEAN : BeginRequest(m, long)
    \/ \E u \in PrUsages, response \in PrModels \cup {""} : PriceReceipt(u, response)

PrSpec == PrInit /\ [][PrNext]_prVars
-----------------------------------------------------------------------------
(* Properties                                                              *)

\* Whatever is saved or published while a request runs, and whenever it ends, it
\* is charged what its usage cost under the catalog it loaded, the cards it was
\* admitted with and the hour it began ("Requests keep its pointer until
\* settlement even if a later reload publishes new prices").
ChargedAsQuoted ==
    prReq.phase = "settled" /\ prReq.billed = prReq.model => prReq.cost = prReq.quote[prReq.usage]

\* No context length falls into two tiers of a card in use and no instant into
\* two periods, though cards are only compared with their neighbours: otherwise
\* the order an administrator typed them in would set the price.
OneTier ==
    \A c \in prChannel.cards : c.mode = "token" =>
        /\ \A i, j \in DOMAIN c.tiers, x \in {u.in + u.write : u \in PrUsages} :
              InTier(c.tiers[i], x) /\ InTier(c.tiers[j], x) => i = j
        /\ \A i, j \in DOMAIN c.periods, at \in 0..PrDay :
              at >= c.periods[i].min /\ at < c.periods[i].max /\ at >= c.periods[j].min /\ at < c.periods[j].max => i = j

\* The prices an administrator set decide. With a card of the group the cards of
\* the channel have no influence on the cost; and where the deciding card prices
\* input and writes, no reference price has, also not for one-hour writes.
OperatorPricesDecide ==
    prReq.phase = "settled" =>
        LET own == GroupModelPrice(prReq.group, prReq.billed)
            card == IF own # NoCard THEN own ELSE MatchPrice(prReq.channel.cards, prReq.billed)
            Repriced(p) == {[e EXCEPT !.card.in = p, !.card.write = p, !.card.hour = p] : e \in prReq.catalog}
        IN /\ own # NoCard /\ ~prReq.channel.restrict =>
                 \A c \in PrChannels : Cost([prReq EXCEPT !.channel = [c EXCEPT !.restrict = FALSE]], prReq.billed, prReq.usage) = prReq.cost
           /\ card.mode = "token" => (NoPrice \notin {card.in, card.write} =>
                 \A p \in 0..2 : Cost([prReq EXCEPT !.catalog = Repriced(p)], prReq.billed, prReq.usage) = prReq.cost)

\* A served request is never left to review for want of a price while it is
\* billed by the name it was admitted under and stays in the tier of the probe:
\* what the preflight accepted, the settlement can price.
PreflightSuffices ==
    prReq.phase = "settled" /\ prReq.billed = prReq.model =>
        LET card == EffectiveModelPrice(prReq.catalog, prReq.group, prReq.channel, prReq.model)
            Tier(u) == Interval(card, IF prReq.long \/ card.mode = "request" THEN u.in + u.write ELSE 1)
        IN Tier(prReq.usage) = Tier(Probe) => prReq.cost # NoPrice

\* Every token is charged once: under a card with one price for everything the
\* cost is that price times the tokens, however the upstream divides the writes
\* between lifetimes, as long as the parts are not short of the total.
EveryTokenCharged ==
    prReq.phase = "settled" =>
        LET card == EffectiveModelPrice(prReq.catalog, prReq.group, prReq.channel, prReq.billed)
            u == prReq.usage
        IN card.mode = "token" =>
              (card.in = card.write /\ card.in = card.hour /\ card.in # NoPrice /\ card.tiers = <<>> /\ u.five + u.hour \notin 1..u.write - 1
                  => prReq.cost = card.in * (u.in + u.write) * MultiplierAt(card.periods, prReq.at))

\* A request costs what was quoted when its account was selected, by one tier
\* and by the operator's prices where there are any, for every token it used;
\* and what the preflight could price, the receipt can.
PricesSound ==
    ChargedAsQuoted /\ OneTier /\ OperatorPricesDecide /\ PreflightSuffices /\ EveryTokenCharged
=============================================================================
