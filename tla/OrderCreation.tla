---------------------------- MODULE OrderCreation ----------------------------
(***************************************************************************)
(* CreateOrderV2 / CreateMarketOrderV2 up to the signature: the terms of a *)
(* token's market (minimum tick size, neg-risk flag, fee info) come from   *)
(* the caller's options, from the client's caches or from the server, and  *)
(* the neg-risk flag picks the exchange contract whose cached builder      *)
(* (BuilderCache) signs.  createOrderV1ForRFQ finds the terms of the order *)
(* of an RFQ trade in the same caches, and the fee rate in one more.  The  *)
(* tick size and the fee rate of a live market change, while nothing takes *)
(* a cached one back.  What the server states is or was true; it may leave *)
(* a field out, and a request may fail.  Each critical section of c.mu on  *)
(* the market caches is one step.                                          *)
(***************************************************************************)
EXTENDS BuilderCache, Naturals

CONSTANTS
    Tokens,      \* outcome tokens of one market that orders are made for
    Markets,     \* what the market's minimum tick size and fee rate in basis
                 \* points may be at a time
    Opening,     \* what they are at first
    NegRisk,     \* is it a neg-risk market (its contract never changes)
    Exchange,    \* Exchange[n]: GetExchangeForVersion(V2, n), as configured
    Requests,    \* orders a caller may ask for: token, options, protection
    NoRequest,   \* the caller asks for nothing
    Unset,       \* an option not given, a token not in a cache
    MaxOrders    \* bound on the number of orders and lookups

EmptyTick == 0   \* TickSize("")
NoFee == 0

Ticks(ms) == {m.tick : m \in ms}
Rates(ms) == {m.rate : m \in ms}

ASSUME MarketAssumption ==
    /\ Markets \subseteq [tick : Nat \ {EmptyTick}, rate : Nat]
    /\ Opening \in Markets /\ NegRisk \in BOOLEAN /\ MaxOrders \in Nat
    /\ Unset \notin Nat \cup BOOLEAN /\ NoRequest \notin Requests
    /\ Exchange \in [BOOLEAN -> Addresses]
    /\ Lower[Exchange[TRUE]] # Lower[Exchange[FALSE]]
    /\ \A r \in Requests : /\ r.token \in Tokens
                           /\ r.raw \in BOOLEAN /\ r.protect \in BOOLEAN
                           /\ r.tick \in Nat \cup {Unset}
                           /\ r.neg \in BOOLEAN \cup {Unset}

VARIABLES
    had,        \* what the market has been so far
    tickSizes,  \* c.tickSizes
    negRisk,    \* c.negRisk
    feeInfos,   \* keys of c.feeInfos
    feeRates,   \* c.feeRates
    conditions, \* keys of c.tokenCondition
    at,         \* where each caller is
    use,        \* what the lookup under way is for
    req,        \* the order each caller asks for
    terms,      \* tick size, neg-risk flag and fee rate resolved for it
    warm,       \* history: everything was cached when the order was asked for
    asked,      \* history: a request was sent to the server for it
    omitted,    \* history: some answer left out a field
    orders      \* orders and lookups so far

market == <<tickSizes, negRisk, feeInfos, feeRates, conditions>>
call == <<use, req, terms, warm>>
history == <<asked, omitted, orders>>
ovars == <<vars, had, market, at, call, history>>

NoTerms == [tick |-> Unset, neg |-> Unset, rate |-> Unset]

OrderTypeOK ==
    /\ TypeOK
    /\ had \subseteq Markets
    /\ tickSizes \in [Tokens -> Ticks(Markets) \cup {EmptyTick, Unset}]
    /\ negRisk \in [Tokens -> BOOLEAN \cup {Unset}]
    /\ feeInfos \subseteq Tokens /\ conditions \subseteq Tokens
    /\ feeRates \in [Tokens -> Rates(Markets) \cup {NoFee, Unset}]
    /\ at \in [Callers -> {"idle", "resolve", "ensure", "byToken", "market",
                "read", "exponent", "tick", "tickAsk", "neg", "negAsk", "rate",
                "rateAsk", "validate", "fee", "builder", "sign", "signed"}]
    /\ use \in [Callers -> {"order", "balance", "query", "rfq"}]
    /\ req \in [Callers -> Requests \cup {NoRequest}]
    /\ terms \in [Callers -> [tick : Nat \cup {Unset}, neg : BOOLEAN \cup {Unset},
                              rate : Rates(Markets) \cup {NoFee, Unset}]]
    /\ warm \in [Callers -> BOOLEAN] /\ asked \in [Callers -> BOOLEAN]
    /\ omitted \in BOOLEAN /\ orders \in 0..MaxOrders

OrderInit ==
    /\ Init
    /\ had = {Opening}
    /\ tickSizes = [t \in Tokens |-> Unset]
    /\ negRisk = [t \in Tokens |-> Unset]
    /\ feeInfos = {} /\ conditions = {}
    /\ feeRates = [t \in Tokens |-> Unset]
    /\ at = [c \in Callers |-> "idle"]
    /\ use = [c \in Callers |-> "order"]
    /\ req = [c \in Callers |-> NoRequest]
    /\ terms = [c \in Callers |-> NoTerms]
    /\ warm = [c \in Callers |-> FALSE] /\ asked = [c \in Callers |-> FALSE]
    /\ omitted = FALSE /\ orders = 0

Move(c, from, to) == at[c] = from /\ at' = [at EXCEPT ![c] = to]

\* The call of c is over: its locals are dropped.
Finish(c) ==
    /\ at' = [at EXCEPT ![c] = "idle"]
    /\ use' = [use EXCEPT ![c] = "order"]
    /\ req' = [req EXCEPT ![c] = NoRequest]
    /\ terms' = [terms EXCEPT ![c] = NoTerms]
    /\ warm' = [warm EXCEPT ![c] = FALSE]
    /\ asked' = [asked EXCEPT ![c] = FALSE]

Fail(c, from) ==
    /\ at[c] = from
    /\ Finish(c)
    /\ UNCHANGED <<vars, market, omitted, orders>>

Asking(c) == asked' = [asked EXCEPT ![c] = TRUE]
Omitting(b) == omitted' = (omitted \/ b)

-----------------------------------------------------------------------------
(* A call begins.                                                          *)

\* Nothing is asked for but the token.
Plain(r) == ~r.raw /\ ~r.protect /\ r.tick = Unset /\ r.neg = Unset

Start(c, l, u) ==
    /\ at[c] = "idle" /\ orders < MaxOrders
    /\ at' = [at EXCEPT ![c] = l]
    /\ use' = [use EXCEPT ![c] = u]
    /\ orders' = orders + 1
    /\ \E r \in Requests :
          /\ u = "order" \/ Plain(r)
          /\ req' = [req EXCEPT ![c] = r]
          /\ warm' = [warm EXCEPT ![c] =
                 /\ tickSizes[r.token] # Unset /\ negRisk[r.token] # Unset
                 /\ IF u = "rfq" \/ l = "rate" THEN feeRates[r.token] # Unset
                                               ELSE r.token \in feeInfos]
    /\ UNCHANGED <<vars, had, market, terms, asked, omitted>>

CreateOrder(c) == Start(c, "resolve", "order")

\* createOrderV1ForRFQ: resolveTickSize without an option comes first.
CreateOrderForRFQ(c) == Start(c, "tick", "rfq")

\* GetTickSize, GetNegRisk, GetFeeRateBps or GetFeeExponent, called by the
\* program itself.
Query(c) == \E l \in {"tick", "neg", "rate", "ensure"} : Start(c, l, "query")

-----------------------------------------------------------------------------
(* resolveTickAndNegRisk.                                                  *)

\* A map read in Go: a key that is absent reads as the zero value.
TickOf(t) == IF tickSizes[t] = Unset THEN EmptyTick ELSE tickSizes[t]
NegOf(t) == IF negRisk[t] = Unset THEN FALSE ELSE negRisk[t]

\* IsTickSizeSmaller on an option; an empty tick size compares as zero.
TooFine(r, min) == r.tick # Unset /\ r.tick < min

\* What the caller gives comes first.
Terms(r) ==
    [tick |-> IF r.tick # Unset THEN r.tick ELSE TickOf(r.token),
     neg  |-> IF r.neg # Unset THEN r.neg ELSE NegOf(r.token),
     rate |-> Unset]

AllKnown(r) ==
    /\ r.tick # Unset \/ tickSizes[r.token] # Unset
    /\ r.neg # Unset \/ negRisk[r.token] # Unset

\* Raw orders take the caller's terms unchecked, all the others need them
\* known and no finer than the market's.
ResolveLocally(c) ==
    /\ Move(c, "resolve", "validate")
    /\ IF req[c].raw THEN req[c].tick # Unset /\ req[c].neg # Unset
                     ELSE AllKnown(req[c]) /\ ~TooFine(req[c], TickOf(req[c].token))
    /\ terms' = [terms EXCEPT ![c] = Terms(req[c])]
    /\ UNCHANGED <<vars, market, use, req, warm, history>>

RefuseLocally(c) ==
    /\ Fail(c, "resolve")
    /\ IF req[c].raw THEN req[c].tick = Unset \/ req[c].neg = Unset
                     ELSE AllKnown(req[c]) /\ TooFine(req[c], TickOf(req[c].token))

ResolveMiss(c) ==
    /\ Move(c, "resolve", "ensure")
    /\ ~req[c].raw /\ ~AllKnown(req[c])
    /\ UNCHANGED <<vars, market, call, history>>

\* The maps are read again once the market's details are cached.
ReadTerms(c) ==
    /\ Move(c, "read", "validate")
    /\ ~TooFine(req[c], TickOf(req[c].token))
    /\ terms' = [terms EXCEPT ![c] = Terms(req[c])]
    /\ UNCHANGED <<vars, market, use, req, warm, history>>

RefuseRead(c) ==
    Fail(c, "read") /\ TooFine(req[c], TickOf(req[c].token))

-----------------------------------------------------------------------------
(* ensureMarketInfoCached: for the terms ("order"), for the fee info       *)
(* ("balance") or for its exponent ("query").                              *)

\* Mutant: the cache is not consulted.
NeverCached(t) == FALSE

\* Only the fee info tells that the market's details were fetched.
InfoCached(t) == t \in feeInfos

Ensured(c) == IF use[c] = "balance" THEN "fee"
              ELSE IF use[c] = "query" THEN "exponent" ELSE "read"

EnsureHit(c) ==
    /\ Move(c, "ensure", Ensured(c))
    /\ InfoCached(req[c].token)
    /\ UNCHANGED <<vars, market, call, history>>

EnsureMiss(c) ==
    /\ Move(c, "ensure",
            IF req[c].token \in conditions THEN "market" ELSE "byToken")
    /\ ~InfoCached(req[c].token)
    /\ UNCHANGED <<vars, market, call, history>>

\* GetMarketByToken answers with the condition id.
MarketByToken(c) ==
    /\ Move(c, "byToken", "market")
    /\ Asking(c)
    /\ conditions' = conditions \cup {req[c].token}
    /\ UNCHANGED <<vars, tickSizes, negRisk, feeInfos, feeRates, call, omitted,
                   orders>>

\* GetClobMarketInfo: one critical section fills the caches for the tokens
\* the answer lists, which may all be others; a flag left out reads as FALSE.
\* An answer may be older than the last change of the market.
ClobMarketInfo(c) ==
    /\ Move(c, "market", Ensured(c))
    /\ Asking(c)
    /\ \E m \in had, listed \in SUBSET Tokens, tick, neg, fees \in BOOLEAN :
          /\ Omitting(listed # Tokens \/ ~tick \/ ~neg)
          /\ conditions' = conditions \cup listed
          /\ tickSizes' = [t \in Tokens |->
                 IF t \in listed /\ tick THEN m.tick ELSE tickSizes[t]]
          /\ negRisk' = [t \in Tokens |->
                 IF t \in listed THEN neg /\ NegRisk ELSE negRisk[t]]
          /\ feeInfos' = IF fees THEN feeInfos \cup listed ELSE feeInfos
    /\ UNCHANGED <<vars, feeRates, call, orders>>

\* A request fails, or its answer has no condition id or no tokens.  An order
\* then falls back to the older endpoints; a protected buy is given up, and so
\* is the exponent.
MarketFails(c) ==
    /\ at[c] \in {"byToken", "market"} /\ use[c] = "order"
    /\ at' = [at EXCEPT ![c] = "tick"]
    /\ Asking(c)
    /\ UNCHANGED <<vars, market, call, omitted, orders>>

ProtectionFails(c) ==
    \E l \in {"byToken", "market"} : use[c] \in {"balance", "query"} /\ Fail(c, l)

\* GetFeeExponent takes a fee info that is missing for an exponent of 0.
TellExponent(c) == Fail(c, "exponent")

-----------------------------------------------------------------------------
(* GetTickSize, GetNegRisk, GetFeeRateBps: an answer without the field is  *)
(* cached too.                                                             *)

\* The tick size is known: a query is answered, an order checks its own.
TickKnown(c, min) ==
    \/ /\ use[c] = "query"
       /\ Finish(c)
    \/ /\ use[c] # "query" /\ TooFine(req[c], min)
       /\ Finish(c)
    \/ /\ use[c] # "query" /\ ~TooFine(req[c], min)
       /\ at' = [at EXCEPT ![c] = IF req[c].neg = Unset THEN "neg" ELSE "validate"]
       /\ terms' = [terms EXCEPT ![c] =
              [tick |-> IF req[c].tick # Unset THEN req[c].tick ELSE min,
               neg |-> req[c].neg, rate |-> Unset]]
       /\ UNCHANGED <<use, req, warm, asked>>

TickHit(c) ==
    /\ at[c] = "tick"
    /\ tickSizes[req[c].token] # Unset
    /\ TickKnown(c, tickSizes[req[c].token])
    /\ UNCHANGED <<vars, market, omitted, orders>>

TickMiss(c) ==
    /\ Move(c, "tick", "tickAsk")
    /\ tickSizes[req[c].token] = Unset
    /\ Asking(c)
    /\ UNCHANGED <<vars, market, call, omitted, orders>>

TickAnswer(c) ==
    /\ at[c] = "tickAsk"
    /\ \E min \in Ticks(had) \cup {EmptyTick} :
          /\ TickKnown(c, min)
          /\ tickSizes' = [tickSizes EXCEPT ![req[c].token] = min]
          /\ Omitting(min = EmptyTick)
    /\ UNCHANGED <<vars, negRisk, feeInfos, feeRates, conditions, orders>>

NegKnown(c, neg) ==
    \/ /\ use[c] = "query"
       /\ Finish(c)
    \/ /\ use[c] # "query"
       /\ at' = [at EXCEPT ![c] = IF use[c] = "rfq" THEN "rate" ELSE "validate"]
       /\ terms' = [terms EXCEPT ![c].neg = neg]
       /\ UNCHANGED <<use, req, warm, asked>>

NegHit(c) ==
    /\ at[c] = "neg"
    /\ negRisk[req[c].token] # Unset
    /\ NegKnown(c, negRisk[req[c].token])
    /\ UNCHANGED <<vars, market, omitted, orders>>

NegMiss(c) ==
    /\ Move(c, "neg", "negAsk")
    /\ negRisk[req[c].token] = Unset
    /\ Asking(c)
    /\ UNCHANGED <<vars, market, call, omitted, orders>>

NegAnswer(c) == \E stated \in BOOLEAN :
    /\ at[c] = "negAsk"
    /\ NegKnown(c, stated /\ NegRisk)
    /\ negRisk' = [negRisk EXCEPT ![req[c].token] = stated /\ NegRisk]
    /\ Omitting(~stated)
    /\ UNCHANGED <<vars, tickSizes, feeInfos, feeRates, conditions, orders>>

\* Only an RFQ order and a query ask for the rate.
RateKnown(c, rate) ==
    \/ /\ use[c] = "query"
       /\ Finish(c)
    \/ /\ use[c] # "query"
       /\ at' = [at EXCEPT ![c] = "validate"]
       /\ terms' = [terms EXCEPT ![c].rate = rate]
       /\ UNCHANGED <<use, req, warm, asked>>

RateHit(c) ==
    /\ at[c] = "rate"
    /\ feeRates[req[c].token] # Unset
    /\ RateKnown(c, feeRates[req[c].token])
    /\ UNCHANGED <<vars, market, omitted, orders>>

RateMiss(c) ==
    /\ Move(c, "rate", "rateAsk")
    /\ feeRates[req[c].token] = Unset
    /\ Asking(c)
    /\ UNCHANGED <<vars, market, call, omitted, orders>>

RateAnswer(c) ==
    /\ at[c] = "rateAsk"
    /\ \E m \in had, stated \in BOOLEAN :
          LET rate == IF stated THEN m.rate ELSE NoFee IN
          /\ RateKnown(c, rate)
          /\ feeRates' = [feeRates EXCEPT ![req[c].token] = rate]
          /\ Omitting(~stated)
    /\ UNCHANGED <<vars, tickSizes, negRisk, feeInfos, conditions, orders>>

LookupFails(c) == \E l \in {"tickAsk", "negAsk", "rateAsk"} : Fail(c, l)

-----------------------------------------------------------------------------
(* Checks, balance protection, builder, signature.                         *)

\* The price may be invalid, the order book empty, the tick size unsupported.
Invalid(c) == Fail(c, "validate")

Valid(c) ==
    /\ Move(c, "validate", IF req[c].protect THEN "ensure" ELSE "builder")
    /\ terms[c].tick # EmptyTick
    /\ use[c] = "order"
    /\ use' = [use EXCEPT ![c] = IF req[c].protect THEN "balance" ELSE "order"]
    /\ UNCHANGED <<vars, market, req, terms, warm, history>>

\* The V1 order of an RFQ trade is signed without a cached builder.
SignForRFQ(c) ==
    /\ Move(c, "validate", "signed")
    /\ terms[c].tick # EmptyTick
    /\ use[c] = "rfq"
    /\ UNCHANGED <<vars, market, call, history>>

DeliverForRFQ(c) == use[c] = "rfq" /\ Fail(c, "signed")

\* Mutant: a fee info that is missing counts as no fee.
MissingIsZero(t) == TRUE

\* adjustBuyAmountForBalance refuses to take a missing fee info for no fee.
FeeKnown(t) == t \in feeInfos

AdjustAmount(c) ==
    /\ Move(c, "fee", "builder")
    /\ FeeKnown(req[c].token)
    /\ UNCHANGED <<vars, market, call, history>>

\* The fee info is missing, or the builder's fee rate cannot be fetched.
AdjustFails(c) == Fail(c, "fee")

\* Mutant: the exchange contract is always the plain one.
PlainExchange(neg) == Exchange[FALSE]

\* GetExchangeForVersion
ExchangeFor(neg) == Exchange[neg]

GetBuilder(c) ==
    /\ Move(c, "builder", "sign")
    /\ Call(c) /\ addr'[c] = ExchangeFor(terms[c].neg)
    /\ UNCHANGED <<market, call, history>>

BuilderStep(c) ==
    /\ at[c] = "sign" /\ pc[c] # "done"
    /\ Step(c)
    /\ UNCHANGED <<market, at, call, history>>

\* BuildSignedOrder, by the builder just found.
Sign(c) ==
    /\ Move(c, "sign", "signed")
    /\ pc[c] = "done" /\ got[c] # Failure
    /\ UNCHANGED <<vars, market, call, history>>

EndOrder(c, from) ==
    /\ at[c] = from
    /\ use[c] # "rfq"
    /\ Return(c)
    /\ Finish(c)
    /\ UNCHANGED <<market, omitted, orders>>

\* There is no builder, or BuildOrder refuses the order's data.
SignFails(c) == EndOrder(c, "sign")

\* The signed order goes back to the caller.
Deliver(c) == EndOrder(c, "signed")

-----------------------------------------------------------------------------

\* The exchange changes the market's tick size or its fee (a tick_size_change
\* event tells only those who listen for it).
MarketChanges ==
    \E m \in Markets \ had :
        /\ had' = had \cup {m}
        /\ UNCHANGED <<vars, market, at, call, history>>

\* A step of the goroutine of c.
Advance(c) ==
    \/ ResolveLocally(c) \/ RefuseLocally(c) \/ ResolveMiss(c)
    \/ ReadTerms(c) \/ RefuseRead(c)
    \/ EnsureHit(c) \/ EnsureMiss(c) \/ MarketByToken(c) \/ ClobMarketInfo(c)
    \/ MarketFails(c) \/ ProtectionFails(c) \/ TellExponent(c)
    \/ TickHit(c) \/ TickMiss(c) \/ TickAnswer(c)
    \/ NegHit(c) \/ NegMiss(c) \/ NegAnswer(c)
    \/ RateHit(c) \/ RateMiss(c) \/ RateAnswer(c) \/ LookupFails(c)
    \/ Invalid(c) \/ Valid(c) \/ AdjustAmount(c) \/ AdjustFails(c)
    \/ GetBuilder(c) \/ BuilderStep(c) \/ Sign(c)
    \/ SignFails(c) \/ Deliver(c) \/ SignForRFQ(c) \/ DeliverForRFQ(c)

OrderStep(c) == UNCHANGED had /\ Advance(c)

OrderNext ==
    \/ MarketChanges
    \/ \E c \in Callers :
           CreateOrder(c) \/ CreateOrderForRFQ(c) \/ Query(c) \/ OrderStep(c)

\* Every goroutine runs on and every request is answered or times out.
OrderSpec ==
    OrderInit /\ [][OrderNext]_ovars /\ \A c \in Callers : WF_ovars(OrderStep(c))

-----------------------------------------------------------------------------
(* Properties.                                                             *)

\* What a caller leaves to the client comes from the market: as long as the
\* server's answers left nothing out, a signed order has a tick size that the
\* market has had (its own, as long as it has not changed; a warm cache keeps the
\* old one for good) and is signed for the exchange contract that lists the token,
\* and an RFQ order, whose contract follows from the flag, has such a fee rate.
MarketTerms ==
    \A c \in Callers : at[c] = "signed" /\ ~omitted =>
        /\ req[c].tick = Unset => terms[c].tick \in Ticks(had)
        /\ req[c].neg = Unset /\ use[c] # "rfq"
               => got[c].contract = Lower[Exchange[NegRisk]]
        /\ use[c] = "rfq" => terms[c].neg = NegRisk /\ terms[c].rate \in Rates(had)

\* "A fee that was not found must not silently count as 0": no buy that is
\* protected by the balance is signed without the token's fee info, however
\* incomplete the server's answers were.
ProtectionNeedsFee ==
    \A c \in Callers :
        at[c] = "signed" /\ req[c].protect => req[c].token \in feeInfos

\* "All hits in the cache, then 0 HTTP": an order whose token was fully cached
\* when it was asked for sends no request for the market's terms.
WarmAsksNothing == \A c \in Callers : warm[c] => ~asked[c]

\* Every order and every query that is asked for is answered.
OrdersEnd == \A c \in Callers : at[c] # "idle" ~> at[c] = "idle"
=============================================================================
