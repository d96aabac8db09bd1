---------------------------- MODULE PricedOrder -----------------------------
(***************************************************************************)
(* CreateOrderV2 and CreateMarketOrderV2 from the caller's arguments to    *)
(* the amounts that are signed: the market price from the order book, the  *)
(* price's rounding, the protection of the caller's balance, the amounts.  *)
(* The requests it sends are RequestCtx's.  How the market's terms are     *)
(* looked up and cached, and the order signed, is in OrderCreation; here   *)
(* the tick size and the fee info are given or the lookup has failed.      *)
(*                                                                         *)
(* The server is external: its books are sorted with the best level last.  *)
(***************************************************************************)
EXTENDS Session, OrderAmounts

CONSTANTS
    Asks,          \* what the caller may ask for: [kind, side, price, amount,
                   \* type, balance, builder]
    Books,         \* Books[side]: the levels of the side that is taken
    FeeInfos,      \* [rate, exp]: rate in per cent
    Slippages,     \* c.feeSlippage
    BuilderRates,  \* the builder's taker fee
    NoBalance, NoAsk, NoOrder, NoFees, Unknown

ASSUME AskAssumption ==
    /\ \A a \in Asks :
          /\ a.kind \in {"limit", "market"} /\ a.side \in {"BUY", "SELL"}
          /\ a.price \in 0..One /\ (a.kind = "limit" => a.price # NoPrice)
          /\ a.amount \in Nat /\ a.type \in {"FOK", "FAK", "GTC"}
          /\ a.balance \in Nat \cup {NoBalance} /\ a.builder \in BOOLEAN
    /\ FeeInfos \subseteq [rate : Nat, exp : Exponents]
    /\ Slippages \subseteq 0..100
    /\ BuilderRates \subseteq Nat /\ Unknown \notin Nat
    /\ NoAsk \notin Asks /\ NoBalance \notin Nat

\* A book names asks for a buy and bids for a sale; the next level is no worse.
ASSUME BooksAssumption ==
    \A side \in {"BUY", "SELL"} : \A levels \in Books[side] :
        /\ levels \in Seq([price : 0..One, size : Nat])
        /\ \A i, j \in DOMAIN levels : i < j =>
              IF side = "BUY" THEN levels[j].price <= levels[i].price
              ELSE levels[j].price >= levels[i].price

VARIABLES
    ask,      \* the arguments
    tick,     \* tickSize
    book,     \* the levels the price was read off
    price,    \* the price that the fees are computed with
    money,    \* amount, or the cost of size
    fees,     \* fee info and slippage
    builder,  \* builderFeeRates[builderCode]
    order     \* the order signed: [usdc, shares, price]

deal == <<ask, tick, book, price, money, fees, builder, order>>

DealInit ==
    /\ SessionInit
    /\ ask = NoAsk /\ tick = 0 /\ book = <<>> /\ price = NoPrice /\ money = 0
    /\ fees = NoFees /\ order = NoOrder
    /\ builder \in (IF op = "order" THEN BuilderRates \cup {Unknown} ELSE {Unknown})

DealTypeOK ==
    /\ ask \in Asks \cup {NoAsk}
    /\ tick \in Ticks \cup {0}
    /\ price \in 0..One
    /\ money \in Nat
    /\ builder \in BuilderRates \cup {Unknown}
    /\ order = NoOrder \/ (order.usdc \in Nat /\ order.shares \in Nat
                           /\ order.price \in 0..One)

\* The call fails; what it had is dropped.
Refuse ==
    /\ stage' = "unsigned"
    /\ ask' = NoAsk /\ tick' = 0 /\ book' = <<>> /\ price' = NoPrice
    /\ money' = 0 /\ fees' = NoFees
    /\ Fresh("GET")
    /\ UNCHANGED <<op, params, mode, pages, cursor, results, holes, cut,
                   caller, session, builder, order>>

-----------------------------------------------------------------------------

\* assertLevel1Auth; the terms are found.
EnterOrder ==
    /\ op = "order" /\ stage = "enter"
    /\ mode # "L0"
    /\ stage' = "priceless"
    /\ UNCHANGED <<vars, op, params, mode, pages, cursor, results, holes, cut,
                   caller, session, deal>>

RefuseOrder ==
    /\ op = "order" /\ stage \in {"enter", "priceless"}
    /\ Refuse

\* CalculateMarketPrice, where the caller gives no price, asks for the book.
AskBook ==
    /\ op = "order" /\ stage = "priceless"
    /\ stage' = "book"
    /\ Fresh("GET")
    /\ UNCHANGED <<op, params, mode, pages, cursor, results, holes, cut,
                   caller, session, deal>>

OrderRequest ==
    /\ op = "order" /\ stage \in {"book", "rate"}
    /\ Client \/ Handle
    /\ UNCHANGED <<listing, session, deal>>

Buys(a) == a.side = "BUY"

\* A balance of zero protects a limit order, given as a pointer, but not a
\* market order, given as a number.
Protected(a) ==
    /\ Buys(a) /\ a.balance # NoBalance
    /\ a.kind = "market" => a.balance > 0

\* USDC for a buy (a limit order's size costs its price), shares for a sale.
Asked(a, p) ==
    IF ~Buys(a) THEN a.amount
    ELSE IF a.kind = "limit" THEN a.amount * p * (Scale \div One)
    ELSE a.amount * Scale

\* PriceValid, RoundingConfig; the price is rounded, and used rounded from here
\* on.
Priced(a, t, p) ==
    /\ PriceValid(p, t)
    /\ ask' = a /\ tick' = t
    /\ price' = Rounded(a.kind, t, p)
    /\ money' = Asked(a, price')
    /\ stage' = IF Protected(a) THEN "fee" ELSE "amounts"
    /\ Fresh("GET")
    /\ UNCHANGED <<op, params, mode, pages, cursor, results, holes, cut,
                   caller, session, fees, builder, order>>

OwnPrice ==
    /\ op = "order" /\ stage = "priceless"
    /\ \E a \in Asks, t \in Ticks : a.price # NoPrice /\ Priced(a, t, a.price)
    /\ UNCHANGED book

\* The book has come; a market order that it cannot fill has no price.
BookPrice ==
    /\ op = "order" /\ stage = "book"
    /\ pc = "returned" /\ result = "ok"
    /\ \E a \in Asks, t \in Ticks : \E levels \in Books[a.side] :
           LET p == MarketPrice(a.side, levels, a.amount, a.type)
           IN  /\ a.price = NoPrice /\ p # NoPrice
               /\ Priced(a, t, p)
               /\ book' = levels

\* The request failed, the book is empty or too thin, or the price is invalid.
NoMatch ==
    /\ op = "order" /\ stage = "book"
    /\ pc = "returned"
    /\ Refuse

-----------------------------------------------------------------------------
(* adjustBuyAmountForBalance.                                              *)

\* The fee info of the token; the builder's rate is asked for once.
KnowFees ==
    /\ op = "order" /\ stage = "fee"
    /\ \E info \in FeeInfos, slippage \in Slippages :
           fees' = [info |-> info, slippage |-> slippage]
    /\ stage' = IF ask.builder /\ builder = Unknown THEN "rate" ELSE "adjust"
    /\ Fresh("GET")
    /\ UNCHANGED <<op, params, mode, pages, cursor, results, holes, cut,
                   caller, session, ask, tick, book, price, money, builder,
                   order>>

FeesMissing == op = "order" /\ stage = "fee" /\ Refuse

\* GetBuilderFeeRate caches what the server states.
TakeRate ==
    /\ op = "order" /\ stage = "rate"
    /\ pc = "returned" /\ result = "ok"
    /\ builder' \in BuilderRates
    /\ stage' = "adjust"
    /\ Fresh("GET")
    /\ UNCHANGED <<op, params, mode, pages, cursor, results, holes, cut,
                   caller, session, ask, tick, book, price, money, fees,
                   order>>

RateFails ==
    /\ op = "order" /\ stage = "rate"
    /\ pc = "returned"
    /\ Refuse

BuilderRate == IF ask.builder THEN builder ELSE 0

Adjust ==
    /\ op = "order" /\ stage = "adjust"
    /\ money' = AdjustBuyAmountForFees(money, ask.balance,
                    FeeRate(fees.info, price, fees.slippage) + BuilderRate)
    /\ stage' = "amounts"
    /\ UNCHANGED <<vars, op, params, mode, pages, cursor, results, holes, cut,
                   caller, session, ask, tick, book, price, fees, builder,
                   order>>

\* getAmountsV2 rounds the price once more.
Amounts(short) ==
    LET p == Rounded(ask.kind, tick, price)
        amounts == IF ~Buys(ask) THEN Sale(money, p, short)
                   ELSE IF ask.kind = "market" THEN MarketBuy(money, p, tick, short)
                   ELSE LimitBuy(money, p, short)
    IN  [usdc |-> amounts.usdc, shares |-> amounts.shares, price |-> p]

SignOrder ==
    /\ op = "order" /\ stage = "amounts"
    /\ \E short \in BOOLEAN : order' = Amounts(short)
    /\ stage' = "signed"
    /\ UNCHANGED <<vars, op, params, mode, pages, cursor, results, holes, cut,
                   caller, session, ask, tick, book, price, money, fees,
                   builder>>

DealStep ==
    \/ EnterOrder \/ RefuseOrder \/ AskBook \/ OrderRequest
    \/ OwnPrice \/ BookPrice \/ NoMatch
    \/ KnowFees \/ FeesMissing \/ TakeRate \/ RateFails \/ Adjust
    \/ SignOrder

-----------------------------------------------------------------------------
(* Properties.                                                             *)

\* The platform's fee and the builder's on what the order spends at the price
\* it is signed with, Scale to a unit of USDC.
OwedFees ==
    order.usdc * (FeeRate(fees.info, order.price, 0) + BuilderRate)

\* A buy with balance protection: "maker_amount + platform fee + builder taker
\* fee <= balance" (fees.go), at the price signed.
BalanceProtected ==
    stage = "signed" /\ Protected(ask) =>
        order.usdc * Scale + OwedFees <= ask.balance * Scale

\* The same for every limit order, and for market orders but at the prices that
\* fall short when they are rounded down once more: the estimate, the amount it
\* leaves and the cut to cents or hundredths never exceed the balance.
WithinBalance ==
    stage = "signed" /\ (ask.kind = "market" => price \notin Falls[tick])
        => BalanceProtected

\* The levels at which the order as signed is matched.
Crossed ==
    {i \in DOMAIN book : IF Buys(ask) THEN book[i].price <= order.price
                                      ELSE book[i].price >= order.price}

\* A fill-or-kill order priced off the book can be filled from it at the price
\* signed, by however many levels, as long as rounding keeps the book's prices;
\* a sale always, since rounding down only makes it cheaper.
BookFills ==
    stage = "signed" /\ book # <<>> /\ ask.type = "FOK"
        /\ (Buys(ask) => \A i \in DOMAIN book :
                             RoundDown(tick, book[i].price) = book[i].price)
    => LET fill == SumFunctionOnSet(
               [i \in DOMAIN book |-> Worth(ask.side, book[i])], Crossed)
       IN  fill >= IF Buys(ask) THEN order.usdc ELSE order.shares
=============================================================================
