---------------------------- MODULE OrderAmounts ----------------------------
(***************************************************************************)
(* The arithmetic of an order: the market price read off an order book,    *)
(* the rounding of prices to the tick, the amount a balance can pay        *)
(* together with its fees, and the two amounts that are signed.            *)
(*                                                                         *)
(* The code computes in float64; here numbers are exact, in these units:   *)
(*   prices     points, One of them make 1 USDC per token;                 *)
(*   shares     One of them make a hundredth of a token, the precision     *)
(*              (RoundConfig.Size) to which orders are cut;                *)
(*   USDC       One of them make a cent; Scale to one in a sum with fees;  *)
(*   fee rates  Scale of them make 100%.                                   *)
(* What float64 does to math.Floor is kept: the product that should be a   *)
(* whole number may come out just below it.  For the prices of the tick    *)
(* grid Falls says where; for amounts it is left open.                     *)
(***************************************************************************)
EXTENDS Integers, Sequences, Functions, FiniteSetsExt

CONSTANTS
    One,       \* see above
    Scale,     \* see above
    Ticks,     \* tick sizes of RoundingConfig, in points
    Falls,     \* Falls[t]: prices whose product with the power of ten of
               \* tick t falls just below the exact one
    Exponents, \* exponents of the fee curve
    Curve      \* Curve[e][p]: math.Pow(p * (1 - p), e), in parts of Scale

ASSUME AmountsAssumption ==
    /\ One \in Nat \ {0} /\ Scale \in Nat \ {0} /\ Scale % One = 0
    /\ Ticks \subseteq 1..One
    /\ Falls \in [Ticks -> SUBSET (1..One)] /\ \A t \in Ticks : t \notin Falls[t]
    /\ Exponents \subseteq Nat
    /\ Curve \in [Exponents -> [0..One -> Nat]]

NoPrice == 0

-----------------------------------------------------------------------------
(* Prices.                                                                 *)

PriceValid(p, t) == p \in t..(One - t)

\* math.Floor of the product: one grid step low where the product falls short.
RoundDown(t, p) == ((IF p \in Falls[t] THEN p - 1 ELSE p) \div t) * t

\* math.Round of the product: a half goes up unless it falls short.
RoundNormal(t, p) ==
    ((2 * p + t - (IF p \in Falls[t] THEN 1 ELSE 0)) \div (2 * t)) * t

\* The price an order is made with, and made with again when its amounts are
\* computed: limit orders round to the nearest tick, market orders down.
Rounded(kind, t, p) ==
    IF kind = "market" THEN RoundDown(t, p) ELSE RoundNormal(t, p)

-----------------------------------------------------------------------------
(* The market price: the levels of a book come with the best one last.     *)

\* What a level of the side that is taken adds to the amount asked for: USDC
\* when buying, shares when selling.
Worth(side, level) ==
    IF side = "BUY" THEN (level.size * level.price) \div One ELSE level.size

\* The sum after the level i, counted from the end.
SumFrom(side, levels, i) ==
    SumFunctionOnSet([j \in DOMAIN levels |-> Worth(side, levels[j])],
                     i..Len(levels))

\* Mutant: the scan stops one level early.
OneLevelEarly(side, levels, amount) ==
    {i \in DOMAIN levels : i > 1 /\ SumFrom(side, levels, i - 1) >= amount}

\* The levels at which the sum has reached the amount.
Reached(side, levels, amount) ==
    {i \in DOMAIN levels : SumFrom(side, levels, i) >= amount}

\* CalculateBuyMarketPrice, CalculateSellMarketPrice: the first of them from the
\* end, or without one the last price of the book unless all must be filled.
MarketPrice(side, levels, amount, type) ==
    IF levels = <<>> THEN NoPrice
    ELSE IF Reached(side, levels, amount) # {}
    THEN levels[Max(Reached(side, levels, amount))].price
    ELSE IF type = "FOK" THEN NoPrice ELSE levels[1].price

-----------------------------------------------------------------------------
(* Fees.                                                                   *)

\* The platform's fee on 1 USDC spent at price p, with the slippage allowed for
\* it (in per cent): (feeBase / price) * rate * (price * (1 - price))^exp.
FeeRate(info, p, slippage) ==
    (info.rate * Curve[info.exp][p] * (100 + slippage) * One) \div (10000 * p)

Least(a, b) == IF a <= b THEN a ELSE b

\* a - b, not below 0.
Less(a, b) == IF a <= b THEN 0 ELSE a - b

\* Mutant: the fee is not taken off when the balance covers the amount alone.
CoversAmount(amount, balance, rate) ==
    IF balance * Scale <= amount
    THEN Less(balance * Scale, balance * rate)
    ELSE amount

\* AdjustBuyAmountForFees: amount and result count Scale to a unit of USDC,
\* rate is the platform's and the builder's together.
AdjustBuyAmountForFees(amount, balance, rate) ==
    LET fees == Least(amount \div Scale, balance) * rate
    IN  IF balance * Scale <= amount + fees
        THEN Less(balance * Scale, fees)
        ELSE amount

-----------------------------------------------------------------------------
(* The amounts that are signed.                                            *)

\* RoundDown of a quantity to whole pieces of so many units; where it is
\* whole, the product may fall short of it.
Whole(x, piece, short) ==
    (IF short /\ x > 0 /\ x % piece = 0 THEN x - 1 ELSE x) \div piece

\* A market buy: whole cents, and the shares they buy, to a precision of the
\* size's digits and the price's.  Rounding up four digits further on only
\* takes back what the division lost.
MarketBuy(money, p, t, short) ==
    LET usdc == Whole(money, One * Scale, short) * One
    IN  [usdc |-> usdc, shares |-> (((usdc * One) \div p) \div t) * t]

\* A limit buy: whole hundredths of a token and what they cost.
LimitBuy(money, p, short) ==
    LET hundredths == Whole(money, p * Scale, short)
    IN  [usdc |-> hundredths * p, shares |-> hundredths * One]

\* A sale of either kind.
Sale(shares, p, short) ==
    LET hundredths == Whole(shares, One, short)
    IN  [usdc |-> hundredths * p, shares |-> hundredths * One]
=============================================================================
