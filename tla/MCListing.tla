----------------------------- MODULE MCListing ------------------------------
(* Instances of Rfq and what it is composed of.  A Cfg(m, b, c, r) is a      *)
(* RetryConfig: m attempts, base delay b, cap c (0: none), r: a POST may be  *)
(* repeated.                                                                 *)
EXTENDS Rfq, TLC

Cfg(m, b, c, r) == [max |-> m, base |-> b, cap |-> c, repost |-> r]

MCMethods == {"GET", "POST", "DELETE"}
\* DefaultRetryConfig (three attempts, 200ms doubled up to 3s) in small units,
\* no retry at all, a repeatable POST without a cap, and two attempts.
MCConfigs == {Cfg(3, 1, 3, FALSE), Cfg(0, 1, 3, FALSE), Cfg(3, 1, 0, TRUE),
              Cfg(2, 1, 3, FALSE)}
MCOneConfig == {Cfg(2, 1, 3, FALSE)}
MCOps == {"request", "list", "auth", "call", "order", "rfq"}
MCOrder == {"order"}
MCList == {"list"}
MCSet == {"set"}
MCNil == {"nil"}

Quote(s, m, f) == [id |-> "wanted", side |-> s, match |-> m, has |-> f]

\* Every side with every match type, and quotes that lack a field each.
MCQuotes ==
    {Quote(s, m, Fields) : s \in {"BUY", "SELL"},
                           m \in {"COMPLEMENTARY", "MINT", "MERGE"}}
    \cup {Quote("SELL", "FULL", Fields), Quote("", "", Fields),
          Quote("BUY", "COMPLEMENTARY", Fields \ {"sizeIn"}),
          Quote("SELL", "MERGE", Fields \ {"sizeOut"}),
          Quote("BUY", "MINT", Fields \ {"complement"}),
          Quote("SELL", "MERGE", Fields \ {"token"})}
MCOther == [id |-> "other", side |-> "SELL", match |-> "MINT", has |-> Fields]

\* Prices in cents.  Ticks of 0.01 and 0.1; 0.29 * 100, 0.57 * 100 and
\* 0.58 * 100 are the float64 products that fall short of the whole number, and
\* no price times 10 does.
MCTicks == {1, 10}
MCFalls == 1 :> {29, 57, 58} @@ 10 :> {}
\* The fee curve, to four places, for the exponents 1 and 2.
MCCurve ==
    [e \in {1, 2} |->
        [p \in 0..100 |->
            LET c == p * (100 - p) IN IF e = 1 THEN c ELSE (c * c) \div 10000]]
MCFeeInfos == {[rate |-> 2, exp |-> 1], [rate |-> 5, exp |-> 2]}
MCSlippages == {0, 50}
MCBuilderRates == {100}

Order(k, s, p, a, t, b, w) ==
    [kind |-> k, side |-> s, price |-> p, amount |-> a, type |-> t,
     balance |-> b, builder |-> w]

\* Orders with a price of their own and orders priced off the book, with
\* balances that cover amount and fees, the amount alone, not even the amount,
\* and next to nothing.
MCAsks ==
    {Order("market", "BUY", p, 20000, "FOK", b, FALSE) :
         p \in {0, 58}, b \in {20700, 20173, 15000, 3}}
    \cup {Order("market", "BUY", 58, 20000, "FOK", 20300, TRUE),
          Order("limit", "BUY", 55, 31400, "GTC", 17300, TRUE)}
    \cup {Order("limit", "BUY", 29, 31400, "GTC", b, FALSE) :
         b \in {NoBalance, 0, 9200}}
    \cup {Order("market", s, 0, a, t, NoBalance, FALSE) :
         s \in {"BUY", "SELL"}, a \in {9000, 20077}, t \in {"FOK", "FAK"}}
    \cup {Order("limit", "SELL", 58, 31450, "GTC", NoBalance, FALSE)}

Level(p, s) == [price |-> p, size |-> s]

\* The best level last: asks fall, bids rise.
MCBooks ==
    [BUY  |-> {<<>>, <<Level(50, 40100)>>,
               <<Level(95, 20000), Level(58, 30000), Level(50, 20000)>>,
               <<Level(90, 20000), Level(60, 10000), Level(50, 20000)>>},
     SELL |-> {<<>>, <<Level(45, 20000)>>,
               <<Level(4, 20000), Level(29, 11000), Level(55, 9000)>>}]

\* A request alone meets every configuration, a listing and an authentication
\* the default one, what is longer two attempts.
MCInit ==
    /\ RfqInit
    /\ op \in {"list", "auth"} => cfg = Cfg(3, 1, 3, FALSE)
    /\ op \in {"call", "order", "rfq"} => cfg = Cfg(2, 1, 3, FALSE)
MCSpec == MCInit /\ [][RfqNext]_rfqVars
          /\ WF_rfqVars(RequestStep) /\ WF_rfqVars(CallStep)
=============================================================================
