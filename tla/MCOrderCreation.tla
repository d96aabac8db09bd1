--------------------------- MODULE MCOrderCreation ---------------------------
(* Two goroutines create orders for a token of a neg-risk market.           *)
(* Addresses are configured in mixed case (ctfC, negC) and cached in lower  *)
(* case (ctf, neg).                                                         *)
EXTENDS OrderCreation, TLC

CONSTANTS c1, c2, ctf, ctfC, neg, negC, yes

MCCallers == {c1, c2}
MCAddresses == {ctf, ctfC, neg, negC}
MCLower == ctf :> ctf @@ ctfC :> ctf @@ neg :> neg @@ negC :> neg
MCExchange == TRUE :> negC @@ FALSE :> ctfC
MCTokens == {yes}

Ask(t, k, n, w, p) ==
    [token |-> t, tick |-> k, neg |-> n, raw |-> w, protect |-> p]

\* The market's minimum tick size goes from 10 to 1, and its fee rate with it; 1
\* is finer than 10, 100 coarser.
MCOpening == [tick |-> 10, rate |-> 30]
MCMarkets == {MCOpening, [tick |-> 1, rate |-> 50]}

MCRequests ==
    {Ask(yes, Unset, Unset, FALSE, FALSE), Ask(yes, 1, Unset, FALSE, TRUE),
     Ask(yes, 100, FALSE, TRUE, FALSE)}
=============================================================================
