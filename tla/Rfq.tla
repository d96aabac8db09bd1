-------------------------------- MODULE Rfq ---------------------------------
(***************************************************************************)
(* A request for quote: the requester accepts a quote (AcceptQuote) and    *)
(* the quoter approves it (ApproveOrder).  Each of them fetches the quote  *)
(* again, derives its own order from it, signs and POSTs it.  They are two *)
(* clients that share nothing but the server's quote, so the model runs    *)
(* one after the other.                                                    *)
(*                                                                         *)
(* The server is external: a quote does not change, and an answer lists    *)
(* quotes in any order, perhaps without the one asked for.  A quote may    *)
(* lack any of its fields.                                                 *)
(***************************************************************************)
EXTENDS PricedOrder, Calls

CONSTANTS
    Quotes,    \* what the quote may be: [id, side, match, has]
    Other,     \* another quote the server may list
    NoQuote,
    NoLeg

Sides == {"BUY", "SELL"}
Missing == ""
Fields == {"token", "complement", "sizeIn", "sizeOut"}

ASSUME QuoteAssumption ==
    /\ NoQuote \notin Quotes \cup {Other}
    /\ \A q \in Quotes \cup {Other} :
          /\ q.side \in Sides \cup {Missing} /\ q.has \subseteq Fields
          /\ q.match \in {"COMPLEMENTARY", "MINT", "MERGE", "FULL", Missing}
          /\ q.id = Other.id => q = Other

VARIABLES
    party,   \* whose call is under way
    quote,   \* the quote that both parties name
    picked,  \* rfqQuote
    legs     \* the order each party has signed: [token, side, size]

trade == <<party, quote, picked, legs>>
rfqVars == <<allVars, session, deal, call, trade>>

Parties == {"requester", "quoter"}
Legs == [token : {"token", "complement"}, side : Sides,
         size : {"sizeIn", "sizeOut", "zero"}]

RfqTypeOK ==
    /\ ListingTypeOK /\ SessionTypeOK /\ DealTypeOK /\ CallTypeOK
    /\ party \in Parties
    /\ quote \in Quotes \cup {NoQuote}
    /\ picked \in Quotes \cup {Other, NoQuote}
    /\ legs \in [Parties -> Legs \cup {NoLeg}]

RfqInit ==
    /\ DealInit /\ CallInit
    /\ party = "requester"
    /\ quote = NoQuote /\ picked = NoQuote
    /\ legs = [p \in Parties |-> NoLeg]

-----------------------------------------------------------------------------
(* The order each party derives from the quote.                            *)

\* A missing side is a BUY, a missing match type COMPLEMENTARY.
SideOf(q) == IF q.side = Missing THEN "BUY" ELSE q.side
MatchOf(q) == IF q.match = Missing THEN "COMPLEMENTARY" ELSE q.match

\* Mutant: the requester of a complementary match keeps the quote's side.
SameSide(side) == side

Opposite(side) == IF side = "BUY" THEN "SELL" ELSE "BUY"

\* getRequestOrderCreationPayload: the order of the requester.
RequesterLeg(q) ==
    IF MatchOf(q) = "COMPLEMENTARY"
    THEN [token |-> "token", side |-> Opposite(SideOf(q)),
          size |-> IF Opposite(SideOf(q)) = "BUY" THEN "sizeOut" ELSE "sizeIn"]
    ELSE [token |-> "complement", side |-> SideOf(q),
          size |-> IF SideOf(q) = "BUY" THEN "sizeIn" ELSE "sizeOut"]

\* It refuses another match type, and a quote that lacks token or size.
RequesterRefuses(q) ==
    \/ MatchOf(q) \notin {"COMPLEMENTARY", "MINT", "MERGE"}
    \/ RequesterLeg(q).token \notin q.has
    \/ RequesterLeg(q).size \notin q.has

\* ApproveOrder: the quoter's own side of the quote, whatever its match type;
\* a missing size reads as zero.
QuoterLeg(q) ==
    LET size == IF SideOf(q) = "BUY" THEN "sizeIn" ELSE "sizeOut"
    IN  [token |-> "token", side |-> SideOf(q),
         size |-> IF size \in q.has THEN size ELSE "zero"]

Leg(p, q) == IF p = "requester" THEN RequesterLeg(q) ELSE QuoterLeg(q)

-----------------------------------------------------------------------------

\* ensureL2Auth, and the GET for the quote.
FetchQuotes ==
    /\ op = "rfq" /\ stage = "enter"
    /\ Level2
    /\ stage' = "quotes"
    /\ Fresh("GET")
    /\ UNCHANGED <<op, params, mode, pages, cursor, results, holes, cut,
                   caller, session, deal, call, trade>>

\* The other party's turn, or the end; the request is forgotten.
NextParty ==
    /\ Fresh("GET")
    /\ picked' = NoQuote
    /\ party' = "quoter"
    /\ stage' = IF party = "requester" THEN "enter" ELSE "traded"
    /\ UNCHANGED <<op, params, mode, pages, cursor, results, holes, cut,
                   caller>>

RefuseLevel ==
    /\ op = "rfq" /\ stage = "enter"
    /\ ~Level2
    /\ NextParty
    /\ UNCHANGED <<session, deal, call, quote, legs>>

\* The requests of both POSTs and GETs, through RequestCtx.
RfqRequest ==
    /\ op = "rfq" /\ stage \in {"quotes", "post"}
    /\ Client \/ Handle
    /\ UNCHANGED <<listing, session, deal, call, trade>>

\* What the answer can list.
Lists(q) == {<<>>, <<Other>>, <<q>>, <<Other, q>>}

\* Of the quotes listed, those with the id that was asked for.
Find(list, q) == {list[i] : i \in {j \in DOMAIN list : list[j].id = q.id}}

\* The quote is found and accepted as the base of an order.
TakeQuote ==
    /\ op = "rfq" /\ stage = "quotes"
    /\ pc = "returned" /\ result = "ok"
    /\ \E q \in (IF quote = NoQuote THEN Quotes ELSE {quote}) :
       \E list \in Lists(q) : \E found \in Find(list, q) :
           /\ party = "requester" => ~RequesterRefuses(found)
           /\ quote' = q
           /\ picked' = found
    /\ stage' = "sign"
    /\ Fresh("GET")
    /\ UNCHANGED <<op, params, mode, pages, cursor, results, holes, cut,
                   caller, session, deal, call, party, legs>>

\* The request failed, the quote is not listed, or it is refused.
DropQuote ==
    /\ op = "rfq" /\ stage = "quotes"
    /\ pc = "returned"
    /\ NextParty
    /\ UNCHANGED <<session, deal, call, quote, legs>>

\* CreateOrderForRFQ asks for tick size, neg-risk flag and fee rate, checks
\* the price and signs; the server knows no token without a name.  The order
\* is POSTed.
SignAndPost ==
    /\ op = "rfq" /\ stage = "sign"
    /\ Leg(party, picked).token \in picked.has
    /\ legs' = [legs EXCEPT ![party] = Leg(party, picked)]
    /\ stage' = "post"
    /\ Fresh("POST")
    /\ UNCHANGED <<op, params, mode, pages, cursor, results, holes, cut,
                   caller, session, deal, call, party, quote, picked>>

SignFails ==
    /\ op = "rfq" /\ stage = "sign"
    /\ NextParty
    /\ UNCHANGED <<session, deal, call, quote, legs>>

\* The POST returns, with an answer or an error.
Posted ==
    /\ op = "rfq" /\ stage = "post"
    /\ pc = "returned"
    /\ NextParty
    /\ UNCHANGED <<session, deal, call, quote, legs>>

RfqStep == FetchQuotes \/ RefuseLevel \/ RfqRequest \/ TakeQuote \/ DropQuote
           \/ SignAndPost \/ SignFails \/ Posted

-----------------------------------------------------------------------------
(* A program that makes one operation of Ops, after authenticating or not. *)

\* A single request, cancelled by its own context.
Request ==
    /\ op = "request"
    /\ Next
    /\ UNCHANGED <<listing, session, deal, call, trade>>

RequestStep == op = "request" /\ Client /\ UNCHANGED <<listing, session, deal, call, trade>>

CallStep ==
    \/ ListStep /\ UNCHANGED <<session, deal, call, trade>>
    \/ AuthStep /\ UNCHANGED <<deal, call, trade>>
    \/ Proceed /\ UNCHANGED <<deal, call, trade>>
    \/ DealStep /\ UNCHANGED <<call, trade>>
    \/ SingleCallStep /\ UNCHANGED <<deal, trade>>
    \/ RfqStep

External == \/ Leave /\ UNCHANGED <<session, deal, call, trade>>
            \/ ServeLate /\ UNCHANGED <<deal, call, trade>>

RfqNext == Request \/ CallStep \/ External

RfqSpec == RfqInit /\ [][RfqNext]_rfqVars

\* The goroutine runs and http.Client's timeout ends every attempt; nothing
\* forces the server's late work or the caller that leaves.
FairRfqSpec == RfqSpec /\ WF_rfqVars(RequestStep) /\ WF_rfqVars(CallStep)

-----------------------------------------------------------------------------
(* Properties.                                                             *)

\* What needs level 2 - a listing, a call, a trade - goes out only with
\* credentials to sign it, whatever became of the authentication before.
SignedWithCreds ==
    LET needed == \/ op \in {"list", "rfq"}
                  \/ (op = "call" /\ stage = "calling" /\ call.level # "L0")
    IN  pc = "flight" /\ needed => creds # "none"

\* The two orders of a trade fit each other: one size, and either the same
\* token bought by one and sold by the other, or the two complementary tokens
\* both bought (minted) or both sold (merged).
LegsMatch ==
    LET r == legs["requester"]  q == legs["quoter"]
    IN  r # NoLeg /\ q # NoLeg =>
            r.size = q.size /\ (r.token = q.token <=> r.side # q.side)

\* Every call ends: a request, a listing, an authentication, a single call, an
\* order and the two sides of a trade.
CallsEnd ==
    /\ op = "request" ~> pc = "returned"
    /\ ListingEnds
    /\ op = "auth" ~> stage \in {"listed", "failed", "called", "crashed", "signed",
                                "unsigned", "traded"}
    /\ op = "call" ~> stage \in {"called", "failed", "crashed"}
    /\ op = "order" ~> stage \in {"signed", "unsigned"}
    /\ op = "rfq" ~> stage = "traded"
=============================================================================
