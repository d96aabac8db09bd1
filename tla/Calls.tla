------------------------------- MODULE Calls --------------------------------
(***************************************************************************)
(* The calls of ClobClient and RfqClient that are one request: a level to  *)
(* check, headers to sign, one RequestCtx, and an answer that is handed on *)
(* or refused.  Each is a record; what a call does is the same for all,    *)
(* but for a batch of orders, which a request for the version may follow.  *)
(*                                                                         *)
(* The server is external: it may answer with JSON of any shape.           *)
(***************************************************************************)
EXTENDS Session

VARIABLE call    \* the endpoint that is called

\* null, an object, one that states a key in full, an array, anything else.
Shapes == {"none", "object", "key", "list", "text"}

\* takes: the answers handed on; checks: may arguments be refused?
Endpoint(m, l, takes, checks) ==
    [method |-> m, level |-> l, takes |-> takes, checks |-> checks,
     versioned |-> FALSE]

\* For everybody; for level 2; with whatever credentials there are.
Open(m, takes, checks) == Endpoint(m, "L0", takes, checks)
Private(m, takes, checks) == Endpoint(m, "L2", takes, checks)
Unguarded(m, takes) == Endpoint(m, "creds", takes, FALSE)

Anything == Shapes
Object == {"object", "key"}
Key == {"key"}
List == {"list"}

NoCall == Open("GET", {}, FALSE)

-----------------------------------------------------------------------------
(* Orders, the account, notifications.                                     *)

CancelCtx == Private("DELETE", Anything, FALSE)
CancelOrdersCtx == Private("DELETE", Anything, FALSE)
CancelAllCtx == Private("DELETE", Anything, FALSE)
CancelMarketOrdersCtx == Private("DELETE", Anything, FALSE)

\* CancelTyped and its like: null, a list of ids or an object.
decodeCancel == {"none", "list"} \cup Object
CancelTyped == Private("DELETE", decodeCancel, FALSE)
GetOrderTyped == Private("GET", Object, FALSE)

\* A batch, refused as a whole for one order that is missing or both post-only
\* and to be filled at once; a mismatch of versions is looked into.
PostOrdersV2 == [Private("POST", Anything, TRUE) EXCEPT !.versioned = TRUE]

IsOrderScoring == Private("GET", Anything, FALSE)
AreOrdersScoring == Private("POST", Anything, FALSE)
PostHeartbeat == Private("POST", Anything, FALSE)
GetBalanceAllowanceCtx == Private("GET", Object, FALSE)
UpdateBalanceAllowance == Private("GET", Anything, FALSE)
GetNotifications == Private("GET", Anything, FALSE)
DropNotifications == Private("DELETE", Anything, FALSE)
GetClosedOnlyMode == Private("GET", Anything, FALSE)

Orders == {CancelCtx, CancelOrdersCtx, CancelAllCtx, CancelMarketOrdersCtx,
           CancelTyped, GetOrderTyped, PostOrdersV2, IsOrderScoring,
           AreOrdersScoring, PostHeartbeat, GetBalanceAllowanceCtx,
           UpdateBalanceAllowance, GetNotifications, DropNotifications,
           GetClosedOnlyMode}

-----------------------------------------------------------------------------
(* Keys.                                                                   *)

GetAPIKeys == Private("GET", Anything, FALSE)
DeleteAPIKey == Private("DELETE", Anything, FALSE)
CreateReadonlyAPIKey == Private("POST", Object, FALSE)
GetReadonlyAPIKeys == Private("GET", Anything, FALSE)
DeleteReadonlyAPIKey == Private("DELETE", Anything, FALSE)
ValidateReadonlyAPIKey == Open("GET", Anything, FALSE)
CreateBuilderAPIKeyCreds == Private("POST", Anything, FALSE)
GetBuilderAPIKeysList == Private("GET", Anything, FALSE)
RevokeBuilderAPIKeyCreds == Private("DELETE", Anything, FALSE)

\* The secret is told only once: an answer without all three parts is refused.
ParseBuilderApiKey == Key
CreateBuilderAPIKey == Private("POST", ParseBuilderApiKey, FALSE)
CreateBuilderAPIKeyWithAddress == Unguarded("POST", ParseBuilderApiKey)
CreateBuilderAPIKeyCredsWithAddress == Unguarded("POST", Anything)

Keys == {GetAPIKeys, DeleteAPIKey, CreateReadonlyAPIKey, GetReadonlyAPIKeys,
         DeleteReadonlyAPIKey, ValidateReadonlyAPIKey, CreateBuilderAPIKeyCreds,
         GetBuilderAPIKeysList, RevokeBuilderAPIKeyCreds, CreateBuilderAPIKey,
         CreateBuilderAPIKeyWithAddress, CreateBuilderAPIKeyCredsWithAddress}

-----------------------------------------------------------------------------
(* Requests for quotes, but for the two sides of a trade (see Rfq).        *)

CreateRfqRequest == Private("POST", Anything, FALSE)
CancelRfqRequest == Private("DELETE", Anything, FALSE)
GetRfqRequests == Private("GET", Anything, FALSE)
CreateRfqQuote == Private("POST", Anything, FALSE)
CancelRfqQuote == Private("DELETE", Anything, FALSE)
GetRfqBestQuote == Private("GET", Anything, FALSE)
GetRfqConfig == Private("GET", Anything, FALSE)

Trading == {CreateRfqRequest, CancelRfqRequest, GetRfqRequests, CreateRfqQuote,
            CancelRfqQuote, GetRfqBestQuote, GetRfqConfig}

-----------------------------------------------------------------------------
(* Markets, prices and rewards.  Pages are asked for one by one.           *)

GetMarkets == Open("GET", Anything, FALSE)
GetMarket == Open("GET", Anything, FALSE)
GetPrice == Open("GET", Anything, FALSE)
GetPrices == Open("POST", Anything, FALSE)
GetLastTradePrice == Open("GET", Anything, FALSE)
GetOrderBook == Open("GET", Object, FALSE)
GetOrderBooks == Open("POST", List, FALSE)
GetPricesHistory == Open("GET", Anything, TRUE)

GetEarningsForUserForDay == Private("GET", Anything, TRUE)
GetTotalEarningsForUserForDay == Private("GET", Anything, TRUE)
GetLiquidityRewardPercentages == Private("GET", Anything, FALSE)
GetRewardsMarketsForUser == Private("GET", Anything, FALSE)
GetRewardsMarketsCurrent == Open("GET", Anything, FALSE)
GetRewardsMarketsForCondition == Open("GET", Anything, TRUE)
GetCurrentMakerRebate == Open("GET", Anything, TRUE)

Markets == {GetMarkets, GetMarket, GetPrice, GetPrices, GetLastTradePrice,
            GetOrderBook, GetOrderBooks, GetPricesHistory,
            GetEarningsForUserForDay, GetTotalEarningsForUserForDay,
            GetLiquidityRewardPercentages, GetRewardsMarketsForUser,
            GetRewardsMarketsCurrent, GetRewardsMarketsForCondition,
            GetCurrentMakerRebate}

Endpoints == Orders \cup Keys \cup Trading \cup Markets

-----------------------------------------------------------------------------

CallTypeOK == call \in Endpoints \cup {NoCall}

CallInit == call = NoCall

\* The level is enough, and there are credentials where they are used unseen.
BeginCall ==
    /\ op = "call" /\ stage = "enter"
    /\ \E c \in Endpoints :
          /\ c.level = "L2" => Level2
          /\ c.level = "creds" => creds # "none"
          /\ call' = c
          /\ Fresh(c.method)
    /\ stage' = "calling"
    /\ UNCHANGED <<op, params, mode, pages, cursor, results, holes, cut,
                   caller, session>>

\* The level is too low, or an argument is refused.
RefuseCall ==
    /\ op = "call" /\ stage = "enter"
    /\ \E c \in Endpoints : (c.level = "L2" /\ ~Level2) \/ c.checks
    /\ stage' = "failed"
    /\ UNCHANGED <<vars, op, params, mode, pages, cursor, results, holes, cut,
                   caller, session, call>>

\* CreateLevel2HeadersWithAddress reads credentials that are nil: a panic.
CallCrashes ==
    /\ op = "call" /\ stage = "enter"
    /\ creds = "none"
    /\ stage' = "crashed"
    /\ UNCHANGED <<vars, op, params, mode, pages, cursor, results, holes, cut,
                   caller, session, call>>

\* The request, or the one for the version.
CallRequest ==
    /\ op = "call" /\ stage \in {"calling", "version"}
    /\ Client \/ Handle
    /\ UNCHANGED <<listing, session, call>>

\* An answer that is handed on.
TakeAnswer ==
    /\ op = "call" /\ stage = "calling"
    /\ pc = "returned" /\ result = "ok"
    /\ stage' = "called"
    /\ UNCHANGED <<vars, op, params, mode, pages, cursor, results, holes, cut,
                   caller, session, call>>

\* The request failed, or the answer has another shape.
RefuseAnswer ==
    /\ op = "call" /\ stage = "calling"
    /\ pc = "returned"
    /\ result = "ok" => Shapes \ call.takes # {}
    /\ stage' = "failed"
    /\ UNCHANGED <<vars, op, params, mode, pages, cursor, results, holes, cut,
                   caller, session, call>>

\* IsOrderVersionMismatch: ResolveOrderVersion asks for the version anew ...
AskVersion ==
    /\ op = "call" /\ stage = "calling"
    /\ pc = "returned" /\ result = "ok"
    /\ call.versioned
    /\ stage' = "version"
    /\ Fresh("GET")
    /\ UNCHANGED <<op, params, mode, pages, cursor, results, holes, cut,
                   caller, session, call>>

\* ... and whatever comes of it, the answer to the batch is handed on.
VersionAsked ==
    /\ op = "call" /\ stage = "version"
    /\ pc = "returned"
    /\ stage' = "called"
    /\ UNCHANGED <<vars, op, params, mode, pages, cursor, results, holes, cut,
                   caller, session, call>>

SingleCallStep ==
    \/ BeginCall \/ RefuseCall \/ CallCrashes \/ CallRequest
    \/ TakeAnswer \/ RefuseAnswer \/ AskVersion \/ VersionAsked
=============================================================================
