------------------------------ MODULE Listing -------------------------------
(***************************************************************************)
(* The listings of ClobClient (GetOrders, GetTrades, GetPreMigrationOrders *)
(* and GetBuilderTrades) over RequestCtx: a loop that asks page after page *)
(* until the server names the end cursor.  A listing may run in the        *)
(* goroutine of a Typed...Ctx variant, whose caller stops waiting when its *)
(* context ends.  A single request (op = "request") is RequestCtx alone,   *)
(* its context in the caller's hands; the operations "auth", "call",       *)
(* "order" and "rfq" are those of Session, Calls, PricedOrder and Rfq.     *)
(*                                                                         *)
(* The server is external: page p of its list is found under cursor p, and *)
(* a request without a cursor is answered with the first page.  A 200 may  *)
(* be an object that leaves out the page's data or the cursor that follows *)
(* it; a cursor it does state is the right one.  (GetBuilderTrades checks  *)
(* a builder code where the others check the level.)                       *)
(***************************************************************************)
EXTENDS HttpRetry

CONSTANTS
    Ops,        \* the operations the program makes
    MaxPages,   \* bound: pages of the server's list
    ParamKinds  \* "set": a params struct, "nil": none

ASSUME ListingAssumption ==
    /\ Ops \subseteq {"request", "list", "auth", "call", "order", "rfq"}
    /\ MaxPages \in Nat \ {0}
    /\ ParamKinds \subseteq {"set", "nil"}

VARIABLES
    op,       \* the operation under way
    params,   \* the params argument of the listing
    mode,     \* c.mode
    pages,    \* the server's list has so many pages
    cursor,   \* nextCursor
    results,  \* the pages collected (the last ones forgotten past a bound)
    holes,    \* history: pages whose answer had no data
    cut,      \* history: the page whose answer lacked the cursor of the next
              \* one (0: none)
    stage,    \* where the operation is
    caller    \* the caller of the Typed...Ctx variant

listing == <<op, params, mode, pages, cursor, results, holes, cut, stage, caller>>
allVars == <<vars, listing>>

First == 1           \* "MA=="
EndCursor == 0       \* "LTE="

Stages == {"enter", "loop", "page", "listed", "failed"}    \* of a listing
          \cup {"create", "derive", "headers", "keyed", "noCreds",
                "unissued"}                                   \* of Session
          \cup {"priceless", "book", "fee", "rate", "adjust", "amounts",
                "signed", "unsigned"}                         \* of PricedOrder
          \cup {"calling", "version", "called", "crashed"}    \* of Calls
          \cup {"quotes", "sign", "post", "traded"}           \* of Rfq

ListingTypeOK ==
    /\ TypeOK
    /\ op \in Ops
    /\ params \in ParamKinds
    /\ mode \in {"L0", "L1", "L2"}
    /\ pages \in 1..MaxPages
    /\ cursor \in 0..MaxPages
    /\ results \in Seq(1..MaxPages)
    /\ holes \subseteq 1..MaxPages
    /\ cut \in 0..MaxPages
    /\ stage \in Stages
    /\ caller \in {"waiting", "answered", "gone"}

ListInit ==
    /\ Init
    /\ op \in Ops /\ (op # "request" => method = "GET")
    /\ params \in ParamKinds
    /\ mode \in {"L0", "L1", "L2"} /\ (op = "request" => mode = "L2")
    /\ pages \in (IF op = "list" THEN 1..MaxPages ELSE {1})
    /\ cursor = First
    /\ results = <<>>
    /\ holes = {} /\ cut = 0
    /\ stage = "enter"
    /\ caller = "waiting"

-----------------------------------------------------------------------------

\* The steps of the request for one page.  Get passes context.Background(), so
\* nobody cancels it; a page served late changes nothing.
PageRequest ==
    /\ op = "list" /\ stage = "page"
    /\ Client \/ Handle
    /\ UNCHANGED listing

\* Mutant: a signer is enough.
AnySigner == mode # "L0"

\* assertLevel2Auth
Level2 == mode = "L2"

\* The level and the headers, made once for all pages.
Enter ==
    /\ op = "list" /\ stage = "enter"
    /\ stage' = IF Level2 THEN "loop" ELSE "failed"
    /\ UNCHANGED <<vars, op, params, mode, pages, cursor, results, holes, cut,
                   caller>>

\* The condition of the loop.
AtEnd(c) == c = EndCursor

\* The state of a new request, with a RequestCtx of its own; what is left of the
\* one before is forgotten.
Fresh(m) ==
    /\ method' = m
    /\ pc' = "start" /\ result' = "none"
    /\ attempts' = 0 /\ attempt' = 0 /\ delay' = 0
    /\ answers' = <<>>
    /\ handled' = FALSE /\ late' = 0 /\ effects' = 0
    /\ UNCHANGED <<cfg, ctx>>

\* The head of the loop.
AskPage ==
    /\ op = "list" /\ stage = "loop" /\ ~AtEnd(cursor)
    /\ stage' = "page"
    /\ Fresh("GET")
    /\ UNCHANGED <<op, params, mode, pages, cursor, results, holes, cut,
                   caller>>

\* The cursor the query carries: AddQuery...Params adds it only to a query
\* that has params.
SentCursor == IF params = "nil" THEN First ELSE cursor

\* The page the server finds there, and the cursor that follows it.
Answered == SentCursor
After(p) == IF p < pages THEN p + 1 ELSE EndCursor

Parts == {"data", "next_cursor"}    \* what an answer may state

\* Mutant: a missing cursor leaves the old one.
KeepCursor(c, p, stated) == IF "next_cursor" \in stated THEN After(p) ELSE c

\* next_cursor, or the end when the answer has none, be there more pages or not.
NextCursor(c, p, stated) ==
    IF "next_cursor" \in stated THEN After(p) ELSE EndCursor

\* results = append(results, data...), as far as it is remembered; an answer
\* without data adds nothing.
Collect(s, p, stated) ==
    IF "data" \in stated /\ Len(s) <= MaxPages THEN Append(s, p) ELSE s

\* An answer has come, which is an object.
TakePage ==
    /\ op = "list" /\ stage = "page"
    /\ pc = "returned" /\ result = "ok"
    /\ \E stated \in SUBSET Parts :
         /\ results' = Collect(results, Answered, stated)
         /\ cursor' = NextCursor(cursor, Answered, stated)
         /\ holes' = IF "data" \in stated THEN holes ELSE holes \cup {Answered}
         /\ cut' = IF "next_cursor" \in stated \/ Answered = pages THEN cut
                                                                    ELSE Answered
    /\ stage' = "loop"
    /\ Fresh("GET")
    /\ UNCHANGED <<op, params, mode, pages, caller>>

\* Mutant: the pages collected before the failure are returned as the list.
PartialList == "listed"

\* What an error anywhere in the loop makes of the listing.
Abort == "failed"

\* The request failed, or its answer is not an object: the pages collected
\* so far are dropped.
DropPages ==
    /\ op = "list" /\ stage = "page"
    /\ pc = "returned"
    /\ stage' = Abort
    /\ Fresh("GET")
    /\ UNCHANGED <<op, params, mode, pages, cursor, results, holes, cut,
                   caller>>

\* The loop ends.
Finish ==
    /\ op = "list" /\ stage = "loop" /\ AtEnd(cursor)
    /\ stage' = "listed"
    /\ UNCHANGED <<vars, op, params, mode, pages, cursor, results, holes, cut,
                   caller>>

\* The Typed...Ctx caller hears from its goroutine.
Hear ==
    /\ op = "list" /\ caller = "waiting"
    /\ stage \in {"listed", "failed"}
    /\ caller' = "answered"
    /\ UNCHANGED <<vars, op, params, mode, pages, cursor, results, holes, cut,
                   stage>>

\* Its context ends first: it leaves, the goroutine goes on.
Leave ==
    /\ op = "list" /\ caller = "waiting" /\ stage # "enter"
    /\ caller' = "gone"
    /\ UNCHANGED <<vars, op, params, mode, pages, cursor, results, holes, cut,
                   stage>>

ListStep ==
    Enter \/ AskPage \/ PageRequest \/ TakePage \/ DropPages \/ Finish \/ Hear

-----------------------------------------------------------------------------
(* Properties.                                                             *)

\* A listing that returns no error is what the server has told: in its order,
\* every page once whose own answer stated data, up to the last page or to the
\* first one whose answer left out the cursor.  So a list is partial only where an
\* answer was, never through failures, retries or a caller that leaves.  (With nil
\* params there is but the first page.)
CompleteListing ==
    op = "list" /\ stage = "listed" /\ (params = "nil" => pages = 1) =>
        LET reached == IF cut = 0 THEN pages ELSE cut
        IN  /\ {results[i] : i \in DOMAIN results} = 1..reached \ holes
            /\ \A i, j \in DOMAIN results : i < j => results[i] < results[j]

\* GetOrders(nil, "") "gets all orders": every listing ends.
ListingEnds == op = "list" ~> stage \in {"listed", "failed"}
=============================================================================
