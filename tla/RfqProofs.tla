----------------------------- MODULE RfqProofs ------------------------------
(***************************************************************************)
(* The theorems about the program of Rfq and what it is composed of.       *)
(*                                                                         *)
(* One request: for every retry configuration a request that must not be   *)
(* repeated takes effect at most once, and a definite answer is final.     *)
(*                                                                         *)
(* The program as a sequence of requests: each of its steps is a step of   *)
(* RequestCtx or starts another request, so that what is proved of one     *)
(* request holds of all that the program makes, the late handling of the   *)
(* creation of a key included.  On that rest: a listing is complete, a key *)
(* is recovered, and what needs level 2 is sent only with credentials.     *)
(*                                                                         *)
(* The two orders of an RFQ trade fit each other, whatever the quotes:     *)
(* each is derived from the one quote with the id the parties named, and   *)
(* the requester's refusals rule out the fields whose absence would set    *)
(* the two derivations apart.                                              *)
(*                                                                         *)
(* A buy with balance protection stays within the balance with both fees,  *)
(* whatever the rates, the slippage and the shortfalls of the rounding, as *)
(* long as the price is signed as estimated: what is left after the        *)
(* adjustment is at most the amount the fees were computed on.             *)
(*                                                                         *)
(* Last, everything the program does is short: a measure of its stages and *)
(* of the request under way decreases with each of its steps.              *)
(***************************************************************************)
EXTENDS Rfq, OrderAmountsProofs

-----------------------------------------------------------------------------
(* One request.                                                            *)

\* The parts of the type invariant the argument needs.
CountersTyped ==
    /\ cfg \in Configs
    /\ pc \in Labels
    /\ attempts \in Nat /\ attempt \in Nat
    /\ late \in Nat /\ effects \in Nat

\* Requests given to the transport so far: the attempts that ended, and the
\* one in flight.
Sent == IF pc \in {"flight", "returned"} THEN attempt + 1 ELSE attempt

\* Requests the server may still handle.
Pending == IF pc = "flight" /\ ~handled THEN late + 1 ELSE late

\* Every effect, past or still possible, is that of a request sent, and the
\* loop never starts an attempt beyond its bound.
EffectsInv ==
    /\ CountersTyped
    /\ effects + Pending <= Sent
    /\ pc = "start" => attempt = 0
    /\ pc \in {"backoff", "send", "flight"} =>
         attempts = Attempts /\ attempt < attempts
    /\ pc = "returned" => attempts = Attempts /\ attempt < attempts

LEMMA AttemptsTyped ==
    ASSUME cfg \in Configs
    PROVE  Attempts \in Nat \ {0} /\ (~Idempotent => Attempts = 1)
<1> QED  BY HttpAssumption DEF Attempts, Idempotent

LEMMA EffectsInit == Init => EffectsInv
<1> QED
    BY DEF Init, EffectsInv, CountersTyped, Sent, Pending, Labels

LEMMA EffectsStep == EffectsInv /\ [Next]_vars => EffectsInv'
<1> SUFFICES ASSUME EffectsInv, [Next]_vars PROVE EffectsInv'
    OBVIOUS
<1>a. Attempts \in Nat \ {0}
    BY AttemptsTyped DEF EffectsInv, CountersTyped
<1>b. ASSUME UNCHANGED <<cfg, method>> PROVE Attempts' = Attempts
    BY <1>b DEF Attempts, Idempotent
<1> USE DEF EffectsInv, CountersTyped, Sent, Pending, Labels, client
<1>1. CASE Start
    BY <1>1, <1>a, <1>b DEF Start
<1>2. CASE Wait
    BY <1>2, <1>b DEF Wait
<1>3. CASE WaitCancelled
    BY <1>3, <1>b DEF WaitCancelled, Return
<1>4. CASE Send
    BY <1>4, <1>b DEF Send, Return
<1>5. CASE Reply
  <2>1. PICK a \in Answers :
            /\ late' = IF handled \/ a = "business" THEN late ELSE late + 1
            /\ \/ /\ attempt + 1 < attempts
                  /\ attempt' = attempt + 1
                  /\ pc' = "backoff"
               \/ pc' = "returned" /\ attempt' = attempt
    BY <1>5 DEF Reply, Return, Last
  <2>2. /\ pc = "flight" /\ handled' = FALSE
        /\ UNCHANGED <<cfg, method, attempts, effects>>
    BY <1>5 DEF Reply
  <2> QED
    BY <2>1, <2>2, <1>b
<1>6. CASE Handle
    BY <1>6, <1>b DEF Handle
<1>7. CASE HandleLate
    BY <1>7, <1>b DEF HandleLate
<1>8. CASE Cancel
    BY <1>8, <1>b DEF Cancel
<1>9. CASE UNCHANGED vars
    BY <1>9, <1>b DEF vars
<1> QED
    BY <1>1, <1>2, <1>3, <1>4, <1>5, <1>6, <1>7, <1>8, <1>9 DEF Next, Client

\* A POST under a configuration that does not declare it repeatable is placed
\* at most once, whatever fails, times out, is cancelled or arrives late.
THEOREM PostTakesEffectOnce == Spec => []NonIdempotentOnce
<1>1. EffectsInv => NonIdempotentOnce
  <2> SUFFICES ASSUME EffectsInv, ~Idempotent PROVE effects <= 1
    BY DEF NonIdempotentOnce, Idempotent
  <2>1. Attempts = 1
    BY AttemptsTyped DEF EffectsInv, CountersTyped
  <2> QED
    BY <2>1 DEF EffectsInv, CountersTyped, Sent, Pending, Labels
<1> QED  BY <1>1, EffectsInit, EffectsStep, PTL DEF Spec

-----------------------------------------------------------------------------

\* A definite answer is the last one, and the result of a request that is over;
\* and while a request goes on it has no result.
AnswersInv ==
    /\ answers \in Seq(Answers)
    /\ \A i \in DOMAIN answers :
          answers[i] \in {"ok", "business"}
              => i = Len(answers) /\ pc = "returned" /\ result = answers[i]
    /\ result = "none" <=> pc # "returned"

LEMMA AnswersInit == Init => AnswersInv
<1> QED
    BY DEF Init, AnswersInv

LEMMA AnswersStep == AnswersInv /\ [Next]_vars => AnswersInv'
<1> SUFFICES ASSUME AnswersInv, [Next]_vars PROVE AnswersInv'
    OBVIOUS
<1>1. CASE Start \/ Wait \/ WaitCancelled \/ Send \/ Handle \/ HandleLate \/ Cancel
    BY <1>1 DEF AnswersInv, Start, Wait, WaitCancelled, Send, Handle, HandleLate,
                Cancel, Return
<1>2. CASE Reply
  <2>1. PICK a \in Answers :
            /\ answers' = Append(answers, a)
            /\ \/ Retryable(a) /\ pc' = "backoff" /\ result' = result
               \/ Retryable(a) /\ pc' = "returned" /\ result' = "exhausted"
               \/ pc' = "returned" /\ result' = a
    BY <1>2 DEF Reply, Return
  <2>2. pc = "flight"
    BY <1>2 DEF Reply
  <2>3. \A i \in DOMAIN answers : answers[i] \notin {"ok", "business"}
    BY <2>2 DEF AnswersInv
  <2>4. answers' \in Seq(Answers) /\ Len(answers') = Len(answers) + 1
        /\ \A i \in DOMAIN answers' :
              answers'[i] = IF i = Len(answers') THEN a ELSE answers[i]
    BY <2>1 DEF AnswersInv
  <2>5. \A i \in DOMAIN answers' :
            answers'[i] \in {"ok", "business"} => i = Len(answers') /\ answers'[i] = a
    BY <2>3, <2>4 DEF AnswersInv
  <2> QED
    BY <2>1, <2>2, <2>4, <2>5 DEF AnswersInv, Retryable, Answers
<1>3. CASE UNCHANGED vars
    BY <1>3 DEF AnswersInv, vars
<1> QED
    BY <1>1, <1>2, <1>3 DEF Next, Client

\* Nothing is sent after a success or a business error, and that answer is what
\* the caller gets.
THEOREM DefiniteIsFinal == Spec => []DefiniteAnswerIsFinal
<1>1. AnswersInv => DefiniteAnswerIsFinal
    BY DEF AnswersInv, DefiniteAnswerIsFinal
<1> QED
    BY <1>1, AnswersInit, AnswersStep, PTL DEF Spec

-----------------------------------------------------------------------------
(* The program.                                                            *)

LEMMA InitIsRequest == RfqInit => Init
<1> QED
    BY DEF RfqInit, DealInit, SessionInit, ListInit

\* The methods there are, and what can be asked of the caller's level.
MethodNames == {"GET", "POST", "DELETE"}

LEMMA EndpointTyped ==
    \A c \in Endpoints : c.method \in MethodNames /\ c.level \in {"L0", "L2", "creds"}
<1> QED
    BY DEF MethodNames, Endpoints, Orders, Keys, Trading, Markets, Endpoint, Open,
           Private, Unguarded, CancelCtx, CancelOrdersCtx, CancelAllCtx,
           CancelMarketOrdersCtx, CancelTyped, GetOrderTyped, PostOrdersV2,
           IsOrderScoring, AreOrdersScoring, PostHeartbeat, GetBalanceAllowanceCtx,
           UpdateBalanceAllowance, GetNotifications, DropNotifications,
           GetClosedOnlyMode, GetAPIKeys, DeleteAPIKey, CreateReadonlyAPIKey,
           GetReadonlyAPIKeys, DeleteReadonlyAPIKey, ValidateReadonlyAPIKey,
           CreateBuilderAPIKeyCreds, GetBuilderAPIKeysList,
           RevokeBuilderAPIKeyCreds, CreateBuilderAPIKey,
           CreateBuilderAPIKeyWithAddress, CreateBuilderAPIKeyCredsWithAddress,
           CreateRfqRequest, CancelRfqRequest, GetRfqRequests, CreateRfqQuote,
           CancelRfqQuote, GetRfqBestQuote, GetRfqConfig, GetMarkets, GetMarket,
           GetPrice, GetPrices, GetLastTradePrice, GetOrderBook, GetOrderBooks,
           GetPricesHistory, GetEarningsForUserForDay,
           GetTotalEarningsForUserForDay, GetLiquidityRewardPercentages,
           GetRewardsMarketsForUser, GetRewardsMarketsCurrent,
           GetRewardsMarketsForCondition, GetCurrentMakerRebate

LEMMA StepIsRequest ==
    [RfqNext]_rfqVars => [Next]_vars \/ \E m \in MethodNames : Fresh(m)
<1> SUFFICES ASSUME [RfqNext]_rfqVars
             PROVE  [Next]_vars \/ \E m \in MethodNames : Fresh(m)
    OBVIOUS
<1> USE DEF Next, MethodNames
<1>1. CASE Request
    BY <1>1 DEF Request
<1>2. CASE ListStep
    BY <1>2 DEF ListStep, Enter, AskPage, PageRequest, TakePage, DropPages, Finish,
                Hear
<1>3. CASE AuthStep \/ Proceed
    BY <1>3 DEF AuthStep, BeginAuth, AuthRequest, Serve, TakeKey, TryDerive, Derive,
                AuthFails, Proceed
<1>4. CASE DealStep
    BY <1>4 DEF DealStep, EnterOrder, RefuseOrder, AskBook, OrderRequest, OwnPrice,
                BookPrice, Priced, NoMatch, KnowFees, FeesMissing, TakeRate,
                RateFails, Adjust, SignOrder, Refuse
<1>5. CASE SingleCallStep
  <2>1. BeginCall => \E c \in Endpoints : Fresh(c.method)
    BY DEF BeginCall
  <2> QED
    BY <1>5, <2>1, EndpointTyped
       DEF SingleCallStep, RefuseCall, CallCrashes, CallRequest, TakeAnswer,
           RefuseAnswer, AskVersion, VersionAsked
<1>6. CASE RfqStep
    BY <1>6 DEF RfqStep, FetchQuotes, RefuseLevel, RfqRequest, TakeQuote, DropQuote,
                SignAndPost, SignFails, Posted, NextParty
<1>7. CASE External
    BY <1>7 DEF External, Leave, ServeLate
<1>8. CASE UNCHANGED rfqVars
    BY <1>8 DEF rfqVars, allVars
<1> QED
    BY <1>1, <1>2, <1>3, <1>4, <1>5, <1>6, <1>7, <1>8 DEF RfqNext, CallStep

RequestInv == EffectsInv /\ AnswersInv

LEMMA RequestInit == RfqInit => RequestInv
<1> QED
    BY InitIsRequest, EffectsInit, AnswersInit DEF RequestInv

LEMMA RequestKept == RequestInv /\ [RfqNext]_rfqVars => RequestInv'
<1> SUFFICES ASSUME RequestInv, [RfqNext]_rfqVars PROVE RequestInv'
    OBVIOUS
<1>1. CASE [Next]_vars
    BY <1>1, EffectsStep, AnswersStep DEF RequestInv
<1>2. ASSUME NEW m \in MethodNames, Fresh(m) PROVE RequestInv'
    BY <1>2 DEF RequestInv, EffectsInv, CountersTyped, Sent, Pending, AnswersInv,
                Fresh, Labels
<1> QED
    BY <1>1, <1>2, StepIsRequest

\* What holds of one request holds of each that the program makes: one that must
\* not be repeated takes effect at most once, and a definite answer is final.
THEOREM EveryRequest == RfqSpec => [](NonIdempotentOnce /\ DefiniteAnswerIsFinal)
<1>1. EffectsInv => NonIdempotentOnce
  <2> SUFFICES ASSUME EffectsInv, ~Idempotent PROVE effects <= 1
    BY DEF NonIdempotentOnce, Idempotent
  <2>1. Attempts = 1
    BY AttemptsTyped DEF EffectsInv, CountersTyped
  <2> QED
    BY <2>1 DEF EffectsInv, CountersTyped, Sent, Pending, Labels
<1>2. AnswersInv => DefiniteAnswerIsFinal
    BY DEF AnswersInv, DefiniteAnswerIsFinal
<1> QED
    BY <1>1, <1>2, RequestInit, RequestKept, PTL DEF RfqSpec, RequestInv

-----------------------------------------------------------------------------
(* Listings.                                                               *)

\* The first k pages have been answered: those with data are collected in order,
\* and the cursor names the next one, or the end where the answer named none.
Collected(k) ==
    /\ holes \subseteq 1..k
    /\ results \in Seq(Nat) /\ Len(results) <= k
    /\ {results[i] : i \in DOMAIN results} = 1..k \ holes
    /\ \A i, j \in DOMAIN results : i < j => results[i] < results[j]
    /\ \/ cut = 0 /\ cursor = After(k)
       \/ cut = k /\ cursor = EndCursor /\ k \in 1..(pages - 1)

\* With nil params the cursor never reaches the server: of more than one page the
\* first is collected over and over, until an answer names no cursor.
OnlyFirst ==
    /\ cursor = EndCursor => cut # 0
    /\ results \in Seq(Nat) /\ \A i \in DOMAIN results : results[i] = First

Unsent == params = "nil" /\ pages > 1

PagesInv ==
    /\ pages \in 1..MaxPages
    /\ Unsent => OnlyFirst
    /\ ~Unsent => \E k \in 0..pages : Collected(k)
    /\ op = "list" /\ stage = "page" => cursor # EndCursor
    /\ op = "list" /\ stage = "listed" => cursor = EndCursor

LEMMA PagesInit == RfqInit => PagesInv
<1> SUFFICES ASSUME RfqInit PROVE PagesInv
    OBVIOUS
<1>1. /\ pages \in 1..MaxPages /\ cursor = 1 /\ results = <<>> /\ stage = "enter"
      /\ holes = {} /\ cut = 0 /\ MaxPages \in Nat
    BY ListingAssumption DEF RfqInit, DealInit, SessionInit, ListInit, First
<1>2. Collected(0)
    BY <1>1 DEF Collected, After
<1>3. OnlyFirst
    BY <1>1 DEF OnlyFirst, EndCursor
<1> QED
    BY <1>1, <1>2, <1>3 DEF PagesInv

\* Only the listing moves the cursor.
LEMMA PagesElsewhere ==
    ASSUME PagesInv, UNCHANGED <<params, pages, cursor, results, holes, cut>>,
           op' = "list" => stage' \notin {"page", "listed"}
                           \/ (op = "list" /\ stage' = stage)
    PROVE  PagesInv'
<1> QED
    BY DEF PagesInv, Unsent, OnlyFirst, Collected, After

\* One more page in order, with its data or without.
LEMMA PageInOrder ==
    ASSUME PagesInv, TakePage, ~Unsent, NEW k \in 0..pages, Collected(k)
    PROVE  k + 1 \in 0..pages /\ Collected(k + 1)'
<1>1. pages \in 1..MaxPages /\ MaxPages \in Nat /\ cursor # EndCursor
    BY ListingAssumption DEF PagesInv, TakePage
<1>2. cut = 0 /\ cursor = k + 1 /\ k < pages
    BY <1>1 DEF Collected, After, EndCursor
<1>3. Answered = k + 1
    BY <1>1, <1>2 DEF Answered, SentCursor, First, Unsent
<1>4. PICK stated \in SUBSET Parts :
          /\ results' = Collect(results, k + 1, stated)
          /\ cursor' = NextCursor(cursor, k + 1, stated)
          /\ holes' = IF "data" \in stated THEN holes ELSE holes \cup {k + 1}
          /\ cut' = IF "next_cursor" \in stated \/ k + 1 = pages THEN cut
                                                                ELSE k + 1
    BY <1>3 DEF TakePage
<1>5. pages' = pages
    BY DEF TakePage
<1>6. /\ holes \subseteq 1..k /\ results \in Seq(Nat) /\ Len(results) <= k
      /\ {results[i] : i \in DOMAIN results} = 1..k \ holes
      /\ \A i, j \in DOMAIN results : i < j => results[i] < results[j]
    BY DEF Collected
<1>7. \/ cut' = 0 /\ cursor' = After(k + 1)
      \/ cut' = k + 1 /\ cursor' = EndCursor /\ k + 1 \in 1..(pages - 1)
    BY <1>1, <1>2, <1>4 DEF NextCursor, After, EndCursor
<1>8. CASE "data" \in stated
  <2>1. results' = Append(results, k + 1) /\ holes' = holes
    BY <1>1, <1>2, <1>4, <1>6, <1>8 DEF Collect
  <2>2. /\ results' \in Seq(Nat) /\ Len(results') = Len(results) + 1
        /\ \A i \in DOMAIN results : results'[i] = results[i]
        /\ results'[Len(results')] = k + 1
        /\ DOMAIN results' = 1..Len(results') /\ DOMAIN results = 1..Len(results)
    BY <1>6, <2>1
  <2>3. {results'[i] : i \in DOMAIN results'}
            = {results[i] : i \in DOMAIN results} \cup {k + 1}
    BY <1>6, <2>2
  <2>4. 1..(k + 1) \ holes' = (1..k \ holes) \cup {k + 1}
    BY <1>6, <2>1
  <2>5. {results'[i] : i \in DOMAIN results'} = 1..(k + 1) \ holes'
    BY <1>6, <2>3, <2>4
  <2>6. \A i \in DOMAIN results : results[i] < k + 1
    BY <1>6
  <2>7. \A i, j \in DOMAIN results' : i < j => results'[i] < results'[j]
    BY <1>6, <2>2, <2>6
  <2> QED
    BY <1>1, <1>2, <1>5, <1>6, <1>7, <2>1, <2>2, <2>5, <2>7 DEF Collected, After
<1>9. CASE "data" \notin stated
  <2>1. results' = results /\ holes' = holes \cup {k + 1}
    BY <1>4, <1>9 DEF Collect
  <2>2. 1..(k + 1) \ holes' = 1..k \ holes
    BY <1>6, <2>1
  <2> QED
    BY <1>1, <1>2, <1>5, <1>6, <1>7, <2>1, <2>2 DEF Collected, After
<1> QED
    BY <1>8, <1>9

LEMMA PageTaken == ASSUME PagesInv, TakePage PROVE PagesInv'
<1>1. /\ op = "list" /\ stage = "page" /\ stage' = "loop"
      /\ UNCHANGED <<op, params, pages>>
    BY DEF TakePage
<1>2. pages \in 1..MaxPages /\ MaxPages \in Nat
    BY ListingAssumption DEF PagesInv
<1>3. CASE Unsent
  <2>1. PICK stated \in SUBSET Parts :
            /\ results' = Collect(results, 1, stated)
            /\ cursor' = NextCursor(cursor, 1, stated)
            /\ cut' = IF "next_cursor" \in stated \/ 1 = pages THEN cut ELSE 1
    BY <1>3 DEF TakePage, Answered, SentCursor, First, Unsent
  <2>2. cursor' = EndCursor => cut' # 0
    BY <1>2, <1>3, <2>1 DEF NextCursor, After, EndCursor, Unsent
  <2>3. results \in Seq(Nat) /\ \A i \in DOMAIN results : results[i] = 1
    BY <1>3 DEF PagesInv, OnlyFirst, First
  <2>4. results' = results \/ results' = Append(results, 1)
    BY <2>1 DEF Collect
  <2>5. results' \in Seq(Nat) /\ \A i \in DOMAIN results' : results'[i] = 1
    BY <2>3, <2>4
  <2> QED
    BY <1>1, <1>2, <1>3, <2>2, <2>5 DEF PagesInv, OnlyFirst, Unsent, First
<1>4. CASE ~Unsent
  <2>1. PICK k \in 0..pages : Collected(k)
    BY <1>4 DEF PagesInv
  <2>2. k + 1 \in 0..pages /\ Collected(k + 1)'
    BY <1>4, <2>1, PageInOrder
  <2> QED
    BY <1>1, <1>2, <1>4, <2>2 DEF PagesInv, Unsent
<1> QED
    BY <1>3, <1>4

LEMMA PagesStep == PagesInv /\ [RfqNext]_rfqVars => PagesInv'
<1> SUFFICES ASSUME PagesInv, [RfqNext]_rfqVars PROVE PagesInv'
    OBVIOUS
<1>1. CASE Request \/ External \/ UNCHANGED rfqVars
    BY <1>1, PagesElsewhere
       DEF Request, External, Leave, ServeLate, rfqVars, allVars, listing
<1>2. CASE ListStep
  <2>1. CASE Enter \/ PageRequest \/ DropPages \/ Hear
    BY <2>1, PagesElsewhere DEF Enter, PageRequest, DropPages, Hear, Abort, listing
  <2>2. CASE AskPage \/ Finish
    BY <2>2 DEF AskPage, Finish, AtEnd, PagesInv, Unsent, OnlyFirst, Collected,
                After
  <2>3. CASE TakePage
    BY <2>3, PageTaken
  <2> QED
    BY <1>2, <2>1, <2>2, <2>3 DEF ListStep
<1>3. CASE AuthStep \/ Proceed
    BY <1>3, PagesElsewhere
       DEF AuthStep, BeginAuth, AuthRequest, Serve, TakeKey, TryDerive, AuthFails,
           Proceed, Authenticating, listing
<1>4. CASE DealStep
    BY <1>4, PagesElsewhere
       DEF DealStep, EnterOrder, RefuseOrder, AskBook, OrderRequest, OwnPrice,
           BookPrice, Priced, NoMatch, KnowFees, FeesMissing, TakeRate, RateFails,
           Adjust, SignOrder, Refuse, listing
<1>5. CASE SingleCallStep
    BY <1>5, PagesElsewhere
       DEF SingleCallStep, BeginCall, RefuseCall, CallCrashes, CallRequest,
           TakeAnswer, RefuseAnswer, AskVersion, VersionAsked, listing
<1>6. CASE RfqStep
    BY <1>6, PagesElsewhere
       DEF RfqStep, FetchQuotes, RefuseLevel, RfqRequest, TakeQuote, DropQuote,
           SignAndPost, SignFails, Posted, NextParty, listing
<1> QED
    BY <1>1, <1>2, <1>3, <1>4, <1>5, <1>6 DEF RfqNext, CallStep

\* A listing that ends without an error has, of however many pages, every one
\* whose answer stated data, once and in order, up to the last page or the first
\* one whose answer named no cursor, whatever failed and was retried on the way.
THEOREM ListingsComplete == RfqSpec => []CompleteListing
<1>1. PagesInv => CompleteListing
  <2> SUFFICES ASSUME PagesInv, op = "list", stage = "listed", ~Unsent
               PROVE  LET reached == IF cut = 0 THEN pages ELSE cut
                      IN  /\ {results[i] : i \in DOMAIN results} = 1..reached \ holes
                          /\ \A i, j \in DOMAIN results :
                                 i < j => results[i] < results[j]
    BY DEF CompleteListing, Unsent, PagesInv
  <2>1. cursor = EndCursor /\ pages \in 1..MaxPages
    BY DEF PagesInv
  <2>2. PICK k \in 0..pages : Collected(k)
    BY DEF PagesInv
  <2>3. k = IF cut = 0 THEN pages ELSE cut
    BY <2>1, <2>2, ListingAssumption DEF Collected, After, EndCursor
  <2> QED
    BY <2>2, <2>3 DEF Collected
<1> QED
    BY <1>1, PagesInit, PagesStep, PTL DEF RfqSpec

\* What the run listing_nil shows for two pages: with params nil the cursor never
\* reaches the server; a listing of more than one page comes to an end only where
\* an answer named no cursor, and it has nothing but the first page.
NilNeverWhole ==
    op = "list" /\ params = "nil" /\ pages > 1 /\ stage = "listed" =>
        /\ cut # 0
        /\ \A i \in DOMAIN results : results[i] = First

\* However long it runs, a listing called with nil params never has more than the
\* first of several pages, and ends only through an answer without a cursor.
THEOREM NilParamsNeverWhole == RfqSpec => []NilNeverWhole
<1>1. PagesInv => NilNeverWhole
    BY DEF PagesInv, Unsent, OnlyFirst, NilNeverWhole
<1> QED
    BY <1>1, PagesInit, PagesStep, PTL DEF RfqSpec

-----------------------------------------------------------------------------
(* Keys.                                                                   *)

\* An answer that grants a key was given by a server that has issued one, and
\* the way to no credentials leads through a derivation that came back empty.
KeyInv ==
    /\ op = "auth" /\ stage = "derive" => method = "GET"
    /\ op = "auth" /\ stage = "noCreds" /\ mode # "L0"
           => method = "GET" /\ result \notin {"none", "ok"}
    /\ granted => key
    /\ creds = "server" => key

LEMMA KeyInit == RfqInit => KeyInv
<1> QED
    BY DEF RfqInit, DealInit, SessionInit, ListInit, Init, KeyInv, Authenticating

LEMMA KeyAuth == ASSUME KeyInv, AnswersInv, AuthStep PROVE KeyInv'
<1> USE DEF KeyInv, Authenticating
<1>1. CASE BeginAuth
    BY <1>1 DEF BeginAuth, Fresh, session
<1>2. CASE AuthRequest
  <2>1. result' \in {result, "canceled"} \/ (pc = "flight" /\ UNCHANGED method)
    BY <1>2 DEF AuthRequest, Client, Start, Wait, WaitCancelled, Send, Reply, Return
  <2>2. UNCHANGED method
    BY <1>2 DEF AuthRequest, Client, Start, Wait, WaitCancelled, Send, Reply
  <2>4. stage \in {"create", "derive", "headers"} /\ UNCHANGED <<listing, session>>
    BY <1>2 DEF AuthRequest
  <2> QED
    BY <2>1, <2>2, <2>4 DEF listing, session
<1>3. CASE Serve
  <2>1. UNCHANGED <<listing, method, result, creds>>
    BY <1>3 DEF Serve, Handle
  <2>2. (key => key') /\ (granted' => key')
    BY <1>3 DEF Serve
  <2> QED
    BY <2>1, <2>2 DEF listing
<1>4. CASE TakeKey
    BY <1>4 DEF TakeKey, vars
<1>5. CASE TryDerive
    BY <1>5 DEF TryDerive, Derive, Fresh
<1>6. CASE AuthFails
  <2>1. result \notin {"none", "ok"}
    BY <1>6 DEF AuthFails, AnswersInv
  <2> QED
    BY <1>6, <2>1 DEF AuthFails, vars
<1> QED
    BY <1>1, <1>2, <1>3, <1>4, <1>5, <1>6 DEF AuthStep

LEMMA KeyStep == KeyInv /\ AnswersInv /\ [RfqNext]_rfqVars => KeyInv'
<1> SUFFICES ASSUME KeyInv, AnswersInv, [RfqNext]_rfqVars PROVE KeyInv'
    OBVIOUS
<1>1. ASSUME UNCHANGED session, op' # "auth" PROVE KeyInv'
    BY <1>1 DEF KeyInv, Authenticating, session
<1>2. CASE Request \/ RfqStep
    BY <1>1, <1>2
       DEF Request, RfqStep, FetchQuotes, RefuseLevel, RfqRequest, TakeQuote,
           DropQuote, SignAndPost, SignFails, Posted, NextParty, listing
<1>3. CASE ListStep /\ UNCHANGED session
    BY <1>1, <1>3 DEF ListStep, Enter, AskPage, PageRequest, TakePage, DropPages,
                      Finish, Hear, listing
<1>4. CASE AuthStep
    BY <1>4, KeyAuth
<1>5. CASE Proceed
    BY <1>5 DEF Proceed, KeyInv, Authenticating
<1>6. CASE DealStep
    BY <1>1, <1>6
       DEF DealStep, EnterOrder, RefuseOrder, AskBook, OrderRequest, OwnPrice,
           BookPrice, Priced, NoMatch, KnowFees, FeesMissing, TakeRate, RateFails,
           Adjust, SignOrder, Refuse, listing
<1>7. CASE SingleCallStep
    BY <1>1, <1>7
       DEF SingleCallStep, BeginCall, RefuseCall, CallCrashes, CallRequest,
           TakeAnswer, RefuseAnswer, AskVersion, VersionAsked, listing
<1>8. CASE External
  <2>1. CASE Leave /\ UNCHANGED session
    BY <1>1, <2>1 DEF Leave
  <2>2. CASE ServeLate
    <3>1. UNCHANGED <<listing, method, result, creds, granted>> /\ key' = TRUE
      BY <2>2 DEF ServeLate, HandleLate, vars
    <3> QED
      BY <3>1 DEF KeyInv, Authenticating, listing
  <2> QED
    BY <1>8, <2>1, <2>2 DEF External
<1>9. CASE UNCHANGED rfqVars
    BY <1>9 DEF rfqVars, allVars, vars, listing, session, KeyInv, Authenticating
<1> QED
    BY <1>2, <1>3, <1>4, <1>5, <1>6, <1>7, <1>8, <1>9 DEF RfqNext, CallStep

\* However answers are lost and whenever the creation is handled: a client with a
\* signer ends without credentials only after the derivation was refused or
\* failed, and the only ones it takes that were not issued are blank.
THEOREM KeysRecovered == RfqSpec => []KeyRecovered
<1>1. KeyInv => KeyRecovered
    BY DEF KeyInv, KeyRecovered
<1>2. KeyInv /\ RequestInv /\ [RfqNext]_rfqVars => (KeyInv /\ RequestInv)'
    BY KeyStep, RequestKept DEF RequestInv
<1> QED
    BY <1>1, <1>2, KeyInit, RequestInit, PTL DEF RfqSpec

-----------------------------------------------------------------------------
(* Credentials.                                                            *)

\* The level stands for credentials, which are never taken away, and between
\* the check of the level and the last page or POST they are there.
LevelInv == mode = "L2" => creds # "none"
AheadInv ==
    /\ op = "list" /\ stage \in {"loop", "page"} => creds # "none"
    /\ op = "rfq" /\ stage \in {"quotes", "sign", "post"} => creds # "none"
    /\ op = "call" /\ stage = "calling" /\ call.level # "L0" => creds # "none"
\* Elsewhere nothing is in flight.
QuietInv ==
    /\ op = "list" /\ stage # "page" => pc # "flight"
    /\ op = "rfq" /\ stage \notin {"quotes", "post"} => pc # "flight"

CredsInv == LevelInv /\ AheadInv /\ QuietInv

LEMMA CredsInit == RfqInit => CredsInv
<1> QED
    BY DEF RfqInit, DealInit, SessionInit, ListInit, Init, CredsInv, LevelInv,
           AheadInv, QuietInv

LEMMA CredsStep == CredsInv /\ [RfqNext]_rfqVars => CredsInv'
<1> SUFFICES ASSUME CredsInv, [RfqNext]_rfqVars PROVE CredsInv'
    OBVIOUS
<1> USE DEF CredsInv, LevelInv, AheadInv, QuietInv, Fresh
<1>1. CASE Request
    BY <1>1 DEF Request, listing, session
<1>2. CASE ListStep /\ UNCHANGED <<session, call>>
    BY <1>2 DEF ListStep, Enter, AskPage, PageRequest, TakePage, DropPages, Finish,
                Hear, Abort, Level2, listing, session, vars
<1>3. CASE (AuthStep \/ Proceed) /\ UNCHANGED call
  <2>1. CASE BeginAuth \/ AuthRequest \/ Serve \/ TryDerive \/ AuthFails
    BY <1>3, <2>1 DEF BeginAuth, AuthRequest, Serve, TryDerive, Derive, AuthFails,
                      Authenticating, listing, session
  <2>2. CASE TakeKey
    BY <1>3, <2>2 DEF TakeKey, Raised, Authenticating
  <2>3. CASE Proceed
    BY <1>3, <2>3 DEF Proceed
  <2> QED
    BY <1>3, <2>1, <2>2, <2>3 DEF AuthStep
<1>4. CASE DealStep /\ UNCHANGED call
  <2>1. op = "order" /\ UNCHANGED <<op, mode, session>>
    BY <1>4 DEF DealStep, EnterOrder, RefuseOrder, AskBook, OrderRequest, OwnPrice,
                BookPrice, Priced, NoMatch, KnowFees, FeesMissing, TakeRate,
                RateFails, Adjust, SignOrder, Refuse, listing
  <2> QED
    BY <1>4, <2>1 DEF session
<1>5. CASE SingleCallStep
  <2>1. CASE BeginCall
    <3>1. PICK c \in Endpoints :
              /\ c.level = "L2" => Level2
              /\ c.level = "creds" => creds # "none"
              /\ call' = c
      BY <2>1 DEF BeginCall
    <3>2. c.level \in {"L0", "L2", "creds"}
      BY EndpointTyped
    <3> QED
      BY <2>1, <3>1, <3>2 DEF BeginCall, Level2, session
  <2>2. CASE RefuseCall \/ CallCrashes \/ CallRequest \/ TakeAnswer
             \/ RefuseAnswer \/ AskVersion \/ VersionAsked
    BY <2>2 DEF RefuseCall, CallCrashes, CallRequest, TakeAnswer, RefuseAnswer,
                AskVersion, VersionAsked, listing, session
  <2> QED
    BY <1>5, <2>1, <2>2 DEF SingleCallStep
<1>6. CASE RfqStep
  <2>1. CASE FetchQuotes \/ RfqRequest \/ TakeQuote \/ SignAndPost
    BY <2>1 DEF FetchQuotes, RfqRequest, TakeQuote, SignAndPost, Level2, listing,
                session
  <2>2. CASE RefuseLevel \/ DropQuote \/ SignFails \/ Posted
    BY <2>2 DEF RefuseLevel, DropQuote, SignFails, Posted, NextParty, session
  <2> QED
    BY <1>6, <2>1, <2>2 DEF RfqStep
<1>7. CASE External
  <2>1. CASE Leave /\ UNCHANGED <<session, call>>
    BY <2>1 DEF Leave, vars, session
  <2>2. CASE ServeLate /\ UNCHANGED call
    BY <2>2 DEF ServeLate, Authenticating, listing
  <2> QED
    BY <1>7, <2>1, <2>2 DEF External
<1>8. CASE UNCHANGED rfqVars
    BY <1>8 DEF rfqVars, allVars, vars, listing, session
<1> QED
    BY <1>1, <1>2, <1>3, <1>4, <1>5, <1>6, <1>7, <1>8 DEF RfqNext, CallStep

\* Whatever the authentication came to and whatever is called afterwards: what
\* needs level 2 is sent only by a client that has credentials.
THEOREM SentWithCreds == RfqSpec => []SignedWithCreds
<1>1. CredsInv => SignedWithCreds
    BY DEF CredsInv, AheadInv, QuietInv, SignedWithCreds
<1> QED
    BY <1>1, CredsInit, CredsStep, PTL DEF RfqSpec

-----------------------------------------------------------------------------
(* The orders of a trade.                                                  *)

\* What a party has signed comes from the quote of the trade, which names the
\* token signed for and which the requester has not refused.
Signed(p) ==
    legs[p] # NoLeg =>
        /\ quote \in Quotes
        /\ legs[p] = Leg(p, quote)
        /\ legs[p].token \in quote.has
        /\ p = "requester" => ~RequesterRefuses(quote)

SignedInv == \A p \in Parties : Signed(p)

\* What it has picked is that quote.
PickedInv ==
    picked # NoQuote =>
        /\ quote \in Quotes
        /\ picked = quote
        /\ party = "requester" => ~RequesterRefuses(quote)

StageInv == stage = "sign" => picked # NoQuote

TradeTyped ==
    /\ quote \in Quotes \cup {NoQuote}
    /\ party \in Parties
    /\ DOMAIN legs = Parties

TradeInv == TradeTyped /\ StageInv /\ PickedInv /\ SignedInv

-----------------------------------------------------------------------------

\* The id picks the quote: no other quote in the list has it.
LEMMA FoundIsQuote ==
    ASSUME NEW q \in Quotes, NEW list \in Lists(q), NEW found \in Find(list, q)
    PROVE  found = q
<1>1. PICK i \in DOMAIN list : found = list[i] /\ list[i].id = q.id
    BY DEF Find
<1>2. list[i] \in {Other, q}
    BY DEF Lists
<1> QED
    BY <1>1, <1>2, QuoteAssumption

\* Two orders of one quote that neither party refuses fit each other.
LEMMA DerivedLegsFit ==
    ASSUME NEW q \in Quotes, ~RequesterRefuses(q), QuoterLeg(q).token \in q.has
    PROVE  /\ RequesterLeg(q).size = QuoterLeg(q).size
           /\ RequesterLeg(q).token = QuoterLeg(q).token
                <=> RequesterLeg(q).side # QuoterLeg(q).side
<1>1. SideOf(q) \in Sides
    BY QuoteAssumption DEF SideOf, Sides, Missing
<1>2. CASE MatchOf(q) = "COMPLEMENTARY"
    BY <1>1, <1>2 DEF RequesterRefuses, RequesterLeg, QuoterLeg, Opposite, Sides
<1>3. CASE MatchOf(q) # "COMPLEMENTARY"
    BY <1>1, <1>3 DEF RequesterRefuses, RequesterLeg, QuoterLeg, Sides
<1> QED
    BY <1>2, <1>3

LEMMA TradeInit == RfqInit => TradeInv
<1> QED
    BY DEF RfqInit, DealInit, SessionInit, ListInit, TradeInv, TradeTyped, StageInv,
           PickedInv, SignedInv, Signed, Parties

\* Steps that leave the trade alone do not lead to its signing stage.
LEMMA OtherSteps ==
    ASSUME TradeInv, UNCHANGED trade, stage' = "sign" => stage = "sign"
    PROVE  TradeInv'
<1> QED
    BY DEF TradeInv, TradeTyped, StageInv, PickedInv, SignedInv, Signed, trade,
           Leg, RequesterLeg, QuoterLeg, RequesterRefuses

LEMMA ListStage == ListStep => (stage' = "sign" => stage = "sign")
<1> QED
    BY DEF ListStep, Enter, AskPage, PageRequest, TakePage, DropPages, Finish,
           Hear, Abort, listing

LEMMA AuthStage == AuthStep \/ Proceed => (stage' = "sign" => stage = "sign")
<1> QED
    BY DEF AuthStep, BeginAuth, AuthRequest, Serve, TakeKey, TryDerive, Derive,
           AuthFails, Proceed, listing

LEMMA DealStage == DealStep => (stage' = "sign" => stage = "sign")
<1>1. OwnPrice \/ BookPrice => stage' \in {"fee", "amounts"}
    BY DEF OwnPrice, BookPrice, Priced
<1>2. RefuseOrder \/ NoMatch \/ FeesMissing \/ RateFails => stage' = "unsigned"
    BY DEF RefuseOrder, NoMatch, FeesMissing, RateFails, Refuse
<1>3. EnterOrder \/ AskBook \/ OrderRequest \/ KnowFees \/ TakeRate \/ Adjust
        \/ SignOrder => (stage' = "sign" => stage = "sign")
    BY DEF EnterOrder, AskBook, OrderRequest, KnowFees, TakeRate, Adjust,
           SignOrder, listing
<1> QED
    BY <1>1, <1>2, <1>3 DEF DealStep

LEMMA CallStage == SingleCallStep => (stage' = "sign" => stage = "sign")
<1> QED
    BY DEF SingleCallStep, BeginCall, RefuseCall, CallCrashes, CallRequest,
           TakeAnswer, RefuseAnswer, AskVersion, VersionAsked, listing

LEMMA TurnKeepsInv ==
    ASSUME TradeInv, NextParty, UNCHANGED <<quote, legs>>
    PROVE  TradeInv'
<1> QED
    BY DEF TradeInv, TradeTyped, StageInv, PickedInv, SignedInv, Signed,
           NextParty, Parties

LEMMA TradeStep == TradeInv /\ [RfqNext]_rfqVars => TradeInv'
<1> SUFFICES ASSUME TradeInv, [RfqNext]_rfqVars PROVE TradeInv'
    OBVIOUS
<1>1. CASE Request
    BY <1>1, OtherSteps DEF Request, listing
<1>2. CASE (ListStep \/ AuthStep \/ Proceed) /\ UNCHANGED trade
    BY <1>2, OtherSteps, ListStage, AuthStage
<1>3. CASE (DealStep \/ SingleCallStep) /\ UNCHANGED trade
    BY <1>3, OtherSteps, DealStage, CallStage
<1>4. CASE External
    BY <1>4, OtherSteps DEF External, Leave, ServeLate, listing
<1>5. CASE RfqStep
  <2>1. CASE FetchQuotes
    BY <2>1, OtherSteps DEF FetchQuotes
  <2>2. CASE RfqRequest
    BY <2>2, OtherSteps DEF RfqRequest, listing
  <2>3. CASE TakeQuote
    <3>1. PICK q \in Quotes :
              /\ quote # NoQuote => q = quote
              /\ party = "requester" => ~RequesterRefuses(q)
              /\ quote' = q
              /\ picked' = q
      BY <2>3, FoundIsQuote DEF TakeQuote, TradeInv, TradeTyped
    <3>2. UNCHANGED <<party, legs>> /\ q # NoQuote
      BY <2>3, QuoteAssumption DEF TakeQuote
    <3>3. TradeTyped' /\ StageInv' /\ PickedInv'
      BY <3>1, <3>2 DEF TradeInv, TradeTyped, StageInv, PickedInv
    <3>4. SignedInv'
      BY <3>1, <3>2, QuoteAssumption DEF TradeInv, SignedInv, Signed
    <3> QED
      BY <3>3, <3>4 DEF TradeInv
  <2>4. CASE SignAndPost
    <3>1. picked \in Quotes /\ picked = quote
      BY <2>4 DEF SignAndPost, TradeInv, StageInv, PickedInv
    <3>2. legs' = [legs EXCEPT ![party] = Leg(party, quote)]
          /\ Leg(party, quote).token \in quote.has
          /\ UNCHANGED <<party, quote, picked>> /\ stage' = "post"
      BY <2>4, <3>1 DEF SignAndPost
    <3>3. TradeTyped' /\ StageInv' /\ PickedInv'
      BY <3>2 DEF TradeInv, TradeTyped, StageInv, PickedInv, Parties
    <3>4. SignedInv'
      BY <3>1, <3>2, QuoteAssumption
         DEF TradeInv, TradeTyped, SignedInv, Signed, PickedInv, Parties
    <3> QED
      BY <3>3, <3>4 DEF TradeInv
  <2>5. CASE RefuseLevel \/ DropQuote \/ SignFails \/ Posted
    BY <2>5, TurnKeepsInv DEF RefuseLevel, DropQuote, SignFails, Posted
  <2> QED
    BY <1>5, <2>1, <2>2, <2>3, <2>4, <2>5 DEF RfqStep
<1>6. CASE UNCHANGED rfqVars
    BY <1>6, OtherSteps DEF rfqVars, allVars, listing
<1> QED
    BY <1>1, <1>2, <1>3, <1>4, <1>5, <1>6 DEF RfqNext, CallStep

\* For every set of quotes, complete or not, and whatever fails on the way: the
\* orders that AcceptQuote and ApproveOrder sign for one quote fit each other.
THEOREM TradesFit == RfqSpec => []LegsMatch
<1>1. TradeInv => LegsMatch
  <2> SUFFICES ASSUME TradeInv,
                      legs["requester"] # NoLeg, legs["quoter"] # NoLeg
               PROVE  LET r == legs["requester"]  q == legs["quoter"]
                      IN  r.size = q.size /\ (r.token = q.token <=> r.side # q.side)
    BY DEF LegsMatch
  <2>1. Signed("requester") /\ Signed("quoter")
    BY DEF TradeInv, SignedInv, Parties
  <2> QED
    BY <2>1, DerivedLegsFit DEF Signed, Leg
<1> QED
    BY <1>1, TradeInit, TradeStep, PTL DEF RfqSpec

-----------------------------------------------------------------------------
(* The balance.                                                            *)

\* The stages of an order from its price on.
Deals == {"fee", "rate", "adjust", "amounts", "signed"}

Settled == stage \in {"amounts", "signed"} /\ Protected(ask)
Estimate == FeeRate(fees.info, price, fees.slippage) + BuilderRate

AskInv == stage \in Deals =>
    /\ ask \in Asks /\ tick \in Ticks /\ money \in Nat
    /\ price \in tick..One /\ \E k \in Nat : price = k * tick
ProtectedInv == stage \in {"fee", "rate", "adjust"} => Protected(ask)
FeesInv == stage \in {"rate", "adjust"} \/ Settled =>
    fees \in [info : FeeInfos, slippage : Slippages]
RateInv ==
    /\ builder \in BuilderRates \cup {Unknown}
    /\ (stage = "adjust" \/ Settled) /\ ask.builder => builder # Unknown
\* The amount of a protected buy is an adjusted one, the order cut from it.
MoneyInv == Settled =>
    \E m \in Nat : money = AdjustBuyAmountForFees(m, ask.balance, Estimate)
OrderInv == stage = "signed" => \E short \in BOOLEAN : order = Amounts(short)
\* A price read off the book is a level's, rounded; a market order spends or
\* sells no more than was asked for.
BookInv ==
    /\ stage \notin Deals => book = <<>>
    /\ stage \in Deals /\ book # <<>> =>
         /\ ask.kind = "market" /\ book \in Books[ask.side]
         /\ ask.type = "FOK" =>
               \E i \in DOMAIN book : /\ price = RoundDown(tick, book[i].price)
                                     /\ book[i].price \in tick..One
                                     /\ SumFrom(ask.side, book, i) >= ask.amount
AskedInv == stage \in Deals /\ ask.kind = "market" => money <= Asked(ask, price)

DealInv == AskInv /\ ProtectedInv /\ FeesInv /\ RateInv /\ MoneyInv /\ OrderInv
           /\ BookInv /\ AskedInv

LEMMA DealsInit == RfqInit => DealInv
<1> QED
    BY DEF RfqInit, DealInit, SessionInit, ListInit, DealInv, AskInv,
           ProtectedInv, FeesInv, RateInv, MoneyInv, OrderInv, BookInv, AskedInv,
           Deals, Settled

\* A step that leaves the order alone.
LEMMA DealKept ==
    ASSUME DealInv, UNCHANGED deal,
           stage' # stage => stage \notin Deals /\ stage' \notin Deals
    PROVE  DealInv'
<1>1. UNCHANGED <<ask, tick, book, price, money, fees, builder, order>>
    BY DEF deal
<1>2. CASE stage' = stage
    BY <1>1, <1>2 DEF DealInv, AskInv, ProtectedInv, FeesInv, RateInv, MoneyInv,
        OrderInv, BookInv, AskedInv, Settled, Estimate, Protected, Buys, BuilderRate,
        Amounts
<1>3. CASE stage \notin Deals /\ stage' \notin Deals
    BY <1>1, <1>3 DEF DealInv, AskInv, ProtectedInv, FeesInv, RateInv, MoneyInv,
        OrderInv, BookInv, AskedInv, Settled, Deals
<1> QED
    BY <1>2, <1>3

LEMMA DealRefused ==
    ASSUME DealInv, stage' \notin Deals, UNCHANGED builder, book' = <<>>
    PROVE  DealInv'
<1> QED
    BY DEF DealInv, AskInv, ProtectedInv, FeesInv, RateInv, MoneyInv, OrderInv,
           BookInv, AskedInv, Settled, Deals

\* An order whose price has just been found.
LEMMA DealPriced ==
    ASSUME DealInv, NEW a \in Asks, NEW t \in Ticks, NEW p, Priced(a, t, p),
           book' # <<>> =>
               /\ a.kind = "market" /\ book' \in Books[a.side]
               /\ a.type = "FOK" =>
                     \E i \in DOMAIN book' :
                        p = book'[i].price /\ SumFrom(a.side, book', i) >= a.amount
    PROVE  DealInv'
<1>1. /\ PriceValid(p, t) /\ ask' = a /\ tick' = t
      /\ price' = Rounded(a.kind, t, p) /\ money' = Asked(a, price')
      /\ stage' = IF Protected(a) THEN "fee" ELSE "amounts"
      /\ builder' = builder
    BY DEF Priced
<1>2. price' \in t..One /\ (\E k \in Nat : price' = k * t) /\ p \in t..One
  <2>1. p \in t..One
    BY <1>1, AmountsAssumption DEF PriceValid
  <2> QED
    BY <1>1, <2>1, RoundedBounds
<1>3. money' \in Nat
  <2>1. a.amount \in Nat /\ price' \in Nat /\ Scale \in Nat
    BY <1>2, AskAssumption, AmountsAssumption
  <2>2. Scale \div One \in Nat
    BY AmountsAssumption, DivBounds
  <2>3. a.amount * price' \in Nat /\ a.amount * Scale \in Nat
    BY <2>1
  <2>4. a.amount * price' * (Scale \div One) \in Nat
    BY <2>2, <2>3
  <2> QED
    BY <1>1, <2>1, <2>3, <2>4 DEF Asked
<1>4. AskInv'
    BY <1>1, <1>2, <1>3 DEF AskInv
<1>5. ProtectedInv' /\ FeesInv' /\ RateInv' /\ MoneyInv' /\ OrderInv'
    BY <1>1 DEF DealInv, ProtectedInv, FeesInv, RateInv, MoneyInv, OrderInv,
                Settled, Protected, Buys
<1>6. stage' \in Deals
    BY <1>1 DEF Deals
<1>7. BookInv'
  <2> SUFFICES ASSUME book' # <<>>
               PROVE  /\ ask'.kind = "market" /\ book' \in Books[ask'.side]
                      /\ ask'.type = "FOK" =>
                            \E i \in DOMAIN book' :
                               /\ price' = RoundDown(tick', book'[i].price)
                               /\ book'[i].price \in tick'..One
                               /\ SumFrom(ask'.side, book', i) >= ask'.amount
    BY <1>6 DEF BookInv
  <2>1. price' = RoundDown(t, p)
    BY <1>1 DEF Rounded
  <2> QED
    BY <1>1, <1>2, <2>1
<1>8. AskedInv'
    BY <1>1, <1>3 DEF AskedInv
<1> QED
    BY <1>4, <1>5, <1>7, <1>8 DEF DealInv

LEMMA RateTyped ==
    ASSUME fees \in [info : FeeInfos, slippage : Slippages], price \in 1..One,
           ask \in Asks, builder \in BuilderRates \cup {Unknown},
           ask.builder => builder # Unknown
    PROVE  /\ BuilderRate \in Nat /\ Estimate \in Nat
           /\ FeeRate(fees.info, price, 0) + BuilderRate \in Nat
           /\ FeeRate(fees.info, price, 0) + BuilderRate <= Estimate
<1>1. BuilderRate \in Nat
    BY AskAssumption DEF BuilderRate
<1>2. fees.info \in [rate : Nat, exp : Exponents] /\ fees.slippage \in 0..100
    BY AskAssumption
<1> QED
    BY <1>1, <1>2, SlippageRaises DEF Estimate

LEMMA DealAdjusted == ASSUME DealInv, Adjust PROVE DealInv'
<1>1. /\ stage = "adjust" /\ stage' = "amounts"
      /\ UNCHANGED <<ask, tick, book, price, fees, builder>>
      /\ money' = AdjustBuyAmountForFees(money, ask.balance, Estimate)
    BY DEF Adjust, Estimate
<1>2. /\ ask \in Asks /\ tick \in Ticks /\ price \in tick..One /\ money \in Nat
      /\ Protected(ask)
      /\ fees \in [info : FeeInfos, slippage : Slippages]
      /\ builder \in BuilderRates \cup {Unknown}
      /\ ask.builder => builder # Unknown
    BY <1>1 DEF DealInv, AskInv, ProtectedInv, FeesInv, RateInv, Deals
<1>3. price \in 1..One
    BY <1>2, AmountsAssumption
<1>4. Estimate \in Nat /\ ask.balance \in Nat
    BY <1>2, <1>3, RateTyped, AskAssumption DEF Protected
<1>5. money' \in Nat /\ money' <= money
    BY <1>1, <1>2, <1>4, AdjustedBelow
<1>6. Estimate' = Estimate /\ (Protected(ask))' = Protected(ask)
      /\ Asked(ask, price)' = Asked(ask, price)
    BY <1>1 DEF Estimate, BuilderRate, Protected, Buys, Asked
<1>7. AskInv' /\ ProtectedInv' /\ FeesInv' /\ RateInv' /\ OrderInv' /\ BookInv'
    BY <1>1, <1>2, <1>5
       DEF DealInv, AskInv, ProtectedInv, FeesInv, RateInv, OrderInv, BookInv, Deals
<1>8. MoneyInv'
    BY <1>1, <1>2, <1>6 DEF MoneyInv
<1>9. AskedInv'
  <2> SUFFICES ASSUME ask.kind = "market" PROVE money' <= Asked(ask, price)
    BY <1>1, <1>6 DEF AskedInv
  <2>1. money <= Asked(ask, price)
    BY <1>1 DEF DealInv, AskedInv, Deals
  <2>2. Asked(ask, price) \in Nat
    BY <1>2, AskAssumption, AmountsAssumption DEF Asked
  <2> QED
    BY <1>2, <1>5, <2>1, <2>2
<1> QED
    BY <1>7, <1>8, <1>9 DEF DealInv

LEMMA DealSigned == ASSUME DealInv, SignOrder PROVE DealInv'
<1>1. /\ stage = "amounts" /\ stage' = "signed"
      /\ UNCHANGED <<ask, tick, book, price, money, fees, builder>>
      /\ \E short \in BOOLEAN : order' = Amounts(short)
    BY DEF SignOrder
<1>2. /\ Estimate' = Estimate /\ (Protected(ask))' = Protected(ask)
      /\ Asked(ask, price)' = Asked(ask, price)
      /\ \A short \in BOOLEAN : Amounts(short)' = Amounts(short)
    BY <1>1 DEF Estimate, BuilderRate, Protected, Buys, Amounts, Asked
<1>3. /\ AskInv' /\ ProtectedInv' /\ FeesInv' /\ RateInv' /\ OrderInv' /\ BookInv'
      /\ AskedInv'
    BY <1>1, <1>2 DEF DealInv, AskInv, ProtectedInv, FeesInv, RateInv, OrderInv,
                      BookInv, AskedInv, Settled, Deals
<1>4. MoneyInv'
    BY <1>1, <1>2 DEF DealInv, MoneyInv, Settled
<1> QED
    BY <1>3, <1>4 DEF DealInv

LEMMA DealStepKeeps == ASSUME DealInv, DealStep PROVE DealInv'
<1>1. CASE EnterOrder \/ AskBook \/ OrderRequest
    BY <1>1, DealKept DEF EnterOrder, AskBook, OrderRequest, Deals, listing
<1>2. CASE RefuseOrder \/ NoMatch \/ FeesMissing \/ RateFails
    BY <1>2, DealRefused
       DEF RefuseOrder, NoMatch, FeesMissing, RateFails, Refuse, Deals
<1>3. CASE OwnPrice
  <2>1. book' = <<>>
    BY <1>3 DEF OwnPrice, DealInv, BookInv, Deals
  <2> QED
    BY <1>3, <2>1, DealPriced DEF OwnPrice
<1>4. CASE BookPrice
  <2>1. PICK a \in Asks, t \in Ticks : \E levels \in Books[a.side] :
            /\ a.price = NoPrice
            /\ MarketPrice(a.side, levels, a.amount, a.type) # NoPrice
            /\ Priced(a, t, MarketPrice(a.side, levels, a.amount, a.type))
            /\ book' = levels
    BY <1>4 DEF BookPrice
  <2>2. PICK levels \in Books[a.side] :
            /\ MarketPrice(a.side, levels, a.amount, a.type) # NoPrice
            /\ Priced(a, t, MarketPrice(a.side, levels, a.amount, a.type))
            /\ book' = levels
    BY <2>1
  <2> DEFINE p == MarketPrice(a.side, levels, a.amount, a.type)
  <2>3. a.kind = "market" /\ a.side \in {"BUY", "SELL"}
    BY <2>1, AskAssumption
  <2>4. levels \in Levels
    BY <2>3, BooksAssumption DEF Levels
  <2>5. ASSUME a.type = "FOK"
        PROVE  \E i \in DOMAIN levels :
                  p = levels[i].price /\ SumFrom(a.side, levels, i) >= a.amount
    BY <2>2, <2>4, <2>5, PricedWhereFilled
  <2> HIDE DEF p
  <2>6. Priced(a, t, p) /\ book' = levels
    BY <2>2 DEF p
  <2> QED
    BY <2>3, <2>5, <2>6, DealPriced
<1>5. CASE KnowFees
  <2>1. /\ stage = "fee"
        /\ UNCHANGED <<ask, tick, book, price, money, builder, order>>
        /\ fees' \in [info : FeeInfos, slippage : Slippages]
        /\ stage' = IF ask.builder /\ builder = Unknown THEN "rate" ELSE "adjust"
    BY <1>5 DEF KnowFees
  <2>2. (Protected(ask))' = Protected(ask) /\ Asked(ask, price)' = Asked(ask, price)
    BY <2>1 DEF Protected, Buys, Asked
  <2> QED
    BY <2>1, <2>2 DEF DealInv, AskInv, ProtectedInv, FeesInv, RateInv, MoneyInv,
                      OrderInv, BookInv, AskedInv, Settled, Deals
<1>6. CASE TakeRate
  <2>1. /\ stage = "rate" /\ stage' = "adjust" /\ builder' \in BuilderRates
        /\ UNCHANGED <<ask, tick, book, price, money, fees, order>>
    BY <1>6 DEF TakeRate
  <2>2. /\ (Protected(ask))' = Protected(ask) /\ builder' # Unknown
        /\ Asked(ask, price)' = Asked(ask, price)
    BY <2>1, AskAssumption DEF Protected, Buys, Asked
  <2> QED
    BY <2>1, <2>2 DEF DealInv, AskInv, ProtectedInv, FeesInv, RateInv, MoneyInv,
                      OrderInv, BookInv, AskedInv, Settled, Deals
<1>7. CASE Adjust
    BY <1>7, DealAdjusted
<1>8. CASE SignOrder
    BY <1>8, DealSigned
<1> QED
    BY <1>1, <1>2, <1>3, <1>4, <1>5, <1>6, <1>7, <1>8 DEF DealStep

\* What is not a step of the order leaves it alone.
LEMMA DealElsewhere ==
    ASSUME [RfqNext]_rfqVars, ~DealStep
    PROVE  /\ UNCHANGED deal
           /\ stage' # stage => stage \notin Deals /\ stage' \notin Deals
<1>1. CASE Request \/ External \/ UNCHANGED rfqVars
    BY <1>1 DEF Request, External, Leave, ServeLate, rfqVars, allVars, listing
<1>2. CASE ListStep /\ UNCHANGED deal
    BY <1>2 DEF ListStep, Enter, AskPage, PageRequest, TakePage, DropPages,
                Finish, Hear, Abort, listing, Deals
<1>3. CASE (AuthStep \/ Proceed) /\ UNCHANGED deal
    BY <1>3 DEF AuthStep, BeginAuth, AuthRequest, Serve, TakeKey, TryDerive,
                Derive, AuthFails, Proceed, Authenticating, listing, Deals
<1>4. CASE SingleCallStep /\ UNCHANGED deal
    BY <1>4 DEF SingleCallStep, BeginCall, RefuseCall, CallCrashes, CallRequest,
                TakeAnswer, RefuseAnswer, AskVersion, VersionAsked, listing, Deals
<1>5. CASE RfqStep
    BY <1>5 DEF RfqStep, FetchQuotes, RefuseLevel, RfqRequest, TakeQuote,
                DropQuote, SignAndPost, SignFails, Posted, NextParty, listing, Deals
<1> QED
    BY <1>1, <1>2, <1>3, <1>4, <1>5 DEF RfqNext, CallStep

LEMMA DealsStep == DealInv /\ [RfqNext]_rfqVars => DealInv'
<1> QED
    BY DealStepKeeps, DealElsewhere, DealKept

\* The order that is signed, whatever the products fall short by: its price is
\* the estimated one but for a market order at a price that falls short, and it
\* is made from what there is.
LEMMA SignedAmounts ==
    ASSUME AskInv, stage \in {"amounts", "signed"}, NEW short \in BOOLEAN
    PROVE  /\ Amounts(short).usdc \in Nat /\ Amounts(short).shares \in Nat
           /\ Amounts(short).price \in tick..price
           /\ Amounts(short).price = Rounded(ask.kind, tick, price)
           /\ (ask.kind = "market" => price \notin Falls[tick])
                  => Amounts(short).price = price
           /\ Buys(ask) => Amounts(short).usdc * Scale <= money
           /\ ~Buys(ask) => Amounts(short).shares <= money
<1> DEFINE p == Rounded(ask.kind, tick, price)
           made == IF ~Buys(ask) THEN Sale(money, p, short)
                   ELSE IF ask.kind = "market" THEN MarketBuy(money, p, tick, short)
                   ELSE LimitBuy(money, p, short)
<1>1. ask \in Asks /\ tick \in Ticks /\ money \in Nat /\ price \in tick..One
    BY DEF AskInv, Deals
<1>2. /\ p \in tick..price
      /\ (ask.kind = "market" => price \notin Falls[tick]) => p = price
  <2>1. PICK k \in Nat : price = k * tick
    BY DEF AskInv, Deals
  <2> HIDE DEF p
  <2> QED
    BY <1>1, <2>1, RoundedAgain DEF p
<1>3. p \in 1..One
  <2> HIDE DEF p
  <2> QED
    BY <1>1, <1>2, AmountsAssumption
<1>4. Amounts(short) = [usdc |-> made.usdc, shares |-> made.shares, price |-> p]
    BY DEF Amounts
<1> HIDE DEF p
<1>5. /\ made.usdc \in Nat /\ made.shares \in Nat
      /\ Buys(ask) => made.usdc * Scale <= money
      /\ ~Buys(ask) => made.shares <= money
    BY <1>1, <1>3, SaleCut, MarketBuyCut, LimitBuyCut
<1> HIDE DEF made
<1> QED
    BY <1>2, <1>4, <1>5 DEF p

\* Whatever the book, the fees, the slippage and the balance: a protected limit
\* buy costs, with the platform's fee and the builder's, no more than the balance;
\* so does a protected market buy whose price does not fall short when rounded
\* once more.
THEOREM BalanceKept == RfqSpec => []WithinBalance
<1>1. DealInv => WithinBalance
  <2> SUFFICES ASSUME DealInv, stage = "signed",
                      ask.kind = "market" => price \notin Falls[tick],
                      Protected(ask)
               PROVE  order.usdc * Scale + OwedFees <= ask.balance * Scale
    BY DEF WithinBalance, BalanceProtected
  <2>1. /\ ask \in Asks /\ tick \in Ticks /\ price \in tick..One /\ money \in Nat
        /\ fees \in [info : FeeInfos, slippage : Slippages]
        /\ builder \in BuilderRates \cup {Unknown}
        /\ ask.builder => builder # Unknown
    BY DEF DealInv, AskInv, FeesInv, RateInv, Settled, Deals
  <2>2. PICK m \in Nat : money = AdjustBuyAmountForFees(m, ask.balance, Estimate)
    BY DEF DealInv, MoneyInv, Settled
  <2>3. PICK short \in BOOLEAN : order = Amounts(short)
    BY DEF DealInv, OrderInv
  <2>4. order.usdc \in Nat /\ order.usdc * Scale <= money /\ order.price = price
    BY <2>3, SignedAmounts DEF DealInv, Protected
  <2>5. price \in 1..One
    BY <2>1, AmountsAssumption
  <2>6. /\ Estimate \in Nat
        /\ FeeRate(fees.info, order.price, 0) + BuilderRate \in Nat
        /\ FeeRate(fees.info, order.price, 0) + BuilderRate <= Estimate
    BY <2>1, <2>4, <2>5, RateTyped
  <2>7. ask.balance \in Nat
    BY <2>1, AskAssumption DEF Protected
  <2> QED
    BY <2>2, <2>4, <2>6, <2>7, AdjustedFits DEF OwedFees
<1> QED
    BY <1>1, DealsInit, DealsStep, PTL DEF RfqSpec

\* What a market order spends or sells is at most what was asked for.
LEMMA SignedWithinAsked ==
    ASSUME DealInv, stage = "signed", ask.kind = "market"
    PROVE  (IF Buys(ask) THEN order.usdc ELSE order.shares) <= ask.amount
<1>1. PICK short \in BOOLEAN : order = Amounts(short)
    BY DEF DealInv, OrderInv
<1>2. /\ order.usdc \in Nat /\ order.shares \in Nat
      /\ Buys(ask) => order.usdc * Scale <= money
      /\ ~Buys(ask) => order.shares <= money
    BY <1>1, SignedAmounts DEF DealInv
<1>3. money \in Nat /\ ask \in Asks /\ money <= Asked(ask, price)
    BY DEF DealInv, AskInv, AskedInv, Deals
<1>4. ask.amount \in Nat /\ Scale \in Nat \ {0}
    BY <1>3, AskAssumption, AmountsAssumption
<1>5. CASE Buys(ask)
  <2>1. Asked(ask, price) = ask.amount * Scale
    BY <1>5 DEF Asked
  <2>2. order.usdc * Scale \in Nat /\ ask.amount * Scale \in Nat
    BY <1>2, <1>4
  <2>3. order.usdc * Scale <= ask.amount * Scale
    BY <1>2, <1>3, <1>5, <2>1, <2>2
  <2>4. order.usdc <= (ask.amount * Scale) \div Scale
    BY <1>2, <1>4, <2>2, <2>3, FitsQuotient
  <2>5. (ask.amount * Scale) \div Scale = ask.amount
    BY <1>4, <2>2, QuotientIs
  <2> QED
    BY <1>5, <2>4, <2>5
<1>6. CASE ~Buys(ask)
    BY <1>2, <1>3, <1>4, <1>6 DEF Asked
<1> QED
    BY <1>5, <1>6

\* A fill-or-kill order priced off a book of any length is filled by the levels
\* at which it is matched, as long as rounding keeps the asks of the book.
THEOREM BookOrdersFill == RfqSpec => []BookFills
<1>1. DealInv => BookFills
  <2> SUFFICES ASSUME DealInv, stage = "signed", book # <<>>, ask.type = "FOK",
                      Buys(ask) => \A i \in DOMAIN book :
                                      RoundDown(tick, book[i].price) = book[i].price
               PROVE  SumFunctionOnSet(
                          [i \in DOMAIN book |-> Worth(ask.side, book[i])], Crossed)
                        >= IF Buys(ask) THEN order.usdc ELSE order.shares
    BY DEF BookFills
  <2>1. /\ ask \in Asks /\ tick \in Ticks /\ price \in tick..One
        /\ ask.kind = "market" /\ book \in Books[ask.side]
    BY DEF DealInv, AskInv, BookInv, Deals
  <2>2. PICK i \in DOMAIN book : /\ price = RoundDown(tick, book[i].price)
                                 /\ book[i].price \in tick..One
                                 /\ SumFrom(ask.side, book, i) >= ask.amount
    BY DEF DealInv, BookInv, Deals
  <2>3. PICK short \in BOOLEAN : order = Amounts(short)
    BY DEF DealInv, OrderInv
  <2>4. order.price = RoundDown(tick, price) /\ order.price \in tick..price
    BY <2>1, <2>3, SignedAmounts DEF DealInv, Rounded
  <2>5. /\ ask.side \in {"BUY", "SELL"} /\ ask.amount \in Nat
        /\ tick \in Nat /\ One \in Nat
    BY <2>1, AskAssumption, AmountsAssumption
  <2>6. book \in Levels /\ Len(book) \in Nat /\ DOMAIN book = 1..Len(book)
    <3> DEFINE S == [price : 0..One, size : Nat]
    <3>1. book \in Seq(S)
      BY <2>1, <2>5, BooksAssumption
    <3> HIDE DEF S
    <3>2. Len(book) \in Nat /\ DOMAIN book = 1..Len(book)
      BY <3>1
    <3> QED
      BY <3>1, <3>2 DEF S, Levels
  <2>7. \A j \in DOMAIN book : book[j].price \in 0..One
    <3> DEFINE S == [price : 0..One, size : Nat]
    <3>1. \A j \in DOMAIN book : book[j] \in S
      <4>1. book \in Seq(S)
        BY <2>6 DEF Levels
      <4> HIDE DEF S
      <4> QED
        BY <4>1
    <3> QED
      BY <3>1
  <2>8. i..Len(book) \subseteq Crossed
    <3> SUFFICES ASSUME NEW j \in i..Len(book) PROVE j \in Crossed
      OBVIOUS
    <3>1. j \in DOMAIN book /\ (i < j \/ j = i)
      BY <2>6
    <3>2. CASE Buys(ask)
      <4>1. order.price = book[i].price
        BY <2>2, <2>4, <3>2
      <4>2. book[j].price <= book[i].price
        BY <2>1, <2>2, <2>7, <3>1, <3>2, BooksAssumption DEF Buys
      <4> QED
        BY <3>1, <3>2, <4>1, <4>2 DEF Crossed
    <3>3. CASE ~Buys(ask)
      <4>1. price \in tick..book[i].price
        BY <2>1, <2>2, RoundDownBounds
      <4>2. book[i].price <= book[j].price
        <5>1. ask.side = "SELL" /\ book \in Books["SELL"]
          BY <2>1, <2>5, <3>3 DEF Buys
        <5>2. \A m, n \in DOMAIN book : m < n => book[m].price <= book[n].price
          BY <5>1, BooksAssumption
        <5>3. j = i \/ book[i].price <= book[j].price
          BY <2>2, <3>1, <5>2
        <5> QED
          BY <2>2, <2>7, <5>3
      <4>3. book[i].price \in Nat /\ book[j].price \in Nat
        BY <2>5, <2>7, <3>1
      <4>4. order.price <= book[j].price
        BY <2>4, <2>5, <4>1, <4>2, <4>3
      <4> QED
        BY <2>4, <2>5, <3>1, <3>3, <4>3, <4>4 DEF Crossed
    <3> QED
      BY <3>2, <3>3
  <2> DEFINE fill == SumFunctionOnSet(
                         [j \in DOMAIN book |-> Worth(ask.side, book[j])], Crossed)
             got == SumFrom(ask.side, book, i)
             spent == IF Buys(ask) THEN order.usdc ELSE order.shares
  <2>9. got <= fill
    BY <2>6, <2>8, MoreLevelsFill DEF Crossed
  <2>10. got \in Nat /\ fill \in Nat
    <3>1. IsFiniteSet(DOMAIN book)
      BY <2>6, FS_Interval
    <3>2. IsFiniteSet(Crossed) /\ IsFiniteSet(i..Len(book))
          /\ Crossed \subseteq DOMAIN book /\ i..Len(book) \subseteq DOMAIN book
      BY <2>6, <3>1, FS_Subset DEF Crossed
    <3>3. \A j \in DOMAIN book : Worths(ask.side, book)[j] \in Nat
      BY <2>6, WorthTyped
    <3> QED
      BY <3>2, <3>3, SumTyped DEF SumFrom, Worths
  <2>11. spent <= ask.amount /\ spent \in Nat
    <3>1. order.usdc \in Nat /\ order.shares \in Nat
      BY <2>3, SignedAmounts DEF DealInv
    <3> QED
      BY <2>1, <3>1, SignedWithinAsked
  <2> HIDE DEF fill, got, spent
  <2>12. fill >= spent
    BY <2>2, <2>5, <2>9, <2>10, <2>11 DEF got
  <2> QED
    BY <2>12 DEF fill, spent
<1> QED
    BY <1>1, DealsInit, DealsStep, PTL DEF RfqSpec

-----------------------------------------------------------------------------
(* Types.                                                                  *)

\* Whether the server has handled the attempt is kept apart from the rest.
RestTyped ==
    /\ cfg \in Configs
    /\ method \in {"GET", "POST", "DELETE"}
    /\ ctx \in {"open", "done"}
    /\ pc \in Labels
    /\ attempts \in Nat /\ attempt \in Nat /\ delay \in Nat
    /\ answers \in Seq(Answers)
    /\ late \in Nat /\ effects \in Nat
    /\ result \in Answers \cup {"none", "exhausted"}

LEMMA TypeParts == TypeOK <=> RestTyped /\ handled \in BOOLEAN
<1> QED
    BY Zenon DEF TypeOK, RestTyped

LEMMA RestKept == RestTyped /\ [Next]_vars => RestTyped'
<1> SUFFICES ASSUME RestTyped, [Next]_vars PROVE RestTyped'
    OBVIOUS
<1> USE DEF RestTyped, Labels, Answers, client
<1>1. CASE Start
  <2>1. attempts' \in Nat /\ delay' \in Nat
    BY <1>1, AttemptsTyped, HttpAssumption DEF Start
  <2> QED
    BY <1>1, <2>1 DEF Start
<1>2. CASE Wait
  <2>1. delay' \in Nat
    BY <1>2, HttpAssumption DEF Wait, NextDelay
  <2> QED
    BY <1>2, <2>1 DEF Wait
<1>3. CASE WaitCancelled \/ Send \/ Cancel
    BY <1>3 DEF WaitCancelled, Send, Cancel, Return
<1>4. CASE Handle \/ HandleLate
    BY <1>4 DEF Handle, HandleLate
<1>5. CASE Reply
  <2>1. PICK a \in Answers :
            /\ answers' = Append(answers, a)
            /\ late' \in {late, late + 1}
            /\ attempt' \in {attempt, attempt + 1}
            /\ pc' \in {"backoff", "returned"}
            /\ result' \in {result, "exhausted", a}
    BY <1>5 DEF Reply, Return
  <2>2. answers' \in Seq(Answers)
    BY <2>1
  <2> QED
    BY <1>5, <2>1, <2>2 DEF Reply
<1>6. CASE UNCHANGED vars
    BY <1>6 DEF vars
<1> QED
    BY <1>1, <1>2, <1>3, <1>4, <1>5, <1>6 DEF Next, Client

LEMMA HandledKept == [Next]_vars => handled' \in {handled, TRUE, FALSE}
<1> QED
    BY Zenon DEF Next, Client, Start, Wait, WaitCancelled, Send, Handle, HandleLate,
                 Reply, Cancel, vars

LEMMA ProgramTyped == TypeOK /\ [RfqNext]_rfqVars => TypeOK'
<1> SUFFICES ASSUME TypeOK, [RfqNext]_rfqVars PROVE TypeOK'
    OBVIOUS
<1>1. CASE [Next]_vars
  <2>1. RestTyped'
    BY <1>1, TypeParts, RestKept
  <2>2. handled' \in BOOLEAN
    BY <1>1, TypeParts, HandledKept, Zenon
  <2> QED
    BY <2>1, <2>2, Zenon DEF TypeOK, RestTyped
<1>2. ASSUME NEW m \in MethodNames, Fresh(m) PROVE TypeOK'
  <2>1. RestTyped'
    BY <1>2, TypeParts DEF RestTyped, Fresh, MethodNames, Labels
  <2>2. handled' \in BOOLEAN
    BY <1>2, Zenon DEF Fresh
  <2> QED
    BY <2>1, <2>2, Zenon DEF TypeOK, RestTyped
<1> QED
    BY <1>1, <1>2, StepIsRequest

\* What is there of the listing but the request.
PageTypes ==
    /\ op \in Ops
    /\ params \in ParamKinds
    /\ mode \in {"L0", "L1", "L2"}
    /\ pages \in 1..MaxPages
    /\ cursor \in 0..MaxPages
    /\ results \in Seq(1..MaxPages)
    /\ holes \subseteq 1..MaxPages
    /\ cut \in 0..MaxPages
    /\ stage \in Stages
    /\ caller \in {"waiting", "answered", "gone"}

\* Only a listing collects, only a key raises the level; the operation changes
\* when the program goes on from the authentication.
LEMMA PageTyped ==
    ASSUME PageTypes, PagesInv, [RfqNext]_rfqVars
    PROVE  PageTypes'
<1> USE DEF PageTypes, Stages
<1>1. CASE Request \/ UNCHANGED rfqVars
    BY <1>1 DEF Request, rfqVars, allVars, listing
<1>2. CASE ListStep
  <2>1. CASE Enter \/ AskPage \/ PageRequest \/ DropPages \/ Finish \/ Hear
    BY <2>1 DEF Enter, AskPage, PageRequest, DropPages, Finish, Hear, Abort, listing
  <2>2. CASE TakePage
    <3>1. pages \in 1..MaxPages /\ cursor # EndCursor /\ MaxPages \in Nat
      BY <2>2, ListingAssumption DEF TakePage, PagesInv
    <3>2. Answered \in 1..MaxPages
      BY <3>1, ListingAssumption DEF Answered, SentCursor, First, EndCursor
    <3>3. cursor' \in 0..MaxPages
      BY <2>2, <3>1, <3>2 DEF TakePage, NextCursor, After, EndCursor
    <3>4. holes' \subseteq 1..MaxPages
      BY <2>2, <3>2 DEF TakePage
    <3>5. cut' \in 0..MaxPages
      BY <2>2, <3>1, <3>2 DEF TakePage
    <3>6. results' \in Seq(1..MaxPages)
      <4> DEFINE Numbers == 1..MaxPages
      <4>1. results' = results \/ results' = Append(results, Answered)
        BY <2>2 DEF TakePage, Collect
      <4>2. results \in Seq(Numbers) /\ Answered \in Numbers
        BY <3>2
      <4> HIDE DEF Numbers
      <4>3. results' \in Seq(Numbers)
        BY <4>1, <4>2
      <4> QED
        BY <4>3 DEF Numbers
    <3> QED
      BY <2>2, <3>3, <3>4, <3>5, <3>6 DEF TakePage
  <2> QED
    BY <1>2, <2>1, <2>2 DEF ListStep
<1>3. CASE AuthStep
    BY <1>3 DEF AuthStep, BeginAuth, AuthRequest, Serve, TakeKey, Raised, TryDerive,
                Derive, AuthFails, listing
<1>4. CASE Proceed
    BY <1>4 DEF Proceed
<1>5. CASE DealStep
  <2>1. CASE OwnPrice \/ BookPrice
    <3>1. /\ stage' \in {"fee", "amounts"}
          /\ UNCHANGED <<op, params, mode, pages, cursor, results, holes, cut,
                         caller>>
      BY <2>1 DEF OwnPrice, BookPrice, Priced
    <3> QED
      BY <3>1
  <2>2. CASE RefuseOrder \/ NoMatch \/ FeesMissing \/ RateFails
    BY <2>2 DEF RefuseOrder, NoMatch, FeesMissing, RateFails, Refuse
  <2>3. CASE EnterOrder \/ AskBook \/ OrderRequest \/ KnowFees \/ TakeRate \/ Adjust
             \/ SignOrder
    BY <2>3 DEF EnterOrder, AskBook, OrderRequest, KnowFees, TakeRate, Adjust,
                SignOrder, listing
  <2> QED
    BY <1>5, <2>1, <2>2, <2>3 DEF DealStep
<1>6. CASE SingleCallStep
    BY <1>6 DEF SingleCallStep, BeginCall, RefuseCall, CallCrashes, CallRequest,
                TakeAnswer, RefuseAnswer, AskVersion, VersionAsked, listing
<1>7. CASE RfqStep
    BY <1>7 DEF RfqStep, FetchQuotes, RefuseLevel, RfqRequest, TakeQuote, DropQuote,
                SignAndPost, SignFails, Posted, NextParty, listing
<1>8. CASE External
    BY <1>8 DEF External, Leave, ServeLate, listing
<1> QED
    BY <1>1, <1>2, <1>3, <1>4, <1>5, <1>6, <1>7, <1>8 DEF RfqNext, CallStep

LEMMA SessionTyped ==
    ASSUME SessionTypeOK, [RfqNext]_rfqVars
    PROVE  SessionTypeOK'
<1> USE DEF SessionTypeOK
<1>1. CASE UNCHANGED session
    BY <1>1 DEF session
<1>2. CASE AuthStep \/ Proceed
  <2>1. CASE BeginAuth \/ AuthRequest
    BY <1>1, <2>1 DEF BeginAuth, AuthRequest
  <2>2. CASE Serve
    BY <2>2, Zenon DEF Serve
  <2>3. CASE TakeKey
    <3>1. creds' \in {"blank", "server"} /\ granted' = FALSE /\ UNCHANGED <<key, owed>>
      BY <2>3 DEF TakeKey
    <3> QED
      BY <3>1, Zenon
  <2>4. CASE TryDerive
    <3>1. owed' = (late > 0) /\ granted' = FALSE /\ UNCHANGED <<creds, key>>
      BY <2>4 DEF TryDerive
    <3>2. owed' = TRUE \/ owed' = FALSE
      BY <3>1
    <3> QED
      BY <3>1, <3>2, Zenon
  <2>5. CASE AuthFails
    BY <2>5, Zenon DEF AuthFails
  <2>6. CASE Proceed
    BY <2>6, Zenon DEF Proceed
  <2> QED
    BY <1>2, <2>1, <2>2, <2>3, <2>4, <2>5, <2>6 DEF AuthStep
<1>3. CASE ServeLate
    BY <1>3, Zenon DEF ServeLate
<1>4. CASE DealStep
    BY <1>1, <1>4
       DEF DealStep, EnterOrder, RefuseOrder, AskBook, OrderRequest, OwnPrice,
           BookPrice, Priced, NoMatch, KnowFees, FeesMissing, TakeRate, RateFails,
           Adjust, SignOrder, Refuse
<1>5. CASE SingleCallStep
    BY <1>1, <1>5
       DEF SingleCallStep, BeginCall, RefuseCall, CallCrashes, CallRequest,
           TakeAnswer, RefuseAnswer, AskVersion, VersionAsked
<1>6. CASE RfqStep
    BY <1>1, <1>6
       DEF RfqStep, FetchQuotes, RefuseLevel, RfqRequest, TakeQuote, DropQuote,
           SignAndPost, SignFails, Posted
<1> QED
    BY <1>1, <1>2, <1>3, <1>4, <1>5, <1>6
       DEF RfqNext, Request, CallStep, External, rfqVars

\* Only the last step signs, and an order once signed stays.
LEMMA DealTyped ==
    ASSUME DealTypeOK, DealInv, [RfqNext]_rfqVars
    PROVE  DealTypeOK'
<1>0. DealInv'
    BY DealsStep
<1>1. CASE ~DealStep
  <2>1. UNCHANGED <<ask, tick, book, price, money, fees, builder, order>>
    BY <1>1, DealElsewhere DEF deal
  <2> QED
    BY <2>1 DEF DealTypeOK
<1>2. CASE DealStep
  <2>1. \/ stage' \in Deals
        \/ UNCHANGED <<ask, tick, price, money>>
        \/ ask' = NoAsk /\ tick' = 0 /\ price' = NoPrice /\ money' = 0
    <3>1. CASE OwnPrice \/ BookPrice
      BY <3>1 DEF OwnPrice, BookPrice, Priced, Deals
    <3>2. CASE RefuseOrder \/ NoMatch \/ FeesMissing \/ RateFails
      BY <3>2 DEF RefuseOrder, NoMatch, FeesMissing, RateFails, Refuse
    <3>3. CASE EnterOrder \/ AskBook \/ OrderRequest \/ KnowFees \/ TakeRate \/ Adjust
               \/ SignOrder
      BY <3>3 DEF EnterOrder, AskBook, OrderRequest, KnowFees, TakeRate, Adjust,
                  SignOrder, deal, Deals
    <3> QED
      BY <1>2, <3>1, <3>2, <3>3 DEF DealStep
  <2>2. /\ ask' \in Asks \cup {NoAsk} /\ tick' \in Ticks \cup {0}
        /\ price' \in 0..One /\ money' \in Nat
    <3>1. CASE stage' \in Deals
      <4>1. /\ ask' \in Asks /\ tick' \in Ticks /\ money' \in Nat
            /\ price' \in tick'..One
        BY <1>0, <3>1 DEF DealInv, AskInv
      <4> QED
        BY <4>1, AmountsAssumption
    <3>2. CASE UNCHANGED <<ask, tick, price, money>>
      BY <3>2 DEF DealTypeOK
    <3>3. CASE ask' = NoAsk /\ tick' = 0 /\ price' = NoPrice /\ money' = 0
      BY <3>3, AmountsAssumption DEF NoPrice
    <3> QED
      BY <2>1, <3>1, <3>2, <3>3
  <2>3. builder' \in BuilderRates \cup {Unknown}
    BY <1>0 DEF DealInv, RateInv
  <2>4. order' = NoOrder \/ (/\ order'.usdc \in Nat /\ order'.shares \in Nat
                             /\ order'.price \in 0..One)
    <3>1. CASE SignOrder
      <4>1. PICK short \in BOOLEAN : order' = Amounts(short)
        BY <3>1 DEF SignOrder
      <4>2. stage = "amounts" /\ stage \in Deals
        BY <3>1 DEF SignOrder, Deals
      <4>3. /\ Amounts(short).usdc \in Nat /\ Amounts(short).shares \in Nat
            /\ Amounts(short).price \in tick..price
        BY <4>2, SignedAmounts DEF DealInv
      <4>4. tick \in Ticks /\ price \in tick..One
        BY <4>2 DEF DealInv, AskInv
      <4> QED
        BY <4>1, <4>3, <4>4, AmountsAssumption
    <3>2. CASE ~SignOrder
      <4>1. order' = order
        BY <1>2, <3>2
           DEF DealStep, EnterOrder, RefuseOrder, AskBook, OrderRequest, OwnPrice,
               BookPrice, Priced, NoMatch, KnowFees, FeesMissing, TakeRate,
               RateFails, Adjust, Refuse, deal
      <4> QED
        BY <4>1 DEF DealTypeOK
    <3> QED
      BY <3>1, <3>2
  <2> QED
    BY <2>2, <2>3, <2>4 DEF DealTypeOK
<1> QED
    BY <1>1, <1>2

LEMMA CallTyped ==
    ASSUME CallTypeOK, [RfqNext]_rfqVars
    PROVE  CallTypeOK'
<1>1. CASE UNCHANGED call
    BY <1>1 DEF CallTypeOK
<1>2. CASE SingleCallStep
    BY <1>1, <1>2
       DEF CallTypeOK, SingleCallStep, BeginCall, RefuseCall, CallCrashes,
           CallRequest, TakeAnswer, RefuseAnswer, AskVersion, VersionAsked
<1>3. CASE RfqStep
    BY <1>1, <1>3
       DEF RfqStep, FetchQuotes, RefuseLevel, RfqRequest, TakeQuote, DropQuote,
           SignAndPost, SignFails, Posted
<1> QED
    BY <1>1, <1>2, <1>3 DEF RfqNext, Request, CallStep, External, rfqVars

TradeTypes ==
    /\ party \in Parties
    /\ quote \in Quotes \cup {NoQuote}
    /\ picked \in Quotes \cup {Other, NoQuote}
    /\ legs \in [Parties -> Legs \cup {NoLeg}]

LEMMA LegTyped == \A p \in Parties, q \in Quotes : Leg(p, q) \in Legs
<1> SUFFICES ASSUME NEW p \in Parties, NEW q \in Quotes PROVE Leg(p, q) \in Legs
    OBVIOUS
<1>1. SideOf(q) \in Sides
    BY QuoteAssumption DEF SideOf, Sides, Missing
<1>2. RequesterLeg(q) \in Legs
    BY <1>1 DEF RequesterLeg, Legs, Opposite, Sides
<1>3. QuoterLeg(q) \in Legs
    BY <1>1 DEF QuoterLeg, Legs, Sides
<1> QED
    BY <1>2, <1>3 DEF Leg

LEMMA TradeTypesKept ==
    ASSUME TradeTypes, TradeInv, [RfqNext]_rfqVars
    PROVE  TradeTypes'
<1>1. CASE UNCHANGED trade
    BY <1>1 DEF TradeTypes, trade
<1>2. CASE RfqStep
  <2>1. CASE FetchQuotes \/ RfqRequest
    BY <1>1, <2>1 DEF FetchQuotes, RfqRequest
  <2>2. CASE TakeQuote
    <3>1. PICK q \in Quotes : quote' = q /\ picked' = q
      BY <2>2, FoundIsQuote DEF TakeQuote, TradeTypes
    <3> QED
      BY <2>2, <3>1 DEF TakeQuote, TradeTypes
  <2>3. CASE SignAndPost
    <3>1. picked \in Quotes
      BY <2>3 DEF SignAndPost, TradeInv, StageInv, PickedInv
    <3>2. Leg(party, picked) \in Legs
      BY <3>1, LegTyped DEF TradeTypes
    <3> QED
      BY <2>3, <3>2 DEF SignAndPost, TradeTypes
  <2>4. CASE RefuseLevel \/ DropQuote \/ SignFails \/ Posted
    BY <2>4 DEF RefuseLevel, DropQuote, SignFails, Posted, NextParty, TradeTypes,
                Parties
  <2> QED
    BY <1>2, <2>1, <2>2, <2>3, <2>4 DEF RfqStep
<1>3. CASE Request \/ External
    BY <1>1, <1>3 DEF Request, External
<1> QED
    BY <1>1, <1>2, <1>3 DEF RfqNext, CallStep, rfqVars

LEMMA TypesInit == RfqInit => RfqTypeOK
<1> SUFFICES ASSUME RfqInit PROVE RfqTypeOK
    OBVIOUS
<1> USE DEF RfqInit, DealInit, SessionInit, ListInit
<1>1. TypeOK
  <2>1. RestTyped
    BY HttpAssumption DEF Init, RestTyped, Labels
  <2>2. handled \in BOOLEAN
    BY Zenon DEF Init
  <2> QED
    BY <2>1, <2>2, TypeParts
<1>2. ListingTypeOK
  <2>1. pages \in 1..MaxPages /\ cursor = 1 /\ MaxPages \in Nat \ {0}
    BY ListingAssumption DEF First
  <2> QED
    BY <1>1, <2>1 DEF ListingTypeOK, Stages
<1>3. SessionTypeOK /\ CallTypeOK
    BY DEF SessionTypeOK, CallTypeOK, CallInit
<1>4. DealTypeOK
    BY AmountsAssumption DEF DealTypeOK, NoPrice
<1>5. TradeTypes
    BY DEF TradeTypes, Parties
<1> QED
    BY <1>2, <1>3, <1>4, <1>5 DEF RfqTypeOK, TradeTypes

LEMMA TypesKept ==
    ASSUME RfqTypeOK, PagesInv, DealInv, TradeInv, [RfqNext]_rfqVars
    PROVE  RfqTypeOK'
<1>1. TypeOK /\ PageTypes /\ TradeTypes
    BY DEF RfqTypeOK, ListingTypeOK, PageTypes, TradeTypes
<1>2. ListingTypeOK'
    BY <1>1, ProgramTyped, PageTyped DEF ListingTypeOK, PageTypes
<1>3. SessionTypeOK' /\ DealTypeOK' /\ CallTypeOK' /\ TradeTypes'
    BY <1>1, SessionTyped, DealTyped, CallTyped, TradeTypesKept DEF RfqTypeOK
<1> QED
    BY <1>2, <1>3 DEF RfqTypeOK, TradeTypes

\* Every variable of the program keeps to its type: a cursor names a page of the
\* server's list, amounts are numbers and prices those of the grid, what a party
\* signs is an order.
THEOREM RfqTypeCorrect == RfqSpec => []RfqTypeOK
<1> DEFINE Inv == RfqTypeOK /\ PagesInv /\ DealInv /\ TradeInv
<1>1. RfqInit => Inv
    BY TypesInit, PagesInit, DealsInit, TradeInit
<1>2. Inv /\ [RfqNext]_rfqVars => Inv'
    BY TypesKept, PagesStep, DealsStep, TradeStep
<1> QED
    BY <1>1, <1>2, PTL DEF RfqSpec

-----------------------------------------------------------------------------
(* How long the program runs.                                              *)

\* Steps that the request under way has left at most, the server's among them.
RequestLeft ==
    LET n == Attempts - attempt IN
    CASE pc = "start" -> 4 * Attempts + 1
      [] pc = "backoff" -> 4 * n + 1
      [] pc = "send" -> 4 * n
      [] pc = "flight" -> IF handled THEN 4 * n - 2 ELSE 4 * n - 1
      [] pc = "returned" -> 0

\* Stages that the operation under way has left at most: of a listing, the pages
\* and the caller that waits; of an authentication, what comes after it as well.
PagesLeft ==
    CASE stage = "enter" -> 2 * MaxPages + 2
      [] stage = "loop" -> IF cursor = EndCursor THEN 1
                           ELSE 2 * (pages + 1 - cursor) + 1
      [] stage = "page" -> 2 * (pages + 1 - cursor)
      [] OTHER -> 0
AuthLeft ==
    CASE stage = "enter" -> 4
      [] stage = "create" -> 3
      [] stage \in {"derive", "headers"} -> 2
      [] stage \in {"keyed", "noCreds", "unissued"} -> 1
      [] OTHER -> 0
CallLeft ==
    CASE stage = "enter" -> 3
      [] stage = "calling" -> 2
      [] stage = "version" -> 1
      [] OTHER -> 0
OrderLeft ==
    CASE stage = "enter" -> 7
      [] stage = "priceless" -> 6
      [] stage = "book" -> 5
      [] stage = "fee" -> 4
      [] stage = "rate" -> 3
      [] stage = "adjust" -> 2
      [] stage = "amounts" -> 1
      [] OTHER -> 0
TradeLeft ==
    LET other == IF party = "requester" THEN 4 ELSE 0 IN
    CASE stage = "enter" -> other + 4
      [] stage = "quotes" -> other + 3
      [] stage = "sign" -> other + 2
      [] stage = "post" -> other + 1
      [] OTHER -> 0
StagesLeft ==
    CASE op = "request" -> 0
      [] op = "auth" -> 2 * MaxPages + 8 + AuthLeft
      [] op = "list" -> PagesLeft + (IF caller = "waiting" THEN 1 ELSE 0)
      [] op = "call" -> CallLeft
      [] op = "order" -> OrderLeft
      [] op = "rfq" -> TradeLeft

LengthBounded ==
    params # "nil" => /\ StagesLeft \in 0..(2 * MaxPages + 12)
                      /\ RequestLeft \in 0..(4 * Attempts + 1)

Advances ==
    \/ StagesLeft' < StagesLeft
    \/ StagesLeft' = StagesLeft /\ RequestLeft' < RequestLeft

\* Each step of the program brings its end nearer, and no other step, be it of
\* the server or of a caller, takes it back.
StepAdvances ==
    params # "nil" =>
        /\ RequestStep \/ CallStep => Advances
        /\ Advances \/ UNCHANGED <<StagesLeft, RequestLeft>>

LengthInv == RequestInv /\ RfqTypeOK /\ PagesInv

\* Where a listing with params has come to.
LEMMA CursorRange ==
    ASSUME PagesInv, params # "nil"
    PROVE  /\ pages \in 1..MaxPages /\ MaxPages \in Nat
           /\ cursor # EndCursor => cursor \in 1..pages
BY ListingAssumption DEF PagesInv, Unsent, Collected, After, EndCursor

LEMMA RequestLeftTyped ==
    ASSUME RequestInv PROVE RequestLeft \in 0..(4 * Attempts + 1)
<1>1. EffectsInv /\ Attempts \in Nat \ {0} /\ pc \in Labels
    BY AttemptsTyped DEF RequestInv, EffectsInv, CountersTyped
<1>2. CASE pc \in {"start", "returned"}
    BY <1>1, <1>2 DEF RequestLeft
<1>3. CASE pc \in {"backoff", "send", "flight"}
  <2>1. attempt \in 0..(Attempts - 1)
    BY <1>1, <1>3 DEF EffectsInv, CountersTyped
  <2> QED
    BY <1>1, <1>3, <2>1 DEF RequestLeft
<1> QED
    BY <1>1, <1>2, <1>3 DEF Labels

LEMMA StagesLeftTyped ==
    ASSUME LengthInv, params # "nil"
    PROVE  StagesLeft \in 0..(2 * MaxPages + 12)
<1>1. MaxPages \in Nat \ {0}
    BY ListingAssumption
<1>2. AuthLeft \in 0..4 /\ CallLeft \in 0..3 /\ OrderLeft \in 0..7 /\ TradeLeft \in 0..8
    BY DEF AuthLeft, CallLeft, OrderLeft, TradeLeft
<1>3. PagesLeft \in 0..(2 * MaxPages + 2)
  <2>1. CASE cursor # EndCursor \/ stage \notin {"loop", "page"}
    BY <1>1, <2>1, CursorRange DEF LengthInv, PagesLeft
  <2>2. CASE cursor = EndCursor /\ stage = "loop"
    BY <1>1, <2>2 DEF PagesLeft
  <2>3. CASE cursor = EndCursor /\ stage = "page"
    BY <1>1, <2>3, CursorRange DEF LengthInv, PagesLeft, EndCursor
  <2> QED
    BY <2>1, <2>2, <2>3
<1>4. op \in {"request", "list", "auth", "call", "order", "rfq"}
    BY ListingAssumption DEF LengthInv, RfqTypeOK, ListingTypeOK
<1> QED
    BY <1>1, <1>2, <1>3, <1>4 DEF StagesLeft

\* A step of the request under way, by the client or by the server.
LEMMA RequestAdvances ==
    ASSUME RequestInv, Client \/ Handle
    PROVE  RequestLeft' < RequestLeft
<1>1. EffectsInv /\ Attempts \in Nat \ {0} /\ attempt \in Nat
    BY AttemptsTyped DEF RequestInv, EffectsInv, CountersTyped
<1>2. Attempts' = Attempts
    BY DEF Attempts, Idempotent, Client, Start, Wait, WaitCancelled, Send, Reply,
           Handle
<1>3. pc = "start" => attempt = 0
    BY <1>1 DEF EffectsInv
<1>4. pc \in {"backoff", "send", "flight"} => attempt < Attempts
    BY <1>1 DEF EffectsInv
<1>5. CASE Start
    BY <1>1, <1>2, <1>3, <1>5 DEF Start, RequestLeft
<1>6. CASE Wait
    BY <1>1, <1>2, <1>4, <1>6 DEF Wait, RequestLeft
<1>7. CASE WaitCancelled
    BY <1>1, <1>4, <1>7 DEF WaitCancelled, Return, RequestLeft
<1>8. CASE Send
    BY <1>1, <1>2, <1>4, <1>8 DEF Send, Return, client, RequestLeft
<1>9. CASE Reply
  <2>1. /\ pc = "flight"
        /\ \/ pc' = "backoff" /\ attempt' = attempt + 1
           \/ pc' = "returned"
    BY <1>9 DEF Reply, Return
  <2> QED
    BY <1>1, <1>2, <1>4, <2>1 DEF RequestLeft
<1>10. CASE Handle
    BY <1>1, <1>2, <1>4, <1>10 DEF Handle, client, RequestLeft
<1> QED
    BY <1>5, <1>6, <1>7, <1>8, <1>9, <1>10 DEF Client

LEMMA RequestStays ==
    ASSUME HandleLate \/ Cancel \/ UNCHANGED vars
    PROVE  RequestLeft' = RequestLeft
<1>1. UNCHANGED <<cfg, method, pc, attempt, handled>>
    BY DEF HandleLate, Cancel, vars, client
<1>2. Attempts' = Attempts
    BY <1>1 DEF Attempts, Idempotent
<1> QED
    BY <1>1, <1>2 DEF RequestLeft

LEMMA ListAdvances ==
    ASSUME LengthInv, params # "nil", ListStep
    PROVE  Advances
<1>1. op = "list" /\ op' = op /\ pages' = pages
    BY DEF ListStep, Enter, AskPage, PageRequest, TakePage, DropPages, Finish, Hear,
           listing
<1>2. pages \in 1..MaxPages /\ MaxPages \in Nat
      /\ (cursor # EndCursor => cursor \in 1..pages)
    BY CursorRange DEF LengthInv
<1>3. CASE PageRequest
  <2>1. StagesLeft' = StagesLeft
    BY <1>3 DEF PageRequest, listing, StagesLeft, PagesLeft
  <2> QED
    BY <1>3, <2>1, RequestAdvances DEF PageRequest, LengthInv, Advances
<1>4. CASE Hear
    BY <1>1, <1>4 DEF Hear, StagesLeft, PagesLeft, Advances
<1>5. CASE Enter \/ AskPage \/ TakePage \/ DropPages \/ Finish
  <2>1. caller' = caller
    BY <1>5 DEF Enter, AskPage, TakePage, DropPages, Finish
  <2>2. PagesLeft' < PagesLeft /\ PagesLeft \in Nat /\ PagesLeft' \in Nat
    <3>1. CASE Enter
      BY <1>1, <1>2, <3>1 DEF Enter, PagesLeft, EndCursor
    <3>2. CASE AskPage
      BY <1>1, <1>2, <3>2 DEF AskPage, AtEnd, PagesLeft
    <3>3. CASE TakePage
      <4>1. /\ stage = "page" /\ stage' = "loop"
            /\ cursor \in 1..pages /\ cursor' \in {After(cursor), EndCursor}
        BY <1>2, <3>3 DEF TakePage, NextCursor, Answered, SentCursor, LengthInv,
                          PagesInv
      <4> QED
        BY <1>1, <1>2, <4>1 DEF After, EndCursor, PagesLeft
    <3>4. CASE DropPages
      BY <1>2, <3>4 DEF DropPages, Abort, PagesLeft, LengthInv, PagesInv
    <3>5. CASE Finish
      BY <1>2, <3>5 DEF Finish, AtEnd, PagesLeft
    <3> QED
      BY <1>5, <3>1, <3>2, <3>3, <3>4, <3>5
  <2> QED
    BY <1>1, <2>1, <2>2 DEF StagesLeft, Advances
<1> QED
    BY <1>3, <1>4, <1>5 DEF ListStep

LEMMA AuthAdvances ==
    ASSUME LengthInv, params # "nil", AuthStep \/ Proceed
    PROVE  Advances
<1>1. MaxPages \in Nat \ {0} /\ op = "auth"
    BY ListingAssumption
       DEF AuthStep, BeginAuth, AuthRequest, Serve, TakeKey, TryDerive, AuthFails,
           Proceed, Authenticating
<1>2. CASE AuthRequest \/ Serve
  <2>1. op = "auth" /\ UNCHANGED <<op, stage>>
    <3>1. op = "auth" /\ UNCHANGED listing
      BY <1>2, <1>1, Zenon DEF AuthRequest, Serve
    <3> QED
      BY <3>1 DEF listing
  <2>2. StagesLeft' = StagesLeft
    BY <2>1 DEF StagesLeft, AuthLeft
  <2> QED
    BY <1>2, <2>2, RequestAdvances DEF AuthRequest, Serve, LengthInv, Advances
<1>3. CASE BeginAuth \/ TakeKey \/ TryDerive \/ AuthFails
  <2>1. op' = "auth"
    BY <1>1, <1>3 DEF BeginAuth, TakeKey, TryDerive, AuthFails
  <2>2. AuthLeft' < AuthLeft /\ AuthLeft \in Nat /\ AuthLeft' \in Nat
    BY <1>3 DEF BeginAuth, TakeKey, TryDerive, Derive, AuthFails, Authenticating,
                AuthLeft
  <2> QED
    BY <1>1, <2>1, <2>2 DEF StagesLeft, Advances
<1>4. CASE Proceed
  <2>1. StagesLeft = 2 * MaxPages + 9
    BY <1>1, <1>4 DEF Proceed, StagesLeft, AuthLeft
  <2>2. op' \in {"list", "call", "order", "rfq"} /\ stage' = "enter"
    BY <1>4, ListingAssumption DEF Proceed
  <2>3. StagesLeft' \in 0..(2 * MaxPages + 8)
    BY <1>1, <2>2 DEF StagesLeft, PagesLeft, CallLeft, OrderLeft, TradeLeft
  <2> QED
    BY <1>1, <2>1, <2>3 DEF Advances
<1> QED
    BY <1>2, <1>3, <1>4 DEF AuthStep

LEMMA DealAdvances ==
    ASSUME LengthInv, params # "nil", DealStep
    PROVE  Advances
<1>1. op = "order" /\ op' = op
    BY DEF DealStep, EnterOrder, RefuseOrder, AskBook, OrderRequest, OwnPrice,
           BookPrice, Priced, NoMatch, KnowFees, FeesMissing, TakeRate, RateFails,
           Adjust, SignOrder, Refuse, listing
<1>2. CASE OrderRequest
  <2>1. StagesLeft' = StagesLeft
    BY <1>2 DEF OrderRequest, listing, StagesLeft, OrderLeft
  <2> QED
    BY <1>2, <2>1, RequestAdvances DEF OrderRequest, LengthInv, Advances
<1>3. CASE ~OrderRequest
  <2>1. OrderLeft' < OrderLeft
    <3>1. CASE OwnPrice \/ BookPrice
      <4>1. stage \in {"priceless", "book"} /\ stage' \in {"fee", "amounts"}
        BY <3>1 DEF OwnPrice, BookPrice, Priced
      <4> QED
        BY <4>1 DEF OrderLeft
    <3>2. CASE RefuseOrder \/ NoMatch \/ FeesMissing \/ RateFails
      BY <3>2 DEF RefuseOrder, NoMatch, FeesMissing, RateFails, Refuse, OrderLeft
    <3>3. CASE EnterOrder \/ AskBook \/ KnowFees \/ TakeRate \/ Adjust \/ SignOrder
      BY <3>3 DEF EnterOrder, AskBook, KnowFees, TakeRate, Adjust, SignOrder,
                  OrderLeft
    <3> QED
      BY <1>3, <3>1, <3>2, <3>3 DEF DealStep
  <2> QED
    BY <1>1, <2>1 DEF StagesLeft, Advances
<1> QED
    BY <1>2, <1>3

LEMMA CallAdvances ==
    ASSUME LengthInv, params # "nil", SingleCallStep
    PROVE  Advances
<1>1. op = "call" /\ op' = op
    BY DEF SingleCallStep, BeginCall, RefuseCall, CallCrashes, CallRequest,
           TakeAnswer, RefuseAnswer, AskVersion, VersionAsked, listing
<1>2. CASE CallRequest
  <2>1. StagesLeft' = StagesLeft
    BY <1>2 DEF CallRequest, listing, StagesLeft, CallLeft
  <2> QED
    BY <1>2, <2>1, RequestAdvances DEF CallRequest, LengthInv, Advances
<1>3. CASE ~CallRequest
  <2>1. CallLeft' < CallLeft
    BY <1>3 DEF SingleCallStep, BeginCall, RefuseCall, CallCrashes, TakeAnswer,
                RefuseAnswer, AskVersion, VersionAsked, CallLeft
  <2> QED
    BY <1>1, <2>1 DEF StagesLeft, Advances
<1> QED
    BY <1>2, <1>3

LEMMA TradeAdvances ==
    ASSUME LengthInv, params # "nil", RfqStep
    PROVE  Advances
<1>1. op = "rfq" /\ op' = op
    BY DEF RfqStep, FetchQuotes, RefuseLevel, RfqRequest, TakeQuote, DropQuote,
           SignAndPost, SignFails, Posted, NextParty, listing
<1>2. CASE RfqRequest
  <2>1. StagesLeft' = StagesLeft
    BY <1>2 DEF RfqRequest, listing, trade, StagesLeft, TradeLeft
  <2> QED
    BY <1>2, <2>1, RequestAdvances DEF RfqRequest, LengthInv, Advances
<1>3. CASE FetchQuotes \/ TakeQuote \/ SignAndPost
  <2>1. TradeLeft' < TradeLeft
    BY <1>3 DEF FetchQuotes, TakeQuote, SignAndPost, trade, TradeLeft
  <2> QED
    BY <1>1, <2>1 DEF StagesLeft, Advances
<1>4. CASE RefuseLevel \/ DropQuote \/ SignFails \/ Posted
  <2>1. /\ stage \in {"enter", "quotes", "sign", "post"} /\ party' = "quoter"
        /\ stage' = IF party = "requester" THEN "enter" ELSE "traded"
    BY <1>4 DEF RefuseLevel, DropQuote, SignFails, Posted, NextParty
  <2>2. TradeLeft' < TradeLeft
    BY <2>1 DEF TradeLeft
  <2> QED
    BY <1>1, <2>2 DEF StagesLeft, Advances
<1> QED
    BY <1>2, <1>3, <1>4 DEF RfqStep

\* What is not the program's step.
LEMMA NothingTakenBack ==
    ASSUME LengthInv, params # "nil", Request \/ External \/ UNCHANGED rfqVars
    PROVE  Advances \/ UNCHANGED <<StagesLeft, RequestLeft>>
<1>1. CASE Request
  <2>1. StagesLeft' = StagesLeft
    BY <1>1 DEF Request, listing, StagesLeft
  <2>2. RequestLeft' < RequestLeft \/ RequestLeft' = RequestLeft
    BY <1>1, RequestAdvances, RequestStays DEF Request, Next, LengthInv
  <2> QED
    BY <2>1, <2>2 DEF Advances
<1>2. CASE Leave
  <2>1. /\ op = "list" /\ op' = op /\ PagesLeft' = PagesLeft
        /\ caller = "waiting" /\ caller' = "gone"
    BY <1>2 DEF Leave, PagesLeft
  <2>2. PagesLeft \in Nat
    BY CursorRange, ListingAssumption DEF LengthInv, PagesInv, PagesLeft, EndCursor
  <2> QED
    BY <2>1, <2>2 DEF StagesLeft, Advances
<1>3. CASE ServeLate
  <2>1. StagesLeft' = StagesLeft
    BY <1>3 DEF ServeLate, Authenticating, listing, StagesLeft, AuthLeft
  <2> QED
    BY <1>3, <2>1, RequestStays DEF ServeLate
<1>4. CASE UNCHANGED rfqVars
  <2>1. StagesLeft' = StagesLeft
    BY <1>4 DEF rfqVars, allVars, listing, trade, StagesLeft, PagesLeft, AuthLeft,
                CallLeft, OrderLeft, TradeLeft
  <2> QED
    BY <1>4, <2>1, RequestStays DEF rfqVars, allVars
<1> QED
    BY <1>1, <1>2, <1>3, <1>4 DEF External

\* Whatever the program does - a request, a listing with params, an
\* authentication and what follows it, a single call, an order, a trade - it does
\* in a bounded number of stages, each of at most one request of so many steps,
\* and neither the server nor a caller that leaves can prolong it.
THEOREM ProgramIsShort == RfqSpec => []LengthBounded /\ [][StepAdvances]_rfqVars
<1> DEFINE Inv == LengthInv /\ DealInv /\ TradeInv
<1>1. RfqInit => Inv
    BY RequestInit, TypesInit, PagesInit, DealsInit, TradeInit DEF LengthInv
<1>2. Inv /\ [RfqNext]_rfqVars => Inv'
    BY RequestKept, TypesKept, PagesStep, DealsStep, TradeStep DEF LengthInv
<1>3. Inv => LengthBounded
    BY RequestLeftTyped, StagesLeftTyped DEF LengthInv, LengthBounded
<1>4. Inv /\ [RfqNext]_rfqVars => [StepAdvances]_rfqVars
  <2> SUFFICES ASSUME LengthInv, [RfqNext]_rfqVars, params # "nil"
               PROVE  /\ RequestStep \/ CallStep => Advances
                      /\ Advances \/ UNCHANGED <<StagesLeft, RequestLeft>>
    BY DEF StepAdvances
  <2>1. CallStep => Advances
    BY ListAdvances, AuthAdvances, DealAdvances, CallAdvances, TradeAdvances
       DEF CallStep
  <2>2. ASSUME RequestStep PROVE Advances
    <3>1. StagesLeft' = StagesLeft
      BY <2>2 DEF RequestStep, listing, StagesLeft
    <3> QED
      BY <2>2, <3>1, RequestAdvances DEF RequestStep, LengthInv, Advances
  <2> QED
    BY <2>1, <2>2, NothingTakenBack DEF RfqNext
<1> QED
    BY <1>1, <1>2, <1>3, <1>4, PTL DEF RfqSpec

=============================================================================
