# Verification of the Polymarket Go SDK

This directory is a TLA+ development about the Go SDK in `src/polymarket/`: the
CLOB (order book) client, its HTTP and websocket layers, and the `web3`
subpackage that sends transactions to Polygon directly or through the gasless
relayer.  TLC checks the modules on small instances; TLAPS proves the theorems
in the `*Proofs` modules for every value of the constants.

## 1. Inventory of the system

| Part | Source | State it keeps | Operations | What is hard |
|---|---|---|---|---|
| Order-version negotiation | `client_v2.go`, `client_ctx.go` | `cachedVersion` under `mu` | resolve, forced refresh, create-and-post with one retry | a cache shared by goroutines decides whether an order is POSTed twice |
| HTTP transport | `http_client.go` | retry configuration, request timeout, body buffer pool | `GetCtx`, `PostCtx`, `DeleteCtx` over `RequestCtx`/`doOnce` | which failures are retried, back-off, cancellation, a pooled buffer the transport may still read |
| Market metadata caches | `client_v2.go`, `client_api.go`, `client_internal.go` | `tickSizes`, `negRisk`, `feeInfos`, `feeRates`, `tokenCondition` | `resolveTickAndNegRisk`, `ensureMarketInfoCached`, `GetTickSize`... | incomplete answers and ticks that have changed since cached for ever, a default that picks the wrong exchange contract |
| Order builders | `client_v2.go`, `order_builder/*` | `builders` cache by exchange address; none in the builders | build and sign V2 orders | double-checked locking |
| Amounts, prices and fees | `order_builder/*`, `fees.go`, `client_v2.go` | `builderFeeRates` | market price of a book, rounding, `AdjustBuyAmountForFees`, the signed amounts | order plus fees must fit the balance; a price rounded twice; `math.Floor` of a float64 product |
| Authentication | `client.go`, `client_api.go`, `client_misc.go`, `signing_internal.go` | `creds`, `mode` | create/derive API key, mode L0/L1/L2 | fallback when creation fails, a creation handled late, unsynchronised writes |
| Order and trade listings | `client_orders.go`, `client_v2.go`, `typed_responses.go`, `http_helpers.go` | the cursor of a listing | `GetOrders`, `GetTrades`, `GetPreMigrationOrders`, `GetBuilderTrades` | the loop ends only when the server says so; answers without data or cursor are no errors |
| Single-request calls | `client_ctx.go`, `client_api.go`, `client_misc.go`, `client_orders.go`, `client_rewards.go`, `typed_responses.go`, `rfq/rfq_client.go` | none | cancellations, queries, keys, notifications, heartbeats, market data, rewards, RFQ requests and quotes | which level each needs, answers of another shape, a refresh of the version after a batch |
| Websocket client | `ws_client.go` | the connection, `lastAuth`, read deadline | `Run` (dial, subscribe, ping, read loop), handlers | reader and pinger goroutines, reconnect by the caller, classification of a close |
| Gasless web3 client | `web3/gasless_client.go` | relayer nonce (remote), builder credentials | `Execute`, `ExecuteBatch`, `waitForReceipt`, `waitForConfirmations`, redeem/split/merge/wrap | a relayer and a chain that may be slow, fail, revert or reorganise |
| On-chain web3 client | `web3/web3_client.go`, `web3/base_client.go` | `nonce` under `nonceMu`; eth_call strategy | nonce hand-out, transactions, approvals, redeem | concurrent transactions, nonce gaps, partial success |
| Collateral detection | `web3/collateral_detect.go` | none (goroutines and a semaphore) | `ResolveCollateralFromAsset(Batch)` | bounded parallelism, per-index results, errors |
| RFQ client | `rfq/rfq_client.go` | none | accept a quote, approve an order | both sides must sign matching legs |
| Gamma, Data and Bridge APIs | `gamma_api.go`, `data_api.go`, `bridge_client.go` | none | one GET or POST each | nothing beyond formatting a URL |
| Types, configuration, ABIs, logger, signatures | `types*.go`, `config.go`, `constants.go`, `endpoints.go`, `web3/abi*`, `web3/logger.go`, `signer.go` | none | formatting and hashing | cryptography and encodings, out of reach of TLC |

How they interact.  A create-and-post call goes: `retryOnVersionUpdate` reads
the version cache, then `fn` resolves tick size and neg-risk (market caches),
reads the fee and balance caches to shrink a protected buy, takes a builder from
the builder cache, signs, and POSTs through the HTTP transport; a mismatch
answer forces a refresh of the version cache.  The POST itself is not retried
by the transport unless the caller sets `RetryNonIdempotent`.  The websocket
client only needs the credentials.  The two web3 clients share `base_client.go`
(eth_call with a detected strategy, nonce hand-out), and collateral detection
issues its `eth_call`s from several goroutines.

What makes each part correct:

- negotiation: an order the server accepted is not POSTed again, and what the
  caller is told is what happened;
- transport: a request that must not be repeated takes effect once, a definite
  answer is final;
- caches and builders: an order is signed for the contract of its market, at a tick
  and a fee rate that the market has had, and one builder serves one contract;
- amounts: an order and its fees stay within the balance, and a fill-or-kill
  order can be filled from the book it was priced off;
- authentication: credentials are recovered when the server has them, and what
  needs them is sent only with them;
- listings: an error, or as complete as the server's answers, and they end;
- websocket: a live connection is kept, a dead one noticed, no goroutine left;
- web3: nonces do not collide, success means mined, one deadline bounds a call;
- collateral: bounded goroutines, each result at its index;
- RFQ: the two orders of a trade fit each other.

The parts that are modelled are told in section 3, those that are not in section
7.  `PROJECT.json` lists the same parts under `components`, and under `hazards` the
places in the code where each difficulty bites.

## 2. Plan

The modules in the order in which they were written, the most important
behaviour first.  A module `XProofs` proves about `X`; a module `MCX` gives its
constants values.

| Module | Composed of | Status |
|---|---|---|
| `VersionRetry` | | checked, proved |
| `HttpRetry` | | checked inside `Rfq`, proved in `RfqProofs` |
| `NonceManager` | | checked inside `OnchainExecute`, proved in `OnchainExecuteProofs` |
| `BuilderCache`, refines `AtomicMemo` | | checked inside `OrderCreation`, proved |
| `WsSession` | | checked, proved |
| `CollateralBatch` | | checked alone and beside `Relay` (`MCWeb3`), proved |
| `OrderCreation`, refines `AtomicMemo` | `BuilderCache` | checked, proved |
| `Listing` | `HttpRetry` | checked inside `Rfq`, proved in `RfqProofs` |
| `OnchainExecute`, refines `NonceManager` | `NonceManager` | checked, proved |
| `Relay` | | checked alone and beside `CollateralBatch` (`MCWeb3`), proved |
| `Session` | `Listing` | checked inside `Rfq`, proved in `RfqProofs` |
| `OrderAmounts` | | operators, used by `PricedOrder`; proved in `OrderAmountsProofs` |
| `PricedOrder` | `Session`, `OrderAmounts` | checked inside `Rfq`, proved in `RfqProofs` |
| `Calls` | `Session` | checked inside `Rfq`, proved in `RfqProofs` |
| `Rfq` | `PricedOrder`, `Calls` | checked, proved |

Components are composed where the code composes them, so that one run asks the
questions of several of them in the context they really run in.

What is left, in this order:

1. `BodyPool`: the pooled request body (`http_client.go:78-80`, `178-184`) against
   the transport's write loop, composed into `HttpRetry`.
2. `WaitForReceiptCtx` (`web3/base_client.go:647-672`) beside
   `OnchainExecute`'s own wait; several tokens per market in `OrderCreation`.

## 3. The modules

### `VersionRetry` (`client_v2.go`, `client_ctx.go`)

`cache` is `c.cachedVersion`.  `ResolveOrderVersion` takes four actions because
the code drops the read lock before it asks the server and takes the write lock
after it: `ResolveHit`, `ResolveMiss`, `Fetch` and `Store`.  An operation
(`retryOnVersionUpdate` around create-and-POST) runs at most twice,
each time POSTing through `PostOrderV2Ctx`, which refreshes the cache when the
server answers `order_version_mismatch`.  Any number of goroutines share the
cache; the program may set it (`SetCachedOrderVersion`).  The server is a fleet
that a deployment moves between versions; an answer to a POST may be lost with
the order placed.  History variables tell what each operation POSTed, whether
anybody else wrote the cache meanwhile (`foreign`), and whether any order has
been rejected so far (`quiet`).

### `HttpRetry`, `Listing`, `Session`, `OrderAmounts`, `PricedOrder`, `Calls`, `Rfq` (one composition)

`HttpRetry` is one `RequestCtx`: the attempt loop, the back-off, the outcome
classes of `doOnce`, cancellation while waiting or sending, and a server that may
handle a request before its answer is lost or after the client gave it up
(`late`).

`Listing` is the page loop of `GetOrders`, `GetTrades`, `GetPreMigrationOrders`
and `GetBuilderTrades` over it; every page is a request of its own (`Fresh`), with
`context.Background()` as the code has it; `caller` is the caller of a
`Typed...Ctx` variant, which may leave while the goroutine goes on.  An answer states
any part of `Parts`: the code takes one without `data` for an empty page, and one
without `next_cursor` for the last, and neither for an error.  The histories `holes`
and `cut` name the pages concerned.

`Session` is `NewClobClient`'s level, `CreateOrDeriveAPIKey` (a POST, then a GET),
`CreateAPIKeyWithHeaders` (stage "headers": a POST without a level check) and
`SetAPICreds`; what follows is refused below the level it needs.  The server may
issue a key for a creation it handles late, while the derivation is under way.  Any
object of a 200 is taken for credentials, one that states no key too (`creds = "blank"`).

`OrderAmounts` is the arithmetic of an order in exact numbers: prices in points,
shares in hundredths of a token, USDC in cents (and, in a sum with fees, `Scale` to
a cent), rates in parts of `Scale`.  What float64 does is kept where it changes a
result: the products `math.Floor` is applied to can fall just short of the whole
number.  For the prices of the tick grid, `Falls` names the prices concerned (for a
tick of 0.01: 0.29, 0.57 and 0.58); for amounts, the parameter `short` leaves it
open.

`PricedOrder` is `CreateOrderV2` and `CreateMarketOrderV2` as a sequence of stages:
the book's request and the market price, the rounding of the price, the fee info,
the builder's rate (cached in `builder`, asked for at most once), the adjustment to
the balance, the amounts.  `Protected` keeps a difference of the code: a limit order's
balance is a pointer, where zero protects, a market order's is a number, where zero
does not.  Tick size and fee info are taken as given, because how they are found is
`OrderCreation`'s subject.

`Calls` are the operations that are a single request.  An endpoint is a record of its
method, the level it checks, the shapes of answer it hands on, and whether it refuses
arguments; one action per step serves all of them.  A batch of orders may be followed by
a request for the version (`AskVersion`).  `CallCrashes` is the panic of a call that
reads credentials without checking for them.

`Rfq` is a trade: `AcceptQuote` by the requester and `ApproveOrder` by the quoter,
each a GET, a derivation of the order from the quote found, a signature, a POST.
Its specification is that of a program that makes one operation of `Ops`, perhaps after
authenticating.

### `NonceManager`, `OnchainExecute` (`web3/base_client.go`, `web3/web3_client.go`)

`NonceManager`: `GetTransactionOpts` under `nonceMu` (`lock`, `hasNonce`,
`cachedNonce`), its gas query after the lock (a failure leaks the nonce),
`InvalidateNonce`, and the chain: a pool of accepted transactions mined in nonce
order.  `OnchainExecute` adds the client's own calls, which do not use the
counter but read `PendingNonceAt` before each transaction: single transactions
and series (`SetAllApprovals`, `RedeemPositions` of an EOA or Safe), each built,
sent and awaited until a timeout; another sender of the account may take the
nonce first or replace a transaction.

What `GetTransactionOpts` hands out need not reach the pool: its gas query fails
(`GasError`), or the node refuses the transaction, the request is lost, or the
caller never sends (`Drop`).  None of these gives the nonce back; `dropped` remembers
them, as `overlap` remembers that the counter was fetched while a caller held options.
A call of `OnchainExecute` may lose the answer to a transaction that the pool has taken
(`Accepted`, `Replaces`).  `Hang` and `Hangs` are requests that never end: the
client's RPCs run under `context.Background()` on an `ethclient` without a timeout.  One
that hangs in `PendingNonceAt` holds `nonceMu` for good.

### `BuilderCache`, `AtomicMemo`, `OrderCreation` (`client_v2.go`, `client_api.go`)

`BuilderCache` is the double-checked locking of `getOrCreateV2Builder` on a
model of `sync.RWMutex` (`readers`, `writer`): lookup, construction outside the
lock, second look under the write lock.  `AtomicMemo` is what it promises: a memo
table answering in one step.  `OrderCreation` runs `CreateOrderV2`,
`CreateMarketOrderV2` and the V1 order of an RFQ trade up to the signature,
including the three sources of tick size and neg-risk flag (options, caches, three
endpoints), `ensureMarketInfoCached`, the fee guard, and the builder; and the lookups
a program makes on their own (`GetTickSize`, `GetNegRisk`, `GetFeeRateBps`,
`GetFeeExponent`), which fill the same caches.  Each critical section on the market
caches is one step.  Go's zero value of a missing map key is modelled (`TickOf`,
`NegOf`).  The market is external and live: `MarketChanges` gives it another tick and
fee rate, and `had` remembers all it has had.  The caches are never invalidated, and an
answer may be older than the last change, so a lookup answers with any of them.  Its
neg-risk flag stays: the exchange contract a token is registered with does not change.

### `WsSession` (`ws_client.go`)

Every `Run` has a main goroutine (subscribe, ping timer with jitter, error
channel, cancellation), a reader goroutine and a connection; the caller may call
`Run` again once it returned.  `conn` is the shared field the next `Run`
overwrites.  Time advances in half ping intervals (`Tick`), which bound the
ping timer, the read deadline and the server's answer.  Control frames (`HearControl`)
extend the deadline in the handlers set at dialling, without returning from the read.

### `CollateralBatch` (`web3/collateral_detect.go`, `web3/base_client.go`)

`Spawn` is the loop that takes the semaphore before it starts a goroutine,
`Goroutine(q)` the two `eth_call`s of a query, `Await` the wait for all of them.
`callContract`'s detected strategy is two shared fields, read and written one by
one without a lock, as in the code.  A call with a known strategy may hang; the probes of
a detection end after five seconds each.

### `Relay` (`web3/gasless_client.go`)

`Execute` and `ExecuteBatch`: relayer nonce, building and signing (fallible),
headers, submission (whose answer may be lost), polling for the receipt, polling
for confirmations, all under one deadline.  The chain adds blocks and may
reorganise.  A request to the RPC endpoint may hang (`RelayHangs`), and with it the call,
because the deadline is looked at only between requests.

## 4. The runs

All bounds are constants of the cfg files.

| Run | What it shows | Bounds, and why they are enough |
|---|---|---|
| `version` | no second POST before any rejection, or without an own rejection when undisturbed; no duplicate order when undisturbed; a heard acceptance is returned | two goroutines: disturbance needs one other writer; two versions, one deployment, one injected version |
| `version_concurrent` | *violation* of the promise that an accepted order is never POSTed again: another goroutine's refresh triggers it | the same, two deployments |
| `listing` | every kind of call of one client over the same transport: a request that must not be repeated takes effect once and a definite answer is final (`NonIdempotentOnce`, `DefiniteAnswerIsFinal`); a listing is an error or all that the answers stated, once and in order (`CompleteListing`); authentication recovers the key; what needs credentials is sent with them; a protected limit buy and its fees fit the balance, and so does a protected market buy but at the prices that fall short (`WithinBalance`); a fill-or-kill order can be filled from its book (`BookFills`); both orders of a trade fit; every call returns | see below |
| `market_rounding` | *violation*: a protected market buy at 0.58 is estimated at 0.57, signed at 0.56, and exceeds its balance | orders only, two attempts |
| `listing_nil` | *violation*: a listing without params never ends on a server with two pages | two attempts, two pages |
| `onchain` | nonces unique unless the counter is fetched while one is held; every gap is a nonce whose caller dropped it; what is in the pool is mined unless the chain waits for such a nonce; success means every transaction mined as one's own; failure leaves at most the last in doubt; calls return unless a request hangs | two goroutines with the counter and one running two-transaction calls: every pair of kinds of sender; three nonces handed out |
| `order_creation` | tick and fee rate are ones the market has had, flag and exchange its own; a protected buy is not signed without a fee; a warm order asks nothing; one builder per contract; the cache refines the memo table; every order and lookup ends | two goroutines, two orders or lookups: one may fill or spoil what the other reads; one token of a neg-risk market (neg-risk, so that the zero value of a missing flag is wrong); a market whose minimum tick goes from 10 to 1 and its fee rate with it, at any moment; requests with a finer, a coarser and no tick, with and without a neg-risk flag, of V1 and V2 orders, protected or not |
| `ws` | a healthy connection never times out; a half-open one is noticed; readers end | two Runs: one reader left behind and one connection to steal |
| `ws_stale` | *violation*: a reader goes on with the next Run's connection | the same |
| `web3` | the limit bounds the goroutines of a batch; results at their index; one deadline for both polls of a gasless call; batch and calls end unless a request hangs | three queries for two places: one must wait; two calls, up to two confirmations, three blocks |
| `collateral_torn` | *violation*: a mixed, unverified pair of mode and endpoint stays cached | three queries, a main endpoint and a backup that accept different modes |
| `relay_confirmations` | *violation*: with two confirmations the receipt is returned one block earlier than the comments promise | one call |

The instance of `web3` (module `MCWeb3`) holds two modules that share no variable:
collateral detection and gasless calls use different goroutines and endpoints' answers,
so interleaving them would add states and no behaviours of either.  A behaviour of
`MCWeb3` therefore runs one of them from its initial state, with all its steps, and each
property is about one of the two.

The instance of `listing` (module `MCListing`).  Four retry configurations: the default one
(three attempts), none, a repeatable POST without a cap, and two attempts.  A request alone
meets all of them (`MCInit`); listings and authentications have three attempts, single
calls, orders and trades two, which is enough for an attempt that is given up and handled
late beside one that succeeds.  Three pages: a first, an inner and a last one, any of whose
answers may lack its data or its cursor.  Quotes of every side and match type, and some
lacking each field.  Orders at ticks 0.01 and 0.1, at prices whose float64 product falls
short (0.29, 0.58) and one that does not (0.55); balances that cover amount and fees, the
amount alone, not even that, and next to nothing; with and without a builder's fee; both
sides; books that are empty, of one level and of three, too thin for an order and deep
enough for it.

The six violations are the findings of `PROJECT.json`, with the line of the
documentation or comment each contradicts.  `CHECK_DEADLOCK FALSE` is set where
the modelled program may stop: its calls are over, or a bound on calls, blocks or
time is reached.

Every property of a passing run has a mutant of a modelled definition (a dropped
check, a missing reset, a swapped field) that breaks it under the same cfg.

## 5. Fairness

Weak fairness of the client's own steps: a goroutine that can run does; timers
fire; `http.Client`'s 30s timeout, the five seconds of a strategy's probe and the read
deadline end what they guard, so an attempt in flight over HTTP is answered or fails.
Nothing ends the other requests to an RPC endpoint: `PendingNonceAt`, `SuggestGasPrice`,
`TransactionReceipt`, `BlockNumber` and an `eth_call` with a known strategy run under
`context.Background()`, and the polling deadlines are compared with the clock only after
the request has returned.  In the modules such a request may hang at any time (`Hang`,
`Hangs`, `RelayHangs`), after which no fairness moves it.  So
`RunnersReturn`, `RelayReturns` and `BatchReturns` say that a call returns unless
a request of its own (in a batch, of any query) hangs, and `SentIsMined` that a
transaction is mined unless the chain comes to wait for a nonce that was dropped or is held
by a hung caller.  A waiting lock is
released because each critical section is a few steps of a fair goroutine; the
`RWMutex` keeps new readers out when a writer waits.  On the chain, `Mine` is
fair in `onchain` (a transaction without a gap below it is mined); `Relay` assumes
nothing of the chain and still returns.  `WsSession` needs fair ticks and a
fair answer of the server for a *healthy* connection only; a half-open one never
answers.  Nothing makes a caller cancel, leave, or set a version, nor the server
handle a late request.

## 6. The proofs

TLAPS checks every theorem for all values of the constants that satisfy the
named assumptions (`ASSUME`, evaluated by TLC in the runs).

- `VersionRetryProofs`: `TypeCorrect`; `PostsBounded` (at most two POSTs);
  `QuietServerNoRepost` (as long as nobody was rejected on a resolved cache, the cache
  does not move, so the comparison after `fn` is equal); `UndisturbedRepost` and
  `UndisturbedNoDuplicate` (an operation without foreign writes compares the
  cache only with its own refresh, which only its own rejection causes);
  `AcceptancesReported` (what the last POST heard is what the operation returns);
  `OperationsAreShort`.
- `OrderAmountsProofs`: the lemmas about the operators.  `RoundDown` and `Rounded` keep
  a price on the grid and between the tick and 1 (`RoundDownBounds`); what the adjustment
  leaves fits the balance together with the fees at the estimated rate (`AdjustedFits`),
  slippage only raises that rate (`SlippageRaises`), and cutting to whole pieces never adds
  (`WholeBelow`).  A book is a sequence of any length and its worth a fold; adding a level
  adds its worth, more levels are worth no less, and the price found for a fill-or-kill
  order is that of a level whose sum covers it (`PricedWhereFilled`).  The folds are the
  only data these proofs have to induct over.  The induction goes by the least number that
  would be a counterexample, found with the well-foundedness of the naturals, for each
  statement anew.
- `RfqProofs`.  *One request*: effects and requests still pending at the server never exceed
  the requests sent (`EffectsInv`), and a request that must not be repeated is sent once,
  hence `PostTakesEffectOnce`; `DefiniteIsFinal`.  *The program*: each of its steps is a
  step of `RequestCtx` or starts another request (`StepIsRequest`), hence `EveryRequest`;
  `KeysRecovered` (no credentials but those an answer stated, blank ones included, and none
  only after a derivation that failed or was refused); `SentWithCreds` (level 2 stands for
  credentials, and the level checked on entry holds until the last request);
  `RfqTypeCorrect`, which needs `PagesInv` for the cursor, `DealInv` for prices and amounts,
  `TradeInv` for what is signed.  *Listings*: `ListingsComplete` (the pages collected are,
  in order, the first ones but for the holes, and the cursor names the next unless the list
  was cut), and the other side of the finding of `listing_nil`, `NilParamsNeverWhole`: with
  nil params and more pages than one, a listing ends only through an answer without a
  cursor, and never with a second page.  *Trades*: `TradesFit`; the id picks the quote
  (`FoundIsQuote`), two orders derived from one quote that is not refused fit
  (`DerivedLegsFit`), and whatever was signed was derived from the trade's quote.
  *Amounts*: `BalanceKept`, for every protected limit order and for market orders at all
  prices but those of `Falls`, at which `market_rounding` breaks it; `BookOrdersFill`: the
  levels at which the order as signed is matched include all those the price was found with.
  *Length*: `ProgramIsShort`.
- `OnchainExecuteProofs`: `NoncesUnique` and `NoncesMonotonic` of `NonceManager` from mutual
  exclusion (`MutexInv`) and "every nonce held is below the counter" (`BelowInv`);
  `NoNonceForgotten`, every nonce below the counter is held, in the pool, mined, or one that
  its caller dropped (a failed gas query, a transaction refused, lost or never sent):
  neither the counter nor a resync makes a gap of its own.  `OnchainImplements`: the
  composed system refines `NonceManager` (its calls are the foreign sender), hence
  `OnchainNoncesUnique` and `OnchainNoncesAccounted`.  `ReceiptsAreMined` and `LastInDoubt`,
  whose invariant relates the owner of each mined nonce, the receipts and the one
  transaction in doubt (`DoubtInv`); `OnchainTypeCorrect`; `CallsAreShort`.
- `OrderCreationProofs`.  *The builder cache*: `TypeCorrect`, `OneBuilder`, `Kept` (a cached
  builder is never replaced) and `Implements`, the refinement of `AtomicMemo`: a store or a
  hit is the memo's step, every lock and lookup a stutter.  *Orders*: every step of an order
  is a step of the builder cache or leaves it alone, hence `OrdersShareBuilder` and
  `OrdersUseMemo`; `OrderTypeCorrect`; `ProtectedBuysHaveFees` (`FeeInv`: a protected buy
  gets beyond the fee guard only when the token's fee info is cached, and none is ever
  dropped); `WarmOrdersAskNothing` (`WarmInv`: caches that were full when the order was
  asked for stay full); `MarketTermsHold`: as long as no answer has left a field out, what
  the caches hold is a tick, a rate and the flag the market has had (`CachesRight`), however
  often it has changed meanwhile, the terms an order has read from them are (`TermsRight`),
  and the builder that signs is the one of the contract its flag names (`Signing`, with
  `CacheRight` of the builder cache).  *The mutex*: `NoDeadlock`.  Whoever holds the lock,
  for reading or writing, is inside its section (`HeldInside`) and its order waits for that
  section only (`Calling`); so if all calls waited, nobody would hold the lock, and then the
  first writer, or else any reader, need not wait.  *Length*: `OrdersAreShort`.
- `CollateralBatchProofs`: `TypeCorrect`; `FanOutBounded` (`sem` equals the number of
  goroutines); `ResultsRight` (a goroutine that signals has written its own query's result
  (`Progress`), and the signals counted are those of different queries (`SignalsInv`), so that
  when all have been counted every result is there).  The extent of the finding of
  `collateral_torn`: `AlikeEndpointsVerified` (the strategy's two fields are never a pair
  that no probe has verified if all endpoints accept the same modes) and
  `OneByOneVerified` (nor if the limit is one).  `BatchIsShort`.
- `RelayProofs`: `RelayTypeCorrect`, `DeadlineShared`; `ReceiptsDeep`, the extent of the
  finding of `relay_confirmations`: a receipt is the chain's and, its own block
  counted, as deep as asked, unless a reorganisation removed its block after it was fetched
  (the invariant tracks this while polling); `CallsAreShort`.
- `WsSessionProofs`: `TypeCorrect`, and `HealthyLives` for every ping interval, jitter,
  latency and deadline with `PingMax + Latency < Deadline`, and any number of Runs.  While
  no answer is owed the connection has been silent no longer than since the last PING;
  while one is owed, the PING had been due within `PingMax` of the last data (`Bounded`);
  and time passes only when what has arrived was read, unless a callback or another Run's
  reader hinders it.  The extent of the finding of `ws_stale`: `ForeignReadsNeedRedial` (a
  reader reads another Run's connection only after a later Run has dialled) and
  `OneRunReadsItsOwn`.  `ReaderNeverBlocks` (the error channel has room for what a reader
  has to say, though nobody may receive it).  The safety half of `ReadersEnd` and
  `HalfOpenEnds`: `ReadersRunOut` (once every Run has returned no read can wait, and each
  step takes a reader a stop further to its end, at most three for each) and
  `SilenceCounts` (while a Run listens in vain every tick brings its read deadline nearer,
  and nothing that it writes or an older reader does puts it off).

Liveness and `ENABLED` are out of the prover's reach, so that every call returns is
checked by TLC on the instances.  Its safety half is proved, for every value of the
constants: a measure that each step of a call lowers and that no step of another actor
raises.  With the fairness of section 5 a call then ends unless it is hindered for ever or a
request of it hangs.

| Theorem | A call makes at most | Nobody prolongs it: |
|---|---|---|
| `OperationsAreShort` (negotiation) | 13 steps | other goroutines, deployments, `SetCachedOrderVersion` |
| `ProgramIsShort` (every operation over HTTP) | 2 `MaxPages` + 12 stages, each of at most 4 `Attempts` + 1 steps | the server, a caller that leaves |
| `OrdersAreShort` (order creation) | 31 steps | other orders, at the caches or the mutex |
| `CallsAreShort` (on-chain) | 3 `MaxSteps` + 1 steps | other senders, the nonce counter, the chain |
| `CallsAreShort` (gasless) | `Deadline` + 7 steps | other calls, the relayer, the chain |
| `BatchIsShort` (collateral) | 14 steps for each query | failing calls |

What could hinder a call for ever is a lock or a channel: `NoDeadlock` for the builder
cache, and the second half of `BatchIsShort` for semaphore and results, say that somebody
can always go on.  `ProgramIsShort` excepts a program that lists with nil params
(`NilParamsNeverWhole`).

Every invariant and every action property of a passing run is stated by a theorem.  Only
model-checked are the liveness properties: `CallsEnd`, `RunnersReturn`, `SentIsMined`,
`OrdersEnd`, `HalfOpenEnds`, `ReadersEnd`, `BatchReturns` and `RelayReturns`. `TypeCorrect`
and `PostsBounded` (negotiation), `RelayTypeCorrect`, `ReceiptsDeep`, `NoncesMonotonic` and
`Kept` are proved and need no run.  That an operation of the negotiation ends follows from
`OperationsAreShort`, whose steps are a goroutine's own or HTTP requests with a timeout.

## 7. What is not modelled

- The pool of request bodies (`http_client.go:183`): planned.
- The Gamma, Data and Bridge APIs: one request each, without the levels, bodies and answers
  that make `Calls` worth a module.
- float64 beyond the shortfalls of `math.Floor`: sums and products are exact in
  `OrderAmounts`.
- Several tokens per market in one `order_creation` run; the proofs hold for any number.
- A change of a market's neg-risk flag, which would be another exchange contract.
- Signatures, encodings, headers, ABIs: a step that succeeds or fails.
- Unsynchronised writes by a program that reconfigures a client in use
  (`SetAPICreds`, `SetRetryConfig`).
- A revert of a transaction in `OnchainExecute`: the client prints it and goes on
  as after a success.

## 8. Observations without a run

Places where reading the code for the models showed a doubt that a run would
only restate.

- `ws_client.go:475-490`: `tryDecode` tests a closure that is never nil, so an
  event whose callback is not registered panics, against `ws_client.go:167`
  (各方法可空 —— 没注册 = 丢弃).  `WsSession` models it: with `Typed = FALSE`,
  `UnregisteredIsDropped` is violated by the first typed event.
- `web3/gasless_client.go:480-490`: `waitForReceipt` fetches the receipt once and then
  only counts blocks, so that with N confirmations a receipt of a block that was
  reorganised away meanwhile is still returned, where line 68 speaks of protection against
  reorgs (抗 reorg).  In `Relay`, `ReceiptDeep` excepts exactly the receipts orphaned
  after they were fetched.
- `web3/web3_client.go:304` and `web3/gasless_client.go:480,505`: the polls ask under
  `context.Background()` and look at their deadline only after the answer, so that an
  endpoint that hangs keeps the caller beyond it.  `base_client.go:245` guards the probes
  of a strategy against this (防止某些 RPC 端点 hang 住), but line 259, the call with the
  strategy found, has no timeout either.
- `web3/base_client.go:588`: `PendingNonceAt` is asked for with `nonceMu` held; if it
  hangs, every later `GetTransactionOpts` waits for the mutex, and so does
  `InvalidateNonce`.
- `web3/base_client.go:622-629`: an `InvalidateNonce` while another goroutine holds options
  it has not sent makes the next call fetch the nonce of these options and hand it out again.
  `UniqueNonces` excepts exactly this.
- `client_orders.go:74-82,143-151`, `client_v2.go:573-580`, `client_misc.go:259-266`: an
  answer without `data` is an empty page and one without `next_cursor` the last, so that a
  partial list is returned without an error.  `CompleteListing` says what is left.
- `client_api.go:45-54`: any object is taken for credentials; with blank ones
  `CreateOrDeriveAPIKey` reports success and derives nothing (`KeyRecovered` excepts this).
- `client_v2.go:924` and `client_api.go`: tick sizes and fee rates are cached for good,
  although `ws_client.go:113` has an event for the tick size of a live market that changes;
  a client that was warm before goes on signing at the old one.  `MarketTerms` asks for no
  more than a tick the market has had.
- `web3/gasless_client.go:711-713`: the default recipient of
  `WrapUSDCeToPUSD` is `GetBaseAddress()`, the EOA (`base_client.go:336-338`),
  where the comment promises the proxy wallet.
- `http_client.go:210`: a per-attempt timeout is not retried, against the comment of
  `SetRequestTimeout` (`client_v2.go:109`); `http_client.go:148`: the first wait is
  not capped by `MaxDelay`.
- `typed_responses.go` says that `GetOrders` uses ctx-aware HTTP; every page uses
  `context.Background()`.
- `client_v2.go:900` promises one request instead of four; a cold start makes two.
- `client_v2.go:761` and `exchange_order_builder_v2.go:433`: besides the balance
  (`market_rounding`), a fill-or-kill market buy at the book's price of 0.29, 0.57 or 0.58 is
  signed below the ask it was priced at; `BookFills` excepts it.
- `client_v2.go:737` computes the market price with `args.OrderType`, while the order is
  posted with the separate argument `orderType` (`client_ctx.go:156-164`).
- A balance next to nothing clamps a protected buy to an amount of zero, which is signed and
  posted.
- `client_v2.go:434-440`: the level check of `CreateBuilderAPIKeyCredsWithAddress` is
  commented out; without credentials the call panics (`CallCrashes`).
- `client_api.go:153-169`: `DeleteAPIKey` leaves `creds` and `mode` as they are, so the client
  goes on signing with the key it deleted.
- `client_v2.go:525-536` and `client_api.go:298-306` cache a fee rate of zero for an answer
  that states none; `GetFeeExponent` answers 0 for a missing fee info.
- `rfq/rfq_client.go:420-424`: `ApproveOrder` takes a missing size for zero, which
  `AcceptQuote` refuses; neither compares the quote's request with
  `params.RequestID`; the match types `FULL` and `PARTIAL` of `rfq/types.go` are
  refused by `AcceptQuote` and approved by `ApproveOrder`; in a mint or merge both orders
  carry the quote's price although their tokens are complementary.
- `web3/helpers.go:34`: `1 << idx` overflows an `int` for an index of 63 and more.
- `web3_client.go`: `SetAllApprovals` goes on after a reverted receipt.
