--------------------------- MODULE CollateralBatch ---------------------------
(***************************************************************************)
(* ResolveCollateralFromAssetBatchWithLimit: one goroutine per query,      *)
(* bounded by a semaphore that is taken before the goroutine is started.   *)
(* Each makes two eth_calls through callContract, whose detected strategy, *)
(* the pair ethCallMode and ethCallClient, is shared by all goroutines     *)
(* without a lock: its fields are read and written one by one.             *)
(***************************************************************************)
EXTENDS Integers, FiniteSets

CONSTANTS
    N,            \* number of queries
    Requested,    \* maxConcurrency
    DefaultLimit, \* DefaultCollateralDetectConcurrency
    Endpoints,    \* the primary RPC and the fallback RPCs
    Modes,        \* Plain, EIP-1559 and Legacy, numbered from 1
    Works,        \* Works[e]: the modes that endpoint e accepts
    Asset,        \* Asset[q]: outcome and collateral of the known asset
    NoAsset,      \* a query without an asset
    Fallback,     \* the collateral to assume otherwise
    None          \* no endpoint, no result yet

Queries == 1..N
Outcomes == 1..2
Limit == IF Requested <= 0 THEN DefaultLimit ELSE Requested

ASSUME BatchAssumption ==
    /\ N \in Nat /\ Requested \in Int /\ DefaultLimit \in Nat \ {0}
    /\ Modes \subseteq Nat \ {0}
    /\ Works \in [Endpoints -> SUBSET Modes] /\ None \notin Endpoints
    /\ \A q \in Queries : Asset[q] # NoAsset => Asset[q].outcome \in Outcomes

Collaterals == {Asset[q].collateral : q \in {r \in Queries : Asset[r] # NoAsset}}

VARIABLES
    mode,    \* c.ethCallMode, 0 before a strategy is detected
    client,  \* c.ethCallClient
    next,    \* the query the loop is at
    sem,     \* elements in the channel sem
    done,    \* elements in the channel done
    taken,   \* elements received from it
    pc,      \* where each goroutine is
    outcome, \* the outcome whose collection id it asks for
    m,       \* its mode
    e,       \* its endpoint
    ids,     \* outcomes whose collection id it has
    out,     \* the results, by index
    failed   \* history: queries one of whose calls failed

strategy == <<mode, client>>
batch == <<next, sem, done, taken>>
locals == <<outcome, m, e, ids>>
vars == <<strategy, batch, pc, locals, out, failed>>

Labels == {"none", "start", "check", "client", "mode", "call", "detect",
           "setMode", "setClient", "hung", "match", "signal", "release", "exited"}

Running == {q \in Queries : pc[q] \notin {"none", "exited"}}

TypeOK ==
    /\ mode \in Modes \cup {0} /\ client \in Endpoints \cup {None}
    /\ next \in 1..(N + 1) /\ sem \in 0..Limit /\ done \in Nat /\ taken \in 0..N
    /\ pc \in [Queries -> Labels]
    /\ outcome \in [Queries -> Outcomes]
    /\ m \in [Queries -> Modes \cup {0}]
    /\ e \in [Queries -> Endpoints \cup {None}]
    /\ ids \in [Queries -> SUBSET Outcomes]
    /\ out \in [Queries -> Collaterals \cup {Fallback, None}]
    /\ failed \subseteq Queries

Init ==
    /\ mode = 0 /\ client = None
    /\ next = 1 /\ sem = 0 /\ done = 0 /\ taken = 0
    /\ pc = [q \in Queries |-> "none"]
    /\ outcome = [q \in Queries |-> 1]
    /\ m = [q \in Queries |-> 0] /\ e = [q \in Queries |-> None]
    /\ ids = [q \in Queries |-> {}]
    /\ out = [q \in Queries |-> None]
    /\ failed = {}

Move(q, from, to) == pc[q] = from /\ pc' = [pc EXCEPT ![q] = to]

-----------------------------------------------------------------------------
(* The loop that starts the goroutines and the loop that waits for them.   *)

\* Mutant: the goroutine is started before there is room for it.
NoWait == TRUE

\* sem <- struct{}{} blocks while the channel is full.
Room == sem < Limit

Spawn ==
    /\ next <= N /\ Room
    /\ Move(next, "none", "start")
    /\ sem' = sem + 1
    /\ next' = next + 1
    /\ UNCHANGED <<strategy, done, taken, locals, out, failed>>

Await ==
    /\ next > N /\ done > 0 /\ taken < N
    /\ done' = done - 1
    /\ taken' = taken + 1
    /\ UNCHANGED <<strategy, next, sem, pc, locals, out, failed>>

Returned == next > N /\ taken = N

-----------------------------------------------------------------------------
(* callContract, as each goroutine runs it.                                *)

\* The call is over; the next outcome is asked for, whatever came of this.
NextCall(q, answered) ==
    /\ ids' = [ids EXCEPT ![q] = IF answered THEN @ \cup {outcome[q]} ELSE @]
    /\ failed' = IF answered THEN failed ELSE failed \cup {q}
    /\ m' = [m EXCEPT ![q] = 0] /\ e' = [e EXCEPT ![q] = None]
    /\ outcome' = [outcome EXCEPT ![q] = IF @ = 1 THEN 2 ELSE 1]
    /\ pc' = [pc EXCEPT ![q] = IF outcome[q] = 1 THEN "check" ELSE "match"]

Check(q) ==
    /\ Move(q, "check", IF mode > 0 /\ client # None THEN "client" ELSE "detect")
    /\ UNCHANGED <<strategy, batch, locals, out, failed>>

ReadClient(q) ==
    /\ Move(q, "client", "mode")
    /\ e' = [e EXCEPT ![q] = client]
    /\ UNCHANGED <<strategy, batch, outcome, m, ids, out, failed>>

ReadMode(q) ==
    /\ Move(q, "mode", "call")
    /\ m' = [m EXCEPT ![q] = mode]
    /\ UNCHANGED <<strategy, batch, outcome, e, ids, out, failed>>

\* An endpoint may fail at any time, and does in a mode it does not accept.
Answered(q) == pc[q] = "call" /\ m[q] \in Works[e[q]] /\ NextCall(q, TRUE)
Refused(q) == pc[q] = "call" /\ NextCall(q, FALSE)

FastCall(q) ==
    /\ Answered(q) \/ Refused(q)
    /\ UNCHANGED <<strategy, batch, out>>

\* The known strategy has no timeout, and ChainGetCollectionID's context none
\* either: an endpoint that never answers keeps the goroutine for good.
Hangs(q) ==
    /\ Move(q, "call", "hung")
    /\ UNCHANGED <<strategy, batch, locals, out, failed>>

\* The strategies are tried on the primary endpoint, then on the fallbacks,
\* each with a timeout.
Detect(q) ==
    /\ Move(q, "detect", "setMode")
    /\ \E s \in Endpoints : \E w \in Works[s] :
          /\ e' = [e EXCEPT ![q] = s]
          /\ m' = [m EXCEPT ![q] = w]
    /\ UNCHANGED <<strategy, batch, outcome, ids, out, failed>>

DetectFails(q) ==
    /\ pc[q] = "detect"
    /\ NextCall(q, FALSE)
    /\ UNCHANGED <<strategy, batch, out>>

SetMode(q) ==
    /\ Move(q, "setMode", "setClient")
    /\ mode' = m[q]
    /\ UNCHANGED <<client, batch, locals, out, failed>>

SetClient(q) ==
    /\ pc[q] = "setClient"
    /\ client' = e[q]
    /\ NextCall(q, TRUE)
    /\ UNCHANGED <<mode, batch, out>>

-----------------------------------------------------------------------------
(* The goroutine of one query.                                             *)

\* A query without an asset is answered with the fallback at once.
Start(q) ==
    /\ Move(q, "start", IF Asset[q] = NoAsset THEN "match" ELSE "check")
    /\ UNCHANGED <<strategy, batch, locals, out, failed>>

\* Mutant: the goroutine uses the loop's variable, not its own copy.
LoopIndex(q) == IF next > N THEN N ELSE next

\* out[i] = coll
Index(q) == q

\* Only the collection id of the asset's outcome tells its collateral.
Match(q) ==
    /\ Move(q, "match", "signal")
    /\ out' = [out EXCEPT ![Index(q)] =
                 IF Asset[q] # NoAsset /\ Asset[q].outcome \in ids[q]
                     THEN Asset[q].collateral ELSE Fallback]
    /\ ids' = [ids EXCEPT ![q] = {}]
    /\ UNCHANGED <<strategy, batch, outcome, m, e, failed>>

Signal(q) ==
    /\ Move(q, "signal", "release")
    /\ done' = done + 1
    /\ UNCHANGED <<strategy, next, sem, taken, locals, out, failed>>

\* Mutant: the goroutine does not give its place back.
KeepPlace == sem

\* defer <-sem
FreePlace == sem - 1

Release(q) ==
    /\ Move(q, "release", "exited")
    /\ sem' = FreePlace
    /\ UNCHANGED <<strategy, next, done, taken, locals, out, failed>>

Goroutine(q) ==
    \/ Start(q) \/ Check(q) \/ ReadClient(q) \/ ReadMode(q) \/ FastCall(q)
    \/ Detect(q) \/ DetectFails(q) \/ SetMode(q) \/ SetClient(q)
    \/ Match(q) \/ Signal(q) \/ Release(q)

Next == Spawn \/ Await \/ \E q \in Queries : Goroutine(q) \/ Hangs(q)

Spec == Init /\ [][Next]_vars

\* Goroutines run, and an eth_call that does not hang ends; a detection always
\* does, by its timeouts.
FairSpec ==
    /\ Spec /\ WF_vars(Spawn) /\ WF_vars(Await)
    /\ \A q \in Queries : WF_vars(Goroutine(q))

-----------------------------------------------------------------------------
(* Properties.                                                             *)

\* "Without it 100k queries would spawn 100k goroutines at once": the limit
\* bounds the goroutines that exist, not only those that are past a gate.
BoundedFanOut == Cardinality(Running) <= Limit

\* Results come back by index, and only a query that had a failed call gets
\* the fallback instead of its collateral.
RightResults ==
    Returned => \A q \in Queries :
        LET known == IF Asset[q] = NoAsset THEN Fallback ELSE Asset[q].collateral IN
        /\ out[q] \in {known, Fallback}
        /\ q \notin failed => out[q] = known

\* "Later calls use the verified strategy", whoever detected it.
StrategyVerified ==
    mode > 0 /\ client # None => mode \in Works[client]

\* Once begun, the batch returns, however many calls fail, unless one of them
\* hangs.
BatchReturns == next > 1 ~> Returned \/ \E q \in Queries : pc[q] = "hung"
=============================================================================
