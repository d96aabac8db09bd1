------------------------ MODULE CollateralBatchProofs ------------------------
(***************************************************************************)
(* For any number of queries, any requested limit and any interleaving of  *)
(* the goroutines: the limit is kept, the types are, and every result is   *)
(* its query's own.                                                        *)
(***************************************************************************)
EXTENDS CollateralBatch, FiniteSetTheorems, TLAPS

USE BatchAssumption DEF BatchAssumption

\* A goroutine makes a step, or its call hangs.
Runs(q) == Goroutine(q) \/ Hangs(q)

\* The semaphore holds one element per goroutine that exists, and a query the
\* loop has not reached has none.
Places ==
    /\ next \in 1..(N + 1)
    /\ sem \in Nat /\ sem <= Limit
    /\ pc \in [Queries -> Labels]
    /\ sem = Cardinality(Running)
    /\ \A q \in Queries : q >= next => pc[q] = "none"

\* The limit is a positive number, whatever was requested.
LEMMA LimitPositive == Limit \in Nat \ {0}
BY DEF Limit

LEMMA NatPlus == \A n, k \in Nat : n < k => n + 1 \in Nat /\ n + 1 <= k
OBVIOUS

LEMMA RunningFinite == IsFiniteSet(Running)
<1>1. IsFiniteSet(1..N) BY FS_Interval
<1>2. Running \subseteq 1..N BY DEF Running, Queries
<1> QED BY <1>1, <1>2, FS_Subset

LEMMA InitPlaces == Init => Places
<1> SUFFICES ASSUME Init PROVE Places
    OBVIOUS
<1>1. Running = {} BY DEF Init, Running
<1>2. sem = Cardinality(Running) BY <1>1, FS_EmptySet DEF Init
<1> QED BY <1>2, LimitPositive DEF Init, Places, Queries, Labels

\* A step of a goroutine that neither starts nor ends it keeps its place.
LEMMA Stays ==
    ASSUME Places, NEW q \in Queries, NEW l \in Labels \ {"none", "exited"},
           pc[q] \notin {"none", "exited"}, pc' = [pc EXCEPT ![q] = l],
           UNCHANGED <<next, sem>>
    PROVE  Places'
<1>1. Running' = Running BY DEF Places, Running
<1> QED BY <1>1 DEF Places, Running, Queries, Limit

\* The steps of a goroutine between its start and its end.
Inner(q) ==
    \/ Start(q) \/ Check(q) \/ ReadClient(q) \/ ReadMode(q) \/ FastCall(q)
    \/ Detect(q) \/ DetectFails(q) \/ SetMode(q) \/ SetClient(q)
    \/ Match(q) \/ Signal(q) \/ Hangs(q)

LEMMA InnerStep ==
    ASSUME Places, NEW q \in Queries, Inner(q)
    PROVE  Places'
<1>1. PICK l \in Labels \ {"none", "exited"} :
          pc' = [pc EXCEPT ![q] = l] /\ pc[q] \notin {"none", "exited"}
  <2>1. CASE Start(q) BY <2>1 DEF Start, Move, Labels
  <2>2. CASE Check(q) BY <2>2 DEF Check, Move, Labels
  <2>3. CASE ReadClient(q) BY <2>3 DEF ReadClient, Move, Labels
  <2>4. CASE ReadMode(q) BY <2>4 DEF ReadMode, Move, Labels
  <2>5. CASE FastCall(q) BY <2>5 DEF FastCall, Answered, Refused, NextCall, Labels
  <2>6. CASE Detect(q) BY <2>6 DEF Detect, Move, Labels
  <2>7. CASE DetectFails(q) BY <2>7 DEF DetectFails, NextCall, Labels
  <2>8. CASE SetMode(q) BY <2>8 DEF SetMode, Move, Labels
  <2>9. CASE SetClient(q) BY <2>9 DEF SetClient, NextCall, Labels
  <2>10. CASE Match(q) BY <2>10 DEF Match, Move, Labels
  <2>11. CASE Signal(q) BY <2>11 DEF Signal, Move, Labels
  <2>12. CASE Hangs(q) BY <2>12 DEF Hangs, Move, Labels
  <2> QED BY <2>1, <2>2, <2>3, <2>4, <2>5, <2>6, <2>7, <2>8, <2>9, <2>10, <2>11, <2>12
          DEF Inner
<1>2. UNCHANGED <<next, sem>>
  BY DEF Inner, Hangs, Start, Check, ReadClient, ReadMode, FastCall, Detect,
         DetectFails, SetMode, SetClient, Match, Signal, batch
<1> QED BY <1>1, <1>2, Stays

\* Taking an element of the semaphore makes room for exactly one goroutine.
LEMMA SpawnStep == ASSUME Places, Spawn PROVE Places'
<1>1. next \in Queries BY DEF Places, Spawn, Queries
<1>2. Running' = Running \cup {next}
  BY <1>1 DEF Places, Spawn, Move, Running
<1>3. next \notin Running BY DEF Spawn, Move, Running
<1>4. Cardinality(Running') = Cardinality(Running) + 1
  BY <1>2, <1>3, RunningFinite, FS_AddElement
<1>5. sem' \in Nat /\ sem' <= Limit
  BY LimitPositive, NatPlus DEF Places, Spawn, Room
<1>6. \A q \in Queries : q >= next' => pc'[q] = "none"
  BY <1>1 DEF Places, Spawn, Move, Queries
<1>7. next' \in 1..(N + 1) BY DEF Places, Spawn
<1>8. pc' \in [Queries -> Labels] BY <1>1 DEF Places, Spawn, Move, Labels
<1>9. sem' = Cardinality(Running') BY <1>4 DEF Places, Spawn
<1>10. Limit' = Limit BY DEF Limit
<1> QED BY <1>5, <1>6, <1>7, <1>8, <1>9, <1>10 DEF Places

\* The element is given back by the goroutine's last step.
LEMMA ReleaseStep == ASSUME Places, NEW q \in Queries, Release(q) PROVE Places'
<1>1. Running' = Running \ {q} BY DEF Places, Release, Move, Running
<1>2. q \in Running BY DEF Release, Move, Running
<1>3. Cardinality(Running') = Cardinality(Running) - 1
  BY <1>1, <1>2, RunningFinite, FS_RemoveElement
<1>4. Cardinality(Running') \in Nat
  BY <1>1, RunningFinite, FS_CardinalityType, FS_RemoveElement
<1>5. sem' = Cardinality(Running') BY <1>3 DEF Places, Release, FreePlace
<1>6. sem' \in Nat /\ sem' <= Limit
  BY <1>4, <1>5, LimitPositive DEF Places, Release, FreePlace
<1>7. pc' \in [Queries -> Labels] BY DEF Places, Release, Move, Labels
<1>8. \A p \in Queries : p >= next' => pc'[p] = "none"
  BY DEF Places, Release, Move, Queries
<1>9. Limit' = Limit BY DEF Limit
<1>10. next' \in 1..(N + 1) BY DEF Places, Release
<1> QED BY <1>5, <1>6, <1>7, <1>8, <1>9, <1>10 DEF Places

LEMMA PlacesStep == Places /\ [Next]_vars => Places'
<1> SUFFICES ASSUME Places, [Next]_vars PROVE Places'
    OBVIOUS
<1>1. CASE Spawn BY <1>1, SpawnStep
<1>2. CASE Await
  BY <1>2 DEF Await, Places, Running, Limit
<1>3. ASSUME NEW q \in Queries, Runs(q) PROVE Places'
  <2>1. CASE Inner(q) BY <2>1, InnerStep
  <2>2. CASE Release(q) BY <2>2, ReleaseStep
  <2> QED BY <1>3, <2>1, <2>2 DEF Runs, Goroutine, Hangs, Inner
<1>4. CASE UNCHANGED vars
  BY <1>4 DEF vars, batch, Places, Running, Limit
<1> QED BY <1>1, <1>2, <1>3, <1>4 DEF Next, Runs

\* At most Limit goroutines exist at any time, for every number of queries and
\* every requested limit: the semaphore is taken before the go statement.
THEOREM FanOutBounded == Spec => []BoundedFanOut
<1>1. Places => BoundedFanOut BY DEF Places, BoundedFanOut
<1> QED BY <1>1, InitPlaces, PlacesStep, PTL DEF Spec

-----------------------------------------------------------------------------
(* Types.                                                                  *)

StrategyTyped ==
    /\ mode \in Modes \cup {0} /\ client \in Endpoints \cup {None}
    /\ m \in [Queries -> Modes \cup {0}]
    /\ e \in [Queries -> Endpoints \cup {None}]
CountersTyped == done \in Nat /\ taken \in 0..N
ResultsTyped ==
    /\ outcome \in [Queries -> Outcomes]
    /\ ids \in [Queries -> SUBSET Outcomes]
    /\ out \in [Queries -> Collaterals \cup {Fallback, None}]
    /\ failed \subseteq Queries

TInv == Places /\ StrategyTyped /\ CountersTyped /\ ResultsTyped

LEMMA StrategyStep == StrategyTyped /\ [Next]_vars => StrategyTyped'
<1> SUFFICES ASSUME StrategyTyped, [Next]_vars PROVE StrategyTyped'
    OBVIOUS
<1> USE DEF StrategyTyped, strategy, locals
<1>1. CASE Spawn \/ Await \/ UNCHANGED vars
    BY <1>1 DEF Spawn, Await, vars
<1>2. ASSUME NEW q \in Queries, Runs(q) PROVE StrategyTyped'
  <2>1. CASE Start(q) \/ Check(q) \/ Match(q) \/ Signal(q) \/ Release(q) \/ Hangs(q)
    BY <2>1 DEF Start, Check, Match, Signal, Release, Hangs
  <2>2. CASE ReadClient(q) BY <2>2 DEF ReadClient
  <2>3. CASE ReadMode(q) BY <2>3 DEF ReadMode
  <2>4. CASE FastCall(q) BY <2>4 DEF FastCall, Answered, Refused, NextCall
  <2>5. CASE Detect(q) BY <2>5 DEF Detect
  <2>6. CASE DetectFails(q) BY <2>6 DEF DetectFails, NextCall
  <2>7. CASE SetMode(q) BY <2>7 DEF SetMode
  <2>8. CASE SetClient(q) BY <2>8 DEF SetClient, NextCall
  <2> QED BY <1>2, <2>1, <2>2, <2>3, <2>4, <2>5, <2>6, <2>7, <2>8 DEF Runs, Goroutine
<1> QED BY <1>1, <1>2 DEF Next, Runs

LEMMA CountersStep == CountersTyped /\ [Next]_vars => CountersTyped'
<1> SUFFICES ASSUME CountersTyped, [Next]_vars PROVE CountersTyped'
    OBVIOUS
<1> USE DEF CountersTyped, batch
<1>1. CASE Await BY <1>1 DEF Await
<1>2. ASSUME NEW q \in Queries, Signal(q) PROVE CountersTyped'
    BY <1>2 DEF Signal
<1>3. CASE UNCHANGED <<done, taken>> BY <1>3
<1>4. Await \/ (\E q \in Queries : Signal(q)) \/ UNCHANGED <<done, taken>>
    BY DEF Next, Spawn, Goroutine, Hangs, Start, Check, ReadClient, ReadMode, FastCall,
       Detect, DetectFails, SetMode, SetClient, Match, Release, vars
<1> QED BY <1>1, <1>2, <1>3, <1>4

LEMMA ResultsStep == ResultsTyped /\ [Next]_vars => ResultsTyped'
<1> SUFFICES ASSUME ResultsTyped, [Next]_vars PROVE ResultsTyped'
    OBVIOUS
<1> USE DEF ResultsTyped, locals, Outcomes
<1>1. CASE Spawn \/ Await \/ UNCHANGED vars
    BY <1>1 DEF Spawn, Await, vars
<1>2. ASSUME NEW q \in Queries, Runs(q) PROVE ResultsTyped'
  <2>1. CASE Start(q) \/ Check(q) \/ ReadClient(q) \/ ReadMode(q) \/ Detect(q)
             \/ SetMode(q) \/ Signal(q) \/ Release(q) \/ Hangs(q)
    BY <2>1 DEF Start, Check, ReadClient, ReadMode, Detect, SetMode, Signal, Release,
       Hangs
  <2>2. CASE FastCall(q) BY <2>2 DEF FastCall, Answered, Refused, NextCall
  <2>3. CASE DetectFails(q) BY <2>3 DEF DetectFails, NextCall
  <2>4. CASE SetClient(q) BY <2>4 DEF SetClient, NextCall
  <2>5. CASE Match(q)
    <3>1. Asset[q] # NoAsset => Asset[q].collateral \in Collaterals
      BY DEF Collaterals
    <3> QED BY <2>5, <3>1 DEF Match, Index
  <2> QED BY <1>2, <2>1, <2>2, <2>3, <2>4, <2>5 DEF Runs, Goroutine
<1> QED BY <1>1, <1>2 DEF Next, Runs

LEMMA TypeInit == Init => TInv
<1> SUFFICES ASSUME Init PROVE TInv
    OBVIOUS
<1>1. StrategyTyped BY DEF Init, StrategyTyped
<1>2. CountersTyped BY DEF Init, CountersTyped
<1>3. ResultsTyped BY DEF Init, ResultsTyped, Outcomes
<1> QED BY <1>1, <1>2, <1>3, InitPlaces DEF TInv

LEMMA TypeStep == TInv /\ [Next]_vars => TInv'
BY PlacesStep, StrategyStep, CountersStep, ResultsStep DEF TInv

\* Type correctness for any number of queries and any limit.
THEOREM TypeCorrect == Spec => []TypeOK
<1>1. TInv => TypeOK
  <2> SUFFICES ASSUME TInv PROVE TypeOK
      OBVIOUS
  <2>1. sem \in 0..Limit BY LimitPositive DEF TInv, Places
  <2> QED BY <2>1 DEF TInv, Places, StrategyTyped, CountersTyped, ResultsTyped, TypeOK
<1> QED BY <1>1, TypeInit, TypeStep, PTL DEF Spec

-----------------------------------------------------------------------------
(* Results.                                                                *)

\* A goroutine signals once, and every signal is in the channel or received.
Signalled == {q \in Queries : pc[q] \in {"release", "exited"}}
SignalsInv == done + taken = Cardinality(Signalled)

LEMMA QueriesFinite == IsFiniteSet(Queries) /\ Cardinality(Queries) = N
BY FS_Interval DEF Queries

LEMMA SignalledFinite ==
    IsFiniteSet(Signalled) /\ Cardinality(Signalled) <= N
        /\ (Cardinality(Signalled) = N => Signalled = Queries)
        /\ Cardinality(Signalled) \in Nat
<1>1. Signalled \in SUBSET Queries BY DEF Signalled
<1> QED BY <1>1, QueriesFinite, FS_Subset, FS_CardinalityType

LEMMA SignalsStep == TInv /\ SignalsInv /\ [Next]_vars => SignalsInv'
<1> SUFFICES ASSUME TInv, SignalsInv, [Next]_vars PROVE SignalsInv'
    OBVIOUS
<1> USE DEF TInv, Places, CountersTyped
<1>1. CASE Await
  <2>1. Signalled' = Signalled BY <1>1 DEF Await, Signalled
  <2>2. done' = done - 1 /\ taken' = taken + 1 BY <1>1 DEF Await
  <2> QED BY <2>1, <2>2 DEF SignalsInv
<1>2. ASSUME NEW q \in Queries, Signal(q) PROVE SignalsInv'
  <2>1. Signalled' = Signalled \cup {q} /\ q \notin Signalled
    BY <1>2 DEF Signal, Move, Signalled
  <2>2. Cardinality(Signalled') = Cardinality(Signalled) + 1
    BY <2>1, SignalledFinite, FS_AddElement
  <2>3. done' = done + 1 /\ taken' = taken BY <1>2 DEF Signal
  <2> QED BY <2>2, <2>3 DEF SignalsInv
<1>3. ASSUME ~Await, \A q \in Queries : ~Signal(q)
      PROVE  Signalled' = Signalled /\ UNCHANGED <<done, taken>>
  <2>1. CASE Spawn
    BY <2>1 DEF Spawn, Move, Signalled, Queries
  <2>2. ASSUME NEW q \in Queries, Runs(q), ~Signal(q)
        PROVE  Signalled' = Signalled /\ UNCHANGED <<done, taken>>
    BY <2>2 DEF Runs, Goroutine, Hangs, Start, Check, ReadClient, ReadMode, FastCall, Answered,
       Refused, NextCall, Detect, DetectFails, SetMode, SetClient, Match, Release,
       Move, Signalled, batch
  <2>3. CASE UNCHANGED vars BY <2>3 DEF vars, batch, Signalled
  <2> QED BY <1>3, <2>1, <2>2, <2>3 DEF Next, Runs
<1> QED BY <1>1, <1>2, <1>3 DEF SignalsInv

Calling == {"check", "client", "mode", "call", "detect", "setMode", "setClient"}

Known(q) == IF Asset[q] = NoAsset THEN Fallback ELSE Asset[q].collateral
Right(q) == out[q] \in {Known(q), Fallback} /\ (q \notin failed => out[q] = Known(q))

\* A call that is over has given its collection id or has failed.
Tried(q, o) == o \in ids[q] \/ q \in failed

\* How far each query is.
Progress(q) ==
    /\ Asset[q] = NoAsset => pc[q] \notin Calling
    /\ pc[q] \in {"none", "start"} => outcome[q] = 1
    /\ pc[q] \in Calling /\ outcome[q] = 2 => Tried(q, 1)
    /\ pc[q] = "match" /\ Asset[q] # NoAsset => Tried(q, 1) /\ Tried(q, 2)
    /\ pc[q] \in {"signal", "release", "exited"} => Right(q)

ProgressInv == \A q \in Queries : Progress(q)

\* A step of one goroutine leaves the others' progress alone.
LEMMA OthersProgress ==
    ASSUME TInv, ProgressInv, NEW q \in Queries, Runs(q),
           NEW p \in Queries, p # q
    PROVE  Progress(p)'
<1> USE DEF TInv, Places, ResultsTyped
<1>1. /\ pc'[p] = pc[p] /\ outcome'[p] = outcome[p] /\ ids'[p] = ids[p]
      /\ out'[p] = out[p] /\ (p \in failed' <=> p \in failed)
    BY DEF Runs, Goroutine, Hangs, Start, Check, ReadClient, ReadMode, FastCall, Answered, Refused,
       NextCall, Detect, DetectFails, SetMode, SetClient, Match, Signal, Release,
       Move, Index, locals
<1>2. Progress(p) BY DEF ProgressInv
<1> QED BY <1>1, <1>2 DEF Progress, Right, Tried, Known

LEMMA CallProgress ==
    ASSUME TInv, ProgressInv, NEW q \in Queries, pc[q] \in Calling,
           NEW answered \in BOOLEAN, NextCall(q, answered)
    PROVE  Progress(q)'
<1> USE DEF TInv, Places, ResultsTyped, Outcomes
<1>1. /\ outcome[q] \in {1, 2} /\ outcome'[q] = IF outcome[q] = 1 THEN 2 ELSE 1
      /\ pc'[q] = IF outcome[q] = 1 THEN "check" ELSE "match"
      /\ outcome[q] \in ids'[q] \/ q \in failed'
      /\ ids[q] \subseteq ids'[q] /\ failed \subseteq failed'
    BY DEF NextCall
<1>2. Asset[q] # NoAsset /\ (outcome[q] = 2 => Tried(q, 1))
    BY DEF ProgressInv, Progress
<1>3. CASE outcome[q] = 1
    BY <1>1, <1>2, <1>3 DEF Progress, Tried, Calling
<1>4. CASE outcome[q] = 2
    BY <1>1, <1>2, <1>4 DEF Progress, Tried, Calling
<1> QED BY <1>1, <1>3, <1>4

LEMMA OwnProgress ==
    ASSUME TInv, ProgressInv, NEW q \in Queries, Runs(q)
    PROVE  Progress(q)'
<1> USE DEF TInv, Places, ResultsTyped
<1>p. Progress(q) BY DEF ProgressInv
<1>1. CASE Start(q)
    BY <1>1, <1>p DEF Start, Move, Progress, Calling, locals
<1>2. CASE Check(q) \/ ReadClient(q) \/ ReadMode(q) \/ Detect(q) \/ SetMode(q)
    BY <1>2, <1>p DEF Check, ReadClient, ReadMode, Detect, SetMode, Move, Progress,
       Tried, Calling, locals
<1>3. CASE FastCall(q)
    BY <1>3, CallProgress DEF FastCall, Answered, Refused, Calling
<1>4. CASE DetectFails(q)
    BY <1>4, CallProgress DEF DetectFails, Calling
<1>5. CASE SetClient(q)
    BY <1>5, CallProgress DEF SetClient, Calling
<1>6. CASE Match(q)
  <2>1. /\ pc[q] = "match" /\ pc'[q] = "signal" /\ UNCHANGED failed
        /\ out'[q] = IF Asset[q] # NoAsset /\ Asset[q].outcome \in ids[q]
                        THEN Asset[q].collateral ELSE Fallback
    BY <1>6 DEF Match, Move, Index
  <2>2. Asset[q] # NoAsset /\ q \notin failed => Asset[q].outcome \in ids[q]
    BY <1>p, <2>1 DEF Progress, Tried, Outcomes
  <2>3. Right(q)'
    BY <2>1, <2>2 DEF Right, Known
  <2> QED BY <2>1, <2>3 DEF Progress, Calling
<1>7. CASE Signal(q) \/ Release(q) \/ Hangs(q)
    BY <1>7, <1>p DEF Signal, Release, Hangs, Move, Progress, Right, Known, Calling
<1> QED BY <1>1, <1>2, <1>3, <1>4, <1>5, <1>6, <1>7 DEF Runs, Goroutine

LEMMA ProgressStep == TInv /\ ProgressInv /\ [Next]_vars => ProgressInv'
<1> SUFFICES ASSUME TInv, ProgressInv, [Next]_vars, NEW p \in Queries
             PROVE  Progress(p)'
    BY DEF ProgressInv
<1>p. Progress(p) BY DEF ProgressInv
<1>1. CASE Spawn
  <2>1. /\ pc[next] = "none" /\ pc' = [pc EXCEPT ![next] = "start"]
        /\ UNCHANGED <<outcome, ids, out, failed>>
    BY <1>1 DEF Spawn, Move, locals
  <2> QED BY <1>p, <2>1 DEF TInv, Places, Progress, Right, Tried, Known, Calling
<1>2. CASE Await \/ UNCHANGED vars
    BY <1>p, <1>2 DEF Await, vars, locals, Progress, Right, Tried, Known
<1>3. ASSUME NEW q \in Queries, Runs(q) PROVE Progress(p)'
    BY <1>3, OwnProgress, OthersProgress
<1> QED BY <1>1, <1>2, <1>3 DEF Next, Runs

\* When the batch returns, every result is at its query's index, and only a query
\* with a failed call has the fallback instead of its collateral, however the
\* goroutines interleave and whatever strategy they find cached.
THEOREM ResultsRight == Spec => []RightResults
<1>1. Init => SignalsInv /\ ProgressInv
  <2> SUFFICES ASSUME Init PROVE SignalsInv /\ ProgressInv
      OBVIOUS
  <2>1. Signalled = {} BY DEF Init, Signalled
  <2>2. SignalsInv BY <2>1, FS_EmptySet DEF Init, SignalsInv
  <2>3. ProgressInv BY DEF Init, ProgressInv, Progress, Calling
  <2> QED BY <2>2, <2>3
<1>2. TInv /\ SignalsInv /\ ProgressInv => RightResults
  <2> SUFFICES ASSUME TInv, SignalsInv, ProgressInv, Returned, NEW q \in Queries
               PROVE  Right(q)
      BY DEF RightResults, Right, Known
  <2>1. done + N = Cardinality(Signalled) /\ done \in Nat
    BY DEF Returned, SignalsInv, TInv, CountersTyped
  <2>2. Cardinality(Signalled) = N
    BY <2>1, SignalledFinite
  <2>3. q \in Signalled
    BY <2>2, SignalledFinite
  <2> QED BY <2>3 DEF Signalled, ProgressInv, Progress
<1> QED BY <1>1, <1>2, TypeInit, TypeStep, SignalsStep, ProgressStep, PTL DEF Spec

-----------------------------------------------------------------------------
(* The strategy.                                                           *)

\* What a detection has found is accepted by the endpoint it was found with.
Found(q) == pc[q] \in {"setMode", "setClient"} => e[q] \in Endpoints /\ m[q] \in Works[e[q]]

LEMMA FoundStep ==
    TInv /\ (\A q \in Queries : Found(q)) /\ [Next]_vars => \A q \in Queries : Found(q)'
<1> SUFFICES ASSUME TInv, \A q \in Queries : Found(q), [Next]_vars, NEW p \in Queries
             PROVE  Found(p)'
    OBVIOUS
<1> USE DEF TInv, Places, StrategyTyped, Found
<1>1. CASE Spawn \/ Await \/ UNCHANGED vars
    BY <1>1 DEF Spawn, Await, vars, Move, locals
<1>2. ASSUME NEW q \in Queries, Runs(q) PROVE Found(p)'
  <2>1. CASE p # q
    BY <1>2, <2>1
       DEF Runs, Goroutine, Hangs, Start, Check, ReadClient, ReadMode, FastCall, Answered,
           Refused, NextCall, Detect, DetectFails, SetMode, SetClient, Match,
           Signal, Release, Move, locals
  <2>2. CASE p = q
    <3>1. CASE Detect(q) BY <2>2, <3>1 DEF Detect, Move
    <3>2. CASE SetMode(q) BY <2>2, <3>2 DEF SetMode, Move, locals
    <3>3. CASE pc'[q] \notin {"setMode", "setClient"} BY <2>2, <3>3
    <3>4. Detect(q) \/ SetMode(q) \/ pc'[q] \notin {"setMode", "setClient"}
      BY <1>2 DEF Runs, Goroutine, Hangs, Start, Check, ReadClient, ReadMode, FastCall, Answered,
         Refused, NextCall, DetectFails, SetClient, Match, Signal, Release, Move
    <3> QED BY <3>1, <3>2, <3>3, <3>4
  <2> QED BY <2>1, <2>2
<1> QED BY <1>1, <1>2 DEF Next, Runs

\* Where all endpoints accept the same modes - a client without fallback RPCs,
\* say - the two unsynchronised writes of the strategy do no harm: whatever pair
\* the detections leave is accepted.
THEOREM AlikeEndpointsVerified ==
    ASSUME \A s, t \in Endpoints : Works[s] = Works[t]
    PROVE  Spec => []StrategyVerified
<1> DEFINE Everywhere == mode > 0 => \A s \in Endpoints : mode \in Works[s]
           Inv == TInv /\ Everywhere /\ \A q \in Queries : Found(q)
<1>1. Init => Inv
    BY TypeInit DEF Init, Found
<1>2. Inv /\ [Next]_vars => Inv'
  <2> SUFFICES ASSUME Inv, [Next]_vars PROVE Inv'
      OBVIOUS
  <2>1. Everywhere'
    <3>1. CASE UNCHANGED mode BY <3>1
    <3>2. ASSUME NEW q \in Queries, SetMode(q) PROVE Everywhere'
      <4>1. mode' = m[q] /\ pc[q] = "setMode" BY <3>2 DEF SetMode, Move
      <4>2. e[q] \in Endpoints /\ m[q] \in Works[e[q]] BY <4>1 DEF Found
      <4> QED BY <4>1, <4>2
    <3>3. UNCHANGED mode \/ \E q \in Queries : SetMode(q)
      BY DEF Next, Spawn, Await, Goroutine, Hangs, Start, Check, ReadClient, ReadMode,
         FastCall, Detect, DetectFails, SetClient, Match, Signal, Release, strategy,
         vars
    <3> QED BY <3>1, <3>2, <3>3
  <2> QED BY <2>1, TypeStep, FoundStep
<1>3. Inv => StrategyVerified
    BY DEF StrategyVerified, TInv, StrategyTyped
<1> QED BY <1>1, <1>2, <1>3, PTL DEF Spec

\* Before both writes of a detection are made there is no strategy to use.
AloneInv ==
    /\ client # None => mode \in Works[client]
    /\ \A q \in Queries : pc[q] \in {"detect", "setMode", "setClient"} => client = None
    /\ \A q \in Queries : pc[q] = "setClient" => mode = m[q]

LEMMA OneRunning ==
    ASSUME Limit = 1, Places, NEW p \in Running, NEW q \in Running
    PROVE  p = q
<1>1. IsFiniteSet(Running) /\ Cardinality(Running) <= 1
    BY RunningFinite DEF Places
<1>2. {p, q} \subseteq Running OBVIOUS
<1>3. Cardinality({p, q}) <= 1
  <2>1. Cardinality({p, q}) <= Cardinality(Running) BY <1>1, <1>2, FS_Subset
  <2>2. IsFiniteSet({p, q}) BY <1>1, <1>2, FS_Subset
  <2>3. Cardinality({p, q}) \in Nat /\ Cardinality(Running) \in Nat
    BY <1>1, <2>2, FS_CardinalityType
  <2> QED BY <1>1, <2>1, <2>3
<1>4. ASSUME p # q PROVE FALSE
  <2>1. {p, q} = {p} \cup {q} /\ q \notin {p} BY <1>4
  <2>2. Cardinality({p, q}) = Cardinality({p}) + 1
    BY <2>1, FS_Singleton, FS_AddElement
  <2> QED BY <1>3, <2>2, FS_Singleton
<1> QED BY <1>4

LEMMA AloneStep ==
    ASSUME Limit = 1, TInv, AloneInv, \A q \in Queries : Found(q), [Next]_vars
    PROVE  AloneInv'
<1> USE DEF TInv, Places, StrategyTyped
<1>1. CASE Spawn \/ Await \/ UNCHANGED vars
    BY <1>1 DEF Spawn, Await, vars, strategy, locals, Move, AloneInv
<1>2. ASSUME NEW q \in Queries, Runs(q) PROVE AloneInv'
  <2>1. \A p \in Queries : p # q => pc[p] \in {"none", "exited"} /\ pc'[p] = pc[p]
    <3>1. q \in Running
      BY <1>2 DEF Runs, Goroutine, Hangs, Start, Check, ReadClient, ReadMode, FastCall, Answered,
         Refused, Detect, DetectFails, SetMode, SetClient, Match, Signal, Release,
         Move, Running
    <3>2. \A p \in Queries : p # q => p \notin Running
      BY <3>1, OneRunning
    <3>3. \A p \in Queries : p # q => pc'[p] = pc[p]
      BY <1>2 DEF Runs, Goroutine, Hangs, Start, Check, ReadClient, ReadMode, FastCall, Answered,
         Refused, NextCall, Detect, DetectFails, SetMode, SetClient, Match, Signal,
         Release, Move
    <3> QED BY <3>2, <3>3 DEF Running
  <2>2. CASE Start(q) \/ ReadClient(q) \/ ReadMode(q) \/ FastCall(q) \/ DetectFails(q)
             \/ Match(q) \/ Signal(q) \/ Release(q) \/ Hangs(q)
    <3>1. UNCHANGED strategy /\ pc'[q] \notin {"detect", "setMode", "setClient"}
      BY <2>2 DEF Start, ReadClient, ReadMode, FastCall, Answered, Refused, NextCall,
         DetectFails, Match, Signal, Release, Hangs, Move
    <3> QED BY <2>1, <3>1 DEF AloneInv, strategy
  <2>3. CASE Check(q)
    <3>1. /\ UNCHANGED strategy
          /\ pc'[q] = IF mode > 0 /\ client # None THEN "client" ELSE "detect"
      BY <2>3 DEF Check, Move
    <3>2. client # None => mode > 0
      BY DEF AloneInv
    <3> QED BY <2>1, <3>1, <3>2 DEF AloneInv, strategy
  <2>4. CASE Detect(q)
    BY <2>1, <2>4 DEF Detect, Move, AloneInv, strategy
  <2>5. CASE SetMode(q)
    BY <2>1, <2>5 DEF SetMode, Move, AloneInv, locals
  <2>6. CASE SetClient(q)
    <3>1. /\ pc[q] = "setClient" /\ client' = e[q] /\ mode' = mode
          /\ pc'[q] \in {"check", "match"}
      BY <2>6 DEF SetClient, NextCall
    <3>2. mode' \in Works[client']
      BY <3>1 DEF AloneInv, Found
    <3> QED BY <2>1, <3>1, <3>2 DEF AloneInv
  <2> QED BY <1>2, <2>2, <2>3, <2>4, <2>5, <2>6 DEF Runs, Goroutine
<1> QED BY <1>1, <1>2 DEF Next, Runs

\* With one query at a time the strategy is a verified one, whatever the
\* endpoints accept.
THEOREM OneByOneVerified ==
    ASSUME Limit = 1
    PROVE  Spec => []StrategyVerified
<1> DEFINE Inv == TInv /\ AloneInv /\ \A q \in Queries : Found(q)
<1>1. Init => Inv
    BY TypeInit DEF Init, Found, AloneInv
<1>2. Inv /\ [Next]_vars => Inv'
    BY TypeStep, FoundStep, AloneStep
<1>3. Inv => StrategyVerified
    BY DEF StrategyVerified, AloneInv
<1> QED BY <1>1, <1>2, <1>3, PTL DEF Spec

-----------------------------------------------------------------------------
(* How long a batch takes, and that nothing stops it.                      *)

\* The steps of a query's goroutine that are still to come, at most: four for
\* each eth_call, which tries a known strategy or detects one.
StepsLeft(q) ==
    LET other == IF outcome[q] = 1 THEN 4 ELSE 0 IN
    CASE pc[q] \in {"exited", "hung"} -> 0
      [] pc[q] = "release" -> 1
      [] pc[q] = "signal" -> 2
      [] pc[q] = "match" -> 3
      [] pc[q] \in {"call", "setClient"} -> other + 4
      [] pc[q] \in {"mode", "setMode"} -> other + 5
      [] pc[q] \in {"client", "detect"} -> other + 6
      [] pc[q] = "check" -> other + 7
      [] pc[q] = "start" -> 12
      [] pc[q] = "none" -> 13

\* All the steps to come: those of the goroutines, and the signals not received
\* yet.  There are at most 14 for a query.
Ahead ==
    {s \in Queries \X (0..13) :
        (s[2] = 0 /\ s[1] > taken) \/ s[2] \in 1..StepsLeft(s[1])}

AheadShrinks == Ahead' \subseteq Ahead /\ Ahead' # Ahead

\* The loop can start a goroutine, a goroutine runs whose call does not hang (it
\* waits for nobody), or a signal is there to be received.
CanGoOn ==
    \/ \E q \in Running : pc[q] # "hung"
    \/ next <= N /\ Room
    \/ next > N /\ done > 0 /\ taken < N

NeverStuck == Returned \/ CanGoOn \/ \E q \in Queries : pc[q] = "hung"

Started == \A q \in Queries : q < next => pc[q] # "none"

LEMMA StepsTyped ==
    ASSUME TInv, NEW q \in Queries
    PROVE  StepsLeft(q) \in 0..13
<1>1. pc[q] \in Labels /\ outcome[q] \in {1, 2}
    BY DEF TInv, Places, ResultsTyped, Outcomes
<1>2. CASE pc[q] \in {"exited", "hung", "release", "signal", "match", "start", "none"}
    BY <1>2 DEF StepsLeft
<1>3. CASE pc[q] \in {"call", "setClient", "mode", "setMode"}
    BY <1>1, <1>3 DEF StepsLeft
<1>4. CASE pc[q] \in {"client", "detect", "check"}
    BY <1>1, <1>4 DEF StepsLeft
<1> QED BY <1>1, <1>2, <1>3, <1>4 DEF Labels

\* Each step of a goroutine is one less for its query.
LEMMA GoroutineCounts ==
    ASSUME TInv, NEW q \in Queries, Runs(q)
    PROVE  StepsLeft(q)' < StepsLeft(q) /\ StepsLeft(q)' \in Nat
<1>t. pc \in [Queries -> Labels] /\ outcome \in [Queries -> {1, 2}]
    BY DEF TInv, Places, ResultsTyped, Outcomes
<1>1. CASE Start(q) \/ Match(q) \/ Signal(q) \/ Release(q)
  <2>1. \/ pc[q] = "start" /\ pc'[q] \in {"match", "check"}
        \/ pc[q] = "match" /\ pc'[q] = "signal"
        \/ pc[q] = "signal" /\ pc'[q] = "release"
        \/ pc[q] = "release" /\ pc'[q] = "exited"
    BY <1>t, <1>1 DEF Start, Match, Signal, Release, Move
  <2>2. outcome'[q] = outcome[q]
    BY <1>t, <1>1 DEF Start, Match, Signal, Release, locals
  <2> QED BY <1>t, <2>1, <2>2 DEF StepsLeft
<1>2. CASE Check(q) \/ ReadClient(q) \/ ReadMode(q) \/ Detect(q) \/ SetMode(q)
  <2>1. \/ pc[q] = "check" /\ pc'[q] \in {"client", "detect"}
        \/ pc[q] = "client" /\ pc'[q] = "mode"
        \/ pc[q] = "mode" /\ pc'[q] = "call"
        \/ pc[q] = "detect" /\ pc'[q] = "setMode"
        \/ pc[q] = "setMode" /\ pc'[q] = "setClient"
    BY <1>t, <1>2 DEF Check, ReadClient, ReadMode, Detect, SetMode, Move
  <2>2. outcome'[q] = outcome[q]
    BY <1>t, <1>2 DEF Check, ReadClient, ReadMode, Detect, SetMode, locals
  <2> QED BY <1>t, <2>1, <2>2 DEF StepsLeft
<1>3. CASE FastCall(q) \/ DetectFails(q) \/ SetClient(q)
  <2>1. /\ pc[q] \in {"call", "detect", "setClient"}
        /\ \/ outcome[q] = 1 /\ outcome'[q] = 2 /\ pc'[q] = "check"
           \/ outcome[q] = 2 /\ pc'[q] = "match"
    BY <1>t, <1>3
       DEF FastCall, Answered, Refused, DetectFails, SetClient, NextCall
  <2> QED BY <2>1 DEF StepsLeft
<1>4. CASE Hangs(q)
  <2>1. pc[q] = "call" /\ pc'[q] = "hung"
    BY <1>t, <1>4 DEF Hangs, Move
  <2> QED BY <1>t, <2>1 DEF StepsLeft
<1> QED BY <1>1, <1>2, <1>3, <1>4 DEF Runs, Goroutine

\* A step that takes from one query's steps shrinks the whole.
LEMMA OneLess ==
    ASSUME NEW q \in Queries, StepsLeft(q)' < StepsLeft(q),
           \A p \in Queries : p # q => StepsLeft(p)' = StepsLeft(p), taken' = taken,
           StepsLeft(q) \in 0..13, StepsLeft(q)' \in Nat
    PROVE  AheadShrinks
<1>1. ASSUME NEW s \in Ahead' PROVE s \in Ahead
  <2>1. /\ s \in Queries \X (0..13)
        /\ (s[2] = 0 /\ s[1] > taken) \/ s[2] \in 1..(StepsLeft(s[1])')
    BY <1>1 DEF Ahead
  <2>2. CASE s[1] = q
    BY <2>1, <2>2 DEF Ahead
  <2>3. CASE s[1] # q
    BY <2>1, <2>3 DEF Ahead
  <2> QED BY <2>2, <2>3
<1>2. <<q, StepsLeft(q)>> \in Ahead
  <2> DEFINE k == StepsLeft(q)
  <2>1. \A n \in Nat, i \in 0..13 : n < i => i \in 1..i
    OBVIOUS
  <2>2. k \in 0..13 /\ k \in 1..StepsLeft(q)
    BY <2>1
  <2> HIDE DEF k
  <2>3. <<q, k>> \in Ahead
    BY <2>2 DEF Ahead
  <2> QED BY <2>3 DEF k
<1>3. <<q, StepsLeft(q)>> \notin Ahead'
  <2> DEFINE k == StepsLeft(q)
             l == StepsLeft(q)'
  <2>1. k \in 1..13 /\ ~(k \in 1..l)
    <3>1. \A n \in Nat, i \in 0..13 : n < i => i \in 1..13 /\ ~(i \in 1..n)
      OBVIOUS
    <3> QED BY <3>1
  <2>2. Ahead' \subseteq {s \in Queries \X (0..13) : s[2] = 0 \/ s[2] \in 1..(StepsLeft(s[1])')}
    BY DEF Ahead
  <2> HIDE DEF k
  <2>3. <<q, k>> \notin Ahead'
    BY <2>1, <2>2
  <2> QED BY <2>3 DEF k
<1> QED BY <1>1, <1>2, <1>3 DEF AheadShrinks

\* One more signal received shrinks it too.
LEMMA OneSignalLess ==
    ASSUME TInv, Await
    PROVE  AheadShrinks
<1>1. taken' = taken + 1 /\ taken \in Nat /\ taken + 1 \in Queries
    BY DEF Await, TInv, CountersTyped, Queries
<1>2. \A q \in Queries : StepsLeft(q)' = StepsLeft(q)
    BY DEF Await, locals, StepsLeft
<1>3. Ahead' \subseteq Ahead
    BY <1>1, <1>2 DEF Ahead, Queries
<1>4. <<taken + 1, 0>> \in Ahead /\ <<taken + 1, 0>> \notin Ahead'
    BY <1>1 DEF Ahead
<1> QED BY <1>3, <1>4 DEF AheadShrinks

\* A step of one goroutine leaves the others' steps alone.
LEMMA OthersWait ==
    ASSUME TInv, NEW q \in Queries, Runs(q)
    PROVE  /\ \A p \in Queries : p # q => StepsLeft(p)' = StepsLeft(p)
           /\ taken' = taken
<1> USE DEF TInv, Places, ResultsTyped
<1>1. ASSUME NEW p \in Queries, p # q
      PROVE  pc'[p] = pc[p] /\ outcome'[p] = outcome[p]
    BY <1>1 DEF Runs, Goroutine, Hangs, Start, Check, ReadClient, ReadMode, FastCall, Answered,
       Refused, NextCall, Detect, DetectFails, SetMode, SetClient, Match, Signal,
       Release, Move, locals
<1>2. taken' = taken
    BY DEF Runs, Goroutine, Hangs, Start, Check, ReadClient, ReadMode, FastCall, Detect,
       DetectFails, SetMode, SetClient, Match, Signal, Release, batch
<1> QED BY <1>1, <1>2 DEF StepsLeft

LEMMA SpawnCounts ==
    ASSUME TInv, Spawn
    PROVE  AheadShrinks
<1> USE DEF TInv, Places
<1>1. PICK q \in Queries : q = next
    BY DEF Spawn, Queries
<1>2. pc[q] = "none" /\ pc' = [pc EXCEPT ![q] = "start"]
    BY <1>1 DEF Spawn, Move
<1>3. UNCHANGED <<outcome, taken>>
    BY DEF Spawn, locals
<1>4. StepsLeft(q) = 13 /\ StepsLeft(q)' = 12
    BY <1>2 DEF StepsLeft
<1>5. \A p \in Queries : p # q => StepsLeft(p)' = StepsLeft(p)
    BY <1>2, <1>3 DEF StepsLeft
<1> QED BY <1>3, <1>4, <1>5, OneLess

LEMMA StartedStep == TInv /\ Started /\ [Next]_vars => Started'
<1> SUFFICES ASSUME TInv, Started, [Next]_vars PROVE Started'
    OBVIOUS
<1> USE DEF TInv, Places, Started
<1>1. CASE Spawn
    BY <1>1 DEF Spawn, Move, Queries
<1>2. CASE Await \/ UNCHANGED vars
    BY <1>2 DEF Await, vars, batch
<1>3. ASSUME NEW q \in Queries, Runs(q)
      PROVE  Started'
  <2>1. next' = next
    BY <1>3 DEF Runs, Goroutine, Hangs, Start, Check, ReadClient, ReadMode, FastCall, Detect,
       DetectFails, SetMode, SetClient, Match, Signal, Release, batch
  <2>2. \E l \in Labels \ {"none"} : pc' = [pc EXCEPT ![q] = l]
    BY <1>3 DEF Runs, Goroutine, Hangs, Start, Check, ReadClient, ReadMode, FastCall, Answered,
       Refused, NextCall, Detect, DetectFails, SetMode, SetClient, Match, Signal,
       Release, Move, Labels
  <2> QED BY <2>1, <2>2
<1> QED BY <1>1, <1>2, <1>3 DEF Next, Runs

LEMMA GoesOn == TInv /\ SignalsInv /\ Started => NeverStuck
<1> SUFFICES ASSUME TInv, SignalsInv, Started, ~Returned, Running = {}
             PROVE  CanGoOn
    BY DEF NeverStuck, CanGoOn, Running
<1> USE DEF TInv, Places, CountersTyped
<1>1. CASE next <= N
  <2>1. sem = 0
    BY FS_EmptySet
  <2> QED BY <1>1, <2>1, LimitPositive DEF CanGoOn, Room
<1>2. CASE next > N
  <2>1. \A q \in Queries : pc[q] = "exited"
    BY <1>2 DEF Started, Running, Queries
  <2>2. Signalled = Queries
    BY <2>1 DEF Signalled
  <2>3. done + taken = N /\ taken # N
    BY <1>2, <2>2, QueriesFinite DEF SignalsInv, Returned
  <2> QED BY <1>2, <2>3 DEF CanGoOn
<1> QED BY <1>1, <1>2

\* The batch comes to its end: of the at most 14 steps it has for each query every
\* step takes one away, and until it has returned it can go on, whatever the
\* limit and however many calls fail, unless one of them hangs.
THEOREM BatchIsShort == Spec => []NeverStuck /\ [][AheadShrinks]_vars
<1>1. TInv /\ [Next]_vars => [AheadShrinks]_vars
  <2>1. ASSUME TInv, NEW q \in Queries, Runs(q) PROVE AheadShrinks
    BY <2>1, GoroutineCounts, OthersWait, StepsTyped, OneLess
  <2> QED BY <2>1, SpawnCounts, OneSignalLess DEF Next, Runs
<1>2. Init => SignalsInv /\ Started
  <2> SUFFICES ASSUME Init PROVE SignalsInv /\ Started
    OBVIOUS
  <2>1. Signalled = {}
    BY DEF Init, Signalled
  <2> QED BY <2>1, FS_EmptySet DEF Init, SignalsInv, Started, Queries
<1> QED
    BY <1>1, <1>2, TypeInit, TypeStep, SignalsStep, StartedStep, GoesOn, PTL DEF Spec
==============================================================================
