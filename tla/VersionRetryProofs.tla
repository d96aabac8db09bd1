------------------------- MODULE VersionRetryProofs -------------------------
(***************************************************************************)
(* What VersionRetry guarantees for every set of callers and versions.     *)
(***************************************************************************)
EXTENDS VersionRetry, TLAPS

-----------------------------------------------------------------------------
(* Lemmas about the sequence of POSTs.                                     *)

\* Appending an outcome keeps a sequence of outcomes one, one longer, with
\* its earlier elements in place.
LEMMA AppendOutcome ==
    ASSUME NEW s \in Seq(Outcomes), NEW o \in Outcomes
    PROVE  /\ Append(s, o) \in Seq(Outcomes)
           /\ Len(Append(s, o)) = Len(s) + 1
           /\ Append(s, o)[Len(s) + 1] = o
           /\ Len(s) >= 1 => Append(s, o)[1] = s[1]
<1> QED  OBVIOUS

\* Every outcome the server can produce is an Outcome.
LEMMA OutcomesTyped == PostOutcomes \subseteq Outcomes
<1> QED  BY DEF PostOutcomes, Outcomes, Placed

\* One POST: its outcome, where it is recorded and where the caller goes.
LEMMA PostFacts ==
    ASSUME NEW c \in Callers, Post(c)
    PROVE  \E o \in Outcomes :
             /\ out' = [out EXCEPT ![c] = o]
             /\ posts' = [posts EXCEPT ![c] = IF o = "failed" THEN @
                                                          ELSE Append(@, o)]
             /\ quiet' = (quiet /\ o # "mismatch")
             /\ pc' = [pc EXCEPT ![c] = IF o = "mismatch" THEN "refetch"
                                                         ELSE AfterFn(c)]
<1> QED  BY OutcomesTyped DEF Post, Goto, IsOrderVersionMismatch

\* An attempt below the loop's bound may be counted.
LEMMA OneMore == \A n \in 0..2 : n < 2 => n + 1 \in 0..2
<1> QED  OBVIOUS

\* The empty sequence of outcomes.
LEMMA NoOutcomes == <<>> \in Seq(Outcomes) /\ Len(<<>>) = 0
<1> QED  OBVIOUS

-----------------------------------------------------------------------------
(* Type correctness, with the bound on POSTs it needs.                     *)

\* An operation that has not POSTed yet has run fn zero times; one about to
\* POST has run it at most once, one that was rejected has; each call of fn sends at most one POST.
LoopInv ==
    \A c \in Callers :
        /\ pc[c] \in {"resolve", "fetch", "store"} => attempt[c] = 0
        /\ pc[c] = "post" => attempt[c] < 2
        /\ pc[c] = "refetch" => attempt[c] # 0
        /\ Len(posts[c]) <= attempt[c]

TInv == TypeOK /\ LoopInv

LEMMA TInvInit == Init => TInv
<1> SUFFICES ASSUME Init PROVE TInv
    OBVIOUS
<1>1. TypeOK
  <2>1. fleet \subseteq Versions /\ fleet # {}
    BY DEF Init
  <2>2. posts \in [Callers -> Seq(Outcomes)]
    BY NoOutcomes DEF Init
  <2>3. flips \in 0..MaxFlips /\ cache \in Versions \cup {NoVersion}
    BY VersionAssumption DEF Init
  <2>4. attempt \in [Callers -> 0..2]
    BY DEF Init
  <2>7. quiet \in BOOLEAN
    BY DEF Init
  <2>8. foreign \in [Callers -> BOOLEAN]
    BY DEF Init
  <2>5. /\ version \in [Callers -> Versions \cup {NoVersion}]
        /\ fetched \in [Callers -> Versions \cup {NoVersion}]
    BY DEF Init
  <2>6. /\ pc \in [Callers -> Labels]
        /\ kind \in [Callers -> Kinds]
        /\ out \in [Callers -> Outcomes \cup {"none"}]
    BY DEF Init, Labels, Kinds
  <2> QED
    BY <2>1, <2>2, <2>3, <2>4, <2>5, <2>6, <2>7, <2>8
       DEF TypeOK
<1>2. LoopInv
  <2>1. ASSUME NEW c \in Callers
        PROVE  /\ pc[c] \notin {"resolve", "fetch", "store", "post", "refetch"}
               /\ Len(posts[c]) <= attempt[c]
    <3>1. posts[c] = <<>> /\ attempt[c] = 0 /\ pc[c] = "idle"
      BY DEF Init
    <3> QED
      BY <3>1, NoOutcomes
  <2> QED
    BY <2>1 DEF LoopInv
<1> QED  BY <1>1, <1>2 DEF TInv

LEMMA TInvStep == TInv /\ [Next]_vars => TInv'
<1> SUFFICES ASSUME TInv, [Next]_vars PROVE TInv'
    OBVIOUS
<1> USE VersionAssumption DEF TInv, TypeOK, LoopInv, Labels, Goto, Kinds,
           Disturb, InOperation
<1>1. CASE StartDeploy
    BY <1>1 DEF StartDeploy
<1>2. CASE EndDeploy
    BY <1>2 DEF EndDeploy
<1>3. CASE SetCachedOrderVersion
    BY <1>3 DEF SetCachedOrderVersion
<1>4. ASSUME NEW c \in Callers, Begin(c) PROVE TInv'
    BY <1>4 DEF Begin
<1>5. ASSUME NEW c \in Callers, ResolveHit(c) PROVE TInv'
    BY <1>5 DEF ResolveHit
<1>6. ASSUME NEW c \in Callers, ResolveMiss(c) PROVE TInv'
    BY <1>6 DEF ResolveMiss
<1>7. ASSUME NEW c \in Callers, Fetch(c) PROVE TInv'
    BY <1>7 DEF Fetch, GetVersion
<1>8. ASSUME NEW c \in Callers, Store(c) PROVE TInv'
    BY <1>8 DEF Store
<1>9. ASSUME NEW c \in Callers, Post(c) PROVE TInv'
  <2>1. PICK o \in Outcomes :
            /\ out' = [out EXCEPT ![c] = o]
            /\ posts' = [posts EXCEPT ![c] = IF o = "failed" THEN @
                                                         ELSE Append(@, o)]
            /\ quiet' = (quiet /\ o # "mismatch")
            /\ pc' = [pc EXCEPT ![c] = IF o = "mismatch" THEN "refetch"
                                                        ELSE AfterFn(c)]
    BY <1>9, PostFacts
  <2>3. /\ Append(posts[c], o) \in Seq(Outcomes)
        /\ Len(Append(posts[c], o)) = Len(posts[c]) + 1
    BY AppendOutcome
  <2>4. attempt[c] < 2 /\ attempt' = [attempt EXCEPT ![c] = @ + 1]
    BY <1>9 DEF Post
  <2>5. UNCHANGED <<fleet, flips, cache, kind, version, fetched, foreign>>
    BY <1>9 DEF Post
  <2>6. AfterFn(c) \in {"compare", "done"}
    BY DEF AfterFn
  <2>7. TypeOK'
    <3>1. posts' \in [Callers -> Seq(Outcomes)]
      BY <2>1, <2>3
    <3>2. attempt' \in [Callers -> 0..2]
      <4>1. attempt \in [Callers -> 0..2]
        BY Zenon
      <4>2. attempt[c] + 1 \in 0..2
        BY <2>4, <4>1, OneMore, Zenon
      <4> QED
        BY <2>4, <4>1, <4>2, Zenon
    <3>3. pc' \in [Callers -> Labels] /\ quiet' \in BOOLEAN
      BY <2>1, <2>6
    <3>4. out' \in [Callers -> Outcomes \cup {"none"}]
      BY <2>1
    <3> QED
      BY <3>1, <3>2, <3>3, <3>4, <2>5
  <2>8. LoopInv'
    <3> SUFFICES ASSUME NEW d \in Callers
                 PROVE  /\ pc'[d] \in {"resolve", "fetch", "store"} => attempt'[d] = 0
                        /\ pc'[d] = "post" => attempt'[d] < 2
                        /\ pc'[d] = "refetch" => attempt'[d] # 0
                        /\ Len(posts'[d]) <= attempt'[d]
      OBVIOUS
    <3>1. CASE d # c
      BY <3>1, <2>1, <2>4
    <3>2. CASE d = c
      <4>1. pc'[c] \in {"refetch", "compare", "done"}
        BY <2>1, <2>6
      <4>2. Len(posts'[c]) <= Len(posts[c]) + 1 /\ Len(posts[c]) \in Nat
        BY <2>1, <2>3
      <4>3. attempt'[c] = attempt[c] + 1
        BY <2>4
      <4>4. attempt[c] \in 0..2
        BY Zenon
      <4>7. Len(posts[c]) <= attempt[c]
        BY Zenon
      <4>5. Len(posts'[c]) \in Nat
        BY <2>1, <2>3
      <4>6. Len(posts'[c]) <= attempt'[c]
        BY <4>2, <4>3, <4>4, <4>5, <4>7
      <4>8. attempt'[c] # 0
        BY <4>3, <4>4
      <4> QED
        BY <3>2, <4>1, <4>6, <4>8
    <3> QED
      BY <3>1, <3>2
  <2> QED
    BY <2>7, <2>8
<1>10. ASSUME NEW c \in Callers, Restore(c) PROVE TInv'
    BY <1>10 DEF Restore, AfterFn
<1>11. ASSUME NEW c \in Callers, Compare(c) PROVE TInv'
    BY <1>11 DEF Compare
<1>12. ASSUME NEW c \in Callers, Adopt(c) PROVE TInv'
    BY <1>12 DEF Adopt, MayRetry
<1>13. CASE UNCHANGED vars
    BY <1>13 DEF vars
<1> QED
    BY <1>1, <1>2, <1>3, <1>4, <1>5, <1>6, <1>7, <1>8, <1>9, <1>10, <1>11,
       <1>12, <1>13 DEF Next, Step

\* The variables of the cache and of every operation keep their types.
THEOREM TypeCorrect == Spec => []TypeOK
<1>1. TInv => TypeOK
    BY DEF TInv
<1> QED  BY <1>1, TInvInit, TInvStep, PTL DEF Spec

\* retryOnVersionUpdate never sends an order more than twice, for any number
\* of goroutines and whatever they, the server and SetCachedOrderVersion do.
THEOREM PostsBounded == Spec => []AtMostTwoPosts
<1>1. TInv => AtMostTwoPosts
  <2> SUFFICES ASSUME TInv, NEW c \in Callers PROVE Len(posts[c]) <= 2
    BY DEF AtMostTwoPosts
  <2>1. attempt[c] \in 0..2 /\ posts[c] \in Seq(Outcomes)
    BY DEF TInv, TypeOK
  <2>2. Len(posts[c]) <= attempt[c] /\ Len(posts[c]) \in Nat
    BY <2>1 DEF TInv, LoopInv
  <2> QED
    BY <2>1, <2>2
<1> QED  BY <1>1, TInvInit, TInvStep, PTL DEF Spec

-----------------------------------------------------------------------------
(* A client whose version is already resolved, on a server that has not    *)
(* rejected anything: nobody writes the cache, so nobody sees it move.     *)

\* With the cache resolved and untouched, a caller that will compare still
\* holds the cached version, and one about to POST has not POSTed yet.
WarmState ==
    /\ cache # NoVersion
    /\ \A c \in Callers :
         /\ pc[c] \in {"idle", "resolve", "post", "compare", "done"}
         /\ pc[c] \in {"resolve", "post"} => Len(posts[c]) = 0
         /\ pc[c] = "compare" => version[c] = cache
         /\ (pc[c] = "post" /\ kind[c] = "retry") => version[c] = cache
         /\ Len(posts[c]) <= 1

WarmInv == quiet => WarmState

LEMMA WarmInit == Init => WarmInv
<1> SUFFICES ASSUME Init, quiet PROVE WarmState
    BY DEF WarmInv
<1>1. cache # NoVersion
    BY DEF Init
<1>2. \A c \in Callers : pc[c] = "idle" /\ posts[c] = <<>>
    BY DEF Init
<1> QED
    BY <1>1, <1>2, NoOutcomes DEF WarmState

LEMMA WarmStep == TInv /\ WarmInv /\ [Next]_vars => WarmInv'
<1> SUFFICES ASSUME TInv, WarmInv, [Next]_vars PROVE WarmInv'
    OBVIOUS
<1> USE DEF WarmInv, WarmState, Goto, TInv, TypeOK
<1>1. CASE StartDeploy
    BY <1>1 DEF StartDeploy
<1>2. CASE EndDeploy
    BY <1>2 DEF EndDeploy
<1>3. CASE SetCachedOrderVersion
    BY <1>3 DEF SetCachedOrderVersion
<1>4. ASSUME NEW c \in Callers, Begin(c) PROVE WarmInv'
  <2>1. Len(posts'[c]) = 0
    BY <1>4, NoOutcomes DEF Begin, TInv, TypeOK
  <2> QED
    BY <1>4, <2>1 DEF Begin, Goto, WarmInv, WarmState, TInv, TypeOK, Kinds
<1>5. ASSUME NEW c \in Callers, ResolveHit(c) PROVE WarmInv'
    BY <1>5 DEF ResolveHit
<1>6. ASSUME NEW c \in Callers, ResolveMiss(c) PROVE WarmInv'
    BY <1>6 DEF ResolveMiss
<1>7. ASSUME NEW c \in Callers, Fetch(c) PROVE WarmInv'
    BY <1>7 DEF Fetch
<1>8. ASSUME NEW c \in Callers, Store(c) PROVE WarmInv'
    BY <1>8 DEF Store
<1>9. ASSUME NEW c \in Callers, Post(c) PROVE WarmInv'
  <2>1. PICK o \in Outcomes :
            /\ posts' = [posts EXCEPT ![c] = IF o = "failed" THEN @
                                                         ELSE Append(@, o)]
            /\ quiet' = (quiet /\ o # "mismatch")
            /\ pc' = [pc EXCEPT ![c] = IF o = "mismatch" THEN "refetch"
                                                        ELSE AfterFn(c)]
    BY <1>9, PostFacts
  <2>2. posts[c] \in Seq(Outcomes)
    OBVIOUS
  <2>3. /\ Len(Append(posts[c], o)) = Len(posts[c]) + 1
        /\ Len(posts[c]) \in Nat
    BY <2>2, AppendOutcome
  <2>4. pc[c] = "post"
    BY <1>9 DEF Post
  <2>5. UNCHANGED <<fleet, flips, cache, kind, version, fetched, foreign>>
    BY <1>9 DEF Post
  <2> SUFFICES ASSUME quiet' PROVE WarmState'
    BY DEF WarmInv
  <2>6. WarmState /\ o # "mismatch"
    BY <2>1 DEF WarmInv
  <2>7. pc' = [pc EXCEPT ![c] = AfterFn(c)]
    BY <2>1, <2>6
  <2>8. Len(posts[c]) = 0
    BY <2>4, <2>6
  <2>9. posts'[c] = posts[c] \/ posts'[c] = Append(posts[c], o)
    BY <2>1
  <2>10. Len(posts'[c]) <= 1
    <3>1. CASE posts'[c] = posts[c]
      BY <2>8, <3>1
    <3>2. CASE posts'[c] = Append(posts[c], o)
      <4>1. Len(posts'[c]) = Len(Append(posts[c], o))
        BY <3>2
      <4>2. Len(Append(posts[c], o)) = 1
        BY <2>3, <2>8
      <4> QED
        BY <4>1, <4>2
    <3> QED
      BY <2>9, <3>1, <3>2
  <2> QED
    BY <2>1, <2>4, <2>5, <2>6, <2>7, <2>10 DEF AfterFn
<1>10. ASSUME NEW c \in Callers, Restore(c) PROVE WarmInv'
    BY <1>10 DEF Restore, AfterFn
<1>11. ASSUME NEW c \in Callers, Compare(c) PROVE WarmInv'
    BY <1>11 DEF Compare, Unmoved
<1>12. ASSUME NEW c \in Callers, Adopt(c) PROVE WarmInv'
    BY <1>12 DEF Adopt, MayRetry
<1>13. CASE UNCHANGED vars
    BY <1>13 DEF vars
<1> QED
    BY <1>1, <1>2, <1>3, <1>4, <1>5, <1>6, <1>7, <1>8, <1>9, <1>10, <1>11,
       <1>12, <1>13 DEF Next, Step

\* On a resolved cache that nobody overwrites by hand, no operation is POSTed
\* twice until the server has rejected some order for its version.
THEOREM QuietServerNoRepost == Spec => []NoRejectionNoRepost
<1>1. WarmInv => NoRejectionNoRepost
    BY DEF WarmInv, WarmState, NoRejectionNoRepost
<1> QED
    BY <1>1, TInvInit, TInvStep, WarmInit, WarmStep, PTL DEF Spec

-----------------------------------------------------------------------------
(* One operation nobody disturbs: the cache moves only between its own fn    *)
(* and its comparison, and only when its own POST was rejected.              *)

\* The operation's first POST was rejected for its version.
RejectedFirst(c) == Len(posts[c]) >= 1 /\ posts[c][1] = "mismatch"

OwnState(c) ==
    /\ pc[c] \in {"resolve", "fetch", "store"} => Len(posts[c]) = 0
    /\ pc[c] = "post" =>
         \/ Len(posts[c]) = 0 /\ (kind[c] = "retry" => version[c] = cache)
         \/ RejectedFirst(c)
    /\ pc[c] \in {"refetch", "restore", "adopt"} => RejectedFirst(c)
    /\ pc[c] = "compare" => version[c] = cache \/ RejectedFirst(c)
    /\ Len(posts[c]) >= 2 => RejectedFirst(c)

OwnInv == \A c \in Callers : ~foreign[c] => OwnState(c)

LEMMA OwnInit == Init => OwnInv
<1> SUFFICES ASSUME Init, NEW c \in Callers PROVE OwnState(c)
    BY DEF OwnInv
<1>1. pc[c] = "idle" /\ posts[c] = <<>>
    BY DEF Init
<1> QED
    BY <1>1, NoOutcomes DEF OwnState

\* A step of another caller leaves the operation alone, or disturbs it by a
\* write of the cache, or finds it idle or done.
LEMMA OthersStep ==
    ASSUME TInv, NEW c \in Callers,
           \/ StartDeploy \/ EndDeploy \/ SetCachedOrderVersion
           \/ \E d \in Callers : d # c /\ (Begin(d) \/ Step(d))
    PROVE  /\ UNCHANGED <<pc[c], posts[c], kind[c], version[c]>>
           /\ \/ cache' = cache /\ foreign'[c] = foreign[c]
              \/ foreign'[c] = (foreign[c] \/ InOperation(c))
<1>t. /\ pc \in [Callers -> Labels]
      /\ kind \in [Callers -> Kinds]
      /\ version \in [Callers -> Versions \cup {NoVersion}]
      /\ posts \in [Callers -> Seq(Outcomes)]
      /\ foreign \in [Callers -> BOOLEAN]
    BY DEF TInv, TypeOK
<1>1. CASE StartDeploy \/ EndDeploy \/ SetCachedOrderVersion
    BY <1>1 DEF StartDeploy, EndDeploy, SetCachedOrderVersion, Disturb
<1>2. ASSUME NEW d \in Callers, d # c, Begin(d) \/ Step(d)
      PROVE  /\ UNCHANGED <<pc[c], posts[c], kind[c], version[c]>>
             /\ \/ cache' = cache /\ foreign'[c] = foreign[c]
                \/ foreign'[c] = (foreign[c] \/ InOperation(c))
  <2>1. CASE Begin(d)
      BY <1>t, <1>2, <2>1 DEF Begin, Goto
  <2>2. CASE Store(d) \/ Restore(d)
      BY <1>t, <1>2, <2>2 DEF Store, Restore, Goto, Disturb
  <2>3. CASE Post(d)
      BY <1>t, <1>2, <2>3 DEF Post, Goto
  <2>4. CASE ResolveHit(d) \/ ResolveMiss(d) \/ Fetch(d) \/ Compare(d)
             \/ Adopt(d)
      BY <1>t, <1>2, <2>4
      DEF ResolveHit, ResolveMiss, Fetch, Compare, Adopt, Goto
  <2> QED
      BY <1>2, <2>1, <2>2, <2>3, <2>4 DEF Step
<1> QED
    BY <1>1, <1>2

LEMMA OthersKeepOwn ==
    ASSUME NEW c \in Callers, ~foreign[c] => OwnState(c), ~foreign'[c],
           UNCHANGED <<pc[c], posts[c], kind[c], version[c]>>,
           \/ cache' = cache /\ foreign'[c] = foreign[c]
           \/ foreign'[c] = (foreign[c] \/ InOperation(c))
    PROVE  OwnState(c)'
BY DEF OwnState, RejectedFirst, InOperation

\* A step of the operation itself.
LEMMA OwnStep ==
    ASSUME TInv, NEW c \in Callers, ~foreign[c] => OwnState(c), ~foreign'[c],
           Begin(c) \/ Step(c)
    PROVE  OwnState(c)'
<1>t. /\ pc \in [Callers -> Labels]
      /\ kind \in [Callers -> Kinds]
      /\ version \in [Callers -> Versions \cup {NoVersion}]
      /\ posts \in [Callers -> Seq(Outcomes)]
      /\ foreign \in [Callers -> BOOLEAN]
    BY DEF TInv, TypeOK
<1>1. CASE Begin(c)
  <2>1. posts'[c] = <<>> /\ pc'[c] \in {"resolve", "post"}
    BY <1>1, <1>t DEF Begin, Goto, Kinds
  <2>2. pc'[c] = "post" => kind'[c] # "retry"
    BY <1>1, <1>t DEF Begin, Goto, Kinds
  <2> QED
    BY <2>1, <2>2, NoOutcomes DEF OwnState
<1> SUFFICES ASSUME Step(c) PROVE OwnState(c)'
    BY <1>1
<1>u. OwnState(c)
  <2>1. CASE Store(c) \/ Restore(c)
    BY <2>1, <1>t DEF Store, Restore, Disturb
  <2>2. CASE ~(Store(c) \/ Restore(c))
    <3>1. foreign' = foreign
      BY <2>2 DEF Step, ResolveHit, ResolveMiss, Fetch, Post, Compare, Adopt
    <3> QED
      BY <3>1
  <2> QED
    BY <2>1, <2>2
<1>5. CASE ResolveHit(c)
    BY <1>5, <1>u, <1>t DEF ResolveHit, Goto, OwnState, RejectedFirst
<1>6. CASE ResolveMiss(c)
    BY <1>6, <1>u, <1>t DEF ResolveMiss, Goto, OwnState, RejectedFirst
<1>7. CASE Fetch(c)
    BY <1>7, <1>u, <1>t DEF Fetch, Goto, OwnState, RejectedFirst
<1>8. CASE Store(c)
    BY <1>8, <1>u, <1>t DEF Store, Goto, OwnState, RejectedFirst
<1>9. CASE Post(c)
  <2>1. PICK o \in Outcomes :
            /\ posts' = [posts EXCEPT ![c] = IF o = "failed" THEN @
                                                         ELSE Append(@, o)]
            /\ pc' = [pc EXCEPT ![c] = IF o = "mismatch" THEN "refetch"
                                                        ELSE AfterFn(c)]
    BY <1>9, PostFacts
  <2>2. /\ Len(Append(posts[c], o)) = Len(posts[c]) + 1
        /\ Append(posts[c], o)[Len(posts[c]) + 1] = o
        /\ Len(posts[c]) >= 1 => Append(posts[c], o)[1] = posts[c][1]
        /\ Len(posts[c]) \in Nat
    BY <1>t, AppendOutcome
  <2>3. pc[c] = "post" /\ UNCHANGED <<cache, kind, version>>
    BY <1>9 DEF Post
  <2>4. /\ pc'[c] = IF o = "mismatch" THEN "refetch" ELSE AfterFn(c)
        /\ posts'[c] = IF o = "failed" THEN posts[c] ELSE Append(posts[c], o)
        /\ AfterFn(c) = IF kind[c] = "retry" THEN "compare" ELSE "done"
    BY <1>t, <2>1 DEF AfterFn
  <2>5. CASE RejectedFirst(c)
    <3>1. RejectedFirst(c)'
      BY <2>2, <2>4, <2>5 DEF RejectedFirst
    <3> QED
      BY <2>4, <3>1 DEF OwnState
  <2>6. CASE ~RejectedFirst(c)
    <3>1. Len(posts[c]) = 0 /\ (kind[c] = "retry" => version[c] = cache)
      BY <1>u, <2>3, <2>6 DEF OwnState
    <3>2. CASE o = "mismatch"
      <4>1. posts'[c] = Append(posts[c], o) /\ Len(posts[c]) + 1 = 1
        BY <2>4, <3>1, <3>2
      <4>2. RejectedFirst(c)'
        BY <2>2, <3>2, <4>1 DEF RejectedFirst
      <4> QED
        BY <2>4, <3>2, <4>2 DEF OwnState
    <3>3. CASE o # "mismatch"
      <4> DEFINE n == Len(posts'[c])
      <4>1. n = 0 \/ n = 1
        BY <2>2, <2>4, <3>1
      <4> HIDE DEF n
      <4>4. ~(n >= 2)
        BY <4>1
      <4>2. ~(Len(posts'[c]) >= 2)
        BY <4>4 DEF n
      <4>3. \/ pc'[c] = "compare" /\ version'[c] = cache'
            \/ pc'[c] = "done"
        BY <2>3, <2>4, <3>1, <3>3
      <4> QED
        BY <4>2, <4>3 DEF OwnState
    <3> QED
      BY <3>2, <3>3
  <2> QED
    BY <2>5, <2>6
<1>10. CASE Restore(c)
    BY <1>10, <1>u, <1>t DEF Restore, AfterFn, Goto, OwnState, RejectedFirst
<1>11. CASE Compare(c)
    BY <1>11, <1>u, <1>t DEF Compare, Unmoved, Goto, OwnState, RejectedFirst
<1>12. CASE Adopt(c)
    BY <1>12, <1>u, <1>t DEF Adopt, MayRetry, Goto, OwnState, RejectedFirst
<1> QED
    BY <1>5, <1>6, <1>7, <1>8, <1>9, <1>10, <1>11, <1>12 DEF Step

LEMMA OwnInvStep == TInv /\ OwnInv /\ [Next]_vars => OwnInv'
<1> SUFFICES ASSUME TInv, OwnInv, [Next]_vars, NEW c \in Callers, ~foreign'[c]
             PROVE  OwnState(c)'
    BY DEF OwnInv
<1>1. ~foreign[c] => OwnState(c)
    BY DEF OwnInv
<1>2. CASE UNCHANGED vars
    BY <1>1, <1>2 DEF vars, OwnState, RejectedFirst
<1>3. CASE Begin(c) \/ Step(c)
    BY <1>1, <1>3, OwnStep
<1>4. CASE \/ StartDeploy \/ EndDeploy \/ SetCachedOrderVersion
           \/ \E d \in Callers : d # c /\ (Begin(d) \/ Step(d))
    BY <1>1, <1>4, OthersStep, OthersKeepOwn
<1> QED
    BY <1>2, <1>3, <1>4 DEF Next

\* For an operation that nobody disturbs the comment of retryOnVersionUpdate
\* is true: it POSTs again only when the server rejected its order for the
\* version.  With one goroutine that is every operation.
THEOREM UndisturbedRepost == Spec => []RepostOnlyAfterOwnRejection
<1>1. OwnInv => RepostOnlyAfterOwnRejection
    BY DEF OwnInv, OwnState, RejectedFirst, RepostOnlyAfterOwnRejection
<1> QED
    BY <1>1, TInvInit, TInvStep, OwnInit, OwnInvStep, PTL DEF Spec

\* And it places at most one order.
THEOREM UndisturbedNoDuplicate == Spec => []UndisturbedPlacesOnce
<1>1. TInv /\ AtMostTwoPosts /\ OwnInv => UndisturbedPlacesOnce
  <2> SUFFICES ASSUME TInv, AtMostTwoPosts, OwnInv, NEW c \in Callers,
                      ~foreign[c],
                      NEW i \in DOMAIN posts[c], NEW j \in DOMAIN posts[c],
                      posts[c][i] \in Placed, posts[c][j] \in Placed, i # j
               PROVE  FALSE
    BY DEF UndisturbedPlacesOnce, PlacedOnce
  <2>1. posts[c] \in Seq(Outcomes)
    BY DEF TInv, TypeOK
  <2> DEFINE n == Len(posts[c])
  <2>2. n \in Nat /\ DOMAIN posts[c] = 1..n
    BY <2>1
  <2>3. n <= 2
    BY DEF AtMostTwoPosts
  <2>7. i \in 1..n /\ j \in 1..n
    BY <2>2
  <2> HIDE DEF n
  <2>8. i \in 1..2 /\ j \in 1..2 /\ n = 2
    BY <2>2, <2>3, <2>7
  <2>4. i \in 1..2 /\ j \in 1..2 /\ Len(posts[c]) = 2
    BY <2>8 DEF n
  <2>5. posts[c][1] = "mismatch"
    BY <2>4 DEF OwnInv, OwnState, RejectedFirst
  <2>6. i = 1 \/ j = 1
    BY <2>4
  <2> QED
    BY <2>5, <2>6 DEF Placed
<1> QED
    BY <1>1, PostsBounded, TInvInit, TInvStep, OwnInit, OwnInvStep, PTL
    DEF Spec

-----------------------------------------------------------------------------
(* An acceptance that was heard.                                           *)

Heard(c) == \E i \in DOMAIN posts[c] : posts[c][i] = "accepted"

\* Whoever is about to POST or to refresh has not heard an acceptance; who
\* compares or adopts after one is to return it, for lack of a third attempt.
HeardState(c) ==
    /\ pc[c] \in {"resolve", "fetch", "store", "post", "refetch", "restore"}
         => ~Heard(c)
    /\ pc[c] \in {"compare", "adopt", "done"} /\ Heard(c) => out[c] = "accepted"
    /\ pc[c] = "adopt" /\ Heard(c) => attempt[c] = 2

HeardInv == \A c \in Callers : ~foreign[c] => HeardState(c)

LEMMA AppendHeard ==
    ASSUME NEW s \in Seq(Outcomes), NEW o \in Outcomes,
           NEW i \in DOMAIN Append(s, o), Append(s, o)[i] = "accepted"
    PROVE  o = "accepted" \/ \E j \in DOMAIN s : s[j] = "accepted"
<1> QED  OBVIOUS

\* After a rejection, an acceptance can only be that of the second attempt.
LEMMA SecondHeard ==
    ASSUME TInv, NEW c \in Callers, RejectedFirst(c), Heard(c)
    PROVE  attempt[c] = 2
<1> DEFINE n == Len(posts[c])
<1>1. posts[c] \in Seq(Outcomes) /\ attempt[c] \in 0..2
    BY DEF TInv, TypeOK
<1>2. n \in Nat /\ DOMAIN posts[c] = 1..n
    BY <1>1
<1>3. n <= attempt[c]
    BY DEF TInv, LoopInv
<1>4. PICK i \in 1..n : posts[c][i] = "accepted"
    BY <1>2 DEF Heard
<1>5. i # 1
    BY <1>4 DEF RejectedFirst
<1> HIDE DEF n
<1> QED
    BY <1>1, <1>2, <1>3, <1>4, <1>5

LEMMA HeardOwnStep ==
    ASSUME TInv, OwnInv, HeardInv, NEW c \in Callers, Begin(c) \/ Step(c),
           ~foreign'[c]
    PROVE  HeardState(c)'
<1>t. /\ pc \in [Callers -> Labels]
      /\ kind \in [Callers -> Kinds]
      /\ attempt \in [Callers -> 0..2]
      /\ out \in [Callers -> Outcomes \cup {"none"}]
      /\ posts \in [Callers -> Seq(Outcomes)]
      /\ foreign \in [Callers -> BOOLEAN]
    BY DEF TInv, TypeOK
<1>1. CASE Begin(c)
  <2>1. posts'[c] = <<>> /\ pc'[c] \in {"resolve", "post"}
    BY <1>1, <1>t DEF Begin, Goto, Kinds
  <2> QED
    BY <2>1 DEF HeardState, Heard
<1> SUFFICES ASSUME Step(c) PROVE HeardState(c)'
    BY <1>1
<1>2. ~foreign[c]
  <2>1. CASE Store(c) \/ Restore(c)
    BY <2>1, <1>t DEF Store, Restore, Disturb
  <2>2. CASE ~(Store(c) \/ Restore(c))
    BY <2>2 DEF Step, ResolveHit, ResolveMiss, Fetch, Post, Compare, Adopt
  <2> QED
    BY <2>1, <2>2
<1>3. HeardState(c) /\ OwnState(c)
    BY <1>2 DEF HeardInv, OwnInv
<1>4. CASE ResolveHit(c) \/ ResolveMiss(c) \/ Fetch(c)
    BY <1>4, <1>3, <1>t DEF ResolveHit, ResolveMiss, Fetch, Goto, HeardState, Heard
<1>5. CASE Store(c) \/ Restore(c)
    BY <1>5, <1>3, <1>t DEF Store, Restore, AfterFn, Goto, HeardState, Heard
<1>6. CASE Compare(c)
  <2>1. pc'[c] \in {"done", "adopt"} /\ UNCHANGED <<posts, out, attempt>>
    BY <1>6, <1>t DEF Compare, Goto
  <2>2. Heard(c) => out[c] = "accepted"
    BY <1>6, <1>3 DEF Compare, HeardState
  <2>3. pc'[c] = "adopt" => RejectedFirst(c)
    BY <1>6, <1>3, <1>t DEF Compare, Unmoved, Goto, OwnState
  <2> QED
    BY <2>1, <2>2, <2>3, SecondHeard DEF HeardState, Heard
<1>7. CASE Adopt(c)
  <2>1. /\ pc'[c] = IF attempt[c] < 2 THEN "post" ELSE "done"
        /\ UNCHANGED <<posts, out, attempt>>
    BY <1>7, <1>t DEF Adopt, MayRetry, Goto
  <2>2. Heard(c) => out[c] = "accepted" /\ attempt[c] = 2
    BY <1>7, <1>3 DEF Adopt, HeardState
  <2>3. Heard(c)' <=> Heard(c)
    BY <2>1 DEF Heard
  <2> QED
    BY <2>1, <2>2, <2>3 DEF HeardState
<1>8. CASE Post(c)
  <2>1. PICK o \in Outcomes :
            /\ out' = [out EXCEPT ![c] = o]
            /\ posts' = [posts EXCEPT ![c] = IF o = "failed" THEN @
                                                         ELSE Append(@, o)]
            /\ pc' = [pc EXCEPT ![c] = IF o = "mismatch" THEN "refetch"
                                                        ELSE AfterFn(c)]
    BY <1>8, PostFacts
  <2>2. ~Heard(c)
    BY <1>8, <1>3 DEF Post, HeardState
  <2>3. Heard(c)' => o = "accepted"
    <3>1. posts'[c] = posts[c] \/ posts'[c] = Append(posts[c], o)
      BY <2>1, <1>t
    <3>2. posts[c] \in Seq(Outcomes)
      BY <1>t
    <3> QED
      BY <2>2, <3>1, <3>2, AppendHeard DEF Heard
  <2>4. /\ out'[c] = o
        /\ pc'[c] = IF o = "mismatch" THEN "refetch" ELSE AfterFn(c)
        /\ AfterFn(c) \in {"compare", "done"}
    BY <2>1, <1>t DEF AfterFn
  <2> QED
    BY <2>3, <2>4 DEF HeardState
<1> QED
    BY <1>4, <1>5, <1>6, <1>7, <1>8 DEF Step

\* The operation whose result is lost among those of its attempts would have
\* to be disturbed: one that nobody disturbs returns the acceptance it heard.
THEOREM AcceptancesReported == Spec => []AcceptanceReported
<1>1. Init => HeardInv
  <2> SUFFICES ASSUME Init, NEW c \in Callers PROVE HeardState(c)
    BY DEF HeardInv
  <2>1. pc[c] = "idle"
    BY DEF Init
  <2> QED
    BY <2>1 DEF HeardState
<1>2. TInv /\ OwnInv /\ HeardInv /\ [Next]_vars => HeardInv'
  <2> SUFFICES ASSUME TInv, OwnInv, HeardInv, [Next]_vars, NEW c \in Callers,
                      ~foreign'[c]
               PROVE  HeardState(c)'
    BY DEF HeardInv
  <2>1. CASE UNCHANGED vars
    BY <2>1 DEF HeardInv, HeardState, Heard, vars
  <2>2. CASE Begin(c) \/ Step(c)
    BY <2>2, HeardOwnStep
  <2>3. CASE \/ StartDeploy \/ EndDeploy \/ SetCachedOrderVersion
             \/ \E d \in Callers : d # c /\ (Begin(d) \/ Step(d))
    <3>1. /\ UNCHANGED <<pc[c], posts[c]>>
          /\ foreign'[c] = foreign[c] \/ foreign'[c] = (foreign[c] \/ InOperation(c))
      BY <2>3, OthersStep
    <3>2. UNCHANGED <<out[c], attempt[c]>>
      <4>1. CASE StartDeploy \/ EndDeploy \/ SetCachedOrderVersion
        BY <4>1 DEF StartDeploy, EndDeploy, SetCachedOrderVersion
      <4>2. ASSUME NEW d \in Callers, d # c, Begin(d) \/ Step(d)
            PROVE  UNCHANGED <<out[c], attempt[c]>>
        <5>1. DOMAIN out = Callers /\ DOMAIN attempt = Callers
          BY DEF TInv, TypeOK
        <5>2. CASE Begin(d) \/ Post(d) \/ Compare(d) \/ Adopt(d)
          BY <4>2, <5>1, <5>2 DEF Begin, Post, Compare, Adopt
        <5>3. CASE ResolveHit(d) \/ ResolveMiss(d) \/ Fetch(d) \/ Store(d) \/ Restore(d)
          BY <4>2, <5>1, <5>3 DEF ResolveHit, ResolveMiss, Fetch, Store, Restore
        <5> QED
          BY <4>2, <5>2, <5>3 DEF Step
      <4> QED
        BY <2>3, <4>1, <4>2
    <3>3. ~foreign[c]
      BY <3>1
    <3> QED
      BY <3>1, <3>2, <3>3 DEF HeardInv, HeardState, Heard
  <2> QED
    BY <2>1, <2>2, <2>3 DEF Next
<1>3. HeardInv => AcceptanceReported
    BY DEF HeardInv, HeardState, Heard, AcceptanceReported
<1> QED
    BY <1>1, <1>2, <1>3, TInvInit, TInvStep, OwnInit, OwnInvStep, PTL DEF Spec

-----------------------------------------------------------------------------
(* How long an operation takes.                                            *)

\* The steps an operation has still to make, at most.
StepsLeft(c) ==
    LET again == 5 * (2 - attempt[c]) IN
    CASE pc[c] \in {"idle", "done"} -> 0
      [] pc[c] = "post" -> again
      [] pc[c] \in {"adopt", "store"} -> again + 1
      [] pc[c] \in {"compare", "fetch"} -> again + 2
      [] pc[c] \in {"restore", "resolve"} -> again + 3
      [] pc[c] = "refetch" -> again + 4

LEMMA StepsLeftBounded ==
    ASSUME TInv, NEW c \in Callers
    PROVE  StepsLeft(c) \in 0..13 /\ (InOperation(c) => StepsLeft(c) > 0)
<1>1. /\ pc[c] \in Labels /\ attempt[c] \in 0..2
      /\ pc[c] \in {"resolve", "fetch", "store"} => attempt[c] = 0
      /\ pc[c] = "post" => attempt[c] < 2
    BY DEF TInv, TypeOK, LoopInv
<1>2. CASE pc[c] \in {"idle", "done"}
    BY <1>2 DEF StepsLeft, InOperation
<1>3. CASE pc[c] \in {"resolve", "fetch", "store"}
    BY <1>1, <1>3 DEF StepsLeft
<1>4. CASE pc[c] = "post"
    BY <1>1, <1>4 DEF StepsLeft
<1>a. attempt[c] \in 0..2 /\ (pc[c] = "refetch" => attempt[c] # 0)
    BY DEF TInv, TypeOK, LoopInv
<1>5. CASE pc[c] = "adopt"
    BY <1>a, <1>5 DEF StepsLeft
<1>6. CASE pc[c] = "compare"
    BY <1>a, <1>6 DEF StepsLeft
<1>7. CASE pc[c] = "restore"
    BY <1>a, <1>7 DEF StepsLeft
<1>8. CASE pc[c] = "refetch"
    BY <1>a, <1>8 DEF StepsLeft
<1> QED
    BY <1>1, <1>2, <1>3, <1>4, <1>5, <1>6, <1>7, <1>8 DEF Labels

\* Each step of an operation brings its end nearer.
LEMMA OwnStepCounts ==
    ASSUME TInv, NEW c \in Callers, Step(c)
    PROVE  StepsLeft(c)' < StepsLeft(c) /\ StepsLeft(c)' <= StepsLeft(c)
<1>t. /\ pc \in [Callers -> Labels] /\ attempt \in [Callers -> 0..2]
      /\ pc[c] \in {"resolve", "fetch", "store"} => attempt[c] = 0
      /\ pc[c] = "post" => attempt[c] < 2
    BY DEF TInv, TypeOK, LoopInv
<1>a. AfterFn(c) \in {"compare", "done"}
    BY DEF AfterFn
<1>1. CASE ResolveHit(c) \/ ResolveMiss(c)
    BY <1>1, <1>t DEF ResolveHit, ResolveMiss, Goto, StepsLeft
<1>2. CASE Fetch(c)
    BY <1>2, <1>t DEF Fetch, Goto, StepsLeft
<1>3. CASE Store(c)
    BY <1>3, <1>t DEF Store, Goto, StepsLeft
<1>4. CASE Post(c)
  <2>1. pc[c] = "post" /\ attempt[c] \in 0..1 /\ attempt'[c] = attempt[c] + 1
    BY <1>4, <1>t DEF Post
  <2>2. pc'[c] \in {"refetch", "compare", "done"}
    BY <1>4, <1>t, <1>a, PostFacts
  <2> QED
    BY <2>1, <2>2 DEF StepsLeft
<1>5. CASE Restore(c)
    BY <1>5, <1>t, <1>a DEF Restore, Goto, StepsLeft
<1>6. CASE Compare(c)
    BY <1>6, <1>t DEF Compare, Goto, StepsLeft
<1>7. CASE Adopt(c)
    BY <1>7, <1>t DEF Adopt, MayRetry, Goto, StepsLeft
<1> QED
    BY <1>1, <1>2, <1>3, <1>4, <1>5, <1>6, <1>7 DEF Step

\* Nobody else's step takes an operation back.
LEMMA OthersCount ==
    ASSUME TInv, NEW c \in Callers,
           \/ StartDeploy \/ EndDeploy \/ SetCachedOrderVersion
           \/ \E d \in Callers : d # c /\ (Begin(d) \/ Step(d))
    PROVE  StepsLeft(c)' = StepsLeft(c)
<1>1. UNCHANGED <<pc[c], attempt[c]>>
  <2>1. DOMAIN attempt = Callers
    BY DEF TInv, TypeOK
  <2>2. UNCHANGED pc[c]
    BY OthersStep DEF TInv
  <2>3. ASSUME NEW d \in Callers, d # c, Begin(d) \/ Step(d)
        PROVE  UNCHANGED attempt[c]
    <3>1. CASE Begin(d) \/ Post(d)
      BY <2>1, <2>3, <3>1 DEF Begin, Post
    <3>2. CASE UNCHANGED attempt
      BY <3>2
    <3> QED
      BY <2>3, <3>1, <3>2
         DEF Step, ResolveHit, ResolveMiss, Fetch, Store, Restore, Compare, Adopt
  <2>4. CASE StartDeploy \/ EndDeploy \/ SetCachedOrderVersion
    BY <2>2, <2>4 DEF StartDeploy, EndDeploy, SetCachedOrderVersion
  <2> QED
    BY <2>2, <2>3, <2>4
<1> QED
    BY <1>1 DEF StepsLeft

\* An operation makes at most 13 steps of its own until it returns, and nothing
\* that other goroutines, deployments or SetCachedOrderVersion do adds to them.
StepCounts(c) ==
    InOperation(c) =>
        /\ StepsLeft(c)' <= StepsLeft(c)
        /\ Step(c) => StepsLeft(c)' < StepsLeft(c)

EveryStepCounts == [][\A c \in Callers : StepCounts(c)]_vars

\* retryOnVersionUpdate ends: the steps an operation has left are at most 13, and
\* each it makes is one less, for any number of goroutines and deployments.
THEOREM OperationsAreShort ==
    Spec => [](\A c \in Callers : StepsLeft(c) \in 0..13) /\ EveryStepCounts
<1>1. TInv => \A c \in Callers : StepsLeft(c) \in 0..13
    BY StepsLeftBounded
<1>2. TInv /\ [Next]_vars => [\A c \in Callers : StepCounts(c)]_vars
  <2>1. ASSUME TInv, Next, NEW c \in Callers, InOperation(c)
        PROVE  StepCounts(c)
    <3>1. CASE Step(c)
      BY <2>1, <3>1, OwnStepCounts DEF StepCounts
    <3>2. CASE \/ StartDeploy \/ EndDeploy \/ SetCachedOrderVersion
               \/ \E d \in Callers : d # c /\ (Begin(d) \/ Step(d))
      <4>1. StepsLeft(c)' = StepsLeft(c) /\ StepsLeft(c) \in 0..13
        BY <2>1, <3>2, OthersCount, StepsLeftBounded
      <4>2. ~Step(c) \/ Step(c)
        OBVIOUS
      <4> QED
        BY <2>1, <4>1, <3>1 DEF StepCounts
    <3>3. ~Begin(c)
      BY <2>1 DEF InOperation, Begin
    <3> QED
      BY <2>1, <3>1, <3>2, <3>3 DEF Next
  <2> QED
    BY <2>1 DEF StepCounts
<1> QED
    BY <1>1, <1>2, TInvInit, TInvStep, PTL DEF Spec, EveryStepCounts
=============================================================================
