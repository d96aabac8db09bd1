------------------------- MODULE OrderCreationProofs -------------------------
(***************************************************************************)
(* Proofs about OrderCreation, for every market, every set of goroutines   *)
(* and every request.                                                      *)
(*                                                                         *)
(* First the builder cache by itself: a cached builder is never replaced,  *)
(* calls for one contract get one builder, and the double-checked cache    *)
(* implements the atomic memo table.  Order creation uses it as it is      *)
(* described there, so this holds of it.  Then: the terms of an order come *)
(* from the market, a protected buy is not signed without a fee info, and  *)
(* an order that finds everything cached asks for nothing.  Last: the      *)
(* mutex never has everyone waiting, and every call is short.              *)
(***************************************************************************)
EXTENDS OrderCreation, TLAPS

-----------------------------------------------------------------------------
(* The builder cache by itself.                                            *)

Critical == {"recheck", "store", "unlock"}
Answered == {"leave", "unlock", "done"}

\* The write lock excludes; what a storing caller saw still holds.
Exclusive == \A c \in Callers : pc[c] \in Critical => writer = c
StillEmpty ==
    \A c \in Callers : pc[c] = "store" => cache[Lower[addr[c]]] = NoBuilder

\* A call has an address, a call that made a builder made the right one.
Asked == \A c \in Callers : pc[c] # "idle" <=> addr[c] \in Addresses
MadeRight ==
    \A c \in Callers :
        pc[c] \in {"lock", "recheck", "store"} =>
            mine[c] \in Builders /\ mine[c].contract = Lower[addr[c]]

\* A call has an answer exactly from the step that takes effect on, and it is
\* the cached builder.
AnswerSet == \A c \in Callers : pc[c] \in Answered <=> got[c] # NoBuilder
AnswerCached ==
    \A c \in Callers :
        got[c] \in Builders => got[c] = cache[Lower[addr[c]]]

CInv ==
    /\ TypeOK
    /\ Exclusive /\ StillEmpty
    /\ Asked /\ MadeRight
    /\ AnswerSet /\ AnswerCached

USE DEF Labels, Key, Unread, Domain

LEMMA CInit == Init => CInv
<1> SUFFICES ASSUME Init PROVE CInv
    OBVIOUS
<1> USE BuilderAssumption, NotBuilders DEF Init
<1>1. TypeOK
    BY DEF TypeOK
<1>2. Exclusive /\ StillEmpty
    BY DEF Exclusive, StillEmpty, Critical
<1>3. Asked /\ MadeRight
    BY DEF Asked, MadeRight
<1>4. AnswerSet /\ AnswerCached
    BY DEF AnswerSet, AnswerCached, Answered
<1> QED
    BY <1>1, <1>2, <1>3, <1>4 DEF CInv

LEMMA TypeStep ==
    ASSUME TypeOK, Asked, MadeRight,
           NEW c \in Callers, Call(c) \/ Step(c)
    PROVE  TypeOK'
<1> USE BuilderAssumption, NotBuilders DEF TypeOK, Goto
<1>1. CASE Call(c)
    BY <1>1 DEF Call
<1>2. CASE RLock(c)
    BY <1>2 DEF RLock
<1>3. CASE Hit(c)
    BY <1>3 DEF Hit, Asked
<1>4. CASE LeaveHit(c)
    BY <1>4 DEF LeaveHit
<1>5. CASE Miss(c)
    BY <1>5 DEF Miss
<1>6. CASE Make(c)
    <2>1. Lower[addr[c]] \in Contracts
        BY <1>6 DEF Make, Asked, Contracts
    <2>2. [contract |-> Lower[addr[c]], by |-> c] \in Builders
        BY <2>1 DEF Builders
    <2> QED
        BY <1>6, <2>2 DEF Make
<1>7. CASE MakeFails(c)
    BY <1>7 DEF MakeFails
<1>8. CASE Lock(c)
    BY <1>8 DEF Lock
<1>9. CASE Discard(c)
    BY <1>9 DEF Discard, Existing, Asked
<1>10. CASE StillAbsent(c)
    BY <1>10 DEF StillAbsent
<1>11. CASE Store(c)
    BY <1>11 DEF Store, Asked, MadeRight
<1>12. CASE Unlock(c)
    BY <1>12 DEF Unlock
<1>13. CASE Return(c)
    BY <1>13 DEF Return
<1> QED
    BY <1>1, <1>2, <1>3, <1>4, <1>5, <1>6, <1>7, <1>8, <1>9, <1>10, <1>11,
       <1>12, <1>13 DEF Step

\* A step of c changes only what is c's.
Mine(c) ==
    \A d \in Callers : d # c =>
        /\ pc'[d] = pc[d] /\ addr'[d] = addr[d]
        /\ mine'[d] = mine[d] /\ got'[d] = got[d]

LEMMA Ownership ==
    ASSUME TypeOK, NEW c \in Callers, Call(c) \/ Step(c)
    PROVE  Mine(c)
BY DEF TypeOK, Mine, Call, Step, RLock, Hit, LeaveHit, Miss, Make, MakeFails,
       Lock, Discard, StillAbsent, Store, Unlock, Return, Goto

\* The cache changes by a store only, at an address that was empty.
LEMMA CacheStep ==
    ASSUME CInv, NEW c \in Callers, Call(c) \/ Step(c)
    PROVE  \/ cache' = cache /\ ~Store(c)
           \/ /\ Store(c)
              /\ cache[Lower[addr[c]]] = NoBuilder
              /\ cache' = [cache EXCEPT ![Lower[addr[c]]] = mine[c]]
BY DEF CInv, StillEmpty, Call, Step, RLock, Hit, LeaveHit, Miss, Make,
       MakeFails, Lock, Discard, StillAbsent, Store, Unlock, Return, Goto

LEMMA ExclusiveStep ==
    ASSUME CInv, NEW c \in Callers, Call(c) \/ Step(c)
    PROVE  Exclusive'
<1> USE BuilderAssumption DEF Exclusive, Critical, TypeOK
<1>1. Mine(c)
    BY Ownership DEF CInv
<1>2. CASE Lock(c)
    BY <1>1, <1>2 DEF Lock, Mine, Goto, MayWrite, CInv
<1>3. CASE Unlock(c)
    BY <1>1, <1>3 DEF Unlock, Mine, Goto, CInv
<1>4. CASE ~Lock(c) /\ ~Unlock(c)
    <2>1. writer' = writer
        BY <1>4 DEF Call, Step, RLock, Hit, LeaveHit, Miss, Make, MakeFails,
             Discard, StillAbsent, Store, Return
    <2>2. pc'[c] \in Critical => pc[c] \in Critical
        BY <1>4 DEF Call, Step, RLock, Hit, LeaveHit, Miss, Make, MakeFails,
             Discard, StillAbsent, Store, Return, Goto, CInv
    <2> QED
        BY <1>1, <2>1, <2>2 DEF Mine, CInv
<1> QED
    BY <1>2, <1>3, <1>4

LEMMA StillEmptyStep ==
    ASSUME CInv, NEW c \in Callers, Call(c) \/ Step(c)
    PROVE  StillEmpty'
<1>1. Mine(c)
    BY Ownership DEF CInv
<1>2. SUFFICES ASSUME NEW d \in Callers, pc'[d] = "store"
               PROVE  cache'[Lower[addr'[d]]] = NoBuilder
    BY DEF StillEmpty
<1>3. CASE d = c
    <2>1. StillAbsent(c)
        BY <1>2, <1>3 DEF CInv, TypeOK, Call, Step, RLock, Hit, LeaveHit, Miss,
             Make, MakeFails, Lock, Discard, StillAbsent, Store, Unlock, Return,
             Goto
    <2> QED
        BY <1>3, <2>1 DEF StillAbsent, Existing
<1>4. CASE d # c
    <2>1. pc[d] = "store" /\ addr'[d] = addr[d]
        BY <1>1, <1>2, <1>4 DEF Mine
    <2>2. ~Store(c)
        BY <1>4, <2>1 DEF CInv, Exclusive, Critical, Store
    <2>3. cache' = cache
        BY <2>2, CacheStep
    <2> QED
        BY <2>1, <2>3 DEF CInv, StillEmpty
<1> QED
    BY <1>3, <1>4

LEMMA CallStep ==
    ASSUME CInv, NEW c \in Callers, Call(c) \/ Step(c)
    PROVE  Asked' /\ MadeRight'
<1> USE BuilderAssumption, NotBuilders
<1>1. Mine(c)
    BY Ownership DEF CInv
<1>2. pc'[c] # "idle" <=> addr'[c] \in Addresses
    BY DEF CInv, TypeOK, Asked, Call, Step, RLock, Hit, LeaveHit, Miss, Make,
           MakeFails, Lock, Discard, StillAbsent, Store, Unlock, Return, Goto
<1>3. pc'[c] \in {"lock", "recheck", "store"} =>
          mine'[c] \in Builders /\ mine'[c].contract = Lower[addr'[c]]
    <2>1. CASE Make(c)
        <3>1. Lower[addr[c]] \in Contracts
            BY <2>1 DEF Make, CInv, Asked, Contracts
        <3>2. [contract |-> Lower[addr[c]], by |-> c] \in Builders
            BY <3>1 DEF Builders
        <3> QED
            BY <2>1, <3>2 DEF Make, CInv, TypeOK
    <2>2. CASE ~Make(c)
        BY <2>2 DEF CInv, TypeOK, MadeRight, Call, Step, RLock, Hit, LeaveHit,
             Miss, MakeFails, Lock, Discard, StillAbsent, Store, Unlock, Return,
             Goto
    <2> QED
        BY <2>1, <2>2
<1> QED
    BY <1>1, <1>2, <1>3 DEF Mine, Asked, MadeRight, CInv

LEMMA AnswerStep ==
    ASSUME CInv, NEW c \in Callers, Call(c) \/ Step(c)
    PROVE  AnswerSet' /\ AnswerCached'
<1> USE BuilderAssumption, NotBuilders
<1>1. Mine(c)
    BY Ownership DEF CInv
<1>2. pc'[c] \in Answered <=> got'[c] # NoBuilder
    BY DEF CInv, TypeOK, AnswerSet, Answered, MadeRight, Asked, Existing, Call,
           Step, RLock, Hit, LeaveHit, Miss, Make, MakeFails, Lock, Discard,
           StillAbsent, Store, Unlock, Return, Goto
<1>3. got'[c] \in Builders => got'[c] = cache'[Lower[addr'[c]]]
    BY DEF CInv, TypeOK, AnswerSet, Answered, AnswerCached, Existing, Asked,
           Call, Step, RLock, Hit, LeaveHit, Miss, Make, MakeFails, Lock,
           Discard, StillAbsent, Store, Unlock, Return, Goto
<1>4. ASSUME NEW d \in Callers, d # c, got'[d] \in Builders
      PROVE  got'[d] = cache'[Lower[addr'[d]]]
    <2>1. got[d] = cache[Lower[addr[d]]] /\ got[d] \in Builders
        BY <1>1, <1>4 DEF Mine, CInv, AnswerCached
    <2>2. pc[d] \in Answered
        BY <2>1 DEF CInv, AnswerSet
    <2>3. Lower[addr[d]] \in Addresses
        BY <2>2 DEF CInv, Asked, Answered
    <2>4. cache'[Lower[addr[d]]] = cache[Lower[addr[d]]]
        BY <2>1, <2>3, CacheStep DEF CInv, TypeOK
    <2> QED
        BY <1>1, <1>4, <2>1, <2>4 DEF Mine
<1> QED
    BY <1>1, <1>2, <1>3, <1>4 DEF Mine, AnswerSet, AnswerCached, CInv

LEMMA CStep == CInv /\ [Next]_vars => CInv'
<1> SUFFICES ASSUME CInv, [Next]_vars PROVE CInv'
    OBVIOUS
<1>1. CASE UNCHANGED vars
    BY <1>1 DEF vars, CInv, TypeOK, Exclusive, StillEmpty, Asked, MadeRight,
         AnswerSet, AnswerCached
<1>2. ASSUME NEW c \in Callers, Call(c) \/ Step(c)
      PROVE  CInv'
    BY <1>2, TypeStep, ExclusiveStep, StillEmptyStep, CallStep, AnswerStep
       DEF CInv
<1> QED
    BY <1>1, <1>2 DEF Next

\* Type correctness of the cache and its lock, for every set of goroutines and
\* every spelling of the addresses.
THEOREM TypeCorrect == Spec => []TypeOK
<1>1. CInv => TypeOK
    BY DEF CInv
<1> QED
    BY <1>1, CInit, CStep, PTL DEF Spec

\* Calls for one contract get one builder.
THEOREM OneBuilder == Spec => []SameBuilder
<1>1. CInv => SameBuilder
    BY DEF CInv, SameBuilder, AnswerCached
<1> QED
    BY <1>1, CInit, CStep, PTL DEF Spec

\* A cached builder is never overwritten: the second check is under the lock
\* that the store is under.
THEOREM Kept == Spec => NeverReplaced
<1>1. CInv /\ [Next]_vars =>
        [\A a \in Addresses : cache[a] # NoBuilder => cache'[a] = cache[a]]_vars
    <2> SUFFICES ASSUME CInv, Next, NEW a \in Addresses, cache[a] # NoBuilder
                 PROVE  cache'[a] = cache[a]
        OBVIOUS
    <2>1. PICK c \in Callers : Call(c) \/ Step(c)
        BY DEF Next
    <2> QED
        BY <2>1, CacheStep DEF CInv, TypeOK
<1> QED
    BY <1>1, CInit, CStep, PTL DEF Spec, NeverReplaced

-----------------------------------------------------------------------------
(* The refinement.  asks is the abstract request, kept the abstract table.  *)

asks == [c \in Callers |->
           IF addr[c] = NoAddress THEN NoAddress ELSE Lower[addr[c]]]
kept == [k \in Contracts |-> cache[k]]
rightFor == [k \in Contracts |-> {b \in Builders : b.contract = k}]

USE DEF Memo!Init, Memo!Next, Memo!vars

LEMMA MemoInit == Init => Memo!Init
BY BuilderAssumption DEF Init, Contracts

\* A step that sets no answer and no request is a stutter of the memo table.
LEMMA MemoStutter ==
    ASSUME cache' = cache, addr' = addr, got' = got
    PROVE  UNCHANGED Memo!vars
OBVIOUS

LEMMA MemoStep ==
    ASSUME CInv, NEW c \in Callers, Call(c) \/ Step(c)
    PROVE  [Memo!Next]_(Memo!vars)
<1> USE BuilderAssumption, NotBuilders
<1>1. CASE Call(c)
    <2>1. PICK a \in Addresses :
             addr' = [addr EXCEPT ![c] = a] /\ UNCHANGED <<cache, got>>
        BY <1>1 DEF Call
    <2>2. Lower[a] \in Contracts
        BY DEF Contracts
    <2>3. asks[c] = NoAddress
        BY <1>1 DEF CInv, Asked, Call, TypeOK, asks
    <2>4. asks' = [asks EXCEPT ![c] = Lower[a]]
        BY <2>1 DEF asks, CInv, TypeOK
    <2> QED
        BY <2>1, <2>2, <2>3, <2>4 DEF Memo!Call, asks
<1>2. CASE Hit(c) \/ Discard(c)
    <2>1. /\ pc[c] \in {"lookup", "recheck"}
          /\ cache[Lower[addr[c]]] # NoBuilder
          /\ got' = [got EXCEPT ![c] = cache[Lower[addr[c]]]]
          /\ UNCHANGED <<cache, addr>>
        BY <1>2 DEF Hit, Discard, Existing
    <2>2. addr[c] \in Addresses /\ got[c] = NoBuilder
        BY <2>1 DEF CInv, TypeOK, Asked, AnswerSet, Answered
    <2>3. Lower[addr[c]] \in Contracts /\ Lower[addr[c]] # NoAddress
        BY <2>2 DEF Contracts
    <2>4. asks[c] = Lower[addr[c]] /\ kept[asks[c]] = cache[Lower[addr[c]]]
        BY <2>2, <2>3 DEF asks, kept
    <2>5. Memo!Recall(c)
        BY <2>1, <2>2, <2>3, <2>4 DEF Memo!Recall, asks, kept
    <2> QED
        BY <2>5
<1>3. CASE Store(c)
    <2> DEFINE k == Lower[addr[c]]
    <2>1. /\ cache[k] = NoBuilder
          /\ cache' = [cache EXCEPT ![k] = mine[c]]
          /\ got' = [got EXCEPT ![c] = mine[c]]
          /\ UNCHANGED addr
        BY <1>3 DEF Store, CInv, StillEmpty
    <2>2. addr[c] \in Addresses /\ got[c] = NoBuilder
        BY <1>3 DEF CInv, TypeOK, Asked, AnswerSet, Answered, Store
    <2>3. k \in Contracts /\ k # NoAddress
        BY <2>2 DEF Contracts
    <2>4. mine[c] \in rightFor[k]
        BY <1>3, <2>3 DEF rightFor, CInv, MadeRight, Store
    <2>5. asks[c] = k /\ kept[k] = NoBuilder
        BY <2>1, <2>2, <2>3 DEF asks, kept
    <2>6. kept' = [kept EXCEPT ![k] = mine[c]]
        <3>1. Contracts \subseteq Addresses
            BY DEF Contracts
        <3>2. DOMAIN cache = Addresses
            BY DEF CInv, TypeOK
        <3>3. \A x \in Contracts :
                  cache'[x] = IF x = k THEN mine[c] ELSE cache[x]
            BY <2>1, <3>1, <3>2
        <3> QED
            BY <2>3, <3>3 DEF kept
    <2>7. Memo!Fill(c)
        BY <2>1, <2>2, <2>3, <2>4, <2>5, <2>6
           DEF Memo!Fill, asks, kept, rightFor
    <2> QED
        BY <2>7
<1>4. CASE MakeFails(c)
    <2>1. got' = [got EXCEPT ![c] = Failure] /\ UNCHANGED <<cache, addr>>
        BY <1>4 DEF MakeFails
    <2>2. addr[c] \in Addresses /\ got[c] = NoBuilder
        BY <1>4 DEF CInv, TypeOK, Asked, AnswerSet, Answered, MakeFails
    <2>3. asks[c] # NoAddress
        BY <2>2 DEF asks
    <2>4. Memo!Fail(c)
        BY <2>1, <2>2, <2>3 DEF Memo!Fail, asks
    <2> QED
        BY <2>4
<1>5. CASE Return(c)
    <2>1. /\ addr' = [addr EXCEPT ![c] = NoAddress]
          /\ got' = [got EXCEPT ![c] = NoBuilder]
          /\ UNCHANGED cache
        BY <1>5 DEF Return
    <2>2. got[c] # NoBuilder
        BY <1>5 DEF Return, CInv, AnswerSet, Answered
    <2>3. asks' = [asks EXCEPT ![c] = NoAddress]
        BY <2>1 DEF asks, CInv, TypeOK
    <2>4. Memo!Return(c)
        BY <2>1, <2>2, <2>3 DEF Memo!Return, asks
    <2> QED
        BY <2>4
<1>6. CASE RLock(c) \/ LeaveHit(c) \/ Miss(c) \/ Make(c) \/ Lock(c)
           \/ StillAbsent(c) \/ Unlock(c)
    <2>1. UNCHANGED <<cache, addr, got>>
        BY <1>6 DEF RLock, LeaveHit, Miss, Make, Lock, StillAbsent, Unlock
    <2> QED
        BY <2>1, MemoStutter
<1> QED
    BY <1>1, <1>2, <1>3, <1>4, <1>5, <1>6 DEF Step

\* The double-checked cache implements the atomic memo table.
THEOREM Implements == Spec => MemoSpec
<1>1. CInv /\ [Next]_vars => [Memo!Next]_(Memo!vars)
    <2> SUFFICES ASSUME CInv, [Next]_vars PROVE [Memo!Next]_(Memo!vars)
        OBVIOUS
    <2>1. CASE UNCHANGED vars
        BY <2>1, MemoStutter DEF vars
    <2>2. CASE Next
        BY <2>2, MemoStep DEF Next
    <2> QED
        BY <2>1, <2>2
<1> QED
    BY <1>1, MemoInit, CInit, CStep, PTL DEF Spec, MemoSpec, Memo!Spec

HIDE DEF Labels, Key, Unread, Domain

-----------------------------------------------------------------------------
(* The builder cache in use.                                               *)

LEMMA InitIsCache == OrderInit => Init
<1> QED
    BY DEF OrderInit

LEMMA OneCacheStep ==
    ASSUME NEW c \in Callers,
           CreateOrder(c) \/ CreateOrderForRFQ(c) \/ Query(c) \/ OrderStep(c)
    PROVE  UNCHANGED vars \/ Call(c) \/ Step(c)
<1>1. CASE CreateOrder(c) \/ CreateOrderForRFQ(c) \/ Query(c)
    BY <1>1 DEF CreateOrder, CreateOrderForRFQ, Query, Start
<1>2. CASE OrderStep(c)
    BY <1>2 DEF OrderStep, ResolveLocally, RefuseLocally, ResolveMiss, ReadTerms,
        RefuseRead, EnsureHit, EnsureMiss, MarketByToken, ClobMarketInfo,
        MarketFails, ProtectionFails, TellExponent, TickHit, TickMiss,
        TickAnswer, NegHit, NegMiss, NegAnswer, RateHit, RateMiss, RateAnswer,
        LookupFails, Invalid, Valid, SignForRFQ, DeliverForRFQ, AdjustAmount,
        AdjustFails, GetBuilder, BuilderStep, Sign, EndOrder, SignFails,
        Deliver, Fail, Step, Advance
<1> QED
    BY <1>1, <1>2

LEMMA StepIsCache == [OrderNext]_ovars => [Next]_vars
<1> SUFFICES ASSUME [OrderNext]_ovars PROVE [Next]_vars
    OBVIOUS
<1>1. CASE UNCHANGED ovars
    BY <1>1 DEF ovars
<1>2. CASE MarketChanges
    BY <1>2 DEF MarketChanges
<1>3. CASE OrderNext /\ ~MarketChanges
    BY <1>3, OneCacheStep DEF OrderNext, Next
<1> QED
    BY <1>1, <1>2, <1>3

\* Orders for one exchange contract, whoever creates them, are signed by the
\* same builder.
THEOREM OrdersShareBuilder == OrderSpec => []SameBuilder
<1>1. OrderSpec => Spec
    BY InitIsCache, StepIsCache, PTL DEF OrderSpec, Spec
<1> QED
    BY <1>1, OneBuilder, PTL

\* Order creation implements the atomic memo table of builders.
THEOREM OrdersUseMemo == OrderSpec => MemoSpec
<1>1. OrderSpec => Spec
    BY InitIsCache, StepIsCache, PTL DEF OrderSpec, Spec
<1> QED
    BY <1>1, Implements, PTL

-----------------------------------------------------------------------------
(* Types.                                                                  *)

\* A call that is under way asks for something; one for an RFQ trade, and a
\* query, for nothing but the token.
Asks ==
    \A c \in Callers : at[c] # "idle" =>
        /\ req[c] \in Requests
        /\ use[c] \in {"rfq", "query"} => Plain(req[c])

OInv == CInv /\ OrderTypeOK /\ Asks

\* The actions of a caller, in groups.
Begin(c) == CreateOrder(c) \/ CreateOrderForRFQ(c) \/ Query(c)
Resolve(c) == \/ ResolveLocally(c) \/ ResolveMiss(c) \/ ReadTerms(c)
Ensure(c) == \/ EnsureHit(c) \/ EnsureMiss(c) \/ MarketByToken(c)
             \/ ClobMarketInfo(c) \/ MarketFails(c)
LookUp(c) == \/ TickHit(c) \/ TickMiss(c) \/ TickAnswer(c)
             \/ NegHit(c) \/ NegMiss(c) \/ NegAnswer(c)
             \/ RateHit(c) \/ RateMiss(c) \/ RateAnswer(c)
Complete(c) == \/ Valid(c) \/ AdjustAmount(c) \/ GetBuilder(c)
               \/ BuilderStep(c) \/ Sign(c) \/ SignForRFQ(c)
End(c) == \/ \E l \in {"resolve", "read", "byToken", "market", "exponent",
                        "tickAsk", "negAsk", "rateAsk", "validate", "fee",
                        "signed"} : Fail(c, l)
          \/ SignFails(c) \/ Deliver(c)

LEMMA Groups ==
    ASSUME NEW c \in Callers, OrderStep(c)
    PROVE  Resolve(c) \/ Ensure(c) \/ LookUp(c) \/ Complete(c) \/ End(c)
<1> QED
    BY DEF OrderStep, Advance, Resolve, Ensure, LookUp, Complete, End,
        RefuseLocally, RefuseRead, ProtectionFails, TellExponent, LookupFails, Invalid,
        AdjustFails, DeliverForRFQ

\* A step of the program, or one of the market.
LEMMA OwnOrMarket ==
    ASSUME OrderNext
    PROVE  MarketChanges \/ \E c \in Callers : Begin(c) \/ OrderStep(c)
BY DEF OrderNext, Begin

\* The market moves on alone, and what it has been is not forgotten.
LEMMA HadStep ==
    /\ UNCHANGED ovars \/ MarketChanges
          => /\ UNCHANGED <<vars, market, at, call, history>>
             /\ had \subseteq had' /\ had' \subseteq had \cup Markets
    /\ MarketChanges => had' # had
    /\ \A c \in Callers : Begin(c) \/ OrderStep(c) => had' = had
BY DEF ovars, MarketChanges, Begin, CreateOrder, CreateOrderForRFQ, Query, Start,
       OrderStep

\* The parts of the type invariant.
CachesTyped ==
    /\ tickSizes \in [Tokens -> Ticks(Markets) \cup {EmptyTick, Unset}]
    /\ negRisk \in [Tokens -> BOOLEAN \cup {Unset}]
    /\ feeInfos \subseteq Tokens /\ conditions \subseteq Tokens
    /\ feeRates \in [Tokens -> Rates(Markets) \cup {NoFee, Unset}]
CallsTyped ==
    /\ at \in [Callers -> {"idle", "resolve", "ensure", "byToken", "market",
                "read", "exponent", "tick", "tickAsk", "neg", "negAsk", "rate",
                "rateAsk", "validate", "fee", "builder", "sign", "signed"}]
    /\ use \in [Callers -> {"order", "balance", "query", "rfq"}]
    /\ req \in [Callers -> Requests \cup {NoRequest}]
TermsTyped ==
    terms \in [Callers -> [tick : Nat \cup {Unset}, neg : BOOLEAN \cup {Unset},
                           rate : Rates(Markets) \cup {NoFee, Unset}]]
FlagsTyped ==
    /\ warm \in [Callers -> BOOLEAN]
    /\ asked \in [Callers -> BOOLEAN]
    /\ omitted \in BOOLEAN
OrdersTyped == orders \in 0..MaxOrders
HadTyped == had \subseteq Markets

LEMMA TypeParts ==
    OrderTypeOK <=> TypeOK /\ CachesTyped /\ CallsTyped /\ TermsTyped
                    /\ FlagsTyped /\ OrdersTyped /\ HadTyped
<1> QED
    BY DEF OrderTypeOK, CachesTyped, CallsTyped, TermsTyped, FlagsTyped, OrdersTyped,
        HadTyped

\* The market's terms are numbers.
LEMMA MarketNumbers == /\ Ticks(Markets) \subseteq Nat \ {EmptyTick}
                       /\ Rates(Markets) \subseteq Nat
BY MarketAssumption DEF Ticks, Rates

\* What it has had, it keeps.
LEMMA HadGrows ==
    ASSUME had \subseteq had'
    PROVE  Ticks(had) \subseteq Ticks(had') /\ Rates(had) \subseteq Rates(had')
BY DEF Ticks, Rates

\* What it has been, it can be.
LEMMA HadCan ==
    ASSUME HadTyped
    PROVE  Ticks(had) \subseteq Ticks(Markets) /\ Rates(had) \subseteq Rates(Markets)
BY DEF HadTyped, Ticks, Rates

LEMMA OrderInitInv == OrderInit => OInv
<1> SUFFICES ASSUME OrderInit PROVE OInv
    OBVIOUS
<1> USE MarketAssumption DEF OrderInit
<1>1. CInv
    BY CInit
<1>2. CachesTyped
    BY DEF CachesTyped
<1>3. CallsTyped
    BY DEF CallsTyped
<1>4. TermsTyped
    BY DEF TermsTyped, NoTerms
<1>5. FlagsTyped
    BY DEF FlagsTyped
<1>6. OrdersTyped
    BY DEF OrdersTyped
<1>7. Asks
    BY DEF Asks
<1>8. HadTyped
    BY DEF HadTyped
<1> QED
    BY <1>1, <1>2, <1>3, <1>4, <1>5, <1>6, <1>7, <1>8, TypeParts DEF OInv, CInv

LEMMA CacheStays ==
    ASSUME CInv, [OrderNext]_ovars
    PROVE  CInv'
BY StepIsCache, CStep

USE DEF Move, Asking, Omitting, EmptyTick, NoFee, NoTerms, market, call, history

\* Only these actions write to the market caches.
LEMMA MarketStep ==
    ASSUME NEW c \in Callers, Begin(c) \/ OrderStep(c)
    PROVE  UNCHANGED market \/ MarketByToken(c) \/ ClobMarketInfo(c)
               \/ TickAnswer(c) \/ NegAnswer(c) \/ RateAnswer(c)
BY DEF Begin, CreateOrder, CreateOrderForRFQ, Query, Start, OrderStep, Advance,
       ResolveLocally, RefuseLocally, ResolveMiss, ReadTerms, RefuseRead,
       EnsureHit, EnsureMiss, MarketFails, ProtectionFails, TellExponent,
       TickHit, TickMiss, NegHit, NegMiss, RateHit, RateMiss, LookupFails,
       Invalid, Valid, SignForRFQ, DeliverForRFQ, AdjustAmount, AdjustFails,
       GetBuilder, BuilderStep, Sign, EndOrder, SignFails, Deliver, Fail

LEMMA CachesStep ==
    ASSUME OInv, NEW c \in Callers, Begin(c) \/ OrderStep(c)
    PROVE  CachesTyped'
<1> USE MarketAssumption DEF CachesTyped
<1>1. CachesTyped
    BY TypeParts DEF OInv
<1>a. Ticks(had) \subseteq Ticks(Markets) /\ Rates(had) \subseteq Rates(Markets)
    BY TypeParts, HadCan DEF OInv
<1>2. ASSUME at[c] # "idle" PROVE req[c].token \in Tokens
    BY <1>2 DEF OInv, Asks
<1>3. CASE UNCHANGED market
    BY <1>1, <1>3
<1>4. CASE MarketByToken(c)
    BY <1>1, <1>2, <1>4 DEF MarketByToken
<1>5. CASE ClobMarketInfo(c)
    <2>1. PICK m \in had :
             tickSizes' \in [Tokens -> {m.tick} \cup Ticks(Markets)
                                         \cup {EmptyTick, Unset}]
        BY <1>1, <1>5 DEF ClobMarketInfo
    <2>2. m.tick \in Ticks(Markets)
        BY <1>a DEF Ticks
    <2>3. /\ negRisk' \in [Tokens -> BOOLEAN \cup {Unset}]
          /\ feeInfos' \subseteq Tokens /\ conditions' \subseteq Tokens
          /\ feeRates' = feeRates
        BY <1>1, <1>5 DEF ClobMarketInfo
    <2> QED
        BY <1>1, <2>1, <2>2, <2>3
<1>6. CASE TickAnswer(c)
    BY <1>1, <1>2, <1>a, <1>6 DEF TickAnswer
<1>7. CASE NegAnswer(c)
    BY <1>1, <1>2, <1>7 DEF NegAnswer
<1>8. CASE RateAnswer(c)
    <2>1. PICK rate \in Rates(had) \cup {NoFee} :
             feeRates' = [feeRates EXCEPT ![req[c].token] = rate]
        BY <1>8 DEF RateAnswer, Rates
    <2> QED
        BY <1>1, <1>2, <1>a, <1>8, <2>1 DEF RateAnswer
<1> QED
    BY <1>3, <1>4, <1>5, <1>6, <1>7, <1>8, MarketStep

LEMMA CallsStep ==
    ASSUME OInv, NEW c \in Callers, Begin(c) \/ OrderStep(c)
    PROVE  CallsTyped'
<1> USE DEF CallsTyped
<1>1. CallsTyped
    BY TypeParts DEF OInv
<1>2. CASE Begin(c)
    BY <1>1, <1>2 DEF Begin, CreateOrder, CreateOrderForRFQ, Query, Start
<1>3. CASE Resolve(c)
    BY <1>1, <1>3 DEF Resolve, ResolveLocally, ResolveMiss, ReadTerms
<1>4. CASE Ensure(c)
    BY <1>1, <1>4 DEF Ensure, EnsureHit, EnsureMiss, MarketByToken,
        ClobMarketInfo, MarketFails, Ensured
<1>5. CASE LookUp(c)
    BY <1>1, <1>5 DEF LookUp, TickHit, TickMiss, TickAnswer, TickKnown, NegHit,
        NegMiss, NegAnswer, NegKnown, RateHit, RateMiss, RateAnswer, RateKnown,
        Finish
<1>6. CASE Complete(c)
    BY <1>1, <1>6 DEF Complete, Valid, AdjustAmount, GetBuilder, BuilderStep,
        Sign, SignForRFQ
<1>7. CASE End(c)
    BY <1>1, <1>7 DEF End, Fail, SignFails, Deliver, EndOrder, Finish
<1> QED
    BY <1>2, <1>3, <1>4, <1>5, <1>6, <1>7, Groups

LEMMA TermsStep ==
    ASSUME OInv, NEW c \in Callers, Begin(c) \/ OrderStep(c)
    PROVE  TermsTyped'
<1> USE MarketAssumption, MarketNumbers DEF TermsTyped
<1>1. TermsTyped /\ CachesTyped
    BY TypeParts DEF OInv
<1>a. Ticks(had) \subseteq Ticks(Markets) /\ Rates(had) \subseteq Rates(Markets)
    BY TypeParts, HadCan DEF OInv
<1>2. ASSUME at[c] # "idle" PROVE req[c] \in Requests
    BY <1>2 DEF OInv, Asks
<1>3. CASE ResolveLocally(c) \/ ReadTerms(c)
    <2>1. req[c] \in Requests /\ terms' = [terms EXCEPT ![c] = Terms(req[c])]
        BY <1>2, <1>3 DEF ResolveLocally, ReadTerms
    <2>2. Terms(req[c]).tick \in Nat \cup {Unset}
        BY <1>1, <2>1 DEF Terms, TickOf, CachesTyped
    <2>3. NegOf(req[c].token) \in BOOLEAN
        BY <1>1, <2>1 DEF NegOf, CachesTyped
    <2>4. Terms(req[c]).neg \in BOOLEAN \cup {Unset}
        BY <2>1, <2>3 DEF Terms
    <2>5. Terms(req[c]) \in [tick : Nat \cup {Unset}, neg : BOOLEAN \cup {Unset},
                             rate : Rates(Markets) \cup {NoFee, Unset}]
        BY <2>2, <2>4 DEF Terms
    <2> QED
        BY <1>1, <2>1, <2>5
<1>4. CASE TickHit(c) \/ TickAnswer(c)
    BY <1>1, <1>2, <1>a, <1>4 DEF TickHit, TickAnswer, TickKnown, Finish, CachesTyped
<1>5. CASE NegHit(c) \/ NegAnswer(c)
    BY <1>1, <1>2, <1>5 DEF NegHit, NegAnswer, NegKnown, Finish, CachesTyped
<1>6. CASE RateHit(c) \/ RateAnswer(c)
    <2>1. PICK rate \in Rates(Markets) \cup {NoFee, Unset} :
             at[c] # "idle" /\ RateKnown(c, rate)
        <3>1. CASE RateHit(c)
            BY <1>1, <1>2, <3>1 DEF RateHit, CachesTyped
        <3>2. CASE RateAnswer(c)
            BY <1>a, <3>2 DEF RateAnswer, Rates
        <3> QED
            BY <1>6, <3>1, <3>2
    <2> QED
        BY <1>1, <2>1 DEF RateKnown, Finish
<1>7. CASE End(c)
    BY <1>1, <1>7 DEF End, Fail, SignFails, Deliver, EndOrder, Finish
<1>8. CASE UNCHANGED terms
    BY <1>1, <1>8
<1>9. Begin(c) \/ Ensure(c) \/ Complete(c) \/ ResolveMiss(c) \/ TickMiss(c)
        \/ NegMiss(c) \/ RateMiss(c) => UNCHANGED terms
    BY DEF Begin, CreateOrder, CreateOrderForRFQ, Query, Start, Ensure, EnsureHit,
        EnsureMiss, MarketByToken, ClobMarketInfo, MarketFails, Complete, Valid,
        AdjustAmount, GetBuilder, BuilderStep, Sign, SignForRFQ, ResolveMiss,
        TickMiss, NegMiss, RateMiss
<1> QED
    BY <1>3, <1>4, <1>5, <1>6, <1>7, <1>8, <1>9, Groups DEF Resolve, LookUp

LEMMA FlagsStep ==
    ASSUME OInv, NEW c \in Callers, Begin(c) \/ OrderStep(c)
    PROVE  FlagsTyped'
<1> USE DEF FlagsTyped
<1>1. FlagsTyped
    BY TypeParts DEF OInv
<1>2. /\ warm' = warm \/ \E b \in BOOLEAN : warm' = [warm EXCEPT ![c] = b]
      /\ asked' = asked \/ \E b \in BOOLEAN : asked' = [asked EXCEPT ![c] = b]
      /\ omitted' \in BOOLEAN
    <2>1. CASE Begin(c)
        BY <1>1, <2>1 DEF Begin, CreateOrder, CreateOrderForRFQ, Query, Start
    <2>2. CASE Resolve(c)
        BY <1>1, <2>2 DEF Resolve, ResolveLocally, ResolveMiss, ReadTerms
    <2>3. CASE Ensure(c)
        BY <1>1, <2>3 DEF Ensure, EnsureHit, EnsureMiss, MarketByToken,
            ClobMarketInfo, MarketFails
    <2>4. CASE LookUp(c)
        BY <1>1, <2>4 DEF LookUp, TickHit, TickMiss, TickAnswer, TickKnown,
            NegHit, NegMiss, NegAnswer, NegKnown, RateHit, RateMiss, RateAnswer,
            RateKnown, Finish
    <2>5. CASE Complete(c)
        BY <1>1, <2>5 DEF Complete, Valid, AdjustAmount, GetBuilder, BuilderStep,
            Sign, SignForRFQ
    <2>6. CASE End(c)
        BY <1>1, <2>6 DEF End, Fail, SignFails, Deliver, EndOrder, Finish
    <2> QED
        BY <2>1, <2>2, <2>3, <2>4, <2>5, <2>6, Groups
<1> QED
    BY <1>1, <1>2

LEMMA OrdersStep ==
    ASSUME OInv, NEW c \in Callers, Begin(c) \/ OrderStep(c)
    PROVE  OrdersTyped'
<1> USE MarketAssumption DEF OrdersTyped
<1>1. OrdersTyped
    BY TypeParts DEF OInv
<1>2. CASE Begin(c)
    BY <1>1, <1>2 DEF Begin, CreateOrder, CreateOrderForRFQ, Query, Start
<1>3. CASE OrderStep(c)
    <2>1. UNCHANGED orders
        BY <1>3, Groups DEF Resolve, ResolveLocally, ResolveMiss, ReadTerms, Ensure,
            EnsureHit, EnsureMiss, MarketByToken, ClobMarketInfo, MarketFails,
            LookUp, TickHit, TickMiss, TickAnswer, NegHit, NegMiss, NegAnswer,
            RateHit, RateMiss, RateAnswer, Complete, Valid, AdjustAmount,
            GetBuilder, BuilderStep, Sign, SignForRFQ, End, Fail, SignFails,
            Deliver, EndOrder
    <2> QED
        BY <1>1, <2>1
<1> QED
    BY <1>2, <1>3

\* A step of c leaves the calls of the others alone ...
Others(c) ==
    \A d \in Callers : d # c =>
        /\ at'[d] = at[d] /\ use'[d] = use[d] /\ req'[d] = req[d]
        /\ terms'[d] = terms[d] /\ warm'[d] = warm[d] /\ asked'[d] = asked[d]

LEMMA OthersKept ==
    ASSUME OInv, NEW c \in Callers, Begin(c) \/ OrderStep(c)
    PROVE  Others(c)
<1> USE DEF Others
<1>1. CallsTyped /\ TermsTyped /\ FlagsTyped
    BY TypeParts DEF OInv
<1>2. CASE Begin(c)
    BY <1>1, <1>2 DEF Begin, CreateOrder, CreateOrderForRFQ, Query, Start,
        CallsTyped, FlagsTyped
<1>3. CASE Resolve(c)
    BY <1>1, <1>3 DEF Resolve, ResolveLocally, ResolveMiss, ReadTerms, CallsTyped,
        TermsTyped
<1>4. CASE Ensure(c)
    BY <1>1, <1>4 DEF Ensure, EnsureHit, EnsureMiss, MarketByToken,
        ClobMarketInfo, MarketFails, CallsTyped, FlagsTyped
<1>5. CASE LookUp(c)
    BY <1>1, <1>5 DEF LookUp, TickHit, TickMiss, TickAnswer, TickKnown, NegHit,
        NegMiss, NegAnswer, NegKnown, RateHit, RateMiss, RateAnswer, RateKnown,
        Finish, CallsTyped, TermsTyped, FlagsTyped
<1>6. CASE Complete(c)
    BY <1>1, <1>6 DEF Complete, Valid, AdjustAmount, GetBuilder, BuilderStep,
        Sign, SignForRFQ, CallsTyped
<1>7. CASE End(c)
    BY <1>1, <1>7 DEF End, Fail, SignFails, Deliver, EndOrder, Finish, CallsTyped,
        TermsTyped, FlagsTyped
<1> QED
    BY <1>2, <1>3, <1>4, <1>5, <1>6, <1>7, Groups

\* ... and what a call is for is settled when it begins, but that an order's
\* balance is looked after later.
LEMMA RequestKept ==
    ASSUME OInv, NEW c \in Callers, OrderStep(c), at'[c] # "idle"
    PROVE  /\ at[c] # "idle" /\ req'[c] = req[c] /\ warm'[c] = warm[c]
           /\ use'[c] = use[c] \/ (use[c] = "order" /\ use'[c] = "balance")
<1>1. CallsTyped
    BY TypeParts DEF OInv
<1> USE DEF CallsTyped
<1>3. CASE Resolve(c)
    BY <1>1, <1>3 DEF Resolve, ResolveLocally, ResolveMiss, ReadTerms
<1>4. CASE Ensure(c)
    BY <1>1, <1>4 DEF Ensure, EnsureHit, EnsureMiss, MarketByToken,
        ClobMarketInfo, MarketFails
<1>5. CASE LookUp(c)
    BY <1>1, <1>5 DEF LookUp, TickHit, TickMiss, TickAnswer, TickKnown, NegHit,
        NegMiss, NegAnswer, NegKnown, RateHit, RateMiss, RateAnswer, RateKnown,
        Finish
<1>6. CASE Complete(c)
    BY <1>1, <1>6 DEF Complete, Valid, AdjustAmount, GetBuilder, BuilderStep,
        Sign, SignForRFQ
<1>7. CASE End(c)
    BY <1>1, <1>7 DEF End, Fail, SignFails, Deliver, EndOrder, Finish
<1> QED
    BY <1>3, <1>4, <1>5, <1>6, <1>7, Groups

LEMMA AsksStep ==
    ASSUME OInv, NEW c \in Callers, Begin(c) \/ OrderStep(c)
    PROVE  Asks'
<1>1. SUFFICES ASSUME NEW d \in Callers, at'[d] # "idle"
               PROVE  /\ req'[d] \in Requests
                      /\ use'[d] \in {"rfq", "query"} => Plain(req'[d])
    BY DEF Asks, Plain
<1>2. CASE d # c
    BY <1>1, <1>2, OthersKept DEF Others, OInv, Asks
<1>3. CASE d = c /\ Begin(c)
    BY <1>3, TypeParts DEF OInv, CallsTyped, Begin, CreateOrder, CreateOrderForRFQ,
        Query, Start
<1>4. CASE d = c /\ OrderStep(c)
    BY <1>1, <1>4, RequestKept DEF OInv, Asks
<1> QED
    BY <1>2, <1>3, <1>4

LEMMA OrderStepInv == OInv /\ [OrderNext]_ovars => OInv'
<1> SUFFICES ASSUME OInv, [OrderNext]_ovars PROVE OInv'
    OBVIOUS
<1>1. CInv'
    BY CacheStays DEF OInv
<1>2. CASE UNCHANGED ovars
    BY <1>1, <1>2 DEF OInv, OrderTypeOK, CInv, Asks, Plain, ovars
<1>4. CASE MarketChanges
    <2>1. HadTyped'
        BY <1>4, HadStep, TypeParts DEF OInv, HadTyped
    <2> QED
        BY <1>1, <1>4, <2>1, HadStep DEF OInv, OrderTypeOK, HadTyped, CInv, Asks, Plain
<1>3. ASSUME NEW c \in Callers, Begin(c) \/ OrderStep(c)
      PROVE  OInv'
    <2>1. OrderTypeOK' <=> TypeOK' /\ CachesTyped' /\ CallsTyped' /\ TermsTyped'
                           /\ FlagsTyped' /\ OrdersTyped' /\ HadTyped'
        BY DEF OrderTypeOK, CachesTyped, CallsTyped, TermsTyped, FlagsTyped,
               OrdersTyped, HadTyped
    <2>2. HadTyped'
        BY <1>3, HadStep, TypeParts DEF OInv, HadTyped
    <2> QED
        BY <1>1, <1>3, <2>1, <2>2, CachesStep, CallsStep, TermsStep, FlagsStep,
           OrdersStep, AsksStep DEF OInv, CInv
<1> QED
    BY <1>2, <1>3, <1>4, OwnOrMarket

\* Type correctness of the caches, the calls and the builder cache.
THEOREM OrderTypeCorrect == OrderSpec => []OrderTypeOK
<1>1. OInv => OrderTypeOK
    BY DEF OInv
<1> QED
    BY <1>1, OrderInitInv, OrderStepInv, PTL DEF OrderSpec

-----------------------------------------------------------------------------
(* The fee info of a protected buy.                                        *)

\* From the check of the fee info on, it is there.
FeeInv == \A c \in Callers :
    at[c] \in {"builder", "sign", "signed"} /\ req[c].protect
        => req[c].token \in feeInfos

\* No cached answer is forgotten.
LEMMA CachesGrow ==
    ASSUME OInv, NEW c \in Callers, Begin(c) \/ OrderStep(c)
    PROVE  /\ feeInfos \subseteq feeInfos'
           /\ \A t \in Tokens :
                 /\ tickSizes[t] # Unset => tickSizes'[t] # Unset
                 /\ negRisk[t] # Unset => negRisk'[t] # Unset
                 /\ feeRates[t] # Unset => feeRates'[t] # Unset
<1> USE MarketAssumption
<1>1. CachesTyped
    BY TypeParts DEF OInv
<1>2. CachesTyped' /\ Unset \notin Ticks(had) \cup Rates(had) \cup {EmptyTick, NoFee}
    BY CachesStep, TypeParts, HadCan, MarketNumbers DEF OInv
<1> USE DEF CachesTyped
<1>3. CASE UNCHANGED market
    BY <1>3
<1>4. CASE MarketByToken(c)
    BY <1>1, <1>4 DEF MarketByToken
<1>5. CASE ClobMarketInfo(c)
    BY <1>1, <1>2, <1>5 DEF ClobMarketInfo, Ticks
<1>6. CASE TickAnswer(c)
    BY <1>1, <1>2, <1>6 DEF TickAnswer
<1>7. CASE NegAnswer(c)
    BY <1>1, <1>7 DEF NegAnswer
<1>8. CASE RateAnswer(c)
    BY <1>1, <1>2, <1>8 DEF RateAnswer, Rates
<1> QED
    BY <1>3, <1>4, <1>5, <1>6, <1>7, <1>8, MarketStep

LEMMA FeeStep ==
    ASSUME OInv, FeeInv, NEW c \in Callers, Begin(c) \/ OrderStep(c)
    PROVE  FeeInv'
<1>1. SUFFICES ASSUME NEW d \in Callers,
                      at'[d] \in {"builder", "sign", "signed"}, req'[d].protect
               PROVE  req'[d].token \in feeInfos
    BY CachesGrow DEF FeeInv
<1>2. CASE d # c
    BY <1>1, <1>2, OthersKept DEF Others, FeeInv
<1>3. CASE d = c /\ Begin(c)
    BY <1>1, <1>3, TypeParts DEF OInv, CallsTyped, Begin, CreateOrder,
        CreateOrderForRFQ, Query, Start
<1>4. CASE d = c /\ OrderStep(c)
    <2>1. req'[c] = req[c]
        BY <1>1, <1>4, RequestKept
    <2>2. CallsTyped
        BY TypeParts DEF OInv
    <2> USE DEF CallsTyped
    <2>3. CASE Resolve(c)
        BY <1>1, <1>4, <2>2, <2>3 DEF Resolve, ResolveLocally, ResolveMiss, ReadTerms
    <2>4. CASE Ensure(c)
        BY <1>1, <1>4, <2>2, <2>4 DEF Ensure, EnsureHit, EnsureMiss, MarketByToken,
            ClobMarketInfo, MarketFails, Ensured
    <2>5. CASE LookUp(c)
        BY <1>1, <1>4, <2>2, <2>5 DEF LookUp, TickHit, TickMiss, TickAnswer,
            TickKnown, NegHit, NegMiss, NegAnswer, NegKnown, RateHit, RateMiss,
            RateAnswer, RateKnown, Finish
    <2>6. CASE AdjustAmount(c) \/ GetBuilder(c) \/ BuilderStep(c) \/ Sign(c)
        BY <1>1, <1>4, <2>1, <2>6 DEF FeeInv, AdjustAmount, FeeKnown, GetBuilder,
            BuilderStep, Sign
    <2>7. CASE Valid(c)
        BY <1>1, <1>4, <2>1, <2>2, <2>7 DEF Valid
    <2>8. CASE SignForRFQ(c)
        BY <1>1, <1>4, <2>1, <2>8 DEF SignForRFQ, OInv, Asks, Plain
    <2>9. CASE End(c)
        BY <1>1, <1>4, <2>2, <2>9 DEF End, Fail, SignFails, Deliver, EndOrder, Finish
    <2> QED
        BY <1>4, <2>3, <2>4, <2>5, <2>6, <2>7, <2>8, <2>9, Groups DEF Complete
<1> QED
    BY <1>2, <1>3, <1>4

\* No buy that the balance protects is signed without the token's fee info.
THEOREM ProtectedBuysHaveFees == OrderSpec => []ProtectionNeedsFee
<1>1. OrderInit => FeeInv
    BY DEF OrderInit, FeeInv
<1>2. OInv /\ FeeInv /\ [OrderNext]_ovars => FeeInv'
    <2> SUFFICES ASSUME OInv, FeeInv, [OrderNext]_ovars PROVE FeeInv'
        OBVIOUS
    <2>1. CASE UNCHANGED ovars \/ MarketChanges
        BY <2>1, HadStep DEF FeeInv
    <2>2. ASSUME NEW c \in Callers, Begin(c) \/ OrderStep(c)
          PROVE  FeeInv'
        BY <2>2, FeeStep
    <2> QED
        BY <2>1, <2>2, OwnOrMarket
<1>3. FeeInv => ProtectionNeedsFee
    BY DEF FeeInv, ProtectionNeedsFee
<1> QED
    BY <1>1, <1>2, <1>3, OrderInitInv, OrderStepInv, PTL DEF OrderSpec

-----------------------------------------------------------------------------
(* A warm order.                                                           *)

\* What was cached when the order was asked for still is, so that no path leads
\* to a request.
Cached(c) ==
    /\ tickSizes[req[c].token] # Unset
    /\ negRisk[req[c].token] # Unset
    /\ use[c] \in {"order", "balance"} \/ at[c] = "ensure"
           => req[c].token \in feeInfos
    /\ use[c] = "rfq" \/ at[c] = "rate" => feeRates[req[c].token] # Unset
Unasked(c) ==
    /\ ~asked[c]
    /\ at[c] \notin {"byToken", "market", "tickAsk", "negAsk", "rateAsk"}
WarmInv == \A c \in Callers :
    /\ at[c] = "idle" => ~asked[c] /\ ~warm[c]
    /\ warm[c] /\ at[c] # "idle" => Cached(c) /\ Unasked(c)

LEMMA WarmStep ==
    ASSUME OInv, WarmInv, NEW c \in Callers, Begin(c) \/ OrderStep(c)
    PROVE  WarmInv'
<1> USE MarketAssumption
<1>1. CallsTyped /\ CachesTyped /\ FlagsTyped /\ Asks
    BY TypeParts DEF OInv
<1>2. ASSUME NEW d \in Callers, d # c
      PROVE  /\ at'[d] = "idle" => ~asked'[d] /\ ~warm'[d]
             /\ warm'[d] /\ at'[d] # "idle" => Cached(d)' /\ Unasked(d)'
    <2>1. Others(c)
        BY OthersKept
    <2>2. at[d] # "idle" => req[d].token \in Tokens
        BY <1>1 DEF Asks
    <2> QED
        BY <1>2, <2>1, <2>2, CachesGrow DEF Others, WarmInv, Cached, Unasked
<1>3. CASE Begin(c)
    <2>1. PICK l \in {"resolve", "tick", "neg", "rate", "ensure"},
               u \in {"order", "rfq", "query"} :
               /\ Start(c, l, u)
               /\ l = "rate" => u = "query"
               /\ u = "order" => l = "resolve"
               /\ u = "rfq" => l = "tick"
        BY <1>3 DEF Begin, CreateOrder, CreateOrderForRFQ, Query
    <2>2. /\ at[c] = "idle" /\ at'[c] = l /\ use'[c] = u
          /\ UNCHANGED <<market, asked>>
        BY <1>1, <2>1 DEF Start, CallsTyped
    <2>3. warm'[c] =>
             /\ tickSizes[req'[c].token] # Unset /\ negRisk[req'[c].token] # Unset
             /\ IF u = "rfq" \/ l = "rate" THEN feeRates[req'[c].token] # Unset
                                           ELSE req'[c].token \in feeInfos
        BY <1>1, <2>1 DEF Start, CallsTyped, FlagsTyped
    <2>4. ~asked'[c]
        BY <2>2 DEF WarmInv
    <2>5. warm'[c] => Cached(c)'
        BY <2>1, <2>2, <2>3 DEF Cached
    <2>6. Unasked(c)'
        BY <2>2, <2>4 DEF Unasked
    <2> QED
        BY <1>2, <2>2, <2>5, <2>6 DEF WarmInv
<1>4. CASE OrderStep(c)
    <2>1. CASE at'[c] = "idle"
        <3>1. ~asked'[c] /\ ~warm'[c]
            <4>1. CASE LookUp(c)
                BY <1>1, <2>1, <4>1 DEF LookUp, TickHit, TickMiss, TickAnswer,
                    TickKnown, NegHit, NegMiss, NegAnswer, NegKnown, RateHit,
                    RateMiss, RateAnswer, RateKnown, Finish, FlagsTyped,
                    CallsTyped
            <4>2. CASE End(c)
                BY <1>1, <4>2 DEF End, Fail, SignFails, Deliver, EndOrder,
                    Finish, FlagsTyped, CallsTyped
            <4>3. Resolve(c) \/ Ensure(c) \/ Complete(c) => at'[c] # "idle"
                <5>1. Resolve(c) => at'[c] # "idle"
                    BY <1>1 DEF CallsTyped, Resolve, ResolveLocally,
                        ResolveMiss, ReadTerms
                <5>2. Ensure(c) => at'[c] # "idle"
                    BY <1>1 DEF CallsTyped, Ensure, EnsureHit, EnsureMiss,
                        MarketByToken, ClobMarketInfo, MarketFails, Ensured
                <5>3. Complete(c) => at'[c] # "idle"
                    BY <1>1 DEF CallsTyped, Complete, Valid, AdjustAmount,
                        GetBuilder, BuilderStep, Sign, SignForRFQ
                <5> QED
                    BY <5>1, <5>2, <5>3
            <4> QED
                BY <1>4, <2>1, <4>1, <4>2, <4>3, Groups
        <3> QED
            BY <1>2, <2>1, <3>1 DEF WarmInv
    <2>2. CASE at'[c] # "idle" /\ ~warm'[c]
        BY <1>2, <2>2 DEF WarmInv
    <2>3. CASE at'[c] # "idle" /\ warm'[c]
        <3>1. /\ at[c] # "idle" /\ req'[c] = req[c] /\ warm[c]
              /\ use'[c] = use[c] \/ (use[c] = "order" /\ use'[c] = "balance")
            BY <1>4, <2>3, RequestKept
        <3>2. req[c].token \in Tokens
            BY <1>1, <3>1 DEF Asks
        <3>3. Cached(c) /\ Unasked(c)
            BY <3>1 DEF WarmInv
        <3>4. tickSizes'[req[c].token] # Unset /\ negRisk'[req[c].token] # Unset
            BY <3>2, <3>3, CachesGrow DEF Cached
        <3>5. /\ asked'[c] = asked[c]
              /\ at'[c] \notin {"byToken", "market", "tickAsk", "negAsk",
                                "rateAsk"}
              /\ at'[c] = "ensure" => use[c] \in {"order", "balance"}
              /\ at'[c] = "rate" => use[c] = "rfq"
            <4> USE <2>3, <3>2, <3>3 DEF Cached, Unasked
            <4>1. CASE Resolve(c)
                BY <1>1, <4>1 DEF CallsTyped, Resolve, ResolveLocally, ResolveMiss,
                    ReadTerms, AllKnown
            <4>2. CASE Ensure(c)
                BY <1>1, <4>2 DEF CallsTyped, Ensure, EnsureHit, EnsureMiss,
                    MarketByToken, ClobMarketInfo, MarketFails, Ensured,
                    InfoCached
            <4>3. CASE LookUp(c)
                BY <1>1, <4>3 DEF CallsTyped, LookUp, TickHit, TickMiss,
                    TickAnswer, TickKnown, NegHit, NegMiss, NegAnswer, NegKnown,
                    RateHit, RateMiss, RateAnswer, RateKnown, Finish
            <4>4. CASE Complete(c)
                BY <1>1, <4>4 DEF CallsTyped, Complete, Valid, AdjustAmount,
                    GetBuilder, BuilderStep, Sign, SignForRFQ
            <4>5. CASE End(c)
                BY <1>1, <4>5 DEF CallsTyped, End, Fail, SignFails, Deliver,
                    EndOrder, Finish
            <4> QED
                BY <1>4, <4>1, <4>2, <4>3, <4>4, <4>5, Groups
        <3>6. Unasked(c)'
            BY <3>3, <3>5 DEF Unasked
        <3>7. Cached(c)'
            BY <1>4, <3>1, <3>2, <3>3, <3>4, <3>5, CachesGrow DEF Cached
        <3> QED
            BY <1>2, <2>3, <3>6, <3>7 DEF WarmInv
    <2> QED
        BY <2>1, <2>2, <2>3
<1> QED
    BY <1>3, <1>4

\* An order that finds everything cached when it is asked for sends no request
\* for the market's terms, whatever the other goroutines do.
THEOREM WarmOrdersAskNothing == OrderSpec => []WarmAsksNothing
<1>1. OrderInit => WarmInv
    BY DEF OrderInit, WarmInv
<1>2. OInv /\ WarmInv /\ [OrderNext]_ovars => WarmInv'
    <2> SUFFICES ASSUME OInv, WarmInv, [OrderNext]_ovars PROVE WarmInv'
        OBVIOUS
    <2>1. CASE UNCHANGED ovars \/ MarketChanges
        BY <2>1, HadStep DEF WarmInv, Cached, Unasked
    <2>2. ASSUME NEW c \in Callers, Begin(c) \/ OrderStep(c)
          PROVE  WarmInv'
        BY <2>2, WarmStep
    <2> QED
        BY <2>1, <2>2, OwnOrMarket
<1>3. WarmInv => WarmAsksNothing
    BY DEF WarmInv, Unasked, WarmAsksNothing
<1> QED
    BY <1>1, <1>2, <1>3, OrderInitInv, OrderStepInv, PTL DEF OrderSpec

-----------------------------------------------------------------------------
(* The terms of the market.                                                *)

\* As long as no answer left anything out, what is cached has been the market's, and
\* with the fee info the other details are there.
CachesRight == ~omitted =>
    /\ \A t \in Tokens : /\ tickSizes[t] \in Ticks(had) \cup {Unset}
                         /\ negRisk[t] \in {NegRisk, Unset}
                         /\ feeRates[t] \in Rates(had) \cup {Unset}
    /\ \A t \in feeInfos : tickSizes[t] \in Ticks(had) /\ negRisk[t] = NegRisk

TickRight(c) == req[c].tick = Unset => terms[c].tick \in Ticks(had)
NegRight(c) == req[c].neg = Unset => terms[c].neg = NegRisk

\* What a call has been told at each place, and where the orders come by.
TermsRight(c) ==
    /\ at[c] = "read" => /\ tickSizes[req[c].token] \in Ticks(had)
                         /\ negRisk[req[c].token] = NegRisk
    /\ at[c] \in {"neg", "negAsk", "rate", "rateAsk"} /\ use[c] # "query"
           => TickRight(c)
    /\ at[c] \in {"rate", "rateAsk"} /\ use[c] # "query" => NegRight(c)
    /\ at[c] \in {"validate", "fee", "builder", "sign", "signed"}
            \/ use[c] = "balance"
           => TickRight(c) /\ NegRight(c)
    /\ at[c] \in {"validate", "signed"} /\ use[c] = "rfq"
           => terms[c].rate \in Rates(had)
Paths == \A c \in Callers :
    /\ use[c] = "rfq" => at[c] \in {"tick", "tickAsk", "neg", "negAsk", "rate",
                                    "rateAsk", "validate", "signed"}
    /\ use[c] = "balance" => at[c] \in {"ensure", "byToken", "market", "fee",
                                        "builder", "sign", "signed"}
TermsInv == CachesRight /\ Paths /\ (~omitted => \A c \in Callers : TermsRight(c))

\* Omissions are not forgotten.
LEMMA OmittedKept ==
    ASSUME NEW c \in Callers, Begin(c) \/ OrderStep(c), ~omitted'
    PROVE  ~omitted
<1>1. CASE Begin(c)
    BY <1>1 DEF Begin, CreateOrder, CreateOrderForRFQ, Query, Start
<1>2. CASE Resolve(c) \/ Ensure(c)
    BY <1>2 DEF Resolve, ResolveLocally, ResolveMiss, ReadTerms, Ensure, EnsureHit,
        EnsureMiss, MarketByToken, ClobMarketInfo, MarketFails
<1>3. CASE LookUp(c)
    BY <1>3 DEF LookUp, TickHit, TickMiss, TickAnswer, NegHit, NegMiss, NegAnswer,
        RateHit, RateMiss, RateAnswer
<1>4. CASE Complete(c) \/ End(c)
    BY <1>4 DEF Complete, Valid, AdjustAmount, GetBuilder, BuilderStep, Sign,
        SignForRFQ, End, Fail, SignFails, Deliver, EndOrder
<1> QED
    BY <1>1, <1>2, <1>3, <1>4, Groups

\* An answer that leaves nothing out tells all tokens the same terms.
LEMMA FullAnswer ==
    ASSUME NEW c \in Callers, ClobMarketInfo(c), ~omitted'
    PROVE  \E m \in had : \A t \in Tokens :
               tickSizes'[t] = m.tick /\ negRisk'[t] = NegRisk
<1>1. PICK m \in had, tick, neg \in BOOLEAN :
         /\ tick /\ neg
         /\ tickSizes' = [t \in Tokens |-> IF tick THEN m.tick ELSE tickSizes[t]]
         /\ negRisk' = [t \in Tokens |-> neg /\ NegRisk]
    BY DEF ClobMarketInfo
<1>2. NegRisk \in BOOLEAN
    BY MarketAssumption
<1>3. \A t \in Tokens : negRisk'[t] = NegRisk
    BY <1>1, <1>2
<1>4. \A t \in Tokens : tickSizes'[t] = m.tick
    BY <1>1
<1> QED
    BY <1>3, <1>4

LEMMA CachesRightStep ==
    ASSUME OInv, TermsInv, NEW c \in Callers, Begin(c) \/ OrderStep(c)
    PROVE  CachesRight'
<1> USE MarketAssumption
<1>1. CachesTyped
    BY TypeParts DEF OInv
<1>2. SUFFICES ASSUME ~omitted' PROVE CachesRight'
    BY DEF CachesRight
<1>3. ~omitted /\ CachesRight
    BY <1>2, OmittedKept DEF TermsInv
<1>a. had' = had
    BY HadStep
<1>b. Ticks(had)' = Ticks(had) /\ Rates(had)' = Rates(had)
    BY <1>a DEF Ticks, Rates
<1> USE DEF CachesTyped, CachesRight
<1>4. CASE UNCHANGED market
    BY <1>3, <1>4, <1>b
<1>5. CASE MarketByToken(c)
    BY <1>3, <1>5, <1>b DEF MarketByToken
<1>6. CASE ClobMarketInfo(c)
    <2>1. PICK m \in had :
             /\ \A u \in Tokens : tickSizes'[u] = m.tick /\ negRisk'[u] = NegRisk
             /\ feeInfos' \subseteq Tokens
        BY <1>1, <1>2, <1>6, FullAnswer DEF ClobMarketInfo
    <2>2. m.tick \in Ticks(had)
        BY DEF Ticks
    <2> QED
        BY <1>3, <1>6, <1>b, <2>1, <2>2 DEF ClobMarketInfo
<1>7. CASE TickAnswer(c)
    BY <1>1, <1>2, <1>3, <1>b, <1>7 DEF TickAnswer
<1>8. CASE NegAnswer(c)
    BY <1>1, <1>2, <1>3, <1>b, <1>8 DEF NegAnswer
<1>9. CASE RateAnswer(c)
    <2>1. PICK m \in had : feeRates' = [feeRates EXCEPT ![req[c].token] = m.rate]
        BY <1>2, <1>9 DEF RateAnswer
    <2>2. m.rate \in Rates(had)
        BY DEF Rates
    <2> QED
        BY <1>1, <1>3, <1>9, <1>b, <2>1, <2>2 DEF RateAnswer
<1> QED
    BY <1>4, <1>5, <1>6, <1>7, <1>8, <1>9, MarketStep

LEMMA PathsStep ==
    ASSUME OInv, TermsInv, NEW c \in Callers, Begin(c) \/ OrderStep(c)
    PROVE  Paths'
<1>1. CallsTyped /\ Paths /\ Asks
    BY TypeParts DEF OInv, TermsInv
<1>2. SUFFICES
        /\ use'[c] = "rfq" => at'[c] \in {"tick", "tickAsk", "neg", "negAsk",
                                "rate", "rateAsk", "validate", "signed"}
        /\ use'[c] = "balance" => at'[c] \in {"ensure", "byToken", "market",
                                "fee", "builder", "sign", "signed"}
    BY <1>1, OthersKept DEF Others, Paths
<1> USE <1>1 DEF CallsTyped, Paths
<1>3. CASE Begin(c)
    BY <1>3 DEF Begin, CreateOrder, CreateOrderForRFQ, Query, Start
<1>4. CASE Resolve(c)
    BY <1>4 DEF Resolve, ResolveLocally, ResolveMiss, ReadTerms
<1>5. CASE Ensure(c)
    BY <1>5 DEF Ensure, EnsureHit, EnsureMiss, MarketByToken, ClobMarketInfo,
        MarketFails, Ensured
<1>6. CASE LookUp(c)
    BY <1>6 DEF LookUp, TickHit, TickMiss, TickAnswer, TickKnown, NegHit, NegMiss,
        NegAnswer, NegKnown, RateHit, RateMiss, RateAnswer, RateKnown, Finish
<1>7. CASE Complete(c)
    BY <1>7 DEF Complete, Valid, AdjustAmount, GetBuilder, BuilderStep, Sign,
        SignForRFQ
<1>8. CASE End(c)
    BY <1>8 DEF End, Fail, SignFails, Deliver, EndOrder, Finish
<1> QED
    BY <1>3, <1>4, <1>5, <1>6, <1>7, <1>8, Groups

LEMMA TermsRightStep ==
    ASSUME OInv, TermsInv, NEW c \in Callers, Begin(c) \/ OrderStep(c), ~omitted'
    PROVE  \A d \in Callers : TermsRight(d)'
<1> USE MarketAssumption
<1>1. /\ CallsTyped /\ TermsTyped /\ CachesTyped /\ Asks
      /\ CachesRight /\ CachesRight' /\ Paths /\ ~omitted
      /\ \A d \in Callers : TermsRight(d)
    BY TypeParts, OmittedKept, CachesRightStep DEF OInv, TermsInv
<1>a. had' = had
    BY HadStep
<1>b. Ticks(had)' = Ticks(had) /\ Rates(had)' = Rates(had)
    BY <1>a DEF Ticks, Rates
<1>c. Unset \notin Ticks(had)
    BY TypeParts, HadCan, MarketNumbers DEF OInv
<1>2. ASSUME NEW d \in Callers, d # c PROVE TermsRight(d)'
    <2>1. at[d] = "read" => req[d].token \in Tokens
        BY <1>1 DEF Asks
    <2>2. at[d] = "read" => /\ tickSizes'[req[d].token] \in Ticks(had)
                            /\ negRisk'[req[d].token] = NegRisk
        BY <1>1, <1>b, <1>c, <2>1, CachesGrow DEF TermsRight, CachesRight
    <2> QED
        BY <1>1, <1>2, <1>b, <2>2, OthersKept DEF Others, TermsRight, TickRight, NegRight
<1>3. ASSUME at[c] # "idle" PROVE req[c] \in Requests /\ req[c].token \in Tokens
    BY <1>1, <1>3 DEF Asks
<1> USE <1>1, <1>b, <1>c DEF CallsTyped
<1>4. TermsRight(c)'
    <2>1. CASE Begin(c)
        BY <2>1 DEF Begin, CreateOrder, CreateOrderForRFQ, Query, Start, TermsRight
    <2>2. CASE Resolve(c)
        <3>1. CASE ResolveLocally(c) \/ ReadTerms(c)
            <4>1. /\ req[c] \in Requests /\ req'[c] = req[c] /\ use'[c] = use[c]
                  /\ terms'[c] = Terms(req[c]) /\ at'[c] = "validate"
                  /\ use[c] # "rfq"
                BY <1>3, <3>1 DEF ResolveLocally, ReadTerms, TermsTyped, Paths
            <4>2. req[c].tick = Unset => TickOf(req[c].token) \in Ticks(had)
                BY <1>3, <3>1 DEF ResolveLocally, ReadTerms, AllKnown, TickOf,
                    CachesRight, TermsRight
            <4>3. req[c].neg = Unset => NegOf(req[c].token) = NegRisk
                BY <1>3, <3>1 DEF ResolveLocally, ReadTerms, AllKnown, NegOf,
                    CachesRight, TermsRight
            <4>4. TickRight(c)' /\ NegRight(c)'
                BY <4>1, <4>2, <4>3 DEF TickRight, NegRight, Terms
            <4> QED
                BY <4>1, <4>4 DEF TermsRight
        <3>2. CASE ResolveMiss(c)
            BY <3>2 DEF ResolveMiss, TermsRight, TickRight, NegRight
        <3> QED
            BY <2>2, <3>1, <3>2 DEF Resolve
    <2>3. CASE Ensure(c)
        <3>1. /\ terms' = terms /\ req' = req /\ use' = use /\ at[c] # "idle"
              /\ at'[c] \in {"byToken", "market", "fee", "exponent", "read", "tick"}
              /\ at'[c] = "fee" => use[c] = "balance"
            BY <2>3 DEF Ensure, EnsureHit, EnsureMiss, MarketByToken,
                ClobMarketInfo, MarketFails, Ensured
        <3>2. at'[c] = "read" => /\ tickSizes'[req[c].token] \in Ticks(had)
                                 /\ negRisk'[req[c].token] = NegRisk
            <4>1. CASE EnsureHit(c)
                BY <4>1 DEF EnsureHit, InfoCached, CachesRight
            <4>2. CASE ClobMarketInfo(c)
                BY <1>3, <3>1, <4>2, FullAnswer DEF Ticks
            <4>3. EnsureMiss(c) \/ MarketByToken(c) \/ MarketFails(c)
                      => at'[c] # "read"
                BY DEF EnsureMiss, MarketByToken, MarketFails
            <4> QED
                BY <2>3, <4>1, <4>2, <4>3 DEF Ensure
        <3> QED
            BY <3>1, <3>2 DEF TermsRight, TickRight, NegRight
    <2>4. CASE LookUp(c)
        <3> USE <1>3 DEF TermsRight, TickRight, NegRight, CachesRight, TermsTyped,
                Finish
        <3>a. ASSUME at[c] = "tick" \/ at[c] = "tickAsk", NEW min \in Ticks(had),
                     TickKnown(c, min)
              PROVE  TermsRight(c)'
            <4>1. CASE at'[c] = "idle"
                BY <3>a, <4>1 DEF TickKnown
            <4>2. CASE at'[c] # "idle"
                <5>1. /\ req' = req /\ use' = use /\ use[c] # "query"
                      /\ at'[c] = IF req[c].neg = Unset THEN "neg" ELSE "validate"
                      /\ terms'[c].tick = IF req[c].tick # Unset THEN req[c].tick
                                                                 ELSE min
                    BY <3>a, <4>2 DEF TickKnown
                <5>2. use[c] = "rfq" => req[c].neg = Unset
                    BY <3>a DEF Asks, Plain
                <5>3. use[c] # "balance"
                    BY <3>a DEF Paths
                <5> QED
                    BY <5>1, <5>2, <5>3
            <4> QED
                BY <4>1, <4>2
        <3>1. CASE TickHit(c)
            <4>1. tickSizes[req[c].token] \in Ticks(had)
                BY <3>1 DEF TickHit
            <4> QED
                BY <3>1, <3>a, <4>1 DEF TickHit
        <3>2. CASE TickMiss(c)
            BY <3>2 DEF TickMiss
        <3>3. CASE TickAnswer(c)
            <4>1. PICK min \in Ticks(had) : at[c] = "tickAsk" /\ TickKnown(c, min)
                BY <3>3 DEF TickAnswer
            <4> QED
                BY <3>a, <4>1
        <3>4. CASE NegHit(c)
            BY <3>4 DEF NegHit, NegKnown
        <3>5. CASE NegMiss(c)
            BY <3>5 DEF NegMiss
        <3>6. CASE NegAnswer(c)
            BY <3>6 DEF NegAnswer, NegKnown
        <3>7. CASE RateHit(c)
            BY <3>7 DEF RateHit, RateKnown
        <3>8. CASE RateMiss(c)
            BY <3>8 DEF RateMiss
        <3>9. CASE RateAnswer(c)
            <4>1. PICK rate \in Rates(had) : at[c] = "rateAsk" /\ RateKnown(c, rate)
                BY <3>9 DEF RateAnswer, Rates
            <4> QED
                BY <4>1 DEF RateKnown
        <3> QED
            BY <2>4, <3>1, <3>2, <3>3, <3>4, <3>5, <3>6, <3>7, <3>8, <3>9 DEF LookUp
    <2>5. CASE Complete(c)
        <3> USE DEF TermsRight, TickRight, NegRight
        <3>1. CASE Valid(c)
            BY <3>1 DEF Valid
        <3>2. CASE AdjustAmount(c) \/ GetBuilder(c) \/ BuilderStep(c) \/ Sign(c)
            BY <3>2 DEF AdjustAmount, GetBuilder, BuilderStep, Sign, Paths
        <3>3. CASE SignForRFQ(c)
            BY <3>3 DEF SignForRFQ
        <3> QED
            BY <2>5, <3>1, <3>2, <3>3 DEF Complete
    <2>6. CASE End(c)
        BY <2>6 DEF End, Fail, SignFails, Deliver, EndOrder, Finish, TermsRight
    <2> QED
        BY <2>1, <2>2, <2>3, <2>4, <2>5, <2>6, Groups
<1> QED
    BY <1>2, <1>4

LEMMA TermsInvStep == OInv /\ TermsInv /\ [OrderNext]_ovars => TermsInv'
<1> SUFFICES ASSUME OInv, TermsInv, [OrderNext]_ovars PROVE TermsInv'
    OBVIOUS
<1>1. CASE UNCHANGED ovars \/ MarketChanges
    <2>1. Ticks(had) \subseteq Ticks(had') /\ Rates(had) \subseteq Rates(had')
        BY <1>1, HadStep, HadGrows
    <2> QED
        BY <1>1, <2>1, HadStep DEF TermsInv, CachesRight, Paths, TermsRight,
           TickRight, NegRight
<1>2. ASSUME NEW c \in Callers, Begin(c) \/ OrderStep(c) PROVE TermsInv'
    BY <1>2, CachesRightStep, PathsStep, TermsRightStep DEF TermsInv
<1> QED
    BY <1>1, <1>2, OwnOrMarket

\* Every cached builder signs for the contract it is cached for; an order that
\* has its terms asks for the builder of their contract, and is signed by one.
CacheRight == \A a \in Addresses : cache[a] # NoBuilder =>
    cache[a] \in Builders /\ cache[a].contract = a
Signing == \A c \in Callers : at[c] \in {"sign", "signed"} /\ use[c] # "rfq" =>
    /\ addr[c] = Exchange[terms[c].neg]
    /\ at[c] = "signed" => got[c] \in Builders

LEMMA CacheRightStep == CInv /\ CacheRight /\ [Next]_vars => CacheRight'
<1> SUFFICES ASSUME CInv, CacheRight, [Next]_vars PROVE CacheRight'
    OBVIOUS
<1> USE BuilderAssumption DEF CacheRight
<1>1. CASE UNCHANGED vars
    BY <1>1 DEF vars
<1>2. ASSUME NEW c \in Callers, Call(c) \/ Step(c), cache' # cache
      PROVE  CacheRight'
    <2>1. /\ Store(c)
          /\ cache' = [cache EXCEPT ![Lower[addr[c]]] = mine[c]]
        BY <1>2, CacheStep
    <2>2. addr[c] \in Addresses
        BY <2>1 DEF Store, CInv, Asked
    <2>3. mine[c] \in Builders /\ mine[c].contract = Lower[addr[c]]
        BY <2>1 DEF Store, CInv, MadeRight
    <2>4. cache \in [Addresses -> Builders \cup {NoBuilder}]
        BY DEF CInv, TypeOK
    <2> QED
        BY <2>1, <2>2, <2>3, <2>4
<1>3. CASE cache' = cache
    BY <1>3
<1> QED
    BY <1>1, <1>2, <1>3 DEF Next

LEMMA SigningStep ==
    ASSUME OInv, Signing, NEW c \in Callers, Begin(c) \/ OrderStep(c)
    PROVE  Signing'
<1>1. CallsTyped /\ TypeOK /\ AnswerSet
    BY TypeParts DEF OInv, CInv
<1>2. ASSUME NEW d \in Callers, d # c
      PROVE  addr'[d] = addr[d] /\ got'[d] = got[d]
    <2>1. UNCHANGED vars \/ Call(c) \/ Step(c)
        BY OneCacheStep DEF Begin
    <2> QED
        BY <1>1, <1>2, <2>1, Ownership DEF Mine, vars
<1> SUFFICES
        at'[c] \in {"sign", "signed"} /\ use'[c] # "rfq" =>
            /\ addr'[c] = Exchange[terms'[c].neg]
            /\ at'[c] = "signed" => got'[c] \in Builders
    BY <1>2, OthersKept DEF Others, Signing
<1> USE <1>1 DEF CallsTyped
<1>3. CASE GetBuilder(c)
    BY <1>3 DEF GetBuilder, Call, ExchangeFor
<1>4. CASE BuilderStep(c)
    <2>1. /\ at[c] = "sign" /\ Step(c) /\ pc[c] # "done"
          /\ at' = at /\ use' = use /\ terms' = terms
        BY <1>4 DEF BuilderStep
    <2>2. addr' = addr
        BY <2>1 DEF Step, RLock, Hit, LeaveHit, Miss, Make, MakeFails, Lock,
            Discard, StillAbsent, Store, Unlock, Return
    <2> QED
        BY <2>1, <2>2 DEF Signing
<1>5. CASE Sign(c)
    BY <1>5 DEF Sign, vars, Signing, TypeOK, AnswerSet, Answered
<1>6. CASE SignForRFQ(c)
    BY <1>6 DEF SignForRFQ
<1>7. Begin(c) \/ Valid(c) \/ AdjustAmount(c) => at'[c] \notin {"sign", "signed"}
    BY DEF Begin, CreateOrder, CreateOrderForRFQ, Query, Start, Valid, AdjustAmount
<1>8. Resolve(c) \/ Ensure(c) => at'[c] \notin {"sign", "signed"}
    BY DEF Resolve, ResolveLocally, ResolveMiss, ReadTerms, Ensure, EnsureHit,
        EnsureMiss, MarketByToken, ClobMarketInfo, MarketFails, Ensured
<1>9. LookUp(c) => at'[c] \notin {"sign", "signed"}
    BY DEF LookUp, TickHit, TickMiss, TickAnswer, TickKnown, NegHit, NegMiss,
        NegAnswer, NegKnown, RateHit, RateMiss, RateAnswer, RateKnown, Finish
<1>10. End(c) => at'[c] \notin {"sign", "signed"}
    BY DEF End, Fail, SignFails, Deliver, EndOrder, Finish
<1> QED
    BY <1>3, <1>4, <1>5, <1>6, <1>7, <1>8, <1>9, <1>10, Groups DEF Complete

\* Whatever the server fails to answer or answers late, however the goroutines
\* interleave and the market changes: as long as the answers were complete, an
\* order is signed with a tick size that its market has had, and for the contract
\* that lists its token.  With Markets = {Opening} that is the market's own; when
\* it changes, nothing in the caches tells which of them it is now.
THEOREM MarketTermsHold == OrderSpec => []MarketTerms
<1>1. OrderInit => TermsInv /\ CacheRight /\ Signing
    BY MarketAssumption DEF OrderInit, Init, TermsInv, CachesRight, Paths,
        TermsRight, CacheRight, Signing
<1>2. OInv /\ Signing /\ [OrderNext]_ovars => Signing'
    <2> SUFFICES ASSUME OInv, Signing, [OrderNext]_ovars PROVE Signing'
        OBVIOUS
    <2>1. CASE UNCHANGED ovars \/ MarketChanges
        BY <2>1, HadStep DEF Signing, vars
    <2>2. ASSUME NEW c \in Callers, Begin(c) \/ OrderStep(c) PROVE Signing'
        BY <2>2, SigningStep
    <2> QED
        BY <2>1, <2>2, OwnOrMarket
<1>3. OInv /\ CacheRight /\ [OrderNext]_ovars => CacheRight'
    BY CacheRightStep, StepIsCache DEF OInv
<1>4. OInv /\ TermsInv /\ CacheRight /\ Signing => MarketTerms
    <2> SUFFICES ASSUME OInv, TermsInv, CacheRight, Signing,
                        NEW c \in Callers, at[c] = "signed", ~omitted
                 PROVE  /\ req[c].tick = Unset => terms[c].tick \in Ticks(had)
                        /\ req[c].neg = Unset /\ use[c] # "rfq"
                               => got[c].contract = Lower[Exchange[NegRisk]]
                        /\ use[c] = "rfq" => /\ terms[c].neg = NegRisk
                                             /\ terms[c].rate \in Rates(had)
        BY DEF MarketTerms
    <2>1. TickRight(c) /\ NegRight(c)
        BY DEF TermsInv, TermsRight
    <2>2. use[c] = "rfq" => terms[c].rate \in Rates(had) /\ req[c].neg = Unset
        BY DEF TermsInv, TermsRight, OInv, Asks, Plain
    <2>3. ASSUME req[c].neg = Unset, use[c] # "rfq"
          PROVE  got[c].contract = Lower[Exchange[NegRisk]]
        <3>1. addr[c] = Exchange[NegRisk] /\ got[c] \in Builders
            BY <2>1, <2>3 DEF Signing, NegRight
        <3>2. addr[c] \in Addresses /\ Lower[addr[c]] \in Addresses
            BY <3>1, MarketAssumption, BuilderAssumption
        <3>3. got[c] = cache[Lower[addr[c]]]
            BY <3>1 DEF OInv, CInv, AnswerCached
        <3> QED
            BY <3>1, <3>2, <3>3, NotBuilders DEF CacheRight
    <2> QED
        BY <2>1, <2>2, <2>3 DEF TickRight, NegRight
<1> QED
    BY <1>1, <1>2, <1>3, <1>4, OrderInitInv, OrderStepInv, TermsInvStep, PTL
       DEF OrderSpec

-----------------------------------------------------------------------------
(* The mutex of the builder cache, and how long a call lasts.              *)

\* Whoever holds the lock is inside its section, and where the builder call of
\* an order stands is where the order stands.
HeldInside ==
    /\ writer # NoCaller => pc[writer] \in Critical
    /\ readers = {c \in Callers : pc[c] \in {"lookup", "leave"}}
Calling == \A c \in Callers :
    /\ at[c] = "sign" => pc[c] # "idle"
    /\ pc[c] \notin {"idle", "done"} => at[c] = "sign"
    /\ at[c] = "signed" /\ use[c] # "rfq" => pc[c] = "done"
    /\ pc[c] = "done" => at[c] \in {"sign", "signed"} /\ use[c] # "rfq"
LInv == HeldInside /\ Calling /\ Paths

LEMMA HeldInsideStep ==
    ASSUME CInv, HeldInside, NEW c \in Callers, Call(c) \/ Step(c)
    PROVE  HeldInside'
<1>1. Mine(c) /\ TypeOK /\ Exclusive
    BY Ownership DEF CInv
<1> USE <1>1, BuilderAssumption DEF HeldInside, Mine, TypeOK, Labels, Goto
<1>2. (writer # NoCaller => pc[writer] \in Critical)'
    <2>1. CASE Lock(c)
        BY <2>1 DEF Lock, Critical
    <2>2. CASE Unlock(c)
        BY <2>2 DEF Unlock
    <2>3. CASE ~Lock(c) /\ ~Unlock(c)
        <3>1. writer' = writer
            BY <2>3 DEF Call, Step, RLock, Hit, LeaveHit, Miss, Make, MakeFails,
                 Discard, StillAbsent, Store, Return
        <3>2. pc[c] \in Critical => pc'[c] \in Critical
            BY <2>3 DEF Call, Step, RLock, Hit, LeaveHit, Miss, Make, MakeFails,
                 Discard, StillAbsent, Store, Return, Critical
        <3> QED
            BY <3>1, <3>2
    <2> QED
        BY <2>1, <2>2, <2>3
<1>3. (readers = {d \in Callers : pc[d] \in {"lookup", "leave"}})'
    <2>1. CASE RLock(c)
        BY <2>1 DEF RLock
    <2>2. CASE LeaveHit(c) \/ Miss(c)
        BY <2>2 DEF LeaveHit, Miss, Unread
    <2>3. CASE ~RLock(c) /\ ~LeaveHit(c) /\ ~Miss(c)
        <3>1. readers' = readers
            BY <2>3 DEF Call, Step, Hit, Make, MakeFails, Lock, Discard,
                 StillAbsent, Store, Unlock, Return
        <3>2. pc[c] \in {"lookup", "leave"} <=> pc'[c] \in {"lookup", "leave"}
            BY <2>3 DEF Call, Step, Hit, Make, MakeFails, Lock, Discard,
                 StillAbsent, Store, Unlock, Return
        <3> QED
            BY <3>1, <3>2
    <2> QED
        BY <2>1, <2>2, <2>3
<1> QED
    BY <1>2, <1>3

\* Only these actions move a builder call.
LEMMA PcStep ==
    ASSUME NEW c \in Callers, Begin(c) \/ OrderStep(c)
    PROVE  pc' = pc \/ GetBuilder(c) \/ BuilderStep(c) \/ SignFails(c) \/ Deliver(c)
BY DEF Begin, CreateOrder, CreateOrderForRFQ, Query, Start, OrderStep, Advance,
       ResolveLocally, RefuseLocally, ResolveMiss, ReadTerms, RefuseRead,
       EnsureHit, EnsureMiss, MarketByToken, ClobMarketInfo, MarketFails,
       ProtectionFails, TellExponent, TickHit, TickMiss, TickAnswer, NegHit,
       NegMiss, NegAnswer, RateHit, RateMiss, RateAnswer, LookupFails,
       Invalid, Valid, SignForRFQ, DeliverForRFQ, AdjustAmount, AdjustFails,
       Sign, Fail, vars

LEMMA CallingStep ==
    ASSUME OInv, LInv, NEW c \in Callers, Begin(c) \/ OrderStep(c)
    PROVE  Calling'
<1>1. CallsTyped /\ TypeOK /\ Calling /\ Paths
    BY TypeParts DEF OInv, LInv
<1>2. ASSUME NEW d \in Callers, d # c PROVE pc'[d] = pc[d]
    BY <1>1, <1>2, OneCacheStep, Ownership DEF Mine, vars, Begin
<1> SUFFICES
        /\ at'[c] = "sign" => pc'[c] # "idle"
        /\ pc'[c] \notin {"idle", "done"} => at'[c] = "sign"
        /\ at'[c] = "signed" /\ use'[c] # "rfq" => pc'[c] = "done"
        /\ pc'[c] = "done" => at'[c] \in {"sign", "signed"} /\ use'[c] # "rfq"
    BY <1>1, <1>2, OthersKept DEF Others, Calling
<1> USE <1>1 DEF CallsTyped, TypeOK, Calling, Paths, Goto
<1>3. CASE GetBuilder(c)
    BY <1>3 DEF GetBuilder, Call
<1>4. CASE BuilderStep(c)
    BY <1>4 DEF BuilderStep, Step, RLock, Hit, LeaveHit, Miss, Make, MakeFails,
        Lock, Discard, StillAbsent, Store, Unlock, Return
<1>5. CASE SignFails(c) \/ Deliver(c)
    BY <1>5 DEF SignFails, Deliver, EndOrder, Return, Finish
<1>6. CASE Sign(c)
    BY <1>6 DEF Sign, vars
<1>7. CASE SignForRFQ(c)
    BY <1>7 DEF SignForRFQ, vars
<1>8. ASSUME pc' = pc, pc[c] = "idle", at'[c] \notin {"sign", "signed"}
      PROVE  /\ at'[c] = "sign" => pc'[c] # "idle"
             /\ pc'[c] \notin {"idle", "done"} => at'[c] = "sign"
             /\ at'[c] = "signed" /\ use'[c] # "rfq" => pc'[c] = "done"
             /\ pc'[c] = "done" => at'[c] \in {"sign", "signed"} /\ use'[c] # "rfq"
    BY <1>8
<1>9. CASE Begin(c) \/ Valid(c) \/ AdjustAmount(c)
    BY <1>8, <1>9 DEF Begin, CreateOrder, CreateOrderForRFQ, Query, Start, Valid,
        AdjustAmount, vars
<1>10. CASE Resolve(c) \/ Ensure(c)
    BY <1>8, <1>10 DEF Resolve, ResolveLocally, ResolveMiss, ReadTerms, Ensure,
        EnsureHit, EnsureMiss, MarketByToken, ClobMarketInfo, MarketFails, Ensured,
        vars
<1>11. CASE LookUp(c)
    BY <1>8, <1>11 DEF LookUp, TickHit, TickMiss, TickAnswer, TickKnown, NegHit,
        NegMiss, NegAnswer, NegKnown, RateHit, RateMiss, RateAnswer, RateKnown,
        Finish, vars
<1>12. CASE \E l \in {"resolve", "read", "byToken", "market", "exponent",
                      "tickAsk", "negAsk", "rateAsk", "validate", "fee"} : Fail(c, l)
    BY <1>8, <1>12 DEF Fail, Finish, vars
<1>13. CASE DeliverForRFQ(c)
    BY <1>8, <1>13 DEF DeliverForRFQ, Fail, Finish, vars
<1> QED
    BY <1>3, <1>4, <1>5, <1>6, <1>7, <1>9, <1>10, <1>11, <1>12, <1>13
       DEF OrderStep, Advance, Resolve, Ensure, LookUp, Complete, Begin,
           RefuseLocally, RefuseRead, ProtectionFails, TellExponent, LookupFails, Invalid,
           AdjustFails

LEMMA TermsInvInit == OrderInit => TermsInv
<1> QED
    BY MarketAssumption DEF OrderInit, Init, TermsInv, CachesRight, Paths,
        TermsRight

LEMMA LInvInit == OrderInit => LInv
<1> QED
    BY MarketAssumption, BuilderAssumption
       DEF OrderInit, Init, LInv, HeldInside, Calling, Paths

LEMMA LInvStep == OInv /\ TermsInv /\ LInv /\ [OrderNext]_ovars => LInv'
<1> SUFFICES ASSUME OInv, TermsInv, LInv, [OrderNext]_ovars PROVE LInv'
    OBVIOUS
<1>1. CASE UNCHANGED ovars \/ MarketChanges
    BY <1>1, HadStep DEF LInv, HeldInside, Calling, Paths, vars
<1>2. ASSUME NEW c \in Callers, Begin(c) \/ OrderStep(c) PROVE LInv'
    <2>1. HeldInside'
        <3>1. CASE UNCHANGED vars
            BY <3>1 DEF LInv, HeldInside, vars
        <3>2. CASE Call(c) \/ Step(c)
            BY <3>2, HeldInsideStep DEF LInv, OInv
        <3> QED
            BY <1>2, <3>1, <3>2, OneCacheStep DEF Begin
    <2>2. Calling' /\ Paths'
        BY <1>2, CallingStep, PathsStep
    <2> QED
        BY <2>1, <2>2 DEF LInv
<1> QED
    BY <1>1, <1>2, OwnOrMarket

\* A call waits at the mutex, where only others can let it go on.
Waits(c) ==
    /\ at[c] = "sign"
    /\ \/ pc[c] = "enter" /\ ~MayRead
       \/ pc[c] = "lock" /\ ~MayWrite

\* However many orders meet at the builder cache, whose waiting writers keep new
\* readers out: while any call is under way, one of them waits for nobody.
SomeoneRuns ==
    (\E c \in Callers : at[c] # "idle") =>
        \E c \in Callers : at[c] # "idle" /\ ~Waits(c)

\* getOrCreateV2Builder does not deadlock, for any number of goroutines.
THEOREM NoDeadlock == OrderSpec => []SomeoneRuns
<1>1. OInv /\ LInv => SomeoneRuns
    <2> SUFFICES ASSUME OInv, LInv, NEW c \in Callers, at[c] # "idle",
                        \A d \in Callers : at[d] # "idle" => Waits(d)
                 PROVE  FALSE
        BY DEF SomeoneRuns
    <2>t. TypeOK /\ HeldInside /\ Calling
        BY DEF OInv, CInv, LInv
    <2>1. writer = NoCaller
        <3>1. ASSUME writer # NoCaller PROVE FALSE
            <4>1. writer \in Callers /\ pc[writer] \in Critical
                BY <2>t, <3>1 DEF TypeOK, HeldInside
            <4>2. at[writer] = "sign" /\ pc[writer] \notin {"enter", "lock"}
                BY <2>t, <4>1 DEF Calling, Critical
            <4> QED
                BY <4>1, <4>2 DEF Waits
        <3> QED
            BY <3>1
    <2>2. readers = {}
        <3>1. ASSUME NEW d \in readers PROVE FALSE
            <4>1. d \in Callers /\ pc[d] \in {"lookup", "leave"}
                BY <2>t, <3>1 DEF HeldInside
            <4>2. at[d] = "sign" /\ pc[d] \notin {"enter", "lock"}
                BY <2>t, <4>1 DEF Calling
            <4> QED
                BY <4>1, <4>2 DEF Waits
        <3> QED
            BY <3>1
    <2>3. MayWrite
        BY <2>1, <2>2 DEF MayWrite
    <2>4. pc[c] = "enter" /\ ~MayRead
        BY <2>3 DEF Waits
    <2>5. PICK d \in Callers : pc[d] = "lock"
        BY <2>1, <2>4 DEF MayRead
    <2>6. at[d] = "sign"
        BY <2>t, <2>5 DEF Calling
    <2> QED
        BY <2>3, <2>5, <2>6 DEF Waits
<1> QED
    BY <1>1, TermsInvInit, OrderInitInv, OrderStepInv, TermsInvStep, LInvInit, LInvStep,
       PTL DEF OrderSpec

\* How many steps of its own a call has left at most: at the builder cache, for
\* the order's own terms, and for the fee info of a protected buy.
BuilderLeft(c) ==
    CASE pc[c] = "enter" -> 12
      [] pc[c] = "lookup" -> 11
      [] pc[c] = "make" -> 10
      [] pc[c] = "lock" -> 9
      [] pc[c] = "recheck" -> 8
      [] pc[c] = "store" -> 7
      [] pc[c] \in {"unlock", "leave"} -> 6
      [] pc[c] \in {"done", "idle"} -> 5
StepsLeft(c) ==
    LET protecting == use[c] = "balance" IN
    CASE at[c] = "idle" -> 0
      [] at[c] \in {"signed", "exponent"} -> 1
      [] at[c] = "sign" -> BuilderLeft(c)
      [] at[c] = "builder" -> 14
      [] at[c] = "fee" -> 15
      [] at[c] = "validate" -> 20
      [] at[c] = "rateAsk" -> 21
      [] at[c] = "rate" -> 22
      [] at[c] = "negAsk" -> 23
      [] at[c] = "neg" -> 24
      [] at[c] = "tickAsk" -> 25
      [] at[c] = "tick" -> 26
      [] at[c] = "read" -> 27
      [] at[c] = "market" -> IF protecting THEN 16 ELSE 28
      [] at[c] = "byToken" -> IF protecting THEN 17 ELSE 29
      [] at[c] = "ensure" -> IF protecting THEN 18 ELSE 30
      [] at[c] = "resolve" -> 31

LEMMA StepsLeftBounded ==
    ASSUME OInv, NEW c \in Callers
    PROVE  StepsLeft(c) \in 0..31 /\ (at[c] # "idle" => StepsLeft(c) > 0)
<1>1. CallsTyped /\ pc[c] \in Labels
    BY TypeParts DEF OInv, CInv, TypeOK
<1>2. BuilderLeft(c) \in 5..12
    BY <1>1 DEF BuilderLeft, Labels
<1>3. CASE at[c] = "sign"
    BY <1>2, <1>3 DEF StepsLeft
<1>4. CASE at[c] \in {"idle", "signed", "exponent", "builder", "fee", "validate",
                      "rateAsk", "rate"}
    BY <1>4 DEF StepsLeft
<1>5. CASE at[c] \in {"negAsk", "neg", "tickAsk", "tick", "read", "resolve"}
    BY <1>5 DEF StepsLeft
<1>6. CASE at[c] \in {"market", "byToken", "ensure"}
    BY <1>6 DEF StepsLeft
<1> QED
    BY <1>1, <1>3, <1>4, <1>5, <1>6 DEF CallsTyped

LEMMA OwnStepCounts ==
    ASSUME OInv, LInv, NEW c \in Callers, OrderStep(c)
    PROVE  StepsLeft(c)' < StepsLeft(c)
<1>1. CallsTyped /\ TypeOK /\ Calling /\ Paths /\ at[c] # "idle"
    BY TypeParts, Groups DEF OInv, LInv, CInv, Resolve, ResolveLocally,
        ResolveMiss, ReadTerms, Ensure, EnsureHit, EnsureMiss, MarketByToken,
        ClobMarketInfo, MarketFails, LookUp, TickHit, TickMiss, TickAnswer,
        NegHit, NegMiss, NegAnswer, RateHit, RateMiss, RateAnswer, Complete,
        Valid, AdjustAmount, GetBuilder, BuilderStep, Sign, SignForRFQ, End,
        Fail, SignFails, Deliver, EndOrder
<1> USE <1>1 DEF CallsTyped
<1>2. CASE Resolve(c)
    BY <1>2 DEF Resolve, ResolveLocally, ResolveMiss, ReadTerms, StepsLeft, Paths
<1>3. CASE Ensure(c)
    <2>1. CASE EnsureHit(c)
        BY <2>1 DEF EnsureHit, Ensured, StepsLeft
    <2>2. CASE EnsureMiss(c)
        BY <2>2 DEF EnsureMiss, StepsLeft
    <2>3. CASE MarketByToken(c)
        BY <2>3 DEF MarketByToken, StepsLeft
    <2>4. CASE ClobMarketInfo(c)
        BY <2>4 DEF ClobMarketInfo, Ensured, StepsLeft
    <2>5. CASE MarketFails(c)
        BY <2>5 DEF MarketFails, StepsLeft
    <2> QED
        BY <1>3, <2>1, <2>2, <2>3, <2>4, <2>5 DEF Ensure
<1>4. CASE LookUp(c)
    <2>1. CASE TickHit(c) \/ TickAnswer(c)
        BY <2>1 DEF TickHit, TickAnswer, TickKnown, Finish, StepsLeft
    <2>2. CASE NegHit(c) \/ NegAnswer(c)
        BY <2>2 DEF NegHit, NegAnswer, NegKnown, Finish, StepsLeft
    <2>3. CASE RateHit(c) \/ RateAnswer(c)
        BY <2>3 DEF RateHit, RateAnswer, RateKnown, Finish, StepsLeft
    <2>4. CASE TickMiss(c) \/ NegMiss(c) \/ RateMiss(c)
        BY <2>4 DEF TickMiss, NegMiss, RateMiss, StepsLeft
    <2> QED
        BY <1>4, <2>1, <2>2, <2>3, <2>4 DEF LookUp
<1>5. CASE Complete(c)
    <2>1. CASE Valid(c)
        BY <2>1 DEF Valid, StepsLeft
    <2>2. CASE AdjustAmount(c)
        BY <2>2 DEF AdjustAmount, StepsLeft
    <2>3. CASE GetBuilder(c)
        BY <2>3 DEF GetBuilder, Call, Goto, TypeOK, StepsLeft, BuilderLeft
    <2>4. CASE BuilderStep(c)
        <3>1. BuilderLeft(c)' < BuilderLeft(c)
            BY <2>4 DEF BuilderStep, Step, RLock, Hit, LeaveHit, Miss, Make,
                MakeFails, Lock, Discard, StillAbsent, Store, Unlock, Return,
                Goto, TypeOK, BuilderLeft
        <3> QED
            BY <2>4, <3>1 DEF BuilderStep, StepsLeft
    <2>5. CASE Sign(c) \/ SignForRFQ(c)
        BY <2>5 DEF Sign, SignForRFQ, StepsLeft, BuilderLeft
    <2> QED
        BY <1>5, <2>1, <2>2, <2>3, <2>4, <2>5 DEF Complete
<1>6. CASE End(c)
    <2>1. at'[c] = "idle"
        BY <1>6 DEF End, Fail, SignFails, Deliver, EndOrder, Finish
    <2>2. StepsLeft(c)' = 0
        BY <2>1 DEF StepsLeft
    <2> QED
        BY <2>2, StepsLeftBounded
<1> QED
    BY <1>2, <1>3, <1>4, <1>5, <1>6, Groups

\* Nobody else's step takes a call back.
LEMMA OthersCount ==
    ASSUME OInv, NEW c \in Callers, NEW d \in Callers, d # c,
           Begin(d) \/ OrderStep(d)
    PROVE  StepsLeft(c)' = StepsLeft(c)
<1>1. at'[c] = at[c] /\ use'[c] = use[c]
    BY OthersKept DEF Others
<1>2. pc'[c] = pc[c]
    BY OneCacheStep, Ownership DEF Mine, vars, Begin, OInv, CInv
<1>3. BuilderLeft(c)' = BuilderLeft(c)
    BY <1>2 DEF BuilderLeft
<1> QED
    BY <1>1, <1>3 DEF StepsLeft

StepsBounded == \A c \in Callers : StepsLeft(c) \in 0..31

StepCounts(c) ==
    at[c] # "idle" =>
        /\ StepsLeft(c)' <= StepsLeft(c)
        /\ OrderStep(c) => StepsLeft(c)' < StepsLeft(c)

EveryStepCounts == [][\A c \in Callers : StepCounts(c)]_ovars

\* CreateOrderV2, createOrderV1ForRFQ and the lookups end: a call makes at most
\* 31 steps of its own, each brings its end nearer, and nothing that other
\* orders do to the caches or the mutex adds to them.
THEOREM OrdersAreShort == OrderSpec => []StepsBounded /\ EveryStepCounts
<1>1. OInv => StepsBounded
    BY StepsLeftBounded DEF StepsBounded
<1>2. OInv' => StepsBounded'
    BY <1>1, PTL
<1>3. OInv /\ LInv /\ [OrderNext]_ovars => [\A c \in Callers : StepCounts(c)]_ovars
    <2> SUFFICES ASSUME OInv, LInv, OrderNext, NEW c \in Callers, at[c] # "idle"
                 PROVE  StepCounts(c)
        BY DEF StepCounts
    <2>a. CASE MarketChanges
        <3>1. ~OrderStep(c) /\ UNCHANGED <<at, use, pc>>
            BY <2>a, HadStep DEF vars
        <3>2. StepsLeft(c)' = StepsLeft(c)
            BY <3>1 DEF StepsLeft, BuilderLeft
        <3>3. StepsLeft(c) \in 0..31
            BY StepsLeftBounded
        <3> QED
            BY <3>1, <3>2, <3>3 DEF StepCounts
    <2> SUFFICES ASSUME ~MarketChanges PROVE StepCounts(c)
        BY <2>a
    <2>1. PICK d \in Callers : Begin(d) \/ OrderStep(d)
        BY OwnOrMarket
    <2>2. StepsLeft(c) \in 0..31
        BY StepsLeftBounded
    <2>3. CASE OrderStep(c)
        <3>1. StepsLeft(c)' < StepsLeft(c)
            BY <2>3, OwnStepCounts
        <3>2. StepsLeft(c)' \in 0..31
            BY <1>2, OrderStepInv DEF StepsBounded
        <3> QED
            BY <2>2, <3>1, <3>2 DEF StepCounts
    <2>4. CASE ~OrderStep(c)
        <3>1. ~Begin(c)
            BY DEF Begin, CreateOrder, CreateOrderForRFQ, Query, Start
        <3>2. StepsLeft(c)' = StepsLeft(c)
            BY <2>1, <2>4, <3>1, OthersCount
        <3> QED
            BY <2>2, <2>4, <3>2 DEF StepCounts
    <2> QED
        BY <2>3, <2>4
<1> QED
    BY <1>1, <1>3, TermsInvInit, OrderInitInv, OrderStepInv, TermsInvStep, LInvInit,
       LInvStep, PTL DEF OrderSpec, EveryStepCounts

=============================================================================
