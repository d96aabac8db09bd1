------------------------ MODULE OnchainExecuteProofs ------------------------
(***************************************************************************)
(* For any number of goroutines, the nonces that the counter of            *)
(* NonceManager hands out increase from one fetch to the next, are unique  *)
(* unless it is fetched while somebody holds one, and leave no gap that a  *)
(* caller did not make.  The calls of the web3 client are, for the counter *)
(* on the same account, foreign senders: that holds beside them as well.   *)
(* And for any number of goroutines, calls and transactions, a call that   *)
(* succeeds has each of its transactions mined as its own, and one that    *)
(* fails leaves at most its last one in doubt.                             *)
(***************************************************************************)
EXTENDS OnchainExecute, TLAPS

-----------------------------------------------------------------------------
(* The nonce counter.                                                      *)

ManagerTyped ==
    /\ hasNonce \in BOOLEAN
    /\ cachedNonce \in Nat
    /\ pc \in [Callers -> Labels]
    /\ nonce \in [Callers -> Nat \cup {NoNonce}]
    /\ mined \in Nat
    /\ last \in Nat

\* The mutex is held exactly by the caller between Lock and Unlock; a caller
\* that fetches found no nonce, one that takes has one.
MutexInv ==
    \A c \in Callers :
        /\ pc[c] \in {"fetching", "taking"} => lock = c
        /\ pc[c] = "fetching" => ~hasNonce
        /\ pc[c] = "taking" => hasNonce

\* Every nonce in use was taken from the counter, below its current value, and
\* so was the last one.
BelowInv ==
    /\ ~overlap => \A c \in Callers :
         Holding(c) => nonce[c] \in Nat /\ (hasNonce => nonce[c] < cachedNonce)
    /\ hasNonce => last <= cachedNonce

NInv == ManagerTyped /\ MutexInv /\ BelowInv /\ UniqueNonces

LEMMA NInit == Init => NInv
<1> SUFFICES ASSUME Init PROVE NInv
    OBVIOUS
<1>1. hasNonce \in BOOLEAN /\ ~hasNonce
    BY DEF Init
<1>2. ManagerTyped
    BY <1>1 DEF Init, ManagerTyped, Labels
<1>3. \A c \in Callers : pc[c] = "idle"
    BY DEF Init
<1>4. last = 0
    BY DEF Init
<1> QED
    BY <1>1, <1>2, <1>3, <1>4 DEF NInv, MutexInv, BelowInv, UniqueNonces, Holding

LEMMA NStep ==
    NInv /\ [Next]_vars => NInv' /\ [\A c \in Callers :
        pc[c] = "taking" /\ pc'[c] = "gas"
            => nonce'[c] >= last]_vars
<1> SUFFICES ASSUME NInv, [Next]_vars
             PROVE  NInv' /\ \A c \in Callers :
                      pc[c] = "taking" /\ pc'[c] = "gas"
                          => nonce'[c] >= last
    OBVIOUS
<1> USE NonceAssumption
    DEF NInv, ManagerTyped, MutexInv, BelowInv, UniqueNonces, Holding, Labels,
        Goto, manager, chain
<1>1. ASSUME NEW c \in Callers, Acquire(c) PROVE NInv'
    BY <1>1 DEF Acquire, LockFree
<1>2. ASSUME NEW c \in Callers, Fetch(c) PROVE NInv'
  <2>1. cachedNonce' \in Nat /\ last' = 0 /\ hasNonce'
    BY <1>2 DEF Fetch
  <2>2. pc[c] = "fetching" /\ pc' = [pc EXCEPT ![c] = "taking"] /\ lock' = lock
        /\ nonce' = nonce /\ mined' = mined
    BY <1>2 DEF Fetch
  <2>3. ManagerTyped' /\ MutexInv'
    <3>1. ManagerTyped'
      BY <2>1, <2>2
    <3>2. MutexInv'
      BY <2>1, <2>2
    <3> QED
      BY <3>1, <3>2
  <2>4. overlap' = (overlap \/ \E d \in Callers : Holding(d))
    BY <1>2 DEF Fetch
  <2>5. \A d \in Callers : Holding(d)' => Holding(d)
    BY <2>2
  <2>6. ~overlap' => \A d \in Callers : ~Holding(d)'
    <3> HIDE DEF Holding
    <3> QED
      BY <2>4, <2>5
  <2>7. BelowInv'
    BY <2>1, <2>6
  <2>8. UniqueNonces'
    BY <2>6
  <2> QED
    BY <2>3, <2>7, <2>8
<1>3. ASSUME NEW c \in Callers, FetchError(c) PROVE NInv'
    BY <1>3 DEF FetchError
<1>4. ASSUME NEW c \in Callers, Take(c) 
      PROVE  NInv' /\ nonce'[c] >= last
    BY <1>4 DEF Take, Advance
<1>5. ASSUME NEW c \in Callers, GasOk(c) PROVE NInv'
    BY <1>5 DEF GasOk
<1>6. ASSUME NEW c \in Callers, GasError(c) PROVE NInv'
    BY <1>6 DEF GasError
<1>7. ASSUME NEW c \in Callers, Send(c) \/ Drop(c) \/ Hang(c) PROVE NInv'
    BY <1>7 DEF Send, Drop, Hang
<1>8. CASE InvalidateNonce
    BY <1>8 DEF InvalidateNonce
<1>9. CASE Mine
    BY <1>9 DEF Mine
<1>10. CASE ForeignSend
    BY <1>10 DEF ForeignSend
<1>11. CASE UNCHANGED vars
    BY <1>11 DEF vars
<1>12. NInv'
    BY <1>1, <1>2, <1>3, <1>4, <1>5, <1>6, <1>7, <1>8, <1>9, <1>10, <1>11
    DEF Next, Progress
<1>13. ASSUME NEW c \in Callers, pc[c] = "taking", pc'[c] = "gas"
       PROVE  nonce'[c] >= last
  <2>1. CASE Take(c)
    BY <1>4, <1>13, <2>1
  <2>2. CASE ~Take(c)
    BY <1>13, <2>2 DEF Next, Progress, Acquire, Fetch, FetchError, Take, GasOk,
       GasError, Send, Drop, Hang, InvalidateNonce, Mine, ForeignSend, vars
  <2> QED
    BY <2>1, <2>2
<1> QED
    BY <1>12, <1>13

\* As long as nobody holds a nonce when the counter is fetched again, no two
\* transactions get the same nonce: the mutex covers the fetch, the test and
\* the increment.
THEOREM NoncesUnique == Spec => []UniqueNonces
<1>1. NInv => UniqueNonces
    BY DEF NInv
<1> QED
    BY <1>1, NInit, NStep, PTL DEF Spec

\* And they increase in the order they are handed out, as the comment of
\* GetTransactionOpts says, from one fetch to the next.
THEOREM NoncesMonotonic == Spec => MonotonicNonces
<1> QED
    BY NInit, NStep, PTL DEF Spec, MonotonicNonces

\* A caller that holds options has a nonce, and what is below the counter is
\* accounted for.
AccountInv ==
    /\ pool \subseteq Nat
    /\ \A c \in Callers : Holding(c) => nonce[c] \in Nat
    /\ NoncesAccounted

LEMMA AccountStep == NInv /\ AccountInv /\ [Next]_vars => AccountInv'
<1> SUFFICES ASSUME NInv, AccountInv, [Next]_vars PROVE AccountInv'
    OBVIOUS
<1> USE NonceAssumption
    DEF NInv, ManagerTyped, AccountInv, NoncesAccounted, Holding, Labels, Goto,
        manager, chain
<1>1. ASSUME NEW c \in Callers, Acquire(c) \/ FetchError(c) \/ GasOk(c) \/ Hang(c)
      PROVE  AccountInv'
  <2>1. UNCHANGED <<hasNonce, cachedNonce, nonce, mined, pool, dropped>>
    BY <1>1 DEF Acquire, FetchError, GasOk, Hang
  <2>2. \A d \in Callers : Holding(d)' <=> Holding(d)
    BY <1>1 DEF Acquire, LockFree, FetchError, GasOk, Hang
  <2> QED
    BY <2>1, <2>2
<1>2. ASSUME NEW c \in Callers, Fetch(c) PROVE AccountInv'
  <2>1. PICK n \in mined..(mined + MaxCalls + 1) :
          IsPendingNonce(n) /\ cachedNonce' = n
    BY <1>2 DEF Fetch
  <2>2. \A m \in mined..(cachedNonce' - 1) : m \in pool
    BY <2>1 DEF IsPendingNonce
  <2>3. UNCHANGED <<nonce, mined, pool, dropped>>
    BY <1>2 DEF Fetch
  <2>4. \A d \in Callers : Holding(d)' => Holding(d)
    BY <1>2 DEF Fetch
  <2> QED
    BY <2>2, <2>3, <2>4
<1>3. ASSUME NEW c \in Callers, Take(c) PROVE AccountInv'
    BY <1>3 DEF Take, Advance, MutexInv
<1>4. ASSUME NEW c \in Callers, GasError(c) \/ Drop(c) PROVE AccountInv'
  <2>1. CASE GasError(c)
    BY <2>1 DEF GasError
  <2>2. CASE Drop(c)
    BY <2>2 DEF Drop
  <2> QED
    BY <1>4, <2>1, <2>2
<1>5. ASSUME NEW c \in Callers, Send(c) PROVE AccountInv'
  <2>1. /\ nonce[c] \in Nat /\ UNCHANGED <<hasNonce, cachedNonce, mined, dropped>>
        /\ pool' = pool \cup {nonce[c]}
    BY <1>5 DEF Send
  <2>2. /\ ~Holding(c)'
        /\ \A d \in Callers : d # c => /\ Holding(d)' <=> Holding(d)
                                       /\ nonce'[d] = nonce[d]
    BY <1>5 DEF Send
  <2>3. pool' \subseteq Nat
    BY <2>1
  <2>4. \A d \in Callers : Holding(d)' => nonce'[d] \in Nat
    BY <2>2
  <2>5. ASSUME hasNonce, NEW n \in mined..(cachedNonce - 1)
        PROVE  n \in pool' \cup dropped \/ \E d \in Callers : Holding(d)' /\ nonce'[d] = n
    <3>1. CASE n \in pool \cup dropped
      BY <2>1, <3>1
    <3>2. CASE n = nonce[c]
      BY <2>1, <2>5, <3>2
    <3>3. ASSUME NEW d \in Callers, d # c, Holding(d), nonce[d] = n
          PROVE  Holding(d)' /\ nonce'[d] = n
      BY <2>2, <3>3
    <3> QED
      BY <2>5, <3>1, <3>2, <3>3
  <2> QED
    BY <2>1, <2>3, <2>4, <2>5
<1>6. CASE InvalidateNonce
    BY <1>6 DEF InvalidateNonce
<1>7. CASE Mine
    BY <1>7 DEF Mine
<1>8. CASE ForeignSend
    BY <1>8 DEF ForeignSend
<1>9. CASE UNCHANGED vars
    BY <1>9 DEF vars
<1> QED
    BY <1>1, <1>2, <1>3, <1>4, <1>5, <1>6, <1>7, <1>8, <1>9 DEF Next, Progress

\* Every nonce below the counter is mined, pending, held, or was dropped by the
\* caller that got it, also after resynchronisations.
THEOREM NoNonceForgotten == Spec => []NoncesAccounted
<1>1. Init => AccountInv
    BY DEF Init, AccountInv, NoncesAccounted, Holding
<1>2. AccountInv => NoncesAccounted
    BY DEF AccountInv
<1> QED
    BY <1>1, <1>2, NInit, NStep, AccountStep, PTL DEF Spec

-----------------------------------------------------------------------------
(* The web3 client beside it.                                              *)

LEMMA InitMapped == OnchainInit => Init
    BY DEF OnchainInit

\* Every step is a step of the nonce counter and its environment, or changes
\* none of their variables.
LEMMA StepMapped == [OnchainNext]_onVars => [Next]_vars
<1> SUFFICES ASSUME [OnchainNext]_onVars PROVE [Next]_vars
    OBVIOUS
<1>1. ASSUME NEW r \in Runners, Begin(r) \/ RunnerStep(r) \/ Hangs(r) PROVE [Next]_vars
  <2>1. CASE Accepted(r)
    BY <2>1 DEF Accepted, Next
  <2> QED
    BY <1>1, <2>1 DEF Begin, RunnerStep, CheckOk, Fails, ReadNonce, SendFails,
       Replaces, Receipt, Timeout, Hangs
<1>2. ASSUME NEW c \in Callers, CallerStep(c) PROVE [Next]_vars
    BY <1>2 DEF CallerStep, OptsSend, Next, Progress
<1>3. CASE MineStep \/ NonceStep
    BY <1>3 DEF MineStep, NonceStep, Next
<1>4. CASE UNCHANGED onVars
    BY <1>4 DEF onVars
<1> QED
    BY <1>1, <1>2, <1>3, <1>4 DEF OnchainNext

\* The client's calls beside the nonce counter are one of its environments.
THEOREM OnchainImplements == OnchainSpec => Spec
<1> QED
    BY InitMapped, StepMapped, PTL DEF OnchainSpec, Spec

\* So the nonces handed out stay unique while the web3 client sends from the
\* same account.
THEOREM OnchainNoncesUnique == OnchainSpec => []UniqueNonces
<1> QED
    BY OnchainImplements, NoncesUnique, PTL

\* And none of them is forgotten: the gaps are those its callers made.
THEOREM OnchainNoncesAccounted == OnchainSpec => []NoncesAccounted
<1> QED
    BY OnchainImplements, NoNonceForgotten, PTL

-----------------------------------------------------------------------------
(* The calls of the web3 client.                                           *)

CallsTyped ==
    /\ mined \in Nat
    /\ pool \subseteq Nat
    /\ doing \in [Runners -> Places]
    /\ todo \in [Runners -> Nat]
    /\ receipts \in [Runners -> Seq(Nonces)]
    /\ sent \in [Runners -> Nonces \cup {NoNonce}]
    /\ answer \in [Runners -> {"none", "done", "error"}]
    /\ owner \in [Nonces -> Runners \cup {Other}]

\* What is in the pool is not mined.
PoolInv == \A n \in pool : n >= mined

\* Who holds options has a nonce.
HoldInv == \A c \in Callers : Holding(c) => nonce[c] \in Nat

\* The receipts of a call are of its own transactions, in nonce order.
ReceiptsInv ==
    \A r \in Runners : \A i \in 1..Len(receipts[r]) :
        /\ receipts[r][i] < mined
        /\ owner[receipts[r][i]] = r
        /\ \A j \in 1..(i - 1) : receipts[r][j] < receipts[r][i]

HasReceipt(r, n) == \E i \in 1..Len(receipts[r]) : receipts[r][i] = n

\* Where a call is tells which of its transactions has no receipt: none before
\* it sends, the one it awaits, or, after an error, one above all the others.
DoubtInv ==
    \A r \in Runners :
        /\ doing[r] \in {"check", "build", "send"} \/ (doing[r] = "idle" /\ answer[r] # "error")
             => \A n \in Nonces : owner[n] = r => HasReceipt(r, n)
        /\ doing[r] = "wait" =>
             /\ sent[r] \in Nonces
             /\ \A n \in Nonces : owner[n] = r => HasReceipt(r, n) \/ n = sent[r]
             /\ \A i \in 1..Len(receipts[r]) : receipts[r][i] < sent[r]
        /\ doing[r] = "send" => sent[r] \in Nonces

\* A call that is done has all its receipts.
DoneInv ==
    \A r \in Runners :
        /\ answer[r] = "done" => Len(receipts[r]) = todo[r] /\ doing[r] = "idle"

OInv ==
    CallsTyped /\ PoolInv /\ ReceiptsInv /\ DoubtInv /\ DoneInv /\ OneStepUncertain

\* What the steps of the nonce counter and of the chain do to the pool.
LEMMA ChainStep ==
    ASSUME NInv, HoldInv, mined \in Nat, pool \subseteq Nat, PoolInv, [Next]_vars
    PROVE  HoldInv' /\ mined' \in Nat /\ pool' \subseteq Nat /\ PoolInv' /\ mined' >= mined
<1> DEFINE Chain == mined' \in Nat /\ pool' \subseteq Nat /\ PoolInv' /\ mined' >= mined
<1> USE NonceAssumption DEF NInv, ManagerTyped, Labels
<1>1. ASSUME NEW c \in Callers,
             \/ Acquire(c) \/ Fetch(c) \/ FetchError(c)
             \/ GasOk(c) \/ GasError(c) \/ Drop(c) \/ Hang(c)
      PROVE  HoldInv' /\ Chain
  <2>1. HoldInv'
    BY <1>1 DEF Acquire, LockFree, Fetch, FetchError, GasOk, GasError, Drop, Hang,
       HoldInv, Holding, Goto, manager, chain
  <2>2. UNCHANGED <<mined, pool>>
    BY <1>1 DEF Acquire, Fetch, FetchError, GasOk, GasError, Drop, Hang, chain
  <2>3. Chain
    BY <2>2 DEF PoolInv
  <2> QED
    BY <2>1, <2>3
<1>2. ASSUME NEW c \in Callers, Take(c) PROVE HoldInv' /\ Chain
    BY <1>2 DEF Take, HoldInv, Holding, PoolInv, Goto, chain
<1>3. ASSUME NEW c \in Callers, Send(c) PROVE HoldInv' /\ Chain
  <2>1. HoldInv'
    BY <1>3 DEF Send, HoldInv, Holding, Goto
  <2>2. /\ nonce[c] \in Nat /\ nonce[c] >= mined /\ mined' = mined
        /\ pool' = pool \cup {nonce[c]}
    BY <1>3 DEF Send, HoldInv, Holding
  <2>3. pool' \subseteq Nat
    BY <2>2
  <2>4. PoolInv'
    BY <2>2 DEF PoolInv
  <2>5. mined' \in Nat /\ mined' >= mined
    BY <2>2
  <2> QED
    BY <2>1, <2>3, <2>4, <2>5
<1>4. ASSUME InvalidateNonce \/ UNCHANGED vars PROVE HoldInv' /\ Chain
  <2>1. HoldInv'
    BY <1>4 DEF InvalidateNonce, vars, HoldInv, Holding, chain
  <2>2. UNCHANGED <<mined, pool>>
    BY <1>4 DEF InvalidateNonce, vars, chain
  <2>3. Chain
    BY <2>2 DEF PoolInv
  <2> QED
    BY <2>1, <2>3
<1>5. ASSUME Mine PROVE HoldInv' /\ Chain
    BY <1>5 DEF Mine, HoldInv, Holding, PoolInv, manager
<1>6. ASSUME ForeignSend PROVE HoldInv' /\ Chain
    BY <1>6 DEF ForeignSend, HoldInv, Holding, PoolInv, manager
<1> QED
  <2> HIDE DEF Chain
  <2>1. HoldInv' /\ Chain
    BY <1>1, <1>2, <1>3, <1>4, <1>5, <1>6 DEF Next, Progress
  <2> QED
    BY <2>1 DEF Chain

LEMMA OInit == OnchainInit => OInv
<1> SUFFICES ASSUME OnchainInit PROVE OInv
    OBVIOUS
<1> USE OnchainAssumption, NonceAssumption
<1>1. \A r \in Runners : receipts[r] = <<>> /\ doing[r] = "idle" /\ answer[r] = "none"
    BY DEF OnchainInit
<1>2. \A n \in Nonces : owner[n] = Other
    BY DEF OnchainInit
<1>3. mined \in Nat /\ pool \subseteq Nat /\ PoolInv
    BY DEF OnchainInit, Init, PoolInv
<1>4. CallsTyped
    BY <1>3 DEF CallsTyped, OnchainInit, Init, Places
<1> QED
    BY <1>1, <1>2, <1>3, <1>4
    DEF OInv, ReceiptsInv, DoubtInv, DoneInv, OneStepUncertain

\* One more receipt, above the others.
LEMMA OneMore ==
    ASSUME NEW s \in Seq(Nonces), NEW n \in Nonces
    PROVE  /\ Append(s, n) \in Seq(Nonces)
           /\ Len(Append(s, n)) = Len(s) + 1
           /\ \A i \in 1..Len(s) : Append(s, n)[i] = s[i]
           /\ Append(s, n)[Len(s) + 1] = n
           /\ Len(s) \in Nat
    OBVIOUS

\* What happens outside a call only replaces transactions in the pool: the
\* mined ones, and so the receipts, stay what they are.
LEMMA OutsideStep ==
    ASSUME OInv, CallsTyped', PoolInv', UNCHANGED callVars,
           mined' >= mined,
           \A n \in Nonces : owner'[n] = owner[n] \/ (owner'[n] = Other /\ n >= mined)
    PROVE  OInv'
<1> USE OnchainAssumption DEF OInv, callVars
<1>1. ReceiptsInv'
  <2> SUFFICES ASSUME NEW r \in Runners, NEW i \in 1..Len(receipts[r])
               PROVE  /\ receipts[r][i] < mined'
                      /\ owner'[receipts[r][i]] = r
                      /\ \A j \in 1..(i - 1) : receipts[r][j] < receipts[r][i]
      BY DEF ReceiptsInv
  <2>1. receipts[r][i] \in Nonces
      BY DEF CallsTyped
  <2> QED
      BY <2>1 DEF ReceiptsInv, CallsTyped, Nonces
<1>2. DoubtInv'
    BY DEF DoubtInv, HasReceipt
<1>3. OneStepUncertain'
    BY DEF OneStepUncertain
<1> QED
    BY <1>1, <1>2, <1>3 DEF DoneInv

\* A receipt for the awaited transaction, above all earlier ones.
LEMMA ReceiptStep ==
    ASSUME OInv, NEW r \in Runners, doing[r] = "wait", sent[r] \in Nonces,
           sent[r] < mined, owner[sent[r]] = r,
           receipts' = [receipts EXCEPT ![r] = Append(receipts[r], sent[r])],
           UNCHANGED <<vars, todo, owner>>,
           sent' = [sent EXCEPT ![r] = NoNonce],
           NEW d \in {"idle", "build"}, doing' = [doing EXCEPT ![r] = d],
           NEW a \in {"none", "done", "error"}, answer' = [answer EXCEPT ![r] = a],
           a = "done" => Len(receipts[r]) + 1 = todo[r] /\ d = "idle",
           d = "idle" => a # "error"
    PROVE  OInv'
<1> USE DEF OInv, Places
<1>1. CallsTyped' /\ PoolInv'
    BY DEF CallsTyped, PoolInv, vars, chain
<1>2. /\ Len(receipts'[r]) = Len(receipts[r]) + 1
      /\ \A i \in 1..Len(receipts[r]) : receipts'[r][i] = receipts[r][i]
      /\ receipts'[r][Len(receipts[r]) + 1] = sent[r]
      /\ Len(receipts[r]) \in Nat
      /\ \A q \in Runners : q # r => receipts'[q] = receipts[q]
    BY OneMore DEF CallsTyped
<1>3. \A i \in 1..Len(receipts[r]) : receipts[r][i] < sent[r]
    BY DEF DoubtInv
<1>4. ReceiptsInv'
    BY <1>2, <1>3 DEF ReceiptsInv, CallsTyped, vars, chain
<1>5. \A n \in Nonces : owner[n] = r => HasReceipt(r, n)'
  <2> SUFFICES ASSUME NEW n \in Nonces, owner[n] = r
               PROVE  \E i \in 1..Len(receipts'[r]) : receipts'[r][i] = n
      BY DEF HasReceipt
  <2>1. CASE n = sent[r]
      BY <1>2, <2>1
  <2>2. CASE HasReceipt(r, n)
      BY <1>2, <2>2 DEF HasReceipt
  <2> QED
      BY <2>1, <2>2 DEF DoubtInv
<1>6. DoubtInv'
    BY <1>2, <1>5 DEF DoubtInv, HasReceipt, CallsTyped
<1>7. DoneInv'
    BY <1>2 DEF DoneInv, CallsTyped
<1>8. OneStepUncertain'
  <2> SUFFICES ASSUME NEW q \in Runners, NEW m \in Nonces, NEW n \in Nonces,
                      owner[m] = q, owner[n] = q,
                      m \notin {receipts'[q][i] : i \in DOMAIN receipts'[q]}
               PROVE  n <= m
      BY DEF OneStepUncertain
  <2>1. CASE q = r
    <3>1. DOMAIN receipts'[r] = 1..Len(receipts'[r])
        BY <1>1 DEF CallsTyped
    <3> QED
        BY <1>5, <2>1, <3>1 DEF HasReceipt
  <2>2. CASE q # r
      BY <1>2, <2>2 DEF OneStepUncertain
  <2> QED
      BY <2>1, <2>2
<1> QED
    BY <1>1, <1>4, <1>6, <1>7, <1>8

LEMMA OStep ==
    OInv /\ NInv /\ HoldInv /\ [OnchainNext]_onVars => OInv' /\ NInv' /\ HoldInv'
<1> SUFFICES ASSUME OInv, NInv, HoldInv, [OnchainNext]_onVars
             PROVE  OInv' /\ NInv' /\ HoldInv'
    OBVIOUS
<1>0. NInv' /\ HoldInv' /\ mined' \in Nat /\ pool' \subseteq Nat /\ PoolInv' /\ mined' >= mined
    BY NStep, StepMapped, ChainStep DEF OInv, CallsTyped
<1> USE OnchainAssumption, NonceAssumption
    DEF OInv, Places
<1>1. ASSUME NEW r \in Runners, Begin(r) PROVE OInv'
  <2>1. doing[r] = "idle" /\ receipts' = [receipts EXCEPT ![r] = <<>>]
        /\ answer' = [answer EXCEPT ![r] = "none"] /\ UNCHANGED <<vars, sent>>
        /\ owner' = [n \in Nonces |-> IF owner[n] = r THEN Other ELSE owner[n]]
    BY <1>1 DEF Begin
  <2>2. PICK d \in {"check", "build"}, k \in Nat :
          doing' = [doing EXCEPT ![r] = d] /\ todo' = [todo EXCEPT ![r] = k]
    <3>1. PICK kind \in {"single", "transfer", "approvals", "redeem"},
               wallet \in {"eoa", "proxy", "safe"}, n \in 1..MaxSteps :
            /\ doing' = [doing EXCEPT ![r] = IF kind = "transfer" THEN "check" ELSE "build"]
            /\ todo' = [todo EXCEPT ![r] = Transactions(kind, wallet, n)]
      BY <1>1 DEF Begin
    <3>2. Transactions(kind, wallet, n) \in Nat
      BY DEF Transactions
    <3> QED
      BY <3>1, <3>2
  <2>3. CallsTyped' /\ PoolInv'
    BY <2>1, <2>2 DEF CallsTyped, PoolInv, vars, chain
  <2>4. ReceiptsInv'
    <3> SUFFICES ASSUME NEW q \in Runners, NEW i \in 1..Len(receipts'[q])
                 PROVE  /\ receipts'[q][i] < mined
                        /\ owner'[receipts'[q][i]] = q
                        /\ \A j \in 1..(i - 1) : receipts'[q][j] < receipts'[q][i]
      BY <2>1 DEF ReceiptsInv, vars
    <3>1. receipts'[q] = receipts[q] /\ q # r
      BY <2>1 DEF CallsTyped
    <3>2. receipts[q][i] \in Nonces
      BY <3>1 DEF CallsTyped
    <3> QED
      BY <2>1, <3>1, <3>2 DEF ReceiptsInv
  <2>5. DoubtInv'
    BY <2>1, <2>2, <2>3 DEF DoubtInv, CallsTyped, HasReceipt
  <2>6. DoneInv'
    BY <2>1, <2>2, <2>3 DEF DoneInv, CallsTyped
  <2>7. OneStepUncertain'
    BY <2>1, <2>3 DEF OneStepUncertain, CallsTyped
  <2> QED
    BY <2>3, <2>4, <2>5, <2>6, <2>7
<1>2. ASSUME NEW r \in Runners, CheckOk(r) PROVE OInv'
    BY <1>2 DEF CheckOk, CallsTyped, PoolInv, ReceiptsInv, DoubtInv, HasReceipt,
       DoneInv, OneStepUncertain, vars
<1>3. ASSUME NEW r \in Runners, Fails(r) PROVE OInv'
    BY <1>3 DEF Fails, Return, After, CallsTyped, PoolInv, ReceiptsInv, DoubtInv,
       HasReceipt, DoneInv, OneStepUncertain, vars
<1>4. ASSUME NEW r \in Runners, ReadNonce(r) PROVE OInv'
    BY <1>4 DEF ReadNonce, CallsTyped, PoolInv, ReceiptsInv, DoubtInv,
       HasReceipt, DoneInv, OneStepUncertain, vars
<1>5. ASSUME NEW r \in Runners, SendFails(r) PROVE OInv'
    BY <1>5 DEF SendFails, Return, After, CallsTyped, PoolInv, ReceiptsInv, DoubtInv,
       HasReceipt, DoneInv, OneStepUncertain, vars
<1>6. ASSUME NEW r \in Runners, Timeout(r) PROVE OInv'
    BY <1>6 DEF Timeout, Return, After, CallsTyped, PoolInv, ReceiptsInv, DoubtInv,
       HasReceipt, DoneInv, OneStepUncertain, vars
<1>7. ASSUME NEW c \in Callers, OptsSend(c) PROVE OInv'
  <2>1. UNCHANGED callVars /\ CallsTyped' /\ PoolInv' /\ mined' = mined
    BY <1>0, <1>7 DEF OptsSend, Send, CallsTyped, callVars
  <2>2. \A n \in Nonces : owner'[n] = owner[n] \/ (owner'[n] = Other /\ n >= mined)
    BY <1>7 DEF OptsSend, Send, CallsTyped
  <2> QED
    BY <1>0, <2>1, <2>2, OutsideStep DEF CallsTyped
<1>8. ASSUME MineStep \/ NonceStep \/ \E c \in Callers : CallerStep(c) /\ ~OptsSend(c)
      PROVE  OInv'
  <2>1. UNCHANGED <<callVars, owner>>
    BY <1>8 DEF MineStep, NonceStep, CallerStep
  <2>2. CallsTyped' /\ PoolInv' /\ mined' >= mined
    BY <1>0, <2>1 DEF CallsTyped, callVars
  <2> QED
    BY <1>0, <2>1, <2>2, OutsideStep
<1>9. CASE UNCHANGED onVars
  <2>1. UNCHANGED <<callVars, owner>>
    BY <1>9 DEF onVars
  <2>2. CallsTyped'
    BY <1>0, <2>1 DEF CallsTyped, callVars
  <2> QED
    BY <1>0, <2>1, <2>2, OutsideStep
<1>10. ASSUME NEW r \in Runners, Accepted(r) \/ Replaces(r) PROVE OInv'
  <2>1. /\ doing[r] = "send" /\ sent[r] \in Nonces
        /\ owner' = [owner EXCEPT ![sent[r]] = r]
        /\ UNCHANGED <<todo, receipts, mined, nonce>>
    BY <1>10 DEF Accepted, Replaces, ForeignSend, DoubtInv, vars, chain
  <2>2. \/ doing' = [doing EXCEPT ![r] = "wait"] /\ UNCHANGED <<sent, answer>>
        \/ Return(r, "error")
    BY <1>10 DEF Accepted, Replaces
  <2>3. sent[r] >= mined
    <3>1. CASE Replaces(r)
      BY <3>1 DEF Replaces, PoolInv
    <3>2. CASE Accepted(r)
      <4>1. PICK n \in mined..(mined + MaxCalls + 1) :
              n \notin pool /\ pool \cup {sent[r]} = pool \cup {n}
        BY <3>2 DEF Accepted, ForeignSend, IsPendingNonce
      <4>2. n = sent[r]
        BY <4>1
      <4> QED
        BY <4>1, <4>2 DEF CallsTyped
    <3> QED
      BY <1>10, <3>1, <3>2
  <2>4. CallsTyped'
    BY <1>0, <2>1, <2>2 DEF CallsTyped, Return, After
  <2>5. \A q \in Runners : \A i \in 1..Len(receipts[q]) :
          receipts[q][i] \in Nonces /\ receipts[q][i] < mined /\ receipts[q][i] < sent[r]
    BY <2>1, <2>3 DEF ReceiptsInv, CallsTyped, Nonces
  <2>6. ReceiptsInv'
    <3> SUFFICES ASSUME NEW q \in Runners, NEW i \in 1..Len(receipts[q])
                 PROVE  /\ receipts[q][i] < mined
                        /\ owner'[receipts[q][i]] = q
                        /\ \A j \in 1..(i - 1) : receipts[q][j] < receipts[q][i]
      BY <2>1 DEF ReceiptsInv
    <3>1. receipts[q][i] \in Nonces /\ receipts[q][i] # sent[r]
      BY <2>1, <2>5 DEF Nonces
    <3>2. owner'[receipts[q][i]] = owner[receipts[q][i]]
      BY <2>1, <3>1 DEF CallsTyped
    <3> QED
      BY <3>2 DEF ReceiptsInv
  <2>7. \A n \in Nonces : owner[n] = r => HasReceipt(r, n)
    BY <2>1 DEF DoubtInv
  <2>8. DoubtInv'
    BY <2>1, <2>2, <2>5, <2>7 DEF DoubtInv, HasReceipt, CallsTyped, Return, After
  <2>9. DoneInv'
    BY <2>1, <2>2 DEF DoneInv, CallsTyped, Return, After
  <2>10. ASSUME NEW q \in Runners, NEW m \in Nonces, NEW n \in Nonces,
                owner'[m] = q, m \notin {receipts'[q][i] : i \in DOMAIN receipts'[q]},
                owner'[n] = q
         PROVE  n <= m
    <3>1. CASE q = r
      <4>1. m = sent[r]
        BY <2>1, <2>7, <2>10, <3>1 DEF HasReceipt, CallsTyped
      <4>2. n = sent[r] \/ n < sent[r]
        BY <2>1, <2>5, <2>7, <2>10, <3>1 DEF HasReceipt, CallsTyped
      <4> QED
        BY <4>1, <4>2 DEF Nonces
    <3>2. CASE q # r
      BY <2>1, <2>10, <3>2 DEF OneStepUncertain, CallsTyped
    <3> QED
      BY <3>1, <3>2
  <2>11. OneStepUncertain'
    BY <2>10 DEF OneStepUncertain
  <2> QED
    BY <1>0, <2>4, <2>6, <2>8, <2>9, <2>11
<1>11. ASSUME NEW r \in Runners, Hangs(r) PROVE OInv'
    BY <1>11 DEF Hangs, CallsTyped, PoolInv, ReceiptsInv, DoubtInv, HasReceipt,
       DoneInv, OneStepUncertain, vars
<1>12. ASSUME NEW r \in Runners, Receipt(r) PROVE OInv'
  <2>1. /\ doing[r] = "wait" /\ sent[r] < mined /\ owner[sent[r]] = r
        /\ receipts' = [receipts EXCEPT ![r] = Append(receipts[r], sent[r])]
        /\ UNCHANGED <<vars, todo, owner>>
        /\ sent[r] \in Nonces
    BY <1>12 DEF Receipt, OwnMined, DoubtInv
  <2>2. CASE LastStep(r)
    <3>1. /\ doing' = [doing EXCEPT ![r] = "idle"]
          /\ answer' = [answer EXCEPT ![r] = "done"]
          /\ sent' = [sent EXCEPT ![r] = NoNonce]
      BY <1>12, <2>2 DEF Receipt, Return, After
    <3>2. Len(receipts[r]) + 1 = todo[r]
      BY <2>2 DEF LastStep
    <3> QED
      BY <2>1, <3>1, <3>2, ReceiptStep
  <2>3. CASE ~LastStep(r)
    <3>1. /\ doing' = [doing EXCEPT ![r] = "build"]
          /\ sent' = [sent EXCEPT ![r] = NoNonce]
          /\ UNCHANGED answer
      BY <1>12, <2>3 DEF Receipt
    <3>2. answer[r] # "done" /\ answer[r] \in {"none", "done", "error"}
      BY <2>1 DEF DoneInv, CallsTyped
    <3>3. answer' = [answer EXCEPT ![r] = answer[r]]
      BY <3>1 DEF CallsTyped
    <3> QED
      BY <2>1, <3>1, <3>2, <3>3, ReceiptStep
  <2> QED
    BY <2>2, <2>3
<1> QED
    BY <1>0, <1>1, <1>2, <1>3, <1>4, <1>5, <1>6, <1>7, <1>8, <1>9, <1>10, <1>11, <1>12
    DEF OnchainNext, RunnerStep

LEMMA OnchainInitInv == OnchainInit => OInv /\ NInv /\ HoldInv
BY OInit, InitMapped, NInit DEF HoldInv, Holding, Init

\* A call that returns without an error has each of its transactions mined as
\* its own, for any number of goroutines, calls and transactions.
THEOREM ReceiptsAreMined == OnchainSpec => []DoneMeansMined
<1>1. OInv => DoneMeansMined
  <2> SUFFICES ASSUME OInv PROVE DoneMeansMined
    OBVIOUS
  <2>1. \A r \in Runners : DOMAIN receipts[r] = 1..Len(receipts[r])
    BY DEF OInv, CallsTyped
  <2> QED
    BY <2>1 DEF OInv, ReceiptsInv, DoneInv, DoneMeansMined
<1> QED
    BY <1>1, OnchainInitInv, OStep, PTL DEF OnchainSpec

\* A call that fails leaves at most its last transaction in doubt.
THEOREM LastInDoubt == OnchainSpec => []OneStepUncertain
<1>1. OInv => OneStepUncertain
    BY DEF OInv
<1> QED
    BY <1>1, OnchainInitInv, OStep, PTL DEF OnchainSpec

-----------------------------------------------------------------------------
(* Types.                                                                  *)

\* The parts of the type invariant that the proofs above do without.
ManagerRest ==
    /\ lock \in Callers \cup {NoCaller}
    /\ calls \in Nat /\ dropped \subseteq Nat
    /\ overlap \in BOOLEAN
StepsTyped ==
    /\ todo \in [Runners -> 0..MaxSteps]
    /\ begun \in 0..MaxBegun
Unfinished == \A r \in Runners : doing[r] # "idle" => Len(receipts[r]) < todo[r]

TInv == ManagerRest /\ StepsTyped /\ Unfinished

LEMMA ManagerTypeStep ==
    NInv /\ HoldInv /\ ManagerRest /\ [Next]_vars => ManagerRest'
<1> SUFFICES ASSUME NInv, HoldInv, ManagerRest, [Next]_vars PROVE ManagerRest'
    OBVIOUS
<1> USE NonceAssumption DEF NInv, ManagerTyped, Labels, ManagerRest
<1>0. overlap \in BOOLEAN /\ (overlap' \in BOOLEAN \/ overlap' = overlap)
    BY DEF Next, Progress, Acquire, Fetch, FetchError, Take, GasOk, GasError, Send, Drop,
       Hang, InvalidateNonce, Mine, ForeignSend, vars, manager, chain
<1>1. lock' \in Callers \cup {NoCaller} /\ calls' \in Nat
    BY DEF Next, Progress, Acquire, Fetch, FetchError, Take, GasOk, GasError, Send, Drop,
       Hang, InvalidateNonce, Mine, ForeignSend, vars, manager, chain
<1>2. ASSUME NEW c \in Callers, Take(c) PROVE dropped' \subseteq Nat
    BY <1>2 DEF Take
<1>3. ASSUME NEW c \in Callers, GasError(c) \/ Drop(c) PROVE dropped' \subseteq Nat
    BY <1>3 DEF GasError, Drop, HoldInv, Holding
<1>4. (\A c \in Callers : ~Take(c) /\ ~GasError(c) /\ ~Drop(c)) => dropped' = dropped
    BY DEF Next, Progress, Acquire, Fetch, FetchError, GasOk, Send, Hang, InvalidateNonce,
       Mine, ForeignSend, vars
<1>5. dropped' \subseteq Nat
    BY <1>2, <1>3, <1>4
<1>6. overlap' \in BOOLEAN
    BY <1>0
<1> QED
    BY <1>1, <1>5, <1>6

LEMMA StepsTypeStep ==
    OInv /\ StepsTyped /\ Unfinished /\ [OnchainNext]_onVars
        => StepsTyped' /\ Unfinished'
<1> SUFFICES ASSUME OInv, StepsTyped, Unfinished, [OnchainNext]_onVars
             PROVE  StepsTyped' /\ Unfinished'
    OBVIOUS
<1> USE OnchainAssumption DEF StepsTyped, Unfinished, OInv, CallsTyped
<1>1. ASSUME NEW r \in Runners, Begin(r) PROVE StepsTyped' /\ Unfinished'
  <2>1. PICK kind \in {"single", "transfer", "approvals", "redeem"},
             wallet \in {"eoa", "proxy", "safe"}, n \in 1..MaxSteps :
          todo' = [todo EXCEPT ![r] = Transactions(kind, wallet, n)]
    BY <1>1 DEF Begin
  <2>2. Transactions(kind, wallet, n) \in 1..MaxSteps
    BY DEF Transactions
  <2>3. /\ begun' = begun + 1 /\ begun < MaxBegun
        /\ receipts' = [receipts EXCEPT ![r] = <<>>]
        /\ \A q \in Runners : q # r => doing'[q] = doing[q]
    BY <1>1 DEF Begin
  <2>4. StepsTyped'
    BY <2>1, <2>2, <2>3
  <2>5. Unfinished'
    BY <2>1, <2>2, <2>3
  <2> QED
    BY <2>4, <2>5
<1>2. ASSUME NEW r \in Runners, Receipt(r) PROVE StepsTyped' /\ Unfinished'
  <2>1. UNCHANGED <<todo, begun>>
    BY <1>2 DEF Receipt
  <2>2. \A q \in Runners : q # r => doing'[q] = doing[q] /\ receipts'[q] = receipts[q]
    BY <1>2 DEF Receipt, Return
  <2>3. sent[r] \in Nonces /\ receipts' = [receipts EXCEPT ![r] = Append(@, sent[r])]
    BY <1>2 DEF Receipt, DoubtInv
  <2>4. Len(receipts'[r]) = Len(receipts[r]) + 1 /\ Len(receipts[r]) \in Nat
    BY <2>3, OneMore
  <2>5. doing'[r] # "idle" => Len(receipts[r]) + 1 # todo[r]
    BY <1>2 DEF Receipt, Return, After, LastStep
  <2>6. Len(receipts[r]) < todo[r] /\ todo[r] \in Nat
    BY <1>2 DEF Receipt
  <2>7. doing'[r] # "idle" => Len(receipts'[r]) < todo[r]
    BY <2>4, <2>5, <2>6
  <2>8. StepsTyped'
    BY <2>1
  <2>9. Unfinished'
    BY <2>1, <2>2, <2>7
  <2> QED
    BY <2>8, <2>9
<1>3. ASSUME NEW r \in Runners, RunnerStep(r) \/ Hangs(r), ~Receipt(r)
      PROVE  StepsTyped' /\ Unfinished'
    BY <1>3 DEF RunnerStep, CheckOk, Fails, ReadNonce, SendFails, Accepted, Replaces,
       Timeout, Return, After, Hangs
<1>4. CASE UNCHANGED <<callVars, begun>>
    BY <1>4 DEF callVars
<1>5. (\E c \in Callers : CallerStep(c)) \/ MineStep \/ NonceStep \/ UNCHANGED onVars
        => UNCHANGED <<callVars, begun>>
    BY DEF CallerStep, OptsSend, MineStep, NonceStep, onVars
<1> QED
    BY <1>1, <1>2, <1>3, <1>4, <1>5 DEF OnchainNext

\* Type correctness for any number of goroutines, calls and transactions.
THEOREM OnchainTypeCorrect == OnchainSpec => []OnchainTypeOK
<1>1. OnchainInit => TInv
  <2> SUFFICES ASSUME OnchainInit PROVE TInv
    OBVIOUS
  <2>1. ManagerRest
    BY DEF OnchainInit, Init, ManagerRest
  <2>2. StepsTyped
    BY OnchainAssumption DEF OnchainInit, StepsTyped
  <2>3. Unfinished
    BY DEF OnchainInit, Unfinished
  <2> QED
    BY <2>1, <2>2, <2>3 DEF TInv
<1>2. OInv /\ NInv /\ HoldInv /\ TInv /\ [OnchainNext]_onVars => TInv'
    BY StepMapped, ManagerTypeStep, StepsTypeStep DEF TInv
<1>3. OInv /\ NInv /\ TInv => OnchainTypeOK
    BY DEF OInv, CallsTyped, NInv, ManagerTyped, TInv, ManagerRest, StepsTyped,
       Unfinished, OnchainTypeOK, TypeOK
<1> QED
    BY <1>1, <1>2, <1>3, OnchainInitInv, OStep, PTL DEF OnchainSpec

-----------------------------------------------------------------------------
(* How long a call takes.                                                  *)

\* The steps a call has still to make, at most: three for each transaction
\* without a receipt, and one for the balance of a transfer.
StepsLeft(r) ==
    LET more == 3 * (todo[r] - Len(receipts[r])) IN
    CASE doing[r] = "idle" -> 0
      [] doing[r] = "check" -> more + 1
      [] doing[r] = "build" -> more
      [] doing[r] = "send" -> more - 1
      [] doing[r] = "wait" -> more - 2
      [] doing[r] = "hung" -> 0

\* A call that is under way, and none of whose requests hangs.
Active(r) == doing[r] \notin {"idle", "hung"}

StepsBounded ==
    \A r \in Runners :
        /\ StepsLeft(r) \in 0..(3 * MaxSteps + 1)
        /\ Active(r) => StepsLeft(r) > 0

\* Nothing that others or the chain do adds to them, and each of the call's own
\* takes from them.
StepCounts(r) ==
    Active(r) =>
        /\ StepsLeft(r)' <= StepsLeft(r)
        /\ RunnerStep(r) \/ Hangs(r) => StepsLeft(r)' < StepsLeft(r)

EveryStepCounts == [][\A r \in Runners : StepCounts(r)]_onVars

CountInv == OInv /\ StepsTyped /\ Unfinished

LEMMA CountFacts ==
    ASSUME CountInv, NEW r \in Runners
    PROVE  /\ doing \in [Runners -> Places] /\ doing[r] \in Places
           /\ todo[r] \in 0..MaxSteps /\ MaxSteps \in Nat
           /\ Len(receipts[r]) \in Nat
           /\ doing[r] # "idle" => Len(receipts[r]) < todo[r]
<1> QED
    BY OnchainAssumption DEF CountInv, OInv, CallsTyped, StepsTyped, Unfinished

LEMMA Bounded == CountInv => StepsBounded
<1> SUFFICES ASSUME CountInv, NEW r \in Runners
             PROVE  /\ StepsLeft(r) \in 0..(3 * MaxSteps + 1)
                    /\ Active(r) => StepsLeft(r) > 0
    BY DEF StepsBounded
<1> DEFINE k == Len(receipts[r])
           n == todo[r]
<1>1. /\ doing[r] \in Places /\ n \in 0..MaxSteps /\ MaxSteps \in Nat /\ k \in Nat
      /\ doing[r] # "idle" => k < n
    BY CountFacts
<1>2. StepsLeft(r) = CASE doing[r] = "idle" -> 0
                       [] doing[r] = "check" -> 3 * (n - k) + 1
                       [] doing[r] = "build" -> 3 * (n - k)
                       [] doing[r] = "send" -> 3 * (n - k) - 1
                       [] doing[r] = "wait" -> 3 * (n - k) - 2
                       [] doing[r] = "hung" -> 0
    BY DEF StepsLeft
<1> HIDE DEF k, n
<1>3. CASE doing[r] \in {"idle", "hung"}
    BY <1>1, <1>2, <1>3 DEF Active
<1>4. CASE doing[r] \notin {"idle", "hung"}
  <2>1. n - k \in 1..MaxSteps
    BY <1>1, <1>4
  <2> QED
    BY <1>1, <1>2, <1>4, <2>1 DEF Places
<1> QED
    BY <1>3, <1>4

LEMMA OwnStep ==
    ASSUME CountInv, NEW r \in Runners, RunnerStep(r) \/ Hangs(r)
    PROVE  StepsLeft(r)' < StepsLeft(r) /\ StepsLeft(r)' <= StepsLeft(r)
<1> DEFINE k == Len(receipts[r])
           n == todo[r]
<1>1. /\ doing \in [Runners -> Places] /\ doing[r] \in Places
      /\ n \in 0..MaxSteps /\ MaxSteps \in Nat /\ k \in Nat
      /\ doing[r] # "idle" => k < n
    BY CountFacts
<1>2. CASE Receipt(r)
  <2>1. doing[r] = "wait" /\ todo' = todo
    BY <1>2 DEF Receipt
  <2>2. /\ sent[r] \in Nonces /\ receipts[r] \in Seq(Nonces)
        /\ receipts' = [receipts EXCEPT ![r] = Append(@, sent[r])]
        /\ receipts \in [Runners -> Seq(Nonces)]
    BY <1>2, <2>1 DEF Receipt, CountInv, OInv, DoubtInv, CallsTyped
  <2>3. Len(receipts'[r]) = k + 1
    BY <2>2, OneMore
  <2>4. doing'[r] = "idle" \/ (doing'[r] = "build" /\ k + 1 # n)
    BY <1>1, <1>2 DEF Receipt, Return, After, LastStep
  <2>5. StepsLeft(r) = 3 * (n - k) - 2
    BY <2>1 DEF StepsLeft
  <2>6. StepsLeft(r)' = 0 \/ StepsLeft(r)' = 3 * (n - (k + 1))
    BY <2>1, <2>3, <2>4 DEF StepsLeft
  <2> HIDE DEF k, n
  <2> QED
    BY <1>1, <2>1, <2>5, <2>6
<1>3. CASE ~Receipt(r)
  <2>1. UNCHANGED <<todo, receipts>>
    BY <1>3 DEF RunnerStep, CheckOk, Fails, ReadNonce, SendFails, Accepted, Replaces,
       Timeout, Hangs
  <2>2. \/ doing[r] = "check" /\ doing'[r] \in {"build", "idle", "hung"}
        \/ doing[r] = "build" /\ doing'[r] \in {"send", "idle", "hung"}
        \/ doing[r] = "send" /\ doing'[r] \in {"wait", "idle", "hung"}
        \/ doing[r] = "wait" /\ doing'[r] \in {"idle", "hung"}
    BY <1>1, <1>3 DEF RunnerStep, CheckOk, Fails, ReadNonce, SendFails, Accepted,
       Replaces, Timeout, Return, After, Hangs
  <2>3. n' = n /\ k' = k
    BY <2>1
  <2>4. /\ doing[r] = "check" => StepsLeft(r) = 3 * (n - k) + 1
        /\ doing[r] = "build" => StepsLeft(r) = 3 * (n - k)
        /\ doing[r] = "send" => StepsLeft(r) = 3 * (n - k) - 1
        /\ doing[r] = "wait" => StepsLeft(r) = 3 * (n - k) - 2
    BY DEF StepsLeft
  <2>5. /\ doing'[r] \in {"idle", "hung"} => StepsLeft(r)' = 0
        /\ doing'[r] = "build" => StepsLeft(r)' = 3 * (n - k)
        /\ doing'[r] = "send" => StepsLeft(r)' = 3 * (n - k) - 1
        /\ doing'[r] = "wait" => StepsLeft(r)' = 3 * (n - k) - 2
    BY <2>3 DEF StepsLeft
  <2> HIDE DEF k, n
  <2>6. n - k \in 1..MaxSteps
    BY <1>1, <2>2
  <2> QED
    BY <1>1, <2>2, <2>4, <2>5, <2>6
<1> QED
    BY <1>2, <1>3

\* A call returns, or one of its requests never ends: it makes at most three
\* steps for each of its transactions and one for a transfer's balance, each
\* brings its end nearer, and nothing that the chain, other calls or the nonce
\* counter do puts it off.
THEOREM CallsAreShort == OnchainSpec => []StepsBounded /\ EveryStepCounts
<1>1. CountInv /\ [OnchainNext]_onVars => [\A r \in Runners : StepCounts(r)]_onVars
  <2>1. ASSUME CountInv, OnchainNext, NEW r \in Runners, Active(r)
        PROVE  StepCounts(r)
    <3>1. CASE RunnerStep(r) \/ Hangs(r)
      BY <3>1, <2>1, OwnStep DEF StepCounts
    <3>2. CASE UNCHANGED <<doing[r], todo[r], receipts[r]>>
      <4>1. StepsLeft(r)' = StepsLeft(r)
        BY <3>2 DEF StepsLeft
      <4>2. StepsLeft(r) \in 0..(3 * MaxSteps + 1) /\ MaxSteps \in Nat
        BY <2>1, Bounded, OnchainAssumption DEF StepsBounded
      <4> QED
        BY <2>1, <3>1, <4>1, <4>2 DEF StepCounts
    <3>3. ASSUME NEW q \in Runners, q # r, Begin(q) \/ RunnerStep(q) \/ Hangs(q)
          PROVE  UNCHANGED <<doing[r], todo[r], receipts[r]>>
      <4>1. DOMAIN doing = Runners /\ DOMAIN todo = Runners /\ DOMAIN receipts = Runners
        BY <2>1 DEF CountInv, OInv, CallsTyped, StepsTyped
      <4>2. CASE Begin(q)
        BY <3>3, <4>1, <4>2 DEF Begin
      <4>3. CASE RunnerStep(q) \/ Hangs(q)
        BY <3>3, <4>1, <4>3 DEF RunnerStep, CheckOk, Fails, ReadNonce, SendFails,
           Accepted, Replaces, Receipt, Timeout, Return, Hangs
      <4> QED
        BY <3>3, <4>2, <4>3
    <3>4. CASE (\E c \in Callers : CallerStep(c)) \/ MineStep \/ NonceStep
      BY <3>2, <3>4 DEF CallerStep, OptsSend, MineStep, NonceStep, callVars
    <3>5. ~Begin(r)
      BY <2>1 DEF Begin, Active
    <3> QED
      BY <2>1, <3>1, <3>2, <3>3, <3>4, <3>5 DEF OnchainNext
  <2> QED
    BY <2>1 DEF StepCounts
<1>2. OnchainInit => StepsTyped /\ Unfinished
    BY OnchainAssumption DEF OnchainInit, StepsTyped, Unfinished
<1> QED
    BY <1>1, <1>2, Bounded, OnchainInitInv, OStep, StepsTypeStep, PTL
       DEF OnchainSpec, EveryStepCounts, CountInv
=============================================================================
