---------------------------- MODULE NonceManager ----------------------------
(***************************************************************************)
(* GetTransactionOpts and InvalidateNonce of BaseWeb3Client: goroutines    *)
(* that ask for transaction options get nonces from a counter under        *)
(* nonceMu, fetched from the chain the first time.  The chain is external: *)
(* a pool of accepted transactions of this account, mined in nonce order.  *)
(***************************************************************************)
EXTENDS Naturals

CONSTANTS
    Callers,     \* goroutines that send transactions of the account
    NoCaller,    \* nonceMu is free
    NoNonce,     \* a caller holds no nonce
    MaxCalls     \* bound: calls of GetTransactionOpts, and foreign transactions

ASSUME NonceAssumption ==
    /\ NoCaller \notin Callers
    /\ NoNonce \notin Nat
    /\ MaxCalls \in Nat

VARIABLES
    lock,        \* nonceMu's holder
    hasNonce,    \* c.hasNonce
    cachedNonce, \* c.cachedNonce
    pc,          \* where each caller is
    nonce,       \* the nonce in the options each caller got
    mined,       \* the chain: number of mined transactions
    pool,        \* the chain: nonces of accepted, unmined transactions
    calls,       \* calls begun so far
    last,        \* history: one more than the last nonce handed out since a fetch
    dropped,     \* history: nonces handed out whose transaction never got to
                 \* the pool, and not handed out again
    overlap      \* history: the counter was fetched while a caller held a nonce

vars == <<lock, hasNonce, cachedNonce, pc, nonce, mined, pool, calls, last,
          dropped, overlap>>
manager == <<lock, hasNonce, cachedNonce>>
chain == <<mined, pool>>

Labels == {"idle", "fetching", "taking", "gas", "ready", "fetchHung", "gasHung"}

\* A caller that has a nonce and has not used it yet.
Holding(c) == pc[c] \in {"gas", "ready", "gasHung"}

TypeOK ==
    /\ lock \in Callers \cup {NoCaller}
    /\ hasNonce \in BOOLEAN
    /\ cachedNonce \in Nat
    /\ pc \in [Callers -> Labels]
    /\ nonce \in [Callers -> Nat \cup {NoNonce}]
    /\ mined \in Nat /\ pool \subseteq Nat
    /\ calls \in Nat /\ last \in Nat /\ dropped \subseteq Nat
    /\ overlap \in BOOLEAN

\* The account may have a pending transaction, which may be mined before the
\* first call.
Init ==
    /\ lock = NoCaller
    /\ hasNonce = FALSE
    /\ cachedNonce = 0
    /\ pc = [c \in Callers |-> "idle"]
    /\ nonce = [c \in Callers |-> NoNonce]
    /\ mined = 0
    /\ pool \in {{}, {mined}}
    /\ calls = 0
    /\ last = 0
    /\ dropped = {}
    /\ overlap = FALSE

Goto(c, l) == pc' = [pc EXCEPT ![c] = l]

\* PendingNonceAt: the first nonce that is neither mined nor in the pool
\* behind the mined ones.
IsPendingNonce(n) ==
    /\ n >= mined /\ n \notin pool
    /\ \A m \in mined..n : m = n \/ m \in pool

-----------------------------------------------------------------------------

LockFree(c) == lock = NoCaller

\* nonceMu.Lock() and the test of hasNonce.
Acquire(c) ==
    /\ pc[c] = "idle" /\ LockFree(c)
    /\ calls < MaxCalls
    /\ calls' = calls + 1
    /\ lock' = c
    /\ Goto(c, IF hasNonce THEN "taking" ELSE "fetching")
    /\ UNCHANGED <<hasNonce, cachedNonce, nonce, chain, last, dropped, overlap>>

\* PendingNonceAt, called with the mutex held.
Fetch(c) ==
    /\ pc[c] = "fetching"
    /\ \E n \in mined..(mined + MaxCalls + 1) :
         IsPendingNonce(n) /\ cachedNonce' = n
    /\ hasNonce' = TRUE
    /\ last' = 0
    /\ overlap' = (overlap \/ \E d \in Callers : Holding(d))
    /\ Goto(c, "taking")
    /\ UNCHANGED <<lock, nonce, chain, calls, dropped>>

\* PendingNonceAt fails: unlock and return the error.
FetchError(c) ==
    /\ pc[c] = "fetching"
    /\ lock' = NoCaller
    /\ Goto(c, "idle")
    /\ UNCHANGED <<hasNonce, cachedNonce, nonce, chain, calls, last, dropped, overlap>>

\* Mutant: the counter is not advanced.
Unadvanced(n) == n

\* Mutant: the counter runs backwards.
Retreat(n) == n - 1

\* Mutant: the counter skips a nonce.
SkipsOne(n) == n + 2

\* cachedNonce++
Advance(n) == n + 1

\* nonce := cachedNonce; cachedNonce++; Unlock
Take(c) ==
    /\ pc[c] = "taking"
    /\ nonce' = [nonce EXCEPT ![c] = cachedNonce]
    /\ cachedNonce' = Advance(cachedNonce)
    /\ last' = cachedNonce + 1
    /\ dropped' = dropped \ {cachedNonce}
    /\ lock' = NoCaller
    /\ Goto(c, "gas")
    /\ UNCHANGED <<hasNonce, chain, calls, overlap>>

\* SuggestGasPrice succeeds: the options are complete.
GasOk(c) ==
    /\ pc[c] = "gas"
    /\ Goto(c, "ready")
    /\ UNCHANGED <<manager, nonce, chain, calls, last, dropped, overlap>>

\* SuggestGasPrice fails: the call returns an error, its nonce is not given
\* back.
GasError(c) ==
    /\ pc[c] = "gas"
    /\ dropped' = dropped \cup {nonce[c]}
    /\ nonce' = [nonce EXCEPT ![c] = NoNonce]
    /\ Goto(c, "idle")
    /\ UNCHANGED <<manager, chain, calls, last, overlap>>

\* A request without a timeout whose answer never comes: PendingNonceAt, with
\* the mutex held for good, or SuggestGasPrice.
Hang(c) ==
    /\ pc[c] \in {"fetching", "gas"}
    /\ Goto(c, IF pc[c] = "gas" THEN "gasHung" ELSE "fetchHung")
    /\ UNCHANGED <<manager, nonce, chain, calls, last, dropped, overlap>>

\* The caller sends its transaction and the node takes it (external): into a
\* free place of the pool, or in place of the one with this nonce.
Send(c) ==
    /\ pc[c] = "ready" /\ nonce[c] >= mined
    /\ pool' = pool \cup {nonce[c]}
    /\ nonce' = [nonce EXCEPT ![c] = NoNonce]
    /\ Goto(c, "idle")
    /\ UNCHANGED <<manager, mined, calls, last, dropped, overlap>>

\* The node refuses it, for its nonce or its price, the request is lost on the
\* way, or the caller never sends (external): nothing gives the nonce back.
Drop(c) ==
    /\ pc[c] = "ready"
    /\ dropped' = dropped \cup {nonce[c]}
    /\ nonce' = [nonce EXCEPT ![c] = NoNonce]
    /\ Goto(c, "idle")
    /\ UNCHANGED <<manager, chain, calls, last, overlap>>

\* InvalidateNonce, after some transaction was rejected or replaced.
InvalidateNonce ==
    /\ hasNonce
    /\ lock = NoCaller
    /\ hasNonce' = FALSE
    /\ UNCHANGED <<lock, cachedNonce, pc, nonce, chain, calls, last, dropped, overlap>>

\* The next transaction in nonce order is mined (external).
Mine ==
    /\ mined \in pool
    /\ pool' = pool \ {mined}
    /\ mined' = mined + 1
    /\ UNCHANGED <<manager, pc, nonce, calls, last, dropped, overlap>>

\* Another process sends from the same account (external).
ForeignSend ==
    /\ calls < MaxCalls
    /\ calls' = calls + 1
    /\ \E n \in mined..(mined + MaxCalls + 1) :
         IsPendingNonce(n) /\ pool' = pool \cup {n}
    /\ UNCHANGED <<manager, pc, nonce, mined, last, dropped, overlap>>

\* The steps of a call once it has the mutex, and what becomes of its options.
Progress(c) ==
    \/ Fetch(c) \/ FetchError(c) \/ Take(c) \/ GasOk(c) \/ GasError(c)
    \/ Send(c) \/ Drop(c)

Next ==
    \/ \E c \in Callers : Acquire(c) \/ Progress(c) \/ Hang(c)
    \/ InvalidateNonce \/ Mine \/ ForeignSend

Spec == Init /\ [][Next]_vars

\* A request that does not hang ends, a caller sends what it asked options for
\* or drops it, blocks are produced.  Nothing makes a request that hangs end:
\* the client has no timeout for it.
FairSpec ==
    Spec /\ (\A c \in Callers : WF_vars(Progress(c))) /\ WF_vars(Mine)

-----------------------------------------------------------------------------
(* Properties.                                                             *)

\* No two callers hold the same nonce, so neither transaction replaces the
\* other, as long as the counter is never fetched again while somebody holds a
\* nonce: InvalidateNonce does no harm at any other time.
UniqueNonces ==
    ~overlap =>
        \A c, d \in Callers :
            Holding(c) /\ Holding(d) /\ nonce[c] = nonce[d] => c = d

\* "nonceMu guarantees that concurrent GetTransactionOpts calls get
\* monotonically increasing nonces", from one fetch to the next.
MonotonicNonces ==
    [][\A c \in Callers :
         pc[c] = "taking" /\ pc'[c] = "gas" => nonce'[c] >= last]_vars

\* Every nonce below the counter is mined, in the pool, held by a caller that
\* is still to send it, or one that a caller got and dropped: it lost it with a
\* failed SuggestGasPrice, its transaction was refused or lost, or it never
\* sent one.  The counter itself, and a resync, make no gap.
NoncesAccounted ==
    hasNonce => \A n \in mined..(cachedNonce - 1) :
        n \in pool \cup dropped \/ \E c \in Callers : Holding(c) /\ nonce[c] = n

\* The chain waits for a nonce that a caller dropped, or holds for good in a
\* request that hangs.
Blocked ==
    \/ mined \in dropped \ pool
    \/ \E c \in Callers : pc[c] = "gasHung" /\ nonce[c] = mined

\* What is in the pool is mined, unless the chain comes to wait for a nonce
\* that some caller dropped.
SentIsMined == \A n \in 0..MaxCalls : n \in pool ~> n < mined \/ Blocked
=============================================================================
