--------------------------- MODULE OnchainExecute ---------------------------
(***************************************************************************)
(* PolymarketWeb3Client: calls that send one transaction after the other   *)
(* (SetAllApprovals, RedeemPositions of an EOA or a Safe) or a single one  *)
(* (split, merge, convert, transfer, the batched redeem of a proxy         *)
(* wallet), each built, sent and awaited.  They read PendingNonceAt        *)
(* themselves, so for the nonce counter of NonceManager, on the same       *)
(* account, they are the foreign sender.  A receipt may report a revert;   *)
(* the client prints it and goes on, so the model does not tell reverts    *)
(* apart.                                                                  *)
(***************************************************************************)
EXTENDS NonceManager, Sequences

CONSTANTS
    Runners,     \* goroutines that call the web3 client
    MaxSteps,    \* bound: transactions of one call
    MaxBegun,    \* bound: calls of all runners
    Other        \* the sender of a transaction that is no runner's own

ASSUME OnchainAssumption ==
    /\ Runners \cap Callers = {} /\ Other \notin Runners
    /\ MaxSteps \in Nat \ {0}
    /\ MaxBegun \in Nat

VARIABLES
    doing,       \* where each runner is
    todo,        \* the number of transactions of its call
    receipts,    \* the nonces of the receipts its call got so far, in order
    sent,        \* the nonce of the transaction it builds or awaits
    answer,      \* what its last call returned
    owner,       \* the chain: whose transaction has a nonce
    begun        \* calls begun so far

callVars == <<doing, todo, receipts, sent, answer>>
onVars == <<vars, callVars, owner, begun>>

Nonces == 0..(2 * MaxCalls + 2)
Places == {"idle", "check", "build", "send", "wait", "hung"}

OnchainTypeOK ==
    /\ TypeOK
    /\ doing \in [Runners -> Places]
    /\ todo \in [Runners -> 0..MaxSteps]
    /\ receipts \in [Runners -> Seq(Nonces)]
    /\ sent \in [Runners -> Nonces \cup {NoNonce}]
    /\ answer \in [Runners -> {"none", "done", "error"}]
    /\ owner \in [Nonces -> Runners \cup {Other}]
    /\ begun \in 0..MaxBegun
    /\ \A r \in Runners : doing[r] # "idle" => Len(receipts[r]) < todo[r]

OnchainInit ==
    /\ Init
    /\ doing = [r \in Runners |-> "idle"]
    /\ todo = [r \in Runners |-> 0]
    /\ receipts = [r \in Runners |-> <<>>]
    /\ sent = [r \in Runners |-> NoNonce]
    /\ answer = [r \in Runners |-> "none"]
    /\ owner = [n \in Nonces |-> Other]
    /\ begun = 0

-----------------------------------------------------------------------------

\* How many transactions a call for n requests sends, for a client of this
\* signatureType: a proxy wallet redeems in one batch.
Transactions(kind, wallet, n) ==
    CASE kind = "approvals" -> MaxSteps
      [] kind = "redeem" -> IF wallet = "proxy" THEN 1 ELSE n
      [] OTHER -> 1

\* A call starts.  A transfer first reads the balance.  The transactions of
\* the runner's earlier call are no longer its own.
Begin(r) ==
    /\ doing[r] = "idle" /\ begun < MaxBegun
    /\ begun' = begun + 1
    /\ \E kind \in {"single", "transfer", "approvals", "redeem"},
          wallet \in {"eoa", "proxy", "safe"}, n \in 1..MaxSteps :
         /\ doing' = [doing EXCEPT ![r] =
                        IF kind = "transfer" THEN "check" ELSE "build"]
         /\ todo' = [todo EXCEPT ![r] = Transactions(kind, wallet, n)]
    /\ receipts' = [receipts EXCEPT ![r] = <<>>]
    /\ answer' = [answer EXCEPT ![r] = "none"]
    /\ owner' = [n \in Nonces |-> IF owner[n] = r THEN Other ELSE owner[n]]
    /\ UNCHANGED <<vars, sent>>

\* Mutant: a transaction that failed is sent again.
SendAgain(a) == IF a = "error" THEN "build" ELSE "idle"

\* The loops over transactions end at the first error.
After(a) == "idle"

Return(r, a) ==
    /\ answer' = [answer EXCEPT ![r] = a]
    /\ doing' = [doing EXCEPT ![r] = After(a)]
    /\ sent' = [sent EXCEPT ![r] = NoNonce]

\* The balance suffices.
CheckOk(r) ==
    /\ doing[r] = "check"
    /\ doing' = [doing EXCEPT ![r] = "build"]
    /\ UNCHANGED <<vars, todo, receipts, sent, answer, owner, begun>>

\* The balance is too small or cannot be read; PendingNonceAt fails.
Fails(r) ==
    /\ doing[r] \in {"check", "build"}
    /\ Return(r, "error")
    /\ UNCHANGED <<vars, todo, receipts, owner, begun>>

\* PendingNonceAt, the first call of every build*Transaction.
ReadNonce(r) ==
    /\ doing[r] = "build"
    /\ \E n \in Nonces : IsPendingNonce(n) /\ sent' = [sent EXCEPT ![r] = n]
    /\ doing' = [doing EXCEPT ![r] = "send"]
    /\ UNCHANGED <<vars, todo, receipts, answer, owner, begun>>

\* SuggestGasPrice, the Safe's nonce and hash or the encoding fails; or the
\* node refuses the transaction: its nonce is used, its price too low to
\* replace the one in the pool, or the request never arrived.
SendFails(r) ==
    /\ doing[r] = "send"
    /\ Return(r, "error")
    /\ UNCHANGED <<vars, todo, receipts, owner, begun>>

\* The pool takes the transaction, and SendTransaction returns, or its answer
\* is lost.  For the nonce counter this is a foreign send.
Accepted(r) ==
    /\ doing[r] = "send"
    /\ ForeignSend /\ pool' = pool \cup {sent[r]}
    /\ owner' = [owner EXCEPT ![sent[r]] = r]
    /\ \/ doing' = [doing EXCEPT ![r] = "wait"] /\ UNCHANGED <<sent, answer>>
       \/ Return(r, "error")
    /\ UNCHANGED <<todo, receipts, begun>>

\* The gas price is high enough to replace the transaction with this nonce;
\* SendTransaction returns, or its answer is lost.
Replaces(r) ==
    /\ doing[r] = "send" /\ sent[r] \in pool
    /\ owner' = [owner EXCEPT ![sent[r]] = r]
    /\ \/ doing' = [doing EXCEPT ![r] = "wait"] /\ UNCHANGED <<sent, answer>>
       \/ Return(r, "error")
    /\ UNCHANGED <<vars, todo, receipts, begun>>

\* Mutant: any mined transaction with the nonce will do.
NonceMined(r) == sent[r] < mined

\* TransactionReceipt(hash): the transaction itself was mined.
OwnMined(r) == sent[r] < mined /\ owner[sent[r]] = r

\* This was the last transaction of the call.
LastStep(r) == Len(receipts[r]) + 1 = todo[r]

\* waitForReceipt finds the receipt: the next transaction, or the end.
Receipt(r) ==
    /\ doing[r] = "wait" /\ OwnMined(r)
    /\ receipts' = [receipts EXCEPT ![r] = Append(@, sent[r])]
    /\ IF LastStep(r)
       THEN Return(r, "done")
       ELSE /\ doing' = [doing EXCEPT ![r] = "build"]
            /\ sent' = [sent EXCEPT ![r] = NoNonce]
            /\ UNCHANGED answer
    /\ UNCHANGED <<vars, todo, owner, begun>>

\* Mutant: the poll has no deadline.
Forever(r) == FALSE

\* Five minutes have passed, and the last poll found no receipt.
DeadlinePassed(r) == ~OwnMined(r)

\* The call ends with the receipts it has; its transaction stays in the pool.
Timeout(r) ==
    /\ doing[r] = "wait" /\ DeadlinePassed(r)
    /\ Return(r, "error")
    /\ UNCHANGED <<vars, todo, receipts, owner, begun>>

\* A request of the call never ends: none has a timeout, and waitForReceipt
\* looks at its deadline only after the poll has returned.  One that hangs in
\* SendTransaction after the node took the transaction hangs as one that waits.
Hangs(r) ==
    /\ doing[r] \in {"check", "build", "send", "wait"}
    /\ doing' = [doing EXCEPT ![r] = "hung"]
    /\ UNCHANGED <<vars, todo, receipts, sent, answer, owner, begun>>

\* A caller of GetTransactionOpts sends and the pool takes it, in place of any
\* other with its nonce.
OptsSend(c) ==
    /\ Send(c)
    /\ owner' = [owner EXCEPT ![nonce[c]] = Other]
    /\ UNCHANGED <<callVars, begun>>

\* A caller of GetTransactionOpts goes on.
CallerStep(c) ==
    \/ OptsSend(c)
    \/ /\ \/ Fetch(c) \/ FetchError(c) \/ Take(c)
          \/ GasOk(c) \/ GasError(c) \/ Drop(c)
       /\ UNCHANGED <<callVars, owner, begun>>

\* The next transaction is mined.
MineStep == Mine /\ UNCHANGED <<callVars, owner, begun>>

\* Every other step of the nonce counter and of other processes.
NonceStep ==
    /\ (\E c \in Callers : Acquire(c) \/ Hang(c)) \/ InvalidateNonce \/ ForeignSend
    /\ UNCHANGED <<callVars, owner, begun>>

RunnerStep(r) ==
    \/ CheckOk(r) \/ Fails(r) \/ ReadNonce(r) \/ SendFails(r) \/ Accepted(r)
    \/ Replaces(r) \/ Receipt(r) \/ Timeout(r)

OnchainNext ==
    \/ \E r \in Runners : Begin(r) \/ RunnerStep(r) \/ Hangs(r)
    \/ \E c \in Callers : CallerStep(c)
    \/ MineStep
    \/ NonceStep

OnchainSpec == OnchainInit /\ [][OnchainNext]_onVars

\* A request that does not hang ends, a caller of GetTransactionOpts sends or
\* drops its options, blocks are produced.
OnchainFairSpec ==
    /\ OnchainSpec
    /\ \A r \in Runners : WF_onVars(RunnerStep(r))
    /\ \A c \in Callers : WF_onVars(CallerStep(c))
    /\ WF_onVars(MineStep)

-----------------------------------------------------------------------------
(* Properties.                                                             *)

\* A call that returns without an error has a receipt for each of its
\* transactions, and each was mined as its own, in the order of its steps:
\* neither a competing transaction with the same nonce nor one of an earlier
\* call is taken for it.
DoneMeansMined ==
    \A r \in Runners :
        /\ \A i \in DOMAIN receipts[r] :
             /\ receipts[r][i] < mined /\ owner[receipts[r][i]] = r
             /\ \A j \in 1..(i - 1) : receipts[r][j] < receipts[r][i]
        /\ answer[r] = "done" => Len(receipts[r]) = todo[r]

\* A call that fails, or that is under way, has at most one transaction out
\* that it has no receipt for, and it comes after those it has: what a caller
\* sees after an error is the state of the chain but for the last step.
OneStepUncertain ==
    \A r \in Runners : \A m, n \in Nonces :
        /\ owner[m] = r /\ m \notin {receipts[r][i] : i \in DOMAIN receipts[r]}
        /\ owner[n] = r
        => n <= m

\* Every call returns, whatever the node accepts and whether or not blocks
\* carry its transaction, unless one of its requests never ends.
RunnersReturn ==
    \A r \in Runners : doing[r] # "idle" ~> doing[r] \in {"idle", "hung"}
=============================================================================
