-------------------------------- MODULE Relay --------------------------------
(***************************************************************************)
(* A call of the gasless client: Execute (split, merge, redeem, convert)   *)
(* or ExecuteBatch (RedeemPositions, WrapUSDCeToPUSD) fetches a relayer    *)
(* nonce, builds and signs the request, gets the headers, submits it, and  *)
(* polls for the receipt and then for confirmations under one deadline.    *)
(* The relayer and the chain are external: a submission may be taken       *)
(* although its answer is lost, blocks come when they come, and a          *)
(* reorganisation may put a mined transaction back into the pool.          *)
(***************************************************************************)
EXTENDS Naturals

CONSTANTS
    Users,            \* goroutines that use the client
    Deadline,           \* the polls that fit in the five minutes
    MaxConfirmations,   \* bound: values of minConfirmations
    MaxUses,           \* bound: calls of all goroutines
    MaxHead             \* bound: blocks

ASSUME RelayAssumption ==
    /\ Deadline \in Nat /\ MaxConfirmations \in Nat
    /\ MaxUses \in Nat /\ MaxHead \in Nat

VARIABLES
    wallet,      \* signatureType
    minConfirmations,
    at,          \* where each caller is
    waited,      \* polls since waitForReceipt began
    receipt,     \* the receipt the call got: block and status
    result,      \* what the last call returned
    tx,          \* the chain: the call's transaction
    head,        \* the chain: number of the newest block
    orphaned,    \* history: the receipt's block left the chain
    begun        \* calls begun so far

relayVars == <<wallet, minConfirmations, at, waited, receipt, result, tx, head,
          orphaned, begun>>
config == <<wallet, minConfirmations>>
local == <<at, waited, receipt, result>>

NoTx == [state |-> "none", block |-> 0, ok |-> FALSE]
Pending == [state |-> "pending", block |-> 0, ok |-> FALSE]
NoReceipt == [block |-> 0, ok |-> FALSE]
Stages == {"nonce", "build", "headers", "submit"}
Receipts == [block : Nat, ok : BOOLEAN]
Txs == [state : {"none", "pending", "mined"}, block : Nat, ok : BOOLEAN]

RelayTypeOK ==
    /\ wallet \in {"proxy", "safe"}
    /\ minConfirmations \in Nat
    /\ at \in [Users -> Stages \cup {"idle", "receipt", "confirm", "hung"}]
    /\ waited \in [Users -> Nat]
    /\ receipt \in [Users -> Receipts]
    /\ result \in [Users -> {"none", "error", "receipt"}]
    /\ tx \in [Users -> Txs]
    /\ head \in Nat
    /\ orphaned \in [Users -> BOOLEAN]
    /\ begun \in Nat
    /\ \A c \in Users : at[c] = "confirm" => minConfirmations > 1

\* The constructor refuses an EOA.
RelayInit ==
    /\ wallet \in {"proxy", "safe"}
    /\ minConfirmations \in 0..MaxConfirmations
    /\ at = [c \in Users |-> "idle"]
    /\ waited = [c \in Users |-> 0]
    /\ receipt = [c \in Users |-> NoReceipt]
    /\ result = [c \in Users |-> "none"]
    /\ tx = [c \in Users |-> NoTx]
    /\ head = 0
    /\ orphaned = [c \in Users |-> FALSE]
    /\ begun = 0

-----------------------------------------------------------------------------

\* A batch needs a proxy wallet, requests and a positive amount; single calls
\* have both kinds of wallets.
Supported(kind) == kind = "single" \/ wallet = "proxy"

Return(c, r) ==
    /\ result' = [result EXCEPT ![c] = r]
    /\ at' = [at EXCEPT ![c] = "idle"]

\* A call begins with the relayer's nonce, or is refused at once.
Begin(c) ==
    /\ at[c] = "idle" /\ begun < MaxUses
    /\ begun' = begun + 1
    /\ \E kind \in {"single", "batch"} :
         IF Supported(kind)
         THEN /\ at' = [at EXCEPT ![c] = "nonce"]
              /\ result' = [result EXCEPT ![c] = "none"]
         ELSE Return(c, "error")
    /\ waited' = [waited EXCEPT ![c] = 0]
    /\ receipt' = [receipt EXCEPT ![c] = NoReceipt]
    /\ tx' = [tx EXCEPT ![c] = NoTx]
    /\ orphaned' = [orphaned EXCEPT ![c] = FALSE]
    /\ UNCHANGED <<config, head>>

\* A stage of the preparation succeeds or ends the call.
Stage(c, from, to) ==
    /\ at[c] = from
    /\ \/ at' = [at EXCEPT ![c] = to] /\ UNCHANGED result
       \/ Return(c, "error")
    /\ UNCHANGED <<config, waited, receipt, tx, head, orphaned, begun>>

\* The relayer tells its address and the nonce.
FetchNonce(c) == Stage(c, "nonce", "build")

\* The signed request: a proxy's wallet address or a Safe's transaction hash
\* comes from the chain; a gas estimate that fails is replaced by a default.
Build(c) == Stage(c, "build", "headers")

\* The headers come from the sign server or the local credentials.
GetHeaders(c) == Stage(c, "headers", "submit")

\* POST /submit: the relayer sends the transaction to the chain, and its
\* answer has the hash, or is lost.
Submit(c) ==
    /\ at[c] = "submit"
    /\ tx' = [tx EXCEPT ![c] = Pending]
    /\ \/ at' = [at EXCEPT ![c] = "receipt"] /\ UNCHANGED result
       \/ Return(c, "error")
    /\ UNCHANGED <<config, waited, receipt, head, orphaned, begun>>

\* The request fails, or the answer has no hash: the relayer refused.
SubmitFails(c) ==
    /\ at[c] = "submit"
    /\ Return(c, "error")
    /\ UNCHANGED <<config, waited, receipt, tx, head, orphaned, begun>>

-----------------------------------------------------------------------------

ConfirmationsAsked == minConfirmations > 1

\* A receipt ends the call, unless confirmations are asked for.
ReceiptFound(c) ==
    /\ at[c] = "receipt" /\ tx[c].state = "mined"
    /\ receipt' = [receipt EXCEPT ![c] = [block |-> tx[c].block, ok |-> tx[c].ok]]
    /\ IF ConfirmationsAsked
       THEN at' = [at EXCEPT ![c] = "confirm"] /\ UNCHANGED result
       ELSE Return(c, "receipt")
    /\ UNCHANGED <<config, waited, tx, head, orphaned, begun>>

\* required
Required(c) == receipt[c].block + minConfirmations - 1

\* BlockNumber is high enough: the receipt fetched before is returned.
Confirmed(c) ==
    /\ at[c] = "confirm" /\ head >= Required(c)
    /\ Return(c, "receipt")
    /\ UNCHANGED <<config, waited, receipt, tx, head, orphaned, begun>>

\* Mutant: the loop for confirmations has no deadline.
NoSecondDeadline(c) == at[c] = "receipt" /\ waited[c] > Deadline

\* Mutant: the loop for confirmations has a deadline of its own.
SecondDeadline(c) ==
    waited[c] > IF at[c] = "confirm" THEN 2 * Deadline + 1 ELSE Deadline

\* Both loops check the deadline set when the first began.
Expired(c) == waited[c] > Deadline

\* One more poll; the count stops at a bound above every deadline.
Later(c) == IF waited[c] > 2 * Deadline + 1 THEN waited[c] ELSE waited[c] + 1

\* A poll that finds nothing, or fails: sleep, and poll again.
PollAgain(c) ==
    /\ at[c] \in {"receipt", "confirm"} /\ ~Expired(c)
    /\ waited' = [waited EXCEPT ![c] = Later(c)]
    /\ UNCHANGED <<config, at, receipt, result, tx, head, orphaned, begun>>

\* A poll that finds nothing, or fails, after the deadline.
Timeout(c) ==
    /\ at[c] \in {"receipt", "confirm"} /\ Expired(c)
    /\ Return(c, "error")
    /\ UNCHANGED <<config, waited, receipt, tx, head, orphaned, begun>>

-----------------------------------------------------------------------------

\* The next block (external), with any pending transactions; each succeeds or
\* reverts.
Block ==
    /\ head < MaxHead
    /\ head' = head + 1
    /\ \E mined \in SUBSET {c \in Users : tx[c].state = "pending"}, good \in BOOLEAN :
         tx' = [c \in Users |-> IF c \in mined
                  THEN [state |-> "mined", block |-> head + 1, ok |-> good]
                  ELSE tx[c]]
    /\ UNCHANGED <<config, local, orphaned, begun>>

\* A longer fork replaces the blocks above b (external): their transactions
\* are pending again.
Reorg ==
    /\ head < MaxHead
    /\ \E b \in 1..head :
         LET lost == {c \in Users : tx[c].state = "mined" /\ tx[c].block >= b}
         IN /\ lost # {}
            /\ tx' = [c \in Users |-> IF c \in lost THEN Pending ELSE tx[c]]
            /\ orphaned' = [c \in Users |->
                              orphaned[c] \/ (c \in lost /\ receipt[c] # NoReceipt)]
    /\ head' = head + 1
    /\ UNCHANGED <<config, local, begun>>

\* A request to the RPC endpoint never ends: the Safe's hash or the gas
\* estimate of Build, TransactionReceipt and BlockNumber have no timeout, and
\* the polls look at the deadline only after their request has returned.
RelayHangs(c) ==
    /\ at[c] \in {"build", "receipt", "confirm"}
    /\ at' = [at EXCEPT ![c] = "hung"]
    /\ UNCHANGED <<config, waited, receipt, result, tx, head, orphaned, begun>>

Step(c) ==
    \/ FetchNonce(c) \/ Build(c) \/ GetHeaders(c) \/ Submit(c) \/ SubmitFails(c)
    \/ ReceiptFound(c) \/ Confirmed(c) \/ PollAgain(c) \/ Timeout(c)

RelayNext == (\E c \in Users : Begin(c) \/ Step(c) \/ RelayHangs(c)) \/ Block \/ Reorg

RelaySpec == RelayInit /\ [][RelayNext]_relayVars

\* Requests to the relayer end by the HTTP client's timeout, and so do those to
\* the RPC endpoint that do not hang; nothing is asked of the chain.
RelayFairSpec == RelaySpec /\ \A c \in Users : WF_relayVars(Step(c))

-----------------------------------------------------------------------------
(* Properties.                                                             *)

\* What the code does ensure: a receipt that a call returned is the chain's,
\* status included, and minConfirmations deep, if its own block counts as one,
\* unless a reorganisation removed that block after the receipt was fetched.
ReceiptDeep ==
    \A c \in Users : result[c] = "receipt" /\ ~orphaned[c] =>
        /\ tx[c].state = "mined"
        /\ receipt[c] = [block |-> tx[c].block, ok |-> tx[c].ok]
        /\ head + 1 >= tx[c].block + minConfirmations

\* What SetMinConfirmations and its field promise: ">=2 = wait until the chain
\* head is >= receipt.BlockNumber + N".
ConfirmedAsDocumented ==
    \A c \in Users : result[c] = "receipt" /\ minConfirmations >= 2 =>
        head >= receipt[c].block + minConfirmations

\* The two polling loops share one deadline: together they sleep at most once
\* more often than it allows.
OneDeadline == \A c \in Users : waited[c] <= Deadline + 1

\* Every call returns, even if the chain stands still or never takes the
\* transaction, unless a request to the RPC endpoint hangs.
RelayReturns == \A c \in Users : at[c] # "idle" ~> at[c] \in {"idle", "hung"}
=============================================================================
