----------------------------- MODULE RelayProofs -----------------------------
(***************************************************************************)
(* For any number of goroutines, any deadline and any number of            *)
(* confirmations: types, one deadline for both polling loops, and how deep *)
(* the receipt of a call is, until a reorganisation.                       *)
(***************************************************************************)
EXTENDS Relay, TLAPS

\* A mined transaction is in a block of the chain.  A fetched receipt is that
\* of the transaction, as long as its block stays, and deep when returned.
ChainInv ==
    \A c \in Users :
        /\ tx[c].state = "mined" => tx[c].block >= 1 /\ tx[c].block <= head
        /\ (at[c] = "confirm" \/ result[c] = "receipt") /\ ~orphaned[c] =>
             /\ tx[c].state = "mined"
             /\ receipt[c] = [block |-> tx[c].block, ok |-> tx[c].ok]
        /\ result[c] = "receipt" /\ ~orphaned[c] =>
             head + 1 >= tx[c].block + minConfirmations
        /\ result[c] = "receipt" => at[c] = "idle"

RInv == RelayTypeOK /\ OneDeadline /\ ChainInv

LEMMA RInit == RelayInit => RInv
    BY RelayAssumption DEF RelayInit, RInv, RelayTypeOK, OneDeadline, ChainInv, NoTx,
       NoReceipt, Receipts, Txs, Stages

LEMMA RStep == RInv /\ [RelayNext]_relayVars => RInv'
<1> SUFFICES ASSUME RInv, [RelayNext]_relayVars PROVE RInv'
    OBVIOUS
<1>0. NoTx \in Txs /\ Pending \in Txs /\ NoReceipt \in Receipts
    BY DEF NoTx, Pending, NoReceipt, Receipts, Txs
<1> USE RelayAssumption DEF Stages, config, local, Return
<1>1. ASSUME NEW c \in Users, Begin(c) PROVE RInv'
  <2>1. RelayTypeOK'
    BY <1>0, <1>1 DEF RInv, RelayTypeOK, Begin
  <2>2. OneDeadline'
    BY <1>1 DEF RInv, OneDeadline, RelayTypeOK, Begin
  <2>3. ChainInv'
    <3>1. /\ result'[c] # "receipt" /\ at'[c] # "confirm"
          /\ \A d \in Users : d # c => result'[d] = result[d] /\ at'[d] = at[d]
          /\ tx' = [tx EXCEPT ![c] = NoTx]
          /\ receipt' = [receipt EXCEPT ![c] = NoReceipt]
          /\ orphaned' = [orphaned EXCEPT ![c] = FALSE]
          /\ UNCHANGED <<config, head>>
      BY <1>1 DEF RInv, RelayTypeOK, Begin
    <3>2. NoTx.state # "mined"
      BY DEF NoTx
    <3> QED
      BY <3>1, <3>2 DEF RInv, RelayTypeOK, ChainInv
  <2> QED
    BY <2>1, <2>2, <2>3 DEF RInv
<1>2. ASSUME NEW c \in Users, FetchNonce(c) \/ Build(c) \/ GetHeaders(c) PROVE RInv'
  <2>1. RelayTypeOK'
    BY <1>0, <1>2 DEF RInv, RelayTypeOK, FetchNonce, Build, GetHeaders, Stage
  <2>2. OneDeadline'
    BY <1>2 DEF RInv, OneDeadline, RelayTypeOK, FetchNonce, Build, GetHeaders, Stage
  <2>3. ChainInv'
    BY <1>2 DEF NoTx, Pending, NoReceipt, Receipts, Txs, RInv, RelayTypeOK, ChainInv, FetchNonce, Build, GetHeaders, Stage
  <2> QED
    BY <2>1, <2>2, <2>3 DEF RInv
<1>3. ASSUME NEW c \in Users, Submit(c) \/ SubmitFails(c) PROVE RInv'
  <2>1. RelayTypeOK'
    BY <1>0, <1>3 DEF RInv, RelayTypeOK, Submit, SubmitFails
  <2>2. OneDeadline'
    BY <1>3 DEF RInv, OneDeadline, RelayTypeOK, Submit, SubmitFails
  <2>3. ChainInv'
    BY <1>3 DEF NoTx, Pending, NoReceipt, Receipts, Txs, RInv, RelayTypeOK, ChainInv, Submit, SubmitFails
  <2> QED
    BY <2>1, <2>2, <2>3 DEF RInv
<1>4. ASSUME NEW c \in Users, ReceiptFound(c) PROVE RInv'
  <2>1. RelayTypeOK'
    BY <1>4 DEF Receipts, Txs, RInv, RelayTypeOK, ReceiptFound, ConfirmationsAsked
  <2>2. OneDeadline'
    BY <1>4 DEF RInv, OneDeadline, RelayTypeOK, ReceiptFound, ConfirmationsAsked
  <2>3. ChainInv'
    BY <1>4 DEF NoTx, Pending, NoReceipt, Receipts, Txs, RInv, RelayTypeOK, ChainInv, ReceiptFound, ConfirmationsAsked
  <2> QED
    BY <2>1, <2>2, <2>3 DEF RInv
<1>5. ASSUME NEW c \in Users, Confirmed(c) PROVE RInv'
  <2>1. RelayTypeOK'
    BY <1>0, <1>5 DEF RInv, RelayTypeOK, Confirmed, Required
  <2>2. OneDeadline'
    BY <1>5 DEF RInv, OneDeadline, RelayTypeOK, Confirmed, Required
  <2>3. ChainInv'
    BY <1>5 DEF NoTx, Pending, NoReceipt, Receipts, Txs, RInv, RelayTypeOK, ChainInv, Confirmed, Required
  <2> QED
    BY <2>1, <2>2, <2>3 DEF RInv
<1>6. ASSUME NEW c \in Users, PollAgain(c) \/ Timeout(c) PROVE RInv'
  <2>1. RelayTypeOK'
    <3>1. Later(c) \in Nat
      BY DEF RInv, RelayTypeOK, Later
    <3> QED
      BY <1>6, <3>1 DEF RInv, RelayTypeOK, PollAgain, Timeout
  <2>2. OneDeadline'
    BY <1>6 DEF RInv, OneDeadline, RelayTypeOK, PollAgain, Timeout, Expired, Later
  <2>3. ChainInv'
    BY <1>6 DEF NoTx, Pending, NoReceipt, Receipts, Txs, RInv, RelayTypeOK, ChainInv, PollAgain, Timeout, Expired, Later
  <2> QED
    BY <2>1, <2>2, <2>3 DEF RInv
<1>7. ASSUME Block PROVE RInv'
  <2>1. RelayTypeOK'
    BY <1>7 DEF Receipts, Txs, RInv, RelayTypeOK, Block
  <2>2. OneDeadline'
    BY <1>7 DEF RInv, OneDeadline, RelayTypeOK, Block
  <2>3. ChainInv'
    BY <1>7 DEF NoTx, Pending, NoReceipt, Receipts, Txs, RInv, RelayTypeOK, ChainInv, Block
  <2> QED
    BY <2>1, <2>2, <2>3 DEF RInv
<1>8. ASSUME Reorg PROVE RInv'
  <2>1. RelayTypeOK'
    BY <1>0, <1>8 DEF RInv, RelayTypeOK, Reorg
  <2>2. OneDeadline'
    BY <1>8 DEF RInv, OneDeadline, RelayTypeOK, Reorg
  <2>3. ChainInv'
    <3>1. PICK b \in 1..head :
            /\ tx' = [c \in Users |->
                        IF tx[c].state = "mined" /\ tx[c].block >= b THEN Pending ELSE tx[c]]
            /\ \A c \in Users :
                 orphaned'[c] = (orphaned[c] \/
                   (tx[c].state = "mined" /\ tx[c].block >= b /\ receipt[c] # NoReceipt))
            /\ head' = head + 1 /\ UNCHANGED <<config, local>>
      BY <1>8 DEF Reorg
    <3>2. Pending.state = "pending"
      BY DEF Pending
    <3>3. \A c \in Users : receipt[c] = NoReceipt => receipt[c].block = 0
      BY DEF NoReceipt
    <3>4. \A c \in Users : tx[c].block \in Nat
      BY DEF RInv, RelayTypeOK, Txs
    <3>5. ASSUME NEW c \in Users,
                 at[c] = "confirm" \/ result[c] = "receipt", ~orphaned'[c]
          PROVE  tx'[c] = tx[c] /\ ~orphaned[c]
      <4>1. ~orphaned[c]
        BY <3>1, <3>5
      <4>2. tx[c].state = "mined"
            /\ receipt[c] = [block |-> tx[c].block, ok |-> tx[c].ok]
        BY <3>5, <4>1 DEF RInv, ChainInv
      <4>4. receipt[c].block = tx[c].block /\ tx[c].block >= 1
        BY <4>2 DEF RInv, ChainInv
      <4>3. receipt[c] # NoReceipt
        BY <3>3, <3>4, <4>4
      <4> QED
        BY <3>1, <3>5, <4>1, <4>3
    <3> QED
      BY <3>1, <3>2, <3>4, <3>5 DEF RInv, RelayTypeOK, ChainInv
  <2> QED
    BY <2>1, <2>2, <2>3 DEF RInv
<1>9. ASSUME NEW c \in Users, RelayHangs(c) PROVE RInv'
  <2>1. RelayTypeOK'
    BY <1>9 DEF RInv, RelayTypeOK, RelayHangs
  <2>2. OneDeadline'
    BY <1>9 DEF RInv, OneDeadline, RelayTypeOK, RelayHangs
  <2>3. ChainInv'
    BY <1>9 DEF RInv, RelayTypeOK, ChainInv, RelayHangs
  <2> QED
    BY <2>1, <2>2, <2>3 DEF RInv
<1>10. ASSUME UNCHANGED relayVars PROVE RInv'
  <2>1. RelayTypeOK'
    BY <1>0, <1>10 DEF RInv, RelayTypeOK, relayVars
  <2>2. OneDeadline'
    BY <1>10 DEF RInv, OneDeadline, RelayTypeOK, relayVars
  <2>3. ChainInv'
    BY <1>10 DEF NoTx, Pending, NoReceipt, Receipts, Txs, RInv, RelayTypeOK, ChainInv, relayVars
  <2> QED
    BY <2>1, <2>2, <2>3 DEF RInv
<1> QED
    BY <1>1, <1>2, <1>3, <1>4, <1>5, <1>6, <1>7, <1>8, <1>9, <1>10 DEF RelayNext, Step

\* Type correctness for every set of goroutines and every bound.
THEOREM RelayTypeCorrect == RelaySpec => []RelayTypeOK
<1>1. RInv => RelayTypeOK
    BY DEF RInv
<1> QED
    BY <1>1, RInit, RStep, PTL DEF RelaySpec

\* The two polling loops never sleep longer than one deadline allows.
THEOREM DeadlineShared == RelaySpec => []OneDeadline
<1>1. RInv => OneDeadline
    BY DEF RInv
<1> QED
    BY <1>1, RInit, RStep, PTL DEF RelaySpec

\* Until a reorganisation removes its block, a receipt that was returned is
\* the chain's and has the confirmations that were asked for, its own block
\* being the first: one block less than the comments promise.
THEOREM ReceiptsDeep == RelaySpec => []ReceiptDeep
<1>1. RInv => ReceiptDeep
    BY DEF RInv, ChainInv, ReceiptDeep
<1> QED
    BY <1>1, RInit, RStep, PTL DEF RelaySpec

-----------------------------------------------------------------------------
(* How long a call takes.                                                  *)

\* A call that is under way, and none of whose requests hangs.
Active(c) == at[c] \notin {"idle", "hung"}

\* The steps a call has still to make, at most: its polls until the deadline,
\* and one for each stage.
StepsLeft(c) ==
    LET polls == Deadline + 1 - waited[c] IN
    CASE at[c] \in {"idle", "hung"} -> 0
      [] at[c] = "confirm" -> polls + 1
      [] at[c] = "receipt" -> polls + 2
      [] at[c] = "submit" -> polls + 3
      [] at[c] = "headers" -> polls + 4
      [] at[c] = "build" -> polls + 5
      [] at[c] = "nonce" -> polls + 6

StepsBounded ==
    \A c \in Users :
        /\ StepsLeft(c) \in 0..(Deadline + 7)
        /\ Active(c) => StepsLeft(c) > 0

\* No step of another goroutine or of the chain adds to them, and each of the
\* call's own takes from them.
StepCounts(c) ==
    Active(c) =>
        /\ StepsLeft(c)' <= StepsLeft(c)
        /\ Step(c) \/ RelayHangs(c) => StepsLeft(c)' < StepsLeft(c)

EveryStepCounts == [][\A c \in Users : StepCounts(c)]_relayVars

LEMMA Bounded == RInv => StepsBounded
<1> SUFFICES ASSUME RInv, NEW c \in Users
             PROVE  /\ StepsLeft(c) \in 0..(Deadline + 7)
                    /\ Active(c) => StepsLeft(c) > 0
    BY DEF StepsBounded, Active
<1>1. /\ at[c] \in Stages \cup {"idle", "receipt", "confirm", "hung"}
      /\ waited[c] \in 0..(Deadline + 1) /\ Deadline \in Nat
    BY RelayAssumption DEF RInv, RelayTypeOK, OneDeadline
<1>2. CASE at[c] \in {"idle", "receipt", "confirm", "hung"}
    BY <1>1, <1>2 DEF StepsLeft, Active
<1>3. CASE at[c] \in {"submit", "headers"}
    BY <1>1, <1>3 DEF StepsLeft, Active
<1>4. CASE at[c] \in {"build", "nonce"}
    BY <1>1, <1>4 DEF StepsLeft, Active
<1> QED
    BY <1>1, <1>2, <1>3, <1>4 DEF Stages

\* What a step of the call does to its place and its count of polls.
LEMMA OwnStep ==
    ASSUME RInv, NEW c \in Users, Step(c) \/ RelayHangs(c)
    PROVE  StepsLeft(c)' < StepsLeft(c) /\ StepsLeft(c)' <= StepsLeft(c)
<1>1. /\ at \in [Users -> Stages \cup {"idle", "receipt", "confirm", "hung"}]
      /\ waited \in [Users -> Nat] /\ waited[c] \in 0..(Deadline + 1)
      /\ Deadline \in Nat
    BY RelayAssumption DEF RInv, RelayTypeOK, OneDeadline
<1>2. CASE FetchNonce(c) \/ Build(c) \/ GetHeaders(c)
  <2>1. /\ waited'[c] = waited[c]
        /\ \/ at[c] = "nonce" /\ at'[c] \in {"build", "idle"}
           \/ at[c] = "build" /\ at'[c] \in {"headers", "idle"}
           \/ at[c] = "headers" /\ at'[c] \in {"submit", "idle"}
    BY <1>1, <1>2 DEF FetchNonce, Build, GetHeaders, Stage, Return
  <2> QED
    BY <1>1, <2>1 DEF StepsLeft
<1>3. CASE Submit(c) \/ SubmitFails(c)
  <2>1. waited'[c] = waited[c] /\ at[c] = "submit" /\ at'[c] \in {"receipt", "idle"}
    BY <1>1, <1>3 DEF Submit, SubmitFails, Return
  <2> QED
    BY <1>1, <2>1 DEF StepsLeft
<1>4. CASE ReceiptFound(c) \/ Confirmed(c) \/ Timeout(c)
  <2>1. /\ waited'[c] = waited[c]
        /\ \/ at[c] = "receipt" /\ at'[c] \in {"confirm", "idle"}
           \/ at[c] = "confirm" /\ at'[c] = "idle"
    BY <1>1, <1>4 DEF ReceiptFound, Confirmed, Timeout, Return
  <2> QED
    BY <1>1, <2>1 DEF StepsLeft
<1>5. CASE PollAgain(c)
  <2>1. /\ at'[c] = at[c] /\ at[c] \in {"receipt", "confirm"}
        /\ waited'[c] = waited[c] + 1
    BY <1>1, <1>5 DEF PollAgain, Expired, Later
  <2> QED
    BY <1>1, <2>1 DEF StepsLeft
<1>6. CASE RelayHangs(c)
  <2>1. waited'[c] = waited[c] /\ at[c] \in {"build", "receipt", "confirm"} /\ at'[c] = "hung"
    BY <1>1, <1>6 DEF RelayHangs
  <2> QED
    BY <1>1, <2>1 DEF StepsLeft
<1> QED
    BY <1>2, <1>3, <1>4, <1>5, <1>6 DEF Step

\* Execute and ExecuteBatch return, or a request hangs: a call makes at most Deadline + 7 steps,
\* each brings its end nearer, and nothing that the chain, the relayer or other
\* goroutines do puts it off.
THEOREM CallsAreShort == RelaySpec => []StepsBounded /\ EveryStepCounts
<1>1. RInv /\ [RelayNext]_relayVars => [\A c \in Users : StepCounts(c)]_relayVars
  <2>1. ASSUME RInv, RelayNext, NEW c \in Users, Active(c)
        PROVE  StepCounts(c)
    <3>1. CASE Step(c) \/ RelayHangs(c)
      BY <3>1, <2>1, OwnStep DEF StepCounts
    <3>2. CASE UNCHANGED <<at[c], waited[c]>>
      <4>1. StepsLeft(c)' = StepsLeft(c)
        BY <3>2 DEF StepsLeft
      <4>2. StepsLeft(c) \in 0..(Deadline + 7) /\ Deadline \in Nat
        BY <2>1, Bounded, RelayAssumption DEF StepsBounded
      <4> QED
        BY <2>1, <3>1, <4>1, <4>2 DEF StepCounts
    <3>3. CASE Block \/ Reorg
      BY <3>2, <3>3 DEF Block, Reorg, local
    <3>4. ASSUME NEW d \in Users, d # c, Begin(d) \/ Step(d) \/ RelayHangs(d)
          PROVE  UNCHANGED <<at[c], waited[c]>>
      <4>1. DOMAIN at = Users /\ DOMAIN waited = Users
        BY <2>1 DEF RInv, RelayTypeOK
      <4>2. CASE Begin(d)
        BY <3>4, <4>1, <4>2 DEF Begin, Return
      <4>3. CASE FetchNonce(d) \/ Build(d) \/ GetHeaders(d)
        BY <3>4, <4>1, <4>3 DEF FetchNonce, Build, GetHeaders, Stage, Return
      <4>4. CASE Submit(d) \/ SubmitFails(d) \/ ReceiptFound(d) \/ Confirmed(d)
        BY <3>4, <4>1, <4>4 DEF Submit, SubmitFails, ReceiptFound, Confirmed, Return
      <4>5. CASE PollAgain(d) \/ Timeout(d)
        BY <3>4, <4>1, <4>5 DEF PollAgain, Timeout, Return
      <4>6. CASE RelayHangs(d)
        BY <3>4, <4>1, <4>6 DEF RelayHangs
      <4> QED
        BY <3>4, <4>2, <4>3, <4>4, <4>5, <4>6 DEF Step
    <3>5. ~Begin(c)
      BY <2>1 DEF Begin, Active
    <3> QED
      BY <2>1, <3>1, <3>2, <3>3, <3>4, <3>5 DEF RelayNext
  <2> QED
    BY <2>1 DEF StepCounts
<1> QED
    BY <1>1, Bounded, RInit, RStep, PTL DEF RelaySpec, EveryStepCounts
=============================================================================
