-------------------------- MODULE MCOnchainExecute --------------------------
(* Instance of OnchainExecute: two callers of GetTransactionOpts and one    *)
(* goroutine that runs multi-transaction calls.                             *)
EXTENDS OnchainExecute

CONSTANTS c1, c2, r1

MCTwo == {c1, c2}
MCRunners == {r1}
=============================================================================
