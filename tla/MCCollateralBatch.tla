-------------------------- MODULE MCCollateralBatch --------------------------
(* Three queries, two goroutines at a time.  The primary RPC accepts only   *)
(* the legacy mode, the fallback RPC only the two others.                   *)
EXTENDS CollateralBatch, TLC

CONSTANTS main, backup, usdce, pusd

MCEndpoints == {main, backup}
MCModes == 1..3
MCWorks == main :> {3} @@ backup :> {1, 2}
MCAsset == 1 :> [outcome |-> 1, collateral |-> pusd]
        @@ 2 :> [outcome |-> 2, collateral |-> pusd]
        @@ 3 :> NoAsset
=============================================================================
