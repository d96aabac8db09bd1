------------------------------- MODULE MCWeb3 -------------------------------
(***************************************************************************)
(* Instance of Relay and CollateralBatch: a behaviour is one of gasless    *)
(* calls or one of a batch of queries.  The two share no variable, so that *)
(* interleaving them adds nothing to what either does.                     *)
(***************************************************************************)
EXTENDS Relay, MCCollateralBatch

webVars == <<relayVars, vars>>

WebInit == RelayInit /\ Init

\* Nothing has happened yet in one of the parts.
NoGaslessCall == begun = 0 /\ head = 0
NoBatch == next = 1

WebNext ==
    \/ NoBatch /\ RelayNext /\ UNCHANGED vars
    \/ NoGaslessCall /\ Next /\ UNCHANGED relayVars

\* RelayFairSpec and FairSpec.
WebFairSpec ==
    /\ WebInit /\ [][WebNext]_webVars
    /\ \A c \in Users : WF_webVars(Step(c) /\ UNCHANGED vars)
    /\ WF_webVars((Spawn \/ Await) /\ NoGaslessCall /\ UNCHANGED relayVars)
    /\ \A q \in Queries : WF_webVars(Goroutine(q) /\ UNCHANGED relayVars)
=============================================================================
