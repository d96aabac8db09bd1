--------------------------- MODULE MCVersionRetry ---------------------------
(* Instances of VersionRetry: versions 1 and 2, one or two goroutines.      *)
EXTENDS VersionRetry, TLC

CONSTANTS c1, c2, NoneMC

MCOneCaller == {c1}
MCTwoCallers == {c1, c2}
MCVersions == {1, 2}
MCWarm == MCVersions
MCAny == MCVersions \cup {NoneMC}
MCSymmetry == Permutations({c1, c2})
=============================================================================
