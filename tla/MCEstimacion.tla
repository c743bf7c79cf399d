---------------------------- MODULE MCEstimacion -----------------------------
(* Instances of Estimacion for TLC.                                        *)
EXTENDS Estimacion

\* The processes are alike.
Simetria == Permutations(Proc)

=============================================================================
