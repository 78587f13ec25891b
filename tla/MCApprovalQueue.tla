-------------------------- MODULE MCApprovalQueue ---------------------------
(* Instances of ApprovalQueue for TLC.                                     *)
EXTENDS ApprovalQueue, TLC

CONSTANTS r1, r2, h1, h2

HandlerSymmetry == Permutations({h1, h2})

LiveOnly == {"live"}
PaperAndLive == {"paper", "live"}

=============================================================================
