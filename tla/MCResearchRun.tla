--------------------------- MODULE MCResearchRun ---------------------------
EXTENDS ResearchRun, TLC

CONSTANTS w1, w2, u1, u2

OneWorker == {w1}
TwoWorkers == {w1, w2}
OneUser == {u1}
TwoUsers == {u1, u2}
(* One stage of each kind that leaves an artifact.                         *)
ShortFunnel == <<"macro", "fanout", "portfolio">>
Both == {"cancel", "resume"}
OnlyCancel == {"cancel"}

(* Workers are alike, and so are clients: sound for the safety runs.       *)
Symmetry == Permutations({w1, w2}) \cup Permutations({u1, u2})
=============================================================================
