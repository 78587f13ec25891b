-------------------------- MODULE MCStrategyRunner --------------------------
(***************************************************************************)
(* Two runners for TLC, one of which is chosen at the start: a live one    *)
(* with all gates whose orders are filled, refused or lost at once, and    *)
(* which crashes; and a paper one without gates that block, whose orders   *)
(* may be filled later.                                                    *)
(***************************************************************************)
EXTENDS StrategyRunner

VARIABLE scenario

MCSizes == {2, 3}
AllGates == {"tradability", "judge", "approval"}

Async == INSTANCE StrategyRunner WITH
    Mode <- "paper", Outcomes <- {"filled", "submitted"}, Gates <- {}, Crashes <- FALSE,
    MaxBars <- 4, MaxOrders <- 4, MaxRuns <- 1

EitherInit == scenario \in {"sync", "async"} /\ Init

EitherNext ==
    \/ scenario = "sync" /\ Next /\ UNCHANGED scenario
    \/ scenario = "async" /\ Async!Next /\ UNCHANGED scenario

eitherVars == <<scenario, vars>>

(* Only the paper runner needs fairness.                                   *)
EitherSpec ==
    EitherInit /\ [][EitherNext]_eitherVars /\ (scenario = "async" => Async!Fairness)

(* A stop that was hit flattens the paper runner, whose gates do not block:*)
(* StopFlattens of StrategyRunner.                                         *)
PaperStopFlattens == scenario = "async" => Async!StopFlattens
=============================================================================
