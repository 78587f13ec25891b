---------------------------- MODULE MCPaperFiller ----------------------------
(***************************************************************************)
(* Two books for TLC, one of which is chosen at the start: with orders of  *)
(* different sizes at changing prices; and with orders of one share, where *)
(* fairness lets every order settle.                                       *)
(***************************************************************************)
EXTENDS PaperFiller

CONSTANTS f1, f2

VARIABLE scenario

TwoFillers == {f1, f2}
MCQuotes == {1, 2}

Fair == INSTANCE PaperFiller WITH Quantities <- {1}

EitherInit == scenario \in {"sizes", "fair"} /\ Init

EitherNext ==
    \/ scenario = "sizes" /\ Next /\ UNCHANGED scenario
    \/ scenario = "fair" /\ Fair!Next /\ UNCHANGED scenario

eitherVars == <<scenario, vars>>

EitherSpec ==
    EitherInit /\ [][EitherNext]_eitherVars /\ (scenario = "fair" => Fair!Fairness)

(* Orders of the fair book settle: OrdersSettle of PaperFiller.            *)
FairOrdersSettle == scenario = "fair" => Fair!OrdersSettle
=============================================================================
