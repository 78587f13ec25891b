------------------------------ MODULE MCFanout ------------------------------
(* Two items at once, three chunks each, of which two at once.             *)
EXTENDS Fanout

MCItems == 1..2
MCChunks == 1..3
MCCallers == MCItems \X (MCChunks \cup {0})
MCRunOf == [c \in MCCallers |-> "run"]
MCStages == {"extraction", "synthesis", "judge"}
MCCosts == {1}
MCCaps == [hard |-> 6, catastrophic |-> 7, daily |-> 9,
           stage |-> [extraction |-> 9, synthesis |-> 3, judge |-> 9]]
=============================================================================
