-------------------------- MODULE ApprovalContract --------------------------
(***************************************************************************)
(* What the approval queue promises the strategy runner and the operator,  *)
(* with no clock, no poll loop and no database: a request is decided at    *)
(* most once, the record of the decision is final, and the runner is told  *)
(* "approved" only when that is what the record says.                      *)
(***************************************************************************)

CONSTANT Requests       \* identifiers of approval requests

VARIABLES
    decision,           \* decision[r]: what the record of r says
    answer              \* answer[r]: what request_approval returned

vars == <<decision, answer>>

Decisions == {"approved", "rejected", "expired"}

TypeOK ==
    /\ decision \in [Requests -> Decisions \cup {"absent", "pending"}]
    /\ answer \in [Requests -> Decisions \cup {"none"}]

Init ==
    /\ decision = [r \in Requests |-> "absent"]
    /\ answer = [r \in Requests |-> "none"]

(* A request is filed, waiting or (paper, no delay) approved on the spot   *)
(* and answered in the same step.                                          *)
File(r) ==
    /\ decision[r] = "absent"
    /\ \/ /\ decision' = [decision EXCEPT ![r] = "pending"]
          /\ UNCHANGED answer
       \/ /\ decision' = [decision EXCEPT ![r] = "approved"]
          /\ answer' = [answer EXCEPT ![r] = "approved"]

(* Somebody decides pending requests; several may expire together.         *)
Decide ==
    \E S \in SUBSET {r \in Requests : decision[r] = "pending"}, d \in Decisions :
        /\ decision' = [r \in Requests |-> IF r \in S THEN d ELSE decision[r]]
        /\ UNCHANGED answer

(* The runner is told the decision.  It may also be told "expired" for a   *)
(* request somebody else decided at the deadline: the safe side.           *)
Answer(r) ==
    /\ decision[r] \in Decisions
    /\ answer[r] = "none"
    /\ \E a \in {decision[r], "expired"} : answer' = [answer EXCEPT ![r] = a]
    /\ UNCHANGED decision

(* The runner itself expires an overdue request and is answered at once.   *)
Expire(r) ==
    /\ decision[r] = "pending"
    /\ answer[r] = "none"
    /\ decision' = [decision EXCEPT ![r] = "expired"]
    /\ answer' = [answer EXCEPT ![r] = "expired"]

Next ==
    \/ Decide
    \/ \E r \in Requests : File(r) \/ Answer(r) \/ Expire(r)

Spec == Init /\ [][Next]_vars

=============================================================================
