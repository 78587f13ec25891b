--------------------------- MODULE Counterfactual ---------------------------
(***************************************************************************)
(* The counterfactual gate (services/evals/counterfactual.py): five fixed  *)
(* perturbations of a brief's decision, and a verdict by how many of the   *)
(* meaningful ones change it.  A decision is the sequence of its calls and *)
(* whether it has a top quote; convictions are in tenths, evidence ids are *)
(* counted.                                                                *)
(***************************************************************************)
EXTENDS Integers, Sequences, SequencesExt

CONSTANTS CallIds, Convictions, MaxCalls, MaxEvidence

(* A conviction is between 0 and 1.                                        *)
ASSUME GateAssumption == Convictions \subseteq 0..10 /\ MaxCalls \in Nat /\ MaxEvidence \in Nat

VARIABLES
    decision,  \* DecisionLike of the brief: calls, quote
    gate       \* CounterfactualGateOutcome: meaningful, changed, passed

gateVars == <<decision, gate>>

-----------------------------------------------------------------------------
BriefCall == [id: CallIds, direction: {"overweight", "underweight", "neutral"},
              conviction: Convictions, evidence: 0..MaxEvidence]
GateNotRun == [meaningful |-> -1, changed |-> 0, passed |-> FALSE]

(* An operator that perturbs the first call, if there is one.              *)
OnTop(d, Change(_)) ==
    IF d.calls = <<>> THEN d ELSE [d EXCEPT !.calls[1] = Change(d.calls[1])]

DropTopEvidence(d) ==
    LET Change(c) == CASE c.evidence = 0 -> c
                       [] c.evidence = 1 -> [c EXCEPT !.evidence = 0, !.conviction = 0, !.direction = "neutral"]
                       [] OTHER -> [c EXCEPT !.evidence = @ - 1]
    IN OnTop(d, Change)

FlipTopDirection(d) ==
    LET Change(c) == [c EXCEPT !.direction = IF @ = "overweight" THEN "underweight" ELSE "overweight"]
    IN OnTop(d, Change)

RedactTopQuote(d) == [d EXCEPT !.quote = FALSE]

(* 0.4 less and at least 0; below 0.2 the call is neutral, and 0.6 - 0.4   *)
(* is below 0.2 in floating point.                                         *)
LowerTopConviction(d) ==
    LET Change(c) == [c EXCEPT !.conviction = IF @ < 4 THEN 0 ELSE @ - 4,
                               !.direction = IF c.conviction <= 6 THEN "neutral" ELSE @]
    IN OnTop(d, Change)

(* The fifth operator, which reverses the calls, is not meaningful and     *)
(* does not count.                                                         *)
Meaningful == <<DropTopEvidence(decision), FlipTopDirection(decision),
                RedactTopQuote(decision), LowerTopConviction(decision)>>

-----------------------------------------------------------------------------
CallIdsOf(d) == {d.calls[i].id : i \in DOMAIN d.calls}

(* The call an id stands for: the last one with it.                        *)
ById(d, id) == d.calls[SelectLastInSeq(d.calls, LAMBDA c : c.id = id)]

Distance(a, b) == IF a < b THEN b - a ELSE a - b

(* decision_delta and decisions_changed: an added or removed call, another *)
(* direction, or a conviction that moved by 0.2.                           *)
Changed(baseline, perturbed) ==
    \/ CallIdsOf(baseline) # CallIdsOf(perturbed)
    \/ \E id \in CallIdsOf(baseline) :
         LET b == ById(baseline, id)
             p == ById(perturbed, id)
         IN b.direction # p.direction \/ Distance(b.conviction, p.conviction) >= 2

(* Mutant of Outcome: a rate of exactly one half is not enough.            *)
OutcomeStrict(perturbed) ==
    LET meant == {n \in DOMAIN perturbed : perturbed[n] # decision}
        changed == {n \in meant : Changed(decision, perturbed[n])}
    IN [meaningful |-> Cardinality(meant), changed |-> Cardinality(changed),
        passed |-> meant = {} \/ 2 * Cardinality(changed) > Cardinality(meant)]

(* generate_perturbations and evaluate_gate: a perturbation that leaves    *)
(* the decision as it is does not count; at least half of the others must  *)
(* change it.                                                              *)
Outcome(perturbed) ==
    LET meant == {n \in DOMAIN perturbed : perturbed[n] # decision}
        changed == {n \in meant : Changed(decision, perturbed[n])}
    IN [meaningful |-> Cardinality(meant), changed |-> Cardinality(changed),
        passed |-> meant = {} \/ 2 * Cardinality(changed) >= Cardinality(meant)]

GateInit ==
    /\ decision \in [calls: SeqOf(BriefCall, MaxCalls), quote: BOOLEAN]
    /\ gate = GateNotRun

(* run_counterfactual_gate                                                 *)
RunGate ==
    /\ gate = GateNotRun
    /\ gate' = Outcome(Meaningful)
    /\ UNCHANGED decision

GateSpec == GateInit /\ [][RunGate]_gateVars

-----------------------------------------------------------------------------
(* What the verdict depends on: a brief whose first call has a direction   *)
(* or a conviction of 0.2 passes whatever the rest of it says; one fails   *)
(* only for a weak neutral first call, for a first call hidden by a later  *)
(* one with the same id, or for a quote without any call.                  *)
FailsForTopCall ==
    gate # GateNotRun /\ ~gate.passed =>
        IF decision.calls = <<>> THEN decision.quote
        ELSE LET top == decision.calls[1] IN
             \/ top.direction = "neutral" /\ top.conviction < 2
             \/ \E i \in 2..Len(decision.calls) : decision.calls[i].id = top.id

=============================================================================
