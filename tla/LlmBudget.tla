----------------------------- MODULE LlmBudget -----------------------------
(***************************************************************************)
(* The budgeted LLM call (services/llm/client.py, services/budget.py,      *)
(* services/redis_lock.py): a caller asks OpenAI, then sums what its run,  *)
(* its stage and the day have cost so far, decides, and logs the call      *)
(* under the lock of its run.  Fanout composes these steps with its tasks. *)
(*                                                                         *)
(* llm_call_logs is modelled by the cost it adds up to per run and stage;  *)
(* all calls fall on one day.  The lock is the one make_local_             *)
(* budget_lock_factory gives: one asyncio.Lock per run, in one process.    *)
(***************************************************************************)
EXTENDS Naturals, FiniteSets, FiniteSetsExt

CONSTANTS
    Callers,    \* tasks that call the client, one call at a time each
    Runs,       \* research runs whose calls fall on this day
    RunOf,      \* the run of each caller
    Stages,     \* the stage labels of the calls
    Costs,      \* what a call may cost
    Caps        \* BudgetThresholds

ASSUME BudgetAssumption ==
    /\ IsFiniteSet(Runs) /\ IsFiniteSet(Stages)
    /\ RunOf \in [Callers -> Runs]
    /\ Costs \subseteq Nat /\ Costs # {}
    /\ Caps \in [hard: Nat \ {0}, catastrophic: Nat, daily: Nat,
                 stage: [Stages -> Nat]]

VARIABLES
    call,      \* the call each caller has in hand
    ledger     \* cost of the logged calls, by run and stage

llmVars == <<call, ledger>>

-----------------------------------------------------------------------------
RunCost(r) == SumFunctionOnSet(ledger[r], Stages)
DayCost == SumFunctionOnSet([r \in Runs |-> RunCost(r)], Runs)

(* calling: the request is out, or answered and waiting for the lock;      *)
(* locked: the sums are read and the log is not yet committed.             *)
CallPC == {"idle", "calling", "locked", "allowed", "paused", "killed", "error"}
Call == [pc: CallPC, stage: Stages, run: Nat, day: Nat, inStage: Nat]

CallingFor(s) == [pc |-> "calling", stage |-> s, run |-> 0, day |-> 0, inStage |-> 0]
(* A caller without a call; its stage label means nothing.                 *)
NoCall == [CallingFor(CHOOSE s \in Stages : TRUE) EXCEPT !.pc = "idle"]
Busy(c) == call[c].pc # "idle"

LockFree(r) == \A c \in Callers : RunOf[c] = r => call[c].pc # "locked"

(* Mutant of Evaluate: the daily cap is compared without the call's own    *)
(* cost.                                                                   *)
EvaluateDayBefore(c, cost) ==
    CASE call[c].day >= Caps.daily                                -> "killed"
      [] call[c].run + cost >= Caps.catastrophic                  -> "killed"
      [] call[c].inStage + cost >= Caps.stage[call[c].stage]      -> "paused"
      [] call[c].run + cost >= Caps.hard                          -> "paused"
      [] OTHER                                                    -> "allowed"

(* BudgetGuard.evaluate on the sums with the call's cost added; a warning  *)
(* is an allowed call.                                                     *)
Evaluate(c, cost) ==
    IF \/ call[c].day + cost >= Caps.daily
       \/ call[c].run + cost >= Caps.catastrophic
    THEN "killed"
    ELSE IF \/ call[c].inStage + cost >= Caps.stage[call[c].stage]
            \/ call[c].run + cost >= Caps.hard
    THEN "paused"
    ELSE "allowed"

Logged(c, cost) == [ledger EXCEPT ![RunOf[c]][call[c].stage] = @ + cost]

-----------------------------------------------------------------------------
(* An unknown model, or OpenAI raises: a log of no cost is committed       *)
(* outside the lock, and the error goes to the caller.                     *)
CallFails(c) ==
    /\ call[c].pc = "calling"
    /\ call' = [call EXCEPT ![c].pc = "error"]
    /\ UNCHANGED ledger

(* Mutant of ReadSums: without the lock.                                   *)
ReadSumsUnlocked(c) ==
    /\ call[c].pc = "calling"
    /\ call' = [call EXCEPT ![c] = [pc |-> "locked", stage |-> @.stage,
                                    run |-> RunCost(RunOf[c]), day |-> DayCost,
                                    inStage |-> ledger[RunOf[c]][@.stage]]]
    /\ UNCHANGED ledger

(* OpenAI answers, the lock is taken and the three sums are read.          *)
ReadSums(c) ==
    /\ call[c].pc = "calling"
    /\ LockFree(RunOf[c])
    /\ call' = [call EXCEPT ![c] = [pc |-> "locked", stage |-> @.stage,
                                    run |-> RunCost(RunOf[c]), day |-> DayCost,
                                    inStage |-> ledger[RunOf[c]][@.stage]]]
    /\ UNCHANGED ledger

(* The guard decides, the log is committed, the lock is released.          *)
Persist(c) ==
    /\ call[c].pc = "locked"
    /\ \E cost \in Costs :
          /\ ledger' = Logged(c, cost)
          /\ call' = [call EXCEPT ![c] = [CallingFor(@.stage) EXCEPT !.pc = Evaluate(c, cost)]]

CallStep(c) == CallFails(c) \/ ReadSums(c) \/ Persist(c)

(* The callers cs are cancelled.  Their calls are billed but not logged,   *)
(* except that the commit of one that was being logged may have got        *)
(* through.                                                                *)
Cancelled(cs) ==
    /\ call' = [c \in Callers |-> IF c \in cs THEN NoCall ELSE call[c]]
    /\ \/ UNCHANGED ledger
       \/ \E c \in cs, cost \in Costs :
             /\ call[c].pc = "locked"
             /\ ledger' = Logged(c, cost)

-----------------------------------------------------------------------------
(* The client by itself: each caller makes call after call until the       *)
(* budget stops it.                                                        *)

LlmInit ==
    /\ call = [c \in Callers |-> NoCall]
    /\ ledger = [r \in Runs |-> [s \in Stages |-> 0]]

(* complete is called.                                                     *)
Complete(c, s) ==
    /\ call[c].pc \in {"idle", "allowed", "error"}
    /\ call' = [call EXCEPT ![c] = CallingFor(s)]
    /\ UNCHANGED ledger

LlmNext == \E c \in Callers : CallStep(c) \/ \E s \in Stages : Complete(c, s)

LlmSpec == LlmInit /\ [][LlmNext]_llmVars

-----------------------------------------------------------------------------
(* The sums a decision is made on stay exact until its log is committed:   *)
(* no other call of the run is logged in between (redis_lock.py:3-5, "so   *)
(* sector fan-out cannot race the prior-sum + decision + persist           *)
(* sequence").                                                             *)
SumsCurrent ==
    \A c \in Callers :
        call[c].pc = "locked" =>
            /\ call[c].run = RunCost(RunOf[c])
            /\ call[c].inStage = ledger[RunOf[c]][call[c].stage]

(* The daily sum has no such lock (client.py:299): a call may be allowed   *)
(* after the day is paid for.  But it then overshoots the cap by no more   *)
(* than two calls of each other run's caller: one that was decided before  *)
(* and one that stops its caller.                                          *)
DailyOvershoot ==
    [][\A c \in Callers :
          call[c].pc = "locked" /\ call'[c].pc = "allowed" =>
              \E most \in Costs :
                  DayCost' < Caps.daily
                      + 2 * most * Cardinality({d \in Callers : RunOf[d] # RunOf[c]})]_llmVars

=============================================================================
