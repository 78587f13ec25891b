---------------------------- MODULE ResearchRun ----------------------------
(***************************************************************************)
(* One research run from POST /research-runs to a terminal status: the     *)
(* API's cancel and resume, the RQ jobs that execute the funnel            *)
(* (workers/tasks.py, strategies/funnel_research/core.py), and the status  *)
(* transitions of services/run_orchestrator.py they all go through.        *)
(*                                                                         *)
(* The row has no version column, is never locked, and Postgres runs at    *)
(* READ COMMITTED: each transition is a read in one step and, in a later   *)
(* one, a write by primary key that whatever happened in between does not  *)
(* stop.  RQ and Redis are external: a queue of jobs for this run, each    *)
(* taken once, whose on_failure callback runs when a job raises, times out *)
(* or loses its work horse.                                                *)
(***************************************************************************)
EXTENDS Naturals, Sequences, FiniteSets

CONSTANTS
    Workers,     \* RQ workers (docker-compose runs one)
    Users,       \* clients of the API
    Operations,  \* what they ask for: cancel, resume
    Kind,        \* the stages of the funnel, in order
    MaxJobs      \* bound on the jobs in the queue and on their way there

ASSUME RunAssumption ==
    /\ IsFiniteSet(Users) /\ Users # {}
    /\ Operations \subseteq {"cancel", "resume"}
    /\ Kind \in Seq({"macro", "fanout", "portfolio", "belief"}) /\ Len(Kind) > 0
    /\ MaxJobs \in Nat \ {0}

VARIABLES
    row,    \* research_runs.status
    jobs,   \* execute_research_run jobs waiting in the RQ queue
    done,   \* stages whose artifact is persisted
    work,   \* what each worker is doing with the run
    user    \* what each client's request is doing with it

vars == <<row, jobs, done, work, user>>

-----------------------------------------------------------------------------
Live == {"queued", "running"}
Terminal == {"succeeded", "failed", "cancelled"}
Status == Live \cup {"paused"} \cup Terminal

(* The stages that spend budget: macro, sector and company fan-out,        *)
(* portfolio, belief_update.  A fan-out turns failures of an item into a   *)
(* count, the others propagate them; belief_update leaves no artifact that *)
(* would stop it from being run again.                                     *)
Funnel == <<"macro", "fanout", "fanout", "portfolio", "belief">>
RunStages == DOMAIN Kind
LastStage == Len(Kind)

WorkerPC == {"idle", "load", "claim", "work", "check", "start",
             "pausing", "failing", "finishing", "writing"}

(* seen: the status a read left in hand, or the status about to be         *)
(* written; had: the stage's artifact was there when the stage began;      *)
(* fails: orchestrator.fail calls still to come before the job is over;    *)
(* late: stages begun on a halted run since a stage boundary that found it *)
(* live.                                                                   *)
Work == [pc: WorkerPC, stage: RunStages, seen: Status, had: BOOLEAN,
         fails: 0..2, late: Nat]
Idle == [pc |-> "idle", stage |-> 1, seen |-> "queued", had |-> FALSE,
         fails |-> 0, late |-> 0]

Request == [pc: {"idle", "read", "write", "enqueue"}, op: {"cancel", "resume"}]
NoRequest == [pc |-> "idle", op |-> "resume"]

TypeOK ==
    /\ row \in Status
    /\ jobs \in 0..MaxJobs
    /\ done \subseteq RunStages
    /\ work \in [Workers -> Work]
    /\ user \in [Users -> Request]

(* create_research_runs: the row is committed, the job not yet enqueued.   *)
Init ==
    /\ row = "queued" /\ jobs = 0 /\ done = {}
    /\ work = [w \in Workers |-> Idle]
    /\ \E creator \in Users :
          user = [u \in Users |->
                     IF u = creator THEN [pc |-> "enqueue", op |-> "resume"] ELSE NoRequest]

-----------------------------------------------------------------------------
(* The API: cancel_research_run, resume_research_run.                      *)

InFlight == {u \in Users : user[u].pc # "idle"}

(* The route's own check: 409 unless the run is in a status for op.        *)
Ask(u, op) ==
    /\ u \notin InFlight /\ op \in Operations
    /\ IF op = "cancel" THEN row \notin Terminal
       ELSE row = "paused" /\ jobs + Cardinality(InFlight) < MaxJobs
    /\ user' = [user EXCEPT ![u] = [pc |-> "read", op |-> op]]
    /\ UNCHANGED <<row, jobs, done, work>>

(* orchestrator.cancel and orchestrator.resume on what they read: resume   *)
(* returns silently from a run that is live again, and the route enqueues; *)
(* it raises, and the route answers 409, on a terminal one.                *)
AfterRead(op) ==
    IF op = "cancel" THEN IF row \in Terminal THEN "idle" ELSE "write"
    ELSE IF row \in Live THEN "enqueue"
    ELSE IF row = "paused" THEN "write" ELSE "idle"

UserRead(u) ==
    /\ user[u].pc = "read"
    /\ user' = [user EXCEPT ![u].pc = AfterRead(user[u].op)]
    /\ UNCHANGED <<row, jobs, done, work>>

UserWrite(u) ==
    /\ user[u].pc = "write"
    /\ row' = IF user[u].op = "cancel" THEN "cancelled" ELSE "queued"
    /\ user' = [user EXCEPT ![u].pc = IF user[u].op = "cancel" THEN "idle" ELSE "enqueue"]
    /\ UNCHANGED <<jobs, done, work>>

(* queue.enqueue, after the commit.                                        *)
Enqueue(u) ==
    /\ user[u].pc = "enqueue"
    /\ jobs' = jobs + 1
    /\ user' = [user EXCEPT ![u] = NoRequest]
    /\ UNCHANGED <<row, done, work>>

-----------------------------------------------------------------------------
(* The job.                                                                *)

(* w goes on at pc, with the other fields of its work as given.            *)
Goto(w, next) == work' = [work EXCEPT ![w] = next]

Take(w) ==
    /\ work[w].pc = "idle" /\ jobs > 0
    /\ jobs' = jobs - 1
    /\ Goto(w, [Idle EXCEPT !.pc = "load"])
    /\ UNCHANGED <<row, done, user>>

(* The statuses a job takes a run in.                                      *)
Startable == Live

(* _dispatch and the beginning of _run_funnel: the row is loaded.          *)
Load(w) ==
    /\ work[w].pc = "load"
    /\ Goto(w, IF row \in Startable THEN [work[w] EXCEPT !.pc = "claim", !.seen = row]
               ELSE Idle)
    /\ UNCHANGED <<row, jobs, done, user>>

(* The strategy, the API key, the scope or the load itself is no good: the *)
(* run is failed, twice when the failure also fails the job.               *)
LoadFails(w) ==
    /\ work[w].pc = "load"
    /\ \E n \in {0, 1} : Goto(w, [work[w] EXCEPT !.pc = "failing", !.fails = n])
    /\ UNCHANGED <<row, jobs, done, user>>

(* status = running and the look for a persisted macro brief are committed *)
(* together; the ORM writes the status only if it was not running before.  *)
Claim(w) ==
    /\ work[w].pc = "claim"
    /\ row' = IF work[w].seen = "queued" THEN "running" ELSE row
    /\ Goto(w, [work[w] EXCEPT !.pc = "work", !.seen = "queued", !.had = 1 \in done,
                               !.late = IF row' \in Live THEN 0 ELSE 1])
    /\ UNCHANGED <<jobs, done, user>>

(* Mutant of Halted: the run is never looked at.                           *)
HaltedNever == FALSE

(* _run_is_halted                                                          *)
Halted == row \notin Live

(* Mutant of Check: one stage too many.                                    *)
CheckPastLast(w) ==
    /\ work[w].pc = "check"
    /\ Goto(w, IF Halted THEN Idle
               ELSE IF work[w].stage > LastStage THEN [work[w] EXCEPT !.pc = "finishing"]
               ELSE [work[w] EXCEPT !.pc = "start", !.stage = @ + 1,
                                         !.late = IF row \in Live THEN 0 ELSE @])
    /\ UNCHANGED <<row, jobs, done, user>>

(* The look at the row at a stage boundary.                                *)
Check(w) ==
    /\ work[w].pc = "check"
    /\ Goto(w, IF Halted THEN Idle
               ELSE IF work[w].stage = LastStage THEN [work[w] EXCEPT !.pc = "finishing"]
               ELSE [work[w] EXCEPT !.pc = "start", !.stage = @ + 1,
                                         !.late = IF row \in Live THEN 0 ELSE @])
    /\ UNCHANGED <<row, jobs, done, user>>

StartStage(w) ==
    /\ work[w].pc = "start"
    /\ Goto(w, [work[w] EXCEPT !.pc = "work", !.had = work[w].stage \in done,
                               !.late = IF row \in Live THEN @ ELSE @ + 1])
    /\ UNCHANGED <<row, jobs, done, user>>

(* The stage of w is of one of the kinds.                                  *)
Is(w, kinds) == Kind[work[w].stage] \in kinds

(* Another job persisted the artifact since this stage looked for it: the  *)
(* unique constraint on run_id does not let a second one in.               *)
Conflict(w) ==
    Is(w, {"macro", "portfolio"}) /\ ~work[w].had /\ work[w].stage \in done

(* The stage returns; a fan-out may have skipped or lost some items.       *)
Complete(w) ==
    /\ work[w].pc = "work" /\ ~Conflict(w)
    /\ done' \in IF Is(w, {"belief"}) THEN {done}
                 ELSE IF Is(w, {"fanout"}) THEN {done, done \cup {work[w].stage}}
                 ELSE {done \cup {work[w].stage}}
    /\ Goto(w, [work[w] EXCEPT !.pc = "check", !.had = FALSE])
    /\ UNCHANGED <<row, jobs, user>>

(* The budget guard pauses or kills an LLM call (a stage resumed from its  *)
(* artifact makes none).  For macro and portfolio the error reaches        *)
(* run_macro_brief, which fails the run; the others return silently.       *)
FailsAfterHalt(w) == IF Is(w, {"macro", "portfolio"}) THEN 1 ELSE 0

BudgetPause(w) ==
    /\ work[w].pc = "work" /\ ~work[w].had
    /\ Goto(w, [work[w] EXCEPT !.pc = "pausing", !.fails = FailsAfterHalt(w)])
    /\ UNCHANGED <<row, jobs, done, user>>

BudgetKill(w) ==
    /\ work[w].pc = "work" /\ ~work[w].had
    /\ Goto(w, [work[w] EXCEPT !.pc = "failing", !.fails = FailsAfterHalt(w)])
    /\ UNCHANGED <<row, jobs, done, user>>

(* Mutant of StageFails: nobody fails the run when all items failed.       *)
StageFailsSilently(w) ==
    /\ work[w].pc = "work"
    /\ IF Is(w, {"fanout"}) THEN Goto(w, Idle)
       ELSE \E n \in {0, 1} : Goto(w, [work[w] EXCEPT !.pc = "failing", !.fails = n])
    /\ UNCHANGED <<row, jobs, done, user>>

(* The stage fails: no source delivered, all items of a fan-out failed, or *)
(* an error nobody expected, which also fails the job (n = 1).             *)
StageFails(w) ==
    /\ work[w].pc = "work"
    /\ \E n \in IF Conflict(w) \/ Is(w, {"portfolio", "belief"}) THEN {1} ELSE {0, 1} :
          Goto(w, [work[w] EXCEPT !.pc = "failing", !.fails = n])
    /\ UNCHANGED <<row, jobs, done, user>>

-----------------------------------------------------------------------------
(* orchestrator.pause and fail, and mark_run_succeeded, as a job calls     *)
(* them.                                                                   *)

(* What w is left with when its call returns.                              *)
CallOver(w) ==
    IF work[w].fails = 0 THEN Idle
    ELSE [work[w] EXCEPT !.pc = "failing", !.seen = "queued", !.fails = @ - 1]

Writing(w, s) == [work[w] EXCEPT !.pc = "writing", !.seen = s]

(* pause: nothing to do on a paused run; it raises on any but a running    *)
(* one.  In a fan-out that is one failed item more.                        *)
PauseRead(w) ==
    /\ work[w].pc = "pausing"
    /\ \/ row = "running" /\ Goto(w, Writing(w, "paused"))
       \/ row = "paused" /\ Goto(w, CallOver(w))
       \/ /\ row \notin {"running", "paused"}
          /\ IF Is(w, {"fanout"})
             THEN \E pc \in {"check", "failing"} : Goto(w, [work[w] EXCEPT !.pc = pc])
             ELSE Goto(w, [work[w] EXCEPT !.pc = "failing", !.fails = 1])
    /\ UNCHANGED <<row, jobs, done, user>>

(* Mutant of Failable: a paused run is failed, too.                        *)
FailableWithPaused == Live \cup {"paused"}

(* The statuses fail moves from.                                           *)
Failable == Live

FailRead(w) ==
    /\ work[w].pc = "failing"
    /\ Goto(w, IF row \in Failable THEN Writing(w, "failed") ELSE CallOver(w))
    /\ UNCHANGED <<row, jobs, done, user>>

FinishRead(w) ==
    /\ work[w].pc = "finishing"
    /\ Goto(w, IF row = "running" THEN Writing(w, "succeeded") ELSE Idle)
    /\ UNCHANGED <<row, jobs, done, user>>

Write(w) ==
    /\ work[w].pc = "writing"
    /\ row' = work[w].seen
    /\ Goto(w, CallOver(w))
    /\ UNCHANGED <<jobs, done, user>>

(* Mutant of OnFailure: the job has no failure callback.                   *)
OnFailureNone(w) == Idle

(* mark_run_failed_on_job_failure                                          *)
OnFailure(w) == [work[w] EXCEPT !.pc = "failing", !.fails = 0]

(* The job times out or its work horse dies.  While it is failing the run  *)
(* that makes no difference: the callback fails it instead.                *)
JobDies(w) ==
    /\ work[w].pc \notin {"idle", "failing"}
    /\ ~(work[w].pc = "writing" /\ work[w].seen = "failed")
    /\ Goto(w, OnFailure(w))
    /\ UNCHANGED <<row, jobs, done, user>>

-----------------------------------------------------------------------------
UserStep(u) == UserRead(u) \/ UserWrite(u) \/ Enqueue(u)

JobStep(w) ==
    \/ Take(w) \/ Load(w) \/ LoadFails(w) \/ Claim(w)
    \/ Check(w) \/ StartStage(w)
    \/ Complete(w) \/ BudgetPause(w) \/ BudgetKill(w) \/ StageFails(w)
    \/ PauseRead(w) \/ FailRead(w) \/ FinishRead(w) \/ Write(w)

Next ==
    \/ \E u \in Users : UserStep(u) \/ \E op \in Operations : Ask(u, op)
    \/ \E w \in Workers : JobStep(w) \/ JobDies(w)

Spec == Init /\ [][Next]_vars

-----------------------------------------------------------------------------
(* However cancels, resumes, pauses, failures and deaths of jobs           *)
(* interleave, a run shown as queued or running has a job in the queue or  *)
(* in a worker, or one that a request is about to enqueue: no run is       *)
(* stranded.                                                               *)
NoOrphan ==
    row \in Live =>
        \/ jobs > 0
        \/ \E w \in Workers : work[w].pc # "idle"
        \/ \E u \in Users : user[u].pc = "enqueue"

(* A run's record is well formed and backed by a job.                      *)
RunInv == TypeOK /\ NoOrphan

(* After the run was halted a job begins at most one more stage: "so       *)
(* subsequent stages do not consume further budget after a                 *)
(* pause/fail/cancel has already landed" (core.py:661).                    *)
HaltBounded == \A w \in Workers : work[w].late <= 1

(* A run that is queued or running does not stay so: it succeeds, fails,   *)
(* pauses or is cancelled.                                                 *)
Settles == row \in Live ~> row \notin Live

(* With one worker and one client at a time that does not cancel, the      *)
(* statuses somebody sees are those of the lifecycle: no transition is     *)
(* lost or overwritten, a paused run waits for its resume, and a terminal  *)
(* run stays as it is.                                                     *)
L == INSTANCE RunLifecycle WITH status <- row
ImplementsLifecycle == L!Lifecycle

(* A terminal run never moves again: "status transitions (queued ->        *)
(* running -> terminal)" (run_orchestrator.py:78).                         *)
TerminalFinal == [][(row \in Terminal) => row' = row]_row

=============================================================================
